--------------------------- MODULE SessionInvariant ---------------------------
(***************************************************************************)
(* Why a Session is right, as long as keys wait for a prompt command's     *)
(* message: the inductive invariant behind the safety properties of        *)
(* Session.tla.  Each part says what one piece of the state knows of the   *)
(* others.                                                                 *)
(***************************************************************************)
EXTENDS Session

(* While a deep link still has to land, the Session is where it was launched*)
(* to: on that Kind's fetch, or on its failure.                            *)
DeepLinkInv ==
    pendingFieldPath # Null =>
        /\ pendingFieldPath = kind /\ switching = Null /\ view \in {"fetching", "failed"}
        /\ \A s \in Slots : inflight[s].type \in {"Idle", "Fetch", "Quit"}

(* There is a compose view exactly from openCompose to returnToPicker, a    *)
(* switch's fetch included, and none holds anything.                        *)
ComposedInv ==
    /\ (composed = Null) <=>
          (view \in {"picking", "failed"} \/ (view = "fetching" /\ switching = Null))
    /\ composed = Null =>
          draft = EmptyDraft /\ validation = Null /\ overlay = NoOverlays /\ popOut = Null
    /\ composed # Null =>
          PathOf[composed] \in documents /\ Filled(draft) \subseteq Admits[composed]

(* Whatever a switch is going to, the Kind on screen is served there.       *)
SwitchInv ==
    /\ switching # Null => switching \in Versions[composed]
    /\ overlay["pendingSwitch"] # Null =>
          /\ overlay["pendingSwitch"].target \in Versions[composed]
          /\ PathOf[overlay["pendingSwitch"].target] \in documents

(* An open overlay is the only one, in front of the compose view, and what  *)
(* it holds is about the Draft behind it.                                   *)
OverlayInv ==
    /\ \A o, p \in OpenOverlays : o = p
    /\ view # "composing" => Navigating
    /\ \A o \in {"editor", "keyPrompt", "unset"} :
          overlay[o] # Null => overlay[o] \in Admits[composed]
    /\ overlay["gate"] # Null => overlay["gate"] = MissingValidateMetadata(composed, draft)
    /\ DropConfirmIsCurrent

(* What a command was started for still is so when its message comes.       *)
StillSo(m) ==
    /\ m.type \in ComposeRequests \ {"VersionSwitchAccepted"} => Navigating
    /\ m.type = "ReturnToPicker" => Emit(draft) \subseteq waived
    /\ m.type = "VersionSwitchAccepted" =>
          /\ overlay["pendingSwitch"] # Null
          /\ \A f \in overlay["pendingSwitch"].drops : <<f, draft[f]>> \in waived
    /\ m.type = "VersionSwitchRequested" => m.kind \in Versions[composed]
    /\ m.type = "ValidateRequested" => MissingValidateMetadata(composed, draft) = {}
    /\ m.type = "Exec" => popOut # Null /\ popOut.file = m.file
    /\ m.type = "EditorFinished" => popOut # Null

PromptInv ==
    /\ \A s \in Slots : StillSo(inflight[s])
    /\ popOut # Null => popOut.field \in Admits[composed]

(* A decision about the way out has its message under way until it is taken,*)
(* and the Draft it was made about stays.                                   *)
Due == IF decision = "emit" THEN Emit(draft) ELSE Null
ExitInv ==
    /\ decision = "none" => manifest = Null /\ session \in {"running", "interrupted"}
    /\ decision = "emit" => view = "composing"
    /\ decision = "nothingToLose" => Filled(draft) = {} /\ switching = Null
    /\ decision # "none" /\ Running => \E s \in Slots : inflight[s].type \in {"ManifestEmitted", "Quit"}
    /\ \A s \in Flying("ManifestEmitted") :
          decision = "emit" /\ manifest = Null /\ inflight[s].manifest = Emit(draft)
    /\ \A s \in Flying("Quit") : decision # "none" /\ manifest = Due
    /\ session = "returned" => manifest = Due
    /\ stdout = IF session = "exited" THEN Due ELSE Null

(* What the shell, the compose view, the commands in flight and the temp    *)
(* files know of each other is so at every message (model.go, compose.go,   *)
(* versionswitch.go, validate.go, popout.go).                              *)
SessionInv ==
    /\ ConversationInv
    /\ LoadingIsAwaited
    /\ ComposedInv /\ SwitchInv /\ OverlayInv /\ PromptInv /\ ExitInv
    /\ TempFilesAreConsumed /\ DryRunHasItsMetadata

=============================================================================
