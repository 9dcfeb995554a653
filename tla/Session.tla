------------------------------ MODULE Session ------------------------------
(***************************************************************************)
(* One kubectl-craft Session: the Session shell (internal/tui/model.go),   *)
(* the compose view's modal grammar (compose.go), the version switch       *)
(* (versionswitch.go), the manual Validate (validate.go) and the $EDITOR   *)
(* pop-out (popout.go), over the Bubble Tea runtime that drives them.      *)
(*                                                                         *)
(* The runtime calls Update with one message at a time.  A command that    *)
(* Update returns runs on a goroutine of its own and sends its message     *)
(* later, in no order relative to the keyboard or to other commands.  The  *)
(* variable inflight holds the commands that have been started and whose   *)
(* message has not been handled; every action below is one call of Update. *)
(*                                                                         *)
(* Data is abstract.  A Draft maps the fields of a Kind to contents (Null  *)
(* where nothing is instantiated); rows, focus, scrolling, notices and     *)
(* rejections inside a prompt are left out.                                *)
(*                                                                         *)
(* An operator whose comment starts with "Seeded fault" is part of no      *)
(* behaviour: it is a plausible mistake in the definition that follows it, *)
(* kept to show that a property notices.                                   *)
(***************************************************************************)
EXTENDS Naturals, FiniteSets

CONSTANTS
    Kinds,            \* the picker rows: one per served (group, version, kind)
    PathOf,           \* the group-version path whose document serves a Kind
    Versions,         \* the served versions of a Kind's (group, kind), itself included
    Fault,            \* what is wrong with a Kind's Type Schema: see Faults
    Fields,           \* Draft positions a user can fill
    Admits,           \* the fields a Kind's Type Schema defines
    Shape,            \* how a field is composed: see Shapes
    Values,           \* contents a field can hold
    NameField,        \* metadata.name
    NamespaceField,   \* metadata.namespace
    NamespaceNeeded,  \* the Kinds whose Validate needs metadata.namespace: namespaced,
                      \* in a Session without a default namespace
    Files,            \* temp file names: the bound on pop-outs
    Slots,            \* the bound on commands in flight at the same time
    MaxSeq,           \* the bound on Validate flights
    TypeAhead,        \* may a key be handled before a prompt command's message?
    Null              \* Go's nil, and the absence of a content

Faults == {"none", "noTypeSchema", "noRoot"}
Shapes == {"leaf", "array", "map", "blind"}

ASSUME ConstantsAssumption ==
    /\ DOMAIN PathOf = Kinds
    /\ Versions \in [Kinds -> SUBSET Kinds]
    /\ Fault \in [Kinds -> Faults]
    /\ Admits \in [Kinds -> SUBSET Fields]
    /\ Shape \in [Fields -> Shapes]
    /\ NameField \in Fields
    /\ NamespaceField \in Fields
    /\ NamespaceNeeded \subseteq Kinds
    /\ MaxSeq \in Nat
    /\ TypeAhead \in BOOLEAN
    /\ Null \notin Kinds \cup Fields \cup Values \cup Files
    /\ {"noYAML", "badYAML"} \cap (Values \cup {Null}) = {}

VARIABLES
    \* The Session shell (tui.Model).
    view,              \* the open view
    kind,              \* the selected Kind, Null for none
    documents,         \* the group-version paths whose documents are parsed
    switching,         \* the target of a version switch that is fetching, or Null
    pendingFieldPath,  \* the Kind whose deep link still has to land, or Null
    validateSeq,       \* the number of the current Validate flight
    manifest,          \* the Emitted Manifest, Null until one is recorded
    \* The compose view (tui.compose).
    composed,          \* the Kind the compose view is over, Null for none
    draft,             \* the Draft
    overlay,           \* what each overlay holds, Null when it is closed
    validation,        \* the last Validate's rendered outcome, or Null
    popOut,            \* the pop-out that $EDITOR holds, or Null
    \* The runtime and the process around it.
    inflight,          \* what each command slot is running
    files,             \* the temp files and what they hold
    session,           \* is the program still running?
    stdout,            \* what was written to stdout, Null for nothing
    \* History, read by properties only.
    waived,            \* the contents the user last agreed to lose
    decision           \* how the user asked to end the Session

shellVars == <<view, kind, documents, switching, pendingFieldPath, validateSeq, manifest>>
composeVars == <<composed, draft, overlay, validation, popOut>>
processVars == <<session, stdout>>
historyVars == <<waived, decision>>
vars == <<shellVars, composeVars, inflight, files, processVars, historyVars>>

Paths == {PathOf[k] : k \in Kinds}
Views == {"picking", "fetching", "composing", "failed", "validating"}

-----------------------------------------------------------------------------
(* Drafts and Manifests.                                                   *)

Drafts == [Fields -> Values \cup {Null}]
EmptyDraft == [f \in Fields |-> Null]
Filled(d) == {f \in Fields : d[f] # Null}

(* Emission is sparse: a Manifest lists what the Draft holds, nothing else. *)
Manifests == SUBSET (Fields \X Values)

(* Seeded fault: the emission lists every field.                           *)
EmitDense(d) == {<<f, d[f]>> : f \in Fields}
Emit(d) == {<<f, d[f]>> : f \in Filled(d)}

(* The carry-over keeps every content the target's Type Schema defines and  *)
(* reports the rest as dropped.                                             *)

(* Seeded fault: what the target does not define is carried all the same.   *)
CarryEverything(d, target) == d
CarryOver(d, target) == [f \in Fields |-> IF f \in Admits[target] THEN d[f] ELSE Null]
Drops(d, target) == Filled(d) \ Admits[target]

(* Seeded fault: only the name is asked for.                               *)
MissingNameOnly(k, d) == {NameField} \ Filled(d)

(* The metadata a dry-run cannot run without.                              *)
MissingValidateMetadata(k, d) ==
    ({NameField} \cup (IF k \in NamespaceNeeded THEN {NamespaceField} ELSE {})) \ Filled(d)

-----------------------------------------------------------------------------
(* Overlays, in the order in which updateOverlay offers them a key.        *)

Rank == [help |-> 1, editor |-> 2, keyPrompt |-> 3, gate |-> 4, results |-> 5, unset |-> 6,
         pendingSwitch |-> 7, versionList |-> 8, exit |-> 9, discard |-> 10, search |-> 11]
Overlays == DOMAIN Rank

NoOverlays == [o \in Overlays |-> Null]
OpenOverlays == {o \in Overlays : overlay[o] # Null}
Open(o, content) == overlay' = [overlay EXCEPT ![o] = content]
Close(o) == Open(o, Null)

Navigating == OpenOverlays = {}
Answers(o) == overlay[o] # Null /\ \A p \in OpenOverlays : Rank[o] <= Rank[p]

Switches == [target : Kinds, carried : Drafts, drops : SUBSET Fields]

Holds(o) ==
    CASE o \in {"editor", "keyPrompt", "unset"} -> Fields
      [] o = "gate" -> SUBSET Fields
      [] o = "pendingSwitch" -> Switches
      [] OTHER -> {"open"}

-----------------------------------------------------------------------------
(* The last Validate's outcome.  of and kind are history: the Manifest and  *)
(* the Kind the dry-run was about.                                          *)

Outcomes == {"clean", "mapped", "unmappable", "summary", "unavailable"}
Validations == [outcome : Outcomes, stale : BOOLEAN, of : Manifests, kind : Kinds \cup {Null}]

(* An Invalid outcome with findings stays on screen, stale, once the Draft  *)
(* mutates; an outcome without findings is dropped.                         *)
Outdated(v) ==
    IF v # Null /\ v.outcome \in {"mapped", "unmappable"} THEN [v EXCEPT !.stale = TRUE] ELSE Null

-----------------------------------------------------------------------------
(* Commands in flight.  abandoned is history: the user has left the wait    *)
(* that this fetch was started for.                                        *)

Idle == [type |-> "Idle"]

Messages ==
    [type : {"ReturnToPicker", "VersionSwitchAccepted", "Quit"}]
    \cup [type : {"KindSelected", "VersionSwitchRequested"}, kind : Kinds]
    \cup [type : {"Fetch"}, kind : Kinds, abandoned : BOOLEAN]
    \cup [type : {"ValidateRequested", "ManifestEmitted"}, manifest : Manifests]
    \cup [type : {"Validate"}, seq : Nat, kind : Kinds \cup {Null}, manifest : Manifests]
    \cup [type : {"Exec"}, file : Files]
    \cup [type : {"EditorFinished"}, failed : BOOLEAN]

(* A fetch and a dry-run wait for the cluster; every other command returns  *)
(* its message at once, and is only outrun by keys that were typed ahead.   *)
Prompt(m) == m.type \notin {"Idle", "Fetch", "Validate"}

FileContents == Values \cup {"noYAML", "badYAML"}
PopOuts == [field : Fields, file : Files]

(* Go's nil is no struct.                                                  *)
ASSUME NilAssumption == Null \notin PopOuts \cup Validations

ShellOK ==
    /\ view \in Views
    /\ kind \in Kinds \cup {Null}
    /\ documents \subseteq Paths
    /\ switching \in Kinds \cup {Null}
    /\ pendingFieldPath \in Kinds \cup {Null}
    /\ validateSeq \in Nat
    /\ manifest \in Manifests \cup {Null}

ComposeOK ==
    /\ composed \in Kinds \cup {Null}
    /\ draft \in Drafts
    /\ overlay = [o \in Overlays |-> overlay[o]]
    /\ \A o \in Overlays : overlay[o] \in Holds(o) \cup {Null}
    /\ validation \in Validations \cup {Null}
    /\ popOut \in PopOuts \cup {Null}

RuntimeOK ==
    /\ inflight \in [Slots -> Messages \cup {Idle}]
    /\ files \in [Files -> FileContents \cup {Null}]
    /\ session \in {"running", "returned", "exited", "interrupted"}
    /\ stdout \in Manifests \cup {Null}

HistoryOK ==
    /\ waived \in Manifests
    /\ decision \in {"none", "nothingToLose", "emit", "discard"}

TypeOK == ShellOK /\ ComposeOK /\ RuntimeOK /\ HistoryOK

-----------------------------------------------------------------------------
(* The runtime.                                                            *)

Running == session = "running"

KeyArrives == Running /\ (TypeAhead \/ \A s \in Slots : ~Prompt(inflight[s]))

Launch(m) ==
    \E s \in Slots :
        /\ inflight[s] = Idle
        /\ inflight' = [inflight EXCEPT ![s] = m]

(* The command in slot s delivers its message; whatever command Update      *)
(* returns for it takes the slot over.                                      *)
Delivers(s, type) == Running /\ inflight[s].type = type
Becomes(s, m) == inflight' = [inflight EXCEPT ![s] = m]
Returns(s) == Becomes(s, Idle)

FetchOf(k) == [type |-> "Fetch", kind |-> k, abandoned |-> FALSE]

(* The user leaves a wait.  The fetch goes on: nothing cancels it.          *)
LeaveFetches ==
    inflight' = [s \in Slots |-> IF inflight[s].type = "Fetch"
                                 THEN [inflight[s] EXCEPT !.abandoned = TRUE]
                                 ELSE inflight[s]]

-----------------------------------------------------------------------------
(* Building and dropping the compose view.                                 *)

(* Seeded fault: the rebuilt view keeps the old view's overlays.            *)
ComposeOverKeepsOverlays(k, d) ==
    /\ composed' = k
    /\ draft' = d
    /\ validation' = Null
    /\ UNCHANGED <<overlay, popOut>>

ComposeOver(k, d) ==
    /\ composed' = k
    /\ draft' = d
    /\ overlay' = NoOverlays
    /\ validation' = Null
    /\ popOut' = Null

(* openCompose: an empty Draft over the Kind's field tree, or the error     *)
(* state when the document cannot serve the Kind.  The deep link lands here *)
(* and never again.                                                         *)
OpenCompose(k) ==
    \/ /\ Fault[k] = "none"
       /\ ComposeOver(k, EmptyDraft)
       /\ view' = "composing"
       /\ pendingFieldPath' = Null
    \/ /\ Fault[k] # "none"
       /\ view' = "failed"
       /\ UNCHANGED <<composeVars, pendingFieldPath>>

(* Seeded fault: the deep link survives the way back to the picker.         *)
ReturnToPickerKeepsLink ==
    /\ view' = "picking"
    /\ kind' = Null
    /\ switching' = Null
    /\ ComposeOver(Null, EmptyDraft)
    /\ UNCHANGED <<documents, pendingFieldPath, validateSeq, manifest>>

ReturnToPicker ==
    /\ view' = "picking"
    /\ kind' = Null
    /\ switching' = Null
    /\ pendingFieldPath' = Null
    /\ ComposeOver(Null, EmptyDraft)
    /\ UNCHANGED <<documents, validateSeq, manifest>>

-----------------------------------------------------------------------------
(* Leaving the Session.                                                    *)

AskToQuit(how) ==
    /\ Launch([type |-> "Quit"])
    /\ decision' = how
    /\ UNCHANGED <<shellVars, composeVars, files, processVars, waived>>

(* Ctrl-c quits from every view, whatever is open.                         *)
CtrlC == KeyArrives /\ AskToQuit("discard")

QuitMsg(s) ==
    /\ Delivers(s, "Quit")
    /\ Returns(s)
    /\ session' = "returned"
    /\ UNCHANGED <<shellVars, composeVars, files, stdout, historyVars>>

(* The program is interrupted from outside: Run returns an error.          *)
Interrupt ==
    /\ Running
    /\ session' = "interrupted"
    /\ UNCHANGED <<shellVars, composeVars, inflight, files, stdout, historyVars>>

(* runSession, once the shell has returned and the alt screen is closed.   *)
WriteManifest ==
    /\ session = "returned"
    /\ session' = "exited"
    /\ stdout' = manifest
    /\ UNCHANGED <<shellVars, composeVars, inflight, files, historyVars>>

-----------------------------------------------------------------------------
(* The Kind picker and the loading of a Kind.                              *)

DismissPicker == KeyArrives /\ view = "picking" /\ AskToQuit("nothingToLose")

SelectHighlighted(k) ==
    /\ KeyArrives /\ view = "picking"
    /\ Launch([type |-> "KindSelected", kind |-> k])
    /\ UNCHANGED <<shellVars, composeVars, files, processVars, historyVars>>

OpenKind(s) ==
    LET k == inflight[s].kind IN
    /\ Delivers(s, "KindSelected")
    /\ kind' = k
    /\ \/ /\ PathOf[k] \in documents
          /\ OpenCompose(k)
          /\ Returns(s)
       \/ /\ PathOf[k] \notin documents
          /\ view' = "fetching"
          /\ Becomes(s, FetchOf(k))
          /\ UNCHANGED <<composeVars, pendingFieldPath>>
    /\ UNCHANGED <<documents, switching, validateSeq, manifest, files, processVars, historyVars>>

(* The loading and error states' keys, with no version switch fetching.    *)
InTransit == view \in {"fetching", "failed"}

QuitTransit == KeyArrives /\ InTransit /\ switching = Null /\ AskToQuit("nothingToLose")

LeaveTransit ==
    /\ KeyArrives /\ InTransit /\ switching = Null
    /\ ReturnToPicker
    /\ LeaveFetches
    /\ UNCHANGED <<files, processVars, historyVars>>

(* Seeded fault: the cancelled switch stays recorded.                       *)
CancelSwitchKeepsTarget ==
    /\ KeyArrives /\ InTransit /\ switching # Null
    /\ view' = "composing"
    /\ LeaveFetches
    /\ UNCHANGED <<kind, documents, switching, pendingFieldPath, validateSeq, manifest>>
    /\ UNCHANGED <<composeVars, files, processVars, historyVars>>

(* Seeded fault: the loading state of a switch is left to the picker.       *)
CancelSwitchToPicker ==
    /\ KeyArrives /\ InTransit /\ switching # Null
    /\ ReturnToPicker
    /\ LeaveFetches
    /\ UNCHANGED <<files, processVars, historyVars>>

CancelSwitch ==
    /\ KeyArrives /\ InTransit /\ switching # Null
    /\ switching' = Null
    /\ view' = "composing"
    /\ LeaveFetches
    /\ UNCHANGED <<kind, documents, pendingFieldPath, validateSeq, manifest>>
    /\ UNCHANGED <<composeVars, files, processVars, historyVars>>

-----------------------------------------------------------------------------
(* The version switch.                                                     *)

(* commitVersionSwitch rebuilds the compose view over the carried Draft, or *)
(* keeps composing when the target's root cannot be expanded.               *)
CommitVersionSwitch(target, carried) ==
    \/ /\ Fault[target] # "noRoot"
       /\ ComposeOver(target, carried)
       /\ kind' = target
    \/ /\ Fault[target] = "noRoot"
       /\ Close("pendingSwitch")
       /\ UNCHANGED <<kind, composed, draft, validation, popOut>>

(* resolveVersionSwitch: nothing dropped commits at once, anything else     *)
(* opens the drop confirm.                                                  *)
ResolveVersionSwitch(target) ==
    LET carried == CarryOver(draft, target)
        drops == Drops(draft, target)
    IN
    /\ view' = "composing"
    /\ \/ /\ Fault[target] = "noTypeSchema"
          /\ UNCHANGED <<kind, composeVars>>
       \/ /\ Fault[target] # "noTypeSchema" /\ drops = {}
          /\ CommitVersionSwitch(target, carried)
       \/ /\ Fault[target] # "noTypeSchema" /\ drops # {}
          /\ Open("pendingSwitch", [target |-> target, carried |-> carried, drops |-> drops])
          /\ UNCHANGED <<kind, composed, draft, validation, popOut>>

StartVersionSwitch(s) ==
    LET target == inflight[s].kind IN
    /\ Delivers(s, "VersionSwitchRequested")
    /\ \/ /\ view # "composing"
          /\ Returns(s)
          /\ UNCHANGED <<view, kind, switching, composeVars>>
       \/ /\ view = "composing" /\ PathOf[target] \in documents
          /\ ResolveVersionSwitch(target)
          /\ Returns(s)
          /\ UNCHANGED switching
       \/ /\ view = "composing" /\ PathOf[target] \notin documents
          /\ switching' = target
          /\ view' = "fetching"
          /\ Becomes(s, FetchOf(target))
          /\ UNCHANGED <<kind, composeVars>>
    /\ UNCHANGED <<documents, pendingFieldPath, validateSeq, manifest>>
    /\ UNCHANGED <<files, processVars, historyVars>>

AcceptVersionSwitch(s) ==
    LET pending == overlay["pendingSwitch"] IN
    /\ Delivers(s, "VersionSwitchAccepted")
    /\ Returns(s)
    /\ \/ /\ view = "composing" /\ pending # Null
          /\ CommitVersionSwitch(pending.target, pending.carried)
       \/ /\ view # "composing" \/ pending = Null
          /\ UNCHANGED <<kind, composeVars>>
    /\ waived' = {}
    /\ UNCHANGED <<view, documents, switching, pendingFieldPath, validateSeq, manifest>>
    /\ UNCHANGED <<files, processVars, decision>>

-----------------------------------------------------------------------------
(* The group document's fetch lands or fails.                              *)

(* Seeded fault: the target of a switch is not looked at.                   *)
AwaitsKindOnly(k) == view = "fetching" /\ k = kind
Awaits(k) == view = "fetching" /\ k = (IF switching # Null THEN switching ELSE kind)

DocumentFetched(s) ==
    LET k == inflight[s].kind IN
    /\ Delivers(s, "Fetch")
    /\ Returns(s)
    /\ documents' = documents \cup {PathOf[k]}
    /\ \/ /\ ~Awaits(k)
          /\ UNCHANGED <<view, kind, switching, pendingFieldPath, composeVars>>
       \/ /\ Awaits(k) /\ switching # Null
          /\ switching' = Null
          /\ ResolveVersionSwitch(k)
          /\ UNCHANGED pendingFieldPath
       \/ /\ Awaits(k) /\ switching = Null
          /\ OpenCompose(k)
          /\ UNCHANGED <<kind, switching>>
    /\ UNCHANGED <<validateSeq, manifest, files, processVars, historyVars>>

DocumentFetchFailed(s) ==
    LET k == inflight[s].kind IN
    /\ Delivers(s, "Fetch")
    /\ Returns(s)
    /\ \/ /\ ~Awaits(k)
          /\ UNCHANGED <<view, switching>>
       \/ /\ Awaits(k) /\ switching # Null
          /\ switching' = Null
          /\ view' = "composing"
       \/ /\ Awaits(k) /\ switching = Null
          /\ view' = "failed"
          /\ UNCHANGED switching
    /\ UNCHANGED <<kind, documents, pendingFieldPath, validateSeq, manifest>>
    /\ UNCHANGED <<composeVars, files, processVars, historyVars>>

-----------------------------------------------------------------------------
(* Returning to the picker from the compose view.  The message has no guard *)
(* of its own.                                                             *)

ReturnToPickerMsg(s) ==
    /\ Delivers(s, "ReturnToPicker")
    /\ Returns(s)
    /\ ReturnToPicker
    /\ waived' = {}
    /\ UNCHANGED <<files, processVars, decision>>

-----------------------------------------------------------------------------
(* The compose view's keys.  A key goes to the topmost overlay, and to      *)
(* navigate mode's command map when none is open.                          *)

KeyTo(o) == KeyArrives /\ view = "composing" /\ Answers(o)
Command == KeyArrives /\ view = "composing" /\ Navigating

StaysInCompose == UNCHANGED <<shellVars, inflight, files, processVars, historyVars>>
ComposeOnly == UNCHANGED <<shellVars, files, processVars>>

(* A confirmed mutation: set, graft, append, add key, unset.               *)
Mutate(f, content) ==
    /\ draft' = [draft EXCEPT ![f] = content]
    /\ validation' = Outdated(validation)
    /\ UNCHANGED <<composed, popOut>>

OpenOnly(o, content) ==
    /\ Open(o, content)
    /\ UNCHANGED <<composed, draft, validation, popOut>>

(* Esc, or the overlay's other way out without a choice.                   *)
Dismiss(o) == KeyTo(o) /\ OpenOnly(o, Null) /\ StaysInCompose

ConfirmEditor ==
    /\ KeyTo("editor")
    /\ \E v \in Values : Mutate(overlay["editor"], v)
    /\ Close("editor")
    /\ StaysInCompose

ConfirmKeyPrompt ==
    /\ KeyTo("keyPrompt")
    /\ \E v \in Values \ {draft[overlay["keyPrompt"]]} : Mutate(overlay["keyPrompt"], v)
    /\ Close("keyPrompt")
    /\ StaysInCompose

(* What an unset can leave: a scalar or a graft goes whole, a collection    *)
(* may keep other items or keys.                                           *)
Remaining(f) ==
    IF Shape[f] \in {"array", "map"} THEN (Values \cup {Null}) \ {draft[f]} ELSE {Null}

Unset(f) == \E content \in Remaining(f) : Mutate(f, content)

ConfirmUnset ==
    /\ KeyTo("unset")
    /\ Unset(overlay["unset"])
    /\ Close("unset")
    /\ StaysInCompose

(* Room under MaxSeq for one more flight: its start, its cancellation, and  *)
(* those of the requests that are still on their way.                      *)
CanValidate ==
    validateSeq + 2 * (1 + Cardinality({s \in Slots : inflight[s].type = "ValidateRequested"}))
        <= MaxSeq

RequestValidate(d) ==
    /\ CanValidate
    /\ Launch([type |-> "ValidateRequested", manifest |-> Emit(d)])

(* The gate asks for metadata.name first.                                  *)
AskedFor(missing) == IF NameField \in missing THEN NameField ELSE NamespaceField

(* Seeded fault: the request is built from the Draft as it was asked about. *)
ConfirmGateBeforeAnswer ==
    LET missing == overlay["gate"]
        f == AskedFor(missing)
    IN
    /\ KeyTo("gate") /\ f \in Admits[composed]
    /\ \E v \in Values : Mutate(f, v)
    /\ \/ missing # {f} /\ Open("gate", missing \ {f}) /\ UNCHANGED inflight
       \/ missing = {f} /\ Close("gate") /\ RequestValidate(draft)
    /\ ComposeOnly
    /\ UNCHANGED historyVars

ConfirmGate ==
    LET missing == overlay["gate"]
        f == AskedFor(missing)
        rest == missing \ {f}
    IN
    /\ KeyTo("gate") /\ f \in Admits[composed]
    /\ \E v \in Values : Mutate(f, v)
    /\ \/ rest # {} /\ Open("gate", rest) /\ UNCHANGED inflight
       \/ rest = {} /\ Close("gate") /\ RequestValidate(draft')
    /\ ComposeOnly
    /\ UNCHANGED historyVars

(* Seeded fault: the list stays open behind the switch.                     *)
SelectVersionKeepsList(k) ==
    /\ KeyTo("versionList") /\ k \in Versions[composed] \ {composed}
    /\ Launch([type |-> "VersionSwitchRequested", kind |-> k])
    /\ ComposeOnly
    /\ UNCHANGED <<composeVars, historyVars>>

SelectVersion(k) ==
    /\ KeyTo("versionList") /\ k \in Versions[composed] \ {composed}
    /\ OpenOnly("versionList", Null)
    /\ Launch([type |-> "VersionSwitchRequested", kind |-> k])
    /\ ComposeOnly
    /\ UNCHANGED historyVars

(* Enter on the drop confirm leaves it open: the message closes it.        *)
AcceptDrops ==
    /\ KeyTo("pendingSwitch")
    /\ Launch([type |-> "VersionSwitchAccepted"])
    /\ waived' = {<<f, draft[f]>> : f \in overlay["pendingSwitch"].drops \cap Filled(draft)}
    /\ ComposeOnly
    /\ UNCHANGED <<composeVars, decision>>

ConfirmDiscard ==
    /\ KeyTo("discard")
    /\ OpenOnly("discard", Null)
    /\ Launch([type |-> "ReturnToPicker"])
    /\ waived' = Emit(draft)
    /\ ComposeOnly
    /\ UNCHANGED decision

EmitDraft ==
    /\ Launch([type |-> "ManifestEmitted", manifest |-> Emit(draft)])
    /\ decision' = "emit"
    /\ ComposeOnly
    /\ UNCHANGED waived

ChooseEmit == KeyTo("exit") /\ OpenOnly("exit", Null) /\ EmitDraft

ChooseDiscard ==
    /\ KeyTo("exit")
    /\ OpenOnly("exit", Null)
    /\ Launch([type |-> "Quit"])
    /\ decision' = "discard"
    /\ ComposeOnly
    /\ UNCHANGED waived

-----------------------------------------------------------------------------
(* Navigate mode.                                                          *)

(* Seeded fault: q quits whatever the Draft holds.                          *)
PressQuitUnasked == Command /\ AskToQuit("nothingToLose")

PressQuit ==
    \/ /\ Command /\ Filled(draft) = {}
       /\ AskToQuit("nothingToLose")
    \/ /\ Command /\ Filled(draft) # {}
       /\ OpenOnly("exit", "open")
       /\ StaysInCompose

EmitAndQuit == Command /\ EmitDraft /\ UNCHANGED composeVars

PressEscape ==
    \/ /\ Command /\ Filled(draft) = {}
       /\ Launch([type |-> "ReturnToPicker"])
       /\ waived' = {}
       /\ ComposeOnly
       /\ UNCHANGED <<composeVars, decision>>
    \/ /\ Command /\ Filled(draft) # {}
       /\ OpenOnly("discard", "open")
       /\ StaysInCompose

PressEnter(f) ==
    /\ Command /\ f \in Admits[composed] /\ Shape[f] \in {"leaf", "blind"}
    /\ OpenOnly("editor", f)
    /\ StaysInCompose

PressAdd(f) ==
    /\ Command /\ f \in Admits[composed]
    /\ \/ /\ Shape[f] = "array"
          /\ \E v \in Values \ {draft[f]} : Mutate(f, v)
          /\ UNCHANGED overlay
       \/ /\ Shape[f] = "map"
          /\ OpenOnly("keyPrompt", f)
    /\ StaysInCompose

(* A scalar, an empty item and an empty key go at once; a graft and a       *)
(* subtree with values under it ask first.                                 *)
PressUnset(f) ==
    /\ Command /\ f \in Filled(draft)
    /\ \/ /\ Shape[f] # "blind"
          /\ Unset(f)
          /\ UNCHANGED overlay
       \/ /\ Shape[f] # "leaf"
          /\ OpenOnly("unset", f)
    /\ StaysInCompose

PressValidate ==
    LET missing == MissingValidateMetadata(composed, draft) IN
    /\ Command
    /\ \/ /\ missing # {}
          /\ OpenOnly("gate", missing)
          /\ UNCHANGED inflight
       \/ /\ missing = {}
          /\ RequestValidate(draft)
          /\ UNCHANGED composeVars
    /\ ComposeOnly
    /\ UNCHANGED historyVars

PressResults ==
    /\ Command /\ validation # Null /\ validation.outcome # "clean"
    /\ OpenOnly("results", "open")
    /\ StaysInCompose

OpenVersionList ==
    /\ Command /\ Versions[composed] \ {composed} # {}
    /\ OpenOnly("versionList", "open")
    /\ StaysInCompose

(* The two overlays that hold nothing the Draft depends on.                *)
OpenAside ==
    /\ Command
    /\ \E o \in {"help", "search"} : OpenOnly(o, "open")
    /\ StaysInCompose

-----------------------------------------------------------------------------
(* The manual Validate's flight.                                           *)

(* startValidate.  The message waits for the server in its slot.           *)
StartValidate(s) ==
    /\ Delivers(s, "ValidateRequested")
    /\ \/ /\ view # "composing"
          /\ Returns(s)
          /\ UNCHANGED <<view, validateSeq>>
       \/ /\ view = "composing"
          /\ validateSeq' = validateSeq + 1
          /\ view' = "validating"
          /\ Becomes(s, [type |-> "Validate", seq |-> validateSeq + 1,
                         kind |-> kind, manifest |-> inflight[s].manifest])
    /\ UNCHANGED <<kind, documents, switching, pendingFieldPath, manifest>>
    /\ UNCHANGED <<composeVars, files, processVars, historyVars>>

(* validateResolved: whatever the server answered, or that it did not.  An  *)
(* outcome with anything the tree cannot show opens the results pane.       *)
(* Seeded faults: any flight lands; the number was taken before it grew.    *)
LandsAnyFlight(m) == view = "validating"
LandsEarlierFlight(m) == view = "validating" /\ m.seq = validateSeq - 1
Lands(m) == view = "validating" /\ m.seq = validateSeq

Rendered(m, outcome) ==
    [outcome |-> outcome, stale |-> FALSE, of |-> m.manifest, kind |-> m.kind]

ValidateResolved(s) ==
    LET m == inflight[s] IN
    /\ Delivers(s, "Validate")
    /\ Returns(s)
    /\ \/ /\ ~Lands(m)
          /\ UNCHANGED <<view, composeVars>>
       \/ /\ Lands(m)
          /\ view' = "composing"
          /\ \E outcome \in Outcomes :
                /\ validation' = Rendered(m, outcome)
                /\ IF outcome \in {"unmappable", "summary", "unavailable"}
                      THEN Open("results", "open") ELSE UNCHANGED overlay
          /\ UNCHANGED <<composed, draft, popOut>>
    /\ UNCHANGED <<kind, documents, switching, pendingFieldPath, validateSeq, manifest>>
    /\ UNCHANGED <<files, processVars, historyVars>>

(* Esc or q while the dry-run is out.                                      *)
CancelValidate ==
    /\ KeyArrives /\ view = "validating"
    /\ validateSeq' = validateSeq + 1
    /\ view' = "composing"
    /\ UNCHANGED <<kind, documents, switching, pendingFieldPath, manifest>>
    /\ UNCHANGED <<composeVars, inflight, files, processVars, historyVars>>

-----------------------------------------------------------------------------
(* The emit ramp.                                                          *)

(* Seeded fault: the Manifest is recorded and the program goes on.          *)
ManifestEmittedStays(s) ==
    /\ Delivers(s, "ManifestEmitted")
    /\ manifest' = inflight[s].manifest
    /\ Returns(s)
    /\ UNCHANGED <<view, kind, documents, switching, pendingFieldPath, validateSeq>>
    /\ UNCHANGED <<composeVars, files, processVars, historyVars>>

ManifestEmitted(s) ==
    /\ Delivers(s, "ManifestEmitted")
    /\ manifest' = inflight[s].manifest
    /\ Becomes(s, [type |-> "Quit"])
    /\ UNCHANGED <<view, kind, documents, switching, pendingFieldPath, validateSeq>>
    /\ UNCHANGED <<composeVars, files, processVars, historyVars>>

-----------------------------------------------------------------------------
(* The $EDITOR pop-out.                                                    *)

(* A graft is written out for editing, a comment when there is none.       *)
Spelled(content) == IF content = Null THEN "noYAML" ELSE content

PressPopOut(f) ==
    /\ Command /\ f \in Admits[composed] /\ Shape[f] = "blind"
    /\ \E file \in Files :
          /\ files[file] = Null
          /\ files' = [files EXCEPT ![file] = Spelled(draft[f])]
          /\ popOut' = [field |-> f, file |-> file]
          /\ Launch([type |-> "Exec", file |-> file])
    /\ UNCHANGED <<composed, draft, overlay, validation>>
    /\ UNCHANGED <<shellVars, processVars, historyVars>>

(* The runtime hands the terminal to the editor and handles nothing else    *)
(* until it exits.  The editor saves what it likes, also where the file had *)
(* been removed, or fails.                                                 *)
Exec(s) ==
    /\ Delivers(s, "Exec")
    /\ \E failed \in BOOLEAN : Becomes(s, [type |-> "EditorFinished", failed |-> failed])
    /\ \E content \in FileContents \cup {files[inflight[s].file]} :
          files' = [files EXCEPT ![inflight[s].file] = content]
    /\ UNCHANGED <<shellVars, composeVars, processVars, historyVars>>

(* editorFinished: the file the compose view remembers is read and removed. *)
(* It may be gone; what it holds may be no YAML value, or be rejected.      *)
(* Seeded fault: a rejected file is left behind.                            *)
ConsumeKeepsRejected(pop, failed) ==
    LET content == files[pop.file]
        rejected == ~failed /\ content = "badYAML"
        grafted == ~failed /\ content \in Values
    IN
    /\ popOut' = Null
    /\ files' = IF rejected THEN files ELSE [files EXCEPT ![pop.file] = Null]
    /\ overlay' = IF rejected THEN [overlay EXCEPT !.editor = pop.field] ELSE overlay
    /\ draft' = IF grafted THEN [draft EXCEPT ![pop.field] = content] ELSE draft
    /\ validation' = IF grafted THEN Outdated(validation) ELSE validation
    /\ UNCHANGED composed

Consume(pop, failed) ==
    LET content == files[pop.file] IN
    /\ popOut' = Null
    /\ files' = [files EXCEPT ![pop.file] = Null]
    /\ UNCHANGED composed
    /\ \/ /\ failed \/ content \in {Null, "noYAML"}
          /\ UNCHANGED <<draft, overlay, validation>>
       \/ /\ ~failed /\ content = "badYAML"
          /\ Open("editor", pop.field)
          /\ UNCHANGED <<draft, validation>>
       \/ /\ ~failed /\ content \in Values
          /\ draft' = [draft EXCEPT ![pop.field] = content]
          /\ validation' = Outdated(validation)
          /\ UNCHANGED overlay

EditorFinished(s) ==
    /\ Delivers(s, "EditorFinished")
    /\ Returns(s)
    /\ \/ /\ view # "composing" \/ popOut = Null
          /\ UNCHANGED <<composeVars, files>>
       \/ /\ view = "composing" /\ popOut # Null
          /\ Consume(popOut, inflight[s].failed)
    /\ UNCHANGED <<shellVars, processVars, historyVars>>

-----------------------------------------------------------------------------
(* The Session.                                                            *)

(* The launch: on the picker, or on a deep link's Kind with its fetch under *)
(* way; the link names a Field Path or only the Kind.                       *)
Init ==
    /\ documents = {} /\ switching = Null /\ validateSeq = 0 /\ manifest = Null
    /\ composed = Null /\ draft = EmptyDraft /\ overlay = NoOverlays
    /\ validation = Null /\ popOut = Null
    /\ files = [f \in Files |-> Null]
    /\ session = "running" /\ stdout = Null
    /\ waived = {} /\ decision = "none"
    /\ \/ /\ view = "picking" /\ kind = Null /\ pendingFieldPath = Null
          /\ inflight = [s \in Slots |-> Idle]
       \/ \E k \in Kinds, first \in Slots :
             /\ view = "fetching" /\ kind = k
             /\ pendingFieldPath \in {k, Null}
             /\ inflight = [s \in Slots |-> IF s = first THEN FetchOf(k) ELSE Idle]

ShellKey ==
    \/ CtrlC \/ DismissPicker \/ QuitTransit \/ LeaveTransit
    \/ CancelSwitch \/ CancelValidate
    \/ \E k \in Kinds : SelectHighlighted(k)

OverlayKey ==
    \/ \E o \in Overlays : Dismiss(o)
    \/ ConfirmEditor \/ ConfirmKeyPrompt \/ ConfirmUnset \/ ConfirmGate
    \/ AcceptDrops \/ ConfirmDiscard \/ ChooseEmit \/ ChooseDiscard
    \/ \E k \in Kinds : SelectVersion(k)

CommandKey ==
    \/ PressQuit \/ EmitAndQuit \/ PressEscape \/ PressValidate \/ PressResults
    \/ OpenVersionList \/ OpenAside
    \/ \E f \in Fields : PressEnter(f) \/ PressAdd(f) \/ PressUnset(f) \/ PressPopOut(f)

Delivery(s) ==
    \/ OpenKind(s) \/ DocumentFetched(s) \/ DocumentFetchFailed(s)
    \/ ReturnToPickerMsg(s) \/ StartVersionSwitch(s) \/ AcceptVersionSwitch(s)
    \/ StartValidate(s) \/ ValidateResolved(s) \/ ManifestEmitted(s)
    \/ Exec(s) \/ EditorFinished(s) \/ QuitMsg(s)

Ended == session \in {"exited", "interrupted"} /\ UNCHANGED vars

Next ==
    \/ ShellKey \/ OverlayKey \/ CommandKey
    \/ \E s \in Slots : Delivery(s)
    \/ Interrupt \/ WriteManifest \/ Ended

(* A command that was started returns, and the program finishes what it     *)
(* does on its way out.  Nobody has to press a key.                         *)
Fairness == (\A s \in Slots : WF_vars(Delivery(s))) /\ WF_vars(WriteManifest)

Spec == Init /\ [][Next]_vars
FairSpec == Spec /\ Fairness

-----------------------------------------------------------------------------
(* Properties.                                                             *)

Flying(type) == {s \in Slots : inflight[s].type = type}

(* A loading state can be left without the user: the fetch it waits for is  *)
(* on its way.  (openKind, startVersionSwitch and the drops of stale fetches*)
(* in documentFetched and documentFetchFailed.)                            *)
LoadingIsAwaited ==
    /\ view = "fetching" => \E s \in Flying("Fetch") : Awaits(inflight[s].kind)
    /\ switching # Null => view = "fetching"

(* A deep link's Field Path can only land on the Kind it names: whoever     *)
(* leaves that Kind's loading state or error state forgets the landing.     *)
(* (openCompose, returnToPicker.)                                          *)
DeepLinkLandsAtHome ==
    pendingFieldPath # Null =>
        pendingFieldPath = kind /\ switching = Null /\ view \in {"fetching", "failed"}

(* What the compose view shows belongs together: its Kind is the Session's  *)
(* Kind, the Kind's document is parsed, and the Draft holds only what the   *)
(* Kind's Type Schema defines.  (openCompose, commitVersionSwitch,          *)
(* editorFinished.)                                                        *)
ComposeFitsItsKind ==
    view \in {"composing", "validating"} =>
        /\ composed = kind /\ composed \in Kinds
        /\ PathOf[composed] \in documents
        /\ Filled(draft) \subseteq Admits[composed]

(* Only one overlay is ever open.  (compose.update and every message that   *)
(* opens an overlay.)                                                      *)
OneOverlay == Cardinality(OpenOverlays) <= 1

(* A Validate outcome that is not marked stale is about the Manifest the    *)
(* Session would emit now, for the Kind it composes.  (requestValidate,     *)
(* startValidate, validateResolved, markValidationOutdated.)               *)
FindingsSpeakForDraft ==
    validation # Null /\ ~validation.stale =>
        validation.of = Emit(draft) /\ validation.kind = composed

(* Why it does, as long as keys wait for a prompt command's message: there  *)
(* is one such message at most, it belongs to the view that started it, and *)
(* so nothing can touch the Draft while a request or a dry-run is out.      *)
ComposeRequests ==
    {"ReturnToPicker", "VersionSwitchRequested", "VersionSwitchAccepted",
     "ValidateRequested", "ManifestEmitted", "Exec", "EditorFinished"}

OnePrompt == \A s, t \in Slots : Prompt(inflight[s]) /\ Prompt(inflight[t]) => s = t

PromptsBelong ==
    \A s \in Slots :
        /\ inflight[s].type = "KindSelected" => view = "picking"
        /\ inflight[s].type \in ComposeRequests => view = "composing"

KindsAgree ==
    /\ view \in {"composing", "validating"} \/ switching # Null => kind = composed
    /\ switching # Null => view = "fetching"

FlightsSpeak ==
    \A s \in Slots :
        LET m == inflight[s] IN
        /\ m.type = "ValidateRequested" => m.manifest = Emit(draft)
        /\ m.type = "Validate" =>
              /\ m.seq <= validateSeq
              /\ Lands(m) => m.manifest = Emit(draft) /\ m.kind = composed

ConversationInv ==
    OnePrompt /\ PromptsBelong /\ KindsAgree /\ FlightsSpeak /\ FindingsSpeakForDraft

(* The drop confirm lists what accepting it drops: the carry-over it holds  *)
(* is the carry-over of the Draft on screen.  (resolveVersionSwitch,        *)
(* commitVersionSwitch.)                                                   *)
DropConfirmIsCurrent ==
    LET pending == overlay["pendingSwitch"] IN
    pending # Null =>
        /\ pending.carried = CarryOver(draft, pending.target)
        /\ pending.drops = Drops(draft, pending.target)
        /\ pending.drops # {}

(* No dry-run leaves without the metadata it cannot run without.            *)
(* (pressValidate, confirmGatePrompt.)                                     *)
DryRunHasItsMetadata ==
    \A s \in Flying("Validate") :
        LET sent == inflight[s] IN
        \A f \in {NameField} \cup (IF sent.kind \in NamespaceNeeded THEN {NamespaceField} ELSE {}) :
            \E v \in Values : <<f, v>> \in sent.manifest

(* Every temp file is going to be removed: its editor has yet to run, or    *)
(* has run and the file is the one that the end of the pop-out removes.     *)
(* (pressPopOut, editorFinished.)                                          *)
TempFilesAreConsumed ==
    \A file \in Files : files[file] # Null =>
        \/ \E s \in Flying("Exec") : inflight[s].file = file
        \/ popOut # Null /\ popOut.file = file /\ Flying("EditorFinished") # {}

(* Stdout gets the Draft that was on screen when the user asked to emit,    *)
(* and nothing on every other way out; only an empty Draft goes unasked.    *)
(* (emitAndQuit, pressQuit, runSession.)                                   *)
ExitIsHonoured ==
    /\ session = "exited" => stdout = IF decision = "emit" THEN Emit(draft) ELSE Null
    /\ session \in {"running", "interrupted"} => stdout = Null
    /\ session = "exited" /\ decision = "nothingToLose" => Filled(draft) = {}

(* Content leaves the Draft only where the user edits that content, or when *)
(* the user has agreed to lose it: a switch that fails or is cancelled, a   *)
(* late message, the way back to the picker lose nothing else.              *)
Edits(f) ==
    \/ ConfirmEditor /\ overlay["editor"] = f
    \/ ConfirmKeyPrompt /\ overlay["keyPrompt"] = f
    \/ ConfirmUnset /\ overlay["unset"] = f
    \/ ConfirmGate /\ AskedFor(overlay["gate"]) = f
    \/ PressAdd(f) \/ PressUnset(f)
    \/ popOut # Null /\ popOut.field = f /\ \E s \in Slots : EditorFinished(s)

NoSilentLoss ==
    [][\A f \in Filled(draft) :
          draft'[f] # draft[f] => Edits(f) \/ <<f, draft[f]>> \in waived]_vars

(* The failure of a fetch that the user no longer waits for changes nothing *)
(* on screen.  (documentFetchFailed.)                                      *)
LateFailureIsDropped ==
    [][\A s \in Flying("Fetch") :
          inflight[s].abandoned /\ DocumentFetchFailed(s) => UNCHANGED <<view, switching>>]_vars

(* Every wait ends, and the program ends once it was asked to.              *)
Settled(v) == view # v \/ ~Running
LoadingEnds == (view = "fetching") ~> Settled("fetching")
DryRunEnds == (view = "validating") ~> Settled("validating")
QuitEnds == (decision # "none") ~> ~Running


=============================================================================
