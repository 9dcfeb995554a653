--------------------------- MODULE SessionProofs ---------------------------
(***************************************************************************)
(* What holds of Session for every value of its constants.                 *)
(***************************************************************************)
EXTENDS Session, TLAPS

-----------------------------------------------------------------------------
(* Data.                                                                   *)

(* The emission of a Draft is a Manifest. *)
LEMMA EmitType == ASSUME NEW d \in Drafts PROVE Emit(d) \in Manifests
BY DEF Emit, Filled, Drafts, Manifests

LEMMA PairsType ==
    ASSUME NEW d \in Drafts, NEW S
    PROVE  {<<f, d[f]>> : f \in S \cap Filled(d)} \in Manifests
BY DEF Filled, Drafts, Manifests

LEMMA CarryOverType ==
    ASSUME NEW d \in Drafts, NEW k \in Kinds
    PROVE  /\ CarryOver(d, k) \in Drafts
           /\ Drops(d, k) \in SUBSET Fields
BY DEF CarryOver, Drops, Filled, Drafts

LEMMA EmptyDraftType == EmptyDraft \in Drafts
BY DEF EmptyDraft, Drafts

LEMMA MutatedType ==
    ASSUME NEW d \in Drafts, NEW f, NEW c \in Values \cup {Null}
    PROVE  [d EXCEPT ![f] = c] \in Drafts
BY DEF Drafts

LEMMA OutdatedType ==
    ASSUME NEW v \in Validations \cup {Null}
    PROVE  Outdated(v) \in Validations \cup {Null}
BY DEF Outdated, Validations

(* Overlays. *)
LEMMA OverlayNames ==
    Overlays = {"help", "editor", "keyPrompt", "gate", "results", "unset", "pendingSwitch",
                "versionList", "exit", "discard", "search"}
BY DEF Overlays, Rank

OverlayOK(ov) ==
    /\ ov = [o \in Overlays |-> ov[o]]
    /\ \A o \in Overlays : ov[o] \in Holds(o) \cup {Null}

LEMMA NoOverlaysType == OverlayOK(NoOverlays)
BY DEF OverlayOK, NoOverlays

LEMMA OpenType ==
    ASSUME OverlayOK(overlay), NEW o \in Overlays, NEW c \in Holds(o) \cup {Null}, Open(o, c)
    PROVE  OverlayOK(overlay')
BY DEF OverlayOK, Open

(* Messages. *)
LEMMA MessageTypes ==
    /\ \A k \in Kinds : FetchOf(k) \in Messages
    /\ \A k \in Kinds : [type |-> "KindSelected", kind |-> k] \in Messages
    /\ \A k \in Kinds : [type |-> "VersionSwitchRequested", kind |-> k] \in Messages
    /\ \A m \in Manifests : [type |-> "ValidateRequested", manifest |-> m] \in Messages
    /\ \A m \in Manifests : [type |-> "ManifestEmitted", manifest |-> m] \in Messages
    /\ \A n \in Nat, k \in Kinds \cup {Null}, m \in Manifests :
          [type |-> "Validate", seq |-> n, kind |-> k, manifest |-> m] \in Messages
    /\ \A file \in Files : [type |-> "Exec", file |-> file] \in Messages
    /\ \A failed \in BOOLEAN : [type |-> "EditorFinished", failed |-> failed] \in Messages
    /\ [type |-> "ReturnToPicker"] \in Messages
    /\ [type |-> "VersionSwitchAccepted"] \in Messages
    /\ [type |-> "Quit"] \in Messages
BY DEF Messages, FetchOf

LEMMA MessageFields ==
    ASSUME NEW m \in Messages \cup {Idle}
    PROVE  /\ m.type \in {"KindSelected", "VersionSwitchRequested", "Fetch"} => m.kind \in Kinds
           /\ m.type \in {"ValidateRequested", "ManifestEmitted"} => m.manifest \in Manifests
           /\ m.type = "Validate" =>
                 m.seq \in Nat /\ m.kind \in Kinds \cup {Null} /\ m.manifest \in Manifests
           /\ m.type = "Exec" => m.file \in Files
           /\ m.type = "EditorFinished" => m.failed \in BOOLEAN
           /\ m.type = "Fetch" => [m EXCEPT !.abandoned = TRUE] \in Messages
<1>1. CASE m \in [type : {"ReturnToPicker", "VersionSwitchAccepted", "Quit"}] \cup {Idle}
  BY <1>1 DEF Idle
<1>2. CASE m \in [type : {"KindSelected", "VersionSwitchRequested"}, kind : Kinds]
  BY <1>2
<1>3. CASE m \in [type : {"Fetch"}, kind : Kinds, abandoned : BOOLEAN]
  <2>1. [m EXCEPT !.abandoned = TRUE] \in [type : {"Fetch"}, kind : Kinds, abandoned : BOOLEAN]
    BY <1>3
  <2>. QED  BY <1>3, <2>1 DEF Messages
<1>4. CASE m \in [type : {"ValidateRequested", "ManifestEmitted"}, manifest : Manifests]
  BY <1>4
<1>5. CASE m \in [type : {"Validate"}, seq : Nat, kind : Kinds \cup {Null}, manifest : Manifests]
  BY <1>5
<1>6. CASE m \in [type : {"Exec"}, file : Files]
  BY <1>6
<1>7. CASE m \in [type : {"EditorFinished"}, failed : BOOLEAN]
  BY <1>7
<1>. QED  BY <1>1, <1>2, <1>3, <1>4, <1>5, <1>6, <1>7 DEF Messages

LEMMA IdleIsOne == Idle \in Messages \cup {Idle}
OBVIOUS

InFlightOK == inflight \in [Slots -> Messages \cup {Idle}]

LEMMA LaunchType ==
    ASSUME InFlightOK, NEW m \in Messages, Launch(m)
    PROVE  InFlightOK'
BY DEF InFlightOK, Launch

LEMMA BecomesType ==
    ASSUME InFlightOK, NEW s \in Slots, NEW m \in Messages \cup {Idle}, Becomes(s, m)
    PROVE  InFlightOK'
BY DEF InFlightOK, Becomes

LEMMA ReturnsType ==
    ASSUME InFlightOK, NEW s \in Slots, Returns(s)
    PROVE  InFlightOK'
BY BecomesType DEF Returns

LEMMA LeaveFetchesType ==
    ASSUME InFlightOK, LeaveFetches
    PROVE  InFlightOK'
BY MessageFields DEF InFlightOK, LeaveFetches

-----------------------------------------------------------------------------
(* The parts of a step.                                                    *)

LEMMA ComposeOverType ==
    ASSUME NEW k \in Kinds \cup {Null}, NEW d \in Drafts, ComposeOver(k, d)
    PROVE  ComposeOK'
BY NoOverlaysType DEF ComposeOver, ComposeOK, OverlayOK

LEMMA OpenOnlyType ==
    ASSUME ComposeOK, NEW o \in Overlays, NEW c \in Holds(o) \cup {Null}, OpenOnly(o, c)
    PROVE  ComposeOK'
BY OpenType DEF OpenOnly, ComposeOK, OverlayOK

LEMMA MutateType ==
    ASSUME ComposeOK, NEW f \in Fields, NEW c \in Values \cup {Null}, Mutate(f, c)
    PROVE  /\ composed' \in Kinds \cup {Null}
           /\ draft' \in Drafts
           /\ validation' \in Validations \cup {Null}
           /\ popOut' \in PopOuts \cup {Null}
BY MutatedType, OutdatedType DEF Mutate, ComposeOK

LEMMA ReturnToPickerType ==
    ASSUME ShellOK, ReturnToPicker
    PROVE  ShellOK' /\ ComposeOK'
<1>1. ComposeOK'
  BY ComposeOverType, EmptyDraftType DEF ReturnToPicker
<1>. QED  BY <1>1 DEF ReturnToPicker, ShellOK, Views

LEMMA OpenComposeType ==
    ASSUME ComposeOK, ShellOK, NEW k \in Kinds, OpenCompose(k)
    PROVE  /\ ComposeOK'
           /\ view' \in Views
           /\ pendingFieldPath' \in Kinds \cup {Null}
<1>1. CASE ComposeOver(k, EmptyDraft) /\ view' = "composing" /\ pendingFieldPath' = Null
  BY <1>1, ComposeOverType, EmptyDraftType DEF Views
<1>2. CASE view' = "failed" /\ UNCHANGED <<composeVars, pendingFieldPath>>
  BY <1>2 DEF Views, composeVars, ComposeOK, ShellOK
<1>. QED  BY <1>1, <1>2 DEF OpenCompose

LEMMA CommitType ==
    ASSUME ComposeOK, ShellOK, NEW k \in Kinds, NEW d \in Drafts, CommitVersionSwitch(k, d)
    PROVE  ComposeOK' /\ kind' \in Kinds \cup {Null}
<1>1. CASE ComposeOver(k, d) /\ kind' = k
  BY <1>1, ComposeOverType
<1>2. CASE Close("pendingSwitch") /\ UNCHANGED <<kind, composed, draft, validation, popOut>>
  <2>1. OpenOnly("pendingSwitch", Null)
    BY <1>2 DEF Close, OpenOnly
  <2>. QED  BY <1>2, <2>1, OpenOnlyType, OverlayNames DEF ShellOK
<1>. QED  BY <1>1, <1>2 DEF CommitVersionSwitch

LEMMA ResolveType ==
    ASSUME ComposeOK, ShellOK, NEW k \in Kinds, ResolveVersionSwitch(k)
    PROVE  ComposeOK' /\ kind' \in Kinds \cup {Null} /\ view' \in Views
<1>. DEFINE carried == CarryOver(draft, k)
            drops == Drops(draft, k)
            pending == [target |-> k, carried |-> carried, drops |-> drops]
<1>1. carried \in Drafts /\ drops \in SUBSET Fields
  BY CarryOverType DEF ComposeOK
<1>2. CASE UNCHANGED <<kind, composeVars>>
  BY <1>2 DEF ResolveVersionSwitch, Views, composeVars, ComposeOK, ShellOK
<1>3. CASE CommitVersionSwitch(k, carried)
  BY <1>1, <1>3, CommitType DEF ResolveVersionSwitch, Views
<1>4. CASE Open("pendingSwitch", pending) /\ UNCHANGED <<kind, composed, draft, validation, popOut>>
  <2>1. OpenOnly("pendingSwitch", pending)
    BY <1>4 DEF OpenOnly
  <2>2. pending \in Holds("pendingSwitch")
    BY <1>1 DEF Holds, Switches
  <2>3. ComposeOK'
    BY <2>1, <2>2, OpenOnlyType, OverlayNames
  <2>. QED  BY <1>4, <2>3 DEF ResolveVersionSwitch, Views, ShellOK
<1>. QED  BY <1>2, <1>3, <1>4 DEF ResolveVersionSwitch

-----------------------------------------------------------------------------
(* Type correctness.                                                       *)

LEMMA InitType == Init => TypeOK
<1>. SUFFICES ASSUME Init PROVE TypeOK
  OBVIOUS
<1>1. ShellOK
  BY DEF Init, ShellOK, Views, Paths
<1>2. ComposeOK
  BY EmptyDraftType, NoOverlaysType DEF Init, ComposeOK, OverlayOK
<1>3. InFlightOK
  BY MessageTypes DEF Init, InFlightOK
<1>4. RuntimeOK
  BY <1>3 DEF Init, RuntimeOK, InFlightOK
<1>5. HistoryOK
  BY DEF Init, HistoryOK, Manifests
<1>. QED  BY <1>1, <1>2, <1>4, <1>5 DEF TypeOK

(* The parts that an action hands on unchanged keep their type. *)
LEMMA UnchangedType ==
    /\ ShellOK /\ UNCHANGED shellVars => ShellOK'
    /\ ComposeOK /\ UNCHANGED composeVars => ComposeOK'
    /\ InFlightOK /\ UNCHANGED inflight => InFlightOK'
    /\ HistoryOK /\ UNCHANGED historyVars => HistoryOK'
    /\ RuntimeOK /\ InFlightOK' /\ UNCHANGED <<files, processVars>> => RuntimeOK'
    /\ RuntimeOK => InFlightOK
BY DEF ShellOK, shellVars, ComposeOK, composeVars, InFlightOK, HistoryOK, historyVars,
       RuntimeOK, processVars

LEMMA AskToQuitType ==
    ASSUME TypeOK, NEW how \in {"nothingToLose", "discard"}, AskToQuit(how)
    PROVE  TypeOK'
<1>1. InFlightOK'
  BY LaunchType, MessageTypes, UnchangedType DEF AskToQuit, TypeOK
<1>2. HistoryOK'
  BY DEF AskToQuit, TypeOK, HistoryOK
<1>. QED  BY <1>1, <1>2, UnchangedType DEF AskToQuit, TypeOK

LEMMA ShellKeyType == TypeOK /\ ShellKey => TypeOK'
<1>. SUFFICES ASSUME TypeOK, ShellKey PROVE TypeOK'
  OBVIOUS
<1>1. CASE CtrlC
  BY <1>1, AskToQuitType DEF CtrlC
<1>2. CASE DismissPicker
  BY <1>2, AskToQuitType DEF DismissPicker
<1>3. CASE QuitTransit
  BY <1>3, AskToQuitType DEF QuitTransit
<1>4. CASE LeaveTransit
  <2>1. ShellOK' /\ ComposeOK'
    BY <1>4, ReturnToPickerType DEF LeaveTransit, TypeOK
  <2>2. InFlightOK'
    BY <1>4, LeaveFetchesType, UnchangedType DEF LeaveTransit, TypeOK
  <2>. QED  BY <1>4, <2>1, <2>2, UnchangedType DEF LeaveTransit, TypeOK
<1>5. CASE CancelSwitch
  <2>1. ShellOK'
    BY <1>5 DEF CancelSwitch, TypeOK, ShellOK, Views
  <2>2. InFlightOK'
    BY <1>5, LeaveFetchesType, UnchangedType DEF CancelSwitch, TypeOK
  <2>. QED  BY <1>5, <2>1, <2>2, UnchangedType DEF CancelSwitch, TypeOK
<1>6. CASE CancelValidate
  <2>1. ShellOK'
    BY <1>6 DEF CancelValidate, TypeOK, ShellOK, Views
  <2>. QED  BY <1>6, <2>1, UnchangedType DEF CancelValidate, TypeOK
<1>7. ASSUME NEW k \in Kinds, SelectHighlighted(k) PROVE TypeOK'
  <2>1. InFlightOK'
    BY <1>7, LaunchType, MessageTypes, UnchangedType DEF SelectHighlighted, TypeOK
  <2>. QED  BY <1>7, <2>1, UnchangedType DEF SelectHighlighted, TypeOK
<1>. QED  BY <1>1, <1>2, <1>3, <1>4, <1>5, <1>6, <1>7 DEF ShellKey

(* A key that only touches the compose view. *)
LEMMA StaysType ==
    ASSUME TypeOK, ComposeOK', StaysInCompose
    PROVE  TypeOK'
BY UnchangedType DEF StaysInCompose, TypeOK

(* A key that also starts a command. *)
LEMMA ComposeOnlyType ==
    ASSUME TypeOK, ComposeOK', InFlightOK', HistoryOK', ComposeOnly
    PROVE  TypeOK'
BY UnchangedType DEF ComposeOnly, TypeOK

(* A mutation that also closes or reopens an overlay. *)
LEMMA MutateAndOpenType ==
    ASSUME TypeOK, NEW f \in Fields, NEW v \in Values \cup {Null}, Mutate(f, v),
           NEW o \in Overlays, NEW c \in Holds(o) \cup {Null}, Open(o, c)
    PROVE  ComposeOK'
<1>1. OverlayOK(overlay)'
  BY OpenType DEF TypeOK, ComposeOK, OverlayOK
<1>. QED  BY <1>1, MutateType DEF TypeOK, ComposeOK, OverlayOK

LEMMA OverlayContents ==
    ASSUME ComposeOK, NEW o \in Overlays, KeyTo(o)
    PROVE  overlay[o] \in Holds(o)
BY DEF ComposeOK, KeyTo, Answers

LEMMA RequestValidateType ==
    ASSUME TypeOK, NEW d \in Drafts, RequestValidate(d)
    PROVE  InFlightOK'
BY EmitType, LaunchType, MessageTypes, UnchangedType DEF RequestValidate, TypeOK

LEMMA EmitDraftType ==
    ASSUME TypeOK, EmitDraft
    PROVE  InFlightOK' /\ HistoryOK'
<1>1. Emit(draft) \in Manifests
  BY EmitType DEF TypeOK, ComposeOK
<1>2. InFlightOK'
  BY <1>1, LaunchType, MessageTypes, UnchangedType DEF EmitDraft, TypeOK
<1>. QED  BY <1>2 DEF EmitDraft, TypeOK, HistoryOK

LEMMA RemainingType ==
    ASSUME NEW f PROVE Remaining(f) \subseteq Values \cup {Null}
BY DEF Remaining

LEMMA OverlayKeyType == TypeOK /\ OverlayKey => TypeOK'
<1>. SUFFICES ASSUME TypeOK, OverlayKey PROVE TypeOK'
  OBVIOUS
<1>. USE OverlayNames
<1>1. ASSUME NEW o \in Overlays, Dismiss(o) PROVE TypeOK'
  <2>1. ComposeOK'
    BY <1>1, OpenOnlyType DEF Dismiss, TypeOK
  <2>. QED  BY <1>1, <2>1, StaysType DEF Dismiss
<1>2. CASE ConfirmEditor
  <2>1. overlay["editor"] \in Fields
    BY <1>2, OverlayContents DEF ConfirmEditor, TypeOK, Holds
  <2>2. ComposeOK'
    BY <1>2, <2>1, MutateAndOpenType DEF ConfirmEditor, Close
  <2>. QED  BY <1>2, <2>2, StaysType DEF ConfirmEditor
<1>3. CASE ConfirmKeyPrompt
  <2>1. overlay["keyPrompt"] \in Fields
    BY <1>3, OverlayContents DEF ConfirmKeyPrompt, TypeOK, Holds
  <2>2. ComposeOK'
    BY <1>3, <2>1, MutateAndOpenType DEF ConfirmKeyPrompt, Close
  <2>. QED  BY <1>3, <2>2, StaysType DEF ConfirmKeyPrompt
<1>4. CASE ConfirmUnset
  <2>1. overlay["unset"] \in Fields
    BY <1>4, OverlayContents DEF ConfirmUnset, TypeOK, Holds
  <2>2. ComposeOK'
    BY <1>4, <2>1, RemainingType, MutateAndOpenType DEF ConfirmUnset, Unset, Close
  <2>. QED  BY <1>4, <2>2, StaysType DEF ConfirmUnset
<1>5. CASE ConfirmGate
  <2>. DEFINE missing == overlay["gate"]
              f == AskedFor(missing)
              rest == missing \ {f}
  <2>1. missing \in SUBSET Fields /\ f \in Fields
    BY <1>5, OverlayContents, ConstantsAssumption DEF ConfirmGate, TypeOK, Holds, AskedFor
  <2>2. PICK v \in Values : Mutate(f, v)
    BY <1>5 DEF ConfirmGate
  <2>3. draft' \in Drafts
    BY <2>1, <2>2, MutateType DEF TypeOK
  <2>4. CASE rest # {} /\ Open("gate", rest) /\ UNCHANGED inflight
    <3>1. rest \in Holds("gate")
      BY <2>1 DEF Holds
    <3>2. ComposeOK'
      BY <2>1, <2>2, <2>4, <3>1, MutateAndOpenType
    <3>. QED  BY <1>5, <2>4, <3>2, ComposeOnlyType, UnchangedType DEF ConfirmGate, TypeOK
  <2>5. CASE rest = {} /\ Close("gate") /\ RequestValidate(draft')
    <3>1. ComposeOK'
      BY <2>1, <2>2, <2>5, MutateAndOpenType DEF Close
    <3>2. InFlightOK'
      BY <2>3, <2>5, RequestValidateType
    <3>. QED  BY <1>5, <3>1, <3>2, ComposeOnlyType, UnchangedType DEF ConfirmGate, TypeOK
  <2>. QED  BY <1>5, <2>4, <2>5 DEF ConfirmGate
<1>6. CASE AcceptDrops
  <2>1. ComposeOK'
    BY <1>6, UnchangedType DEF AcceptDrops, TypeOK
  <2>2. InFlightOK'
    BY <1>6, LaunchType, MessageTypes, UnchangedType DEF AcceptDrops, TypeOK
  <2>3. waived' \in Manifests
    BY <1>6, PairsType DEF AcceptDrops, TypeOK, ComposeOK
  <2>4. HistoryOK'
    BY <1>6, <2>3 DEF AcceptDrops, TypeOK, HistoryOK
  <2>. QED  BY <1>6, <2>1, <2>2, <2>4, ComposeOnlyType DEF AcceptDrops
<1>7. CASE ConfirmDiscard
  <2>1. ComposeOK'
    BY <1>7, OpenOnlyType DEF ConfirmDiscard, TypeOK
  <2>2. InFlightOK'
    BY <1>7, LaunchType, MessageTypes, UnchangedType DEF ConfirmDiscard, TypeOK
  <2>3. HistoryOK'
    BY <1>7, EmitType DEF ConfirmDiscard, TypeOK, HistoryOK, ComposeOK
  <2>. QED  BY <1>7, <2>1, <2>2, <2>3, ComposeOnlyType DEF ConfirmDiscard
<1>8. CASE ChooseEmit
  <2>1. ComposeOK'
    BY <1>8, OpenOnlyType DEF ChooseEmit, TypeOK
  <2>. QED  BY <1>8, <2>1, EmitDraftType, ComposeOnlyType DEF ChooseEmit, EmitDraft
<1>9. CASE ChooseDiscard
  <2>1. ComposeOK'
    BY <1>9, OpenOnlyType DEF ChooseDiscard, TypeOK
  <2>2. InFlightOK'
    BY <1>9, LaunchType, MessageTypes, UnchangedType DEF ChooseDiscard, TypeOK
  <2>3. HistoryOK'
    BY <1>9 DEF ChooseDiscard, TypeOK, HistoryOK
  <2>. QED  BY <1>9, <2>1, <2>2, <2>3, ComposeOnlyType DEF ChooseDiscard
<1>10. ASSUME NEW k \in Kinds, SelectVersion(k) PROVE TypeOK'
  <2>1. ComposeOK'
    BY <1>10, OpenOnlyType DEF SelectVersion, TypeOK
  <2>2. InFlightOK'
    BY <1>10, LaunchType, MessageTypes, UnchangedType DEF SelectVersion, TypeOK
  <2>. QED  BY <1>10, <2>1, <2>2, ComposeOnlyType, UnchangedType DEF SelectVersion, TypeOK
<1>. QED  BY <1>1, <1>2, <1>3, <1>4, <1>5, <1>6, <1>7, <1>8, <1>9, <1>10 DEF OverlayKey

LEMMA CommandKeyType == TypeOK /\ CommandKey => TypeOK'
<1>. SUFFICES ASSUME TypeOK, CommandKey PROVE TypeOK'
  OBVIOUS
<1>. USE OverlayNames
<1>1. CASE PressQuit
  <2>1. CASE AskToQuit("nothingToLose")
    BY <2>1, AskToQuitType
  <2>2. CASE OpenOnly("exit", "open") /\ StaysInCompose
    BY <2>2, OpenOnlyType, StaysType DEF TypeOK, Holds
  <2>. QED  BY <1>1, <2>1, <2>2 DEF PressQuit
<1>2. CASE EmitAndQuit
  BY <1>2, EmitDraftType, UnchangedType, ComposeOnlyType DEF EmitAndQuit, EmitDraft, TypeOK
<1>3. CASE PressEscape
  <2>1. CASE /\ Launch([type |-> "ReturnToPicker"]) /\ waived' = {}
             /\ ComposeOnly /\ UNCHANGED <<composeVars, decision>>
    <3>1. InFlightOK'
      BY <2>1, LaunchType, MessageTypes, UnchangedType DEF TypeOK
    <3>2. HistoryOK'
      BY <2>1 DEF TypeOK, HistoryOK, Manifests
    <3>. QED  BY <2>1, <3>1, <3>2, UnchangedType, ComposeOnlyType DEF TypeOK
  <2>2. CASE OpenOnly("discard", "open") /\ StaysInCompose
    BY <2>2, OpenOnlyType, StaysType DEF TypeOK, Holds
  <2>. QED  BY <1>3, <2>1, <2>2 DEF PressEscape
<1>4. CASE PressValidate
  <2>1. InFlightOK' /\ ComposeOK'
    <3>. DEFINE missing == MissingValidateMetadata(composed, draft)
    <3>1. CASE OpenOnly("gate", missing) /\ UNCHANGED inflight
      <4>1. missing \in Holds("gate")
        BY ConstantsAssumption DEF MissingValidateMetadata, Holds
      <4>. QED  BY <3>1, <4>1, OpenOnlyType, UnchangedType DEF TypeOK
    <3>2. CASE RequestValidate(draft) /\ UNCHANGED composeVars
      BY <3>2, RequestValidateType, UnchangedType DEF TypeOK, ComposeOK
    <3>. QED  BY <1>4, <3>1, <3>2 DEF PressValidate
  <2>. QED  BY <1>4, <2>1, UnchangedType, ComposeOnlyType DEF PressValidate, TypeOK
<1>5. CASE PressResults
  BY <1>5, OpenOnlyType, StaysType DEF PressResults, TypeOK, Holds
<1>6. CASE OpenVersionList
  BY <1>6, OpenOnlyType, StaysType DEF OpenVersionList, TypeOK, Holds
<1>7. CASE OpenAside
  BY <1>7, OpenOnlyType, StaysType DEF OpenAside, TypeOK, Holds
<1>8. ASSUME NEW f \in Fields, PressEnter(f) PROVE TypeOK'
  BY <1>8, OpenOnlyType, StaysType DEF PressEnter, TypeOK, Holds
<1>9. ASSUME NEW f \in Fields, PressAdd(f) PROVE TypeOK'
  <2>1. ComposeOK'
    <3>1. CASE (\E v \in Values \ {draft[f]} : Mutate(f, v)) /\ UNCHANGED overlay
      BY <3>1, MutateType DEF TypeOK, ComposeOK
    <3>2. CASE OpenOnly("keyPrompt", f)
      BY <3>2, OpenOnlyType DEF TypeOK, Holds
    <3>. QED  BY <1>9, <3>1, <3>2 DEF PressAdd
  <2>. QED  BY <1>9, <2>1, StaysType DEF PressAdd
<1>10. ASSUME NEW f \in Fields, PressUnset(f) PROVE TypeOK'
  <2>1. ComposeOK'
    <3>1. CASE Unset(f) /\ UNCHANGED overlay
      BY <3>1, RemainingType, MutateType DEF Unset, TypeOK, ComposeOK
    <3>2. CASE OpenOnly("unset", f)
      BY <3>2, OpenOnlyType DEF TypeOK, Holds
    <3>. QED  BY <1>10, <3>1, <3>2 DEF PressUnset
  <2>. QED  BY <1>10, <2>1, StaysType DEF PressUnset
<1>11. ASSUME NEW f \in Fields, PressPopOut(f) PROVE TypeOK'
  <2>1. PICK file \in Files :
          /\ files' = [files EXCEPT ![file] = Spelled(draft[f])]
          /\ popOut' = [field |-> f, file |-> file]
          /\ Launch([type |-> "Exec", file |-> file])
    BY <1>11 DEF PressPopOut
  <2>2. InFlightOK'
    BY <2>1, LaunchType, MessageTypes, UnchangedType DEF TypeOK
  <2>3. Spelled(draft[f]) \in FileContents
    BY DEF Spelled, FileContents, TypeOK, ComposeOK, Drafts
  <2>4. files' \in [Files -> FileContents \cup {Null}]
    BY <2>1, <2>3 DEF TypeOK, RuntimeOK
  <2>5. RuntimeOK'
    BY <1>11, <2>2, <2>4 DEF PressPopOut, TypeOK, RuntimeOK, InFlightOK, processVars
  <2>6. ComposeOK'
    BY <1>11, <2>1 DEF PressPopOut, TypeOK, ComposeOK, PopOuts
  <2>. QED  BY <1>11, <2>5, <2>6, UnchangedType DEF PressPopOut, TypeOK
<1>. QED  BY <1>1, <1>2, <1>3, <1>4, <1>5, <1>6, <1>7, <1>8, <1>9, <1>10, <1>11 DEF CommandKey

LEMMA DeliveryType == \A s \in Slots : TypeOK /\ Delivery(s) => TypeOK'
<1>. SUFFICES ASSUME NEW s \in Slots, TypeOK, Delivery(s) PROVE TypeOK'
  OBVIOUS
<1>. DEFINE m == inflight[s]
<1>m. m \in Messages \cup {Idle}
  BY DEF TypeOK, RuntimeOK
<1>1. CASE OpenKind(s)
  <2>1. m.kind \in Kinds
    BY <1>1, <1>m, MessageFields DEF OpenKind, Delivers
  <2>2. CASE OpenCompose(m.kind) /\ Returns(s)
    <3>1. InFlightOK'
      BY <2>2, ReturnsType, UnchangedType DEF TypeOK
    <3>2. ComposeOK' /\ ShellOK'
      BY <1>1, <2>1, <2>2, OpenComposeType DEF OpenKind, TypeOK, ShellOK
    <3>. QED  BY <1>1, <3>1, <3>2, UnchangedType DEF OpenKind, TypeOK
  <2>3. CASE /\ view' = "fetching" /\ Becomes(s, FetchOf(m.kind))
             /\ UNCHANGED <<composeVars, pendingFieldPath>>
    <3>1. InFlightOK'
      BY <2>1, <2>3, BecomesType, MessageTypes, UnchangedType DEF TypeOK
    <3>2. ShellOK'
      BY <1>1, <2>1, <2>3 DEF OpenKind, TypeOK, ShellOK, Views
    <3>. QED  BY <1>1, <2>3, <3>1, <3>2, UnchangedType DEF OpenKind, TypeOK
  <2>. QED  BY <1>1, <2>2, <2>3 DEF OpenKind
<1>2. CASE DocumentFetched(s)
  <2>1. m.kind \in Kinds
    BY <1>2, <1>m, MessageFields DEF DocumentFetched, Delivers
  <2>2. InFlightOK' /\ documents' \subseteq Paths
    BY <1>2, <2>1, ReturnsType, UnchangedType DEF DocumentFetched, TypeOK, ShellOK, Paths
  <2>3. ComposeOK' /\ ShellOK'
    <3>1. CASE UNCHANGED <<view, kind, switching, pendingFieldPath, composeVars>>
      BY <1>2, <2>2, <3>1, UnchangedType DEF DocumentFetched, TypeOK, ShellOK
    <3>2. CASE switching' = Null /\ ResolveVersionSwitch(m.kind) /\ UNCHANGED pendingFieldPath
      BY <1>2, <2>1, <2>2, <3>2, ResolveType DEF DocumentFetched, TypeOK, ShellOK
    <3>3. CASE OpenCompose(m.kind) /\ UNCHANGED <<kind, switching>>
      BY <1>2, <2>1, <2>2, <3>3, OpenComposeType DEF DocumentFetched, TypeOK, ShellOK
    <3>. QED  BY <1>2, <3>1, <3>2, <3>3 DEF DocumentFetched
  <2>. QED  BY <1>2, <2>2, <2>3, UnchangedType DEF DocumentFetched, TypeOK
<1>3. CASE DocumentFetchFailed(s)
  <2>1. InFlightOK'
    BY <1>3, ReturnsType, UnchangedType DEF DocumentFetchFailed, TypeOK
  <2>2. ShellOK'
    BY <1>3 DEF DocumentFetchFailed, TypeOK, ShellOK, Views
  <2>. QED  BY <1>3, <2>1, <2>2, UnchangedType DEF DocumentFetchFailed, TypeOK
<1>4. CASE ReturnToPickerMsg(s)
  <2>1. InFlightOK'
    BY <1>4, ReturnsType, UnchangedType DEF ReturnToPickerMsg, TypeOK
  <2>2. ShellOK' /\ ComposeOK'
    BY <1>4, ReturnToPickerType DEF ReturnToPickerMsg, TypeOK
  <2>3. HistoryOK'
    BY <1>4 DEF ReturnToPickerMsg, TypeOK, HistoryOK, Manifests
  <2>. QED  BY <1>4, <2>1, <2>2, <2>3, UnchangedType DEF ReturnToPickerMsg, TypeOK
<1>5. CASE StartVersionSwitch(s)
  <2>1. m.kind \in Kinds
    BY <1>5, <1>m, MessageFields DEF StartVersionSwitch, Delivers
  <2>2. InFlightOK' /\ ShellOK' /\ ComposeOK'
    <3>1. CASE Returns(s) /\ UNCHANGED <<view, kind, switching, composeVars>>
      BY <1>5, <3>1, ReturnsType, UnchangedType DEF StartVersionSwitch, TypeOK, ShellOK
    <3>2. CASE ResolveVersionSwitch(m.kind) /\ Returns(s) /\ UNCHANGED switching
      BY <1>5, <2>1, <3>2, ResolveType, ReturnsType, UnchangedType
         DEF StartVersionSwitch, TypeOK, ShellOK
    <3>3. CASE /\ switching' = m.kind /\ view' = "fetching" /\ Becomes(s, FetchOf(m.kind))
               /\ UNCHANGED <<kind, composeVars>>
      <4>1. InFlightOK'
        BY <2>1, <3>3, BecomesType, MessageTypes, UnchangedType DEF TypeOK
      <4>. QED  BY <1>5, <2>1, <3>3, <4>1, UnchangedType
                DEF StartVersionSwitch, TypeOK, ShellOK, Views
    <3>. QED  BY <1>5, <3>1, <3>2, <3>3 DEF StartVersionSwitch
  <2>. QED  BY <1>5, <2>2, UnchangedType DEF StartVersionSwitch, TypeOK
<1>6. CASE AcceptVersionSwitch(s)
  <2>. DEFINE pending == overlay["pendingSwitch"]
  <2>1. InFlightOK' /\ HistoryOK'
    BY <1>6, ReturnsType, UnchangedType DEF AcceptVersionSwitch, TypeOK, HistoryOK, Manifests
  <2>2. ComposeOK' /\ kind' \in Kinds \cup {Null}
    <3>1. CASE pending # Null /\ CommitVersionSwitch(pending.target, pending.carried)
      <4>1. pending \in Switches
        BY <3>1, OverlayNames DEF TypeOK, ComposeOK, Holds
      <4>2. pending.target \in Kinds /\ pending.carried \in Drafts
        BY <4>1 DEF Switches
      <4>. QED  BY <3>1, <4>2, CommitType DEF TypeOK
    <3>2. CASE UNCHANGED <<kind, composeVars>>
      BY <3>2, UnchangedType DEF TypeOK, ShellOK
    <3>. QED  BY <1>6, <3>1, <3>2 DEF AcceptVersionSwitch
  <2>3. ShellOK'
    BY <1>6, <2>2 DEF AcceptVersionSwitch, TypeOK, ShellOK
  <2>. QED  BY <1>6, <2>1, <2>2, <2>3, UnchangedType DEF AcceptVersionSwitch, TypeOK
<1>7. CASE StartValidate(s)
  <2>1. m.manifest \in Manifests
    BY <1>7, <1>m, MessageFields DEF StartValidate, Delivers
  <2>2. InFlightOK' /\ ShellOK'
    <3>1. CASE Returns(s) /\ UNCHANGED <<view, validateSeq>>
      BY <1>7, <3>1, ReturnsType, UnchangedType DEF StartValidate, TypeOK, ShellOK
    <3>2. CASE /\ validateSeq' = validateSeq + 1 /\ view' = "validating"
               /\ Becomes(s, [type |-> "Validate", seq |-> validateSeq + 1,
                              kind |-> kind, manifest |-> m.manifest])
      <4>1. validateSeq + 1 \in Nat /\ kind \in Kinds \cup {Null}
        BY DEF TypeOK, ShellOK
      <4>2. InFlightOK'
        BY <2>1, <3>2, <4>1, BecomesType, MessageTypes, UnchangedType DEF TypeOK
      <4>. QED  BY <1>7, <3>2, <4>1, <4>2 DEF StartValidate, TypeOK, ShellOK, Views
    <3>. QED  BY <1>7, <3>1, <3>2 DEF StartValidate
  <2>. QED  BY <1>7, <2>2, UnchangedType DEF StartValidate, TypeOK
<1>8. CASE ValidateResolved(s)
  <2>1. InFlightOK' /\ ShellOK'
    BY <1>8, ReturnsType, UnchangedType DEF ValidateResolved, TypeOK, ShellOK, Views, composeVars
  <2>2. ComposeOK'
    <3>1. CASE UNCHANGED <<view, composeVars>>
      BY <3>1, UnchangedType DEF TypeOK
    <3>2. CASE /\ \E outcome \in Outcomes :
                     /\ validation' = Rendered(m, outcome)
                     /\ IF outcome \in {"unmappable", "summary", "unavailable"}
                           THEN Open("results", "open") ELSE UNCHANGED overlay
               /\ UNCHANGED <<composed, draft, popOut>>
      <4>1. PICK outcome \in Outcomes :
              /\ validation' = Rendered(m, outcome)
              /\ Open("results", "open") \/ UNCHANGED overlay
        BY <3>2
      <4>2. m.kind \in Kinds \cup {Null} /\ m.manifest \in Manifests
        BY <1>8, <1>m, MessageFields DEF ValidateResolved, Delivers
      <4>3. Rendered(m, outcome) \in Validations
        BY <4>2 DEF Rendered, Validations
      <4>4. OverlayOK(overlay)'
        BY <4>1, OpenType, OverlayNames DEF TypeOK, ComposeOK, OverlayOK, Holds
      <4>. QED  BY <3>2, <4>1, <4>3, <4>4 DEF TypeOK, ComposeOK, OverlayOK
    <3>. QED  BY <1>8, <3>1, <3>2 DEF ValidateResolved
  <2>. QED  BY <1>8, <2>1, <2>2, UnchangedType DEF ValidateResolved, TypeOK
<1>9. CASE ManifestEmitted(s)
  <2>1. m.manifest \in Manifests
    BY <1>9, <1>m, MessageFields DEF ManifestEmitted, Delivers
  <2>2. InFlightOK'
    BY <1>9, BecomesType, MessageTypes, UnchangedType DEF ManifestEmitted, TypeOK
  <2>3. ShellOK'
    BY <1>9, <2>1 DEF ManifestEmitted, TypeOK, ShellOK
  <2>. QED  BY <1>9, <2>2, <2>3, UnchangedType DEF ManifestEmitted, TypeOK
<1>10. CASE Exec(s)
  <2>1. m.file \in Files
    BY <1>10, <1>m, MessageFields DEF Exec, Delivers
  <2>2. InFlightOK'
    BY <1>10, BecomesType, MessageTypes, UnchangedType DEF Exec, TypeOK
  <2>3. files' \in [Files -> FileContents \cup {Null}]
    BY <1>10, <2>1 DEF Exec, TypeOK, RuntimeOK
  <2>4. RuntimeOK'
    BY <1>10, <2>2, <2>3 DEF Exec, TypeOK, RuntimeOK, InFlightOK, processVars
  <2>. QED  BY <1>10, <2>4, UnchangedType DEF Exec, TypeOK
<1>11. CASE EditorFinished(s)
  <2>1. InFlightOK'
    BY <1>11, ReturnsType, UnchangedType DEF EditorFinished, TypeOK
  <2>2. ComposeOK' /\ files' \in [Files -> FileContents \cup {Null}]
    <3>1. CASE UNCHANGED <<composeVars, files>>
      BY <3>1, UnchangedType DEF TypeOK, RuntimeOK
    <3>2. CASE popOut # Null /\ Consume(popOut, m.failed)
      <4>1. popOut.field \in Fields /\ popOut.file \in Files
        BY <3>2 DEF TypeOK, ComposeOK, PopOuts
      <4>. DEFINE content == files[popOut.file]
      <4>2. OverlayOK(overlay)'
        BY <3>2, <4>1, OpenType, OverlayNames DEF Consume, TypeOK, ComposeOK, OverlayOK, Holds
      <4>3. draft' \in Drafts /\ validation' \in Validations \cup {Null}
        <5>1. CASE UNCHANGED draft /\ UNCHANGED validation
          BY <5>1 DEF TypeOK, ComposeOK
        <5>2. CASE /\ content \in Values
                   /\ draft' = [draft EXCEPT ![popOut.field] = content]
                   /\ validation' = Outdated(validation)
          BY <5>2, MutatedType, OutdatedType DEF TypeOK, ComposeOK
        <5>. QED  BY <3>2, <5>1, <5>2 DEF Consume
      <4>4. files' \in [Files -> FileContents \cup {Null}]
        BY <3>2 DEF Consume, TypeOK, RuntimeOK
      <4>. QED  BY <3>2, <4>2, <4>3, <4>4 DEF Consume, TypeOK, ComposeOK, OverlayOK
    <3>. QED  BY <1>11, <3>1, <3>2 DEF EditorFinished
  <2>3. RuntimeOK'
    BY <1>11, <2>1, <2>2 DEF EditorFinished, TypeOK, RuntimeOK, InFlightOK, processVars
  <2>. QED  BY <1>11, <2>2, <2>3, UnchangedType DEF EditorFinished, TypeOK
<1>12. CASE QuitMsg(s)
  <2>1. InFlightOK'
    BY <1>12, ReturnsType, UnchangedType DEF QuitMsg, TypeOK
  <2>2. RuntimeOK'
    BY <1>12, <2>1 DEF QuitMsg, TypeOK, RuntimeOK, InFlightOK
  <2>. QED  BY <1>12, <2>2, UnchangedType DEF QuitMsg, TypeOK
<1>. QED  BY <1>1, <1>2, <1>3, <1>4, <1>5, <1>6, <1>7, <1>8, <1>9, <1>10, <1>11, <1>12 DEF Delivery

LEMMA NextType == TypeOK /\ [Next]_vars => TypeOK'
<1>. SUFFICES ASSUME TypeOK, [Next]_vars PROVE TypeOK'
  OBVIOUS
<1>1. CASE Interrupt
  BY <1>1 DEF Interrupt, TypeOK, ShellOK, ComposeOK, RuntimeOK, HistoryOK,
              shellVars, composeVars, historyVars
<1>2. CASE WriteManifest
  BY <1>2 DEF WriteManifest, TypeOK, ShellOK, ComposeOK, RuntimeOK, HistoryOK,
              shellVars, composeVars, historyVars
<1>3. CASE UNCHANGED vars
  BY <1>3 DEF vars, TypeOK, ShellOK, ComposeOK, RuntimeOK, HistoryOK,
              shellVars, composeVars, processVars, historyVars
<1>. QED  BY <1>1, <1>2, <1>3, ShellKeyType, OverlayKeyType, CommandKeyType, DeliveryType
          DEF Next, Ended

(* Every variable keeps its type, whatever is typed ahead of whatever. *)
THEOREM TypeCorrect == Spec => []TypeOK
<1>. QED  BY InitType, NextType, PTL DEF Spec

=============================================================================
