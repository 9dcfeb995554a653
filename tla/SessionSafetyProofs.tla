------------------------- MODULE SessionSafetyProofs -------------------------
(***************************************************************************)
(* With keys that wait for a prompt command's message, SessionInv is an    *)
(* invariant of a Session, and with it every safety property that          *)
(* Session.tla states of its states.                                       *)
(*                                                                         *)
(* SessionInv is proved part by part.  A part is disturbed by few actions; *)
(* StepKinds sorts the steps so that the others are taken together.        *)
(***************************************************************************)
EXTENDS SessionFindingsProofs, SessionInvariant, FiniteSetTheorems

-----------------------------------------------------------------------------
(* Kinds of steps.                                                         *)

ComposeKey == NoPrompt /\ Running /\ ComposeStep /\ (OverlayKey \/ CommandKey)

LEMMA StepKinds ==
    ASSUME ~TypeAhead, TypeOK, [Next]_vars
    PROVE  \/ ComposeKey
           \/ NoPrompt /\ Running /\ ShellKey
           \/ Running /\ \E s \in Slots : Delivery(s)
           \/ Interrupt \/ WriteManifest \/ UNCHANGED vars
<1>1. CASE ShellKey
  BY <1>1, KeysWait
     DEF ShellKey, CtrlC, DismissPicker, QuitTransit, LeaveTransit, CancelSwitch, CancelValidate,
         SelectHighlighted, KeyArrives
<1>2. CASE OverlayKey
  <2>1. KeyArrives
    BY <1>2 DEF OverlayKey, KeyTo, Dismiss, ConfirmEditor, ConfirmKeyPrompt, ConfirmUnset,
                ConfirmGate, AcceptDrops, ConfirmDiscard, ChooseEmit, ChooseDiscard, SelectVersion
  <2>. QED  BY <1>2, <2>1, KeysWait, OverlayKeyShape DEF ComposeKey, KeyArrives
<1>3. CASE CommandKey
  <2>1. KeyArrives
    BY <1>3 DEF CommandKey, Command, PressQuit, EmitAndQuit, PressEscape, PressValidate,
                PressResults, OpenVersionList, OpenAside, PressEnter, PressAdd, PressUnset,
                PressPopOut
  <2>. QED  BY <1>3, <2>1, KeysWait, CommandKeyShape DEF ComposeKey, KeyArrives
<1>4. CASE \E s \in Slots : Delivery(s)
  BY <1>4 DEF Delivery, Delivers, OpenKind, DocumentFetched, DocumentFetchFailed, ReturnToPickerMsg,
              StartVersionSwitch, AcceptVersionSwitch, StartValidate, ValidateResolved,
              ManifestEmitted, Exec, EditorFinished, QuitMsg
<1>. QED  BY <1>1, <1>2, <1>3, <1>4 DEF Next, Ended

(* A launch takes an idle slot; a delivery is about its own. *)
LEMMA LaunchFrame ==
    ASSUME TypeOK, NEW m, Launch(m)
    PROVE  \E s \in Slots : /\ inflight[s] = Idle
                            /\ \A t \in Slots : inflight'[t] = IF t = s THEN m ELSE inflight[t]
BY DEF TypeOK, RuntimeOK, Launch

LEMMA DeliveryFrame ==
    ASSUME TypeOK, NEW s \in Slots, Delivery(s)
    PROVE  \A t \in Slots \ {s} : inflight'[t] = inflight[t]
<1>. SUFFICES ASSUME NEW m, Becomes(s, m)
              PROVE  \A t \in Slots \ {s} : inflight'[t] = inflight[t]
  BY DEF Delivery, Returns, OpenKind, DocumentFetched, DocumentFetchFailed, ReturnToPickerMsg,
         StartVersionSwitch, AcceptVersionSwitch, StartValidate, ValidateResolved,
         ManifestEmitted, Exec, EditorFinished, QuitMsg
<1>. QED  BY BecomesFrame

(* The command that Update returns for a message, if any. *)
LEMMA Continues ==
    ASSUME TypeOK, NEW s \in Slots, Delivery(s)
    PROVE  LET next == inflight'[s].type IN
           \/ next \in {"Idle", "Fetch"}
           \/ next = "Validate" /\ StartValidate(s)
           \/ next = "Quit" /\ ManifestEmitted(s)
           \/ next = "EditorFinished" /\ Exec(s)
<1>1. CASE Returns(s) \/ Becomes(s, FetchOf(inflight[s].kind))
  BY <1>1, BecomesFrame, ReturnsFrame DEF FetchOf, Idle
<1>2. CASE StartValidate(s) /\ view = "composing"
  BY <1>2, BecomesFrame DEF StartValidate
<1>3. CASE ManifestEmitted(s)
  BY <1>3, BecomesFrame DEF ManifestEmitted
<1>4. CASE Exec(s)
  <2>1. PICK failed : Becomes(s, [type |-> "EditorFinished", failed |-> failed])
    BY <1>4 DEF Exec
  <2>. QED  BY <1>4, <2>1, BecomesFrame
<1>. QED  BY <1>1, <1>2, <1>3, <1>4
          DEF Delivery, OpenKind, DocumentFetched, DocumentFetchFailed, ReturnToPickerMsg,
              StartVersionSwitch, AcceptVersionSwitch, StartValidate, ValidateResolved,
              EditorFinished, QuitMsg

(* Which view a delivered prompt finds. *)
LEMMA PromptsFind ==
    ASSUME ConversationInv, NEW s \in Slots
    PROVE  /\ OpenKind(s) => view = "picking" /\ switching = Null
           /\ \/ ReturnToPickerMsg(s) \/ StartVersionSwitch(s) \/ AcceptVersionSwitch(s)
              \/ StartValidate(s) \/ ManifestEmitted(s) \/ Exec(s) \/ EditorFinished(s)
              => view = "composing" /\ switching = Null /\ kind = composed
BY DEF ConversationInv, PromptsBelong, KindsAgree, ComposeRequests, Delivers, OpenKind,
       ReturnToPickerMsg, StartVersionSwitch, AcceptVersionSwitch, StartValidate, ManifestEmitted,
       Exec, EditorFinished

-----------------------------------------------------------------------------
(* Loading states.                                                         *)

LEMMA LoadingKept ==
    ASSUME LoadingIsAwaited, KindsAgree', view' = "fetching", UNCHANGED <<view, kind, switching>>,
           \A t \in Slots : inflight[t].type = "Fetch" /\ Awaits(inflight[t].kind) =>
              inflight'[t].type = "Fetch" /\ inflight'[t].kind = inflight[t].kind
    PROVE  LoadingIsAwaited'
BY DEF LoadingIsAwaited, KindsAgree, Flying, Awaits

LEMMA LoadingStep ==
    ASSUME ~TypeAhead, TypeOK, SessionInv, ConversationInv', [Next]_vars
    PROVE  LoadingIsAwaited'
<1>1. KindsAgree'
  BY DEF ConversationInv
<1>. SUFFICES ASSUME view' = "fetching" PROVE LoadingIsAwaited'
  BY <1>1 DEF LoadingIsAwaited, KindsAgree
<1>2. LoadingIsAwaited /\ ConversationInv
  BY DEF SessionInv
<1>3. CASE ComposeKey
  BY <1>3 DEF ComposeKey, ComposeStep, shellVars
<1>4. CASE ShellKey
  <2>1. CASE CtrlC \/ DismissPicker \/ QuitTransit
    <3>1. PICK s \in Slots : /\ inflight[s] = Idle
                             /\ \A t \in Slots : t # s => inflight'[t] = inflight[t]
      BY <2>1, LaunchFrame DEF CtrlC, DismissPicker, QuitTransit, AskToQuit
    <3>2. UNCHANGED <<view, kind, switching>>
      BY <2>1 DEF CtrlC, DismissPicker, QuitTransit, AskToQuit, shellVars
    <3>. QED  BY <1>1, <1>2, <3>1, <3>2, LoadingKept DEF Idle
  <2>. QED  BY <1>4, <2>1 DEF ShellKey, LeaveTransit, ReturnToPicker, CancelSwitch, CancelValidate,
                              SelectHighlighted, shellVars
<1>5. ASSUME NEW s \in Slots, Delivery(s) PROVE LoadingIsAwaited'
  <2>1. \A t \in Slots \ {s} : inflight'[t] = inflight[t]
    BY <1>5, DeliveryFrame
  <2>2. CASE OpenKind(s) \/ StartVersionSwitch(s)
    <3>. DEFINE k == inflight[s].kind
    <3>1. k \in Kinds /\ k # Null
      BY <2>2, MessageFields, ConstantsAssumption
         DEF OpenKind, StartVersionSwitch, Delivers, TypeOK, RuntimeOK
    <3>2. Becomes(s, FetchOf(k)) /\ k = (IF switching' # Null THEN switching' ELSE kind')
      BY <1>2, <2>2, <3>1, PromptsFind, OpenComposeShape, ResolveShape
         DEF OpenKind, StartVersionSwitch
    <3>3. inflight'[s] = FetchOf(k)
      BY <3>2, BecomesFrame
    <3>. QED  BY <1>1, <3>2, <3>3 DEF LoadingIsAwaited, KindsAgree, Flying, Awaits, FetchOf
  <2>3. CASE DocumentFetched(s) \/ DocumentFetchFailed(s)
    <3>1. ~Awaits(inflight[s].kind) /\ UNCHANGED <<view, kind, switching>>
      BY <2>3, OpenComposeShape, ResolveShape DEF DocumentFetched, DocumentFetchFailed
    <3>. QED  BY <1>1, <1>2, <2>1, <3>1, LoadingKept
  <2>4. CASE ValidateResolved(s) \/ QuitMsg(s)
    <3>1. UNCHANGED <<view, kind, switching>> /\ inflight[s].type # "Fetch"
      BY <2>4 DEF ValidateResolved, QuitMsg, Delivers, shellVars
    <3>. QED  BY <1>1, <1>2, <2>1, <3>1, LoadingKept
  <2>. QED  BY <1>2, <1>5, <2>2, <2>3, <2>4, PromptsFind
            DEF Delivery, ReturnToPickerMsg, ReturnToPicker, AcceptVersionSwitch, StartValidate,
                ManifestEmitted, Exec, EditorFinished, shellVars
<1>6. CASE Interrupt \/ WriteManifest \/ UNCHANGED vars
  BY <1>1, <1>2, <1>6, LoadingKept DEF Interrupt, WriteManifest, vars, shellVars
<1>. QED  BY <1>3, <1>4, <1>5, <1>6, StepKinds

(* The deep link, whatever is typed ahead. *)
LEMMA DeepLinkStep ==
    ASSUME TypeOK, DeepLinkInv, [Next]_vars
    PROVE  DeepLinkInv'
<1>. SUFFICES ASSUME pendingFieldPath # Null, pendingFieldPath' # Null PROVE DeepLinkInv'
  <2>1. pendingFieldPath' \in {pendingFieldPath, Null}
    <3>1. ASSUME NEW s \in Slots, Delivery(s) PROVE pendingFieldPath' \in {pendingFieldPath, Null}
      BY <3>1 DEF Delivery, OpenKind, OpenCompose, DocumentFetched, DocumentFetchFailed,
                  ReturnToPickerMsg, ReturnToPicker, StartVersionSwitch, AcceptVersionSwitch,
                  StartValidate, ValidateResolved, ManifestEmitted, Exec, EditorFinished, QuitMsg,
                  shellVars
    <3>2. CASE ShellKey
      BY <3>2 DEF ShellKey, CtrlC, DismissPicker, QuitTransit, AskToQuit, LeaveTransit,
                  ReturnToPicker, CancelSwitch, CancelValidate, SelectHighlighted, shellVars
    <3>. QED  BY <3>1, <3>2, OverlayKeyShape, CommandKeyShape
              DEF ComposeStep, Next, Ended, Interrupt, WriteManifest, vars, shellVars
  <2>. QED  BY <2>1 DEF DeepLinkInv
<1>1. /\ pendingFieldPath = kind /\ switching = Null /\ view \in {"fetching", "failed"}
      /\ \A t \in Slots : inflight[t].type \in {"Idle", "Fetch", "Quit"}
  BY DEF DeepLinkInv
<1>2. ~OverlayKey /\ ~CommandKey
  BY <1>1, OverlayKeyShape, CommandKeyShape DEF ComposeStep
<1>3. CASE ShellKey
  <2>1. \E how : AskToQuit(how)
    BY <1>1, <1>3 DEF ShellKey, CtrlC, DismissPicker, QuitTransit, LeaveTransit, ReturnToPicker,
                      CancelSwitch, CancelValidate, SelectHighlighted
  <2>2. PICK s \in Slots : /\ \A t \in Slots \ {s} : inflight'[t] = inflight[t]
                           /\ inflight'[s] = [type |-> "Quit"]
    BY <2>1, LaunchFrame DEF AskToQuit
  <2>. QED  BY <1>1, <2>1, <2>2 DEF AskToQuit, shellVars, DeepLinkInv
<1>4. ASSUME NEW s \in Slots, Delivery(s) PROVE DeepLinkInv'
  <2>1. DocumentFetched(s) \/ DocumentFetchFailed(s) \/ QuitMsg(s)
    BY <1>1, <1>4 DEF Delivery, Delivers, OpenKind, ReturnToPickerMsg, StartVersionSwitch,
                      AcceptVersionSwitch, StartValidate, ValidateResolved, ManifestEmitted, Exec,
                      EditorFinished
  <2>2. \A t \in Slots : inflight'[t].type \in {"Idle", "Fetch", "Quit"}
    BY <1>1, <2>1, ReturnsFrame DEF DocumentFetched, DocumentFetchFailed, QuitMsg, Idle
  <2>. QED  BY <1>1, <2>1, <2>2
            DEF DocumentFetched, OpenCompose, DocumentFetchFailed, QuitMsg, shellVars, DeepLinkInv
<1>5. CASE Interrupt \/ WriteManifest \/ UNCHANGED vars
  BY <1>1, <1>5 DEF Interrupt, WriteManifest, vars, shellVars, DeepLinkInv
<1>. QED  BY <1>2, <1>3, <1>4, <1>5 DEF Next, Ended

-----------------------------------------------------------------------------
(* What a compose key does to the Draft and the overlays.                  *)

LEMMA CloseLast ==
    ASSUME TypeOK, OverlayInv, NEW o \in Overlays, KeyTo(o), Open(o, Null)
    PROVE  OpenOverlays' = {}
BY DEF TypeOK, ComposeOK, OverlayInv, KeyTo, Answers, Open, OpenOverlays

LEMMA StillClosed ==
    ASSUME Navigating, overlay' = overlay PROVE OpenOverlays' = {}
BY DEF Navigating, OpenOverlays

LEMMA NoneOpen ==
    ASSUME OpenOverlays' = {}
    PROVE  OverlayInv' /\ Navigating' /\ overlay'["pendingSwitch"] = Null
BY OverlayNames DEF OverlayInv, DropConfirmIsCurrent, Navigating, OpenOverlays

LEMMA OneOpened ==
    ASSUME TypeOK, Navigating, NEW o \in Overlays, NEW c, Open(o, c), view' = "composing",
           o # "pendingSwitch",
           o \in {"editor", "keyPrompt", "unset"} => c \in Admits[composed'],
           o = "gate" => c = MissingValidateMetadata(composed', draft')
    PROVE  OverlayInv' /\ overlay'["pendingSwitch"] = Null
<1>1. \A p \in Overlays : overlay'[p] = IF p = o THEN c ELSE Null
  BY DEF TypeOK, ComposeOK, Navigating, OpenOverlays, Open
<1>. QED  BY <1>1, OverlayNames DEF OverlayInv, OpenOverlays, DropConfirmIsCurrent

(* The Kind on screen is one, and keys only fill what it defines. *)
LEMMA OnScreen ==
    ASSUME TypeOK, SessionInv, view = "composing"
    PROVE  composed \in Kinds /\ Filled(draft) \subseteq Admits[composed]
BY DEF TypeOK, ComposeOK, SessionInv, ComposedInv

LEMMA MutationFits ==
    ASSUME TypeOK, NEW S, Filled(draft) \subseteq S, NEW f \in S, NEW c, Mutate(f, c)
    PROVE  Filled(draft') \subseteq S /\ popOut' = popOut
BY DEF TypeOK, ComposeOK, Drafts, Filled, Mutate

LEMMA GateAnswered ==
    ASSUME TypeOK, NEW f \in Fields, NEW v \in Values, Mutate(f, v)
    PROVE  MissingValidateMetadata(composed', draft')
              = MissingValidateMetadata(composed, draft) \ {f}
<1>1. \A g \in Fields : draft'[g] = IF g = f THEN v ELSE draft[g]
  BY DEF TypeOK, ComposeOK, Drafts, Mutate
<1>2. v # Null
  BY ConstantsAssumption
<1>3. Filled(draft') = Filled(draft) \cup {f}
  BY <1>1, <1>2 DEF Filled
<1>. QED  BY <1>3 DEF MissingValidateMetadata, Mutate

(* A command that ends the Session carries the decision to. *)
Decides(m) ==
    \/ m.type = "ManifestEmitted" /\ decision = "emit" /\ m.manifest = Emit(draft)
    \/ /\ m.type = "Quit" /\ decision \in {"discard", "nothingToLose"}
       /\ decision = "nothingToLose" => Filled(draft) = {} /\ switching = Null

Endings == {"ManifestEmitted", "Quit"}

(* Everything that a compose key owes to the invariant. *)
KeyKeeps ==
    /\ processVars' = processVars
    /\ Filled(draft') \subseteq Admits[composed]
    /\ popOut' # Null => popOut'.field \in Admits[composed]
    /\ overlay'["pendingSwitch"] \in {Null, overlay["pendingSwitch"]}
    /\ OverlayInv'
    /\ files' = files \/ \E f \in Fields : PressPopOut(f)
    /\ \/ inflight' = inflight /\ decision' = decision
       \/ \E m : /\ Launch(m) /\ StillSo(m)'
                 /\ Decides(m)' \/ (m.type \notin Endings /\ decision' = decision)

(* A key that only opens or closes an overlay. *)
LEMMA OpenKeeps ==
    ASSUME TypeOK, SessionInv, view = "composing", StaysInCompose,
           NEW o \in Overlays, NEW c, OpenOnly(o, c),
           \/ KeyTo(o) /\ c = Null
           \/ /\ Navigating /\ o \notin {"gate", "pendingSwitch"}
              /\ o \in {"editor", "keyPrompt", "unset"} => c \in Admits[composed]
    PROVE  KeyKeeps
<1>1. OverlayInv' /\ overlay'["pendingSwitch"] = Null
  <2>1. view' = "composing" /\ Open(o, c) /\ composed' = composed
    BY DEF StaysInCompose, shellVars, OpenOnly
  <2>2. CASE KeyTo(o) /\ c = Null
    BY <2>1, <2>2, CloseLast, NoneOpen DEF SessionInv
  <2>. QED  BY <2>1, <2>2, OneOpened
<1>. QED  BY <1>1, OnScreen DEF KeyKeeps, StaysInCompose, historyVars, OpenOnly, SessionInv, PromptInv

(* A key that mutates the Draft, with no overlay left open. *)
LEMMA MutationKeeps ==
    ASSUME TypeOK, SessionInv, view = "composing", StaysInCompose, OpenOverlays' = {},
           NEW f \in Admits[composed], NEW c, Mutate(f, c)
    PROVE  KeyKeeps
BY NoneOpen, MutationFits, OnScreen DEF KeyKeeps, StaysInCompose, historyVars, SessionInv, PromptInv

(* A key that starts a command over the Draft as it is. *)
LEMMA CommandKeeps ==
    ASSUME TypeOK, SessionInv, view = "composing", OpenOverlays' = {},
           UNCHANGED <<files, processVars, composed, draft, popOut>>,
           NEW m, Launch(m), StillSo(m)',
           Decides(m)' \/ (m.type \notin Endings /\ decision' = decision)
    PROVE  KeyKeeps
BY NoneOpen, OnScreen DEF KeyKeeps, SessionInv, PromptInv

LEMMA OverlayKeyEffect ==
    ASSUME TypeOK, SessionInv, OverlayKey
    PROVE  KeyKeeps
<1>. USE OverlayNames
<1>1. OverlayInv
  BY DEF SessionInv
<1>2. ASSUME NEW o \in Overlays, Dismiss(o) PROVE KeyKeeps
  BY <1>2, OpenKeeps DEF Dismiss, KeyTo
<1>3. CASE ConfirmEditor
  <2>1. OpenOverlays' = {} /\ overlay["editor"] \in Admits[composed]
    BY <1>1, <1>3, CloseLast DEF ConfirmEditor, Close, KeyTo, Answers, OverlayInv
  <2>. QED  BY <1>3, <2>1, MutationKeeps DEF ConfirmEditor, KeyTo
<1>4. CASE ConfirmKeyPrompt
  <2>1. OpenOverlays' = {} /\ overlay["keyPrompt"] \in Admits[composed]
    BY <1>1, <1>4, CloseLast DEF ConfirmKeyPrompt, Close, KeyTo, Answers, OverlayInv
  <2>. QED  BY <1>4, <2>1, MutationKeeps DEF ConfirmKeyPrompt, KeyTo
<1>5. CASE ConfirmUnset
  <2>1. OpenOverlays' = {} /\ overlay["unset"] \in Admits[composed]
    BY <1>1, <1>5, CloseLast DEF ConfirmUnset, Close, KeyTo, Answers, OverlayInv
  <2>. QED  BY <1>5, <2>1, MutationKeeps DEF ConfirmUnset, Unset, KeyTo
<1>6. CASE ConfirmGate
  <2>. DEFINE missing == overlay["gate"]
              f == AskedFor(missing)
  <2>1. /\ view = "composing" /\ view' = "composing" /\ f \in Admits[composed]
        /\ UNCHANGED <<files, processVars, decision>>
    BY <1>6 DEF ConfirmGate, KeyTo, ComposeOnly, shellVars, historyVars
  <2>2. f \in Fields
    BY <2>1, OnScreen, ConstantsAssumption
  <2>3. PICK v \in Values : Mutate(f, v)
    BY <1>6 DEF ConfirmGate
  <2>4. missing = MissingValidateMetadata(composed, draft)
    BY <1>1, <1>6 DEF ConfirmGate, KeyTo, Answers, OverlayInv
  <2>5. MissingValidateMetadata(composed', draft') = missing \ {f}
    BY <2>2, <2>3, <2>4, GateAnswered
  <2>6. Filled(draft') \subseteq Admits[composed] /\ popOut' = popOut
    BY <2>1, <2>3, OnScreen, MutationFits
  <2>7. \A p \in Overlays \ {"gate"} : overlay[p] = Null
    BY <1>1, <1>6 DEF ConfirmGate, KeyTo, Answers, OverlayInv, OpenOverlays
  <2>8. CASE Open("gate", missing \ {f}) /\ UNCHANGED inflight
    <3>1. \A p \in Overlays : overlay'[p] = IF p = "gate" THEN missing \ {f} ELSE Null
      BY <2>7, <2>8 DEF Open, TypeOK, ComposeOK
    <3>2. OverlayInv' /\ overlay'["pendingSwitch"] = Null
      BY <2>1, <2>5, <3>1 DEF OverlayInv, OpenOverlays, DropConfirmIsCurrent
    <3>. QED  BY <2>1, <2>6, <2>8, <3>2 DEF KeyKeeps, SessionInv, PromptInv
  <2>9. CASE missing \ {f} = {} /\ Close("gate") /\ RequestValidate(draft')
    <3>1. OpenOverlays' = {}
      BY <1>1, <1>6, <2>9, CloseLast DEF ConfirmGate, Close
    <3>2. \E m : Launch(m) /\ StillSo(m)' /\ m.type \notin Endings
      BY <2>5, <2>9, <3>1, NoneOpen DEF RequestValidate, StillSo, ComposeRequests, Endings
    <3>. QED  BY <2>1, <2>6, <3>1, <3>2, NoneOpen DEF KeyKeeps, SessionInv, PromptInv
  <2>. QED  BY <1>6, <2>8, <2>9 DEF ConfirmGate
<1>7. CASE AcceptDrops
  <2>. DEFINE m == [type |-> "VersionSwitchAccepted"]
              pending == overlay["pendingSwitch"]
  <2>1. /\ view = "composing" /\ view' = "composing"
        /\ UNCHANGED <<files, processVars, composed, draft, overlay, popOut, decision>>
        /\ Launch(m) /\ m.type \notin Endings /\ pending # Null
    BY <1>7 DEF AcceptDrops, KeyTo, Answers, ComposeOnly, shellVars, composeVars, Endings
  <2>2. pending.drops \subseteq Filled(draft)
    BY <1>1, <2>1 DEF OverlayInv, DropConfirmIsCurrent, Drops
  <2>3. StillSo(m)'
    BY <1>7, <2>1, <2>2 DEF AcceptDrops, StillSo, ComposeRequests
  <2>4. OverlayInv'
    BY <1>1, <2>1 DEF OverlayInv, OpenOverlays, Navigating, DropConfirmIsCurrent
  <2>. QED  BY <2>1, <2>3, <2>4, OnScreen DEF KeyKeeps, SessionInv, PromptInv
<1>8. CASE ConfirmDiscard
  <2>. DEFINE m == [type |-> "ReturnToPicker"]
  <2>1. OpenOverlays' = {}
    BY <1>1, <1>8, CloseLast DEF ConfirmDiscard, OpenOnly
  <2>2. StillSo(m)'
    BY <1>8, <2>1, NoneOpen DEF ConfirmDiscard, OpenOnly, StillSo, ComposeRequests
  <2>. QED  BY <1>8, <2>1, <2>2, CommandKeeps
            DEF ConfirmDiscard, KeyTo, OpenOnly, ComposeOnly, Endings
<1>9. CASE ChooseEmit
  <2>. DEFINE m == [type |-> "ManifestEmitted", manifest |-> Emit(draft)]
  <2>1. OpenOverlays' = {}
    BY <1>1, <1>9, CloseLast DEF ChooseEmit, OpenOnly
  <2>2. StillSo(m)'
    BY <2>1, NoneOpen DEF StillSo, ComposeRequests
  <2>. QED  BY <1>9, <2>1, <2>2, CommandKeeps
            DEF ChooseEmit, EmitDraft, KeyTo, OpenOnly, ComposeOnly, Decides
<1>10. CASE ChooseDiscard
  <2>. DEFINE m == [type |-> "Quit"]
  <2>1. OpenOverlays' = {}
    BY <1>1, <1>10, CloseLast DEF ChooseDiscard, OpenOnly
  <2>2. StillSo(m)'
    BY DEF StillSo, ComposeRequests
  <2>. QED  BY <1>10, <2>1, <2>2, CommandKeeps
            DEF ChooseDiscard, KeyTo, OpenOnly, ComposeOnly, Decides
<1>11. ASSUME NEW k \in Kinds, SelectVersion(k) PROVE KeyKeeps
  <2>. DEFINE m == [type |-> "VersionSwitchRequested", kind |-> k]
  <2>1. OpenOverlays' = {}
    BY <1>1, <1>11, CloseLast DEF SelectVersion, OpenOnly
  <2>2. StillSo(m)'
    BY <1>11, <2>1, NoneOpen DEF SelectVersion, OpenOnly, StillSo, ComposeRequests
  <2>. QED  BY <1>11, <2>1, <2>2, CommandKeeps
            DEF SelectVersion, KeyTo, OpenOnly, ComposeOnly, historyVars, Endings
<1>. QED  BY <1>2, <1>3, <1>4, <1>5, <1>6, <1>7, <1>8, <1>9, <1>10, <1>11 DEF OverlayKey

LEMMA CommandKeyEffect ==
    ASSUME TypeOK, SessionInv, CommandKey
    PROVE  KeyKeeps
<1>. USE OverlayNames
<1>1. CASE PressQuit
  <2>1. CASE Command /\ Filled(draft) = {} /\ AskToQuit("nothingToLose")
    <3>1. OpenOverlays' = {} /\ view = "composing"
      BY <2>1, StillClosed DEF Command, AskToQuit, composeVars
    <3>2. StillSo([type |-> "Quit"])'
      BY DEF StillSo, ComposeRequests
    <3>3. Decides([type |-> "Quit"])'
      <4>1. draft' = draft /\ switching' = switching /\ switching = Null /\ decision' = "nothingToLose"
        BY <2>1, <3>1 DEF AskToQuit, composeVars, shellVars, SessionInv, ConversationInv, KindsAgree
      <4>. QED  BY <2>1, <4>1 DEF Decides, Filled
    <3>. QED  BY <2>1, <3>1, <3>2, <3>3, CommandKeeps DEF AskToQuit, composeVars
  <2>2. CASE Command /\ OpenOnly("exit", "open") /\ StaysInCompose
    BY <2>2, OpenKeeps DEF Command
  <2>. QED  BY <1>1, <2>1, <2>2 DEF PressQuit
<1>2. CASE EmitAndQuit
  <2>. DEFINE m == [type |-> "ManifestEmitted", manifest |-> Emit(draft)]
  <2>1. OpenOverlays' = {}
    BY <1>2, StillClosed DEF EmitAndQuit, Command, composeVars
  <2>2. StillSo(m)'
    BY <2>1, NoneOpen DEF StillSo, ComposeRequests
  <2>. QED  BY <1>2, <2>1, <2>2, CommandKeeps
            DEF EmitAndQuit, EmitDraft, Command, ComposeOnly, composeVars, Decides
<1>3. CASE PressEscape
  <2>1. CASE /\ Command /\ Filled(draft) = {} /\ Launch([type |-> "ReturnToPicker"])
             /\ ComposeOnly /\ UNCHANGED <<composeVars, decision>>
    <3>1. OpenOverlays' = {}
      BY <2>1, StillClosed DEF Command, composeVars
    <3>2. Emit(draft') = {}
      BY <2>1 DEF Emit, composeVars
    <3>3. StillSo([type |-> "ReturnToPicker"])'
      BY <3>1, <3>2, NoneOpen DEF StillSo, ComposeRequests
    <3>. QED  BY <2>1, <3>1, <3>3, CommandKeeps DEF Command, ComposeOnly, composeVars, Endings
  <2>2. CASE Command /\ OpenOnly("discard", "open") /\ StaysInCompose
    BY <2>2, OpenKeeps DEF Command
  <2>. QED  BY <1>3, <2>1, <2>2 DEF PressEscape
<1>4. CASE PressValidate
  <2>. DEFINE missing == MissingValidateMetadata(composed, draft)
  <2>1. CASE Command /\ OpenOnly("gate", missing) /\ UNCHANGED <<inflight, decision>> /\ ComposeOnly
    <3>1. OverlayInv' /\ overlay'["pendingSwitch"] = Null
      BY <2>1, OneOpened DEF Command, OpenOnly, ComposeOnly, shellVars
    <3>. QED  BY <2>1, <3>1, OnScreen DEF KeyKeeps, Command, ComposeOnly, OpenOnly, SessionInv, PromptInv
  <2>2. CASE Command /\ missing = {} /\ RequestValidate(draft) /\ UNCHANGED <<composeVars, decision>>
             /\ ComposeOnly
    <3>1. OpenOverlays' = {}
      BY <2>2, StillClosed DEF Command, composeVars
    <3>2. PICK m : Launch(m) /\ StillSo(m)' /\ m.type \notin Endings
      BY <2>2, <3>1, NoneOpen DEF RequestValidate, StillSo, ComposeRequests, composeVars, Endings
    <3>. QED  BY <2>2, <3>1, <3>2, CommandKeeps DEF Command, ComposeOnly, composeVars
  <2>. QED  BY <1>4, <2>1, <2>2 DEF PressValidate, historyVars
<1>5. CASE PressResults
  BY <1>5, OpenKeeps DEF PressResults, Command
<1>6. CASE OpenVersionList
  BY <1>6, OpenKeeps DEF OpenVersionList, Command
<1>7. CASE OpenAside
  BY <1>7, OpenKeeps DEF OpenAside, Command
<1>8. ASSUME NEW f \in Fields, PressEnter(f) PROVE KeyKeeps
  BY <1>8, OpenKeeps DEF PressEnter, Command
<1>9. ASSUME NEW f \in Fields, PressAdd(f) PROVE KeyKeeps
  <2>1. CASE \E v \in Values : Mutate(f, v) /\ UNCHANGED overlay
    BY <1>9, <2>1, StillClosed, MutationKeeps DEF PressAdd, Command
  <2>2. CASE OpenOnly("keyPrompt", f)
    BY <1>9, <2>2, OpenKeeps DEF PressAdd, Command
  <2>. QED  BY <1>9, <2>1, <2>2 DEF PressAdd
<1>10. ASSUME NEW f \in Fields, PressUnset(f) PROVE KeyKeeps
  <2>1. view = "composing" /\ f \in Admits[composed] /\ StaysInCompose /\ Navigating
    BY <1>10, OnScreen DEF PressUnset, Command
  <2>2. CASE Unset(f) /\ UNCHANGED overlay
    BY <2>1, <2>2, StillClosed, MutationKeeps DEF Unset
  <2>3. CASE OpenOnly("unset", f)
    BY <2>1, <2>3, OpenKeeps
  <2>. QED  BY <1>10, <2>2, <2>3 DEF PressUnset
<1>11. ASSUME NEW f \in Fields, PressPopOut(f) PROVE KeyKeeps
  <2>1. PICK file \in Files :
          /\ popOut' = [field |-> f, file |-> file]
          /\ Launch([type |-> "Exec", file |-> file])
    BY <1>11 DEF PressPopOut
  <2>2. OpenOverlays' = {}
    BY <1>11, StillClosed DEF PressPopOut, Command
  <2>3. popOut' # Null
    BY <2>1, NilAssumption DEF PopOuts
  <2>4. \E m : Launch(m) /\ StillSo(m)' /\ m.type \notin Endings
    BY <2>1, <2>2, <2>3, NoneOpen DEF StillSo, ComposeRequests, Endings
  <2>5. /\ view = "composing" /\ f \in Admits[composed]
        /\ UNCHANGED <<processVars, draft, decision>>
    BY <1>11 DEF PressPopOut, Command, historyVars
  <2>. QED  BY <1>11, <2>1, <2>2, <2>4, <2>5, NoneOpen, OnScreen DEF KeyKeeps
<1>. QED  BY <1>1, <1>2, <1>3, <1>4, <1>5, <1>6, <1>7, <1>8, <1>9, <1>10, <1>11 DEF CommandKey

LEMMA ComposeKeyEffect ==
    ASSUME TypeOK, SessionInv, ComposeKey
    PROVE  KeyKeeps
BY OverlayKeyEffect, CommandKeyEffect DEF ComposeKey

-----------------------------------------------------------------------------
(* The compose view and the Kind it is over.                               *)

LEMMA ComposedHeld ==
    ASSUME view' \in {"composing", "validating"} \/ (view' = "fetching" /\ switching' # Null),
           composed' # Null, PathOf[composed'] \in documents', Filled(draft') \subseteq Admits[composed']
    PROVE  ComposedInv'
BY DEF ComposedInv

LEMMA ComposedKept ==
    ASSUME ComposedInv, UNCHANGED <<view, switching, composeVars>>, documents \subseteq documents'
    PROVE  ComposedInv'
BY DEF ComposedInv, composeVars, Filled

LEMMA NoneComposed ==
    ASSUME view' \in {"picking", "failed"} \/ (view' = "fetching" /\ switching' = Null),
           ComposeOver(Null, EmptyDraft)
    PROVE  ComposedInv'
BY DEF ComposedInv, ComposeOver

(* openCompose finds no compose view and leaves none unless it opens one. *)
LEMMA OpenedFits ==
    ASSUME TypeOK, ComposedInv, composed = Null, NEW k \in Kinds, OpenCompose(k),
           PathOf[k] \in documents'
    PROVE  ComposedInv'
<1>1. CASE ComposeOver(k, EmptyDraft) /\ view' = "composing"
  <2>1. composed' # Null /\ Filled(draft') = {}
    BY <1>1, ConstantsAssumption DEF ComposeOver, Filled, EmptyDraft
  <2>. QED  BY <1>1, <2>1, ComposedHeld DEF ComposeOver
<1>2. CASE view' = "failed" /\ UNCHANGED composeVars
  BY <1>2 DEF ComposedInv, composeVars
<1>. QED  BY <1>1, <1>2 DEF OpenCompose

(* commitVersionSwitch and resolveVersionSwitch keep the view or build one  *)
(* over the target, whose Type Schema defines all that is carried.          *)
LEMMA CommitFits ==
    ASSUME composed # Null, PathOf[composed] \in documents', Filled(draft) \subseteq Admits[composed],
           NEW k \in Kinds, PathOf[k] \in documents', NEW d, Filled(d) \subseteq Admits[k],
           CommitVersionSwitch(k, d), view' = "composing"
    PROVE  ComposedInv'
BY ComposedHeld, ConstantsAssumption DEF CommitVersionSwitch, ComposeOver, Filled

LEMMA CarriedFits ==
    ASSUME NEW d, NEW k PROVE Filled(CarryOver(d, k)) \subseteq Admits[k]
BY DEF Filled, CarryOver

LEMMA ResolveFits ==
    ASSUME composed # Null, PathOf[composed] \in documents', Filled(draft) \subseteq Admits[composed],
           NEW k \in Kinds, PathOf[k] \in documents', ResolveVersionSwitch(k)
    PROVE  ComposedInv'
<1>1. CASE CommitVersionSwitch(k, CarryOver(draft, k))
  BY <1>1, CommitFits, CarriedFits DEF ResolveVersionSwitch
<1>2. CASE UNCHANGED <<composed, draft>>
  BY <1>2, ComposedHeld DEF ResolveVersionSwitch, Filled
<1>. QED  BY <1>1, <1>2 DEF ResolveVersionSwitch, composeVars

LEMMA ConsumeFits ==
    ASSUME TypeOK, SessionInv, popOut # Null, NEW failed, Consume(popOut, failed), view = "composing"
    PROVE  composed' = composed /\ Filled(draft') \subseteq Admits[composed]
<1>1. popOut.field \in Admits[composed] /\ Filled(draft) \subseteq Admits[composed]
  BY OnScreen DEF SessionInv, PromptInv
<1>. QED  BY <1>1 DEF Consume, TypeOK, ComposeOK, Drafts, Filled

LEMMA ComposedStep ==
    ASSUME ~TypeAhead, TypeOK, SessionInv, ConversationInv', [Next]_vars
    PROVE  ComposedInv'
<1>1. ComposedInv /\ ConversationInv
  BY DEF SessionInv
<1>2. composed # Null => composed \in Kinds /\ PathOf[composed] \in documents
                        /\ Filled(draft) \subseteq Admits[composed]
  BY <1>1 DEF ComposedInv, TypeOK, ComposeOK
<1>3. CASE ComposeKey
  <2>1. view = "composing" /\ UNCHANGED <<view, documents, composed>>
    BY <1>3 DEF ComposeKey, ComposeStep, shellVars
  <2>. QED  BY <1>1, <1>3, <2>1, ComposeKeyEffect, ComposedHeld DEF KeyKeeps, ComposedInv
<1>4. CASE ShellKey
  <2>1. CASE CancelSwitch \/ CancelValidate
    <3>1. view' = "composing" /\ UNCHANGED <<documents, composeVars>>
      BY <2>1 DEF CancelSwitch, CancelValidate
    <3>2. composed # Null
      BY <1>1, <2>1 DEF CancelSwitch, CancelValidate, ComposedInv, ConversationInv, KindsAgree
    <3>. QED  BY <1>2, <3>1, <3>2, ComposedHeld DEF composeVars, Filled
  <2>. QED  BY <1>1, <1>4, <2>1, ComposedKept, NoneComposed
            DEF ShellKey, CtrlC, DismissPicker, QuitTransit, AskToQuit, LeaveTransit,
                ReturnToPicker, SelectHighlighted, shellVars
<1>5. ASSUME NEW s \in Slots, Delivery(s) PROVE ComposedInv'
  <2>. DEFINE k == inflight[s].kind
  <2>1. inflight[s].type \in {"KindSelected", "VersionSwitchRequested", "Fetch"}
           => k \in Kinds /\ PathOf[k] \in Paths
    BY MessageFields DEF TypeOK, RuntimeOK, Paths
  <2>2. CASE OpenKind(s)
    <3>1. composed = Null /\ k \in Kinds
      BY <1>1, <2>1, <2>2, PromptsFind DEF ComposedInv, OpenKind, Delivers
    <3>2. CASE PathOf[k] \in documents /\ OpenCompose(k)
      BY <1>1, <2>2, <3>1, <3>2, OpenedFits DEF OpenKind
    <3>3. CASE view' = "fetching" /\ UNCHANGED composeVars
      BY <1>1, <2>2, <3>1, <3>3, PromptsFind DEF OpenKind, ComposedInv, composeVars
    <3>. QED  BY <2>2, <3>2, <3>3 DEF OpenKind
  <2>3. CASE DocumentFetched(s)
    <3>1. k \in Kinds /\ PathOf[k] \in documents' /\ documents \subseteq documents'
      BY <2>1, <2>3 DEF DocumentFetched, Delivers
    <3>2. CASE UNCHANGED <<view, switching, composeVars>>
      BY <1>1, <3>1, <3>2, ComposedKept
    <3>3. CASE Awaits(k) /\ switching # Null /\ ResolveVersionSwitch(k)
      BY <1>1, <1>2, <3>1, <3>3, ResolveFits DEF Awaits, ComposedInv
    <3>4. CASE Awaits(k) /\ switching = Null /\ OpenCompose(k)
      BY <1>1, <3>1, <3>4, OpenedFits DEF Awaits, ComposedInv
    <3>. QED  BY <2>3, <3>2, <3>3, <3>4 DEF DocumentFetched
  <2>4. CASE DocumentFetchFailed(s)
    <3>1. UNCHANGED <<documents, composeVars>>
      BY <2>4 DEF DocumentFetchFailed
    <3>2. CASE UNCHANGED <<view, switching>>
      BY <1>1, <3>1, <3>2, ComposedKept
    <3>3. CASE Awaits(k) /\ switching # Null /\ view' = "composing"
      BY <1>1, <1>2, <3>1, <3>3, ComposedHeld DEF Awaits, ComposedInv, composeVars, Filled
    <3>4. CASE Awaits(k) /\ switching = Null /\ view' = "failed"
      BY <1>1, <3>1, <3>4 DEF Awaits, ComposedInv, composeVars
    <3>. QED  BY <2>4, <3>2, <3>3, <3>4 DEF DocumentFetchFailed
  <2>5. CASE ReturnToPickerMsg(s)
    BY <2>5, NoneComposed DEF ReturnToPickerMsg, ReturnToPicker
  <2>6. CASE StartVersionSwitch(s)
    <3>1. view = "composing" /\ composed # Null /\ k \in Kinds /\ UNCHANGED documents
      BY <1>1, <2>1, <2>6, PromptsFind DEF StartVersionSwitch, Delivers, ComposedInv
    <3>2. CASE PathOf[k] \in documents /\ ResolveVersionSwitch(k)
      BY <1>2, <3>1, <3>2, ResolveFits
    <3>3. CASE switching' = k /\ view' = "fetching" /\ UNCHANGED composeVars
      BY <1>2, <3>1, <3>3, ComposedHeld, ConstantsAssumption DEF composeVars, Filled
    <3>. QED  BY <2>6, <3>1, <3>2, <3>3 DEF StartVersionSwitch
  <2>7. CASE AcceptVersionSwitch(s)
    <3>. DEFINE pending == overlay["pendingSwitch"]
    <3>1. view = "composing" /\ UNCHANGED <<view, switching, documents>> /\ composed # Null
      BY <1>1, <2>7, PromptsFind DEF AcceptVersionSwitch, ComposedInv
    <3>2. CASE pending # Null /\ CommitVersionSwitch(pending.target, pending.carried)
      <4>1. pending \in Switches
        BY <3>2, OverlayNames DEF TypeOK, ComposeOK, Holds
      <4>2. pending.target \in Kinds /\ PathOf[pending.target] \in documents
            /\ pending.carried = CarryOver(draft, pending.target)
        BY <3>2, <4>1 DEF Switches, SessionInv, SwitchInv, OverlayInv, DropConfirmIsCurrent
      <4>. QED  BY <1>2, <3>1, <3>2, <4>2, CarriedFits, CommitFits
    <3>3. CASE UNCHANGED composeVars
      BY <1>1, <3>1, <3>3, ComposedKept
    <3>. QED  BY <2>7, <3>2, <3>3 DEF AcceptVersionSwitch
  <2>8. CASE StartValidate(s) \/ ValidateResolved(s)
    <3>1. CASE UNCHANGED <<view, composeVars>>
      BY <1>1, <2>8, <3>1, ComposedKept DEF StartValidate, ValidateResolved
    <3>2. CASE /\ view \in {"composing", "validating"} /\ view' \in {"composing", "validating"}
               /\ UNCHANGED <<documents, composed, draft>>
      BY <1>1, <1>2, <3>2, ComposedHeld DEF ComposedInv, Filled
    <3>. QED  BY <2>8, <3>1, <3>2 DEF StartValidate, ValidateResolved, Lands, composeVars
  <2>9. CASE EditorFinished(s)
    <3>1. view = "composing" /\ composed # Null /\ UNCHANGED <<view, switching, documents>>
      BY <1>1, <2>9, PromptsFind DEF EditorFinished, ComposedInv, shellVars
    <3>2. CASE popOut # Null /\ Consume(popOut, inflight[s].failed)
      BY <1>2, <3>1, <3>2, ConsumeFits, ComposedHeld
    <3>. QED  BY <1>1, <2>9, <3>1, <3>2, ComposedKept DEF EditorFinished
  <2>10. CASE ManifestEmitted(s) \/ Exec(s) \/ QuitMsg(s)
    BY <1>1, <2>10, ComposedKept DEF ManifestEmitted, Exec, QuitMsg, shellVars
  <2>. QED  BY <1>5, <2>2, <2>3, <2>4, <2>5, <2>6, <2>7, <2>8, <2>9, <2>10 DEF Delivery
<1>6. CASE Interrupt \/ WriteManifest \/ UNCHANGED vars
  BY <1>1, <1>6, ComposedKept DEF Interrupt, WriteManifest, vars, shellVars
<1>. QED  BY <1>3, <1>4, <1>5, <1>6, StepKinds

-----------------------------------------------------------------------------
(* The version switch.                                                     *)

LEMMA SwitchKept ==
    ASSUME SwitchInv, composed' = composed, documents \subseteq documents',
           switching' \in {Null, switching},
           overlay'["pendingSwitch"] \in {Null, overlay["pendingSwitch"]}
    PROVE  SwitchInv'
BY DEF SwitchInv

LEMMA SwitchReset ==
    ASSUME switching' = Null, overlay' = NoOverlays PROVE SwitchInv'
BY OverlayNames DEF SwitchInv, NoOverlays

(* Whatever the target, resolveVersionSwitch asks about one that is served. *)
LEMMA ResolveSwitch ==
    ASSUME TypeOK, SwitchInv, NEW k \in Kinds, k \in Versions[composed], PathOf[k] \in documents',
           documents \subseteq documents', switching' = Null, ResolveVersionSwitch(k)
    PROVE  SwitchInv'
<1>. USE OverlayNames
<1>1. CASE CommitVersionSwitch(k, CarryOver(draft, k))
  <2>1. CASE overlay' = NoOverlays
    BY <2>1, SwitchReset
  <2>2. CASE Close("pendingSwitch") /\ composed' = composed
    BY <2>2, SwitchKept DEF TypeOK, ComposeOK, Close, Open
  <2>. QED  BY <1>1, <2>1, <2>2 DEF CommitVersionSwitch, ComposeOver
<1>2. CASE UNCHANGED composeVars
  BY <1>2, SwitchKept DEF composeVars
<1>3. ASSUME NEW c, NEW d, UNCHANGED composed,
             Open("pendingSwitch", [target |-> k, carried |-> c, drops |-> d])
      PROVE  SwitchInv'
  BY <1>3 DEF TypeOK, ComposeOK, Open, SwitchInv
<1>. QED  BY <1>1, <1>2, <1>3 DEF ResolveVersionSwitch

LEMMA SwitchStep ==
    ASSUME ~TypeAhead, TypeOK, SessionInv, ConversationInv', [Next]_vars
    PROVE  SwitchInv'
<1>1. SwitchInv /\ ConversationInv /\ ComposedInv
  BY DEF SessionInv
<1>2. CASE ComposeKey
  <2>1. UNCHANGED <<switching, documents, composed>>
    BY <1>2 DEF ComposeKey, ComposeStep, shellVars
  <2>. QED  BY <1>1, <1>2, <2>1, ComposeKeyEffect, SwitchKept DEF KeyKeeps
<1>3. CASE ShellKey
  BY <1>1, <1>3, SwitchKept, SwitchReset
     DEF ShellKey, CtrlC, DismissPicker, QuitTransit, AskToQuit, LeaveTransit, ReturnToPicker,
         ComposeOver, CancelSwitch, CancelValidate, SelectHighlighted, shellVars, composeVars
<1>4. ASSUME NEW s \in Slots, Delivery(s) PROVE SwitchInv'
  <2>. DEFINE k == inflight[s].kind
  <2>1. inflight[s].type \in {"VersionSwitchRequested", "Fetch"} => k \in Kinds /\ PathOf[k] \in Paths
    BY MessageFields DEF TypeOK, RuntimeOK, Paths
  <2>2. CASE OpenKind(s)
    BY <1>1, <2>2, PromptsFind, SwitchKept, SwitchReset
       DEF OpenKind, OpenCompose, ComposeOver, composeVars
  <2>3. CASE DocumentFetched(s)
    <3>1. k \in Kinds /\ PathOf[k] \in documents' /\ documents \subseteq documents'
      BY <2>1, <2>3 DEF DocumentFetched, Delivers
    <3>2. CASE switching' = Null /\ Awaits(k) /\ switching # Null /\ ResolveVersionSwitch(k)
      BY <1>1, <3>1, <3>2, ResolveSwitch DEF Awaits, SwitchInv
    <3>3. CASE switching = Null /\ OpenCompose(k) /\ UNCHANGED switching
      BY <1>1, <3>1, <3>3, SwitchKept, SwitchReset DEF OpenCompose, ComposeOver, composeVars
    <3>. QED  BY <1>1, <2>3, <3>1, <3>2, <3>3, SwitchKept DEF DocumentFetched, composeVars
  <2>4. CASE ReturnToPickerMsg(s)
    BY <2>4, SwitchReset DEF ReturnToPickerMsg, ReturnToPicker, ComposeOver
  <2>5. CASE StartVersionSwitch(s)
    <3>1. view = "composing" /\ switching = Null /\ k \in Kinds /\ k \in Versions[composed]
          /\ UNCHANGED documents
      BY <1>1, <2>1, <2>5, PromptsFind DEF StartVersionSwitch, Delivers, SessionInv, PromptInv, StillSo
    <3>2. CASE PathOf[k] \in documents /\ ResolveVersionSwitch(k) /\ UNCHANGED switching
      BY <1>1, <3>1, <3>2, ResolveSwitch
    <3>3. CASE switching' = k /\ UNCHANGED composeVars
      BY <1>1, <3>1, <3>3 DEF composeVars, SwitchInv
    <3>. QED  BY <2>5, <3>1, <3>2, <3>3 DEF StartVersionSwitch
  <2>6. CASE AcceptVersionSwitch(s)
    <3>1. switching = Null /\ UNCHANGED <<switching, documents>>
      BY <1>1, <2>6, PromptsFind DEF AcceptVersionSwitch
    <3>2. CASE overlay' = NoOverlays
      BY <3>1, <3>2, SwitchReset
    <3>3. CASE Close("pendingSwitch") /\ composed' = composed
      BY <1>1, <3>1, <3>3, SwitchKept, OverlayNames DEF TypeOK, ComposeOK, Close, Open
    <3>. QED  BY <1>1, <2>6, <3>1, <3>2, <3>3, SwitchKept
              DEF AcceptVersionSwitch, CommitVersionSwitch, ComposeOver, composeVars
  <2>7. CASE ValidateResolved(s) \/ EditorFinished(s)
    <3>1. UNCHANGED <<switching, documents, composed>>
      BY <2>7 DEF ValidateResolved, EditorFinished, Consume, shellVars, composeVars
    <3>2. overlay' = overlay \/ \E o \in Overlays \ {"pendingSwitch"} : \E c : Open(o, c)
      BY <2>7, OverlayNames DEF ValidateResolved, EditorFinished, Consume, composeVars
    <3>3. overlay'["pendingSwitch"] = overlay["pendingSwitch"]
      BY <3>2, OverlayNames DEF TypeOK, ComposeOK, Open
    <3>. QED  BY <1>1, <3>1, <3>3, SwitchKept
  <2>. QED  BY <1>1, <1>4, <2>2, <2>3, <2>4, <2>5, <2>6, <2>7, SwitchKept
            DEF Delivery, DocumentFetchFailed, StartValidate, ManifestEmitted, Exec, QuitMsg,
                shellVars, composeVars
<1>5. CASE Interrupt \/ WriteManifest \/ UNCHANGED vars
  BY <1>1, <1>5, SwitchKept DEF Interrupt, WriteManifest, vars, shellVars, composeVars
<1>. QED  BY <1>2, <1>3, <1>4, <1>5, StepKinds

-----------------------------------------------------------------------------
(* Overlays.                                                               *)

LEMMA OverlayKept ==
    ASSUME OverlayInv, UNCHANGED <<view, composeVars>> PROVE OverlayInv'
BY DEF OverlayInv, OpenOverlays, Navigating, DropConfirmIsCurrent, MissingValidateMetadata, Filled,
       CarryOver, Drops, composeVars

LEMMA OverlayReset ==
    ASSUME overlay' = NoOverlays PROVE OverlayInv'
BY NoneOpen, OverlayNames DEF NoOverlays, OpenOverlays

LEMMA ResolveOverlay ==
    ASSUME TypeOK, Navigating, NEW k \in Kinds, ResolveVersionSwitch(k)
    PROVE  OverlayInv'
<1>. USE OverlayNames
<1>1. \A o \in Overlays : overlay[o] = Null
  BY DEF Navigating, OpenOverlays
<1>2. CASE UNCHANGED overlay
  BY <1>2, StillClosed, NoneOpen
<1>3. CASE overlay' = NoOverlays
  BY <1>3, OverlayReset
<1>4. CASE Close("pendingSwitch")
  BY <1>1, <1>4, NoneOpen DEF TypeOK, ComposeOK, Close, Open, OpenOverlays
<1>5. CASE /\ Drops(draft, k) # {} /\ view' = "composing" /\ UNCHANGED draft
           /\ Open("pendingSwitch", [target |-> k, carried |-> CarryOver(draft, k),
                                     drops |-> Drops(draft, k)])
  <2>1. \A o \in Overlays : o # "pendingSwitch" => overlay'[o] = Null
    BY <1>1, <1>5 DEF TypeOK, ComposeOK, Open
  <2>2. overlay'["pendingSwitch"] = [target |-> k, carried |-> CarryOver(draft, k),
                                     drops |-> Drops(draft, k)]
    BY <1>5 DEF TypeOK, ComposeOK, Open
  <2>3. DropConfirmIsCurrent'
    BY <1>5, <2>2 DEF DropConfirmIsCurrent, CarryOver, Drops, Filled
  <2>. QED  BY <1>5, <2>1, <2>3 DEF OverlayInv, OpenOverlays
<1>. QED  BY <1>2, <1>3, <1>4, <1>5 DEF ResolveVersionSwitch, CommitVersionSwitch, ComposeOver, composeVars

LEMMA OverlayStep ==
    ASSUME ~TypeAhead, TypeOK, SessionInv, ConversationInv', [Next]_vars
    PROVE  OverlayInv'
<1>1. OverlayInv /\ ConversationInv
  BY DEF SessionInv
<1>2. view # "composing" => Navigating
  BY <1>1 DEF OverlayInv
<1>3. CASE ComposeKey
  BY <1>3, ComposeKeyEffect DEF KeyKeeps
<1>4. CASE ShellKey
  <2>1. CASE CancelSwitch \/ CancelValidate
    BY <1>2, <2>1, StillClosed, NoneOpen DEF CancelSwitch, CancelValidate, InTransit, composeVars
  <2>. QED  BY <1>1, <1>4, <2>1, OverlayKept, OverlayReset
            DEF ShellKey, CtrlC, DismissPicker, QuitTransit, AskToQuit, LeaveTransit,
                ReturnToPicker, ComposeOver, SelectHighlighted, shellVars
<1>5. ASSUME NEW s \in Slots, Delivery(s) PROVE OverlayInv'
  <2>. DEFINE k == inflight[s].kind
  <2>1. inflight[s].type \in {"VersionSwitchRequested", "Fetch"} => k \in Kinds
    BY MessageFields DEF TypeOK, RuntimeOK
  <2>2. CASE OpenKind(s)
    <3>1. Navigating
      BY <1>1, <1>2, <2>2, PromptsFind
    <3>. QED  BY <2>2, <3>1, StillClosed, NoneOpen, OverlayReset
              DEF OpenKind, OpenCompose, ComposeOver, composeVars
  <2>3. CASE DocumentFetched(s) \/ DocumentFetchFailed(s)
    <3>1. CASE Awaits(k)
      <4>1. Navigating /\ k \in Kinds
        BY <1>2, <2>1, <2>3, <3>1 DEF Awaits, DocumentFetched, DocumentFetchFailed, Delivers
      <4>. QED  BY <2>3, <3>1, <4>1, ResolveOverlay, StillClosed, NoneOpen, OverlayReset
                DEF DocumentFetched, DocumentFetchFailed, OpenCompose, ComposeOver, composeVars
    <3>2. CASE ~Awaits(k)
      BY <1>1, <2>3, <3>2, OverlayKept DEF DocumentFetched, DocumentFetchFailed
    <3>. QED  BY <3>1, <3>2
  <2>4. CASE ReturnToPickerMsg(s)
    BY <2>4, OverlayReset DEF ReturnToPickerMsg, ReturnToPicker, ComposeOver
  <2>5. CASE \/ StartVersionSwitch(s) \/ StartValidate(s) \/ ManifestEmitted(s)
             \/ Exec(s) \/ EditorFinished(s)
    <3>1. Navigating
      BY <2>5 DEF StartVersionSwitch, StartValidate, ManifestEmitted, Exec, EditorFinished,
                  Delivers, SessionInv, PromptInv, StillSo, ComposeRequests
    <3>2. CASE UNCHANGED overlay
      BY <3>1, <3>2, StillClosed, NoneOpen
    <3>3. CASE StartVersionSwitch(s)
      BY <2>1, <3>1, <3>2, <3>3, ResolveOverlay DEF StartVersionSwitch, Delivers, composeVars
    <3>4. CASE EditorFinished(s) /\ popOut # Null /\ Consume(popOut, inflight[s].failed)
      <4>1. view' = "composing" /\ popOut.field \in Admits[composed] /\ composed' = composed
        BY <1>1, <3>4, PromptsFind DEF EditorFinished, Consume, shellVars, SessionInv, PromptInv
      <4>2. CASE Open("editor", popOut.field)
        BY <3>1, <4>1, <4>2, OneOpened, OverlayNames
      <4>. QED  BY <3>2, <3>4, <4>2 DEF Consume
    <3>. QED  BY <2>5, <3>2, <3>3, <3>4 DEF StartValidate, ManifestEmitted, Exec, EditorFinished, composeVars
  <2>6. CASE AcceptVersionSwitch(s)
    <3>1. CASE UNCHANGED composeVars
      BY <1>1, <2>6, <3>1, OverlayKept DEF AcceptVersionSwitch
    <3>2. CASE overlay["pendingSwitch"] # Null /\ Close("pendingSwitch")
      <4>1. OpenOverlays' = {}
        BY <1>1, <3>2, OverlayNames DEF OverlayInv, OpenOverlays, Close, Open, TypeOK, ComposeOK
      <4>. QED  BY <4>1, NoneOpen
    <3>. QED  BY <2>6, <3>1, <3>2, OverlayReset DEF AcceptVersionSwitch, CommitVersionSwitch, ComposeOver
  <2>7. CASE ValidateResolved(s)
    <3>1. CASE UNCHANGED <<view, composeVars>>
      BY <1>1, <3>1, OverlayKept
    <3>2. CASE Lands(inflight[s]) /\ view' = "composing"
      BY <1>2, <2>7, <3>2, OneOpened, StillClosed, NoneOpen, OverlayNames DEF ValidateResolved, Lands
    <3>. QED  BY <2>7, <3>1, <3>2 DEF ValidateResolved
  <2>8. CASE QuitMsg(s)
    BY <1>1, <2>8, OverlayKept DEF QuitMsg, shellVars
  <2>. QED  BY <1>5, <2>2, <2>3, <2>4, <2>5, <2>6, <2>7, <2>8 DEF Delivery
<1>6. CASE Interrupt \/ WriteManifest \/ UNCHANGED vars
  BY <1>1, <1>6, OverlayKept DEF Interrupt, WriteManifest, vars, shellVars
<1>. QED  BY <1>3, <1>4, <1>5, <1>6, StepKinds

-----------------------------------------------------------------------------
(* Commands and what they were started for.                                *)

(* A message that is no compose request has nothing to hold on to. *)
LEMMA NothingToKeep ==
    ASSUME \A t \in Slots : inflight'[t].type \notin ComposeRequests
    PROVE  \A t \in Slots : StillSo(inflight[t])'
BY DEF StillSo, ComposeRequests

LEMMA StillSoKept ==
    ASSUME \A t \in Slots : StillSo(inflight[t]), UNCHANGED <<composeVars, waived>>,
           \A t \in Slots : inflight'[t].type \in ComposeRequests => inflight'[t] = inflight[t]
    PROVE  \A t \in Slots : StillSo(inflight[t])'
BY DEF StillSo, ComposeRequests, Navigating, OpenOverlays, Emit, Filled, MissingValidateMetadata,
       composeVars

LEMMA PopOutFitsStep ==
    ASSUME ~TypeAhead, TypeOK, SessionInv, ConversationInv', [Next]_vars
    PROVE  (popOut # Null => popOut.field \in Admits[composed])'
<1>1. popOut # Null => popOut.field \in Admits[composed]
  BY DEF SessionInv, PromptInv
<1>2. CASE ComposeKey
  BY <1>2, ComposeKeyEffect DEF KeyKeeps, ComposeKey, ComposeStep
<1>3. CASE popOut' = Null \/ UNCHANGED <<popOut, composed>>
  BY <1>1, <1>3
<1>4. CASE ShellKey
  BY <1>3, <1>4 DEF ShellKey, CtrlC, DismissPicker, QuitTransit, AskToQuit, LeaveTransit,
                    ReturnToPicker, ComposeOver, CancelSwitch, CancelValidate, SelectHighlighted,
                    composeVars
<1>5. ASSUME NEW k, OpenCompose(k) \/ ResolveVersionSwitch(k)
      PROVE  popOut' = Null \/ UNCHANGED <<popOut, composed>>
  BY <1>5 DEF OpenCompose, ResolveVersionSwitch, CommitVersionSwitch, ComposeOver, composeVars
<1>6. ASSUME NEW s \in Slots, Delivery(s) PROVE popOut' = Null \/ UNCHANGED <<popOut, composed>>
  <2>1. CASE OpenKind(s) \/ DocumentFetched(s) \/ StartVersionSwitch(s)
    BY <1>5, <2>1 DEF OpenKind, DocumentFetched, StartVersionSwitch, composeVars
  <2>2. CASE AcceptVersionSwitch(s) \/ ReturnToPickerMsg(s)
    BY <2>2 DEF AcceptVersionSwitch, CommitVersionSwitch, ReturnToPickerMsg, ReturnToPicker,
                ComposeOver, composeVars
  <2>. QED  BY <1>6, <2>1, <2>2
            DEF Delivery, DocumentFetchFailed, StartValidate, ValidateResolved, ManifestEmitted,
                Exec, EditorFinished, Consume, QuitMsg, composeVars
<1>7. CASE Interrupt \/ WriteManifest \/ UNCHANGED vars
  BY <1>3, <1>7 DEF Interrupt, WriteManifest, vars, composeVars
<1>. QED  BY <1>2, <1>3, <1>4, <1>6, <1>7, StepKinds

LEMMA PromptStep ==
    ASSUME ~TypeAhead, TypeOK, SessionInv, ConversationInv', [Next]_vars
    PROVE  PromptInv'
<1>1. ConversationInv /\ \A t \in Slots : StillSo(inflight[t])
  BY DEF SessionInv, PromptInv
<1>. SUFFICES \A t \in Slots : StillSo(inflight[t])'
  BY PopOutFitsStep DEF PromptInv
<1>2. CASE ComposeKey
  <2>1. \A t \in Slots : inflight[t].type \notin ComposeRequests
    BY <1>2 DEF ComposeKey, NoPrompt, Prompt, ComposeRequests
  <2>2. CASE inflight' = inflight
    BY <2>1, <2>2, NothingToKeep
  <2>3. ASSUME NEW m, Launch(m), StillSo(m)' PROVE \A t \in Slots : StillSo(inflight[t])'
    <3>1. PICK s \in Slots : \A t \in Slots : inflight'[t] = IF t = s THEN m ELSE inflight[t]
      BY <2>3, LaunchFrame
    <3>. QED  BY <2>1, <2>3, <3>1 DEF StillSo, ComposeRequests
  <2>. QED  BY <1>2, <2>2, <2>3, ComposeKeyEffect DEF KeyKeeps
<1>3. CASE NoPrompt /\ ShellKey
  <2>1. \A t \in Slots : inflight[t].type \notin ComposeRequests
    BY <1>3 DEF NoPrompt, Prompt, ComposeRequests
  <2>2. ASSUME NEW m, Launch(m), m.type \in {"Quit", "KindSelected"}
        PROVE  \A t \in Slots : StillSo(inflight[t])'
    <3>1. PICK s \in Slots : \A t \in Slots : inflight'[t] = IF t = s THEN m ELSE inflight[t]
      BY <2>2, LaunchFrame
    <3>. QED  BY <2>1, <2>2, <3>1, NothingToKeep DEF ComposeRequests
  <2>3. CASE LeaveTransit \/ CancelSwitch
    BY <2>1, <2>3, LeaveFetchesFrame, NothingToKeep DEF LeaveTransit, CancelSwitch
  <2>4. CASE CancelValidate
    BY <2>1, <2>4, NothingToKeep DEF CancelValidate
  <2>. QED  BY <1>3, <2>2, <2>3, <2>4
            DEF ShellKey, CtrlC, DismissPicker, QuitTransit, AskToQuit, SelectHighlighted
<1>4. ASSUME NEW s \in Slots, Delivery(s) PROVE \A t \in Slots : StillSo(inflight[t])'
  <2>1. \A t \in Slots \ {s} : inflight'[t] = inflight[t]
    BY <1>4, DeliveryFrame
  <2>2. CASE DocumentFetched(s) \/ DocumentFetchFailed(s) \/ ValidateResolved(s) \/ QuitMsg(s)
    <3>1. inflight'[s].type \notin ComposeRequests
      BY <2>2, ReturnsFrame
         DEF DocumentFetched, DocumentFetchFailed, ValidateResolved, QuitMsg, Idle, ComposeRequests
    <3>2. CASE UNCHANGED <<composeVars, waived>>
      BY <1>1, <2>1, <3>1, <3>2, StillSoKept
    <3>3. CASE view # "composing"
      BY <1>1, <2>1, <3>1, <3>3, NothingToKeep DEF ConversationInv, PromptsBelong
    <3>. QED  BY <2>2, <3>2, <3>3
              DEF DocumentFetched, DocumentFetchFailed, ValidateResolved, QuitMsg, Awaits, Lands, historyVars
  <2>3. CASE Prompt(inflight[s])
    <3>1. \A t \in Slots \ {s} : inflight'[t].type \notin ComposeRequests
      BY <1>1, <2>1, <2>3 DEF ConversationInv, OnePrompt, Prompt, ComposeRequests
    <3>2. CASE inflight'[s].type \notin ComposeRequests
      BY <3>1, <3>2, NothingToKeep
    <3>3. CASE Exec(s)
      <4>1. PICK failed \in BOOLEAN : Becomes(s, [type |-> "EditorFinished", failed |-> failed])
        BY <3>3 DEF Exec
      <4>2. inflight'[s].type = "EditorFinished"
        BY <4>1, BecomesFrame
      <4>3. popOut # Null /\ Navigating /\ UNCHANGED <<popOut, overlay>>
        BY <1>1, <3>3 DEF Exec, Delivers, StillSo, ComposeRequests, composeVars
      <4>. QED  BY <3>1, <4>2, <4>3 DEF StillSo, ComposeRequests, Navigating, OpenOverlays
    <3>. QED  BY <1>4, <3>2, <3>3, Continues DEF ComposeRequests
  <2>4. Prompt(inflight[s]) \/ DocumentFetched(s) \/ DocumentFetchFailed(s) \/ ValidateResolved(s)
    BY <1>4 DEF Delivery, Delivers, Prompt, OpenKind, ReturnToPickerMsg, StartVersionSwitch,
                AcceptVersionSwitch, StartValidate, ManifestEmitted, Exec, EditorFinished, QuitMsg
  <2>. QED  BY <2>2, <2>3, <2>4
<1>5. CASE Interrupt \/ WriteManifest \/ UNCHANGED vars
  BY <1>1, <1>5, StillSoKept DEF Interrupt, WriteManifest, vars, historyVars
<1>. QED  BY <1>2, <1>3, <1>4, <1>5, StepKinds

-----------------------------------------------------------------------------
(* Temp files.                                                             *)

LEMMA NoFileYet ==
    ASSUME TempFilesAreConsumed, \A t \in Slots : inflight[t].type \notin {"Exec", "EditorFinished"}
    PROVE  \A file \in Files : files[file] = Null
BY DEF TempFilesAreConsumed, Flying

LEMMA NoFileLeft ==
    ASSUME \A file \in Files : files'[file] = Null PROVE TempFilesAreConsumed'
BY DEF TempFilesAreConsumed

LEMMA TempFilesStep ==
    ASSUME ~TypeAhead, TypeOK, SessionInv, ConversationInv', [Next]_vars
    PROVE  TempFilesAreConsumed'
<1>1. TempFilesAreConsumed /\ ConversationInv /\ PromptInv
  BY DEF SessionInv
<1>2. NoPrompt => \A file \in Files : files[file] = Null
  BY <1>1, NoFileYet DEF NoPrompt, Prompt
<1>3. CASE NoPrompt /\ files' = files
  BY <1>2, <1>3, NoFileLeft
<1>4. ASSUME NoPrompt, NEW f \in Fields, PressPopOut(f) PROVE TempFilesAreConsumed'
  <2>1. PICK file \in Files :
          /\ files' = [files EXCEPT ![file] = Spelled(draft[f])]
          /\ Launch([type |-> "Exec", file |-> file])
    BY <1>4 DEF PressPopOut
  <2>2. PICK s \in Slots : inflight'[s] = [type |-> "Exec", file |-> file]
    BY <2>1, LaunchFrame
  <2>3. \A other \in Files \ {file} : files'[other] = Null
    BY <1>2, <1>4, <2>1 DEF TypeOK, RuntimeOK
  <2>. QED  BY <2>2, <2>3 DEF TempFilesAreConsumed, Flying
<1>5. CASE ComposeKey
  BY <1>3, <1>4, <1>5, ComposeKeyEffect DEF KeyKeeps, ComposeKey
<1>6. CASE NoPrompt /\ ShellKey
  BY <1>3, <1>6 DEF ShellKey, CtrlC, DismissPicker, QuitTransit, AskToQuit, LeaveTransit,
                    CancelSwitch, CancelValidate, SelectHighlighted
<1>7. ASSUME NEW s \in Slots, Delivery(s) PROVE TempFilesAreConsumed'
  <2>1. \A t \in Slots \ {s} : inflight'[t] = inflight[t]
    BY <1>7, DeliveryFrame
  <2>2. CASE DocumentFetched(s) \/ DocumentFetchFailed(s) \/ ValidateResolved(s)
    <3>1. inflight[s].type \notin {"Exec", "EditorFinished"} /\ files' = files
      BY <2>2 DEF DocumentFetched, DocumentFetchFailed, ValidateResolved, Delivers
    <3>2. Flying("EditorFinished") # {} => popOut' = popOut
      BY <1>1, <2>2 DEF Flying, ConversationInv, PromptsBelong, ComposeRequests, DocumentFetched,
                        DocumentFetchFailed, ValidateResolved, Awaits, Lands, composeVars
    <3>. QED  BY <1>1, <2>1, <3>1, <3>2 DEF TempFilesAreConsumed, Flying
  <2>3. CASE Prompt(inflight[s])
    <3>1. \A t \in Slots \ {s} : inflight[t].type \notin {"Exec", "EditorFinished"}
      BY <1>1, <2>3 DEF ConversationInv, OnePrompt, Prompt
    <3>2. CASE Exec(s)
      <4>. DEFINE own == inflight[s].file
      <4>1. popOut # Null /\ popOut.file = own /\ popOut' = popOut
        BY <1>1, <3>2 DEF PromptInv, StillSo, Exec, Delivers, composeVars
      <4>2. \A file \in Files \ {own} : files[file] = Null
        BY <1>1, <3>1, <3>2 DEF TempFilesAreConsumed, Flying, Exec, Delivers
      <4>3. \A file \in Files \ {own} : files'[file] = Null
        BY <3>2, <4>2 DEF Exec, TypeOK, RuntimeOK
      <4>4. PICK failed : Becomes(s, [type |-> "EditorFinished", failed |-> failed])
        BY <3>2 DEF Exec
      <4>5. inflight'[s].type = "EditorFinished"
        BY <4>4, BecomesFrame
      <4>. QED  BY <4>1, <4>3, <4>5 DEF TempFilesAreConsumed, Flying
    <3>3. CASE EditorFinished(s)
      <4>1. popOut # Null /\ Consume(popOut, inflight[s].failed)
        BY <1>1, <3>3, PromptsFind DEF EditorFinished, Delivers, PromptInv, StillSo
      <4>2. \A file \in Files : file # popOut.file => files[file] = Null
        BY <1>1, <3>1, <3>3 DEF TempFilesAreConsumed, Flying, EditorFinished, Delivers
      <4>3. \A file \in Files : files'[file] = Null
        BY <4>1, <4>2 DEF Consume, TypeOK, RuntimeOK
      <4>. QED  BY <4>3, NoFileLeft
    <3>4. CASE ~Exec(s) /\ ~EditorFinished(s)
      <4>1. inflight[s].type \notin {"Exec", "EditorFinished"} /\ files' = files
        BY <1>7, <3>4 DEF Delivery, Delivers, OpenKind, DocumentFetched, DocumentFetchFailed,
              ReturnToPickerMsg, StartVersionSwitch, AcceptVersionSwitch, StartValidate,
              ValidateResolved, ManifestEmitted, QuitMsg
      <4>. QED  BY <1>1, <3>1, <4>1, NoFileYet, NoFileLeft
    <3>. QED  BY <3>2, <3>3, <3>4
  <2>4. Prompt(inflight[s]) \/ DocumentFetched(s) \/ DocumentFetchFailed(s) \/ ValidateResolved(s)
    BY <1>7 DEF Delivery, Delivers, Prompt, OpenKind, ReturnToPickerMsg, StartVersionSwitch,
                AcceptVersionSwitch, StartValidate, ManifestEmitted, Exec, EditorFinished, QuitMsg
  <2>. QED  BY <2>2, <2>3, <2>4
<1>8. CASE Interrupt \/ WriteManifest \/ UNCHANGED vars
  BY <1>1, <1>8 DEF Interrupt, WriteManifest, vars, composeVars, TempFilesAreConsumed, Flying
<1>. QED  BY <1>5, <1>6, <1>7, <1>8, StepKinds

-----------------------------------------------------------------------------
(* Dry-runs.                                                               *)

LEMMA DryRunKept ==
    ASSUME DryRunHasItsMetadata,
           \A t \in Slots : inflight'[t].type = "Validate" => inflight'[t] = inflight[t]
    PROVE  DryRunHasItsMetadata'
BY DEF DryRunHasItsMetadata, Flying

LEMMA CompleteManifest ==
    ASSUME TypeOK, NEW k, MissingValidateMetadata(k, draft) = {}
    PROVE  \A f \in {NameField} \cup (IF k \in NamespaceNeeded THEN {NamespaceField} ELSE {}) :
              \E v \in Values : <<f, v>> \in Emit(draft)
BY ConstantsAssumption
   DEF MissingValidateMetadata, Filled, Emit, TypeOK, ComposeOK, Drafts

LEMMA DryRunStep ==
    ASSUME ~TypeAhead, TypeOK, SessionInv, ConversationInv', [Next]_vars
    PROVE  DryRunHasItsMetadata'
<1>1. DryRunHasItsMetadata /\ ConversationInv /\ PromptInv
  BY DEF SessionInv
<1>2. ASSUME NEW m, Launch(m), m.type # "Validate" PROVE DryRunHasItsMetadata'
  <2>1. PICK s \in Slots : \A t \in Slots : inflight'[t] = IF t = s THEN m ELSE inflight[t]
    BY <1>2, LaunchFrame
  <2>. QED  BY <1>1, <1>2, <2>1, DryRunKept
<1>3. CASE inflight' = inflight
  BY <1>1, <1>3, DryRunKept
<1>4. CASE ComposeKey
  BY <1>2, <1>3, <1>4 DEF ComposeKey, ComposeStep, ComposeRequests
<1>5. CASE ShellKey
  <2>1. CASE LeaveFetches
    BY <1>1, <2>1, LeaveFetchesFrame, DryRunKept
  <2>. QED  BY <1>2, <1>3, <1>5, <2>1
            DEF ShellKey, CtrlC, DismissPicker, QuitTransit, AskToQuit, LeaveTransit,
                CancelSwitch, CancelValidate, SelectHighlighted
<1>6. ASSUME NEW s \in Slots, Delivery(s) PROVE DryRunHasItsMetadata'
  <2>1. \A t \in Slots \ {s} : inflight'[t] = inflight[t]
    BY <1>6, DeliveryFrame
  <2>2. CASE StartValidate(s)
    <3>. DEFINE m == [type |-> "Validate", seq |-> validateSeq + 1, kind |-> kind,
                      manifest |-> inflight[s].manifest]
    <3>1. view = "composing" /\ kind = composed
      BY <1>1, <2>2, PromptsFind
    <3>2. Becomes(s, m)
      BY <2>2, <3>1 DEF StartValidate
    <3>3. inflight'[s] = m
      BY <3>2, BecomesFrame
    <3>4. m.manifest = Emit(draft) /\ MissingValidateMetadata(m.kind, draft) = {}
      BY <1>1, <2>2, <3>1
         DEF StartValidate, Delivers, ConversationInv, FlightsSpeak, PromptInv, StillSo
    <3>5. \A f \in {NameField} \cup (IF m.kind \in NamespaceNeeded THEN {NamespaceField} ELSE {}) :
             \E v \in Values : <<f, v>> \in m.manifest
      BY <3>4, CompleteManifest
    <3>. QED  BY <1>1, <2>1, <3>3, <3>5 DEF DryRunHasItsMetadata, Flying
  <2>3. CASE ~StartValidate(s)
    <3>1. inflight'[s].type # "Validate"
      BY <1>6, <2>3, Continues
    <3>. QED  BY <1>1, <2>1, <3>1, DryRunKept
  <2>. QED  BY <2>2, <2>3
<1>7. CASE Interrupt \/ WriteManifest \/ UNCHANGED vars
  BY <1>3, <1>7 DEF Interrupt, WriteManifest, vars
<1>. QED  BY <1>4, <1>5, <1>6, <1>7, StepKinds

-----------------------------------------------------------------------------
(* The way out.                                                            *)

Undecided == decision = "none" /\ manifest = Null /\ stdout = Null

LEMMA NothingEnding ==
    ASSUME ExitInv, Running, \A t \in Slots : inflight[t].type \notin Endings
    PROVE  Undecided
BY DEF ExitInv, Running, Endings, Undecided

LEMMA StaysUndecided ==
    ASSUME Undecided', session' \in {"running", "interrupted"},
           \A t \in Slots : inflight'[t].type \notin Endings
    PROVE  ExitInv'
BY DEF ExitInv, Undecided, Flying, Endings

LEMMA EndingLaunched ==
    ASSUME manifest' = Null, stdout' = Null, session' = "running", decision' = "emit" => view' = "composing",
           NEW s \in Slots, NEW m, Decides(m)',
           \A t \in Slots : inflight'[t].type \in Endings => t = s, inflight'[s] = m
    PROVE  ExitInv'
BY DEF ExitInv, Decides, Flying, Endings, Due, Running

(* A step that touches neither the decision nor what it was made about. *)
LEMMA ExitKept ==
    ASSUME ExitInv, UNCHANGED <<decision, manifest, processVars>>,
           decision = "emit" => UNCHANGED <<view, draft>>,
           decision = "nothingToLose" => (Filled(draft) = {})' /\ switching' = Null,
           \A t \in Slots : \/ inflight'[t] = inflight[t]
                            \/ inflight[t].type \notin Endings /\ inflight'[t].type \notin Endings
    PROVE  ExitInv'
<1>1. Due' = Due
  BY DEF Due, Emit, Filled
<1>2. decision = "emit" => Emit(draft)' = Emit(draft)
  BY DEF Emit, Filled
<1>. QED  BY <1>1, <1>2 DEF ExitInv, Flying, Endings, Running, processVars

LEMMA ExitStep ==
    ASSUME ~TypeAhead, TypeOK, SessionInv, ConversationInv', [Next]_vars
    PROVE  ExitInv'
<1>1. ExitInv /\ ConversationInv /\ ComposedInv
  BY DEF SessionInv
<1>2. NoPrompt /\ Running => Undecided
  BY <1>1, NothingEnding DEF NoPrompt, Prompt, Endings
<1>3. NoPrompt => \A t \in Slots : inflight[t].type \notin Endings
  BY DEF NoPrompt, Prompt, Endings
<1>4. ASSUME NoPrompt, Running, UNCHANGED <<manifest, processVars>>,
             NEW m, Launch(m),
             Decides(m)' \/ (m.type \notin Endings /\ decision' = decision),
             decision' = "emit" => view' = "composing"
      PROVE  ExitInv'
  <2>1. PICK s \in Slots : \A t \in Slots : inflight'[t] = IF t = s THEN m ELSE inflight[t]
    BY <1>4, LaunchFrame
  <2>2. Undecided /\ session' = "running" /\ stdout' = Null /\ manifest' = Null
    BY <1>2, <1>4 DEF Running, processVars, Undecided
  <2>3. CASE Decides(m)'
    BY <1>3, <1>4, <2>1, <2>2, <2>3, EndingLaunched
  <2>4. CASE m.type \notin Endings /\ decision' = decision
    BY <1>3, <1>4, <2>1, <2>2, <2>4, StaysUndecided DEF Undecided
  <2>. QED  BY <1>4, <2>3, <2>4
<1>5. ASSUME NoPrompt, Running, UNCHANGED <<manifest, processVars, decision>>,
             \A t \in Slots : inflight'[t].type = inflight[t].type
      PROVE  ExitInv'
  BY <1>2, <1>3, <1>5, StaysUndecided DEF Undecided, Running, processVars
<1>6. CASE ComposeKey
  <2>1. UNCHANGED <<manifest, processVars>> /\ view' = "composing"
    BY <1>6, ComposeKeyEffect DEF KeyKeeps, ComposeKey, ComposeStep, shellVars
  <2>. QED  BY <1>4, <1>5, <1>6, <2>1, ComposeKeyEffect DEF KeyKeeps, ComposeKey
<1>7. CASE NoPrompt /\ Running /\ ShellKey
  <2>1. CASE CtrlC
    <3>1. Decides([type |-> "Quit"])' /\ decision' = "discard"
      BY <2>1 DEF CtrlC, AskToQuit, Decides
    <3>. QED  BY <1>4, <1>7, <2>1, <3>1 DEF CtrlC, AskToQuit, shellVars
  <2>2. CASE DismissPicker \/ QuitTransit
    <3>1. composed = Null /\ switching = Null
      BY <1>1, <2>2 DEF DismissPicker, QuitTransit, InTransit, ComposedInv, ConversationInv, KindsAgree
    <3>2. draft = EmptyDraft /\ UNCHANGED <<draft, switching, manifest, processVars>>
          /\ Launch([type |-> "Quit"]) /\ decision' = "nothingToLose"
      BY <1>1, <2>2, <3>1 DEF DismissPicker, QuitTransit, AskToQuit, ComposedInv, shellVars, composeVars
    <3>3. Decides([type |-> "Quit"])'
      BY <3>1, <3>2 DEF Decides, Filled, EmptyDraft
    <3>. QED  BY <1>4, <1>7, <3>2, <3>3
  <2>3. CASE \E k \in Kinds : SelectHighlighted(k)
    <3>1. PICK k \in Kinds : Launch([type |-> "KindSelected", kind |-> k])
      BY <2>3 DEF SelectHighlighted
    <3>2. UNCHANGED <<manifest, processVars, decision>>
      BY <2>3 DEF SelectHighlighted, shellVars, historyVars
    <3>3. decision' # "emit"
      BY <1>2, <1>7, <3>2 DEF Undecided
    <3>. QED  BY <1>4, <1>7, <3>1, <3>2, <3>3 DEF Endings
  <2>4. CASE LeaveTransit \/ CancelSwitch \/ CancelValidate
    <3>1. \A t \in Slots : inflight'[t].type = inflight[t].type
      BY <2>4, LeaveFetchesFrame DEF LeaveTransit, CancelSwitch, CancelValidate
    <3>. QED  BY <1>5, <1>7, <2>4, <3>1
              DEF LeaveTransit, ReturnToPicker, CancelSwitch, CancelValidate, historyVars
  <2>. QED  BY <1>7, <2>1, <2>2, <2>3, <2>4 DEF ShellKey
<1>8. ASSUME Running, NEW s \in Slots, Delivery(s) PROVE ExitInv'
  <2>1. \A t \in Slots \ {s} : inflight'[t] = inflight[t]
    BY <1>8, DeliveryFrame
  <2>2. CASE DocumentFetched(s) \/ DocumentFetchFailed(s) \/ ValidateResolved(s)
    <3>1. UNCHANGED <<decision, manifest, processVars>>
      BY <2>2 DEF DocumentFetched, DocumentFetchFailed, ValidateResolved, historyVars
    <3>2. inflight[s].type \notin Endings /\ inflight'[s].type \notin Endings
      BY <2>2, ReturnsFrame
         DEF DocumentFetched, DocumentFetchFailed, ValidateResolved, Delivers, Idle, Endings
    <3>3. decision = "emit" => UNCHANGED <<view, draft>>
      BY <1>1, <2>2 DEF ExitInv, DocumentFetched, DocumentFetchFailed, ValidateResolved, Awaits,
                        Lands, composeVars
    <3>4. ASSUME decision = "nothingToLose" PROVE (Filled(draft) = {})' /\ switching' = Null
      <4>1. Filled(draft) = {} /\ switching = Null
        BY <1>1, <3>4 DEF ExitInv
      <4>2. switching' = Null /\ draft' \in {draft, EmptyDraft}
        BY <2>2, <4>1 DEF DocumentFetched, DocumentFetchFailed, ValidateResolved, OpenCompose,
                          ComposeOver, composeVars
      <4>. QED  BY <4>1, <4>2 DEF Filled, EmptyDraft
    <3>. QED  BY <1>1, <2>1, <3>1, <3>2, <3>3, <3>4, ExitKept
  <2>3. CASE Prompt(inflight[s])
    <3>1. \A t \in Slots \ {s} : inflight'[t].type \notin Endings /\ inflight[t].type \notin Endings
      BY <1>1, <2>1, <2>3 DEF ConversationInv, OnePrompt, Prompt, Endings
    <3>2. CASE ManifestEmitted(s)
      <4>1. decision = "emit" /\ manifest = Null /\ manifest' = Emit(draft) /\ view = "composing"
        BY <1>1, <3>2 DEF ExitInv, Flying, ManifestEmitted, Delivers
      <4>2. UNCHANGED <<decision, draft, view, session, stdout>>
        BY <3>2 DEF ManifestEmitted, composeVars, historyVars, processVars
      <4>3. Emit(draft)' = Emit(draft)
        BY <4>2 DEF Emit, Filled
      <4>4. inflight'[s].type = "Quit"
        BY <3>2, BecomesFrame DEF ManifestEmitted
      <4>. QED  BY <1>1, <1>8, <3>1, <4>1, <4>2, <4>3, <4>4 DEF ExitInv, Flying, Endings, Due, Running
    <3>3. CASE QuitMsg(s)
      <4>1. decision # "none" /\ manifest = Due
        BY <1>1, <3>3 DEF ExitInv, Flying, QuitMsg, Delivers
      <4>2. UNCHANGED <<decision, draft, view, switching, manifest, stdout>> /\ session' = "returned"
        BY <3>3 DEF QuitMsg, composeVars, shellVars, historyVars
      <4>3. Due' = Due /\ Filled(draft)' = Filled(draft)
        BY <4>2 DEF Due, Emit, Filled
      <4>4. inflight'[s].type \notin Endings
        BY <3>3, ReturnsFrame DEF QuitMsg, Idle, Endings
      <4>. QED  BY <1>1, <1>8, <3>1, <4>1, <4>2, <4>3, <4>4 DEF ExitInv, Flying, Endings, Running
    <3>4. CASE ~ManifestEmitted(s) /\ ~QuitMsg(s)
      <4>1. inflight[s].type \notin Endings /\ UNCHANGED <<decision, manifest, processVars>>
        BY <1>8, <2>2, <3>4
           DEF Delivery, Delivers, Endings, OpenKind, ReturnToPickerMsg, ReturnToPicker,
               StartVersionSwitch, AcceptVersionSwitch, StartValidate, Exec, EditorFinished,
               DocumentFetched, DocumentFetchFailed, ValidateResolved, shellVars, historyVars
      <4>2. inflight'[s].type \notin Endings
        BY <1>8, <3>4, <4>1, Continues DEF Endings
      <4>3. Undecided
        BY <1>1, <1>8, <3>1, <4>1, NothingEnding
      <4>. QED  BY <1>8, <3>1, <4>1, <4>2, <4>3, StaysUndecided DEF Undecided, Running, processVars
    <3>. QED  BY <3>2, <3>3, <3>4
  <2>4. Prompt(inflight[s]) \/ DocumentFetched(s) \/ DocumentFetchFailed(s) \/ ValidateResolved(s)
    BY <1>8 DEF Delivery, Delivers, Prompt, OpenKind, ReturnToPickerMsg, StartVersionSwitch,
                AcceptVersionSwitch, StartValidate, ManifestEmitted, Exec, EditorFinished, QuitMsg
  <2>. QED  BY <2>2, <2>3, <2>4
<1>9. CASE Interrupt \/ WriteManifest
  <2>1. UNCHANGED <<view, switching, manifest, draft, inflight, decision>>
    BY <1>9 DEF Interrupt, WriteManifest, shellVars, composeVars, historyVars
  <2>2. Due' = Due /\ Emit(draft)' = Emit(draft) /\ Filled(draft)' = Filled(draft)
    BY <2>1 DEF Due, Emit, Filled
  <2>. QED  BY <1>1, <1>9, <2>1, <2>2 DEF ExitInv, Flying, Running, Interrupt, WriteManifest
<1>10. CASE UNCHANGED vars
  <2>1. UNCHANGED <<view, switching, manifest, draft, inflight, decision, session, stdout>>
    BY <1>10 DEF vars, shellVars, composeVars, processVars, historyVars
  <2>2. Due' = Due /\ Emit(draft)' = Emit(draft) /\ Filled(draft)' = Filled(draft)
    BY <2>1 DEF Due, Emit, Filled
  <2>. QED  BY <1>1, <2>1, <2>2 DEF ExitInv, Flying, Running
<1>. QED  BY <1>6, <1>7, <1>8, <1>9, <1>10, StepKinds

-----------------------------------------------------------------------------
(* The theorems.                                                           *)

LEMMA InitSession == Init => SessionInv
<1>. SUFFICES ASSUME Init PROVE SessionInv
  OBVIOUS
<1>1. \A s \in Slots : inflight[s].type \in {"Idle", "Fetch"}
  BY DEF Init, Idle, FetchOf
<1>2. LoadingIsAwaited
  BY DEF Init, LoadingIsAwaited, Flying, Awaits, FetchOf
<1>3. ComposedInv
  BY DEF Init, ComposedInv
<1>4. SwitchInv /\ OverlayInv
  <2>1. overlay["pendingSwitch"] = Null /\ OpenOverlays = {} /\ switching = Null
    BY OverlayNames DEF Init, NoOverlays, OpenOverlays
  <2>. QED  BY <2>1, OverlayNames DEF SwitchInv, OverlayInv, DropConfirmIsCurrent, Navigating, OpenOverlays
<1>5. PromptInv
  BY <1>1 DEF Init, PromptInv, StillSo, ComposeRequests
<1>6. ExitInv
  BY <1>1 DEF Init, ExitInv, Flying
<1>7. TempFilesAreConsumed
  BY DEF Init, TempFilesAreConsumed
<1>8. DryRunHasItsMetadata
  BY <1>1 DEF DryRunHasItsMetadata, Flying
<1>. QED  BY <1>2, <1>3, <1>4, <1>5, <1>6, <1>7, <1>8, InitConversation DEF SessionInv

LEMMA NextSession ==
    ASSUME ~TypeAhead, TypeOK, SessionInv, [Next]_vars
    PROVE  SessionInv'
<1>1. ConversationInv'
  BY NextConversation DEF SessionInv
<1>. QED  BY <1>1, LoadingStep, ComposedStep, SwitchStep, OverlayStep, PromptStep,
             ExitStep, TempFilesStep, DryRunStep
          DEF SessionInv

(* With keys that wait for a prompt command's message, SessionInv holds in  *)
(* every state of a Session: what the shell, the compose view, the commands *)
(* in flight and the temp files know of each other is so (model.go,         *)
(* compose.go, versionswitch.go, validate.go, popout.go).                   *)
THEOREM SessionTheorem ==
    ASSUME ~TypeAhead
    PROVE  Spec => []SessionInv
<1>1. Init => SessionInv
  BY InitSession
<1>2. TypeOK /\ SessionInv /\ [Next]_vars => SessionInv'
  BY NextSession
<1>. QED  BY <1>1, <1>2, TypeCorrect, PTL DEF Spec

(* A loading state always has its fetch on the way.                        *)
THEOREM LoadingTheorem ==
    ASSUME ~TypeAhead
    PROVE  Spec => []LoadingIsAwaited
<1>1. SessionInv => LoadingIsAwaited
  BY DEF SessionInv
<1>. QED  BY <1>1, SessionTheorem, PTL

(* A deep link's Field Path only lands on the Kind it names, whatever the   *)
(* user types ahead: nothing but its own loading can be under way before    *)
(* the landing is used up or forgotten (openCompose, returnToPicker).       *)
THEOREM DeepLinkTheorem == Spec => []DeepLinkLandsAtHome
<1>1. Init => DeepLinkInv
  BY DEF Init, DeepLinkInv, Idle, FetchOf
<1>2. TypeOK /\ DeepLinkInv /\ [Next]_vars => DeepLinkInv'
  BY DeepLinkStep
<1>3. DeepLinkInv => DeepLinkLandsAtHome
  BY DEF DeepLinkInv, DeepLinkLandsAtHome
<1>. QED  BY <1>1, <1>2, <1>3, TypeCorrect, PTL DEF Spec

(* The compose view, the Session and the parsed documents agree on the      *)
(* Kind, and the Draft holds only what its Type Schema defines.             *)
THEOREM ComposeFitsTheorem ==
    ASSUME ~TypeAhead
    PROVE  Spec => []ComposeFitsItsKind
<1>1. TypeOK /\ SessionInv => ComposeFitsItsKind
  BY DEF TypeOK, ComposeOK, SessionInv, ConversationInv, KindsAgree, ComposedInv, ComposeFitsItsKind
<1>. QED  BY <1>1, TypeCorrect, SessionTheorem, PTL

(* The drop confirm on screen lists what accepting it drops.               *)
THEOREM DropConfirmTheorem ==
    ASSUME ~TypeAhead
    PROVE  Spec => []DropConfirmIsCurrent
<1>1. SessionInv => DropConfirmIsCurrent
  BY DEF SessionInv, OverlayInv
<1>. QED  BY <1>1, SessionTheorem, PTL

(* Keys and messages never stack a second overlay on an open one.          *)
THEOREM OneOverlayTheorem ==
    ASSUME ~TypeAhead
    PROVE  Spec => []OneOverlay
<1>1. SessionInv => OneOverlay
  <2>. SUFFICES ASSUME SessionInv PROVE Cardinality(OpenOverlays) <= 1
    BY DEF OneOverlay
  <2>1. CASE OpenOverlays = {}
    BY <2>1, FS_EmptySet
  <2>2. CASE OpenOverlays # {}
    <3>. PICK o \in OpenOverlays : TRUE
      BY <2>2
    <3>1. OpenOverlays = {o}
      BY DEF SessionInv, OverlayInv
    <3>2. Cardinality({o}) = 1
      BY FS_Singleton
    <3>. QED  BY <3>1, <3>2
  <2>. QED  BY <2>1, <2>2
<1>. QED  BY <1>1, SessionTheorem, PTL

(* Every temp file is one that the end of its pop-out removes.             *)
THEOREM TempFilesTheorem ==
    ASSUME ~TypeAhead
    PROVE  Spec => []TempFilesAreConsumed
<1>1. SessionInv => TempFilesAreConsumed
  BY DEF SessionInv
<1>. QED  BY <1>1, SessionTheorem, PTL

(* No dry-run leaves without the metadata it cannot run without.           *)
THEOREM DryRunTheorem ==
    ASSUME ~TypeAhead
    PROVE  Spec => []DryRunHasItsMetadata
<1>1. SessionInv => DryRunHasItsMetadata
  BY DEF SessionInv
<1>. QED  BY <1>1, SessionTheorem, PTL

(* Stdout gets the Draft that was on screen when the user asked to emit,    *)
(* and nothing on every other way out.                                     *)
THEOREM ExitTheorem ==
    ASSUME ~TypeAhead
    PROVE  Spec => []ExitIsHonoured
<1>1. SessionInv => ExitIsHonoured
  BY DEF SessionInv, ExitInv, ExitIsHonoured, Due
<1>. QED  BY <1>1, SessionTheorem, PTL

(* Prompts, flights, the shell and the compose view agree on what is under  *)
(* way, so that an unmarked finding speaks for the Draft.                   *)
THEOREM ConversationTheorem ==
    ASSUME ~TypeAhead
    PROVE  Spec => []ConversationInv
<1>1. SessionInv => ConversationInv
  BY DEF SessionInv
<1>. QED  BY <1>1, SessionTheorem, PTL

=============================================================================
