----------------------- MODULE SessionFindingsProofs -----------------------
(***************************************************************************)
(* With keys that wait for a prompt command's message, a Validate outcome  *)
(* that is not marked stale is about the Draft on screen.                  *)
(*                                                                         *)
(* The invariant is ConversationInv.  Every compose key has one shape      *)
(* (ComposeKeyShape) and preserves it for one reason (ComposeStep); the    *)
(* other actions are taken one by one.                                     *)
(***************************************************************************)
EXTENDS SessionProofs

NoPrompt == \A s \in Slots : ~Prompt(inflight[s])

LEMMA KeysWait == ASSUME ~TypeAhead, KeyArrives PROVE NoPrompt
BY DEF KeyArrives, NoPrompt

-----------------------------------------------------------------------------
(* Compose keys.                                                           *)

(* What a compose key can do. *)
ComposeStep ==
    /\ view = "composing"
    /\ UNCHANGED shellVars
    /\ composed' = composed
    /\ \/ validation' = validation /\ draft' = draft
       \/ validation' = Outdated(validation)
    /\ \/ inflight' = inflight
       \/ \E m \in Messages :
            /\ Launch(m)
            /\ m.type \in ComposeRequests \cup {"Quit"}
            /\ m.type = "ValidateRequested" => m.manifest = Emit(draft')

LEMMA OutdatedSpeaks ==
    ASSUME validation \in Validations \cup {Null}, validation' = Outdated(validation)
    PROVE  validation' # Null => validation'.stale
BY DEF Outdated, Validations

LEMMA ComposeStepKeeps ==
    ASSUME TypeOK, NoPrompt, ConversationInv, ComposeStep
    PROVE  ConversationInv'
<1>1. FindingsSpeakForDraft'
  <2>1. CASE validation' = validation /\ draft' = draft
    BY <2>1 DEF ConversationInv, FindingsSpeakForDraft, ComposeStep, Emit, Filled
  <2>2. CASE validation' = Outdated(validation)
    BY <2>2, OutdatedSpeaks DEF TypeOK, ComposeOK, FindingsSpeakForDraft
  <2>. QED  BY <2>1, <2>2 DEF ComposeStep
<1>2. view' = "composing" /\ KindsAgree'
  BY DEF ConversationInv, KindsAgree, ComposeStep, shellVars
<1>3. OnePrompt' /\ PromptsBelong' /\ FlightsSpeak'
  <2>1. CASE inflight' = inflight
    BY <1>2, <2>1 DEF NoPrompt, Prompt, ConversationInv, OnePrompt, PromptsBelong, FlightsSpeak,
                      Lands, ComposeStep, shellVars, ComposeRequests
  <2>2. ASSUME NEW m \in Messages, Launch(m), m.type \in ComposeRequests \cup {"Quit"},
               m.type = "ValidateRequested" => m.manifest = Emit(draft')
        PROVE  OnePrompt' /\ PromptsBelong' /\ FlightsSpeak'
    <3>1. PICK s \in Slots : inflight' = [inflight EXCEPT ![s] = m]
      BY <2>2 DEF Launch
    <3>2. \A t \in Slots : inflight'[t] = IF t = s THEN m ELSE inflight[t]
      BY <3>1 DEF TypeOK, RuntimeOK
    <3>3. OnePrompt'
      BY <3>2 DEF NoPrompt, OnePrompt
    <3>4. PromptsBelong'
      BY <1>2, <2>2, <3>2 DEF NoPrompt, Prompt, ComposeRequests, PromptsBelong
    <3>5. FlightsSpeak'
      BY <1>2, <2>2, <3>2 DEF NoPrompt, Prompt, ComposeRequests, ConversationInv, FlightsSpeak,
                              Lands, ComposeStep, shellVars
    <3>. QED  BY <3>3, <3>4, <3>5
  <2>. QED  BY <2>1, <2>2 DEF ComposeStep
<1>. QED  BY <1>1, <1>2, <1>3 DEF ConversationInv

(* A key that leaves the shell and the commands alone. *)
LEMMA QuietKey ==
    ASSUME view = "composing", StaysInCompose, composed' = composed,
           \/ validation' = validation /\ draft' = draft
           \/ validation' = Outdated(validation)
    PROVE  ComposeStep
BY DEF ComposeStep, StaysInCompose

(* A key that starts a command over an unchanged Draft. *)
LEMMA CommandingKey ==
    ASSUME view = "composing", UNCHANGED shellVars, UNCHANGED <<composed, draft, validation>>,
           NEW m \in Messages, Launch(m), m.type \in ComposeRequests \cup {"Quit"},
           m.type = "ValidateRequested" => m.manifest = Emit(draft')
    PROVE  ComposeStep
BY DEF ComposeStep

LEMMA RequestMessage ==
    ASSUME NEW d \in Drafts, RequestValidate(d)
    PROVE  \E m \in Messages : Launch(m) /\ m.type = "ValidateRequested" /\ m.manifest = Emit(d)
<1>. DEFINE m == [type |-> "ValidateRequested", manifest |-> Emit(d)]
<1>1. m \in Messages
  BY EmitType, MessageTypes
<1>. QED  BY <1>1 DEF RequestValidate

LEMMA OverlayKeyShape ==
    ASSUME TypeOK, OverlayKey
    PROVE  ComposeStep
<1>. USE MessageTypes DEF ComposeRequests
<1>1. ASSUME NEW o \in Overlays, Dismiss(o) PROVE ComposeStep
  BY <1>1, QuietKey DEF Dismiss, KeyTo, OpenOnly
<1>2. CASE ConfirmEditor
  BY <1>2, QuietKey DEF ConfirmEditor, KeyTo, Mutate
<1>3. CASE ConfirmKeyPrompt
  BY <1>3, QuietKey DEF ConfirmKeyPrompt, KeyTo, Mutate
<1>4. CASE ConfirmUnset
  BY <1>4, QuietKey DEF ConfirmUnset, KeyTo, Unset, Mutate
<1>5. CASE ConfirmGate
  <2>1. /\ view = "composing" /\ UNCHANGED shellVars /\ composed' = composed
        /\ validation' = Outdated(validation)
    BY <1>5 DEF ConfirmGate, KeyTo, Mutate, ComposeOnly
  <2>2. CASE UNCHANGED inflight
    BY <2>1, <2>2 DEF ComposeStep
  <2>3. CASE RequestValidate(draft')
    <3>1. draft' \in Drafts
      BY <1>5, OverlayKeyType DEF OverlayKey, TypeOK, ComposeOK
    <3>. QED  BY <2>1, <2>3, <3>1, RequestMessage DEF ComposeStep
  <2>. QED  BY <1>5, <2>2, <2>3 DEF ConfirmGate
<1>6. CASE AcceptDrops
  BY <1>6, CommandingKey DEF AcceptDrops, KeyTo, ComposeOnly, composeVars
<1>7. CASE ConfirmDiscard
  BY <1>7, CommandingKey DEF ConfirmDiscard, KeyTo, ComposeOnly, OpenOnly
<1>8. CASE ChooseEmit
  <2>1. Emit(draft) \in Manifests
    BY EmitType DEF TypeOK, ComposeOK
  <2>. QED  BY <1>8, <2>1, CommandingKey DEF ChooseEmit, EmitDraft, KeyTo, ComposeOnly, OpenOnly
<1>9. CASE ChooseDiscard
  BY <1>9, CommandingKey DEF ChooseDiscard, KeyTo, ComposeOnly, OpenOnly
<1>10. ASSUME NEW k \in Kinds, SelectVersion(k) PROVE ComposeStep
  BY <1>10, CommandingKey DEF SelectVersion, KeyTo, ComposeOnly, OpenOnly
<1>. QED  BY <1>1, <1>2, <1>3, <1>4, <1>5, <1>6, <1>7, <1>8, <1>9, <1>10 DEF OverlayKey

LEMMA CommandKeyShape ==
    ASSUME TypeOK, CommandKey
    PROVE  ComposeStep
<1>. USE MessageTypes DEF ComposeRequests
<1>1. CASE PressQuit
  <2>1. CASE Command /\ AskToQuit("nothingToLose")
    BY <2>1, CommandingKey DEF Command, AskToQuit, composeVars
  <2>2. CASE Command /\ OpenOnly("exit", "open") /\ StaysInCompose
    BY <2>2, QuietKey DEF Command, OpenOnly
  <2>. QED  BY <1>1, <2>1, <2>2 DEF PressQuit
<1>2. CASE EmitAndQuit
  <2>1. Emit(draft) \in Manifests
    BY EmitType DEF TypeOK, ComposeOK
  <2>. QED  BY <1>2, <2>1, CommandingKey DEF EmitAndQuit, EmitDraft, Command, ComposeOnly, composeVars
<1>3. CASE PressEscape
  <2>1. CASE /\ Command /\ Launch([type |-> "ReturnToPicker"])
             /\ ComposeOnly /\ UNCHANGED composeVars
    BY <2>1, CommandingKey DEF Command, ComposeOnly, composeVars
  <2>2. CASE Command /\ OpenOnly("discard", "open") /\ StaysInCompose
    BY <2>2, QuietKey DEF Command, OpenOnly
  <2>. QED  BY <1>3, <2>1, <2>2 DEF PressEscape
<1>4. CASE PressValidate
  <2>1. view = "composing" /\ UNCHANGED shellVars /\ UNCHANGED <<composed, draft, validation>>
    BY <1>4 DEF PressValidate, Command, ComposeOnly, OpenOnly, composeVars
  <2>2. CASE UNCHANGED inflight
    BY <2>1, <2>2 DEF ComposeStep
  <2>3. CASE RequestValidate(draft)
    BY <2>1, <2>3, RequestMessage DEF ComposeStep, TypeOK, ComposeOK
  <2>. QED  BY <1>4, <2>2, <2>3 DEF PressValidate
<1>5. CASE PressResults
  BY <1>5, QuietKey DEF PressResults, Command, OpenOnly
<1>6. CASE OpenVersionList
  BY <1>6, QuietKey DEF OpenVersionList, Command, OpenOnly
<1>7. CASE OpenAside
  BY <1>7, QuietKey DEF OpenAside, Command, OpenOnly
<1>8. ASSUME NEW f \in Fields, PressEnter(f) PROVE ComposeStep
  BY <1>8, QuietKey DEF PressEnter, Command, OpenOnly
<1>9. ASSUME NEW f \in Fields, PressAdd(f) PROVE ComposeStep
  BY <1>9, QuietKey DEF PressAdd, Command, OpenOnly, Mutate
<1>10. ASSUME NEW f \in Fields, PressUnset(f) PROVE ComposeStep
  BY <1>10, QuietKey DEF PressUnset, Command, OpenOnly, Unset, Mutate
<1>11. ASSUME NEW f \in Fields, PressPopOut(f) PROVE ComposeStep
  BY <1>11, CommandingKey DEF PressPopOut, Command
<1>. QED  BY <1>1, <1>2, <1>3, <1>4, <1>5, <1>6, <1>7, <1>8, <1>9, <1>10, <1>11 DEF CommandKey

-----------------------------------------------------------------------------
(* Keys of the other views.                                                *)

(* Nothing but the compose view changes the Draft or the outcome. *)
LEMMA FindingsKept ==
    ASSUME FindingsSpeakForDraft, UNCHANGED <<composed, draft, validation>>
    PROVE  FindingsSpeakForDraft'
BY DEF FindingsSpeakForDraft, Emit, Filled

LEMMA FindingsDropped ==
    ASSUME validation' = Null PROVE FindingsSpeakForDraft'
BY DEF FindingsSpeakForDraft

LEMMA AskToQuitKeeps ==
    ASSUME TypeOK, NoPrompt, ConversationInv, NEW how, AskToQuit(how)
    PROVE  ConversationInv'
<1>1. PICK s \in Slots : inflight' = [inflight EXCEPT ![s] = [type |-> "Quit"]]
  BY DEF AskToQuit, Launch
<1>2. \A t \in Slots : inflight'[t] = IF t = s THEN [type |-> "Quit"] ELSE inflight[t]
  BY <1>1 DEF TypeOK, RuntimeOK
<1>3. UNCHANGED <<view, kind, switching, validateSeq, composed, draft, validation>>
  BY DEF AskToQuit, shellVars, composeVars
<1>4. OnePrompt' /\ PromptsBelong'
  BY <1>2, <1>3 DEF NoPrompt, Prompt, OnePrompt, PromptsBelong, ComposeRequests
<1>5. KindsAgree'
  BY <1>3 DEF ConversationInv, KindsAgree
<1>6. FlightsSpeak'
  BY <1>2, <1>3 DEF ConversationInv, FlightsSpeak, Lands
<1>7. FindingsSpeakForDraft'
  BY <1>3, FindingsKept DEF ConversationInv
<1>. QED  BY <1>4, <1>5, <1>6, <1>7 DEF ConversationInv

(* Leaving a fetch changes no message but the fetches. *)
LEMMA LeaveFetchesFrame ==
    ASSUME TypeOK, LeaveFetches, NEW s \in Slots
    PROVE  /\ inflight'[s].type = inflight[s].type
           /\ inflight[s].type # "Fetch" => inflight'[s] = inflight[s]
<1>1. inflight[s] \in Messages \cup {Idle}
  BY DEF TypeOK, RuntimeOK
<1>2. CASE inflight[s].type # "Fetch"
  BY <1>2 DEF LeaveFetches
<1>3. CASE inflight[s].type = "Fetch"
  <2>1. inflight[s] \in [type : {"Fetch"}, kind : Kinds, abandoned : BOOLEAN]
    BY <1>1, <1>3 DEF Messages, Idle
  <2>. QED  BY <1>3, <2>1 DEF LeaveFetches
<1>. QED  BY <1>2, <1>3

LEMMA ShellKeyKeeps ==
    ASSUME TypeOK, NoPrompt, ConversationInv, ShellKey
    PROVE  ConversationInv'
<1>1. CASE CtrlC \/ DismissPicker \/ QuitTransit
  BY <1>1, AskToQuitKeeps DEF CtrlC, DismissPicker, QuitTransit
<1>2. CASE LeaveTransit
  <2>1. /\ view' = "picking" /\ switching' = Null /\ validation' = Null
        /\ validateSeq' = validateSeq
    BY <1>2 DEF LeaveTransit, ReturnToPicker, ComposeOver
  <2>2. \A s \in Slots :
          /\ inflight'[s].type = inflight[s].type
          /\ inflight[s].type # "Fetch" => inflight'[s] = inflight[s]
    BY <1>2, LeaveFetchesFrame DEF LeaveTransit
  <2>3. OnePrompt' /\ PromptsBelong'
    BY <2>2 DEF NoPrompt, Prompt, OnePrompt, PromptsBelong, ComposeRequests
  <2>4. KindsAgree'
    BY <2>1 DEF KindsAgree
  <2>5. FlightsSpeak'
    BY <2>1, <2>2 DEF NoPrompt, Prompt, ConversationInv, FlightsSpeak, Lands
  <2>. QED  BY <2>1, <2>3, <2>4, <2>5, FindingsDropped DEF ConversationInv
<1>3. CASE CancelSwitch
  <2>1. /\ view' = "composing" /\ switching' = Null
        /\ UNCHANGED <<kind, validateSeq, composed, draft, validation>>
    BY <1>3 DEF CancelSwitch, composeVars
  <2>2. \A s \in Slots :
          /\ inflight'[s].type = inflight[s].type
          /\ inflight[s].type # "Fetch" => inflight'[s] = inflight[s]
    BY <1>3, LeaveFetchesFrame DEF CancelSwitch
  <2>3. OnePrompt' /\ PromptsBelong'
    BY <2>2 DEF NoPrompt, Prompt, OnePrompt, PromptsBelong, ComposeRequests
  <2>4. KindsAgree'
    BY <1>3, <2>1 DEF CancelSwitch, ConversationInv, KindsAgree
  <2>5. FlightsSpeak'
    BY <2>1, <2>2 DEF NoPrompt, Prompt, ConversationInv, FlightsSpeak, Lands
  <2>. QED  BY <2>1, <2>3, <2>4, <2>5, FindingsKept DEF ConversationInv
<1>4. CASE CancelValidate
  <2>1. /\ view = "validating" /\ view' = "composing" /\ validateSeq' = validateSeq + 1
        /\ UNCHANGED <<kind, switching, composed, draft, validation, inflight>>
    BY <1>4 DEF CancelValidate, composeVars
  <2>2. OnePrompt' /\ PromptsBelong'
    BY <2>1 DEF NoPrompt, Prompt, OnePrompt, PromptsBelong, ComposeRequests
  <2>3. KindsAgree'
    BY <2>1 DEF ConversationInv, KindsAgree
  <2>4. \A s \in Slots : inflight[s].type = "Validate" => inflight[s].seq \in Nat
    BY MessageFields DEF TypeOK, RuntimeOK
  <2>5. FlightsSpeak'
    BY <2>1, <2>4 DEF NoPrompt, Prompt, ConversationInv, FlightsSpeak, Lands, TypeOK, ShellOK
  <2>. QED  BY <2>1, <2>2, <2>3, <2>5, FindingsKept DEF ConversationInv
<1>5. ASSUME NEW k \in Kinds, SelectHighlighted(k) PROVE ConversationInv'
  <2>. DEFINE m == [type |-> "KindSelected", kind |-> k]
  <2>1. PICK s \in Slots : inflight' = [inflight EXCEPT ![s] = m]
    BY <1>5 DEF SelectHighlighted, Launch
  <2>2. \A t \in Slots : inflight'[t] = IF t = s THEN m ELSE inflight[t]
    BY <2>1 DEF TypeOK, RuntimeOK
  <2>3. /\ view = "picking"
        /\ UNCHANGED <<view, kind, switching, validateSeq, composed, draft, validation>>
    BY <1>5 DEF SelectHighlighted, shellVars, composeVars
  <2>4. OnePrompt' /\ PromptsBelong'
    BY <2>2, <2>3 DEF NoPrompt, Prompt, OnePrompt, PromptsBelong, ComposeRequests
  <2>5. KindsAgree'
    BY <2>3 DEF ConversationInv, KindsAgree
  <2>6. FlightsSpeak'
    BY <2>2, <2>3 DEF ConversationInv, FlightsSpeak, Lands
  <2>. QED  BY <2>3, <2>4, <2>5, <2>6, FindingsKept DEF ConversationInv
<1>. QED  BY <1>1, <1>2, <1>3, <1>4, <1>5 DEF ShellKey

-----------------------------------------------------------------------------
(* Deliveries.                                                             *)

LEMMA BecomesFrame ==
    ASSUME TypeOK, NEW s \in Slots, NEW m, Becomes(s, m)
    PROVE  \A t \in Slots : inflight'[t] = IF t = s THEN m ELSE inflight[t]
BY DEF TypeOK, RuntimeOK, Becomes

LEMMA ReturnsFrame ==
    ASSUME TypeOK, NEW s \in Slots, Returns(s)
    PROVE  \A t \in Slots : inflight'[t] = IF t = s THEN Idle ELSE inflight[t]
BY BecomesFrame DEF Returns

(* The prompt that is handled is the only one: after it, every other slot   *)
(* holds a fetch, a dry-run or nothing.                                     *)
LEMMA OnlyPrompt ==
    ASSUME OnePrompt, NEW s \in Slots, Prompt(inflight[s]), NEW m,
           \A t \in Slots : inflight'[t] = IF t = s THEN m ELSE inflight[t]
    PROVE  /\ OnePrompt'
           /\ \A t \in Slots \ {s} : inflight'[t] = inflight[t] /\ ~Prompt(inflight[t])
BY DEF OnePrompt, Prompt

(* A view other than validating leaves no dry-run to land. *)
LEMMA FlightsQuiet ==
    ASSUME TypeOK, FlightsSpeak, NEW s \in Slots, NEW m,
           m.type \notin {"ValidateRequested", "Validate"},
           \A t \in Slots : inflight'[t] = IF t = s THEN m ELSE inflight[t],
           \A t \in Slots \ {s} : ~Prompt(inflight[t]),
           view' # "validating", validateSeq' = validateSeq
    PROVE  FlightsSpeak'
BY DEF FlightsSpeak, Lands, Prompt

LEMMA CommitShape ==
    ASSUME NEW k, NEW d, CommitVersionSwitch(k, d)
    PROVE  \/ composed' = k /\ kind' = k /\ validation' = Null
           \/ UNCHANGED <<kind, composed, draft, validation>>
BY DEF CommitVersionSwitch, ComposeOver

LEMMA ResolveShape ==
    ASSUME NEW k, ResolveVersionSwitch(k)
    PROVE  /\ view' = "composing"
           /\ \/ composed' = k /\ kind' = k /\ validation' = Null
              \/ UNCHANGED <<kind, composed, draft, validation>>
BY CommitShape DEF ResolveVersionSwitch, composeVars

LEMMA OpenComposeShape ==
    ASSUME NEW k, OpenCompose(k)
    PROVE  \/ view' = "composing" /\ composed' = k /\ validation' = Null
           \/ view' = "failed" /\ UNCHANGED <<composed, draft, validation>>
BY DEF OpenCompose, ComposeOver, composeVars

(* A prompt that leaves no prompt behind and no Validate to land. *)
LEMMA PromptSettles ==
    ASSUME TypeOK, ConversationInv, NEW s \in Slots, Prompt(inflight[s]), NEW m,
           m.type \in {"Idle", "Fetch", "Quit"},
           \A t \in Slots : inflight'[t] = IF t = s THEN m ELSE inflight[t],
           view' # "validating", validateSeq' = validateSeq
    PROVE  OnePrompt' /\ PromptsBelong' /\ FlightsSpeak'
<1>1. OnePrompt' /\ \A t \in Slots \ {s} : inflight'[t] = inflight[t] /\ ~Prompt(inflight[t])
  BY OnlyPrompt DEF ConversationInv
<1>2. PromptsBelong'
  BY <1>1 DEF PromptsBelong, ComposeRequests, Prompt
<1>. QED  BY <1>1, <1>2, FlightsQuiet DEF ConversationInv

LEMMA FetchDeliveryKeeps ==
    ASSUME TypeOK, ConversationInv, NEW s \in Slots,
           DocumentFetched(s) \/ DocumentFetchFailed(s)
    PROVE  ConversationInv'
<1>. DEFINE k == inflight[s].kind
<1>1. /\ \A t \in Slots : inflight'[t] = IF t = s THEN Idle ELSE inflight[t]
      /\ validateSeq' = validateSeq
  BY ReturnsFrame DEF DocumentFetched, DocumentFetchFailed
<1>2. OnePrompt'
  BY <1>1 DEF ConversationInv, OnePrompt, Prompt, Idle
<1>3. CASE UNCHANGED <<view, kind, switching, composed, draft, validation>>
  <2>1. PromptsBelong' /\ FlightsSpeak'
    BY <1>1, <1>3 DEF ConversationInv, PromptsBelong, ComposeRequests, Idle, FlightsSpeak, Lands
  <2>2. KindsAgree'
    BY <1>3 DEF ConversationInv, KindsAgree
  <2>. QED  BY <1>2, <1>3, <2>1, <2>2, FindingsKept DEF ConversationInv
<1>4. ASSUME Awaits(k), view' # "validating",
             \/ validation' = Null
             \/ UNCHANGED <<composed, draft, validation>>,
             KindsAgree'
      PROVE  ConversationInv'
  <2>1. \A t \in Slots : inflight[t].type \notin ComposeRequests \cup {"KindSelected"}
    BY <1>4 DEF Awaits, ConversationInv, PromptsBelong
  <2>2. PromptsBelong' /\ FlightsSpeak'
    BY <1>1, <1>4, <2>1 DEF ConversationInv, PromptsBelong, ComposeRequests, Idle, FlightsSpeak, Lands
  <2>. QED  BY <1>2, <1>4, <2>2, FindingsKept, FindingsDropped DEF ConversationInv
<1>5. CASE Awaits(k) /\ switching # Null /\ switching' = Null /\ ResolveVersionSwitch(k)
  <2>1. KindsAgree'
    BY <1>5, ResolveShape DEF ConversationInv, KindsAgree
  <2>. QED  BY <1>4, <1>5, <2>1, ResolveShape
<1>6. CASE Awaits(k) /\ switching = Null /\ OpenCompose(k) /\ UNCHANGED <<kind, switching>>
  <2>1. k = kind
    BY <1>6 DEF Awaits
  <2>2. KindsAgree'
    BY <1>6, <2>1, OpenComposeShape DEF KindsAgree
  <2>. QED  BY <1>4, <1>6, <2>2, OpenComposeShape
<1>7. CASE /\ Awaits(k) /\ switching # Null /\ switching' = Null /\ view' = "composing"
           /\ UNCHANGED <<kind, composed, draft, validation>>
  <2>1. KindsAgree'
    BY <1>7 DEF ConversationInv, KindsAgree
  <2>. QED  BY <1>4, <1>7, <2>1
<1>8. CASE /\ Awaits(k) /\ switching = Null /\ view' = "failed"
           /\ UNCHANGED <<kind, switching, composed, draft, validation>>
  <2>1. KindsAgree'
    BY <1>8 DEF KindsAgree
  <2>. QED  BY <1>4, <1>8, <2>1
<1>9. CASE DocumentFetched(s)
  BY <1>3, <1>5, <1>6, <1>9 DEF DocumentFetched, composeVars
<1>10. CASE DocumentFetchFailed(s)
  BY <1>3, <1>7, <1>8, <1>10 DEF DocumentFetchFailed, composeVars
<1>. QED  BY <1>9, <1>10

LEMMA DeliveryKeeps ==
    ASSUME TypeOK, ConversationInv, NEW s \in Slots, Delivery(s)
    PROVE  ConversationInv'
<1>. DEFINE m == inflight[s]
<1>1. CASE OpenKind(s)
  <2>1. Prompt(m) /\ view = "picking" /\ switching = Null
    BY <1>1 DEF OpenKind, Delivers, Prompt, ConversationInv, PromptsBelong, KindsAgree
  <2>2. PICK n : n.type \in {"Idle", "Fetch"} /\ Becomes(s, n)
    BY <1>1 DEF OpenKind, Returns, FetchOf, Idle
  <2>3. \A t \in Slots : inflight'[t] = IF t = s THEN n ELSE inflight[t]
    BY <2>2, BecomesFrame
  <2>4. /\ kind' = m.kind /\ UNCHANGED <<switching, validateSeq>>
        /\ \/ view' = "composing" /\ composed' = m.kind /\ validation' = Null
           \/ view' \in {"failed", "fetching"} /\ UNCHANGED <<composed, draft, validation>>
    BY <1>1, OpenComposeShape DEF OpenKind, composeVars
  <2>5. OnePrompt' /\ PromptsBelong' /\ FlightsSpeak'
    BY <2>1, <2>2, <2>3, <2>4, PromptSettles
  <2>6. KindsAgree'
    BY <2>1, <2>4 DEF KindsAgree
  <2>. QED  BY <2>4, <2>5, <2>6, FindingsKept, FindingsDropped DEF ConversationInv
<1>2. CASE DocumentFetched(s) \/ DocumentFetchFailed(s)
  BY <1>2, FetchDeliveryKeeps
<1>3. CASE ReturnToPickerMsg(s)
  <2>1. Prompt(m)
    BY <1>3 DEF ReturnToPickerMsg, Delivers, Prompt
  <2>2. \A t \in Slots : inflight'[t] = IF t = s THEN Idle ELSE inflight[t]
    BY <1>3, ReturnsFrame DEF ReturnToPickerMsg
  <2>3. /\ view' = "picking" /\ switching' = Null /\ validation' = Null
        /\ validateSeq' = validateSeq
    BY <1>3 DEF ReturnToPickerMsg, ReturnToPicker, ComposeOver
  <2>4. OnePrompt' /\ PromptsBelong' /\ FlightsSpeak'
    BY <2>1, <2>2, <2>3, PromptSettles DEF Idle
  <2>5. KindsAgree'
    BY <2>3 DEF KindsAgree
  <2>. QED  BY <2>3, <2>4, <2>5, FindingsDropped DEF ConversationInv
<1>4. CASE StartVersionSwitch(s)
  <2>1. Prompt(m) /\ view = "composing" /\ switching = Null /\ kind = composed
    BY <1>4 DEF StartVersionSwitch, Delivers, Prompt, ConversationInv, PromptsBelong,
                ComposeRequests, KindsAgree
  <2>2. PICK n : n.type \in {"Idle", "Fetch"} /\ Becomes(s, n)
    BY <1>4 DEF StartVersionSwitch, Returns, FetchOf, Idle
  <2>3. \A t \in Slots : inflight'[t] = IF t = s THEN n ELSE inflight[t]
    BY <2>2, BecomesFrame
  <2>4. /\ validateSeq' = validateSeq
        /\ \/ view' = "composing" /\ switching' = Null
           \/ view' = "fetching"
        /\ \/ composed' = kind' /\ validation' = Null
           \/ UNCHANGED <<kind, composed, draft, validation>>
    BY <1>4, <2>1, ResolveShape DEF StartVersionSwitch, composeVars
  <2>5. OnePrompt' /\ PromptsBelong' /\ FlightsSpeak'
    BY <2>1, <2>2, <2>3, <2>4, PromptSettles
  <2>6. KindsAgree'
    BY <2>1, <2>4 DEF KindsAgree
  <2>. QED  BY <2>4, <2>5, <2>6, FindingsKept, FindingsDropped DEF ConversationInv
<1>5. CASE AcceptVersionSwitch(s)
  <2>1. Prompt(m) /\ view = "composing" /\ switching = Null /\ kind = composed
    BY <1>5 DEF AcceptVersionSwitch, Delivers, Prompt, ConversationInv, PromptsBelong,
                ComposeRequests, KindsAgree
  <2>2. \A t \in Slots : inflight'[t] = IF t = s THEN Idle ELSE inflight[t]
    BY <1>5, ReturnsFrame DEF AcceptVersionSwitch
  <2>3. /\ UNCHANGED <<view, switching, validateSeq>>
        /\ \/ composed' = kind' /\ validation' = Null
           \/ UNCHANGED <<kind, composed, draft, validation>>
    BY <1>5, CommitShape DEF AcceptVersionSwitch, composeVars
  <2>4. OnePrompt' /\ PromptsBelong' /\ FlightsSpeak'
    BY <2>1, <2>2, <2>3, PromptSettles DEF Idle
  <2>5. KindsAgree'
    BY <2>1, <2>3 DEF KindsAgree
  <2>. QED  BY <2>3, <2>4, <2>5, FindingsKept, FindingsDropped DEF ConversationInv
<1>6. CASE StartValidate(s)
  <2>1. Prompt(m) /\ view = "composing" /\ switching = Null /\ kind = composed
    BY <1>6 DEF StartValidate, Delivers, Prompt, ConversationInv, PromptsBelong,
                ComposeRequests, KindsAgree
  <2>2. m.manifest = Emit(draft)
    BY <1>6 DEF StartValidate, Delivers, ConversationInv, FlightsSpeak
  <2>. DEFINE n == [type |-> "Validate", seq |-> validateSeq + 1,
                    kind |-> kind, manifest |-> m.manifest]
  <2>3. /\ validateSeq' = validateSeq + 1 /\ view' = "validating" /\ Becomes(s, n)
        /\ UNCHANGED <<kind, switching, composed, draft, validation>>
    BY <1>6, <2>1 DEF StartValidate, composeVars
  <2>4. \A t \in Slots : inflight'[t] = IF t = s THEN n ELSE inflight[t]
    BY <2>3, BecomesFrame
  <2>5. OnePrompt' /\ \A t \in Slots \ {s} : inflight'[t] = inflight[t] /\ ~Prompt(inflight[t])
    BY <2>1, <2>4, OnlyPrompt DEF ConversationInv
  <2>6. PromptsBelong'
    BY <2>4, <2>5 DEF PromptsBelong, ComposeRequests, Prompt
  <2>7. KindsAgree'
    BY <2>1, <2>3 DEF KindsAgree
  <2>8. FlightsSpeak'
    <3>1. validateSeq \in Nat /\ \A t \in Slots : inflight[t].type = "Validate" => inflight[t].seq \in Nat
      BY MessageFields DEF TypeOK, ShellOK, RuntimeOK
    <3>2. Emit(draft') = Emit(draft)
      BY <2>3
    <3>3. SUFFICES ASSUME NEW t \in Slots
          PROVE  /\ inflight'[t].type = "ValidateRequested" => inflight'[t].manifest = Emit(draft')
                 /\ inflight'[t].type = "Validate" =>
                       /\ inflight'[t].seq <= validateSeq'
                       /\ view' = "validating" /\ inflight'[t].seq = validateSeq' =>
                             /\ inflight'[t].manifest = Emit(draft')
                             /\ inflight'[t].kind = composed'
      BY DEF FlightsSpeak, Lands
    <3>4. CASE t = s
      BY <2>1, <2>2, <2>3, <2>4, <3>1, <3>2, <3>4
    <3>5. CASE t # s
      BY <2>3, <2>5, <3>1, <3>5 DEF ConversationInv, FlightsSpeak, Prompt
    <3>. QED  BY <3>4, <3>5
  <2>. QED  BY <2>3, <2>5, <2>6, <2>7, <2>8, FindingsKept DEF ConversationInv
<1>7. CASE ValidateResolved(s)
  <2>1. \A t \in Slots : inflight'[t] = IF t = s THEN Idle ELSE inflight[t]
    BY <1>7, ReturnsFrame DEF ValidateResolved
  <2>2. UNCHANGED <<kind, switching, validateSeq, composed, draft>>
    BY <1>7 DEF ValidateResolved, composeVars
  <2>3. OnePrompt'
    BY <2>1 DEF ConversationInv, OnePrompt, Prompt, Idle
  <2>4. CASE UNCHANGED <<view, validation>>
    <3>1. PromptsBelong' /\ FlightsSpeak'
      BY <2>1, <2>2, <2>4 DEF ConversationInv, PromptsBelong, ComposeRequests, Idle, FlightsSpeak, Lands
    <3>2. KindsAgree'
      BY <2>2, <2>4 DEF ConversationInv, KindsAgree
    <3>. QED  BY <2>2, <2>3, <2>4, <3>1, <3>2, FindingsKept DEF ConversationInv
  <2>5. CASE Lands(m) /\ view' = "composing" /\ \E outcome \in Outcomes : validation' = Rendered(m, outcome)
    <3>1. m.manifest = Emit(draft) /\ m.kind = composed
      BY <1>7, <2>5 DEF ValidateResolved, Delivers, ConversationInv, FlightsSpeak
    <3>2. FindingsSpeakForDraft'
      BY <2>2, <2>5, <3>1 DEF FindingsSpeakForDraft, Rendered
    <3>3. PromptsBelong'
      BY <2>1, <2>5 DEF ConversationInv, PromptsBelong, ComposeRequests, Idle, Lands
    <3>4. \A t \in Slots : inflight[t].type # "ValidateRequested"
      BY <2>5 DEF ConversationInv, PromptsBelong, ComposeRequests, Lands
    <3>5. FlightsSpeak'
      BY <2>1, <2>2, <2>5, <3>4 DEF ConversationInv, FlightsSpeak, Lands, Idle
    <3>6. KindsAgree'
      BY <2>2, <2>5 DEF ConversationInv, KindsAgree, Lands
    <3>. QED  BY <2>3, <3>2, <3>3, <3>5, <3>6 DEF ConversationInv
  <2>. QED  BY <1>7, <2>4, <2>5 DEF ValidateResolved, composeVars
<1>8. CASE ManifestEmitted(s) \/ QuitMsg(s)
  <2>1. Prompt(m)
    BY <1>8 DEF ManifestEmitted, QuitMsg, Delivers, Prompt
  <2>2. UNCHANGED <<view, kind, switching, validateSeq, composed, draft, validation>>
    BY <1>8 DEF ManifestEmitted, QuitMsg, composeVars, shellVars
  <2>3. PICK n : n.type \in {"Idle", "Quit"} /\ Becomes(s, n)
    BY <1>8 DEF ManifestEmitted, QuitMsg, Returns, Idle
  <2>4. \A t \in Slots : inflight'[t] = IF t = s THEN n ELSE inflight[t]
    BY <2>3, BecomesFrame
  <2>5. OnePrompt' /\ \A t \in Slots \ {s} : inflight'[t] = inflight[t] /\ ~Prompt(inflight[t])
    BY <2>1, <2>4, OnlyPrompt DEF ConversationInv
  <2>6. PromptsBelong' /\ FlightsSpeak'
    BY <2>2, <2>3, <2>4, <2>5 DEF ConversationInv, PromptsBelong, ComposeRequests, FlightsSpeak, Lands
  <2>7. KindsAgree'
    BY <2>2 DEF ConversationInv, KindsAgree
  <2>. QED  BY <2>2, <2>5, <2>6, <2>7, FindingsKept DEF ConversationInv
<1>9. CASE Exec(s)
  <2>1. Prompt(m) /\ view = "composing"
    BY <1>9 DEF Exec, Delivers, Prompt, ConversationInv, PromptsBelong, ComposeRequests
  <2>2. UNCHANGED <<view, kind, switching, validateSeq, composed, draft, validation>>
    BY <1>9 DEF Exec, composeVars, shellVars
  <2>3. PICK n : n.type = "EditorFinished" /\ Becomes(s, n)
    BY <1>9 DEF Exec
  <2>4. \A t \in Slots : inflight'[t] = IF t = s THEN n ELSE inflight[t]
    BY <2>3, BecomesFrame
  <2>5. OnePrompt' /\ \A t \in Slots \ {s} : inflight'[t] = inflight[t] /\ ~Prompt(inflight[t])
    BY <2>1, <2>4, OnlyPrompt DEF ConversationInv
  <2>6. PromptsBelong'
    BY <2>1, <2>2, <2>3, <2>4, <2>5 DEF PromptsBelong, Prompt, ComposeRequests
  <2>7. FlightsSpeak'
    BY <2>1, <2>2, <2>3, <2>4, <2>5, FlightsQuiet DEF ConversationInv
  <2>8. KindsAgree'
    BY <2>2 DEF ConversationInv, KindsAgree
  <2>. QED  BY <2>2, <2>5, <2>6, <2>7, <2>8, FindingsKept DEF ConversationInv
<1>10. CASE EditorFinished(s)
  <2>1. Prompt(m) /\ view = "composing"
    BY <1>10 DEF EditorFinished, Delivers, Prompt, ConversationInv, PromptsBelong, ComposeRequests
  <2>2. /\ UNCHANGED <<view, kind, switching, validateSeq, composed>>
        /\ UNCHANGED <<draft, validation>> \/ validation' = Outdated(validation)
    BY <1>10 DEF EditorFinished, Consume, composeVars, shellVars
  <2>3. \A t \in Slots : inflight'[t] = IF t = s THEN Idle ELSE inflight[t]
    BY <1>10, ReturnsFrame DEF EditorFinished
  <2>4. OnePrompt' /\ PromptsBelong' /\ FlightsSpeak'
    BY <2>1, <2>2, <2>3, PromptSettles DEF Idle
  <2>5. KindsAgree'
    BY <2>2 DEF ConversationInv, KindsAgree
  <2>6. FindingsSpeakForDraft'
    <3>1. CASE UNCHANGED <<draft, validation>>
      BY <2>2, <3>1, FindingsKept DEF ConversationInv
    <3>2. CASE validation' = Outdated(validation)
      BY <3>2, OutdatedSpeaks DEF TypeOK, ComposeOK, FindingsSpeakForDraft
    <3>. QED  BY <2>2, <3>1, <3>2
  <2>. QED  BY <2>4, <2>5, <2>6 DEF ConversationInv
<1>. QED  BY <1>1, <1>2, <1>3, <1>4, <1>5, <1>6, <1>7, <1>8, <1>9, <1>10 DEF Delivery

-----------------------------------------------------------------------------
(* The theorem.                                                            *)

LEMMA InitConversation == Init => ConversationInv
<1>. SUFFICES ASSUME Init PROVE ConversationInv
  OBVIOUS
<1>1. \A s \in Slots : inflight[s].type \in {"Idle", "Fetch"}
  BY DEF Init, Idle, FetchOf
<1>2. OnePrompt /\ PromptsBelong /\ FlightsSpeak
  BY <1>1 DEF OnePrompt, PromptsBelong, FlightsSpeak, Prompt, ComposeRequests
<1>3. KindsAgree /\ FindingsSpeakForDraft
  BY DEF Init, KindsAgree, FindingsSpeakForDraft
<1>. QED  BY <1>2, <1>3 DEF ConversationInv

LEMMA StutterConversation ==
    ASSUME ConversationInv, UNCHANGED <<shellVars, composeVars, inflight>>
    PROVE  ConversationInv'
<1>1. UNCHANGED <<view, kind, switching, validateSeq, composed, draft, validation, inflight>>
  BY DEF shellVars, composeVars
<1>2. OnePrompt' /\ PromptsBelong' /\ KindsAgree' /\ FlightsSpeak'
  BY <1>1 DEF ConversationInv, OnePrompt, PromptsBelong, KindsAgree, FlightsSpeak, Lands
<1>. QED  BY <1>1, <1>2, FindingsKept DEF ConversationInv

LEMMA NextConversation ==
    ASSUME ~TypeAhead, TypeOK, ConversationInv, [Next]_vars
    PROVE  ConversationInv'
<1>1. CASE ShellKey
  BY <1>1, KeysWait, ShellKeyKeeps
     DEF ShellKey, CtrlC, DismissPicker, QuitTransit, LeaveTransit, CancelSwitch, CancelValidate,
         SelectHighlighted
<1>2. CASE OverlayKey
  <2>1. KeyArrives
    BY <1>2 DEF OverlayKey, KeyTo, Dismiss, ConfirmEditor, ConfirmKeyPrompt, ConfirmUnset,
                ConfirmGate, AcceptDrops, ConfirmDiscard, ChooseEmit, ChooseDiscard, SelectVersion
  <2>. QED  BY <1>2, <2>1, KeysWait, OverlayKeyShape, ComposeStepKeeps
<1>3. CASE CommandKey
  <2>1. KeyArrives
    BY <1>3 DEF CommandKey, Command, PressQuit, EmitAndQuit, PressEscape, PressValidate,
                PressResults, OpenVersionList, OpenAside, PressEnter, PressAdd, PressUnset,
                PressPopOut
  <2>. QED  BY <1>3, <2>1, KeysWait, CommandKeyShape, ComposeStepKeeps
<1>4. CASE \E s \in Slots : Delivery(s)
  BY <1>4, DeliveryKeeps
<1>5. CASE Interrupt \/ WriteManifest \/ UNCHANGED vars
  BY <1>5, StutterConversation DEF Interrupt, WriteManifest, vars
<1>. QED  BY <1>1, <1>2, <1>3, <1>4, <1>5 DEF Next, Ended

(* While keys wait for a prompt command's message, a Validate outcome that  *)
(* is not marked stale is about the Manifest the Session would emit now,    *)
(* for the Kind it composes: nothing the user does between the request and  *)
(* the outcome, and no late outcome, can make it speak for another Draft.   *)
THEOREM FindingsTheorem ==
    ASSUME ~TypeAhead
    PROVE  Spec => []FindingsSpeakForDraft
<1>1. Init => ConversationInv
  BY InitConversation
<1>2. TypeOK /\ ConversationInv /\ [Next]_vars => ConversationInv'
  BY NextConversation
<1>3. ConversationInv => FindingsSpeakForDraft
  BY DEF ConversationInv
<1>. QED  BY <1>1, <1>2, <1>3, TypeCorrect, PTL DEF Spec

=============================================================================
