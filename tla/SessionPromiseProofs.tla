------------------------- MODULE SessionPromiseProofs -------------------------
(***************************************************************************)
(* With keys that wait for a prompt command's message, a Session keeps the *)
(* promise of Composition.tla and loses nothing silently.                  *)
(*                                                                         *)
(* Both follow from SessionInv: what a message finds when it is handled is *)
(* what was agreed to, decided or judged when it was sent.                 *)
(***************************************************************************)
EXTENDS SessionSafetyProofs, SessionPromise

-----------------------------------------------------------------------------
(* The refinement mapping.                                                 *)

LEMMA Listing == ASSUME NEW d PROVE Promise!Listed(d) = Emit(d)
BY DEF Promise!Listed, Emit, Filled

LEMMA EmptyIsEmpty == Promise!Empty = EmptyDraft
BY DEF Promise!Empty, EmptyDraft

LEMMA NothingFilled ==
    ASSUME NEW d \in Drafts, Filled(d) = {}
    PROVE  d = EmptyDraft
BY DEF Drafts, Filled, EmptyDraft

LEMMA RunningIsNoEnding == ASSUME Running PROVE Ending = "none"
BY DEF Running, Ending

LEMMA EndingKept == ASSUME UNCHANGED processVars PROVE Ending' = Ending
BY DEF processVars, Ending

LEMMA VerdictKept == ASSUME UNCHANGED validation PROVE Verdict' = Verdict
BY DEF Verdict

LEMMA NoVerdict == ASSUME validation' = Null PROVE Verdict' = Null
BY DEF Verdict

(* markValidationOutdated: the verdict goes, or no longer is a fresh one. *)
LEMMA VerdictOutdated ==
    ASSUME validation \in Validations \cup {Null}, validation' = Outdated(validation)
    PROVE  Verdict' \in {Null, IF Verdict = Null THEN Null ELSE [Verdict EXCEPT !.fresh = FALSE]}
<1>1. CASE validation' = Null
  BY <1>1, NoVerdict
<1>2. CASE validation' # Null
  <2>1. validation \in Validations /\ validation' = [validation EXCEPT !.stale = TRUE]
    BY <1>2 DEF Outdated
  <2>2. Verdict = [fresh |-> ~validation.stale, of |-> validation.of, kind |-> validation.kind]
    BY <2>1, NilAssumption DEF Verdict
  <2>3. Verdict \in [fresh : BOOLEAN, of : Manifests, kind : Kinds \cup {Null}]
    BY <2>1, <2>2 DEF Validations
  <2>4. Verdict # Null
    BY <2>3, VerdictAssumption
  <2>5. validation'.stale = TRUE /\ validation'.of = validation.of /\ validation'.kind = validation.kind
    BY <2>1 DEF Validations
  <2>6. Verdict' = [fresh |-> FALSE, of |-> validation.of, kind |-> validation.kind]
    BY <1>2, <2>5 DEF Verdict
  <2>. QED  BY <2>2, <2>4, <2>6
<1>. QED  BY <1>1, <1>2

PromiseStep == [Promise!Next]_(Promise!vars)

LEMMA Stutters ==
    ASSUME UNCHANGED <<composed, draft, validation, waived, decision, stdout>>, Ending' = Ending
    PROVE  PromiseStep
BY VerdictKept DEF PromiseStep, Promise!vars

-----------------------------------------------------------------------------
(* The promised steps.                                                     *)

(* A mutation of one field is an edit. *)
LEMMA EditsAsPromised ==
    ASSUME TypeOK, Running, decision = "none", composed # Null, NEW f \in Fields, f \in Admits[composed],
           NEW c \in Values \cup {Null}, draft' = [draft EXCEPT ![f] = c],
           validation' = Outdated(validation),
           UNCHANGED <<composed, waived, decision, processVars>>
    PROVE  PromiseStep
<1>1. Verdict' \in {Null, IF Verdict = Null THEN Null ELSE [Verdict EXCEPT !.fresh = FALSE]}
  BY VerdictOutdated DEF TypeOK, ComposeOK
<1>2. Promise!Edit(f)
  BY <1>1, RunningIsNoEnding, EndingKept DEF Promise!Edit, processVars
<1>. QED  BY <1>2 DEF PromiseStep, Promise!Next

LEMMA AgreesAsPromised ==
    ASSUME Running, decision = "none", waived' \subseteq Emit(draft),
           UNCHANGED <<composed, draft, validation, decision, processVars>>
    PROVE  PromiseStep
<1>1. Promise!Agree
  BY RunningIsNoEnding, EndingKept, VerdictKept, Listing DEF Promise!Agree, processVars
<1>. QED  BY <1>1 DEF PromiseStep, Promise!Next

LEMMA AsksAsPromised ==
    ASSUME TypeOK, Running, decision = "none",
           decision' \in {"nothingToLose", "emit", "discard"},
           decision' = "nothingToLose" => Filled(draft) = {},
           UNCHANGED <<composed, draft, validation, waived, processVars>>
    PROVE  PromiseStep
<1>1. decision' = "nothingToLose" => draft = Promise!Empty
  BY NothingFilled, EmptyIsEmpty DEF TypeOK, ComposeOK
<1>2. Promise!Ask(decision')
  BY <1>1, RunningIsNoEnding, EndingKept, VerdictKept DEF Promise!Ask, processVars
<1>. QED  BY <1>2 DEF PromiseStep, Promise!Next

(* openCompose over nothing. *)
LEMMA OpensAsPromised ==
    ASSUME Running, ComposedInv, composed = Null, NEW k \in Kinds, OpenCompose(k),
           UNCHANGED <<waived, decision, processVars>>
    PROVE  PromiseStep
<1>1. CASE ComposeOver(k, EmptyDraft)
  <2>1. draft' = draft /\ validation' = validation /\ composed' = k
    BY <1>1 DEF ComposedInv, ComposeOver
  <2>2. Promise!Open(k)
    BY <2>1, RunningIsNoEnding, EndingKept, VerdictKept DEF Promise!Open, processVars
  <2>. QED  BY <2>2 DEF PromiseStep, Promise!Next
<1>2. CASE UNCHANGED composeVars
  BY <1>2, Stutters, EndingKept DEF composeVars, processVars
<1>. QED  BY <1>1, <1>2 DEF OpenCompose

(* A switch to a served version, when what it drops was agreed to be lost. *)
LEMMA SwitchesAsPromised ==
    ASSUME Running, decision \in {"none", "discard"}, composed # Null,
           NEW k \in Kinds, k \in Versions[composed],
           \A f \in Drops(draft, k) : <<f, draft[f]>> \in waived,
           composed' = k, draft' = CarryOver(draft, k), validation' = Null, waived' \in {waived, {}},
           UNCHANGED <<decision, processVars>>
    PROVE  PromiseStep
<1>1. Emit(draft) \ Emit(draft') \subseteq waived
  <2>. SUFFICES ASSUME NEW f \in Filled(draft), <<f, draft[f]>> \notin Emit(draft')
                PROVE  <<f, draft[f]>> \in waived
    BY DEF Emit
  <2>1. f \in Fields /\ draft[f] # Null
    BY DEF Filled
  <2>2. CASE f \in Admits[k]
    <3>1. draft'[f] = draft[f]
      BY <2>1, <2>2 DEF CarryOver
    <3>. QED  BY <2>1, <3>1 DEF Emit, Filled
  <2>. QED  BY <2>2 DEF Drops
<1>2. draft' = [f \in Fields |-> IF f \in Admits[k] THEN draft[f] ELSE Null]
  BY DEF CarryOver
<1>3. Promise!Switch(k)
  BY <1>1, <1>2, Listing, RunningIsNoEnding, EndingKept, NoVerdict DEF Promise!Switch, processVars
<1>. QED  BY <1>3 DEF PromiseStep, Promise!Next

(* resolveVersionSwitch commits what drops nothing, and asks otherwise. *)
LEMMA ResolvesAsPromised ==
    ASSUME Running, decision \in {"none", "discard"}, composed # Null,
           NEW k \in Kinds, k \in Versions[composed], ResolveVersionSwitch(k),
           UNCHANGED <<historyVars, processVars>>
    PROVE  PromiseStep
<1>1. CASE UNCHANGED <<composed, draft, validation>>
  BY <1>1, Stutters, EndingKept DEF historyVars, processVars
<1>2. CASE Drops(draft, k) = {} /\ ComposeOver(k, CarryOver(draft, k))
  BY <1>2, SwitchesAsPromised DEF ComposeOver, historyVars
<1>. QED  BY <1>1, <1>2 DEF ResolveVersionSwitch, CommitVersionSwitch, composeVars

-----------------------------------------------------------------------------
(* Every step of a Session is a promised one.                              *)

LEMMA OverlayKeyPromised ==
    ASSUME TypeOK, SessionInv, Running, Undecided, composed # Null, OverlayKey
    PROVE  PromiseStep
<1>. USE OverlayNames
<1>1. decision = "none"
  BY DEF Undecided
<1>2. ASSUME NEW f, f \in Admits[composed], NEW c \in Values \cup {Null}, Mutate(f, c),
             UNCHANGED <<processVars, historyVars>>
      PROVE  PromiseStep
  <2>1. f \in Fields
    BY <1>2, ConstantsAssumption DEF TypeOK, ComposeOK
  <2>. QED  BY <1>1, <1>2, <2>1, EditsAsPromised DEF Mutate, historyVars
<1>3. \A o \in {"editor", "keyPrompt", "unset"} : overlay[o] # Null => overlay[o] \in Admits[composed]
  BY DEF SessionInv, OverlayInv
<1>4. CASE ConfirmEditor
  BY <1>2, <1>3, <1>4 DEF ConfirmEditor, KeyTo, Answers, StaysInCompose
<1>5. CASE ConfirmKeyPrompt
  BY <1>2, <1>3, <1>5 DEF ConfirmKeyPrompt, KeyTo, Answers, StaysInCompose
<1>6. CASE ConfirmUnset
  BY <1>2, <1>3, <1>6, RemainingType DEF ConfirmUnset, Unset, KeyTo, Answers, StaysInCompose
<1>7. CASE ConfirmGate
  BY <1>2, <1>7 DEF ConfirmGate, ComposeOnly
<1>8. CASE AcceptDrops
  <2>1. waived' \subseteq Emit(draft)
    BY <1>8 DEF AcceptDrops, Emit
  <2>. QED  BY <1>1, <1>8, <2>1, AgreesAsPromised DEF AcceptDrops, ComposeOnly, composeVars
<1>9. CASE ConfirmDiscard
  BY <1>1, <1>9, AgreesAsPromised DEF ConfirmDiscard, OpenOnly, ComposeOnly
<1>10. CASE ChooseEmit \/ ChooseDiscard
  BY <1>1, <1>10, AsksAsPromised DEF ChooseEmit, EmitDraft, ChooseDiscard, OpenOnly, ComposeOnly
<1>11. CASE (\E o \in Overlays : Dismiss(o)) \/ \E k \in Kinds : SelectVersion(k)
  BY <1>11, Stutters, EndingKept
     DEF Dismiss, SelectVersion, OpenOnly, StaysInCompose, ComposeOnly, historyVars, processVars
<1>. QED  BY <1>4, <1>5, <1>6, <1>7, <1>8, <1>9, <1>10, <1>11 DEF OverlayKey

LEMMA CommandKeyPromised ==
    ASSUME TypeOK, SessionInv, Running, Undecided, composed # Null, CommandKey
    PROVE  PromiseStep
<1>1. decision = "none"
  BY DEF Undecided
<1>2. ASSUME NEW o, NEW c, OpenOnly(o, c), UNCHANGED <<processVars, historyVars>> PROVE PromiseStep
  BY <1>2, Stutters, EndingKept DEF OpenOnly, historyVars, processVars
<1>3. CASE PressQuit
  <2>1. CASE Filled(draft) = {} /\ AskToQuit("nothingToLose")
    BY <1>1, <2>1, AsksAsPromised DEF AskToQuit, composeVars
  <2>. QED  BY <1>2, <1>3, <2>1 DEF PressQuit, StaysInCompose
<1>4. CASE EmitAndQuit
  BY <1>1, <1>4, AsksAsPromised DEF EmitAndQuit, EmitDraft, ComposeOnly, composeVars
<1>5. CASE PressEscape
  <2>1. CASE waived' = {} /\ ComposeOnly /\ UNCHANGED <<composeVars, decision>>
    BY <1>1, <2>1, AgreesAsPromised DEF ComposeOnly, composeVars
  <2>. QED  BY <1>2, <1>5, <2>1 DEF PressEscape, StaysInCompose
<1>6. CASE PressValidate
  BY <1>2, <1>6, Stutters, EndingKept DEF PressValidate, ComposeOnly, composeVars, historyVars, processVars
<1>7. CASE PressResults \/ OpenVersionList \/ OpenAside \/ \E f \in Fields : PressEnter(f)
  BY <1>2, <1>7 DEF PressResults, OpenVersionList, OpenAside, PressEnter, StaysInCompose
<1>8. ASSUME NEW f \in Fields, f \in Admits[composed], NEW c \in Values \cup {Null}, Mutate(f, c),
             StaysInCompose
      PROVE  PromiseStep
  BY <1>1, <1>8, EditsAsPromised DEF Mutate, StaysInCompose, historyVars
<1>9. ASSUME NEW f \in Fields, PressAdd(f) PROVE PromiseStep
  BY <1>2, <1>8, <1>9 DEF PressAdd, StaysInCompose
<1>10. ASSUME NEW f \in Fields, PressUnset(f) PROVE PromiseStep
  <2>1. f \in Admits[composed]
    BY <1>10, OnScreen DEF PressUnset, Command
  <2>. QED  BY <1>2, <1>8, <1>10, <2>1, RemainingType DEF PressUnset, Unset, StaysInCompose
<1>11. ASSUME NEW f \in Fields, PressPopOut(f) PROVE PromiseStep
  BY <1>11, Stutters, EndingKept DEF PressPopOut, historyVars, processVars
<1>. QED  BY <1>3, <1>4, <1>5, <1>6, <1>7, <1>9, <1>10, <1>11 DEF CommandKey

LEMMA ShellKeyPromised ==
    ASSUME TypeOK, SessionInv, Running, Undecided, ShellKey
    PROVE  PromiseStep
<1>1. decision = "none" /\ ComposedInv /\ ConversationInv
  BY DEF Undecided, SessionInv
<1>2. CASE CtrlC
  BY <1>1, <1>2, AsksAsPromised DEF CtrlC, AskToQuit, composeVars
<1>3. CASE DismissPicker \/ QuitTransit
  <2>1. Filled(draft) = {}
    BY <1>1, <1>3 DEF DismissPicker, QuitTransit, InTransit, ComposedInv, ConversationInv,
                      KindsAgree, Filled, EmptyDraft
  <2>. QED  BY <1>1, <1>3, <2>1, AsksAsPromised DEF DismissPicker, QuitTransit, AskToQuit, composeVars
<1>4. CASE LeaveTransit
  <2>1. UNCHANGED <<composed, draft, validation>>
    BY <1>1, <1>4 DEF LeaveTransit, InTransit, ReturnToPicker, ComposeOver, ComposedInv
  <2>. QED  BY <1>4, <2>1, Stutters, EndingKept DEF LeaveTransit, historyVars, processVars
<1>. QED  BY <1>2, <1>3, <1>4, Stutters, EndingKept
          DEF ShellKey, CancelSwitch, CancelValidate, SelectHighlighted, composeVars, historyVars, processVars
     
LEMMA FetchPromised ==
    ASSUME TypeOK, SessionInv, NEW s \in Slots, DocumentFetched(s)
    PROVE  PromiseStep
<1>. DEFINE k == inflight[s].kind
<1>1. k \in Kinds /\ Running /\ UNCHANGED <<historyVars, processVars>>
  BY MessageFields DEF TypeOK, RuntimeOK, DocumentFetched, Delivers
<1>2. CASE UNCHANGED composeVars
  BY <1>1, <1>2, Stutters, EndingKept DEF composeVars, historyVars, processVars
<1>3. CASE Awaits(k) /\ switching # Null /\ ResolveVersionSwitch(k)
  <2>1. k \in Versions[composed] /\ composed # Null
    BY <1>3 DEF Awaits, SessionInv, SwitchInv, ComposedInv
  <2>2. decision \in {"none", "discard"}
    BY <1>3 DEF Awaits, SessionInv, ExitInv, TypeOK, HistoryOK
  <2>. QED  BY <1>1, <1>3, <2>1, <2>2, ResolvesAsPromised
<1>4. CASE Awaits(k) /\ switching = Null /\ OpenCompose(k)
  <2>1. composed = Null /\ ComposedInv
    BY <1>4 DEF Awaits, SessionInv, ComposedInv
  <2>. QED  BY <1>1, <1>4, <2>1, OpensAsPromised DEF historyVars
<1>. QED  BY <1>2, <1>3, <1>4 DEF DocumentFetched

LEMMA OutcomePromised ==
    ASSUME TypeOK, SessionInv, NEW s \in Slots, ValidateResolved(s)
    PROVE  PromiseStep
<1>1. Running /\ UNCHANGED <<historyVars, processVars>>
  BY DEF ValidateResolved, Delivers
<1>2. CASE UNCHANGED composeVars
  BY <1>1, <1>2, Stutters, EndingKept DEF composeVars, historyVars, processVars
<1>3. ASSUME Lands(inflight[s]), NEW outcome \in Outcomes, validation' = Rendered(inflight[s], outcome),
             UNCHANGED <<composed, draft>>
      PROVE  PromiseStep
  <2>1. inflight[s].manifest = Emit(draft) /\ inflight[s].kind = composed /\ composed # Null
    BY <1>3 DEF ValidateResolved, Delivers, SessionInv, ConversationInv, FlightsSpeak, Lands, ComposedInv
  <2>2. inflight[s].manifest \in Manifests /\ inflight[s].kind \in Kinds \cup {Null}
    BY MessageFields DEF TypeOK, RuntimeOK, ValidateResolved, Delivers
  <2>3. validation' # Null
    <3>1. Rendered(inflight[s], outcome) \in Validations
      BY <2>2 DEF Rendered, Validations
    <3>. QED  BY <1>3, <3>1, NilAssumption
  <2>4. Verdict' = [fresh |-> TRUE, of |-> Emit(draft), kind |-> composed]
    BY <1>3, <2>1, <2>3 DEF Rendered, Verdict
  <2>5. Promise!Judge
    BY <1>1, <1>3, <2>1, <2>4, Listing, RunningIsNoEnding, EndingKept
       DEF Promise!Judge, historyVars, processVars
  <2>. QED  BY <2>5 DEF PromiseStep, Promise!Next
<1>. QED  BY <1>2, <1>3 DEF ValidateResolved

(* A message of the compose view comes before any way out was asked for. *)
LEMMA RequestUndecided ==
    ASSUME SessionInv, Running, NEW s \in Slots, Prompt(inflight[s]), inflight[s].type \notin Endings
    PROVE  Undecided
BY NothingEnding DEF SessionInv, ConversationInv, OnePrompt, Prompt, Endings

LEMMA PromptPromised ==
    ASSUME TypeOK, SessionInv, NEW s \in Slots, Prompt(inflight[s]), Delivery(s)
    PROVE  PromiseStep
<1>. DEFINE k == inflight[s].kind
<1>1. ConversationInv /\ PromptInv /\ ComposedInv
  BY DEF SessionInv
<1>2. Running
  BY DEF Delivery, Delivers, OpenKind, DocumentFetched, DocumentFetchFailed, ReturnToPickerMsg,
         StartVersionSwitch, AcceptVersionSwitch, StartValidate, ValidateResolved, ManifestEmitted,
         Exec, EditorFinished, QuitMsg
<1>3. inflight[s].type \notin Endings => decision = "none"
  BY <1>2, RequestUndecided DEF Undecided
<1>4. CASE OpenKind(s)
  <2>1. k \in Kinds /\ composed = Null
    BY <1>1, <1>4, MessageFields, PromptsFind DEF TypeOK, RuntimeOK, OpenKind, Delivers, ComposedInv
  <2>2. CASE UNCHANGED composeVars
    BY <1>4, <2>2, Stutters, EndingKept DEF OpenKind, composeVars, historyVars, processVars
  <2>. QED  BY <1>1, <1>2, <1>4, <2>1, <2>2, OpensAsPromised DEF OpenKind, historyVars
<1>5. CASE ReturnToPickerMsg(s)
  <2>1. composed # Null /\ decision = "none" /\ Emit(draft) \subseteq waived
    BY <1>1, <1>3, <1>5, PromptsFind
       DEF ReturnToPickerMsg, Delivers, Endings, PromptInv, StillSo, ComposedInv
  <2>2. Promise!Leave
    BY <1>2, <1>5, <2>1, Listing, EmptyIsEmpty, RunningIsNoEnding, EndingKept, NoVerdict
       DEF Promise!Leave, ReturnToPickerMsg, ReturnToPicker, ComposeOver, processVars
  <2>. QED  BY <2>2 DEF PromiseStep, Promise!Next
<1>6. CASE StartVersionSwitch(s)
  <2>1. k \in Kinds /\ k \in Versions[composed] /\ composed # Null /\ decision = "none"
    BY <1>1, <1>3, <1>6, MessageFields, PromptsFind
       DEF TypeOK, RuntimeOK, StartVersionSwitch, Delivers, Endings, PromptInv, StillSo, ComposedInv
  <2>2. CASE UNCHANGED composeVars
    BY <1>6, <2>2, Stutters, EndingKept DEF StartVersionSwitch, composeVars, historyVars, processVars
  <2>. QED  BY <1>2, <1>6, <2>1, <2>2, ResolvesAsPromised DEF StartVersionSwitch
<1>7. CASE AcceptVersionSwitch(s)
  <2>. DEFINE pending == overlay["pendingSwitch"]
  <2>1. composed # Null /\ decision = "none" /\ waived' = {} /\ UNCHANGED <<decision, processVars>>
    BY <1>1, <1>3, <1>7, PromptsFind DEF AcceptVersionSwitch, Delivers, Endings, ComposedInv
  <2>2. CASE UNCHANGED <<composed, draft, validation>>
    BY <1>2, <2>1, <2>2, AgreesAsPromised
  <2>3. CASE pending # Null /\ ComposeOver(pending.target, pending.carried)
    <3>1. pending \in Switches
      BY <2>3, OverlayNames DEF TypeOK, ComposeOK, Holds
    <3>2. /\ pending.target \in Kinds /\ pending.target \in Versions[composed]
          /\ pending.carried = CarryOver(draft, pending.target)
          /\ pending.drops = Drops(draft, pending.target)
      BY <2>3, <3>1 DEF Switches, SessionInv, SwitchInv, OverlayInv, DropConfirmIsCurrent
    <3>3. \A f \in Drops(draft, pending.target) : <<f, draft[f]>> \in waived
      BY <1>1, <1>7, <3>2 DEF AcceptVersionSwitch, Delivers, PromptInv, StillSo
    <3>. QED  BY <1>2, <2>1, <2>3, <3>2, <3>3, SwitchesAsPromised DEF ComposeOver
  <2>. QED  BY <1>7, <2>2, <2>3 DEF AcceptVersionSwitch, CommitVersionSwitch, composeVars
<1>8. CASE EditorFinished(s)
  <2>1. composed # Null /\ decision = "none" /\ UNCHANGED <<historyVars, processVars>>
    BY <1>1, <1>3, <1>8, PromptsFind DEF EditorFinished, Delivers, Endings, ComposedInv
  <2>2. CASE UNCHANGED <<composed, draft, validation>>
    BY <2>1, <2>2, Stutters, EndingKept DEF historyVars, processVars
  <2>3. ASSUME popOut # Null, NEW c \in Values, draft' = [draft EXCEPT ![popOut.field] = c],
               validation' = Outdated(validation), composed' = composed
        PROVE  PromiseStep
    <3>1. popOut.field \in Fields /\ popOut.field \in Admits[composed]
      BY <1>1, <2>3 DEF TypeOK, ComposeOK, PopOuts, PromptInv
    <3>. QED  BY <1>2, <2>1, <2>3, <3>1, EditsAsPromised DEF historyVars
  <2>. QED  BY <1>8, <2>2, <2>3 DEF EditorFinished, Consume, composeVars
<1>9. CASE QuitMsg(s)
  <2>1. Ending' = Ending
    BY <1>2, <1>9 DEF QuitMsg, Ending, Running
  <2>. QED  BY <1>9, <2>1, Stutters DEF QuitMsg, composeVars, historyVars
<1>10. CASE StartValidate(s) \/ ManifestEmitted(s) \/ Exec(s)
  BY <1>10, Stutters, EndingKept
     DEF StartValidate, ManifestEmitted, Exec, composeVars, historyVars, processVars
<1>. QED  BY <1>4, <1>5, <1>6, <1>7, <1>8, <1>9, <1>10
          DEF Delivery, Delivers, Prompt, DocumentFetched, DocumentFetchFailed, ValidateResolved

LEMMA NextPromised ==
    ASSUME ~TypeAhead, TypeOK, SessionInv, [Next]_vars
    PROVE  PromiseStep
<1>1. NoPrompt /\ Running => Undecided
  BY NothingEnding DEF SessionInv, NoPrompt, Prompt, Endings
<1>2. CASE ComposeKey
  <2>1. composed # Null
    BY <1>2 DEF ComposeKey, ComposeStep, SessionInv, ComposedInv
  <2>. QED  BY <1>1, <1>2, <2>1, OverlayKeyPromised, CommandKeyPromised DEF ComposeKey
<1>3. CASE NoPrompt /\ Running /\ ShellKey
  BY <1>1, <1>3, ShellKeyPromised
<1>4. ASSUME NEW s \in Slots, Delivery(s) PROVE PromiseStep
  <2>1. CASE Prompt(inflight[s])
    BY <1>4, <2>1, PromptPromised
  <2>2. CASE DocumentFetchFailed(s)
    BY <2>2, Stutters, EndingKept DEF DocumentFetchFailed, composeVars, historyVars, processVars
  <2>. QED  BY <1>4, <2>1, <2>2, FetchPromised, OutcomePromised
            DEF Delivery, Delivers, Prompt, OpenKind, ReturnToPickerMsg, StartVersionSwitch,
                AcceptVersionSwitch, StartValidate, ManifestEmitted, Exec, EditorFinished, QuitMsg
<1>5. CASE Interrupt
  <2>1. Promise!Interrupt
    BY <1>5, VerdictKept, RunningIsNoEnding DEF Interrupt, Promise!Interrupt, Ending, composeVars, historyVars
  <2>. QED  BY <2>1 DEF PromiseStep, Promise!Next
<1>6. CASE WriteManifest
  <2>1. manifest = Due /\ decision # "none"
    BY <1>6 DEF WriteManifest, SessionInv, ExitInv
  <2>2. Promise!Exit
    BY <1>6, <2>1, VerdictKept, Listing DEF WriteManifest, Promise!Exit, Ending, Due, composeVars, historyVars
  <2>. QED  BY <2>2 DEF PromiseStep, Promise!Next
<1>7. CASE UNCHANGED vars
  BY <1>7, Stutters, EndingKept DEF vars, composeVars, historyVars, processVars
<1>. QED  BY <1>2, <1>3, <1>4, <1>5, <1>6, <1>7, StepKinds

(* With keys that wait for a prompt command's message, a Session implements *)
(* Composition.tla: under any interleaving of keys, answers and failures    *)
(* every step of the shell, the compose view and the runtime around them is *)
(* a step the user was promised, or changes nothing they can tell.          *)
THEOREM PromiseTheorem ==
    ASSUME ~TypeAhead
    PROVE  Spec => ComposesAsPromised
<1>1. Init => Promise!Init
  BY EmptyIsEmpty DEF Init, Promise!Init, Verdict, Ending
<1>2. TypeOK /\ SessionInv /\ [Next]_vars => [Promise!Next]_(Promise!vars)
  BY NextPromised DEF PromiseStep
<1>. QED  BY <1>1, <1>2, TypeCorrect, SessionTheorem, PTL DEF Spec, ComposesAsPromised, Promise!Spec

-----------------------------------------------------------------------------
(* Content only goes where it was edited, or agreed to be lost.            *)

Lossless ==
    \A f \in Filled(draft) :
        draft'[f] # draft[f] => Edits(f) \/ <<f, draft[f]>> \in waived

LEMMA NothingLost == ASSUME draft' = draft \/ Filled(draft) = {} PROVE Lossless
BY DEF Lossless

(* A mutation changes the field that it is about. *)
LEMMA OnlyTheEdited ==
    ASSUME TypeOK, NEW g, NEW c, draft' = [draft EXCEPT ![g] = c], Edits(g)
    PROVE  Lossless
<1>. SUFFICES ASSUME NEW f \in Filled(draft), draft'[f] # draft[f], f # g PROVE FALSE
  BY DEF Lossless
<1>. QED  BY DEF TypeOK, ComposeOK, Drafts, Filled

LEMMA CarriedOrWaived ==
    ASSUME NEW k, draft' = CarryOver(draft, k), \A f \in Drops(draft, k) : <<f, draft[f]>> \in waived
    PROVE  Lossless
BY DEF Lossless, CarryOver, Drops, Filled

LEMMA KeyLossless ==
    ASSUME TypeOK, OverlayKey \/ CommandKey
    PROVE  Lossless
<1>1. CASE ConfirmEditor
  <2>1. \E c : draft' = [draft EXCEPT ![overlay["editor"]] = c]
    BY <1>1 DEF ConfirmEditor, Mutate
  <2>. QED  BY <1>1, <2>1, OnlyTheEdited DEF Edits
<1>2. CASE ConfirmKeyPrompt
  <2>1. \E c : draft' = [draft EXCEPT ![overlay["keyPrompt"]] = c]
    BY <1>2 DEF ConfirmKeyPrompt, Mutate
  <2>. QED  BY <1>2, <2>1, OnlyTheEdited DEF Edits
<1>3. CASE ConfirmUnset
  <2>1. \E c : draft' = [draft EXCEPT ![overlay["unset"]] = c]
    BY <1>3 DEF ConfirmUnset, Unset, Mutate
  <2>. QED  BY <1>3, <2>1, OnlyTheEdited DEF Edits
<1>4. CASE ConfirmGate
  <2>1. \E c : draft' = [draft EXCEPT ![AskedFor(overlay["gate"])] = c]
    BY <1>4 DEF ConfirmGate, Mutate
  <2>. QED  BY <1>4, <2>1, OnlyTheEdited DEF Edits
<1>5. ASSUME NEW g \in Fields, PressAdd(g) \/ PressUnset(g) PROVE Lossless
  <2>1. (\E c : draft' = [draft EXCEPT ![g] = c]) \/ draft' = draft
    BY <1>5 DEF PressAdd, PressUnset, Unset, Mutate, OpenOnly
  <2>. QED  BY <1>5, <2>1, OnlyTheEdited, NothingLost DEF Edits
<1>6. CASE OverlayKey
  BY <1>1, <1>2, <1>3, <1>4, <1>6, NothingLost
     DEF OverlayKey, Dismiss, AcceptDrops, ConfirmDiscard, ChooseEmit, EmitDraft, ChooseDiscard,
         SelectVersion, OpenOnly, composeVars
<1>7. CASE CommandKey
  BY <1>5, <1>7, NothingLost
     DEF CommandKey, PressQuit, AskToQuit, EmitAndQuit, EmitDraft, PressEscape, PressValidate,
         PressResults, OpenVersionList, OpenAside, PressEnter, PressPopOut, OpenOnly, composeVars
<1>. QED  BY <1>6, <1>7

LEMMA NothingComposed == ASSUME ComposedInv, composed = Null PROVE Filled(draft) = {}
BY DEF ComposedInv, Filled, EmptyDraft

LEMMA ResolveLossless ==
    ASSUME NEW k, ResolveVersionSwitch(k)
    PROVE  Lossless
<1>1. CASE Drops(draft, k) = {} /\ draft' = CarryOver(draft, k)
  BY <1>1, CarriedOrWaived
<1>. QED  BY <1>1, NothingLost DEF ResolveVersionSwitch, CommitVersionSwitch, ComposeOver, composeVars

LEMMA DeliveryLossless ==
    ASSUME TypeOK, SessionInv, NEW s \in Slots, Delivery(s)
    PROVE  Lossless
<1>1. ComposedInv /\ ConversationInv /\ PromptInv
  BY DEF SessionInv
<1>2. CASE OpenKind(s)
  <2>1. composed = Null
    BY <1>1, <1>2, PromptsFind DEF ComposedInv
  <2>. QED  BY <1>1, <2>1, NothingComposed, NothingLost
<1>3. CASE DocumentFetched(s)
  BY <1>1, <1>3, ResolveLossless, NothingComposed, NothingLost
     DEF DocumentFetched, Awaits, ComposedInv, composeVars
<1>4. CASE ReturnToPickerMsg(s)
  BY <1>1, <1>4 DEF ReturnToPickerMsg, Delivers, PromptInv, StillSo, Emit, Lossless
<1>5. CASE StartVersionSwitch(s)
  BY <1>5, ResolveLossless, NothingLost DEF StartVersionSwitch, composeVars
<1>6. CASE AcceptVersionSwitch(s)
  <2>. DEFINE pending == overlay["pendingSwitch"]
  <2>1. CASE pending # Null /\ draft' = pending.carried
    <3>1. pending.carried = CarryOver(draft, pending.target)
          /\ pending.drops = Drops(draft, pending.target)
      BY <2>1 DEF SessionInv, OverlayInv, DropConfirmIsCurrent
    <3>2. \A f \in Drops(draft, pending.target) : <<f, draft[f]>> \in waived
      BY <1>1, <1>6, <3>1 DEF AcceptVersionSwitch, Delivers, PromptInv, StillSo
    <3>. QED  BY <2>1, <3>1, <3>2, CarriedOrWaived
  <2>. QED  BY <1>6, <2>1, NothingLost DEF AcceptVersionSwitch, CommitVersionSwitch, ComposeOver, composeVars
<1>7. CASE EditorFinished(s)
  <2>1. CASE draft' = draft
    BY <2>1, NothingLost
  <2>2. CASE popOut # Null /\ \E c : draft' = [draft EXCEPT ![popOut.field] = c]
    <3>1. Edits(popOut.field)
      BY <1>7, <2>2 DEF Edits
    <3>. QED  BY <2>2, <3>1, OnlyTheEdited
  <2>. QED  BY <1>7, <2>1, <2>2 DEF EditorFinished, Consume, composeVars
<1>. QED  BY <1>2, <1>3, <1>4, <1>5, <1>6, <1>7, NothingLost
          DEF Delivery, DocumentFetchFailed, StartValidate, ValidateResolved, ManifestEmitted, Exec,
              QuitMsg, composeVars

LEMMA NextLossless ==
    ASSUME TypeOK, SessionInv, [Next]_vars
    PROVE  Lossless
<1>1. CASE ShellKey
  <2>1. CASE LeaveTransit
    <3>1. composed = Null /\ ComposedInv
      BY <2>1 DEF LeaveTransit, InTransit, SessionInv, ComposedInv
    <3>. QED  BY <3>1, NothingComposed, NothingLost
  <2>. QED  BY <1>1, <2>1, NothingLost
            DEF ShellKey, CtrlC, DismissPicker, QuitTransit, AskToQuit, CancelSwitch, CancelValidate,
                SelectHighlighted, composeVars
<1>2. CASE Interrupt \/ WriteManifest \/ Ended \/ UNCHANGED vars
  BY <1>2, NothingLost DEF Interrupt, WriteManifest, Ended, vars, composeVars
<1>. QED  BY <1>1, <1>2, KeyLossless, DeliveryLossless DEF Next

(* With keys that wait for a prompt command's message, content leaves the   *)
(* Draft only where the user edits that content or has agreed to lose it:   *)
(* no late message, failed or cancelled switch or way back to the picker    *)
(* loses anything else (compose.go, versionswitch.go, popout.go, model.go). *)
THEOREM LossTheorem ==
    ASSUME ~TypeAhead
    PROVE  Spec => NoSilentLoss
<1>1. TypeOK /\ SessionInv /\ [Next]_vars =>
         [\A f \in Filled(draft) :
             draft'[f] # draft[f] => Edits(f) \/ <<f, draft[f]>> \in waived]_vars
  BY NextLossless DEF Lossless
<1>. QED  BY <1>1, TypeCorrect, SessionTheorem, PTL DEF Spec, NoSilentLoss

=============================================================================
