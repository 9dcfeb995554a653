--------------------------------- MODULE Browse ---------------------------------
(***************************************************************************)
(* A Session from the command line to the compose view: the pre-flight of  *)
(* cmd/kubectl-craft/root.go, the Kind picker (internal/tui/picker.go), the *)
(* opening of a Kind (internal/tui/model.go) and, over ComposeView, what   *)
(* is done there.                                                          *)
(*                                                                         *)
(* A version of ComposeTree is here a Kind at a version, as a triple; the  *)
(* Versions are those the cluster's documents describe.  One action is one *)
(* key with everything it leads to, or the fate of one fetch; Session.tla  *)
(* has the messages in between.                                            *)
(*                                                                         *)
(* An operator whose comment starts with "Seeded fault" is a plausible     *)
(* mistake in the definition after it and part of no behaviour.            *)
(***************************************************************************)
EXTENDS ComposeView, Discovery

CONSTANTS
    Arguments,    \* the command lines: no link, or a token and a dotted path
    Outages,      \* the sets of group versions whose apiservice may be broken
    KindText,     \* how Kinds and short names are spelled, in letters
    Heights       \* the terminal's heights

ASSUME BrowseAssumption ==
    /\ Heights \subseteq Nat \ {0}
    /\ Nothing \notin {"connection", "discovery", "namespace", "link", "terminal"}
    /\ \A r \in Resources : {r.kind} \cup r.shorts \subseteq DOMAIN KindText

VARIABLES
    stage,     \* "launch", "refused", "picker", "opening", "failed", "compose", "ended"
    refusal,   \* what the pre-flight failed on, or Nothing
    arg,       \* the command line, until the launch has used it
    cluster,   \* what is wrong with the cluster at launch
    kinds,     \* the picker's rows
    picker,    \* the Kind picker: a list
    height,    \* the terminal's height, zero before the first resize
    kind,      \* the selected Kind, or Nothing
    landing    \* the deep link's dotted path, until its view opens

launchVars == <<refusal, arg, cluster, kinds>>
pickerVars == <<picker, height>>
browseVars == <<stage, launchVars, pickerVars, kind, landing, viewVars>>

-----------------------------------------------------------------------------
(* The pre-flight: each failure ends the program before the alt screen.    *)

NoLink == Nothing
Discovered == IF cluster.up THEN Answer(cluster.broken, cluster.malformed) ELSE Unanswered

BrowseInit ==
    /\ stage = "launch"
    /\ refusal = Nothing
    /\ arg \in Arguments
    /\ cluster \in [up : BOOLEAN, broken : Outages, malformed : BOOLEAN]
    /\ kinds = <<>> /\ picker = NewList /\ height = 0
    /\ kind = Nothing /\ landing = <<>>
    /\ NoView

Refuse(cause) ==
    /\ stage' = "refused"
    /\ refusal' = cause
    /\ arg' = Nothing
    /\ UNCHANGED <<cluster, kinds, pickerVars, kind, landing, viewVars>>

LinkedKind == ResolveKindToken(DiscoverKinds(Discovered), arg.token)

(* The index and the namespace fail on their own, discovery by its answer, *)
(* the link by the Kinds discovered, and last the terminal.                *)
RefuseLaunch ==
    /\ stage = "launch"
    /\ \/ Refuse("connection")
       \/ DiscoveryFails(Discovered) /\ Refuse("discovery")
       \/ ~DiscoveryFails(Discovered) /\ Refuse("namespace")
       \/ ~DiscoveryFails(Discovered) /\ arg # NoLink /\ LinkedKind = Nothing /\ Refuse("link")
       \/ ~DiscoveryFails(Discovered) /\ (arg # NoLink => LinkedKind # Nothing) /\ Refuse("terminal")

(* The Session opens on the picker, or on the Kind the link resolves to.   *)
Launch ==
    /\ stage = "launch"
    /\ ~DiscoveryFails(Discovered)
    /\ kinds' = PickerRows(DiscoverKinds(Discovered))
    /\ IF arg = NoLink
       THEN stage' = "picker" /\ UNCHANGED <<kind, landing>>
       ELSE /\ LinkedKind # Nothing
            /\ stage' = "opening" /\ kind' = LinkedKind /\ landing' = arg.path
    /\ arg' = Nothing
    /\ UNCHANGED <<refusal, cluster, pickerVars, viewVars>>

-----------------------------------------------------------------------------
(* The Kind picker.                                                        *)

KindMatches(k, filter) ==
    \E name \in {k.kind} \cup k.shorts : FuzzyMatches(filter, KindText[name])
PickerMatches ==
    Picked(kinds, {n \in DOMAIN kinds : KindMatches(kinds[n], picker.filter)})

Pick(list) ==
    /\ stage = "picker"
    /\ Len(list.filter) <= MaxFilter
    /\ picker' = list
    /\ UNCHANGED <<stage, launchVars, height, kind, landing, viewVars>>

TypePicker == \E letter \in Letters : Pick(Typed(picker, <<letter>>))
ErasePicker == Pick(Erased(picker))
ClearPicker == picker.filter # <<>> /\ Pick(Cleared(picker))
MovePicker(delta) == Pick(PickerMove(picker, delta, Len(PickerMatches), height))

(* A resize reaches the picker whatever is open over it.                   *)
Resize ==
    /\ stage \in {"picker", "opening", "failed", "compose"}
    /\ \E to \in Heights :
         /\ height' = to
         /\ picker' = PickerFollow(picker, Len(PickerMatches), to)
    /\ UNCHANGED <<stage, launchVars, kind, landing, viewVars>>

SelectHighlighted ==
    /\ stage = "picker"
    /\ PickerMatches # <<>>
    /\ kind' = PickerMatches[picker.cursor + 1]
    /\ stage' = "opening"
    /\ UNCHANGED <<launchVars, pickerVars, landing, viewVars>>

-----------------------------------------------------------------------------
(* Opening a Kind.                                                         *)

(* Seeded fault: the rows the filter leaves.                               *)
KindVersionsShown(k) ==
    LET rowsOfKind == Picked(PickerMatches, {n \in DOMAIN PickerMatches :
                                            GroupKind(PickerMatches[n]) = GroupKind(k)})
    IN  [n \in DOMAIN rowsOfKind |-> Gvk(rowsOfKind[n])]

(* kindVersions: the picker's rows of the Kind, whatever the filter.       *)
KindVersions(k) ==
    LET rowsOfKind == Picked(kinds, {n \in DOMAIN kinds : GroupKind(kinds[n]) = GroupKind(k)})
    IN  [n \in DOMAIN rowsOfKind |-> Gvk(rowsOfKind[n])]

OpenCompose ==
    /\ stage = "opening"
    /\ Gvk(kind) \in Versions
    /\ OpenView(Gvk(kind), KindVersions(kind), landing)
    /\ stage' = "compose"
    /\ landing' = <<>>
    /\ UNCHANGED <<launchVars, pickerVars, kind>>

(* The document does not arrive, does not parse or lacks the Kind.         *)
FailToOpen ==
    /\ stage = "opening"
    /\ stage' = "failed"
    /\ UNCHANGED <<launchVars, pickerVars, kind, landing, viewVars>>

(* Esc, over a Draft confirmed.                                            *)
ReturnToPicker ==
    /\ \/ stage \in {"opening", "failed"}
       \/ stage = "compose" /\ overlay = "none"
    /\ stage' = "picker"
    /\ kind' = Nothing
    /\ landing' = <<>>
    /\ CloseView
    /\ UNCHANGED <<launchVars, pickerVars>>

(* Ctrl-c anywhere, and the other ways out.                                *)
Quit ==
    /\ stage \in {"picker", "opening", "failed", "compose"}
    /\ stage' = "ended"
    /\ CloseView
    /\ UNCHANGED <<launchVars, pickerVars, kind, landing>>

Compose ==
    /\ stage = "compose"
    /\ ViewStep
    /\ kind' \in ToSet(kinds) /\ Gvk(kind') = version'
    /\ UNCHANGED <<stage, launchVars, pickerVars, landing>>

BrowseStep ==
    \/ RefuseLaunch \/ Launch
    \/ TypePicker \/ ErasePicker \/ ClearPicker \/ \E delta \in {1, -1} : MovePicker(delta)
    \/ Resize \/ SelectHighlighted
    \/ OpenCompose \/ FailToOpen \/ ReturnToPicker \/ Quit \/ Compose

(* What is explored of it: Drafts of at most MaxEntries entries; surfaces   *)
(* and filled Drafts behind a picker as the launch left it, where every    *)
(* apiservice answered; findings that mark a row, with no search or        *)
(* version list over them; and filters of the version list over an empty   *)
(* Draft.                                                                  *)
Explored ==
    /\ Cardinality(DOMAIN draft') <= MaxEntries
    /\ draft' # EmptyDraft \/ overlay' # "none" =>
         picker' = NewList /\ height' = 0 /\ cluster.broken = {}
    /\ validation' # Null =>
         validation'.mapped # <<>> /\ overlay' \notin {"search", "versions"}
    /\ versionList'.filter # <<>> => draft' = EmptyDraft

BrowseNext == BrowseStep /\ Explored

BrowseSpec == BrowseInit /\ [][BrowseNext]_browseVars

-----------------------------------------------------------------------------
(* What is on screen is what the next key acts on.                         *)

Composing == stage = "compose"

(* A view is open exactly while composing, over the selected Kind, with its *)
(* focus on a row and at most one surface over the tree.                   *)
BrowseTypeOK ==
    /\ stage \in {"launch", "refused", "picker", "opening", "failed", "compose", "ended"}
    /\ (stage = "refused") = (refusal # Nothing)
    /\ stage \in {"opening", "failed", "compose"} => kind \in ToSet(kinds)
    /\ IF Composing
       THEN /\ TypeOK
            /\ version = Gvk(kind)
            /\ cursor \in 0..(Cardinality(Shown(version, rows)) - 1)
            /\ overlay \in {"none", "search", "versions", "unset"}
            /\ (overlay = "unset") = (unsetting # Null)
       ELSE NoView

(* One apiservice down must not take the picker down: discovery fails only *)
(* where nothing usable came back, and every persistable Kind of a group   *)
(* version that did answer is among the rows, each once (DiscoverKinds).   *)
OneBrokenApiserviceHidesOnlyItself ==
    /\ refusal = "discovery" => ~cluster.up \/ cluster.malformed
    /\ stage \notin {"launch", "refused"} =>
         /\ ToSet(kinds) = {BrowsableKind(r) : r \in {q \in Resources :
                               /\ IsPersistable(q)
                               /\ <<q.group, q.version>> \notin cluster.broken}}
         /\ \A m, n \in DOMAIN kinds : kinds[m] = kinds[n] => m = n

(* The highlighted row of each list exists and, where the picker has room  *)
(* for a row, is on screen: Enter never acts on a row that is not there,    *)
(* after any typing, moving and resizing (picker.follow, resetToTop).      *)
HighlightIsOnScreen ==
    /\ LET count == Len(PickerMatches)
           shown == PickerRowsShown(count, height)
       IN  count > 0 =>
             /\ picker.cursor \in 0..(count - 1)
             /\ shown > 0 => picker.cursor \in picker.offset..(picker.offset + shown - 1)
    /\ overlay = "search" /\ matched # <<>> => search.cursor \in 0..(Len(matched) - 1)
    /\ overlay = "versions" /\ VersionMatches # <<>> =>
         versionList.cursor \in 0..(Len(VersionMatches) - 1)

(* `V` offers what the cluster serves of the open Kind, its Preferred       *)
(* Version first, however the Kind was reached: through a filter, a link or *)
(* a version switch (kindVersions, comparePickerRows).                     *)
SwitchOffersEveryServedVersion ==
    Composing =>
        LET siblings == {k \in ToSet(kinds) : GroupKind(k) = GroupKind(kind)} IN
        /\ ToSet(served) = {Gvk(k) : k \in siblings}
        /\ Len(served) = Cardinality(siblings)
        /\ \A k \in siblings : k.preferred => served[1] = Gvk(k)

(* A token that names one Kind opens it, on its Preferred Version where a  *)
(* version of that name is preferred; a token that names several opens     *)
(* none (ResolveKindToken).                                                *)
LinkLandsOnPreferred ==
    [][stage = "launch" /\ stage' = "opening" =>
        LET named == {k \in ToSet(kinds') : KindMatchesToken(k, arg.token)} IN
        /\ kind' \in named
        /\ \A k \in named : GroupKind(k) = GroupKind(kind')
        /\ (\E k \in named : k.preferred) => kind'.preferred]_browseVars

(* The search lists exactly the paths the filter's letters occur in, in    *)
(* order; first come those whose span is tightest, of the occurrences that *)
(* end earliest, then the shorter ones, then those first in the tree       *)
(* (computeMatches).                                                       *)
SearchListsWhatMatches ==
    overlay = "search" =>
        LET size == Len(search.filter)
            text(s) == Letterwise(s)
            occurrences(s) ==
                {at \in [1..size -> 1..Len(text(s))] :
                    /\ \A n \in 1..size : text(s)[at[n]] = search.filter[n]
                    /\ \A n \in 2..size : at[n - 1] < at[n]}
            spans(s) == {at[size] - at[1] : at \in
                            {f \in occurrences(s) : \A g \in occurrences(s) : f[size] <= g[size]}}
            tightest(s) == IF size = 0 THEN 0
                           ELSE CHOOSE n \in spans(s) : \A m \in spans(s) : n <= m
            length(s) == IF size = 0 THEN 0 ELSE Len(text(s))
            place(s) == CHOOSE n \in DOMAIN FieldPaths[version] : FieldPaths[version][n] = s
        IN  /\ ToSet(matched) = {s \in Candidates[version] : occurrences(s) # {}}
            /\ \A m, n \in DOMAIN matched : m < n =>
                 LET a == matched[m]
                     b == matched[n]
                 IN  \/ tightest(a) < tightest(b)
                     \/ /\ tightest(a) = tightest(b)
                        /\ \/ length(a) < length(b)
                           \/ length(a) = length(b) /\ place(a) < place(b)

(* The first row below p of p's own collection: the next item or key, or   *)
(* the placeholder where p was the last.                                   *)
TakesPlace(shown, f, p) ==
    /\ Front(f) = Front(p) /\ Above(p, f)
    /\ \A q \in shown : Front(q) = Front(p) /\ Above(p, q) => q = f \/ Above(f, q)

(* A mutation leaves the focus where the next key is meant to act: on the  *)
(* item or key that `a` added, on the row that was changed or, where that   *)
(* row is gone, on the one that took its place.  A row that folds keeps it *)
(* (appendItem, confirmKeyPrompt, performUnset, toggleFocused).            *)
FocusStaysWithItsRow ==
    [][Composing /\ version' = version /\ rows' # rows
        /\ overlay # "search" /\ ~PressJumpToFinding =>
        CASE PressAdd ->
                Focused' \in {p \in DOMAIN draft' \ DOMAIN draft : ~IsField(Last(p))}
          [] ~PressAdd /\ Focused \in Shown(version, rows)' -> Focused' = Focused
          [] OTHER -> TakesPlace(Shown(version, rows)', Focused', Focused)]_browseVars

(* `d` takes at most the row's own scalar away without asking; what else    *)
(* it takes was asked about by its number, on the row that then loses it    *)
(* (pressUnset, updateUnsetConfirm).                                       *)
NoSilentUnset ==
    [][Composing /\ version' = version =>
        LET lost == Cardinality(FilledPaths(draft)) - Cardinality(FilledPaths(draft')) IN
        lost > 0 =>
            \/ overlay = "unset" /\ unsetting = [path |-> Focused, count |-> lost]
            \/ /\ lost = 1 /\ Focused \in FilledPaths(draft)
               /\ draft[Focused].type # "raw-YAML"]_browseVars

(* The path enters each collection on its way at its first entry.          *)
IntoFirst(d, p) ==
    \A n \in DOMAIN p : /\ IsItem(p[n]) => p[n].item = 0
                        /\ IsKey(p[n]) => \A key \in KeysAt(d, SubSeq(p, 1, n - 1)) : p[n].key <= key

(* Where a jump along a dotted path may end: on the path's own row or, where *)
(* a collection on the way holds nothing, on the field that collection is   *)
(* in, which is the collection itself unless it is the entry of another.   *)
IsLanding(v, d, p, dotted) ==
    /\ ~IsSlot(p)
    /\ IntoFirst(d, p)
    /\ \/ NodePath(p) = dotted
       \/ /\ IsPrefix(NodePath(p), dotted)
          /\ \E q \in DOMAIN d \cup {p} :
               /\ p = NearestField(q) /\ IntoFirst(d, q)
               /\ TypeAt(v, q) \in {"array", "map"} /\ ChildrenOf(d, q) = {}

(* A selected match, a version switch and a deep link all land: the jump is *)
(* to the path asked for where the Type Schema has it, and to the root      *)
(* where it has not (landOn, landDeepLink, landAfterSwitch).  A fresh       *)
(* finding is jumped to at its own row (pressJumpToFinding).               *)
JumpsLand ==
    [][LET lands(dotted) ==
               IF \E s \in Candidates[version'] : Dotted(s) = dotted
               THEN IsLanding(version', draft', Focused', dotted)
               ELSE Focused' = <<>>
       IN  /\ Composing /\ SelectMatch => lands(Dotted(matched[search.cursor + 1]))
           /\ Composing /\ SelectVersion => lands(NodePath(Focused))
           /\ OpenCompose => lands(landing)
           /\ PressJumpToFinding /\ ~validation.stale =>
                Focused' = validation.mapped[validation.next]]_browseVars

=============================================================================
