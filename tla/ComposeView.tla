------------------------------ MODULE ComposeView ------------------------------
(***************************************************************************)
(* The keys of the compose view (internal/tui/compose.go) over the field   *)
(* tree of ComposeTree: the focus, the field search (search.go), the       *)
(* version list (versionswitch.go) and the unset confirm.                  *)
(*                                                                         *)
(* The focus is an index into the rows on screen, so every change of the   *)
(* tree has to leave it where the user's next key is meant to act.  A row  *)
(* on screen is a Draft position, or the placeholder last under an         *)
(* expanded collection; what grows beneath a placeholder is left out.      *)
(*                                                                         *)
(* A widget, key prompt or drop confirm is one step with its confirm, and  *)
(* a version switch one step with its fetch: Session.tla has the overlays  *)
(* and the flights.                                                        *)
(*                                                                         *)
(* An operator whose comment starts with "Seeded fault" is a plausible     *)
(* mistake in the definition after it and part of no behaviour.            *)
(***************************************************************************)
EXTENDS ComposeTree, Surface

CONSTANTS
    FieldRank,      \* the string order of the field names
    FieldText,      \* how each of them is spelled, in letters
    VersionText,    \* how a version's group and version are spelled
    Letters,        \* the letters a user types into a filter
    MaxFilter       \* the bound on a filter's length

ASSUME ComposeViewAssumption ==
    /\ MaxFilter \in Nat
    /\ \A v \in Versions : \A s \in DOMAIN FieldTree[v] \ {<<>>} :
         Last(s) \notin {Item, Value} => Last(s) \in DOMAIN FieldRank \cap DOMAIN FieldText
    /\ \A v \in Versions : IsFiniteSet(DOMAIN FieldTree[v])
    /\ \A m, n \in DOMAIN FieldRank :
         FieldRank[m] \in Nat /\ (FieldRank[m] = FieldRank[n] => m = n)
    /\ \A name \in DOMAIN FieldText : FieldText[name] \in Seq(STRING)
    /\ Null \notin [path : Paths, count : Nat] /\ Null \notin Versions

VARIABLES
    cursor,       \* the index of the focused row among those on screen
    overlay,      \* what is open over the tree: "none", "search", "versions", "unset"
    search,       \* the field search: a list
    matched,      \* the memoized ranking of the search's matches, best first
    versionList,  \* the version list: a list
    unsetting,    \* what the unset confirm is about, or Null
    served        \* the Kind's served versions, as read when the view opened

treeVars == <<version, draft, missing, rows, validation, offenders>>
surfaces == <<search, matched, versionList, served>>
viewVars == <<treeVars, cursor, overlay, surfaces, unsetting>>

-----------------------------------------------------------------------------
(* The rows on screen.                                                     *)

Slot == [slot |-> TRUE]
IsSlot(p) == p # <<>> /\ Last(p) = Slot

(* appendVisibleRows: a row and, where it is expanded, what is beneath.    *)
Shown(v, r) ==
    LET seen == {p \in DOMAIN r : \A n \in 0..(Len(p) - 1) : r[SubSeq(p, 1, n)].expanded}
        open == {p \in seen : r[p].expanded /\ TypeAt(v, p) \in {"array", "map"}}
    IN  seen \cup {Append(p, Slot) : p \in open}

(* Fields by name, items by index, keys sorted, the placeholder last.      *)
Earlier(a, b) ==
    /\ a # Slot
    /\ \/ b = Slot
       \/ IsField(a) /\ FieldRank[a.field] < FieldRank[b.field]
       \/ IsItem(a) /\ a.item < b.item
       \/ IsKey(a) /\ a.key < b.key

Above(p, q) ==
    \/ p # q /\ IsAtOrBeneath(q, p)
    \/ \E n \in 1..Smaller(Len(p), Len(q)) :
         /\ SubSeq(p, 1, n - 1) = SubSeq(q, 1, n - 1)
         /\ p[n] # q[n] /\ Earlier(p[n], q[n])

Place(shown, p) == Cardinality({q \in shown : Above(q, p)})

(* The row under the focus, by its path.                                   *)
Focused ==
    LET shown == Shown(version, rows) IN
    CHOOSE p \in shown : Place(shown, p) = cursor

(* Seeded fault: one row too many.                                         *)
FocusIndexPastEnd(shown, index) == Clamped(index, Cardinality(shown))

(* focusIndex                                                              *)
FocusIndex(shown, index) == Clamped(index, Cardinality(shown) - 1)

(* Seeded fault: the focus stays on its index.                             *)
FocusNowhere(shown, p) == FocusIndex(shown, cursor)

(* focusRow: onto the row where it is on screen.                           *)
FocusRow(shown, p) == IF p \in shown THEN Place(shown, p) ELSE FocusIndex(shown, cursor)

(* The dotted path of a row's node: a placeholder has its collection's.    *)
NodePath(p) == Dotted(SchemaPath(IF IsSlot(p) THEN Front(p) ELSE p))

-----------------------------------------------------------------------------
(* The field search.                                                       *)

(* FieldPaths in tree order, each schema-level path with its letters.      *)
FieldPaths ==
    [v \in Versions |->
        LET before(s, t) ==
                \/ s # t /\ IsPrefix(s, t)
                \/ \E n \in 1..Smaller(Len(s), Len(t)) :
                     /\ SubSeq(s, 1, n - 1) = SubSeq(t, 1, n - 1)
                     /\ s[n] # t[n] /\ FieldRank[s[n]] < FieldRank[t[n]]
        IN  InOrder(Candidates[v], before)]

Letterwise(s) ==
    LET names == Dotted(s) IN
    FlattenSeq([n \in DOMAIN names |->
        IF n = 1 THEN FieldText[names[n]] ELSE <<".">> \o FieldText[names[n]]])

(* computeMatches: the tighter span first, then the shorter path, then tree *)
(* order; all in tree order where there is no filter.                      *)
ComputeMatches(v, filter) ==
    LET paths == FieldPaths[v]
        found == {n \in DOMAIN paths : FuzzyMatches(filter, Letterwise(paths[n]))}
        key(n) == LET text == Letterwise(paths[n]) IN
                  <<Span(MatchedPositions(filter, text)), Len(text), n>>
        better(m, n) == LexicallyBefore(key(m), key(n))
        ranked == InOrder(found, better)
    IN  IF filter = <<>> THEN paths ELSE [n \in DOMAIN ranked |-> paths[ranked[n]]]

(* ensureCandidates: the candidates are enumerated, and ranked, once.      *)
EnsureCandidates(v, memo) == IF memo = <<>> THEN ComputeMatches(v, <<>>) ELSE memo

OpenSearch ==
    /\ overlay = "none"
    /\ overlay' = "search"
    /\ matched' = EnsureCandidates(version, matched)
    /\ UNCHANGED <<treeVars, cursor, search, versionList, served, unsetting>>

(* Every change of the filter re-ranks.                                    *)
SearchFor(list) ==
    /\ overlay = "search"
    /\ Len(list.filter) <= MaxFilter
    /\ search' = list
    /\ matched' = ComputeMatches(version, list.filter)
    /\ UNCHANGED <<treeVars, cursor, overlay, versionList, served, unsetting>>

TypeSearch == \E letter \in Letters : SearchFor(Typed(search, <<letter>>))

EraseSearch == search.filter # <<>> /\ SearchFor(Erased(search))

MoveSearch(delta) ==
    /\ overlay = "search"
    /\ search' = ListMove(search, delta, Len(matched))
    /\ UNCHANGED <<treeVars, cursor, overlay, matched, versionList, served, unsetting>>

(* Esc clears an active filter, then dismisses; the highlight stays.       *)
EscapeSearch ==
    \/ search.filter # <<>> /\ SearchFor(Cleared(search))
    \/ /\ overlay = "search"
       /\ search.filter = <<>>
       /\ overlay' = "none"
       /\ UNCHANGED <<treeVars, cursor, surfaces, unsetting>>

(* Enter on a match: the search is over and the tree jumps.                *)
SelectMatch ==
    /\ overlay = "search"
    /\ matched # <<>>
    /\ LET land == Landing(version, draft, rows, matched[search.cursor + 1]) IN
       /\ rows' = land.rows
       /\ cursor' = FocusRow(Shown(version, land.rows), land.at)
    /\ overlay' = "none"
    /\ search' = NewList
    /\ matched' = ComputeMatches(version, <<>>)
    /\ UNCHANGED <<version, draft, missing, validation, offenders, versionList, served, unsetting>>

-----------------------------------------------------------------------------
(* Moving in the tree.                                                     *)

Navigating == overlay = "none"
OnTree == Navigating /\ UNCHANGED <<overlay, surfaces, unsetting>>

(* j, k, g, G                                                              *)
MoveFocus ==
    /\ OnTree
    /\ LET shown == Shown(version, rows) IN
       \E index \in {cursor + 1, cursor - 1, 0, Cardinality(shown) - 1} :
         cursor' = FocusIndex(shown, index)
    /\ UNCHANGED treeVars

(* l: expand, or step to the first child.                                  *)
ExpandFocused ==
    /\ OnTree
    /\ ~IsSlot(Focused) /\ ~IsLeaf(version, Focused)
    /\ IF rows[Focused].expanded
       THEN cursor' = FocusIndex(Shown(version, rows), cursor + 1) /\ UNCHANGED treeVars
       ELSE ToggleFocused(Focused) /\ UNCHANGED cursor

(* h: collapse, or step to the parent.                                     *)
CollapseFocused ==
    /\ OnTree
    /\ IF ~IsSlot(Focused) /\ rows[Focused].expanded
       THEN ToggleFocused(Focused) /\ UNCHANGED cursor
       ELSE /\ Focused # <<>>
            /\ cursor' = FocusRow(Shown(version, rows), Front(Focused))
            /\ UNCHANGED treeVars

(* Enter: a parent toggles, a leaf is edited.                              *)
PressEnter ==
    /\ OnTree
    /\ ~IsSlot(Focused)
    /\ ToggleFocused(Focused) \/ ConfirmEditor(Focused)
    /\ UNCHANGED cursor

-----------------------------------------------------------------------------
(* Mutating the Draft.                                                     *)

(* Seeded fault: the focus stays on the collection.                        *)
PressAddInPlace ==
    /\ OnTree
    /\ ~IsSlot(Focused)
    /\ AppendToArray(Focused) \/ ConfirmKeyPrompt(Focused)
    /\ UNCHANGED cursor

(* a: the focus goes into the row that was added.                          *)
PressAdd ==
    /\ OnTree
    /\ ~IsSlot(Focused)
    /\ AppendToArray(Focused) \/ ConfirmKeyPrompt(Focused)
    /\ LET added == CHOOSE p \in DOMAIN draft' \ DOMAIN draft : Len(p) = Len(Focused) + 1
       IN  cursor' = FocusRow(Shown(version, rows'), added)

(* Seeded fault: a single value is never asked about.                      *)
UnsetsSingleValues(p) == DiscardCount(draft, p) <= 1

(* What `d` takes away without asking: an empty entry, or the row's own    *)
(* scalar.  A graft is a subtree and is asked about.                       *)
UnsetsAtOnce(p) ==
    /\ draft[p] # Null => draft[p].type # "raw-YAML"
    /\ \/ DiscardCount(draft, p) = 0
       \/ DiscardCount(draft, p) = 1 /\ draft[p] # Null

(* performUnset and the focus after it.                                    *)
UnsetRow(p) ==
    /\ PerformUnset(p)
    /\ cursor' = FocusIndex(Shown(version, rows'), cursor)

(* d                                                                       *)
PressUnset ==
    /\ Navigating
    /\ ~IsSlot(Focused) /\ Focused # <<>> /\ Holds(draft, Focused)
    /\ IF UnsetsAtOnce(Focused)
       THEN UnsetRow(Focused) /\ UNCHANGED <<overlay, unsetting>>
       ELSE /\ overlay' = "unset"
            /\ unsetting' = [path |-> Focused, count |-> DiscardCount(draft, Focused)]
            /\ UNCHANGED <<treeVars, cursor>>
    /\ UNCHANGED surfaces

(* y or n over the unset confirm.                                          *)
AnswerUnset ==
    /\ overlay = "unset"
    /\ overlay' = "none"
    /\ unsetting' = Null
    /\ UnsetRow(unsetting.path) \/ UNCHANGED <<treeVars, cursor>>
    /\ UNCHANGED surfaces

-----------------------------------------------------------------------------
(* Validate's findings.                                                    *)

(* The findings of a Validate, its results pane dismissed.                 *)
FindingsLand == OnTree /\ ApplyReport /\ UNCHANGED cursor

(* n: the focus goes to the finding's row where the tree still has it.     *)
PressJumpToFinding ==
    /\ OnTree
    /\ JumpToFinding
    /\ cursor' = FocusRow(Shown(version, rows'), validation.mapped[validation.next])

-----------------------------------------------------------------------------
(* Opening a Kind, and switching its version.                              *)

(* composeOverDraft and landDeepLink: over an empty Draft, on the path the  *)
(* deep link names where the Type Schema defines it, else on the root.     *)
OpenView(v, versions, path) ==
    /\ version' = v
    /\ draft' = EmptyDraft
    /\ missing' = MissingRequired(v, EmptyDraft)
    /\ LET land == LandAfterSwitch(v, EmptyDraft, OpenedRows(v, EmptyDraft), path) IN
       /\ rows' = land.rows
       /\ cursor' = Place(Shown(v, land.rows), land.at)
    /\ matched' = IF path = <<>> THEN <<>> ELSE ComputeMatches(v, <<>>)
    /\ served' = versions
    /\ overlay' = "none" /\ search' = NewList /\ versionList' = NewList
    /\ validation' = Null /\ offenders' = {} /\ unsetting' = Null

(* No view is open, and how a view goes.                                   *)
NoView ==
    /\ version = Null /\ draft = EmptyDraft /\ missing = {} /\ rows = EmptyDraft
    /\ validation = Null /\ offenders = {} /\ cursor = 0 /\ overlay = "none"
    /\ search = NewList /\ matched = <<>> /\ versionList = NewList
    /\ unsetting = Null /\ served = <<>>
CloseView ==
    /\ version' = Null /\ draft' = EmptyDraft /\ missing' = {} /\ rows' = EmptyDraft
    /\ validation' = Null /\ offenders' = {} /\ cursor' = 0 /\ overlay' = "none"
    /\ search' = NewList /\ matched' = <<>> /\ versionList' = NewList
    /\ unsetting' = Null /\ served' = <<>>

Others == Picked(served, {n \in DOMAIN served : served[n] # version})
VersionMatches ==
    Picked(Others, {n \in DOMAIN Others :
                       FuzzyMatches(versionList.filter, VersionText[Others[n]])})

(* V, for a Kind served at more than one version.                          *)
OpenVersionList ==
    /\ Navigating
    /\ Others # <<>>
    /\ overlay' = "versions"
    /\ versionList' = NewList
    /\ UNCHANGED <<treeVars, cursor, search, matched, served, unsetting>>

ListVersions(list) ==
    /\ overlay = "versions"
    /\ Len(list.filter) <= MaxFilter
    /\ versionList' = list
    /\ UNCHANGED <<treeVars, cursor, overlay, search, matched, served, unsetting>>

FilterVersions ==
    \/ \E letter \in Letters : ListVersions(Typed(versionList, <<letter>>))
    \/ ListVersions(Erased(versionList))
    \/ versionList.filter # <<>> /\ ListVersions(Cleared(versionList))
MoveVersions(delta) == ListVersions(ListMove(versionList, delta, Len(VersionMatches)))

(* Esc on an empty filter, or Enter on a version whose switch comes to     *)
(* nothing: cancelled, not fetched, not described or its drops declined.   *)
LeaveVersions ==
    /\ overlay = "versions"
    /\ versionList.filter = <<>> \/ VersionMatches # <<>>
    /\ overlay' = "none"
    /\ versionList' = NewList
    /\ UNCHANGED <<treeVars, cursor, search, matched, served, unsetting>>

(* Enter on a version: the view is rebuilt over the carried Draft, and the *)
(* focus lands where it was.                                               *)
SelectVersion ==
    /\ overlay = "versions"
    /\ VersionMatches # <<>>
    /\ LET target == VersionMatches[versionList.cursor + 1]
           focus == NodePath(Focused)
       IN  /\ target \in Versions
           /\ SwitchTo(target)
           /\ rows' = SwitchLands(focus).rows
           /\ cursor' = Place(Shown(target, rows'), SwitchLands(focus).at)
           /\ matched' = IF focus = <<>> THEN <<>> ELSE ComputeMatches(target, <<>>)
    /\ overlay' = "none" /\ search' = NewList /\ versionList' = NewList
    /\ UNCHANGED <<served, unsetting>>

ViewStep ==
    \/ OpenSearch \/ TypeSearch \/ EraseSearch \/ EscapeSearch \/ SelectMatch
    \/ \E delta \in {1, -1} : MoveSearch(delta) \/ MoveVersions(delta)
    \/ MoveFocus \/ ExpandFocused \/ CollapseFocused \/ PressEnter
    \/ PressAdd \/ PressUnset \/ AnswerUnset
    \/ FindingsLand \/ PressJumpToFinding
    \/ OpenVersionList \/ FilterVersions \/ LeaveVersions \/ SelectVersion

=============================================================================
