---------------------------- MODULE ComposeTree ----------------------------
(***************************************************************************)
(* The compose view's field tree over a Draft (internal/tui/compose.go),   *)
(* with the last Validate's findings pinned to it (validate.go) and the    *)
(* rebuild a version switch performs (versionswitch.go).                   *)
(*                                                                         *)
(* The tree caches what it shows: rows are grown lazily and then kept in   *)
(* step with the Draft by hand, the missing required positions are         *)
(* recomputed after each mutation, and findings name Draft positions by    *)
(* their path.  The properties say that what is cached still tells the     *)
(* truth.                                                                  *)
(*                                                                         *)
(* A row is named by its Draft-level Field Path.  Placeholder rows and     *)
(* what grows beneath them address nothing in the Draft and are left out,  *)
(* and so is the cursor: a key acts on any visible row.  One action is one *)
(* confirmed operation; Session.tla has the overlays and the flights       *)
(* around them, and no key reaches this view while a Validate flies.       *)
(***************************************************************************)
EXTENDS Widget

CONSTANTS
    GatePaths,    \* the metadata paths the required-to-Validate gate asks for
    MaxItems,     \* the bound on the items of an array
    MapKeys,      \* the map keys a user types: numbers, for their order
    MaxEntries,   \* the bound on the entries of a Draft
    Ruled,        \* the bound on what a Status can name: schema-level paths
    MaxCauses     \* the bound on the causes of a Status

ASSUME ComposeTreeAssumption ==
    /\ MaxItems \in Nat /\ MaxEntries \in Nat /\ MaxCauses \in Nat
    /\ MapKeys \subseteq Nat
    /\ \A p \in GatePaths : /\ p \in Seq([field : STRING \ {Item, Value}]) \ {<<>>}
                           /\ \A v \in Versions : Resolves(v, p) /\ TypeAt(v, p) = "string"

VARIABLES
    version,      \* the open version of the Kind
    draft,        \* the Draft
    missing,      \* the missing required positions, as last computed
    rows,         \* the materialized rows
    validation,   \* the last Validate's outcome, or Null
    offenders     \* history: what each cause of the findings is about, and its pin

vars == <<version, draft, missing, rows, validation, offenders>>

-----------------------------------------------------------------------------
(* Rows.                                                                   *)

IsLeaf(v, p) == TypeAt(v, p) \notin Structures

(* The children a row gets when it is loaded: the schema-defined fields, or *)
(* one row per item or key the Draft holds.                                *)
FreshChildren(v, d, p) ==
    LET type == TypeAt(v, p) IN
    CASE type = "object" -> {Append(p, FieldSegment(name)) : name \in FieldNames[v][SchemaPath(p)]}
      [] type = "array" -> {Append(p, IndexSegment(i)) : i \in 0..(ItemCount(d, p) - 1)}
      [] type = "map" -> {Append(p, KeySegment(k)) : k \in KeysAt(d, p)}
      [] OTHER -> {}

RowChildren(r, p) == {q \in DOMAIN r : Len(q) = Len(p) + 1 /\ IsAtOrBeneath(q, p)}
NewRow == [loaded |-> FALSE, expanded |-> FALSE]

(* loadRow, for each of the rows at P.                                     *)
LoadRows(v, d, r, P) ==
    LET fresh == {p \in P : ~r[p].loaded}
        children == UNION {FreshChildren(v, d, p) : p \in fresh}
    IN  [q \in DOMAIN r \cup children |->
            CASE q \in fresh -> [r[q] EXCEPT !.loaded = TRUE]
              [] q \in children -> NewRow
              [] OTHER -> r[q]]

(* Seeded fault: no lookahead.                                             *)
ExpandRowAlone(v, d, r, p) ==
    [LoadRows(v, d, r, {p}) EXCEPT ![p].expanded = ~IsLeaf(v, p)]

(* A row expands with one level of lookahead.                              *)
ExpandRow(v, d, r, p) ==
    LET loaded == LoadRows(v, d, r, {p}) IN
    IF IsLeaf(v, p)
    THEN loaded
    ELSE LoadRows(v, d, [loaded EXCEPT ![p].expanded = TRUE], RowChildren(loaded, p))

(* The tree a compose view opens with.                                     *)
OpenedRows(v, d) == ExpandRow(v, d, [p \in {<<>>} |-> NewRow], <<>>)

Visible(p) ==
    p \in DOMAIN rows /\ \A n \in 0..(Len(p) - 1) : rows[SubSeq(p, 1, n)].expanded

(* insertInstantiatedRow: the collection's row p gets the row q.           *)
InsertRow(v, d, r, p, q) ==
    LET inserted == [o \in DOMAIN r \cup {q} |-> IF o \in DOMAIN r THEN r[o] ELSE NewRow]
    IN  ExpandRow(v, d, LoadRows(v, d, inserted, {q}), p)

(* Seeded fault: the rows after a removed item keep their index.           *)
RemoveRowInPlace(r, p) == [q \in {o \in DOMAIN r : ~IsAtOrBeneath(o, p)} |-> r[q]]

(* removeInstantiatedRow: later item rows renumber with all beneath them.  *)
RemoveRow(r, p) ==
    LET kept == {q \in DOMAIN r : ~IsAtOrBeneath(q, p)}
    IN  [q \in {Renumbered(p, o) : o \in kept} |-> r[CHOOSE o \in kept : Renumbered(p, o) = q]]

(* A field's row stays: it collapses and reloads from the Draft.           *)
ReloadRow(v, d, r, p) ==
    IF IsLeaf(v, p)
    THEN r
    ELSE LoadRows(v, d,
                  [q \in {o \in DOMAIN r : o = p \/ ~IsAtOrBeneath(o, p)} |->
                      IF q = p THEN NewRow ELSE r[q]],
                  {p})

(* rowForDraftPath walks from the root toward a path: it loads each row it  *)
(* passes and, on request, expands those it gets past.                     *)
WalkToward(v, d, r, p, expand) ==
    LET walk[n \in 0..Len(p)] ==
            IF n = 0 THEN r
            ELSE LET at == SubSeq(p, 1, n - 1)
                     before == walk[n - 1]
                 IN  IF at \notin DOMAIN before THEN before
                     ELSE LET loaded == LoadRows(v, d, before, {at}) IN
                          IF expand /\ SubSeq(p, 1, n) \in DOMAIN loaded
                          THEN ExpandRow(v, d, loaded, at)
                          ELSE loaded
    IN  walk[Len(p)]

(* Toward the paths ps, one after another, expanding nothing.              *)
WalkTowardEach(v, d, r, ps) ==
    LET walked[n \in 0..Len(ps)] ==
            IF n = 0 THEN r ELSE WalkToward(v, d, walked[n - 1], ps[n], FALSE)
    IN  walked[Len(ps)]

(* A schema-level path as search and landing spell it: dots only.           *)
Dotted(s) == Picked(s, {n \in DOMAIN s : s[n] \notin {Item, Value}})

(* FieldPaths: what `/` searches and what a landing can name.              *)
Candidates ==
    [v \in Versions |-> {s \in DOMAIN FieldTree[v] \ {<<>>} : Last(s) \notin {Item, Value}}]

(* The longest start of a path that names a field.                         *)
NearestField(p) ==
    SubSeq(p, 1, CHOOSE n \in 0..Len(p) : /\ n = 0 \/ IsField(p[n])
                                          /\ \A m \in (n + 1)..Len(p) : ~IsField(p[m]))

(* The landing rule of landOn: along a schema-level path, into the first    *)
(* instantiated item or key of each collection, and no further than the    *)
(* first row that is not there.                                            *)
Landing(v, d, r, s) ==
    LET first(at, keys) == Append(at, KeySegment(CHOOSE k \in keys : \A j \in keys : k <= j))
        walk[n \in 0..Len(s)] ==
            IF n = 0 THEN [rows |-> r, at |-> <<>>, landed |-> FALSE]
            ELSE LET before == walk[n - 1] IN
                 IF before.landed THEN before
                 ELSE LET loaded == LoadRows(v, d, before.rows, {before.at})
                          keys == {Last(q).key : q \in {c \in RowChildren(loaded, before.at) :
                                                          IsKey(Last(c))}}
                          next == CASE s[n] = Item -> Append(before.at, IndexSegment(0))
                                    [] s[n] = Value /\ keys # {} -> first(before.at, keys)
                                    [] OTHER -> Append(before.at, FieldSegment(s[n]))
                      IN  IF next \in DOMAIN loaded
                          THEN [rows |-> ExpandRow(v, d, loaded, before.at),
                                at |-> next, landed |-> FALSE]
                          ELSE [rows |-> loaded, at |-> NearestField(before.at), landed |-> TRUE]
    IN  walk[Len(s)]

(* landAfterSwitch: a dotted path the target version lists is landed on, any *)
(* other leaves the tree at its root.                                      *)
LandAfterSwitch(v, d, r, dotted) ==
    LET there == {s \in Candidates[v] : Dotted(s) = dotted} IN
    IF there = {}
    THEN [rows |-> r, at |-> <<>>, landed |-> TRUE]
    ELSE Landing(v, d, r, CHOOSE s \in there : TRUE)

(* The dotted paths a focus can have: those of the visible rows and, under *)
(* the placeholder of an expanded collection, those of its structure.      *)
Focusable ==
    LET seen == {p \in DOMAIN rows : Visible(p)}
        open == {p \in seen : rows[p].expanded /\ TypeAt(version, p) \in {"array", "map"}}
    IN  {Dotted(SchemaPath(p)) : p \in seen}
            \cup {Dotted(s) : s \in {t \in Candidates[version] :
                                      \E p \in open : IsPrefix(SchemaPath(p), t)}}

-----------------------------------------------------------------------------
(* Validate outcomes.                                                      *)

(* An outcome without findings: a clean pass, or an unavailability.        *)
Findingless == [mapped |-> <<>>, unmappable |-> 0, next |-> 1, stale |-> FALSE]

(* markValidationOutdated: findings go stale, an outcome without any is     *)
(* dropped.                                                                *)
Outdated(state) ==
    IF state = Null \/ (state.mapped = <<>> /\ state.unmappable = 0)
    THEN Null
    ELSE [state EXCEPT !.stale = TRUE]

(* Every confirmed mutation ends in refreshCompleteness.                   *)
Mutated ==
    /\ missing' = MissingRequired(version, draft')
    /\ validation' = Outdated(validation)
    /\ offenders' = {}
    /\ UNCHANGED version

(* What the causes of a Status can be about: something the Manifest spells, *)
(* a field its object lacks, or no position, which is the empty path.      *)
Rejectable ==
    LET ruled(P) == {p \in P : SchemaPath(p) \in Ruled}
        spelled == EmittedPositions(draft)
        absent == {p \in missing : Front(p) = <<>> \/ Front(p) \in spelled}
        name(p) == Append(ManifestPath(draft, Front(p)), Last(p))
        causes(p, fields) == {[about |-> p, field |-> f] : f \in fields}
    IN  causes(<<>>, Pathless)
            \cup (UNION {causes(p, CauseFields(ManifestPath(draft, p))) : p \in ruled(spelled)})
            \cup (UNION {causes(p, CauseFields(name(p))) : p \in ruled(absent)})

-----------------------------------------------------------------------------

Init ==
    /\ version \in Versions
    /\ draft = EmptyDraft
    /\ missing = MissingRequired(version, EmptyDraft)
    /\ rows = OpenedRows(version, EmptyDraft)
    /\ validation = Null
    /\ offenders = {}

(* Enter, l, h on a parent: the row expands, or collapses and keeps what it *)
(* has loaded.                                                             *)
ToggleFocused(p) ==
    /\ Visible(p)
    /\ ~IsLeaf(version, p)
    /\ rows' = IF rows[p].expanded
               THEN [rows EXCEPT ![p].expanded = FALSE]
               ELSE ExpandRow(version, draft, rows, p)
    /\ UNCHANGED <<version, draft, missing, validation, offenders>>

(* The value widget or the raw-YAML text area over a leaf is confirmed, and *)
(* neither it nor the Draft rejects what it confirms.                      *)
ConfirmEditor(p) ==
    /\ Visible(p)
    /\ IsLeaf(version, p)
    /\ Placeable(draft, p)
    /\ \E text \in Holdable(version, p) :
         \E x \in Confirms(version, p, text) \cap Admissible(version, p) :
            draft' = Set(version, draft, p, x)
    /\ UNCHANGED rows
    /\ Mutated

(* The required-to-Validate prompt fills a metadata field.                 *)
ConfirmGatePrompt(p) ==
    /\ p \in GatePaths
    /\ p \notin FilledPaths(draft)
    /\ \E x \in Admissible(version, p) : draft' = Set(version, draft, p, x)
    /\ UNCHANGED rows
    /\ Mutated

(* `a` on an array.                                                        *)
AppendToArray(p) ==
    /\ Visible(p)
    /\ TypeAt(version, p) = "array"
    /\ ItemCount(draft, p) < MaxItems
    /\ draft' = AppendItem(draft, p)
    /\ LET loaded == LoadRows(version, draft, rows, {p})
           item == Append(p, IndexSegment(ItemCount(draft', p) - 1))
       IN  rows' = InsertRow(version, draft', loaded, p, item)
    /\ Mutated

(* The key prompt over a map is confirmed with a new key.                  *)
ConfirmKeyPrompt(p) ==
    /\ Visible(p)
    /\ TypeAt(version, p) = "map"
    /\ \E key \in MapKeys \ KeysAt(draft, p) :
         /\ draft' = AddKey(draft, p, key)
         /\ LET loaded == LoadRows(version, draft, rows, {p})
            IN  rows' = InsertRow(version, draft', loaded, p, Append(p, KeySegment(key)))
    /\ Mutated

(* Seeded fault: the findings are left as they are.                        *)
UnsetUnmarked(p) ==
    /\ Visible(p)
    /\ p # <<>>
    /\ Holds(draft, p)
    /\ draft' = Unset(draft, p)
    /\ rows' = IF IsField(Last(p)) THEN ReloadRow(version, draft', rows, p) ELSE RemoveRow(rows, p)
    /\ missing' = MissingRequired(version, draft')
    /\ UNCHANGED <<version, validation, offenders>>

(* Seeded fault: completeness is left as it is.                            *)
UnsetUncounted(p) ==
    /\ Visible(p)
    /\ p # <<>>
    /\ Holds(draft, p)
    /\ draft' = Unset(draft, p)
    /\ rows' = IF IsField(Last(p)) THEN ReloadRow(version, draft', rows, p) ELSE RemoveRow(rows, p)
    /\ validation' = Outdated(validation)
    /\ offenders' = {}
    /\ UNCHANGED <<version, missing>>

(* `d`, confirmed where it asks.                                           *)
PerformUnset(p) ==
    /\ Visible(p)
    /\ p # <<>>
    /\ Holds(draft, p)
    /\ draft' = Unset(draft, p)
    /\ rows' = IF IsField(Last(p)) THEN ReloadRow(version, draft', rows, p) ELSE RemoveRow(rows, p)
    /\ Mutated

(* A Validate that passes, or that could not run.                          *)
ValidatePlainly ==
    /\ validation' = Findingless
    /\ offenders' = {}
    /\ UNCHANGED <<version, draft, missing, rows>>

(* applyReport: a finding whose path the tree reaches marks that row, any   *)
(* other is unmappable.                                                    *)
ShowFindings(findings) ==
    LET reached(n) == findings[n] \in DOMAIN rows' \ {<<>>}
        first(n) == \A m \in 1..(n - 1) : findings[m] # findings[n]
        all == DOMAIN findings
    IN  /\ rows' = WalkTowardEach(version, draft, rows, findings)
        /\ validation' = [mapped |-> Picked(findings, {n \in all : reached(n) /\ first(n)}),
                          unmappable |-> Cardinality({n \in all : ~reached(n)}),
                          next |-> 1,
                          stale |-> FALSE]
        /\ UNCHANGED <<version, draft, missing>>

ApplyReport ==
    \E count \in 0..MaxCauses :
      \E causes \in [1..count -> Rejectable], message \in {TRUE, count > 0} :
        LET findings == MapCauses([n \in 1..count |-> causes[n].field], message) IN
        /\ ShowFindings(findings)
        /\ offenders' = {[about |-> causes[n].about,
                          pin |-> IF findings[n] \in DOMAIN rows' THEN findings[n] ELSE <<>>] :
                            n \in 1..count}

(* `n`: the next mapped finding, its ancestors expanded.                   *)
JumpToFinding ==
    /\ validation # Null
    /\ validation.mapped # <<>>
    /\ rows' = WalkToward(version, draft, rows, validation.mapped[validation.next], TRUE)
    /\ validation' = [validation EXCEPT !.next = 1 + (@ % Len(validation.mapped))]
    /\ UNCHANGED <<version, draft, missing, offenders>>

(* `/` selects a schema-level path.                                        *)
SelectSearchMatch ==
    /\ \E s \in Candidates[version] : rows' = Landing(version, draft, rows, s).rows
    /\ UNCHANGED <<version, draft, missing, validation, offenders>>

(* commitVersionSwitch: the carried Draft under a tree of its own, landed   *)
(* on the dotted path that had the focus where the target defines it.      *)
SwitchTo(target) ==
    /\ version' = target
    /\ draft' = CarryOver(draft, target)
    /\ missing' = MissingRequired(target, draft')
    /\ validation' = Null
    /\ offenders' = {}

SwitchLands(focus) ==
    LandAfterSwitch(version', draft', OpenedRows(version', draft'), focus)

CommitVersionSwitch(target) ==
    /\ target # version
    /\ SwitchTo(target)
    /\ \E focus \in Focusable : rows' = SwitchLands(focus).rows

Step ==
    \/ \E p \in DOMAIN rows :
         \/ ToggleFocused(p)
         \/ ConfirmEditor(p)
         \/ AppendToArray(p)
         \/ ConfirmKeyPrompt(p)
         \/ PerformUnset(p)
    \/ \E p \in GatePaths : ConfirmGatePrompt(p)
    \/ ValidatePlainly
    \/ ApplyReport
    \/ JumpToFinding
    \/ SelectSearchMatch
    \/ \E target \in Versions : CommitVersionSwitch(target)

(* MaxEntries is a bound: steps that would exceed it are not taken.        *)
Next == Step /\ Cardinality(DOMAIN draft') <= MaxEntries

Spec == Init /\ [][Next]_vars

-----------------------------------------------------------------------------
(* What is cached tells the truth.                                         *)

(* The Draft fits the open version's Type Schema, its arrays are dense and *)
(* its fields hold something; rows and outcome have their shape.           *)
TypeOK ==
    /\ version \in Versions
    /\ IsDraft(version, draft)
    /\ Dense(draft)
    /\ NoHollowField(draft)
    /\ DOMAIN rows \subseteq Paths
    /\ \A p \in DOMAIN rows : /\ rows[p] \in [loaded : BOOLEAN, expanded : BOOLEAN]
                              /\ Resolves(version, p)
                              /\ p # <<>> => Front(p) \in DOMAIN rows
    /\ \/ validation = Null
       \/ /\ validation.stale \in BOOLEAN
          /\ validation.mapped # <<>> => validation.next \in DOMAIN validation.mapped

(* The rows under a loaded collection are exactly the items and keys the   *)
(* Draft holds there, however they were grown, renumbered and reloaded     *)
(* (loadRow, insertInstantiatedRow, removeInstantiatedRow, performUnset).  *)
RowsMirrorDraft ==
    \A p \in DOMAIN rows : rows[p].loaded =>
        RowChildren(rows, p) = FreshChildren(version, draft, p)

(* Every visible row knows whether it is a leaf: expansion looks one level  *)
(* ahead (expandRow), so Enter opens an editor on leaves only.             *)
VisibleRowsAreLoaded == \A p \in DOMAIN rows : Visible(p) => rows[p].loaded

(* The required markers and the status line's count are those of the Draft *)
(* as it is, not as it was (refreshCompleteness).                          *)
MissingIsCurrent == missing = MissingRequired(version, draft)

(* `n` never has to say that a finding no longer resolves unless a mutation *)
(* has outdated the findings (pressJumpToFinding, markValidationOutdated). *)
FreshFindingsResolve ==
    validation # Null /\ ~validation.stale =>
        \A n \in DOMAIN validation.mapped :
            LET p == validation.mapped[n] IN
            p \in DOMAIN WalkToward(version, draft, rows, p, TRUE)

(* A fresh finding marks the row of the very position the server rejected: *)
(* "entries with field paths annotate the offending tree nodes"            *)
(* (docs/DESIGN.md).                                                       *)
FindingsMarkOffenders ==
    \A cause \in offenders : cause.pin # <<>> => cause.pin = cause.about

(* A position whose spelling reads as another: on a way through a key of    *)
(* digits, which reads as an item, and the field named as no field is.     *)
ReadsAsAnother(p) ==
    \/ p = <<FieldSegment("<nil>")>>
    \/ \E n \in DOMAIN p : IsKey(p[n]) /\ p[n].key \in DigitKeys

(* They do wherever emission leaves no item out, and no finding that names  *)
(* a position is lost to the results pane but those whose spelling reads   *)
(* as another position (applyReport, normalizeFieldPath).                  *)
FindingsMarkOffendersWithoutGaps ==
    (\A p \in DOMAIN draft : IsItem(Last(p)) => Emits(draft, p)) =>
        \A cause \in offenders :
            cause.pin = IF ReadsAsAnother(cause.about) THEN <<>> ELSE cause.about

(* A Manifest keeps what the Draft holds apart: no two values land at one   *)
(* position, and every array it spells is dense (Emit, emitSequence).      *)
EmitKeepsApart ==
    LET positions == {ManifestPath(draft, p) : p \in EmittedPositions(draft)} IN
    /\ Cardinality({entry[1] : entry \in Emit(draft)}) = Cardinality(EmittedPaths(draft))
    /\ \A m \in positions : IsItem(Last(m)) /\ Last(m).item > 0 =>
         Append(Front(m), IndexSegment(Last(m).item - 1)) \in positions

(* "No required fields missing" is about the Manifest too: each object the *)
(* Manifest spells has its required fields, but for those at the root that *)
(* emission derives from the Kind and for a field of which the Draft holds *)
(* an empty item or key, which counts as present but is never emitted      *)
(* (MissingRequired against Emit).                                         *)
CompleteDraftsEmitComplete ==
    missing = {} =>
        \A p \in {<<>>} \cup EmittedPositions(draft) : \A s \in Required[version] :
            Front(s) = SchemaPath(p) /\ (p = <<>> => Last(s) \notin Identity) =>
                LET q == Append(p, FieldSegment(Last(s))) IN
                \/ q \in EmittedPositions(draft)
                \/ \E e \in EmptyEntries(draft) : IsAtOrBeneath(e, q)

(* A version switch loses nothing the drop report does not name: a value   *)
(* is carried, at its own path and with its data, exactly when no drop     *)
(* covers it, items and keys stay where their collection survives, and the *)
(* carried Draft is one the target version accepts (CarryOver, Drops).     *)
CarriedOrReported ==
    \A target \in Versions \ {version} :
        LET carried == CarryOver(draft, target) IN
        /\ IsDraft(target, carried) /\ Dense(carried) /\ NoHollowField(carried)
        /\ \A p \in DOMAIN draft : ~IsField(Last(p)) /\ Resolves(target, p) =>
             p \in DOMAIN carried
        /\ \A p \in FilledPaths(draft) :
             LET covered == \E q \in Drops(draft, target) : IsAtOrBeneath(p, q) IN
             IF covered THEN p \notin FilledPaths(carried)
             ELSE p \in FilledPaths(carried) /\ carried[p].data = draft[p].data

(* Enter twice on a filled leaf leaves the Draft as it is, whatever became  *)
(* of the value since it was typed, but for the two a version switch can   *)
(* bring: digits that were a string and are now in either spelling, which  *)
(* turn into a number, and a value the target's enum does not list, which  *)
(* turns into the enum's first (newFieldEditor, confirmValue, carryValue). *)
ReopenedValuesStay ==
    \A p \in FilledPaths(draft) :
        LET x == draft[p].data
            digits == /\ TypeAt(version, p) = "int-or-string"
                      /\ Flavor[x] = "text" /\ Reads(Spelling[x], {"whole"}) # {}
            stays == Confirms(version, p, Opened(version, draft, p)) = {x}
        IN  stays <=> IsListed(version, p, x) /\ ~digits

(* What an item holds, relative to it.                                     *)
Content(d, p) ==
    [q \in {SubSeq(o, Len(p) + 1, Len(o)) : o \in {h \in DOMAIN d : IsAtOrBeneath(h, p)}} |->
        d[p \o q]]
ItemsAt(d, p) == [n \in 1..ItemCount(d, p) |-> Content(d, Append(p, IndexSegment(n - 1)))]

(* No array above p loses an item, so that p is the same position in both. *)
Stays(d, e, p) ==
    \A q \in Along(p) : IsItem(Last(q)) => ItemCount(e, Front(q)) >= ItemCount(d, Front(q))

(* The array at p lost one item, gained an empty last one, or had one item  *)
(* change.                                                                 *)
ItemsKept(d, e, p) ==
    LET before == ItemsAt(d, p)
        after == ItemsAt(e, p)
    IN  \/ \E n \in DOMAIN before : after = RemoveAt(before, n)
        \/ after = Append(before, [q \in {<<>>} |-> Null])
        \/ /\ Len(after) = Len(before)
           /\ \A m, n \in DOMAIN before :
                after[m] # before[m] /\ after[n] # before[n] => m = n

(* No step disturbs two items of one array: the others keep their contents *)
(* and their order.  An array inside an item that a removal moves is part   *)
(* of what that item keeps (Unset's renumbering contract).                 *)
ItemsKeepTheirContents ==
    [][draft' # draft /\ version' = version =>
         \A p \in DOMAIN draft \cap DOMAIN draft' :
            TypeAt(version, p) = "array" /\ Stays(draft, draft', p) =>
                ItemsKept(draft, draft', p)]_vars

=============================================================================
