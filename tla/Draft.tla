------------------------------- MODULE Draft -------------------------------
(***************************************************************************)
(* The Draft of internal/schema and what is computed from it: the entry    *)
(* tree's mutations (draft.go, draftentry.go), contextual requiredness     *)
(* (requiredness.go), emission (emit.go) and carry-over to another version *)
(* (carryover.go).  The module has no variables; ComposeTree.tla gives the *)
(* operators their state.                                                  *)
(*                                                                         *)
(* The entry tree is a function.  Its domain is the set of positions the   *)
(* Draft has instantiated below the root, each spelled as a Draft-level    *)
(* Field Path, and it maps a position to the value filled there, or to     *)
(* Null: a structural position, or an empty item or key.  A Field Path is  *)
(* a sequence of segments: a field name, an item index or a map key.       *)
(*                                                                         *)
(* The Type Schema of a Kind is a finite tree of schema-level paths, with  *)
(* "[]" and "{}" for an array's item and a map's value.                    *)
(*                                                                         *)
(* An operator whose comment starts with "Seeded fault" is a plausible     *)
(* mistake in the definition after it and part of no behaviour.            *)
(***************************************************************************)
EXTENDS Naturals, Sequences, FiniteSets, SequencesExt

CONSTANTS
    Versions,    \* the served versions of one Kind
    FieldTree,   \* per version: the display type of every schema-level path
    Required,    \* per version: the schema-level paths their object requires
    Data,        \* what can be filled in
    Flavor,      \* the kind of data each of them is: see Flavors
    Spelling,    \* the text each of them is rendered as
    Enum,        \* per version: the texts, in order, of every path that lists its values
    Refused,     \* per version: <<path, data>>, what a pattern or bound keeps out
    Identity,    \* the root fields that emission derives from the Kind
    Null         \* no value

Scalars == {"boolean", "string", "integer", "number", "int-or-string"}
Structures == {"object", "array", "map"}
Types == Scalars \cup Structures \cup {"raw-YAML"}
Flavors == {"bool", "text", "whole", "fraction", "yaml"}

(* A filled value is stored with the display type it was filled as.        *)
Values == [type : Types, data : Data]

Item == "[]"
Value == "{}"

(* Which Type Schemas are trees: a child fits the type of its parent, and a *)
(* collection describes what it holds.                                     *)
IsFieldTree(tree) ==
    /\ DOMAIN tree \subseteq Seq(STRING)
    /\ <<>> \in DOMAIN tree /\ tree[<<>>] = "object"
    /\ \A s \in DOMAIN tree :
         /\ tree[s] \in Types
         /\ tree[s] = "array" => Append(s, Item) \in DOMAIN tree
         /\ tree[s] = "map" => Append(s, Value) \in DOMAIN tree
         /\ s # <<>> =>
              /\ Front(s) \in DOMAIN tree
              /\ \/ tree[Front(s)] = "object" /\ Last(s) \notin {Item, Value}
                 \/ tree[Front(s)] = "array" /\ Last(s) = Item
                 \/ tree[Front(s)] = "map" /\ Last(s) = Value

(* The fields the Type Schema defines at each path.                        *)
FieldNames ==
    [v \in Versions |->
        [s \in DOMAIN FieldTree[v] |->
            IF FieldTree[v][s] # "object" THEN {}
            ELSE {Last(t) : t \in {u \in DOMAIN FieldTree[v] \ {<<>>} : Front(u) = s}}]]

ASSUME DraftAssumption ==
    /\ \A v \in Versions :
         /\ IsFieldTree(FieldTree[v])
         /\ Required[v] \subseteq {s \in DOMAIN FieldTree[v] \ {<<>>} :
                                     FieldTree[v][Front(s)] = "object"}
         /\ \A s \in DOMAIN Enum[v] : FieldTree[v][s] \in Scalars /\ Enum[v][s] \in Seq(STRING) \ {<<>>}
    /\ Flavor \in [Data -> Flavors]
    /\ \A x, y \in Data : Spelling[x] = Spelling[y] /\ Flavor[x] = Flavor[y] => x = y
    /\ Null \notin Values

-----------------------------------------------------------------------------
(* Draft-level Field Paths.                                                *)

FieldSegment(name) == [field |-> name]
IndexSegment(index) == [item |-> index]
KeySegment(key) == [key |-> key]

(* Map keys are numbers, for their order.                                  *)
Segments == [field : STRING \ {Item, Value}] \cup [item : Nat] \cup [key : Nat]
Paths == Seq(Segments)

IsField(segment) == "field" \in DOMAIN segment
IsItem(segment) == "item" \in DOMAIN segment
IsKey(segment) == "key" \in DOMAIN segment

(* The positions along a path, itself included, the root excluded.         *)
Along(p) == {SubSeq(p, 1, n) : n \in 1..Len(p)}

IsAtOrBeneath(p, q) == Len(q) <= Len(p) /\ \A n \in 1..Len(q) : p[n] = q[n]

(* The schema-level path of a Draft-level one.                             *)
SchemaPath(p) ==
    [n \in 1..Len(p) |-> CASE IsField(p[n]) -> p[n].field
                           [] IsItem(p[n]) -> Item
                           [] IsKey(p[n]) -> Value]

(* Does every segment of the path fit the field tree?                      *)
Resolves(v, p) == SchemaPath(p) \in DOMAIN FieldTree[v]
TypeAt(v, p) == FieldTree[v][SchemaPath(p)]

-----------------------------------------------------------------------------
(* Reading a Draft.                                                        *)

EmptyDraft == [p \in {} |-> Null]
Holds(d, p) == p \in DOMAIN d
FilledPaths(d) == {p \in DOMAIN d : d[p] # Null}
FilledBeneath(d, p) == {q \in FilledPaths(d) : IsAtOrBeneath(q, p)}
ChildrenOf(d, p) == {q \in DOMAIN d : Len(q) = Len(p) + 1 /\ IsAtOrBeneath(q, p)}

ItemCount(d, p) == Cardinality({q \in ChildrenOf(d, p) : IsItem(Last(q))})
KeysAt(d, p) == {Last(q).key : q \in {c \in ChildrenOf(d, p) : IsKey(Last(c))}}
DiscardCount(d, p) == Cardinality(FilledBeneath(d, p))

(* Terminal positions: filled values, and items and keys that hold nothing. *)
Instantiated(d) == {p \in DOMAIN d : ChildrenOf(d, p) = {}}
EmptyEntries(d) == {p \in Instantiated(d) : d[p] = Null}

-----------------------------------------------------------------------------
(* Mutating a Draft.                                                       *)

(* May the path be instantiated?  An index addresses a held item or the    *)
(* next free one: a Draft's arrays stay dense.                             *)
Placeable(d, p) ==
    \A n \in 1..Len(p) : IsItem(p[n]) => p[n].item <= ItemCount(d, SubSeq(p, 1, n - 1))

Materialize(d, p) ==
    [q \in DOMAIN d \cup Along(p) |-> IF q \in DOMAIN d THEN d[q] ELSE Null]

(* The spellings a display type takes.                                     *)
Spellings(type) ==
    CASE type = "boolean" -> {"bool"}
      [] type = "string" -> {"text"}
      [] type = "integer" -> {"whole"}
      [] type = "number" -> {"whole", "fraction"}
      [] type = "int-or-string" -> {"whole", "text"}
      [] type = "raw-YAML" -> {"yaml"}
      [] OTHER -> {}

(* What a position can hold, and what it takes from a user: Set looks at    *)
(* enums, patterns and bounds too, carry-over leaves them to the server.    *)
Fitting(v, p) == {x \in Data : Flavor[x] \in Spellings(TypeAt(v, p))}

IsEnumerated(v, p) == SchemaPath(p) \in DOMAIN Enum[v]
EnumAt(v, p) == Enum[v][SchemaPath(p)]
IsListed(v, p, x) == IsEnumerated(v, p) => Spelling[x] \in Range(EnumAt(v, p))

Admissible(v, p) ==
    {x \in Fitting(v, p) : IsListed(v, p, x) /\ <<SchemaPath(p), x>> \notin Refused[v]}

Set(v, d, p, x) ==
    [Materialize(d, p) EXCEPT ![p] = [type |-> TypeAt(v, p), data |-> x]]

AppendItem(d, p) == Materialize(d, Append(p, IndexSegment(ItemCount(d, p))))
AddKey(d, p, key) == Materialize(d, Append(p, KeySegment(key)))

(* Seeded fault: the successors of a removed item keep their indexes.      *)
RenumberedNever(p, q) == q

(* Where the entry at q sits once the one at p is removed: the items after  *)
(* a removed item move down by one, with everything beneath them.          *)
Renumbered(p, q) ==
    LET n == Len(p) IN
    IF /\ IsItem(p[n])
       /\ Len(q) >= n
       /\ IsAtOrBeneath(q, Front(p))
       /\ IsItem(q[n])
       /\ q[n].item > p[n].item
    THEN [q EXCEPT ![n] = IndexSegment(@.item - 1)]
    ELSE q

(* The ancestor fields of p that hold nothing once only the entries at the *)
(* positions R are left.  Items and keys were explicit acts and stay.      *)

(* Seeded fault: ancestors stay.                                           *)
HollowKept(p, R) == {}
Hollow(p, R) ==
    {a \in Along(Front(p)) :
       \A q \in R : IsAtOrBeneath(q, a) => /\ q \in Along(Front(p))
                                          /\ IsField(Last(q))}

Unset(d, p) ==
    LET kept == {q \in DOMAIN d : ~IsAtOrBeneath(q, p)}
        renumbered == {Renumbered(p, q) : q \in kept}
    IN  [q \in renumbered \ Hollow(p, renumbered) |->
            d[CHOOSE o \in kept : Renumbered(p, o) = q]]

-----------------------------------------------------------------------------
(* Contextual requiredness.                                                *)

(* The required chain beneath a missing required field: through objects    *)
(* only, since items and keys bind their own.  The code's cycle guard has   *)
(* nothing to guard in a finite tree.                                      *)
Assured ==
    [v \in Versions |-> [s \in Required[v] |->
        {t \in DOMAIN FieldTree[v] :
           /\ IsAtOrBeneath(t, s)
           /\ \A n \in (Len(s) + 1)..Len(t) : SubSeq(t, 1, n) \in Required[v]}]]

(* Seeded fault: only the root is looked at.                               *)
MissingAtRoot(v, d) ==
    LET absent == {s \in Required[v] : Len(s) = 1 /\ <<FieldSegment(s[1])>> \notin DOMAIN d}
    IN  {[n \in 1..Len(t) |-> FieldSegment(t[n])] : t \in UNION {Assured[v][s] : s \in absent}}

(* The required positions missing from the Draft: at each present object,  *)
(* the required fields it does not hold, and their assured chains.         *)
MissingRequired(v, d) ==
    LET present == {<<>>} \cup DOMAIN d
        absent(p) == {s \in Required[v] : /\ Front(s) = SchemaPath(p)
                                         /\ Append(p, FieldSegment(Last(s))) \notin present}
        spell(p, t) == p \o [n \in 1..(Len(t) - Len(p)) |-> FieldSegment(t[Len(p) + n])]
    IN  UNION {{spell(p, t) : t \in UNION {Assured[v][s] : s \in absent(p)}} : p \in present}

-----------------------------------------------------------------------------
(* Emission.                                                               *)

(* The positions the Manifest spells: where a filled value sits at or      *)
(* beneath, the identity fields aside.                                     *)
EmittedPaths(d) == {p \in FilledPaths(d) : p[1].field \notin Identity}

Emits(d, p) == \E q \in FilledPaths(d) : IsAtOrBeneath(q, p)
EmittedPositions(d) == UNION {Along(p) : p \in EmittedPaths(d)}

(* Seeded fault: items keep their Draft index.                             *)
ManifestPathUncompacted(d, p) == p

(* Where an emitted position sits in the Manifest: emission skips the      *)
(* items that hold nothing filled, so an index counts the ones that do.    *)
ManifestPath(d, p) ==
    [n \in 1..Len(p) |->
       IF IsItem(p[n])
       THEN IndexSegment(Cardinality({i \in 0..(p[n].item - 1) :
                                        Emits(d, Append(SubSeq(p, 1, n - 1), IndexSegment(i)))}))
       ELSE p[n]]

Emit(d) == {<<ManifestPath(d, p), d[p].data>> : p \in EmittedPaths(d)}

-----------------------------------------------------------------------------
(* Carry-over to another version.                                          *)

TypeCarries(value, target) ==
    \/ value.type = target
    \/ target = "int-or-string" /\ value.type \in {"integer", "string"}
    \/ /\ value.type = "int-or-string"
       /\ target = (IF Flavor[value.data] = "whole" THEN "integer" ELSE "string")

(* Does the value filled at p carry to the target version?                 *)
Carries(d, target, p) ==
    /\ Resolves(target, p)
    /\ (d[p].type = "raw-YAML") = (TypeAt(target, p) = "raw-YAML")
    /\ TypeCarries(d[p], TypeAt(target, p))

(* Items and keys carry as instantiations whenever their collection        *)
(* survives; fields only where something beneath them carried.             *)
CarriedEntries(d, target) ==
    {p \in FilledPaths(d) : Carries(d, target, p)}
        \cup {p \in DOMAIN d : ~IsField(Last(p)) /\ Resolves(target, p)}

CarryOver(d, target) ==
    LET carried == CarriedEntries(d, target)
    IN  [q \in UNION {Along(p) : p \in carried} |->
            IF d[q] # Null /\ q \in carried /\ Carries(d, target, q)
            THEN [d[q] EXCEPT !.type = TypeAt(target, q)]
            ELSE Null]

(* Seeded fault: a value of another type is left out of the report.        *)
DropsUnresolved(d, target) ==
    {p \in DOMAIN d : ~Resolves(target, p) /\ Resolves(target, Front(p))}

(* The drop report: a subtree that cannot be placed is named once, at its  *)
(* highest position, and a value that cannot be placed at its own.         *)
Drops(d, target) ==
    {p \in DOMAIN d : ~Resolves(target, p) /\ Resolves(target, Front(p))}
        \cup {p \in FilledPaths(d) : Resolves(target, p) /\ ~Carries(d, target, p)}

-----------------------------------------------------------------------------
(* What a Draft is.                                                        *)

IsDraft(v, d) ==
    /\ IsFiniteSet(DOMAIN d) /\ DOMAIN d \subseteq Paths \ {<<>>}
    /\ d \in [DOMAIN d -> Values \cup {Null}]
    /\ \A p \in DOMAIN d :
         /\ Resolves(v, p)
         /\ Along(p) \subseteq DOMAIN d
         /\ \/ d[p] = Null
            \/ d[p].type = TypeAt(v, p) /\ d[p].data \in Fitting(v, p)

(* Arrays are dense: where an item is held, so is the one before it.       *)
Dense(d) ==
    \A p \in DOMAIN d : IsItem(Last(p)) /\ Last(p).item > 0 =>
        Append(Front(p), IndexSegment(Last(p).item - 1)) \in DOMAIN d

(* A field is held only for what it holds.                                 *)
NoHollowField(d) == \A p \in EmptyEntries(d) : ~IsField(Last(p))

=============================================================================
