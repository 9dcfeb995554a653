------------------------- MODULE ComposeTreeProofs -------------------------
(***************************************************************************)
(* The compose view's field tree keeps what it caches true to the Draft,   *)
(* for every Type Schema, Draft and sequence of operations.                *)
(*                                                                         *)
(* The rows are read as a set of positions: a position below the root has a *)
(* row exactly when its parent's row is loaded and the Draft shows it.     *)
(***************************************************************************)
EXTENDS ComposeTree, DraftProofs

(* What a loaded parent has a row for: a field its type has, an item or a   *)
(* key the Draft holds.                                                    *)
Addressed(v, d, q) == Resolves(v, q) /\ (IsField(Last(q)) \/ q \in DOMAIN d)

LEMMA FreshBy ==
    ASSUME NEW v \in Versions, NEW d, WellFormed(v, d), NEW p \in Paths, Resolves(v, p)
    PROVE  FreshChildren(v, d, p) = {q \in Paths \ {<<>>} : Front(q) = p /\ Addressed(v, d, q)}
<1>. DEFINE C == {q \in Paths \ {<<>>} : Front(q) = p /\ Addressed(v, d, q)}
            type == TypeAt(v, p)
<1>1. ASSUME NEW q \in C
      PROVE  /\ q \in Paths \ {<<>>} /\ Front(q) = p /\ Last(q) \in Segments
             /\ q = Append(p, Last(q))
             /\ IsField(Last(q)) \/ q \in DOMAIN d
             /\ \/ IsField(Last(q)) /\ type = "object"
                \/ IsItem(Last(q)) /\ type = "array"
                \/ IsKey(Last(q)) /\ type = "map"
             /\ IsField(Last(q)) => Last(q).field \in FieldNames[v][SchemaPath(p)]
  <2>1. q \in Paths \ {<<>>} /\ Front(q) = p /\ Resolves(v, q) /\ (IsField(Last(q)) \/ q \in DOMAIN d)
    BY DEF Addressed
  <2>. HIDE DEF C
  <2>2. Last(q) \in Segments /\ q = Append(p, Last(q))
    BY <2>1, FrontLast DEF Paths
  <2>. QED  BY <2>1, <2>2, ParentResolves
<1>2. \A s \in Segments : /\ Append(p, s) \in Paths \ {<<>>} /\ Front(Append(p, s)) = p
                          /\ Last(Append(p, s)) = s
  BY Appended DEF Paths
<1>3. type \in Types
  BY TreeFacts DEF TypeAt, Resolves
<1>4. CASE type = "object"
  <2>. DEFINE F == {Append(p, FieldSegment(name)) : name \in FieldNames[v][SchemaPath(p)]}
  <2>1. FreshChildren(v, d, p) = F
    BY <1>4 DEF FreshChildren
  <2>2. ASSUME NEW name \in FieldNames[v][SchemaPath(p)]
        PROVE  Append(p, FieldSegment(name)) \in C
    <3>1. name \in STRING \ {Item, Value} /\ Resolves(v, Append(p, FieldSegment(name)))
      BY <1>4, ChildrenResolve
    <3>2. FieldSegment(name) \in Segments /\ IsField(FieldSegment(name))
      BY <3>1, FieldSegments
    <3>. QED  BY <1>2, <3>1, <3>2 DEF Addressed
  <2>3. ASSUME NEW q \in C PROVE q \in F
    <3>1. IsField(Last(q)) /\ q = Append(p, Last(q)) /\ Last(q) \in Segments
          /\ Last(q).field \in FieldNames[v][SchemaPath(p)]
      BY <1>1, <1>4
    <3>2. Last(q) = FieldSegment(Last(q).field)
      BY <3>1, SegmentKinds
    <3>. QED  BY <3>1, <3>2
  <2>. HIDE DEF C, F
  <2>4. F \subseteq C
    BY <2>2 DEF F
  <2>5. F = C
    BY <2>3, <2>4
  <2>. QED  BY <2>1, <2>5 DEF C
<1>5. CASE type = "array"
  <2>. DEFINE F == {Append(p, IndexSegment(i)) : i \in 0..(ItemCount(d, p) - 1)}
  <2>1. FreshChildren(v, d, p) = F
    BY <1>5 DEF FreshChildren
  <2>2. /\ ItemCount(d, p) \in Nat
        /\ \A i \in Nat : Append(p, IndexSegment(i)) \in DOMAIN d <=> i < ItemCount(d, p)
    BY HeldItems DEF WellFormed, IsDraft
  <2>3. ASSUME NEW i \in 0..(ItemCount(d, p) - 1)
        PROVE  Append(p, IndexSegment(i)) \in C
    <3>1. i \in Nat /\ i < ItemCount(d, p)
      BY <2>2
    <3>2. Resolves(v, Append(p, IndexSegment(i))) /\ Append(p, IndexSegment(i)) \in DOMAIN d
      BY <1>5, <2>2, <3>1, ChildrenResolve
    <3>3. IndexSegment(i) \in Segments
      BY <3>1, IndexSegments
    <3>. QED  BY <1>2, <3>2, <3>3 DEF Addressed
  <2>4. ASSUME NEW q \in C PROVE q \in F
    <3>1. IsItem(Last(q)) /\ q = Append(p, Last(q)) /\ Last(q) \in Segments
          /\ (IsField(Last(q)) \/ q \in DOMAIN d)
      BY <1>1, <1>5
    <3>2. /\ Last(q) = IndexSegment(Last(q).item) /\ Last(q).item \in Nat
          /\ ~IsField(Last(q))
      BY <3>1, SegmentKinds
    <3>. DEFINE i == Last(q).item
    <3>3. i \in Nat /\ q = Append(p, IndexSegment(i)) /\ q \in DOMAIN d
      BY <3>1, <3>2
    <3>. HIDE DEF i
    <3>4. i < ItemCount(d, p)
      BY <2>2, <3>3
    <3>5. i \in 0..(ItemCount(d, p) - 1)
      BY <2>2, <3>3, <3>4
    <3>. QED  BY <3>3, <3>5
  <2>. HIDE DEF C, F
  <2>5. F \subseteq C
    BY <2>3 DEF F
  <2>6. F = C
    BY <2>4, <2>5
  <2>. QED  BY <2>1, <2>6 DEF C
<1>6. CASE type = "map"
  <2>. DEFINE F == {Append(p, KeySegment(k)) : k \in KeysAt(d, p)}
  <2>1. FreshChildren(v, d, p) = F
    BY <1>6 DEF FreshChildren
  <2>2. KeysAt(d, p) = {k \in Nat : Append(p, KeySegment(k)) \in DOMAIN d}
    BY HeldKeys DEF WellFormed, IsDraft
  <2>3. ASSUME NEW k \in KeysAt(d, p)
        PROVE  Append(p, KeySegment(k)) \in C
    <3>1. k \in Nat /\ Append(p, KeySegment(k)) \in DOMAIN d
      BY <2>2
    <3>2. Resolves(v, Append(p, KeySegment(k)))
      BY <1>6, <3>1, ChildrenResolve
    <3>3. KeySegment(k) \in Segments
      BY <3>1, KeySegments
    <3>. QED  BY <1>2, <3>1, <3>2, <3>3 DEF Addressed
  <2>4. ASSUME NEW q \in C PROVE q \in F
    <3>1. IsKey(Last(q)) /\ q = Append(p, Last(q)) /\ Last(q) \in Segments
          /\ (IsField(Last(q)) \/ q \in DOMAIN d)
      BY <1>1, <1>6
    <3>2. /\ Last(q) = KeySegment(Last(q).key) /\ Last(q).key \in Nat
          /\ ~IsField(Last(q))
      BY <3>1, SegmentKinds
    <3>. QED  BY <2>2, <3>1, <3>2
  <2>. HIDE DEF C, F
  <2>5. F \subseteq C
    BY <2>3 DEF F
  <2>6. F = C
    BY <2>4, <2>5
  <2>. QED  BY <2>1, <2>6 DEF C
<1>7. CASE type \notin {"object", "array", "map"}
  <2>1. FreshChildren(v, d, p) = {}
    BY <1>7 DEF FreshChildren
  <2>2. C = {}
    <3>. HIDE DEF C, type
    <3>. QED  BY <1>1, <1>7
  <2>. QED  BY <2>1, <2>2
<1>. QED  BY <1>4, <1>5, <1>6, <1>7

LEMMA RowChildrenBy ==
    ASSUME NEW r, DOMAIN r \subseteq Paths, NEW p \in Paths
    PROVE  RowChildren(r, p) = {q \in DOMAIN r \ {<<>>} : Front(q) = p}
BY ChildIsAppended DEF RowChildren, Paths

-----------------------------------------------------------------------------
(* Rows.                                                                   *)

(* The rows as positions: what a version v of the Kind and a Draft d make   *)
(* of them, and the lookahead of each row that is expanded.                *)
RowsMirror(v, d, r) ==
    /\ r = [q \in DOMAIN r |-> r[q]]
    /\ DOMAIN r \subseteq Paths /\ <<>> \in DOMAIN r
    /\ \A q \in DOMAIN r : r[q] \in [loaded : BOOLEAN, expanded : BOOLEAN]
    /\ \A q \in Paths \ {<<>>} :
         q \in DOMAIN r <=> Front(q) \in DOMAIN r /\ r[Front(q)].loaded /\ Addressed(v, d, q)

LooksAhead(r, p) ==
    r[p].expanded => /\ r[p].loaded
                     /\ \A q \in DOMAIN r \ {<<>>} : Front(q) = p => r[q].loaded

RowsInv(v, d, r) ==
    /\ RowsMirror(v, d, r)
    /\ \A p \in DOMAIN r : LooksAhead(r, p)
    /\ r[<<>>].loaded

(* No row folds, and the rows above the one at p are expanded.             *)
KeepsOpen(r, m) == \A q \in DOMAIN r : r[q].expanded => q \in DOMAIN m /\ m[q].expanded
OnWay(r, p) == \A n \in 0..(Len(p) - 1) : r[SubSeq(p, 1, n)].expanded

LEMMA RowsResolve ==
    ASSUME NEW v \in Versions, NEW d, NEW r, RowsMirror(v, d, r), NEW p \in DOMAIN r
    PROVE  p \in Paths /\ Resolves(v, p)
BY RootResolves DEF RowsMirror, Addressed

(* What a row that is loaded has beneath it is what the Draft shows there. *)
LEMMA LoadedChildren ==
    ASSUME NEW v \in Versions, NEW d, WellFormed(v, d), NEW r, RowsMirror(v, d, r),
           NEW p \in DOMAIN r, r[p].loaded
    PROVE  RowChildren(r, p) = FreshChildren(v, d, p)
<1>1. p \in Paths /\ Resolves(v, p)
  BY RowsResolve
<1>2. FreshChildren(v, d, p) = {q \in Paths \ {<<>>} : Front(q) = p /\ Addressed(v, d, q)}
  BY <1>1, FreshBy
<1>3. RowChildren(r, p) = {q \in DOMAIN r \ {<<>>} : Front(q) = p}
  BY <1>1, RowChildrenBy DEF RowsMirror
<1>4. \A q \in Paths \ {<<>>} : Front(q) = p => (q \in DOMAIN r <=> Addressed(v, d, q))
  BY DEF RowsMirror
<1>5. DOMAIN r \subseteq Paths
  BY DEF RowsMirror
<1>. QED  BY <1>2, <1>3, <1>4, <1>5

(* Loading the row of a position, or of several (loadRow): the rows that    *)
(* come with it are new, and the others stay as they are.                  *)
LEMMA LoadRowsBy ==
    ASSUME NEW v \in Versions, NEW d, WellFormed(v, d), NEW r, RowsMirror(v, d, r),
           NEW P \in SUBSET DOMAIN r
    PROVE  LET m == LoadRows(v, d, r, P) IN
           /\ RowsMirror(v, d, m)
           /\ DOMAIN r \subseteq DOMAIN m
           /\ \A q \in DOMAIN r : /\ m[q].expanded = r[q].expanded
                                  /\ m[q].loaded <=> r[q].loaded \/ q \in P
           /\ \A q \in DOMAIN m \ DOMAIN r : /\ q # <<>> /\ m[q] = NewRow
                                             /\ Front(q) \in P /\ ~r[Front(q)].loaded
<1>. DEFINE fresh == {p \in P : ~r[p].loaded}
            children == UNION {FreshChildren(v, d, p) : p \in fresh}
            m == LoadRows(v, d, r, P)
            new(q) == CASE q \in fresh -> [r[q] EXCEPT !.loaded = TRUE]
                        [] q \in children -> NewRow
                        [] OTHER -> r[q]
<1>1. m = [q \in DOMAIN r \cup children |-> new(q)]
  BY DEF LoadRows
<1>2. \A p \in fresh : p \in DOMAIN r /\ p \in Paths /\ ~r[p].loaded
                       /\ FreshChildren(v, d, p)
                            = {q \in Paths \ {<<>>} : Front(q) = p /\ Addressed(v, d, q)}
  BY RowsResolve, FreshBy
<1>3. ASSUME NEW q
      PROVE  q \in children <=> q \in Paths \ {<<>>} /\ Front(q) \in fresh /\ Addressed(v, d, q)
  <2>. HIDE DEF fresh
  <2>. QED  BY <1>2
<1>4. /\ DOMAIN r \subseteq Paths /\ <<>> \in DOMAIN r
      /\ \A q \in DOMAIN r : r[q] \in [loaded : BOOLEAN, expanded : BOOLEAN]
      /\ \A q \in Paths \ {<<>>} :
           q \in DOMAIN r <=> Front(q) \in DOMAIN r /\ r[Front(q)].loaded /\ Addressed(v, d, q)
  BY DEF RowsMirror
<1>5. children \cap DOMAIN r = {}
  <2>. SUFFICES ASSUME NEW q \in children, q \in DOMAIN r PROVE FALSE
    OBVIOUS
  <2>1. q \in Paths \ {<<>>} /\ Front(q) \in fresh
    BY <1>3
  <2>2. ~r[Front(q)].loaded
    BY <2>1
  <2>. QED  BY <1>4, <2>1, <2>2
<1>6. \A q \in fresh : new(q) = [r[q] EXCEPT !.loaded = TRUE] /\ q \in DOMAIN r
  <2>1. fresh \subseteq DOMAIN r
    OBVIOUS
  <2>. HIDE DEF fresh, children
  <2>. QED  BY <1>5, <2>1
<1>7. \A q \in children : new(q) = NewRow
  BY <1>5, <1>6
<1>8. \A q \in DOMAIN r \ fresh : new(q) = r[q]
  BY <1>5
<1>. HIDE DEF new, children, m
<1>9. DOMAIN m = DOMAIN r \cup children /\ \A q \in DOMAIN m : m[q] = new(q)
  BY <1>1
<1>10. ASSUME NEW q \in DOMAIN r
       PROVE  /\ m[q] \in [loaded : BOOLEAN, expanded : BOOLEAN]
              /\ m[q].expanded = r[q].expanded
              /\ m[q].loaded <=> r[q].loaded \/ q \in P
  <2>1. CASE q \in fresh
    <3>1. m[q] = [r[q] EXCEPT !.loaded = TRUE]
      BY <1>6, <1>9, <2>1
    <3>. QED  BY <1>4, <2>1, <3>1
  <2>2. CASE q \notin fresh
    <3>1. m[q] = r[q]
      BY <1>8, <1>9, <2>2
    <3>. QED  BY <1>4, <2>2, <3>1
  <2>. QED  BY <2>1, <2>2
<1>11. ASSUME NEW q \in children
       PROVE  /\ q \in Paths \ {<<>>} /\ m[q] = NewRow /\ Front(q) \in P /\ Front(q) \in DOMAIN r
              /\ ~r[Front(q)].loaded /\ q \notin DOMAIN r /\ Addressed(v, d, q)
  <2>1. q \in Paths \ {<<>>} /\ Front(q) \in fresh /\ Addressed(v, d, q)
    BY <1>3
  <2>2. m[q] = NewRow
    BY <1>7, <1>9
  <2>. QED  BY <1>5, <2>1, <2>2
<1>12. ASSUME NEW q \in Paths \ {<<>>}
       PROVE  q \in DOMAIN m <=> Front(q) \in DOMAIN m /\ m[Front(q)].loaded /\ Addressed(v, d, q)
  <2>1. CASE q \in DOMAIN r
    <3>1. Front(q) \in DOMAIN r /\ r[Front(q)].loaded /\ Addressed(v, d, q)
      BY <1>4, <2>1
    <3>. QED  BY <1>9, <1>10, <2>1, <3>1
  <2>2. CASE q \in children
    <3>1. m[Front(q)].loaded /\ Front(q) \in DOMAIN m
      BY <1>9, <1>10, <1>11, <2>2
    <3>. QED  BY <1>9, <1>11, <2>2, <3>1
  <2>3. CASE q \notin DOMAIN r /\ q \notin children
    <3>. SUFFICES ASSUME Front(q) \in DOMAIN m, m[Front(q)].loaded, Addressed(v, d, q)
                  PROVE  FALSE
      BY <1>9, <2>3
    <3>1. CASE Front(q) \in DOMAIN r
      <4>1. ~r[Front(q)].loaded
        BY <1>4, <2>3, <3>1
      <4>2. Front(q) \in P
        BY <1>10, <3>1, <4>1
      <4>. QED  BY <1>3, <2>3, <4>1, <4>2
    <3>2. CASE Front(q) \in children
      BY <1>11, <3>2 DEF NewRow
    <3>. QED  BY <1>9, <3>1, <3>2
  <2>. QED  BY <2>1, <2>2, <2>3
<1>. HIDE DEF fresh
<1>13. \A q \in DOMAIN m : m[q] \in [loaded : BOOLEAN, expanded : BOOLEAN]
  <2>1. NewRow \in [loaded : BOOLEAN, expanded : BOOLEAN]
    BY DEF NewRow
  <2>. QED  BY <1>9, <1>10, <1>11, <2>1
<1>14. m = [q \in DOMAIN m |-> m[q]]
  BY <1>1
<1>15. RowsMirror(v, d, m)
  BY <1>4, <1>9, <1>11, <1>12, <1>13, <1>14 DEF RowsMirror
<1>. QED  BY <1>9, <1>10, <1>11, <1>15 DEF m

(* Loading keeps every row's lookahead.                                    *)
LEMMA LoadRowsLooksAhead ==
    ASSUME NEW v \in Versions, NEW d, WellFormed(v, d), NEW r, RowsMirror(v, d, r),
           NEW P \in SUBSET DOMAIN r, NEW p \in DOMAIN LoadRows(v, d, r, P),
           p \in DOMAIN r => LooksAhead(r, p)
    PROVE  LooksAhead(LoadRows(v, d, r, P), p)
<1>. DEFINE m == LoadRows(v, d, r, P)
<1>1. /\ RowsMirror(v, d, m) /\ DOMAIN r \subseteq DOMAIN m
      /\ \A q \in DOMAIN r : /\ m[q].expanded = r[q].expanded
                             /\ m[q].loaded <=> r[q].loaded \/ q \in P
      /\ \A q \in DOMAIN m \ DOMAIN r : /\ q # <<>> /\ m[q] = NewRow
                                        /\ Front(q) \in P /\ ~r[Front(q)].loaded
  BY LoadRowsBy
<1>. HIDE DEF m
<1>2. CASE p \in DOMAIN r
  BY <1>1, <1>2 DEF LooksAhead, m
<1>3. CASE p \notin DOMAIN r
  BY <1>1, <1>3 DEF LooksAhead, NewRow, m
<1>. QED  BY <1>2, <1>3

LEMMA LoadRowsInv ==
    ASSUME NEW v \in Versions, NEW d, WellFormed(v, d), NEW r, RowsInv(v, d, r),
           NEW P \in SUBSET DOMAIN r
    PROVE  RowsInv(v, d, LoadRows(v, d, r, P))
<1>1. RowsMirror(v, d, r) /\ r[<<>>].loaded /\ <<>> \in DOMAIN r
  BY DEF RowsInv, RowsMirror
<1>2. RowsMirror(v, d, LoadRows(v, d, r, P)) /\ LoadRows(v, d, r, P)[<<>>].loaded
  BY <1>1, LoadRowsBy
<1>3. \A p \in DOMAIN LoadRows(v, d, r, P) : LooksAhead(LoadRows(v, d, r, P), p)
  BY <1>1, LoadRowsLooksAhead DEF RowsInv
<1>. QED  BY <1>2, <1>3 DEF RowsInv

(* A row that expands looks ahead (expandRow), whatever it knew before.    *)
LEMMA ExpandRowBy ==
    ASSUME NEW v \in Versions, NEW d, WellFormed(v, d), NEW r, RowsMirror(v, d, r),
           NEW p \in DOMAIN r, \A o \in DOMAIN r \ {p} : LooksAhead(r, o)
    PROVE  LET m == ExpandRow(v, d, r, p) IN
           /\ RowsMirror(v, d, m)
           /\ \A o \in DOMAIN m : LooksAhead(m, o)
           /\ DOMAIN r \subseteq DOMAIN m
           /\ m[p].loaded /\ (~IsLeaf(v, p) => m[p].expanded)
           /\ \A q \in DOMAIN r : r[q].loaded => m[q].loaded
           /\ \A q \in DOMAIN r \ {p} : m[q].expanded = r[q].expanded
           /\ \A q \in DOMAIN m \ DOMAIN r : ~m[q].expanded
           /\ r[p].expanded => m[p].expanded
<1>. DEFINE l == LoadRows(v, d, r, {p})
            e == [l EXCEPT ![p].expanded = TRUE]
            C == RowChildren(l, p)
            m == ExpandRow(v, d, r, p)
<1>1. {p} \in SUBSET DOMAIN r
  OBVIOUS
<1>2. /\ RowsMirror(v, d, l) /\ DOMAIN r \subseteq DOMAIN l
      /\ \A q \in DOMAIN r : /\ l[q].expanded = r[q].expanded
                             /\ l[q].loaded <=> r[q].loaded \/ q = p
      /\ \A q \in DOMAIN l \ DOMAIN r : l[q] = NewRow
  BY <1>1, LoadRowsBy
<1>3. \A o \in DOMAIN l \ {p} : LooksAhead(l, o)
  <2>1. \A o \in DOMAIN l : (o \in DOMAIN r => LooksAhead(r, o)) => LooksAhead(l, o)
    BY <1>1, LoadRowsLooksAhead
  <2>. HIDE DEF l
  <2>. QED  BY <2>1
<1>4. p \in Paths /\ Resolves(v, p) /\ p \in DOMAIN l /\ l[p].loaded
  BY <1>2, RowsResolve
<1>5. CASE IsLeaf(v, p)
  <2>1. m = l
    BY <1>5 DEF ExpandRow
  <2>2. LooksAhead(l, p)
    <3>. SUFFICES ASSUME NEW q \in DOMAIN l \ {<<>>}, Front(q) = p PROVE FALSE
      BY <1>4 DEF LooksAhead
    <3>1. q \in Paths \ {<<>>} /\ Resolves(v, q)
      BY <1>2, RowsResolve
    <3>2. TypeAt(v, p) \in {"object", "array", "map"}
      BY <3>1, ParentResolves
    <3>. QED  BY <1>5, <3>2 DEF IsLeaf, Structures
  <2>3. \A o \in DOMAIN l : LooksAhead(l, o)
    <3>. HIDE DEF l
    <3>. QED  BY <1>3, <2>2
  <2>. HIDE DEF l, m
  <2>. QED  BY <1>2, <1>4, <1>5, <2>1, <2>3 DEF m, NewRow
<1>6. CASE ~IsLeaf(v, p)
  <2>1. m = LoadRows(v, d, e, C)
    BY <1>6 DEF ExpandRow
  <2>. HIDE DEF l
  <2>2. /\ DOMAIN e = DOMAIN l
        /\ e[p] = [l[p] EXCEPT !.expanded = TRUE]
        /\ \A q \in DOMAIN l \ {p} : e[q] = l[q]
        /\ l[p] \in [loaded : BOOLEAN, expanded : BOOLEAN]
        /\ e = [q \in DOMAIN e |-> e[q]]
    <3>1. /\ l = [q \in DOMAIN l |-> l[q]] /\ p \in DOMAIN l
          /\ l[p] \in [loaded : BOOLEAN, expanded : BOOLEAN]
      BY <1>2, <1>4 DEF RowsMirror
    <3>. DEFINE x == [l[p] EXCEPT !.expanded = TRUE]
    <3>2. e = [q \in DOMAIN l |-> IF q = p THEN x ELSE l[q]]
      <4>. HIDE DEF x
      <4>1. [l EXCEPT ![p] = x] = [q \in DOMAIN l |-> IF q = p THEN x ELSE l[q]]
        BY <3>1
      <4>2. e = [l EXCEPT ![p] = x]
        BY DEF x
      <4>. QED  BY <4>1, <4>2
    <3>. HIDE DEF x, e
    <3>3. /\ DOMAIN e = DOMAIN l /\ e[p] = x /\ \A q \in DOMAIN l \ {p} : e[q] = l[q]
          /\ e = [q \in DOMAIN e |-> e[q]]
      BY <3>1, <3>2
    <3>. QED  BY <3>1, <3>3 DEF x
  <2>3. e[p].loaded /\ e[p].expanded /\ e[p] \in [loaded : BOOLEAN, expanded : BOOLEAN]
    BY <1>4, <2>2
  <2>. HIDE DEF e
  <2>4. \A q \in DOMAIN l : e[q].loaded = l[q].loaded
    BY <1>4, <2>2, <2>3
  <2>5. RowsMirror(v, d, e)
    BY <1>2, <2>2, <2>3, <2>4 DEF RowsMirror
  <2>6. C = {q \in DOMAIN e \ {<<>>} : Front(q) = p} /\ C \in SUBSET DOMAIN e
    BY <1>2, <1>4, <2>2, RowChildrenBy DEF RowsMirror
  <2>. HIDE DEF C
  <2>. DEFINE f == LoadRows(v, d, e, C)
  <2>7. /\ RowsMirror(v, d, f) /\ DOMAIN e \subseteq DOMAIN f
        /\ \A q \in DOMAIN e : /\ f[q].expanded = e[q].expanded
                               /\ f[q].loaded <=> e[q].loaded \/ q \in C
        /\ \A q \in DOMAIN f \ DOMAIN e : /\ q # <<>> /\ f[q] = NewRow
                                          /\ Front(q) \in C /\ ~e[Front(q)].loaded
    BY <2>5, <2>6, LoadRowsBy
  <2>8. \A o \in DOMAIN f : (o \in DOMAIN e => LooksAhead(e, o)) => LooksAhead(f, o)
    BY <2>5, <2>6, LoadRowsLooksAhead
  <2>. HIDE DEF f
  <2>9. \A o \in DOMAIN e \ {p} : LooksAhead(e, o)
    BY <1>3, <2>2, <2>4 DEF LooksAhead
  <2>10. LooksAhead(f, p)
    <3>1. f[p].loaded
      BY <1>4, <2>2, <2>3, <2>7
    <3>2. ASSUME NEW q \in DOMAIN f \ {<<>>}, Front(q) = p PROVE f[q].loaded
      <4>1. q \in DOMAIN e
        BY <2>3, <2>7, <3>2
      <4>2. q \in C
        BY <2>6, <3>2, <4>1
      <4>. QED  BY <2>7, <4>1, <4>2
    <3>. QED  BY <3>1, <3>2 DEF LooksAhead
  <2>11. \A o \in DOMAIN f : LooksAhead(f, o)
    BY <2>8, <2>9, <2>10
  <2>12. m = f
    BY <2>1 DEF f
  <2>13. f[p].loaded /\ f[p].expanded
    BY <1>4, <2>2, <2>3, <2>7
  <2>14. DOMAIN r \subseteq DOMAIN f /\ \A q \in DOMAIN r : r[q].loaded => f[q].loaded
    BY <1>2, <2>2, <2>4, <2>7
  <2>15. /\ \A q \in DOMAIN r \ {p} : f[q].expanded = r[q].expanded
         /\ \A q \in DOMAIN f \ DOMAIN r : ~f[q].expanded
    BY <1>2, <2>2, <2>7 DEF NewRow
  <2>. HIDE DEF m
  <2>. QED  BY <2>7, <2>11, <2>12, <2>13, <2>14, <2>15 DEF m
<1>. QED  BY <1>5, <1>6

LEMMA ExpandRowInv ==
    ASSUME NEW v \in Versions, NEW d, WellFormed(v, d), NEW r, RowsInv(v, d, r),
           NEW p \in DOMAIN r
    PROVE  /\ RowsInv(v, d, ExpandRow(v, d, r, p))
           /\ DOMAIN r \subseteq DOMAIN ExpandRow(v, d, r, p)
           /\ KeepsOpen(r, ExpandRow(v, d, r, p))
           /\ ~IsLeaf(v, p) => ExpandRow(v, d, r, p)[p].expanded
<1>1. RowsMirror(v, d, r) /\ r[<<>>].loaded /\ <<>> \in DOMAIN r
      /\ \A o \in DOMAIN r \ {p} : LooksAhead(r, o)
  BY DEF RowsInv, RowsMirror
<1>. DEFINE m == ExpandRow(v, d, r, p)
<1>2. /\ RowsMirror(v, d, m) /\ \A o \in DOMAIN m : LooksAhead(m, o)
      /\ DOMAIN r \subseteq DOMAIN m
      /\ ~IsLeaf(v, p) => m[p].expanded
      /\ \A q \in DOMAIN r : r[q].loaded => m[q].loaded
      /\ \A q \in DOMAIN r \ {p} : m[q].expanded = r[q].expanded
      /\ r[p].expanded => m[p].expanded
  BY <1>1, ExpandRowBy
<1>. HIDE DEF m
<1>. QED  BY <1>1, <1>2 DEF RowsInv, KeepsOpen, m

LEMMA LoadRowsKeepsOpen ==
    ASSUME NEW v \in Versions, NEW d, WellFormed(v, d), NEW r, RowsMirror(v, d, r),
           NEW P \in SUBSET DOMAIN r
    PROVE  KeepsOpen(r, LoadRows(v, d, r, P))
BY LoadRowsBy DEF KeepsOpen

LEMMA LoadRowsUnfoldsNothing ==
    ASSUME NEW v \in Versions, NEW d, WellFormed(v, d), NEW r, RowsMirror(v, d, r),
           NEW P \in SUBSET DOMAIN r
    PROVE  KeepsOpen(LoadRows(v, d, r, P), r)
<1>1. \A q \in DOMAIN LoadRows(v, d, r, P) \ DOMAIN r : LoadRows(v, d, r, P)[q] = NewRow
  BY LoadRowsBy
<1>2. \A q \in DOMAIN r : LoadRows(v, d, r, P)[q].expanded = r[q].expanded
  BY LoadRowsBy
<1>. QED  BY <1>1, <1>2 DEF KeepsOpen, NewRow

(* The tree a compose view opens with.                                     *)
LEMMA OpenedRowsInv ==
    ASSUME NEW v \in Versions, NEW d, WellFormed(v, d)
    PROVE  RowsInv(v, d, OpenedRows(v, d))
<1>. DEFINE r == [p \in {<<>>} |-> NewRow]
<1>1. DOMAIN r = {<<>>} /\ r[<<>>] = NewRow /\ r = [q \in DOMAIN r |-> r[q]]
  OBVIOUS
<1>2. <<>> \in Paths
  BY DEF Paths
<1>. HIDE DEF r
<1>3. \A q \in Paths \ {<<>>} : q \notin DOMAIN r /\ ~(Front(q) \in DOMAIN r /\ r[Front(q)].loaded)
  BY <1>1 DEF NewRow
<1>4. RowsMirror(v, d, r)
  <2>1. NewRow \in [loaded : BOOLEAN, expanded : BOOLEAN]
    BY DEF NewRow
  <2>2. \A q \in DOMAIN r : r[q] \in [loaded : BOOLEAN, expanded : BOOLEAN]
    BY <1>1, <2>1
  <2>. QED  BY <1>1, <1>2, <1>3, <2>2 DEF RowsMirror
<1>5. /\ RowsMirror(v, d, ExpandRow(v, d, r, <<>>))
      /\ \A o \in DOMAIN ExpandRow(v, d, r, <<>>) : LooksAhead(ExpandRow(v, d, r, <<>>), o)
      /\ ExpandRow(v, d, r, <<>>)[<<>>].loaded
  BY <1>1, <1>4, ExpandRowBy
<1>. QED  BY <1>5 DEF RowsInv, OpenedRows, r

(* A row is beneath loaded rows only, and the items and keys on the way to  *)
(* it are held.                                                            *)
LEMMA RowsAnchor ==
    ASSUME NEW v \in Versions, NEW d, NEW r, RowsMirror(v, d, r), NEW p \in DOMAIN r
    PROVE  /\ \A n \in 0..Len(p) : SubSeq(p, 1, n) \in DOMAIN r
           /\ Anchored(d, p)
<1>. DEFINE N == Len(p)
            T == {n \in Nat : n <= N => SubSeq(p, 1, N - n) \in DOMAIN r}
<1>1. p \in Paths /\ N \in Nat /\ N = Len(p) /\ p \in DOMAIN r
  BY DEF RowsMirror, Paths
<1>. HIDE DEF N
<1>2. 0 \in T
  <2>1. SubSeq(p, 1, Len(p)) = p
    BY <1>1, Start DEF Paths
  <2>2. N - 0 = Len(p)
    BY <1>1
  <2>. QED  BY <1>1, <2>1, <2>2
<1>3. ASSUME NEW n \in Nat, n \in T PROVE n + 1 \in T
  <2>. SUFFICES ASSUME n + 1 <= N PROVE SubSeq(p, 1, N - (n + 1)) \in DOMAIN r
    OBVIOUS
  <2>. DEFINE a == SubSeq(p, 1, N - n)
  <2>1. a \in DOMAIN r
    BY <1>1, <1>3
  <2>2. N - n \in 0..N /\ N - n # 0 /\ N - (n + 1) = (N - n) - 1
    BY <1>1
  <2>3. a \in Paths \ {<<>>} /\ Len(a) = N - n
    <3>1. N - n \in 0..Len(p) /\ p \in Seq(Segments)
      BY <1>1, <2>2 DEF Paths
    <3>2. a \in Seq(Segments) /\ Len(a) = N - n
      BY <3>1, Start
    <3>3. a # <<>>
      BY <2>2, <3>1, Start
    <3>. QED  BY <3>2, <3>3 DEF Paths
  <2>4. Front(a) = SubSeq(p, 1, N - (n + 1))
    <3>1. (N - n) - 1 \in 0..(N - n)
      BY <2>2
    <3>2. SubSeq(SubSeq(p, 1, N - n), 1, (N - n) - 1) = SubSeq(p, 1, (N - n) - 1)
      BY <1>1, <2>2, <3>1, StartOfStart DEF Paths
    <3>. QED  BY <2>2, <2>3, <3>2 DEF Front
  <2>. HIDE DEF a
  <2>. QED  BY <2>1, <2>3, <2>4 DEF RowsMirror
<1>4. Nat \subseteq T
  <2>. HIDE DEF T
  <2>. QED  BY <1>2, <1>3, Induction
<1>5. ASSUME NEW n \in 0..N PROVE SubSeq(p, 1, n) \in DOMAIN r
  <2>1. N - n \in Nat /\ N - n <= N /\ N - (N - n) = n
    BY <1>1
  <2>2. N - n \in T
    BY <1>4, <2>1
  <2>. QED  BY <2>1, <2>2
<1>6. ASSUME NEW q \in Along(p), ~IsField(Last(q)) PROVE q \in DOMAIN d
  <2>1. q \in Paths \ {<<>>} /\ Len(q) \in 1..N /\ q = SubSeq(p, 1, Len(q))
    BY <1>1, AlongPosition
  <2>2. q \in DOMAIN r
    <3>1. Len(q) \in 0..N
      BY <2>1
    <3>. QED  BY <1>5, <2>1, <3>1
  <2>. QED  BY <1>6, <2>1, <2>2 DEF RowsMirror, Addressed
<1>. QED  BY <1>1, <1>5, <1>6 DEF Anchored

-----------------------------------------------------------------------------
(* The rows after a mutation of the Draft.                                 *)

(* Rows tell Drafts apart by their items and keys only.                    *)
LEMMA SameEntriesRows ==
    ASSUME NEW v, NEW d, NEW e, NEW r, RowsInv(v, d, r),
           \A q \in Paths \ {<<>>} : ~IsField(Last(q)) => (q \in DOMAIN d <=> q \in DOMAIN e)
    PROVE  RowsInv(v, e, r)
<1>1. \A q \in Paths \ {<<>>} : Addressed(v, d, q) <=> Addressed(v, e, q)
  BY DEF Addressed
<1>. QED  BY <1>1 DEF RowsInv, RowsMirror

(* A value set at a position whose items and keys are held.                *)
LEMMA SetKeepsRows ==
    ASSUME NEW v, NEW d, NEW e, NEW r, RowsInv(v, d, r), NEW p \in Paths, Anchored(d, p),
           DOMAIN e = DOMAIN d \cup Along(p)
    PROVE  RowsInv(v, e, r)
<1>1. \A q \in Along(p) : ~IsField(Last(q)) => q \in DOMAIN d
  BY DEF Anchored
<1>. QED  BY <1>1, SameEntriesRows

(* The row of a new item or key (insertInstantiatedRow).                   *)
LEMMA InsertRowInv ==
    ASSUME NEW v \in Versions, NEW d, WellFormed(v, d), NEW e, WellFormed(v, e),
           NEW r, RowsInv(v, d, r), NEW p \in DOMAIN r, r[p].loaded,
           NEW q \in Paths \ {<<>>}, Front(q) = p, Resolves(v, q), ~IsField(Last(q)),
           q \notin DOMAIN d, DOMAIN e = DOMAIN d \cup Along(q)
    PROVE  /\ RowsInv(v, e, InsertRow(v, e, r, p, q))
           /\ KeepsOpen(r, InsertRow(v, e, r, p, q)) /\ q \in DOMAIN InsertRow(v, e, r, p, q)
           /\ ~IsLeaf(v, p) => InsertRow(v, e, r, p, q)[p].expanded
<1>. DEFINE i == [o \in DOMAIN r \cup {q} |-> IF o \in DOMAIN r THEN r[o] ELSE NewRow]
            f == LoadRows(v, e, i, {q})
<1>1. RowsMirror(v, d, r) /\ r[<<>>].loaded /\ \A o \in DOMAIN r : LooksAhead(r, o)
  BY DEF RowsInv
<1>2. /\ r = [o \in DOMAIN r |-> r[o]] /\ DOMAIN r \subseteq Paths /\ <<>> \in DOMAIN r
      /\ \A o \in DOMAIN r : r[o] \in [loaded : BOOLEAN, expanded : BOOLEAN]
      /\ \A o \in Paths \ {<<>>} :
           o \in DOMAIN r <=> Front(o) \in DOMAIN r /\ r[Front(o)].loaded /\ Addressed(v, d, o)
  BY <1>1 DEF RowsMirror
<1>3. p \in Paths /\ Anchored(d, p)
  BY <1>1, <1>2, RowsAnchor
<1>4. q \notin DOMAIN r
  BY <1>2 DEF Addressed
<1>5. \A o \in Paths \ {<<>>} : Addressed(v, e, o) <=> Addressed(v, d, o) \/ o = q
  <2>1. Along(q) = Along(p) \cup {q}
    BY AlongIsStarts DEF Paths
  <2>2. \A o \in Along(p) : IsField(Last(o)) \/ o \in DOMAIN d
    BY <1>3 DEF Anchored
  <2>. QED  BY <2>1, <2>2 DEF Addressed
<1>6. /\ DOMAIN i = DOMAIN r \cup {q} /\ i[q] = NewRow /\ \A o \in DOMAIN r : i[o] = r[o]
      /\ i = [o \in DOMAIN i |-> i[o]]
  BY <1>4
<1>. HIDE DEF i
<1>7. RowsMirror(v, e, i)
  <2>1. NewRow \in [loaded : BOOLEAN, expanded : BOOLEAN] /\ NewRow.loaded = FALSE
    BY DEF NewRow
  <2>2. DOMAIN i \subseteq Paths /\ <<>> \in DOMAIN i
    BY <1>2, <1>6
  <2>3. \A o \in DOMAIN i : i[o] \in [loaded : BOOLEAN, expanded : BOOLEAN]
    BY <1>2, <1>6, <2>1
  <2>4. ASSUME NEW o \in Paths \ {<<>>}
        PROVE  o \in DOMAIN i <=> Front(o) \in DOMAIN i /\ i[Front(o)].loaded /\ Addressed(v, e, o)
    <3>1. CASE o = q
      BY <1>5, <1>6, <3>1
    <3>2. CASE o # q /\ Front(o) = q
      <4>1. o \notin DOMAIN i
        BY <1>2, <1>4, <1>6, <3>2
      <4>. QED  BY <1>6, <2>1, <3>2, <4>1
    <3>3. CASE o # q /\ Front(o) # q
      BY <1>2, <1>5, <1>6, <3>3
    <3>. QED  BY <3>1, <3>2, <3>3
  <2>. QED  BY <1>6, <2>2, <2>3, <2>4 DEF RowsMirror
<1>8. \A o \in DOMAIN i \ {p} : LooksAhead(i, o)
  <2>1. LooksAhead(i, q)
    BY <1>6 DEF LooksAhead, NewRow
  <2>2. \A o \in DOMAIN r \ {p} : LooksAhead(i, o)
    BY <1>1, <1>6 DEF LooksAhead
  <2>. QED  BY <1>6, <2>1, <2>2
<1>9. {q} \in SUBSET DOMAIN i
  BY <1>6
<1>10. /\ RowsMirror(v, e, f) /\ DOMAIN i \subseteq DOMAIN f
       /\ \A o \in DOMAIN i : i[o].loaded => f[o].loaded
       /\ \A o \in DOMAIN i : f[o].expanded = i[o].expanded
       /\ \A o \in DOMAIN f \ DOMAIN i : o # p
  BY <1>6, <1>7, <1>9, LoadRowsBy
<1>11. \A o \in DOMAIN f : (o \in DOMAIN i => LooksAhead(i, o)) => LooksAhead(f, o)
  BY <1>7, <1>9, LoadRowsLooksAhead
<1>12. InsertRow(v, e, r, p, q) = ExpandRow(v, e, f, p)
  BY DEF InsertRow, i
<1>. HIDE DEF f
<1>13. p \in DOMAIN f /\ \A o \in DOMAIN f \ {p} : LooksAhead(f, o)
  BY <1>6, <1>8, <1>10, <1>11
<1>14. f[<<>>].loaded /\ <<>> \in DOMAIN f
  BY <1>1, <1>2, <1>6, <1>10
<1>. DEFINE m == ExpandRow(v, e, f, p)
<1>15. /\ RowsMirror(v, e, m) /\ \A o \in DOMAIN m : LooksAhead(m, o)
       /\ DOMAIN f \subseteq DOMAIN m /\ (~IsLeaf(v, p) => m[p].expanded)
       /\ \A o \in DOMAIN f : f[o].loaded => m[o].loaded
       /\ \A o \in DOMAIN f \ {p} : m[o].expanded = f[o].expanded
       /\ f[p].expanded => m[p].expanded
  BY <1>10, <1>13, ExpandRowBy
<1>. HIDE DEF m
<1>16. RowsInv(v, e, m)
  BY <1>14, <1>15 DEF RowsInv
<1>17. KeepsOpen(r, m) /\ q \in DOMAIN m
  BY <1>6, <1>10, <1>15 DEF KeepsOpen
<1>. QED  BY <1>12, <1>15, <1>16, <1>17 DEF m

(* What stays of the rows when the one at p is removed, and where.         *)
Besides(r, p) == {q \in DOMAIN r : ~IsAtOrBeneath(q, p)}

IsRemoval(r, p, m) ==
    /\ DOMAIN m = {Renumbered(p, o) : o \in Besides(r, p)}
    /\ \A o \in Besides(r, p) : m[Renumbered(p, o)] = r[o]
    /\ m = [q \in DOMAIN m |-> m[q]]

LEMMA RemoveRowBy ==
    ASSUME NEW v \in Versions, NEW d, NEW r, RowsInv(v, d, r), NEW p \in DOMAIN r, p # <<>>
    PROVE  IsRemoval(r, p, RemoveRow(r, p))
<1>. DEFINE kept == Besides(r, p)
            m == RemoveRow(r, p)
<1>1. kept \subseteq Paths /\ p \in Paths \ {<<>>} /\ \A q \in kept : ~IsAtOrBeneath(q, p)
  BY DEF RowsInv, RowsMirror, Besides
<1>2. m = [q \in {Renumbered(p, o) : o \in kept} |->
             r[CHOOSE o \in kept : Renumbered(p, o) = q]]
  BY DEF RemoveRow, Besides
<1>. HIDE DEF kept, m
<1>3. \A o, q \in kept : Renumbered(p, o) = Renumbered(p, q) => o = q
  BY <1>1, RenumberedApart
<1>4. \A o \in kept : (CHOOSE x \in kept : Renumbered(p, x) = Renumbered(p, o)) = o
  BY <1>3
<1>5. DOMAIN m = {Renumbered(p, o) : o \in kept} /\ m = [q \in DOMAIN m |-> m[q]]
  BY <1>2
<1>6. ASSUME NEW o \in kept PROVE m[Renumbered(p, o)] = r[o]
  <2>1. Renumbered(p, o) \in DOMAIN m
    BY <1>5
  <2>2. m[Renumbered(p, o)] = r[CHOOSE x \in kept : Renumbered(p, x) = Renumbered(p, o)]
    BY <1>2, <1>5, <2>1
  <2>. QED  BY <1>4, <2>2
<1>. QED  BY <1>5, <1>6 DEF kept, m, IsRemoval

(* The rows after a removed item or key (removeInstantiatedRow).           *)
LEMMA RemoveRowInv ==
    ASSUME NEW v \in Versions, NEW d, WellFormed(v, d), NEW r, RowsInv(v, d, r),
           NEW p \in DOMAIN r, p # <<>>, p \in DOMAIN d, ~IsField(Last(p))
    PROVE  RowsInv(v, Unset(d, p), RemoveRow(r, p))
<1>. DEFINE e == Unset(d, p)
            kept == Besides(r, p)
            m == RemoveRow(r, p)
<1>1. /\ r = [o \in DOMAIN r |-> r[o]] /\ DOMAIN r \subseteq Paths /\ <<>> \in DOMAIN r
      /\ r[<<>>].loaded /\ \A o \in DOMAIN r : LooksAhead(r, o)
      /\ \A o \in DOMAIN r : r[o] \in [loaded : BOOLEAN, expanded : BOOLEAN]
      /\ \A o \in Paths \ {<<>>} :
           o \in DOMAIN r <=> Front(o) \in DOMAIN r /\ r[Front(o)].loaded /\ Addressed(v, d, o)
  BY DEF RowsInv, RowsMirror
<1>2. p \in Paths \ {<<>>} /\ IsDraft(v, d)
  BY <1>1 DEF WellFormed
<1>0. IsRemoval(r, p, m)
  <2>. HIDE DEF m
  <2>. QED  BY RemoveRowBy DEF m
<1>4. /\ DOMAIN m = {Renumbered(p, o) : o \in kept}
      /\ \A o \in kept : m[Renumbered(p, o)] = r[o]
      /\ m = [q \in DOMAIN m |-> m[q]]
  <2>. HIDE DEF kept, m
  <2>. QED  BY <1>0 DEF IsRemoval, kept
<1>. USE DEF Besides
<1>3. \A o, q \in kept : Renumbered(p, o) = Renumbered(p, q) => o = q
  BY <1>1, <1>2, RenumberedApart
<1>5. ASSUME NEW o \in kept, o # <<>>
      PROVE  /\ o \in Paths \ {<<>>} /\ Front(o) \in kept /\ r[Front(o)].loaded
             /\ Addressed(v, d, o)
  <2>1. o \in Paths \ {<<>>} /\ Front(o) \in DOMAIN r /\ r[Front(o)].loaded /\ Addressed(v, d, o)
    BY <1>1, <1>5
  <2>2. ~IsAtOrBeneath(Front(o), p)
    BY <1>2, <2>1, BeneathFront DEF Paths
  <2>. QED  BY <2>1, <2>2
<1>6. <<>> \in kept /\ Renumbered(p, <<>>) = <<>>
  <2>1. ~IsAtOrBeneath(<<>>, p)
    BY <1>2, BeneathOrder DEF Paths
  <2>2. <<>> \in Paths /\ Len(<<>>) = 0
    BY DEF Paths
  <2>3. Renumbered(p, <<>>) \in Paths /\ Len(Renumbered(p, <<>>)) = 0
    BY <1>2, <2>2, RenumberedBy
  <2>. QED  BY <1>1, <2>1, <2>3 DEF Paths
<1>7. \A o \in kept : o \in Paths /\ o \in DOMAIN r /\ ~IsAtOrBeneath(o, p)
  BY <1>1
<1>. HIDE DEF kept, m
<1>8. ASSUME NEW o \in kept, o # <<>>
      PROVE  /\ Renumbered(p, o) \in Paths \ {<<>>}
             /\ Front(Renumbered(p, o)) = Renumbered(p, Front(o))
             /\ Addressed(v, e, Renumbered(p, o))
  <2>1. o \in Paths \ {<<>>} /\ Addressed(v, d, o) /\ ~IsAtOrBeneath(o, p)
    BY <1>5, <1>7, <1>8
  <2>2. /\ Renumbered(p, o) \in Paths \ {<<>>}
        /\ Front(Renumbered(p, o)) = Renumbered(p, Front(o))
        /\ IsField(Last(Renumbered(p, o))) <=> IsField(Last(o))
    BY <1>2, <2>1, RenumberedBy, RenumberedFront
  <2>3. Resolves(v, Renumbered(p, o))
    BY <1>2, <2>1, RenumberedKinds DEF Addressed, Resolves
  <2>4. CASE IsField(Last(o))
    BY <2>2, <2>3, <2>4 DEF Addressed
  <2>5. CASE ~IsField(Last(o))
    <3>1. o \in Kept(d, p)
      BY <2>1, <2>5 DEF Addressed, Kept
    <3>2. Renumbered(p, o) \in DOMAIN e
      BY <1>2, <2>5, <3>1, EntriesStay
    <3>. QED  BY <2>2, <2>3, <3>2 DEF Addressed
  <2>. QED  BY <2>2, <2>4, <2>5
<1>9. ASSUME NEW q \in Paths \ {<<>>}, NEW x \in kept, Front(q) = Renumbered(p, x),
             r[x].loaded, Addressed(v, e, q)
      PROVE  q \in DOMAIN m
  <2>1. SUFFICES ASSUME TRUE PROVE \E o \in kept : q = Renumbered(p, o)
    BY <1>4
  <2>2. Last(q) \in Segments /\ q = Append(Front(q), Last(q)) /\ Resolves(v, q)
    BY <1>9, FrontLast DEF Addressed, Paths
  <2>3. x \in Paths /\ x \in DOMAIN r /\ ~IsAtOrBeneath(x, p)
    BY <1>7
  <2>4. CASE IsField(Last(q))
    <3>. DEFINE o == Append(x, Last(q))
    <3>1. o \in Paths \ {<<>>} /\ Front(o) = x /\ Last(o) = Last(q)
      BY <2>2, <2>3, Appended DEF Paths
    <3>2. Renumbered(p, o) = q
      <4>1. ~IsItem(Last(q))
        BY <2>2, <2>4, SegmentKinds
      <4>2. Renumbered(p, Append(x, Last(q))) = Append(Renumbered(p, x), Last(q))
        BY <1>2, <2>2, <2>3, <4>1, RenumberedChild
      <4>. QED  BY <1>9, <2>2, <4>2
    <3>3. ~IsAtOrBeneath(o, p)
      <4>1. p # o
        BY <2>4, <3>1
      <4>. QED  BY <1>2, <2>2, <2>3, <4>1, ChildBeneath
    <3>. HIDE DEF o
    <3>4. SchemaPath(o) = SchemaPath(q)
      BY <1>2, <3>1, <3>2, RenumberedKinds
    <3>5. Addressed(v, d, o)
      BY <2>2, <2>4, <3>1, <3>4 DEF Addressed, Resolves
    <3>6. o \in DOMAIN r
      BY <1>1, <1>9, <2>3, <3>1, <3>5
    <3>. QED  BY <3>2, <3>3, <3>6 DEF kept
  <2>5. CASE ~IsField(Last(q))
    <3>1. q \in DOMAIN e
      BY <1>9, <2>5 DEF Addressed
    <3>2. PICK o \in Kept(d, p) : q = Renumbered(p, o)
      BY <1>2, <3>1, LeftByUnset
    <3>3. o \in DOMAIN d /\ ~IsAtOrBeneath(o, p) /\ o \in Paths \ {<<>>} /\ Resolves(v, o)
      BY <1>2 DEF Kept, IsDraft
    <3>4. ~IsAtOrBeneath(Front(o), p) /\ Front(o) \in Paths
      BY <1>2, <3>3, BeneathFront, FrontLast DEF Paths
    <3>5. Renumbered(p, Front(o)) = Renumbered(p, x)
      BY <1>2, <1>9, <3>2, <3>3, RenumberedFront
    <3>6. Front(o) = x
      BY <1>2, <2>3, <3>4, <3>5, RenumberedApart
    <3>7. o \in DOMAIN r
      BY <1>1, <1>9, <2>3, <3>3, <3>6 DEF Addressed
    <3>. QED  BY <3>2, <3>3, <3>7 DEF kept
  <2>. QED  BY <2>4, <2>5
<1>10. ASSUME NEW q \in Paths \ {<<>>}
       PROVE  q \in DOMAIN m <=> Front(q) \in DOMAIN m /\ m[Front(q)].loaded /\ Addressed(v, e, q)
  <2>1. ASSUME q \in DOMAIN m
        PROVE  Front(q) \in DOMAIN m /\ m[Front(q)].loaded /\ Addressed(v, e, q)
    <3>1. PICK o \in kept : q = Renumbered(p, o)
      BY <1>4, <2>1
    <3>2. o # <<>>
      BY <1>6, <3>1
    <3>3. Front(q) = Renumbered(p, Front(o)) /\ Addressed(v, e, q)
      BY <1>8, <3>1, <3>2
    <3>4. Front(o) \in kept /\ r[Front(o)].loaded
      BY <1>5, <3>2
    <3>. QED  BY <1>4, <3>3, <3>4
  <2>2. ASSUME Front(q) \in DOMAIN m, m[Front(q)].loaded, Addressed(v, e, q)
        PROVE  q \in DOMAIN m
    <3>1. PICK x \in kept : Front(q) = Renumbered(p, x)
      BY <1>4, <2>2
    <3>2. r[x].loaded
      BY <1>4, <2>2, <3>1
    <3>. QED  BY <1>9, <2>2, <3>1, <3>2
  <2>. QED  BY <2>1, <2>2
<1>11. DOMAIN m \subseteq Paths /\ <<>> \in DOMAIN m /\ m[<<>>] = r[<<>>]
  <2>1. \A o \in kept : Renumbered(p, o) \in Paths
    BY <1>2, <1>7, RenumberedBy
  <2>. QED  BY <1>4, <1>6, <2>1
<1>12. \A q \in DOMAIN m : m[q] \in [loaded : BOOLEAN, expanded : BOOLEAN]
  BY <1>1, <1>4, <1>7
<1>13. ASSUME NEW o \in kept, NEW q \in DOMAIN m \ {<<>>}, Front(q) = Renumbered(p, o),
              r[o].expanded
       PROVE  m[q].loaded
  <2>1. PICK x \in kept : q = Renumbered(p, x)
    BY <1>4
  <2>2. x # <<>>
    BY <1>6, <2>1
  <2>3. Renumbered(p, Front(x)) = Renumbered(p, o) /\ Front(x) \in kept
    BY <1>5, <1>8, <1>13, <2>1, <2>2
  <2>4. Front(x) = o
    BY <1>3, <2>3
  <2>5. r[x].loaded
    BY <1>1, <1>7, <1>13, <2>2, <2>4 DEF LooksAhead
  <2>. QED  BY <1>4, <2>1, <2>5
<1>14. \A q \in DOMAIN m : LooksAhead(m, q)
  BY <1>1, <1>4, <1>7, <1>13 DEF LooksAhead
<1>15. RowsMirror(v, e, m)
  BY <1>4, <1>10, <1>11, <1>12 DEF RowsMirror
<1>. QED  BY <1>1, <1>11, <1>14, <1>15 DEF RowsInv, m

(* The rows after a field is unset: its row reloads (performUnset).        *)
LEMMA ReloadRowInv ==
    ASSUME NEW v \in Versions, NEW d, WellFormed(v, d), NEW r, RowsInv(v, d, r),
           NEW p \in DOMAIN r, p # <<>>, p \in DOMAIN d, IsField(Last(p))
    PROVE  RowsInv(v, Unset(d, p), ReloadRow(v, Unset(d, p), r, p))
<1>. DEFINE e == Unset(d, p)
<1>1. /\ r = [o \in DOMAIN r |-> r[o]] /\ DOMAIN r \subseteq Paths /\ <<>> \in DOMAIN r
      /\ r[<<>>].loaded /\ \A o \in DOMAIN r : LooksAhead(r, o)
      /\ \A o \in DOMAIN r : r[o] \in [loaded : BOOLEAN, expanded : BOOLEAN]
      /\ \A o \in Paths \ {<<>>} :
           o \in DOMAIN r <=> Front(o) \in DOMAIN r /\ r[Front(o)].loaded /\ Addressed(v, d, o)
  BY DEF RowsInv, RowsMirror
<1>2. /\ p \in Paths \ {<<>>} /\ IsDraft(v, d) /\ DOMAIN d \subseteq Paths \ {<<>>}
      /\ WellFormed(v, e)
  BY <1>1, UnsetIsWellFormed DEF WellFormed, IsDraft
<1>3. ASSUME NEW q \in Paths PROVE Renumbered(p, q) = q
  <2>1. Last(p) = p[Len(p)] /\ Last(p) \in Segments
    BY <1>2, FrontLast DEF Paths
  <2>2. ~IsItem(p[Len(p)])
    BY <2>1, SegmentKinds
  <2>. QED  BY <1>2, <2>2 DEF Renumbered
<1>4. ASSUME NEW q \in Paths \ {<<>>}, ~IsField(Last(q))
      PROVE  q \in DOMAIN e <=> q \in DOMAIN d /\ ~IsAtOrBeneath(q, p)
  <2>1. ASSUME q \in DOMAIN e PROVE q \in DOMAIN d /\ ~IsAtOrBeneath(q, p)
    <3>1. PICK o \in Kept(d, p) : q = Renumbered(p, o)
      BY <1>2, <2>1, LeftByUnset
    <3>. QED  BY <1>2, <1>3, <3>1 DEF Kept
  <2>2. ASSUME q \in DOMAIN d, ~IsAtOrBeneath(q, p) PROVE q \in DOMAIN e
    <3>1. q \in Kept(d, p)
      BY <2>2 DEF Kept
    <3>2. Renumbered(p, q) \in DOMAIN e
      BY <1>2, <1>4, <3>1, EntriesStay
    <3>. QED  BY <1>3, <3>2
  <2>. QED  BY <2>1, <2>2
<1>5. CASE IsLeaf(v, p)
  <2>1. ASSUME NEW q \in Paths \ {<<>>}, ~IsField(Last(q)), q \in DOMAIN d
        PROVE  ~IsAtOrBeneath(q, p)
    <3>1. Resolves(v, q) /\ q # p
      BY <1>2, <2>1 DEF IsDraft
    <3>2. TypeAt(v, p) \notin Structures
      BY <1>5 DEF IsLeaf
    <3>. QED  BY <1>2, <3>1, <3>2, AboveResolves
  <2>2. \A q \in Paths \ {<<>>} : ~IsField(Last(q)) => (q \in DOMAIN d <=> q \in DOMAIN e)
    BY <1>4, <2>1
  <2>3. ReloadRow(v, e, r, p) = r
    BY <1>5 DEF ReloadRow
  <2>. QED  BY <2>2, <2>3, SameEntriesRows
<1>6. CASE ~IsLeaf(v, p)
  <2>. DEFINE left == {o \in DOMAIN r : o = p \/ ~IsAtOrBeneath(o, p)}
              s == [q \in left |-> IF q = p THEN NewRow ELSE r[q]]
              f == LoadRows(v, e, s, {p})
  <2>1. ReloadRow(v, e, r, p) = f
    BY <1>6 DEF ReloadRow
  <2>2. /\ DOMAIN s = left /\ s[p] = NewRow /\ \A q \in left \ {p} : s[q] = r[q]
        /\ s = [q \in DOMAIN s |-> s[q]]
    OBVIOUS
  <2>3. left \subseteq DOMAIN r /\ p \in left /\ <<>> \in left
    <3>1. ~IsAtOrBeneath(<<>>, p)
      BY <1>2, BeneathOrder DEF Paths
    <3>. QED  BY <1>1, <3>1
  <2>4. \A q \in DOMAIN r : q \in left <=> q = p \/ ~IsAtOrBeneath(q, p)
    OBVIOUS
  <2>. HIDE DEF left, s
  <2>5. NewRow \in [loaded : BOOLEAN, expanded : BOOLEAN] /\ ~NewRow.loaded /\ ~NewRow.expanded
    BY DEF NewRow
  <2>6. ASSUME NEW q \in Paths \ {<<>>}
        PROVE  /\ IsAtOrBeneath(q, p) <=> q = p \/ IsAtOrBeneath(Front(q), p)
               /\ Front(p) # p /\ ~IsAtOrBeneath(Front(p), p)
    <3>1. IsAtOrBeneath(q, p) <=> q = p \/ IsAtOrBeneath(Front(q), p)
      BY <1>2, BeneathFront DEF Paths
    <3>2. Len(Front(p)) = Len(p) - 1 /\ Len(p) \in Nat
      BY <1>2, FrontLast DEF Paths
    <3>. QED  BY <3>1, <3>2 DEF IsAtOrBeneath
  <2>7. ASSUME NEW q \in Paths \ {<<>>}
        PROVE  q \in left <=> Front(q) \in left /\ s[Front(q)].loaded /\ Addressed(v, e, q)
    <3>1. ASSUME q \in left PROVE Front(q) \in left /\ s[Front(q)].loaded /\ Addressed(v, e, q)
      <4>1. Front(q) \in DOMAIN r /\ r[Front(q)].loaded /\ Addressed(v, d, q)
        BY <1>1, <2>3, <3>1
      <4>2. ~IsAtOrBeneath(Front(q), p) /\ Front(q) # p
        <5>1. ~IsAtOrBeneath(Front(q), p)
          BY <2>3, <2>4, <2>6, <3>1
        <5>2. IsAtOrBeneath(p, p)
          BY <1>2, BeneathOrder DEF Paths
        <5>. QED  BY <5>1, <5>2
      <4>3. Front(q) \in left /\ s[Front(q)].loaded
        BY <2>2, <2>4, <4>1, <4>2
      <4>4. Addressed(v, e, q)
        <5>1. CASE IsField(Last(q))
          BY <4>1, <5>1 DEF Addressed
        <5>2. CASE ~IsField(Last(q))
          <6>1. ~IsAtOrBeneath(q, p)
            BY <2>3, <2>4, <3>1, <5>2
          <6>. QED  BY <1>4, <4>1, <5>2, <6>1 DEF Addressed
        <5>. QED  BY <5>1, <5>2
      <4>. QED  BY <4>3, <4>4
    <3>2. ASSUME Front(q) \in left, s[Front(q)].loaded, Addressed(v, e, q) PROVE q \in left
      <4>1. Front(q) # p
        BY <2>2, <2>5, <3>2
      <4>2. Front(q) \in DOMAIN r /\ r[Front(q)].loaded /\ ~IsAtOrBeneath(Front(q), p)
        BY <2>2, <2>3, <2>4, <3>2, <4>1
      <4>3. Addressed(v, d, q)
        BY <1>4, <3>2 DEF Addressed
      <4>4. q \in DOMAIN r
        BY <1>1, <4>2, <4>3
      <4>. QED  BY <2>4, <2>6, <4>2, <4>4
    <3>. QED  BY <3>1, <3>2
  <2>8. RowsMirror(v, e, s)
    <3>1. DOMAIN s \subseteq Paths /\ <<>> \in DOMAIN s
      BY <1>1, <2>2, <2>3
    <3>2. \A q \in DOMAIN s : s[q] \in [loaded : BOOLEAN, expanded : BOOLEAN]
      BY <1>1, <2>2, <2>3, <2>5
    <3>. QED  BY <2>2, <2>7, <3>1, <3>2 DEF RowsMirror
  <2>9. /\ RowsMirror(v, e, f) /\ DOMAIN s \subseteq DOMAIN f
        /\ \A q \in DOMAIN s : /\ f[q].expanded = s[q].expanded
                               /\ f[q].loaded <=> s[q].loaded \/ q = p
        /\ \A q \in DOMAIN f \ DOMAIN s : q # <<>> /\ f[q] = NewRow /\ Front(q) = p
    <3>1. {p} \in SUBSET DOMAIN s
      BY <2>2, <2>3
    <3>. QED  BY <1>2, <2>8, <3>1, LoadRowsBy
  <2>. HIDE DEF f
  <2>10. ASSUME NEW o \in DOMAIN f, f[o].expanded
         PROVE  f[o].loaded /\ \A q \in DOMAIN f \ {<<>>} : Front(q) = o => f[q].loaded
    <3>1. o \in DOMAIN s /\ s[o].expanded
      BY <2>5, <2>9, <2>10
    <3>2. o # p /\ o \in DOMAIN r /\ r[o].expanded /\ s[o] = r[o]
      BY <2>2, <2>3, <2>5, <3>1
    <3>3. r[o].loaded /\ \A q \in DOMAIN r \ {<<>>} : Front(q) = o => r[q].loaded
      BY <1>1, <3>2 DEF LooksAhead
    <3>4. ASSUME NEW q \in DOMAIN f \ {<<>>}, Front(q) = o PROVE f[q].loaded
      <4>1. q \in DOMAIN s
        BY <2>9, <3>2, <3>4
      <4>2. CASE q = p
        BY <2>9, <4>1, <4>2
      <4>3. CASE q # p
        <5>1. q \in DOMAIN r /\ s[q] = r[q]
          BY <2>2, <2>3, <4>1, <4>3
        <5>. QED  BY <2>9, <3>3, <3>4, <4>1, <5>1
      <4>. QED  BY <4>2, <4>3
    <3>. QED  BY <2>9, <3>1, <3>2, <3>3, <3>4
  <2>11. \A o \in DOMAIN f : LooksAhead(f, o)
    BY <2>10 DEF LooksAhead
  <2>12. f[<<>>].loaded
    BY <1>1, <1>2, <2>2, <2>3, <2>9
  <2>. QED  BY <2>1, <2>9, <2>11, <2>12 DEF RowsInv
<1>. QED  BY <1>5, <1>6

-----------------------------------------------------------------------------
(* The rows after a walk.                                                  *)

(* One segment further along a walk.                                       *)
WalkPast(v, d, p, expand, n, b) ==
    LET at == SubSeq(p, 1, n - 1)
        loaded == LoadRows(v, d, b, {at})
    IN  IF at \notin DOMAIN b THEN b
        ELSE IF expand /\ SubSeq(p, 1, n) \in DOMAIN loaded
             THEN ExpandRow(v, d, loaded, at)
             ELSE loaded

LEMMA WalkTowardSteps ==
    ASSUME NEW v, NEW d, NEW r, NEW p, Len(p) \in Nat, NEW expand
    PROVE  \E w : /\ WalkToward(v, d, r, p, expand) = w[Len(p)] /\ w[0] = r
                 /\ \A n \in 1..Len(p) : w[n] = WalkPast(v, d, p, expand, n, w[n - 1])
<1>. DEFINE Past(n, b) == WalkPast(v, d, p, expand, n, b)
            N == Len(p)
            Walk(m, f) == f = [n \in 0..m |-> IF n = 0 THEN r ELSE Past(n, f[n - 1])]
            w == CHOOSE f : Walk(N, f)
<1>1. WalkToward(v, d, r, p, expand) = w[N]
  BY DEF WalkToward, WalkPast
<1>. HIDE DEF Past, N
<1>3. N \in Nat
  BY DEF N
<1>4. Walk(N, w)
  <2>. DEFINE T == {m \in Nat : \E f : Walk(m, f)}
  <2>1. 0 \in T
    <3>1. Walk(0, [n \in 0..0 |-> r])
      OBVIOUS
    <3>. QED  BY <3>1
  <2>2. ASSUME NEW m \in Nat, m \in T PROVE m + 1 \in T
    <3>1. PICK f : Walk(m, f)
      BY <2>2
    <3>. DEFINE g == [n \in 0..(m + 1) |-> IF n = m + 1 THEN Past(n, f[m]) ELSE f[n]]
    <3>2. \A n \in 0..m : f[n] = IF n = 0 THEN r ELSE Past(n, f[n - 1])
      BY <3>1
    <3>3. \A n \in 0..m : g[n] = f[n]
      OBVIOUS
    <3>4. g[m + 1] = Past(m + 1, g[m])
      OBVIOUS
    <3>5. ASSUME NEW n \in 0..(m + 1)
          PROVE  g[n] = IF n = 0 THEN r ELSE Past(n, g[n - 1])
      <4>1. CASE n = m + 1
        BY <3>4, <4>1
      <4>2. CASE n # m + 1
        <5>1. n \in 0..m /\ (n # 0 => n - 1 \in 0..m)
          BY <4>2
        <5>. HIDE DEF g
        <5>. QED  BY <3>2, <3>3, <5>1
      <4>. QED  BY <4>1, <4>2
    <3>6. Walk(m + 1, g)
      BY <3>5
    <3>. HIDE DEF g, Walk
    <3>. QED  BY <3>6
  <2>. HIDE DEF T
  <2>3. N \in T
    BY <1>3, <2>1, <2>2, Induction
  <2>. QED  BY <2>3 DEF T
<1>5. w[0] = r /\ \A n \in 1..N : w[n] = Past(n, w[n - 1])
  <2>. HIDE DEF w
  <2>. QED  BY <1>3, <1>4
<1>. QED  BY <1>1, <1>5 DEF N, Past

(* On the way to a finding's path (rowForDraftPath).                       *)
LEMMA WalkTowardInv ==
    ASSUME NEW v \in Versions, NEW d, WellFormed(v, d), NEW r, RowsInv(v, d, r),
           NEW p, Len(p) \in Nat, NEW expand
    PROVE  /\ RowsInv(v, d, WalkToward(v, d, r, p, expand))
           /\ DOMAIN r \subseteq DOMAIN WalkToward(v, d, r, p, expand)
           /\ KeepsOpen(r, WalkToward(v, d, r, p, expand))
           /\ ~expand => KeepsOpen(WalkToward(v, d, r, p, expand), r)
<1>. DEFINE at(n) == SubSeq(p, 1, n - 1)
            loaded(n, b) == LoadRows(v, d, b, {at(n)})
            Past(n, b) == IF at(n) \notin DOMAIN b THEN b
                          ELSE IF expand /\ SubSeq(p, 1, n) \in DOMAIN loaded(n, b)
                               THEN ExpandRow(v, d, loaded(n, b), at(n))
                               ELSE loaded(n, b)
            N == Len(p)
            Good(a, b) == /\ RowsInv(v, d, b) /\ DOMAIN a \subseteq DOMAIN b /\ KeepsOpen(a, b)
                          /\ ~expand => KeepsOpen(b, a)
<1>0. /\ \A n, b : WalkPast(v, d, p, expand, n, b) = Past(n, b)
      /\ N = Len(p)
  BY DEF WalkPast
<1>1. PICK w : /\ WalkToward(v, d, r, p, expand) = w[N] /\ w[0] = r
               /\ \A n \in 1..N : w[n] = Past(n, w[n - 1])
  <2>. HIDE DEF Past, N
  <2>. QED  BY <1>0, WalkTowardSteps
<1>2. ASSUME NEW n, NEW b, RowsInv(v, d, b)
      PROVE  Good(b, Past(n, b))
  <2>1. CASE at(n) \in DOMAIN b
    <3>1. {at(n)} \in SUBSET DOMAIN b /\ RowsMirror(v, d, b)
      BY <1>2, <2>1 DEF RowsInv
    <3>2. Good(b, loaded(n, b))
      <4>1. RowsInv(v, d, loaded(n, b))
        BY <1>2, <3>1, LoadRowsInv
      <4>2. DOMAIN b \subseteq DOMAIN loaded(n, b)
        <5>. HIDE DEF at
        <5>1. DOMAIN b \subseteq DOMAIN LoadRows(v, d, b, {at(n)})
          BY <3>1, LoadRowsBy
        <5>. QED  BY <5>1
      <4>3. KeepsOpen(b, loaded(n, b))
        <5>. HIDE DEF at
        <5>1. KeepsOpen(b, LoadRows(v, d, b, {at(n)}))
          BY <3>1, LoadRowsKeepsOpen
        <5>. QED  BY <5>1
      <4>4. KeepsOpen(loaded(n, b), b)
        <5>. HIDE DEF at
        <5>1. KeepsOpen(LoadRows(v, d, b, {at(n)}), b)
          BY <3>1, LoadRowsUnfoldsNothing
        <5>. QED  BY <5>1
      <4>. QED  BY <4>1, <4>2, <4>3, <4>4
    <3>. HIDE DEF loaded, at
    <3>3. expand => Good(loaded(n, b), ExpandRow(v, d, loaded(n, b), at(n)))
      BY <2>1, <3>2, ExpandRowInv
    <3>4. expand => Good(b, ExpandRow(v, d, loaded(n, b), at(n)))
      BY <3>2, <3>3 DEF KeepsOpen
    <3>. QED  BY <2>1, <3>2, <3>4
  <2>. QED  BY <1>2, <2>1 DEF KeepsOpen
<1>. HIDE DEF Past, N
<1>3. N \in Nat
  BY DEF N
<1>. DEFINE I == {n \in Nat : n <= N => Good(r, w[n])}
<1>6. 0 \in I
  BY <1>1 DEF KeepsOpen
<1>7. ASSUME NEW n \in Nat, n \in I PROVE n + 1 \in I
  <2>. SUFFICES ASSUME n + 1 <= N
                PROVE  Good(r, w[n + 1])
    OBVIOUS
  <2>1. n <= N /\ n + 1 \in 1..N /\ (n + 1) - 1 = n
    BY <1>3
  <2>2. w[n + 1] = Past(n + 1, w[n])
    BY <1>1, <2>1
  <2>3. Good(r, w[n])
    BY <1>7, <2>1
  <2>4. Good(w[n], w[n + 1])
    BY <1>2, <2>2, <2>3
  <2>. QED  BY <2>3, <2>4 DEF KeepsOpen
<1>8. N \in I
  <2>. HIDE DEF I
  <2>. QED  BY <1>3, <1>6, <1>7, Induction
<1>. QED  BY <1>1, <1>3, <1>8

(* The nearest field above a row is one of the rows on its way.            *)
LEMMA NearestFieldBy ==
    ASSUME NEW p \in Paths
    PROVE  \E n \in 0..Len(p) : NearestField(p) = SubSeq(p, 1, n)
<1>. DEFINE N == Len(p)
            T == {k \in Nat : k <= N /\ (N - k = 0 \/ IsField(p[N - k]))}
            Is(n) == /\ n = 0 \/ IsField(p[n])
                     /\ \A m \in (n + 1)..Len(p) : ~IsField(p[m])
<1>1. N \in Nat
  BY DEF Paths
<1>2. T \in SUBSET Nat /\ N \in T
  BY <1>1
<1>3. PICK k \in T : \A j \in T : k <= j
  <2>. HIDE DEF T
  <2>. QED  BY <1>2, LeastNumber
<1>4. N - k \in 0..N /\ (N - k = 0 \/ IsField(p[N - k]))
  BY <1>1, <1>3
<1>5. \A m \in (N - k + 1)..N : ~IsField(p[m])
  <2>. SUFFICES ASSUME NEW m \in (N - k + 1)..N, IsField(p[m]) PROVE FALSE
    OBVIOUS
  <2>. HIDE DEF N
  <2>1. N - m \in Nat /\ N - m <= N /\ N - (N - m) = m /\ N - m < k
    BY <1>1, <1>3
  <2>2. N - m \in T
    BY <2>1
  <2>. QED  BY <1>3, <2>1, <2>2
<1>6. \E n \in 0..Len(p) : Is(n)
  BY <1>4, <1>5
<1>. DEFINE n == CHOOSE m \in 0..Len(p) : Is(m)
<1>7. n \in 0..Len(p)
  <2>. HIDE DEF Is
  <2>. QED  BY <1>6
<1>8. NearestField(p) = SubSeq(p, 1, n)
  BY DEF NearestField
<1>. QED  BY <1>7, <1>8

(* One segment further along a jump.                                       *)
LandPast(v, d, s, n, b) ==
    LET first(at, keys) == Append(at, KeySegment(CHOOSE k \in keys : \A j \in keys : k <= j))
        loaded == LoadRows(v, d, b.rows, {b.at})
        keys == {Last(q).key : q \in {c \in RowChildren(loaded, b.at) : IsKey(Last(c))}}
        next == CASE s[n] = Item -> Append(b.at, IndexSegment(0))
                  [] s[n] = Value /\ keys # {} -> first(b.at, keys)
                  [] OTHER -> Append(b.at, FieldSegment(s[n]))
    IN  IF b.landed THEN b
        ELSE IF next \in DOMAIN loaded
             THEN [rows |-> ExpandRow(v, d, loaded, b.at), at |-> next, landed |-> FALSE]
             ELSE [rows |-> loaded, at |-> NearestField(b.at), landed |-> TRUE]

LEMMA LandingSteps ==
    ASSUME NEW v, NEW d, NEW r, NEW s, Len(s) \in Nat
    PROVE  \E w : /\ Landing(v, d, r, s) = w[Len(s)]
                 /\ w[0] = [rows |-> r, at |-> <<>>, landed |-> FALSE]
                 /\ \A n \in 1..Len(s) : w[n] = LandPast(v, d, s, n, w[n - 1])
<1>. DEFINE Past(n, b) == LandPast(v, d, s, n, b)
            start == [rows |-> r, at |-> <<>>, landed |-> FALSE]
            N == Len(s)
            Walk(m, f) == f = [n \in 0..m |-> IF n = 0 THEN start ELSE Past(n, f[n - 1])]
            w == CHOOSE f : Walk(N, f)
<1>1. Landing(v, d, r, s) = w[N]
  BY DEF Landing, LandPast
<1>. HIDE DEF Past, N, start
<1>4. N \in Nat
  BY DEF N
<1>5. Walk(N, w)
  <2>. DEFINE T == {m \in Nat : \E f : Walk(m, f)}
  <2>1. 0 \in T
    <3>1. Walk(0, [n \in 0..0 |-> start])
      OBVIOUS
    <3>. QED  BY <3>1
  <2>2. ASSUME NEW m \in Nat, m \in T PROVE m + 1 \in T
    <3>1. PICK f : Walk(m, f)
      BY <2>2
    <3>. DEFINE g == [n \in 0..(m + 1) |-> IF n = m + 1 THEN Past(n, f[m]) ELSE f[n]]
    <3>2. \A n \in 0..m : f[n] = IF n = 0 THEN start ELSE Past(n, f[n - 1])
      BY <3>1
    <3>3. \A n \in 0..m : g[n] = f[n]
      OBVIOUS
    <3>4. g[m + 1] = Past(m + 1, g[m])
      OBVIOUS
    <3>5. ASSUME NEW n \in 0..(m + 1)
          PROVE  g[n] = IF n = 0 THEN start ELSE Past(n, g[n - 1])
      <4>1. CASE n = m + 1
        BY <3>4, <4>1
      <4>2. CASE n # m + 1
        <5>1. n \in 0..m /\ (n # 0 => n - 1 \in 0..m)
          BY <4>2
        <5>. HIDE DEF g
        <5>. QED  BY <3>2, <3>3, <5>1
      <4>. QED  BY <4>1, <4>2
    <3>6. Walk(m + 1, g)
      BY <3>5
    <3>. HIDE DEF g, Walk
    <3>. QED  BY <3>6
  <2>. HIDE DEF T
  <2>3. N \in T
    BY <1>4, <2>1, <2>2, Induction
  <2>. QED  BY <2>3 DEF T
<1>6. w[0] = start /\ \A n \in 1..N : w[n] = Past(n, w[n - 1])
  <2>. HIDE DEF w
  <2>. QED  BY <1>4, <1>5
<1>. QED  BY <1>1, <1>6 DEF N, Past, start

(* Each segment of a jump leaves the rows true to the Draft, and the row it *)
(* reached under expanded ones (stepToward).                               *)
LEMMA LandPastInv ==
    ASSUME NEW v \in Versions, NEW d, WellFormed(v, d), NEW s, NEW n, NEW b,
           RowsInv(v, d, b.rows), b.at \in DOMAIN b.rows, OnWay(b.rows, b.at)
    PROVE  LET c == LandPast(v, d, s, n, b) IN
           /\ RowsInv(v, d, c.rows) /\ DOMAIN b.rows \subseteq DOMAIN c.rows
           /\ c.at \in DOMAIN c.rows /\ OnWay(c.rows, c.at)
<1>. DEFINE first(at, keys) == Append(at, KeySegment(CHOOSE k \in keys : \A j \in keys : k <= j))
            loaded == LoadRows(v, d, b.rows, {b.at})
            keys == {Last(q).key : q \in {c \in RowChildren(loaded, b.at) : IsKey(Last(c))}}
            next == CASE s[n] = Item -> Append(b.at, IndexSegment(0))
                      [] s[n] = Value /\ keys # {} -> first(b.at, keys)
                      [] OTHER -> Append(b.at, FieldSegment(s[n]))
            past == LandPast(v, d, s, n, b)
            Good(c) == /\ RowsInv(v, d, c.rows) /\ DOMAIN b.rows \subseteq DOMAIN c.rows
                       /\ c.at \in DOMAIN c.rows /\ OnWay(c.rows, c.at)
<1>0. past = IF b.landed THEN b
             ELSE IF next \in DOMAIN loaded
                  THEN [rows |-> ExpandRow(v, d, loaded, b.at), at |-> next, landed |-> FALSE]
                  ELSE [rows |-> loaded, at |-> NearestField(b.at), landed |-> TRUE]
  BY DEF LandPast
<1>. SUFFICES Good(past)
  OBVIOUS
<1>. HIDE DEF past
<1>1. CASE b.landed
  BY <1>0, <1>1
<1>2. CASE ~b.landed
  <2>1. /\ {b.at} \in SUBSET DOMAIN b.rows /\ RowsInv(v, d, b.rows) /\ RowsMirror(v, d, b.rows)
        /\ b.at \in DOMAIN b.rows
    BY DEF RowsInv
  <2>7. /\ b.at \in Paths /\ Len(b.at) \in Nat
        /\ \A m \in 0..Len(b.at) : SubSeq(b.at, 1, m) \in DOMAIN b.rows
    BY <2>1, RowsResolve, RowsAnchor DEF Paths
  <2>8. \A m \in 0..(Len(b.at) - 1) : b.rows[SubSeq(b.at, 1, m)].expanded
    BY DEF OnWay
  <2>9. KeepsOpen(b.rows, loaded)
    BY <2>1, LoadRowsKeepsOpen
  <2>10. \E S : b.at \in Seq(S) /\ \E x \in S : next = Append(b.at, x)
    <3>. HIDE DEF loaded, keys
    <3>1. PICK x : next = Append(b.at, x)
      <4>1. CASE s[n] = Item
        BY <4>1 DEF Item, Value
      <4>2. CASE s[n] = Value /\ keys # {}
        BY <4>2 DEF Item, Value
      <4>3. CASE s[n] # Item /\ ~(s[n] = Value /\ keys # {})
        BY <4>3
      <4>. QED  BY <4>1, <4>2, <4>3
    <3>2. b.at \in Seq(Segments \cup {x})
      BY <2>7 DEF Paths
    <3>. QED  BY <3>1, <3>2
  <2>2. RowsInv(v, d, loaded)
    BY <2>1, LoadRowsInv
  <2>3. DOMAIN b.rows \subseteq DOMAIN loaded
    BY <2>1, LoadRowsBy
  <2>. DEFINE x == ExpandRow(v, d, loaded, b.at)
  <2>. HIDE DEF loaded, next
  <2>4. /\ RowsInv(v, d, x) /\ DOMAIN loaded \subseteq DOMAIN x
        /\ KeepsOpen(loaded, x) /\ (~IsLeaf(v, b.at) => x[b.at].expanded)
    BY <2>1, <2>2, <2>3, ExpandRowInv
  <2>. HIDE DEF x
  <2>5. CASE next \in DOMAIN loaded
    <3>1. past = [rows |-> x, at |-> next, landed |-> FALSE]
      BY <1>0, <1>2, <2>5 DEF x
    <3>2. /\ next # <<>> /\ Front(next) = b.at
          /\ Len(next) = Len(b.at) + 1
          /\ \A m \in 0..Len(b.at) : SubSeq(next, 1, m) = SubSeq(b.at, 1, m)
      <4>1. PICK S : b.at \in Seq(S) /\ \E y \in S : next = Append(b.at, y)
        BY <2>10
      <4>2. PICK y \in S : next = Append(b.at, y)
        BY <4>1
      <4>3. /\ next \in Seq(S) /\ next # <<>> /\ Front(next) = b.at
            /\ Len(next) = Len(b.at) + 1
        BY <4>1, <4>2, Appended
      <4>4. b.at = SubSeq(next, 1, Len(b.at))
        <5>1. Len(next) - 1 = Len(b.at)
          BY <2>7, <4>3
        <5>2. Front(next) = SubSeq(next, 1, Len(next) - 1)
          BY <4>3, FrontLast
        <5>. QED  BY <4>3, <5>1, <5>2
      <4>5. \A m \in 0..Len(b.at) : SubSeq(next, 1, m) = SubSeq(b.at, 1, m)
        <5>. TAKE m \in 0..Len(b.at)
        <5>1. Len(b.at) \in 0..Len(next)
          BY <2>7, <4>3
        <5>2. SubSeq(SubSeq(next, 1, Len(b.at)), 1, m) = SubSeq(next, 1, m)
          BY <4>3, <5>1, StartOfStart
        <5>. QED  BY <4>4, <5>2
      <4>. QED  BY <4>3, <4>5
    <3>3. ~IsLeaf(v, b.at)
      <4>1. next \in Paths \ {<<>>} /\ Resolves(v, next)
        BY <2>2, <2>5, <3>2, RowsResolve DEF RowsInv
      <4>. QED  BY <3>2, <4>1, ParentResolves DEF IsLeaf, Structures
    <3>4. SubSeq(b.at, 1, Len(b.at)) = b.at
      BY <2>7 DEF Paths
    <3>5. ASSUME NEW m \in 0..(Len(next) - 1)
          PROVE  x[SubSeq(next, 1, m)].expanded
      <4>1. m \in 0..Len(b.at) /\ SubSeq(next, 1, m) = SubSeq(b.at, 1, m)
        BY <2>7, <3>2
      <4>2. CASE m = Len(b.at)
        BY <2>4, <3>3, <3>4, <4>1, <4>2
      <4>3. CASE m # Len(b.at)
        <5>1. SubSeq(b.at, 1, m) \in DOMAIN b.rows /\ b.rows[SubSeq(b.at, 1, m)].expanded
          BY <2>7, <2>8, <4>1, <4>3
        <5>. QED  BY <2>4, <2>9, <4>1, <5>1 DEF KeepsOpen
      <4>. QED  BY <4>2, <4>3
    <3>6. OnWay(x, next) /\ next \in DOMAIN x
      BY <2>4, <2>5, <3>5 DEF OnWay
    <3>. QED  BY <2>1, <2>3, <2>4, <2>5, <3>1, <3>6
  <2>6. CASE next \notin DOMAIN loaded
    <3>1. past = [rows |-> loaded, at |-> NearestField(b.at), landed |-> TRUE]
      BY <1>0, <1>2, <2>6
    <3>2. PICK k \in 0..Len(b.at) : NearestField(b.at) = SubSeq(b.at, 1, k)
      BY <2>7, NearestFieldBy
    <3>3. NearestField(b.at) \in DOMAIN loaded
      BY <2>3, <2>7, <3>2
    <3>4. ASSUME NEW m \in 0..(Len(NearestField(b.at)) - 1)
          PROVE  loaded[SubSeq(NearestField(b.at), 1, m)].expanded
      <4>1. Len(NearestField(b.at)) = k
        BY <2>7, <3>2, Start DEF Paths
      <4>2. m \in 0..k /\ m \in 0..(Len(b.at) - 1)
        BY <2>7, <4>1
      <4>3. SubSeq(NearestField(b.at), 1, m) = SubSeq(b.at, 1, m)
        BY <2>7, <3>2, <4>2, StartOfStart DEF Paths
      <4>4. SubSeq(b.at, 1, m) \in DOMAIN b.rows
        BY <2>7, <4>2
      <4>. QED  BY <2>8, <2>9, <4>2, <4>3, <4>4 DEF KeepsOpen
    <3>5. OnWay(loaded, NearestField(b.at))
      BY <3>4 DEF OnWay
    <3>. QED  BY <2>1, <2>2, <2>3, <3>1, <3>3, <3>5
  <2>. QED  BY <2>5, <2>6
<1>. QED  BY <1>1, <1>2

(* Along a schema-level path, into what is instantiated (landOn): the jump  *)
(* ends on a row whose ancestors are all expanded.                         *)
LEMMA LandingInv ==
    ASSUME NEW v \in Versions, NEW d, WellFormed(v, d), NEW r, RowsInv(v, d, r),
           NEW s, Len(s) \in Nat
    PROVE  /\ RowsInv(v, d, Landing(v, d, r, s).rows)
           /\ DOMAIN r \subseteq DOMAIN Landing(v, d, r, s).rows
           /\ Landing(v, d, r, s).at \in DOMAIN Landing(v, d, r, s).rows
           /\ OnWay(Landing(v, d, r, s).rows, Landing(v, d, r, s).at)
<1>. DEFINE start == [rows |-> r, at |-> <<>>, landed |-> FALSE]
            N == Len(s)
            Good(b) == /\ RowsInv(v, d, b.rows) /\ DOMAIN r \subseteq DOMAIN b.rows
                       /\ b.at \in DOMAIN b.rows /\ OnWay(b.rows, b.at)
<1>1. PICK w : /\ Landing(v, d, r, s) = w[N] /\ w[0] = start
               /\ \A n \in 1..N : w[n] = LandPast(v, d, s, n, w[n - 1])
  BY LandingSteps
<1>2. ASSUME NEW n, NEW b, Good(b)
      PROVE  Good(LandPast(v, d, s, n, b))
  BY <1>2, LandPastInv
<1>3. Good(start)
  BY DEF RowsInv, RowsMirror, OnWay
<1>. HIDE DEF N, start, Good
<1>4. N \in Nat
  BY DEF N
<1>. DEFINE I == {n \in Nat : n <= N => Good(w[n])}
<1>7. 0 \in I
  BY <1>1, <1>3
<1>8. ASSUME NEW n \in Nat, n \in I PROVE n + 1 \in I
  <2>. SUFFICES ASSUME n + 1 <= N PROVE Good(w[n + 1])
    OBVIOUS
  <2>1. n <= N /\ n + 1 \in 1..N /\ (n + 1) - 1 = n
    BY <1>4
  <2>. QED  BY <1>1, <1>2, <1>8, <2>1
<1>9. N \in I
  <2>. HIDE DEF I
  <2>. QED  BY <1>4, <1>7, <1>8, Induction
<1>. QED  BY <1>1, <1>4, <1>9 DEF Good

LEMMA LandAfterSwitchInv ==
    ASSUME NEW v \in Versions, NEW d, WellFormed(v, d), NEW r, RowsInv(v, d, r), NEW dotted
    PROVE  LET land == LandAfterSwitch(v, d, r, dotted) IN
           RowsInv(v, d, land.rows) /\ land.at \in DOMAIN land.rows /\ OnWay(land.rows, land.at)
<1>. DEFINE there == {s \in Candidates[v] : Dotted(s) = dotted}
<1>1. \A s \in Candidates[v] : Len(s) \in Nat
  BY TreeFacts DEF Candidates
<1>2. CASE there = {}
  BY <1>2 DEF LandAfterSwitch, RowsInv, RowsMirror, OnWay
<1>3. CASE there # {}
  <2>1. (CHOOSE s \in there : TRUE) \in there
    BY <1>3
  <2>2. Len(CHOOSE s \in there : TRUE) \in Nat
    BY <1>1, <2>1
  <2>3. LandAfterSwitch(v, d, r, dotted) = Landing(v, d, r, CHOOSE s \in there : TRUE)
    BY <1>3 DEF LandAfterSwitch
  <2>. HIDE DEF there
  <2>. QED  BY <2>2, <2>3, LandingInv
<1>. QED  BY <1>2, <1>3

-----------------------------------------------------------------------------
(* Findings.                                                               *)

(* What is picked from a sequence is at one of the positions.              *)
LEMMA PickedFrom ==
    ASSUME NEW s, NEW N, IsFiniteSet(N), \A n \in N : n \in Nat
    PROVE  /\ Cardinality(N) \in Nat /\ DOMAIN Picked(s, N) = 1..Cardinality(N)
           /\ \A i \in 1..Cardinality(N) : \E n \in N : Picked(s, N)[i] = s[n]
<1>. DEFINE below(n) == {m \in N : m < n}
            c == Cardinality(N)
            rank == [n \in N |-> Cardinality(below(n))]
<1>1. IsFiniteSet(N) /\ c \in Nat
  BY FS_CardinalityType
<1>2. ASSUME NEW n \in N
      PROVE  IsFiniteSet(below(n)) /\ Cardinality(below(n)) \in 0..(c - 1)
  <2>1. below(n) \in SUBSET N /\ below(n) # N
    OBVIOUS
  <2>. HIDE DEF below
  <2>2. IsFiniteSet(below(n)) /\ Cardinality(below(n)) <= c /\ Cardinality(below(n)) # c
    BY <1>1, <2>1, FS_Subset
  <2>3. Cardinality(below(n)) \in Nat
    BY <2>2, FS_CardinalityType
  <2>. HIDE DEF c
  <2>. QED  BY <1>1, <2>2, <2>3
<1>3. ASSUME NEW m \in N, NEW n \in N, m < n PROVE Cardinality(below(m)) < Cardinality(below(n))
  <2>1. below(m) \in SUBSET below(n) /\ below(m) # below(n)
    <3>1. m \in Nat /\ n \in Nat
      OBVIOUS
    <3>2. m \in below(n) /\ m \notin below(m)
      BY <1>3, <3>1
    <3>3. \A x \in N : x < m => x < n
      BY <1>3, <3>1
    <3>. QED  BY <3>2, <3>3
  <2>. HIDE DEF below
  <2>2. /\ Cardinality(below(m)) <= Cardinality(below(n))
        /\ Cardinality(below(m)) # Cardinality(below(n))
    BY <1>2, <2>1, FS_Subset
  <2>3. Cardinality(below(m)) \in Int /\ Cardinality(below(n)) \in Int
    BY <1>2
  <2>. QED  BY <2>2, <2>3
<1>4. rank \in Injection(N, 0..(c - 1))
  <2>1. rank \in [N -> 0..(c - 1)]
    BY <1>2
  <2>2. \A m, n \in N : rank[m] = rank[n] => m = n
    <3>. HIDE DEF below, c
    <3>1. \A m, n \in N : m < n => rank[m] # rank[n]
      BY <1>2, <1>3
    <3>. HIDE DEF rank
    <3>. QED  BY <3>1
  <2>. HIDE DEF rank
  <2>. QED  BY <2>1, <2>2 DEF Injection, IsInjective
<1>5. IsFiniteSet(0..(c - 1)) /\ Cardinality(0..(c - 1)) = c
  <2>. HIDE DEF c
  <2>. QED  BY <1>1, FS_Interval
<1>6. rank \in Surjection(N, 0..(c - 1))
  <2>. HIDE DEF rank
  <2>. QED  BY <1>4, <1>5, FS_Injection
<1>7. ASSUME NEW i \in 1..c PROVE \E n \in N : Cardinality(below(n)) = i - 1
  <2>1. i - 1 \in 0..(c - 1)
    BY <1>1
  <2>2. PICK n \in N : rank[n] = i - 1
    <3>. HIDE DEF rank
    <3>. QED  BY <1>6, <2>1 DEF Surjection
  <2>. QED  BY <2>2
<1>8. Picked(s, N) = [i \in 1..c |-> s[CHOOSE n \in N : Cardinality(below(n)) = i - 1]]
  BY DEF Picked
<1>9. ASSUME NEW i \in 1..c PROVE \E n \in N : Picked(s, N)[i] = s[n]
  <2>1. Picked(s, N)[i] = s[CHOOSE n \in N : Cardinality(below(n)) = i - 1]
    BY <1>8
  <2>. HIDE DEF below
  <2>2. (CHOOSE n \in N : Cardinality(below(n)) = i - 1) \in N
    BY <1>7
  <2>. QED  BY <2>1, <2>2
<1>. QED  BY <1>1, <1>8, <1>9

LEMMA PickedType ==
    ASSUME NEW S, NEW s, NEW N, IsFiniteSet(N), \A n \in N : n \in Nat /\ s[n] \in S
    PROVE  Picked(s, N) \in Seq(S)
<1>. DEFINE t == Picked(s, N)
            c == Cardinality(N)
<1>1. c \in Nat /\ DOMAIN t = 1..c /\ \A i \in 1..c : \E n \in N : t[i] = s[n]
  <2>. HIDE DEF t, c
  <2>. QED  BY PickedFrom DEF t, c
<1>2. t = [i \in 1..c |-> t[i]]
  BY DEF Picked
<1>. HIDE DEF t, c
<1>3. \A i \in 1..c : t[i] \in S
  BY <1>1
<1>. QED  BY <1>1, <1>2, <1>3 DEF t

(* What is flattened is appended piece by piece.                           *)
LEMMA FlattenSeqSteps ==
    ASSUME NEW ss, Len(ss) \in Nat \ {0}
    PROVE  \E w : /\ FlattenSeq(ss) = w[Len(ss)]
                 /\ \A i \in 1..Len(ss) : w[i] = IF i = 1 THEN ss[i] ELSE w[i - 1] \o ss[i]
<1>. DEFINE N == Len(ss)
            Walk(m, f) == f = [i \in 1..m |-> IF i = 1 THEN ss[i] ELSE f[i - 1] \o ss[i]]
            w == CHOOSE f : Walk(N, f)
<1>1. N \in Nat /\ N # 0
  OBVIOUS
<1>2. FlattenSeq(ss) = w[N]
  BY <1>1 DEF FlattenSeq
<1>. HIDE DEF N
<1>4. Walk(N, w)
  <2>. DEFINE M == {m \in Nat : \E f : Walk(m, f)}
  <2>1. 0 \in M
    <3>1. Walk(0, [i \in 1..0 |-> ss])
      OBVIOUS
    <3>. QED  BY <3>1
  <2>2. ASSUME NEW m \in Nat, m \in M PROVE m + 1 \in M
    <3>1. PICK f : Walk(m, f)
      BY <2>2
    <3>. DEFINE g == [i \in 1..(m + 1) |->
                        IF i = m + 1
                        THEN IF i = 1 THEN ss[i] ELSE f[m] \o ss[i]
                        ELSE f[i]]
    <3>2. \A i \in 1..m : f[i] = IF i = 1 THEN ss[i] ELSE f[i - 1] \o ss[i]
      BY <3>1
    <3>3. \A i \in 1..m : g[i] = f[i]
      OBVIOUS
    <3>4. g[m + 1] = IF m + 1 = 1 THEN ss[m + 1] ELSE f[m] \o ss[m + 1]
      OBVIOUS
    <3>5. ASSUME NEW i \in 1..(m + 1)
          PROVE  g[i] = IF i = 1 THEN ss[i] ELSE g[i - 1] \o ss[i]
      <4>. HIDE DEF g
      <4>1. CASE i = m + 1
        <5>1. i # 1 => m \in 1..m /\ i - 1 = m
          BY <4>1
        <5>. QED  BY <3>3, <3>4, <4>1, <5>1
      <4>2. CASE i # m + 1
        <5>1. i \in 1..m /\ (i # 1 => i - 1 \in 1..m)
          BY <4>2
        <5>. QED  BY <3>2, <3>3, <5>1
      <4>. QED  BY <4>1, <4>2
    <3>6. Walk(m + 1, g)
      BY <3>5
    <3>. HIDE DEF g, Walk
    <3>. QED  BY <3>6
  <2>. HIDE DEF M
  <2>3. N \in M
    BY <1>1, <2>1, <2>2, Induction
  <2>. QED  BY <2>3 DEF M
<1>5. \A i \in 1..N : w[i] = IF i = 1 THEN ss[i] ELSE w[i - 1] \o ss[i]
  <2>. HIDE DEF w
  <2>. QED  BY <1>1, <1>4
<1>. HIDE DEF w, Walk
<1>. QED  BY <1>2, <1>5 DEF N

(* A sequence of sequences is flattened to a sequence.                     *)
LEMMA FlattenSeqType ==
    ASSUME NEW T, \A a, b \in T : a \o b \in T, NEW ss \in Seq(T), ss # <<>>
    PROVE  FlattenSeq(ss) \in T
<1>. DEFINE N == Len(ss)
<1>1. N \in Nat /\ N # 0
  OBVIOUS
<1>2. PICK w : /\ FlattenSeq(ss) = w[N]
               /\ \A i \in 1..N : w[i] = IF i = 1 THEN ss[i] ELSE w[i - 1] \o ss[i]
  BY <1>1, FlattenSeqSteps
<1>3. \A i \in 1..N : ss[i] \in T
  OBVIOUS
<1>. HIDE DEF N
<1>. DEFINE I == {n \in Nat : n \in 1..N => w[n] \in T}
<1>6. 0 \in I
  OBVIOUS
<1>7. ASSUME NEW n \in Nat, n \in I PROVE n + 1 \in I
  <2>. SUFFICES ASSUME n + 1 \in 1..N PROVE w[n + 1] \in T
    OBVIOUS
  <2>1. CASE n = 0
    BY <1>3, <1>2, <2>1
  <2>2. CASE n # 0
    <3>1. n \in 1..N /\ (n + 1) - 1 = n /\ n + 1 # 1
      BY <1>1, <2>2
    <3>2. w[n + 1] = w[n] \o ss[n + 1]
      BY <1>2, <3>1
    <3>3. w[n] \in T /\ ss[n + 1] \in T
      BY <1>3, <1>7, <3>1
    <3>. QED  BY <3>2, <3>3
  <2>. QED  BY <2>1, <2>2
<1>8. N \in I
  <2>. HIDE DEF I
  <2>. QED  BY <1>1, <1>6, <1>7, Induction
<1>. QED  BY <1>1, <1>2, <1>8

(* What the server spells is a sequence of tokens.                         *)
IsSequence(s) == \E S : s \in Seq(S)

LEMMA CauseFieldsType ==
    ASSUME NEW S, NEW p \in Seq(S), p # <<>>, NEW f \in CauseFields(p)
    PROVE  IsSequence(f)
<1>. DEFINE ss == [n \in DOMAIN p |-> Spelled(p[n])]
            N == Len(p)
            X == {Dot} \cup {Name(p[n].field) : n \in 1..N}
                   \cup {Digits(p[n].item) : n \in 1..N} \cup {Digits(p[n].key) : n \in 1..N}
                   \cup {Text(p[n].key) : n \in 1..N}
<1>1. N \in Nat /\ N > 0 /\ DOMAIN p = 1..N
  OBVIOUS
<1>2. ASSUME NEW n \in 1..N PROVE Spelled(p[n]) \in Seq(X) \ {<<>>}
  <2>1. /\ Dot \in X /\ Name(p[n].field) \in X /\ Digits(p[n].item) \in X
        /\ Digits(p[n].key) \in X /\ Text(p[n].key) \in X
    OBVIOUS
  <2>. HIDE DEF X, N
  <2>2. \/ Spelled(p[n]) = <<Dot, Name(p[n].field)>>
        \/ Spelled(p[n]) = <<Digits(p[n].item)>>
        \/ Spelled(p[n]) = <<Digits(p[n].key)>>
        \/ Spelled(p[n]) = <<Text(p[n].key)>>
    BY DEF Spelled
  <2>3. \A x, y \in X : <<x>> \in Seq(X) \ {<<>>} /\ <<x, y>> \in Seq(X) \ {<<>>}
    OBVIOUS
  <2>. QED  BY <2>1, <2>2, <2>3, Zenon
<1>. HIDE DEF X
<1>3. ss \in Seq(Seq(X) \ {<<>>}) /\ ss # <<>>
  <2>1. ss \in [1..N -> Seq(X) \ {<<>>}]
    BY <1>1, <1>2
  <2>. HIDE DEF ss, N
  <2>. QED  BY <1>1, <2>1
<1>. HIDE DEF ss
<1>4. FlattenSeq(ss) \in Seq(X) \ {<<>>}
  <2>. DEFINE T == Seq(X) \ {<<>>}
  <2>1. ASSUME NEW a \in T, NEW b \in T PROVE a \o b \in T
    <3>1. a \o b \in Seq(X) /\ Len(a \o b) = Len(a) + Len(b) /\ Len(a) > 0 /\ Len(b) > 0
      OBVIOUS
    <3>. QED  BY <3>1
  <2>. HIDE DEF T
  <2>2. ss \in Seq(T)
    BY <1>3 DEF T
  <2>3. FlattenSeq(ss) \in T
    BY <1>3, <2>1, <2>2, FlattenSeqType
  <2>. QED  BY <2>3 DEF T
<1>5. Tail(FlattenSeq(ss)) \in Seq(X)
  BY <1>4
<1>6. f \in {FlattenSeq(ss), Tail(FlattenSeq(ss))}
  BY DEF CauseFields, ss
<1>. QED  BY <1>4, <1>5, <1>6 DEF IsSequence

LEMMA PathlessType ==
    ASSUME NEW f \in Pathless
    PROVE  IsSequence(f)
<1>. DEFINE X == {Dot, Nil, Name("name"), EmptySelector}
<1>1. Dot \in X /\ Nil \in X /\ Name("name") \in X /\ EmptySelector \in X
  OBVIOUS
<1>. HIDE DEF X
<1>2. f \in Seq(X)
  <2>1. <<>> \in Seq(X) /\ \A x, y \in X : <<x>> \in Seq(X) /\ <<x, y>> \in Seq(X)
    OBVIOUS
  <2>2. \/ f = <<>> \/ f = <<Dot>> \/ f = <<Nil>>
        \/ f = <<Name("name"), Dot>> \/ f = <<Name("name"), EmptySelector>>
    BY DEF Pathless
  <2>. QED  BY <1>1, <2>1, <2>2, Zenon
<1>. QED  BY <1>2 DEF IsSequence

LEMMA TrimDotsType ==
    ASSUME NEW f, IsSequence(f)
    PROVE  IsSequence(TrimDots(f))
<1>. DEFINE Starts(n) == n <= Len(f) => f[n] # Dot
            T == {n \in 1..(Len(f) + 1) : Starts(n)}
            At(n) == Starts(n) /\ \A m \in 1..(n - 1) : f[m] = Dot
            start == CHOOSE n \in 1..(Len(f) + 1) : At(n)
<1>1. PICK S : f \in Seq(S)
  BY DEF IsSequence
<1>2. Len(f) \in Nat /\ Len(f) + 1 \in T
  BY <1>1
<1>3. PICK n \in T : \A k \in T : n <= k
  <2>1. T \in SUBSET Nat /\ T # {}
    BY <1>2
  <2>. HIDE DEF T
  <2>. QED  BY <2>1, LeastNumber
<1>4. n \in 1..(Len(f) + 1) /\ At(n)
  <2>1. ASSUME NEW m \in 1..(n - 1) PROVE f[m] = Dot
    <3>1. m \in 1..(Len(f) + 1) /\ m < n
      BY <1>2
    <3>2. m \notin T
      BY <1>2, <1>3, <3>1
    <3>. QED  BY <3>1, <3>2
  <2>. QED  BY <2>1
<1>5. start \in 1..(Len(f) + 1)
  <2>. HIDE DEF At
  <2>. QED  BY <1>4
<1>6. TrimDots(f) = SubSeq(f, start, Len(f))
  BY DEF TrimDots
<1>. HIDE DEF start
<1>7. SubSeq(f, start, Len(f)) \in Seq(S)
  BY <1>1, <1>2, <1>5
<1>. QED  BY <1>6, <1>7 DEF IsSequence

LEMMA NormalizeFieldPathType ==
    ASSUME NEW f, IsSequence(f)
    PROVE  IsSequence(NormalizeFieldPath(f))
<1>. DEFINE rest == TrimDots(f)
            N == {n \in DOMAIN rest : rest[n] # Dot}
            tokens == Picked(rest, N)
            segment(token) == CASE IsName(token) -> FieldSegment(token.name)
                                [] "digits" \in DOMAIN token -> IndexSegment(token.digits)
                                [] OTHER -> KeySegment(token.text)
            named == [n \in DOMAIN tokens |-> segment(tokens[n])]
<1>1. NormalizeFieldPath(f) \in {named, <<>>}
  BY DEF NormalizeFieldPath
<1>2. IsFiniteSet(N) /\ \A n \in N : n \in Nat
  <2>1. PICK S : rest \in Seq(S)
    BY TrimDotsType DEF IsSequence
  <2>. HIDE DEF rest
  <2>2. Len(rest) \in Nat /\ N \in SUBSET (1..Len(rest)) /\ \A n \in N : n \in Nat
    BY <2>1
  <2>3. IsFiniteSet(1..Len(rest))
    BY <2>2, FS_Interval
  <2>. HIDE DEF N
  <2>. QED  BY <2>2, <2>3, FS_Subset
<1>3. Cardinality(N) \in Nat /\ DOMAIN tokens = 1..Cardinality(N)
  <2>. HIDE DEF N, rest
  <2>. QED  BY <1>2, PickedFrom
<1>. DEFINE X == {segment(tokens[n]) : n \in 1..Cardinality(N)}
<1>. HIDE DEF N, rest, tokens, segment
<1>4. named \in Seq(X)
  BY <1>3
<1>5. <<>> \in Seq(X)
  OBVIOUS
<1>. HIDE DEF X, named
<1>. QED  BY <1>1, <1>4, <1>5 DEF IsSequence

LEMMA MapCausesType ==
    ASSUME NEW count \in Nat, NEW ss, DOMAIN ss = 1..count, \A n \in 1..count : IsSequence(ss[n]),
           ss = [n \in 1..count |-> ss[n]], NEW message
    PROVE  LET findings == MapCauses(ss, message) IN
           /\ Len(findings) \in Nat /\ DOMAIN findings = 1..Len(findings)
           /\ \A n \in 1..Len(findings) : Len(findings[n]) \in Nat
<1>1. \A n \in 1..count : Len(NormalizeFieldPath(ss[n])) \in Nat
  BY NormalizeFieldPathType DEF IsSequence
<1>. DEFINE named == [n \in 1..count |-> NormalizeFieldPath(ss[n])]
            X == {NormalizeFieldPath(ss[n]) : n \in 1..count}
<1>2. named \in [1..count -> X]
  OBVIOUS
<1>3. Len(named) = count
  <2>. HIDE DEF named, X
  <2>. QED  BY <1>2
<1>4. MapCauses(ss, message) \in {named, << <<>> >>, <<>>}
  BY DEF MapCauses
<1>5. CASE MapCauses(ss, message) = named
  BY <1>1, <1>3, <1>5
<1>6. CASE MapCauses(ss, message) = << <<>> >>
  BY <1>6
<1>7. CASE MapCauses(ss, message) = <<>>
  BY <1>7
<1>. QED  BY <1>4, <1>5, <1>6, <1>7

-----------------------------------------------------------------------------
(* The inductive invariant.                                                *)

(* An outcome whose findings are not outdated has a row for each.          *)
OutcomeInv(state, r) ==
    state = Null \/ /\ state \in [mapped : Seq(Paths), unmappable : Nat,
                                  next : Nat, stale : BOOLEAN]
                    /\ state.mapped # <<>> => state.next \in DOMAIN state.mapped
                    /\ ~state.stale => \A n \in DOMAIN state.mapped : state.mapped[n] \in DOMAIN r

TreeInv ==
    /\ version \in Versions
    /\ WellFormed(version, draft)
    /\ missing = MissingRequired(version, draft)
    /\ RowsInv(version, draft, rows)
    /\ OutcomeInv(validation, rows)

LEMMA OutdatedInv ==
    ASSUME NEW state, NEW r, OutcomeInv(state, r), NEW s
    PROVE  OutcomeInv(Outdated(state), s)
<1>1. CASE state = Null \/ (state.mapped = <<>> /\ state.unmappable = 0)
  BY <1>1 DEF Outdated, OutcomeInv
<1>2. CASE ~(state = Null \/ (state.mapped = <<>> /\ state.unmappable = 0))
  <2>. DEFINE t == [state EXCEPT !.stale = TRUE]
  <2>1. Outdated(state) = t
    BY <1>2 DEF Outdated
  <2>2. /\ state \in [mapped : Seq(Paths), unmappable : Nat, next : Nat, stale : BOOLEAN]
        /\ state.mapped # <<>> => state.next \in DOMAIN state.mapped
    BY <1>2 DEF OutcomeInv
  <2>3. /\ t \in [mapped : Seq(Paths), unmappable : Nat, next : Nat, stale : BOOLEAN]
        /\ t.mapped = state.mapped /\ t.next = state.next /\ t.stale
    BY <2>2
  <2>. HIDE DEF t
  <2>. QED  BY <2>1, <2>2, <2>3 DEF OutcomeInv
<1>. QED  BY <1>1, <1>2

LEMMA MoreRows ==
    ASSUME NEW state, NEW r, OutcomeInv(state, r), NEW s, DOMAIN r \subseteq DOMAIN s
    PROVE  OutcomeInv(state, s)
BY DEF OutcomeInv

LEMMA CollapseInv ==
    ASSUME NEW v, NEW d, NEW r, RowsInv(v, d, r), NEW p \in DOMAIN r
    PROVE  /\ RowsInv(v, d, [r EXCEPT ![p].expanded = FALSE])
           /\ DOMAIN [r EXCEPT ![p].expanded = FALSE] = DOMAIN r
<1>. DEFINE x == [r[p] EXCEPT !.expanded = FALSE]
            m == [r EXCEPT ![p].expanded = FALSE]
<1>1. /\ r = [q \in DOMAIN r |-> r[q]] /\ \A q \in DOMAIN r : LooksAhead(r, q)
      /\ \A q \in DOMAIN r : r[q] \in [loaded : BOOLEAN, expanded : BOOLEAN]
  BY DEF RowsInv, RowsMirror
<1>2. m = [q \in DOMAIN r |-> IF q = p THEN x ELSE r[q]]
  <2>1. m = [r EXCEPT ![p] = x]
    OBVIOUS
  <2>. HIDE DEF x, m
  <2>. QED  BY <1>1, <2>1
<1>3. /\ x \in [loaded : BOOLEAN, expanded : BOOLEAN] /\ ~x.expanded
      /\ x.loaded = r[p].loaded
  BY <1>1
<1>. HIDE DEF x, m
<1>4. /\ DOMAIN m = DOMAIN r /\ m = [q \in DOMAIN m |-> m[q]]
      /\ \A q \in DOMAIN r : /\ m[q] \in [loaded : BOOLEAN, expanded : BOOLEAN]
                             /\ m[q].loaded = r[q].loaded
                             /\ m[q].expanded => r[q].expanded
  BY <1>1, <1>2, <1>3
<1>5. \A q \in DOMAIN m : LooksAhead(m, q)
  BY <1>1, <1>4 DEF LooksAhead
<1>6. RowsInv(v, d, m)
  BY <1>4, <1>5 DEF RowsInv, RowsMirror
<1>. QED  BY <1>4, <1>6 DEF m

LEMMA GateFacts ==
    ASSUME NEW v \in Versions, NEW d, NEW p \in GatePaths
    PROVE  /\ p \in Paths \ {<<>>} /\ Resolves(v, p)
           /\ Placeable(d, p) /\ Anchored(d, p)
<1>1. /\ p \in Seq([field : STRING \ {Item, Value}]) \ {<<>>} /\ Resolves(v, p)
  BY ComposeTreeAssumption
<1>2. \A n \in 1..Len(p) : p[n] \in [field : STRING \ {Item, Value}] /\ p[n] \in Segments
  <2>. DEFINE F == [field : STRING \ {Item, Value}]
  <2>1. \A n \in 1..Len(p) : p[n] \in F
    <3>1. p \in Seq(F)
      BY <1>1
    <3>. HIDE DEF F
    <3>. QED  BY <3>1
  <2>2. F \subseteq Segments
    BY DEF Segments
  <2>. QED  BY <2>1, <2>2
<1>3. p \in Paths \ {<<>>}
  BY <1>1, <1>2 DEF Paths
<1>4. \A n \in 1..Len(p) : IsField(p[n]) /\ ~IsItem(p[n])
  BY <1>2, SegmentKinds DEF IsField
<1>5. \A q \in Along(p) : IsField(Last(q))
  BY <1>3, <1>4, AlongPosition
<1>. QED  BY <1>1, <1>3, <1>4, <1>5 DEF Placeable, Anchored

(* The Draft d grew by an entry at q, and its rows r by q's, beneath p.     *)
EntryShows(v, d, r, p, q, e, m) ==
    /\ WellFormed(v, e) /\ DOMAIN e = DOMAIN d \cup Along(q)
    /\ RowsInv(v, e, m) /\ KeepsOpen(r, m)
    /\ q \in DOMAIN m /\ (~IsLeaf(v, p) => m[p].expanded)

(* A new item or key, and its row.                                         *)
LEMMA NewEntryInv ==
    ASSUME NEW v \in Versions, NEW d, WellFormed(v, d), NEW r, RowsInv(v, d, r),
           NEW p \in DOMAIN r, NEW q \in Paths \ {<<>>}, Front(q) = p, Resolves(v, q),
           ~IsField(Last(q)), q \notin DOMAIN d, Placeable(d, q)
    PROVE  LET e == Materialize(d, q)
           IN  EntryShows(v, d, r, p, q, e, InsertRow(v, e, LoadRows(v, d, r, {p}), p, q))
<1>. DEFINE e == Materialize(d, q)
            l == LoadRows(v, d, r, {p})
<1>1. WellFormed(v, e) /\ DOMAIN e = DOMAIN d \cup Along(q)
  BY EntryIsWellFormed
<1>2. {p} \in SUBSET DOMAIN r /\ RowsMirror(v, d, r)
  BY DEF RowsInv
<1>3. RowsInv(v, d, l)
  BY <1>2, LoadRowsInv
<1>4. p \in DOMAIN l /\ l[p].loaded
  BY <1>2, LoadRowsBy
<1>5. KeepsOpen(r, l)
  BY <1>2, LoadRowsKeepsOpen
<1>. HIDE DEF l, e
<1>. DEFINE m == InsertRow(v, e, l, p, q)
<1>6. RowsInv(v, e, m) /\ KeepsOpen(l, m) /\ q \in DOMAIN m /\ (~IsLeaf(v, p) => m[p].expanded)
  BY <1>1, <1>3, <1>4, InsertRowInv
<1>. HIDE DEF m
<1>7. KeepsOpen(r, m)
  BY <1>5, <1>6 DEF KeepsOpen
<1>8. EntryShows(v, d, r, p, q, e, m)
  BY <1>1, <1>6, <1>7 DEF EntryShows
<1>. QED  BY <1>8 DEF l, e, m

-----------------------------------------------------------------------------
(* It is kept.                                                             *)

LEMMA InitTree == Init => TreeInv
<1>. SUFFICES ASSUME Init PROVE TreeInv
  OBVIOUS
<1>1. version \in Versions /\ draft = EmptyDraft /\ validation = Null
      /\ missing = MissingRequired(version, EmptyDraft) /\ rows = OpenedRows(version, EmptyDraft)
  BY DEF Init
<1>2. WellFormed(version, EmptyDraft)
  BY <1>1, EmptyIsWellFormed
<1>3. RowsInv(version, EmptyDraft, OpenedRows(version, EmptyDraft))
  BY <1>1, <1>2, OpenedRowsInv
<1>. QED  BY <1>1, <1>2, <1>3 DEF TreeInv, OutcomeInv

(* A step that changes nothing but the rows, and only adds to them.        *)
LEMMA RowsGrow ==
    ASSUME TreeInv, UNCHANGED <<version, draft, missing, validation>>,
           RowsInv(version, draft, rows'), DOMAIN rows \subseteq DOMAIN rows'
    PROVE  TreeInv'
<1>1. OutcomeInv(validation, rows')
  BY MoreRows DEF TreeInv
<1>. QED  BY <1>1 DEF TreeInv

(* A step that changes the Draft and ends in refreshCompleteness.          *)
LEMMA MutatedTree ==
    ASSUME TreeInv, Mutated, WellFormed(version, draft'), RowsInv(version, draft', rows')
    PROVE  TreeInv'
<1>1. /\ version' = version /\ missing' = MissingRequired(version, draft')
      /\ validation' = Outdated(validation)
  BY DEF Mutated
<1>2. OutcomeInv(Outdated(validation), rows')
  BY OutdatedInv DEF TreeInv
<1>. QED  BY <1>1, <1>2 DEF TreeInv

LEMMA ToggleKeepsTree ==
    ASSUME TreeInv, NEW p, ToggleFocused(p)
    PROVE  TreeInv'
<1>1. /\ p \in DOMAIN rows /\ UNCHANGED <<version, draft, missing, validation>>
      /\ \/ rows' = [rows EXCEPT ![p].expanded = FALSE]
         \/ rows' = ExpandRow(version, draft, rows, p)
  BY DEF ToggleFocused, Visible
<1>2. /\ version \in Versions /\ WellFormed(version, draft) /\ RowsInv(version, draft, rows)
  BY DEF TreeInv
<1>3. CASE rows' = [rows EXCEPT ![p].expanded = FALSE]
  <2>1. RowsInv(version, draft, rows') /\ DOMAIN rows' = DOMAIN rows
    BY <1>1, <1>2, <1>3, CollapseInv
  <2>. QED  BY <1>1, <2>1, RowsGrow
<1>4. CASE rows' = ExpandRow(version, draft, rows, p)
  <2>1. RowsInv(version, draft, rows') /\ DOMAIN rows \subseteq DOMAIN rows'
    BY <1>1, <1>2, <1>4, ExpandRowInv
  <2>. QED  BY <1>1, <2>1, RowsGrow
<1>. QED  BY <1>1, <1>3, <1>4

LEMMA SetKeepsTree ==
    ASSUME TreeInv, NEW p \in Paths \ {<<>>}, Resolves(version, p), Placeable(draft, p),
           Anchored(draft, p), NEW x \in Admissible(version, p),
           draft' = Set(version, draft, p, x), UNCHANGED rows, Mutated
    PROVE  TreeInv'
<1>1. /\ version \in Versions /\ WellFormed(version, draft) /\ RowsInv(version, draft, rows)
  BY DEF TreeInv
<1>2. WellFormed(version, draft') /\ DOMAIN draft' = DOMAIN draft \cup Along(p)
  BY <1>1, SetIsWellFormed
<1>3. RowsInv(version, draft', rows)
  BY <1>1, <1>2, SetKeepsRows
<1>. QED  BY <1>2, <1>3, MutatedTree

LEMMA ConfirmEditorKeepsTree ==
    ASSUME TreeInv, NEW p, ConfirmEditor(p)
    PROVE  TreeInv'
<1>1. /\ p \in DOMAIN rows /\ IsLeaf(version, p) /\ Placeable(draft, p) /\ UNCHANGED rows
      /\ Mutated
  BY DEF ConfirmEditor, Visible
<1>2. PICK x \in Admissible(version, p) : draft' = Set(version, draft, p, x)
  BY DEF ConfirmEditor
<1>3. version \in Versions /\ RowsMirror(version, draft, rows)
  BY DEF TreeInv, RowsInv
<1>4. p \in Paths /\ Resolves(version, p) /\ Anchored(draft, p)
  BY <1>1, <1>3, RowsResolve, RowsAnchor
<1>5. p # <<>>
  BY <1>1, <1>3, RootResolves DEF IsLeaf, Structures
<1>. QED  BY <1>1, <1>2, <1>4, <1>5, SetKeepsTree

LEMMA ConfirmGatePromptKeepsTree ==
    ASSUME TreeInv, NEW p \in GatePaths, ConfirmGatePrompt(p)
    PROVE  TreeInv'
<1>1. UNCHANGED rows /\ Mutated
  BY DEF ConfirmGatePrompt
<1>2. PICK x \in Admissible(version, p) : draft' = Set(version, draft, p, x)
  BY DEF ConfirmGatePrompt
<1>3. /\ p \in Paths \ {<<>>} /\ Resolves(version, p)
      /\ Placeable(draft, p) /\ Anchored(draft, p)
  BY GateFacts DEF TreeInv
<1>. QED  BY <1>1, <1>2, <1>3, SetKeepsTree

(* What a mutation adds beneath the row p: the entry q, its row unfolded to.*)
Added(p, q) ==
    /\ q \in Paths \ {<<>>} /\ Front(q) = p /\ ~IsField(Last(q))
    /\ q \notin DOMAIN draft /\ DOMAIN draft' = DOMAIN draft \cup Along(q)
    /\ KeepsOpen(rows, rows') /\ q \in DOMAIN rows' /\ rows'[p].expanded

LEMMA AppendToArrayKeepsTree ==
    ASSUME TreeInv, NEW p, AppendToArray(p)
    PROVE  TreeInv' /\ \E q : Added(p, q)
<1>. DEFINE c == ItemCount(draft, p)
            q == Append(p, IndexSegment(c))
            item == Append(p, IndexSegment(ItemCount(draft', p) - 1))
<1>1. /\ p \in DOMAIN rows /\ TypeAt(version, p) = "array" /\ Mutated
      /\ draft' = Materialize(draft, q)
      /\ rows' = InsertRow(version, draft', LoadRows(version, draft, rows, {p}), p, item)
  BY DEF AppendToArray, AppendItem, Visible
<1>2. /\ version \in Versions /\ WellFormed(version, draft) /\ RowsInv(version, draft, rows)
      /\ RowsMirror(version, draft, rows)
  BY DEF TreeInv, RowsInv
<1>3. p \in Paths /\ Resolves(version, p) /\ Anchored(draft, p)
  BY <1>1, <1>2, RowsResolve, RowsAnchor
<1>4. c \in Nat /\ \A i \in Nat : Append(p, IndexSegment(i)) \in DOMAIN draft <=> i < c
  BY <1>2, <1>3, HeldItems DEF WellFormed, IsDraft
<1>5. /\ q \in Paths \ {<<>>} /\ Front(q) = p /\ Last(q) = IndexSegment(c)
      /\ ~IsField(Last(q)) /\ q \notin DOMAIN draft /\ Resolves(version, q)
      /\ Placeable(draft, q)
  <2>1. IndexSegment(c) \in Segments /\ ~IsField(IndexSegment(c))
    BY <1>4, IndexSegments
  <2>2. q \in Paths \ {<<>>} /\ Front(q) = p /\ Last(q) = IndexSegment(c)
    BY <1>3, <2>1, Appended DEF Paths
  <2>3. q \notin DOMAIN draft
    BY <1>4
  <2>4. Resolves(version, q)
    BY <1>1, <1>2, <1>3, <1>4, ChildrenResolve
  <2>5. Placeable(draft, q)
    BY <1>2, <1>3, AnchoredIsPlaceable
  <2>. QED  BY <2>1, <2>2, <2>3, <2>4, <2>5
<1>. HIDE DEF q
<1>6. EntryShows(version, draft, rows, p, q, draft',
                 InsertRow(version, draft', LoadRows(version, draft, rows, {p}), p, q))
  <2>. HIDE DEF item, c
  <2>1. draft' = Materialize(draft, q)
    BY <1>1
  <2>. QED  BY <1>1, <1>2, <1>5, <2>1, NewEntryInv
<1>9. /\ WellFormed(version, draft') /\ DOMAIN draft' = DOMAIN draft \cup Along(q)
      /\ ~IsLeaf(version, p)
  BY <1>1, <1>6 DEF EntryShows, IsLeaf, Structures
<1>7. item = q
  <2>1. /\ ItemCount(draft', p) \in Nat
        /\ \A i \in Nat : Append(p, IndexSegment(i)) \in DOMAIN draft' <=> i < ItemCount(draft', p)
    BY <1>3, <1>9, HeldItems DEF WellFormed, IsDraft
  <2>2. c < ItemCount(draft', p)
    <3>1. q \in Along(q)
      BY <1>5, AlongIsStarts DEF Paths
    <3>. QED  BY <1>4, <1>9, <2>1, <3>1 DEF q
  <2>3. ~(c + 1 < ItemCount(draft', p))
    <3>. DEFINE n == Append(p, IndexSegment(c + 1))
    <3>1. c + 1 \in Nat /\ ~(c + 1 < c)
      BY <1>4
    <3>2. n \notin DOMAIN draft
      BY <1>4, <3>1
    <3>3. /\ n \in Paths \ {<<>>} /\ Front(n) = p /\ Last(n) = IndexSegment(c + 1)
          /\ Last(n) # Last(q) /\ Len(n) = Len(q) /\ Len(n) \in Nat
      <4>1. IndexSegment(c + 1) \in Segments /\ IndexSegment(c) \in Segments
            /\ IndexSegment(c + 1).item = c + 1 /\ IndexSegment(c).item = c
        BY <1>4, <3>1, IndexSegments
      <4>2. /\ n \in Paths \ {<<>>} /\ Front(n) = p /\ Last(n) = IndexSegment(c + 1)
            /\ Len(n) = Len(p) + 1
        BY <1>3, <4>1, Appended DEF Paths
      <4>3. Len(q) = Len(p) + 1 /\ Len(p) \in Nat
        BY <1>3, <4>1, Appended DEF q, Paths
      <4>4. c + 1 # c
        BY <1>4
      <4>. QED  BY <1>5, <4>1, <4>2, <4>3, <4>4
    <3>. HIDE DEF n
    <3>4. n \notin Along(q)
      <4>. SUFFICES ASSUME n \in Along(q) PROVE FALSE
        OBVIOUS
      <4>1. IsAtOrBeneath(q, n)
        BY <1>5, <3>3, AlongIsStarts DEF Paths
      <4>2. q = n
        BY <1>5, <3>3, <4>1, BeneathOrder DEF Paths
      <4>. QED  BY <3>3, <4>2
    <3>. QED  BY <1>9, <2>1, <3>1, <3>2, <3>4 DEF n
  <2>. HIDE DEF c
  <2>4. ItemCount(draft', p) - 1 = c
    BY <1>4, <2>1, <2>2, <2>3
  <2>. QED  BY <2>4 DEF q, c
<1>. HIDE DEF item, c
<1>8. EntryShows(version, draft, rows, p, q, draft', rows')
  BY <1>1, <1>6, <1>7
<1>10. Added(p, q)
  BY <1>5, <1>8, <1>9 DEF Added, EntryShows
<1>. QED  BY <1>1, <1>8, <1>10, MutatedTree DEF EntryShows

LEMMA ConfirmKeyPromptKeepsTree ==
    ASSUME TreeInv, NEW p, ConfirmKeyPrompt(p)
    PROVE  TreeInv' /\ \E q : Added(p, q)
<1>1. p \in DOMAIN rows /\ TypeAt(version, p) = "map" /\ Mutated
  BY DEF ConfirmKeyPrompt, Visible
<1>2. PICK key \in MapKeys \ KeysAt(draft, p) :
        /\ draft' = AddKey(draft, p, key)
        /\ rows' = InsertRow(version, draft', LoadRows(version, draft, rows, {p}), p,
                             Append(p, KeySegment(key)))
  BY DEF ConfirmKeyPrompt
<1>. DEFINE q == Append(p, KeySegment(key))
<1>3. /\ version \in Versions /\ WellFormed(version, draft) /\ RowsInv(version, draft, rows)
      /\ RowsMirror(version, draft, rows)
  BY DEF TreeInv, RowsInv
<1>4. p \in Paths /\ Resolves(version, p) /\ Anchored(draft, p) /\ key \in Nat
  BY <1>1, <1>3, RowsResolve, RowsAnchor, ComposeTreeAssumption
<1>5. /\ q \in Paths \ {<<>>} /\ Front(q) = p /\ ~IsField(Last(q))
      /\ q \notin DOMAIN draft /\ Resolves(version, q) /\ Placeable(draft, q)
  <2>1. KeySegment(key) \in Segments /\ ~IsField(KeySegment(key))
    BY <1>4, KeySegments
  <2>2. q \in Paths \ {<<>>} /\ Front(q) = p /\ Last(q) = KeySegment(key)
    BY <1>4, <2>1, Appended DEF Paths
  <2>3. q \notin DOMAIN draft
    BY <1>3, <1>4, HeldKeys DEF WellFormed, IsDraft
  <2>4. Resolves(version, q)
    BY <1>1, <1>3, <1>4, ChildrenResolve
  <2>5. Placeable(draft, q)
    BY <1>3, <1>4, AnchoredIsPlaceable
  <2>. QED  BY <2>1, <2>2, <2>3, <2>4, <2>5
<1>6. draft' = Materialize(draft, q)
  BY <1>2 DEF AddKey
<1>. HIDE DEF q
<1>7. EntryShows(version, draft, rows, p, q, draft',
                 InsertRow(version, draft', LoadRows(version, draft, rows, {p}), p, q))
  BY <1>1, <1>3, <1>5, <1>6, NewEntryInv
<1>8. EntryShows(version, draft, rows, p, q, draft', rows')
  BY <1>2, <1>7 DEF q
<1>9. ~IsLeaf(version, p)
  BY <1>1 DEF IsLeaf, Structures
<1>10. Added(p, q)
  BY <1>5, <1>8, <1>9 DEF Added, EntryShows
<1>. QED  BY <1>1, <1>8, <1>10, MutatedTree DEF EntryShows

LEMMA PerformUnsetKeepsTree ==
    ASSUME TreeInv, NEW p, PerformUnset(p)
    PROVE  TreeInv'
<1>1. /\ p \in DOMAIN rows /\ p # <<>> /\ p \in DOMAIN draft /\ draft' = Unset(draft, p)
      /\ Mutated
      /\ rows' = IF IsField(Last(p)) THEN ReloadRow(version, draft', rows, p) ELSE RemoveRow(rows, p)
  BY DEF PerformUnset, Visible, Holds
<1>2. /\ version \in Versions /\ WellFormed(version, draft) /\ RowsInv(version, draft, rows)
  BY DEF TreeInv
<1>3. WellFormed(version, draft')
  BY <1>1, <1>2, UnsetIsWellFormed
<1>4. CASE IsField(Last(p))
  <2>1. RowsInv(version, draft', rows')
    BY <1>1, <1>2, <1>4, ReloadRowInv
  <2>. QED  BY <1>1, <1>3, <2>1, MutatedTree
<1>5. CASE ~IsField(Last(p))
  <2>1. RowsInv(version, draft', rows')
    BY <1>1, <1>2, <1>5, RemoveRowInv
  <2>. QED  BY <1>1, <1>3, <2>1, MutatedTree
<1>. QED  BY <1>4, <1>5

(* The walk toward a position the schema has and the Draft anchors gets     *)
(* there: it loads what it passes, and each next row is among it.          *)
LEMMA WalkReaches ==
    ASSUME NEW v \in Versions, NEW d, WellFormed(v, d), NEW r, RowsInv(v, d, r),
           NEW p \in Paths, Resolves(v, p), Anchored(d, p), NEW expand, ~expand
    PROVE  p \in DOMAIN WalkToward(v, d, r, p, expand)
<1>. DEFINE N == Len(p)
            at(n) == SubSeq(p, 1, n)
            Good(n, b) == RowsInv(v, d, b) /\ at(n) \in DOMAIN b
<1>1. p \in Seq(Segments) /\ N \in Nat /\ N = Len(p)
  BY DEF Paths
<1>. HIDE DEF N
<1>2. PICK w : /\ WalkToward(v, d, r, p, expand) = w[N] /\ w[0] = r
               /\ \A n \in 1..N : w[n] = WalkPast(v, d, p, expand, n, w[n - 1])
  BY <1>1, WalkTowardSteps
<1>3. at(0) = <<>> /\ at(N) = p
  BY <1>1, Start
<1>4. ASSUME NEW n \in 1..N, NEW b, Good(n - 1, b)
      PROVE  Good(n, WalkPast(v, d, p, expand, n, b))
  <2>. DEFINE a == at(n - 1)
              q == at(n)
              m == LoadRows(v, d, b, {a})
  <2>1. RowsInv(v, d, b) /\ RowsMirror(v, d, b) /\ a \in DOMAIN b
    BY <1>4 DEF RowsInv
  <2>2. WalkPast(v, d, p, expand, n, b) = m
    BY <2>1 DEF WalkPast
  <2>3. q \in Along(p)
    BY <1>1 DEF Along
  <2>4. Len(q) = n
    BY <1>1, Start
  <2>. HIDE DEF a, q
  <2>5. q \in Paths \ {<<>>} /\ Front(q) = a /\ IsAtOrBeneath(p, q)
    <3>1. /\ q \in Paths \ {<<>>} /\ Front(q) = SubSeq(p, 1, Len(q) - 1)
          /\ IsAtOrBeneath(p, q)
      BY <2>3, AlongPosition
    <3>. QED  BY <2>4, <3>1 DEF a
  <2>6. Addressed(v, d, q)
    <3>1. Resolves(v, q)
      BY <2>5, AboveResolves
    <3>. QED  BY <2>3, <3>1 DEF Anchored, Addressed
  <2>7. {a} \in SUBSET DOMAIN b
    BY <2>1
  <2>8. RowsInv(v, d, m)
    BY <2>1, <2>7, LoadRowsInv
  <2>9. RowsMirror(v, d, m) /\ a \in DOMAIN m /\ m[a].loaded
    BY <2>1, <2>7, LoadRowsBy
  <2>. HIDE DEF m
  <2>10. q \in DOMAIN m
    BY <2>5, <2>6, <2>9 DEF RowsMirror
  <2>. QED  BY <2>2, <2>8, <2>10 DEF q
<1>5. Good(0, r)
  BY <1>3 DEF RowsInv, RowsMirror
<1>. HIDE DEF Good
<1>. DEFINE I == {n \in Nat : n <= N => Good(n, w[n])}
<1>6. 0 \in I
  BY <1>2, <1>5
<1>7. ASSUME NEW n \in Nat, n \in I PROVE n + 1 \in I
  <2>. SUFFICES ASSUME n + 1 <= N PROVE Good(n + 1, w[n + 1])
    OBVIOUS
  <2>1. n <= N /\ n + 1 \in 1..N /\ (n + 1) - 1 = n
    BY <1>1
  <2>2. Good(n, w[n]) /\ w[n + 1] = WalkPast(v, d, p, expand, n + 1, w[n])
    BY <1>2, <1>7, <2>1
  <2>. QED  BY <1>4, <2>1, <2>2
<1>8. N \in I
  <2>. HIDE DEF I
  <2>. QED  BY <1>1, <1>6, <1>7, Induction
<1>9. Good(N, w[N])
  BY <1>1, <1>8
<1>. QED  BY <1>2, <1>3, <1>9 DEF Good

(* The rows after every finding of a report has been looked up, one after   *)
(* another (applyReport): none goes or folds, and what a finding names that *)
(* the schema has and the Draft anchors has its row.                       *)
LEMMA WalkTowardEachInv ==
    ASSUME NEW v \in Versions, NEW d, WellFormed(v, d), NEW r, RowsInv(v, d, r),
           NEW ps, Len(ps) \in Nat, \A n \in 1..Len(ps) : Len(ps[n]) \in Nat
    PROVE  /\ RowsInv(v, d, WalkTowardEach(v, d, r, ps))
           /\ DOMAIN r \subseteq DOMAIN WalkTowardEach(v, d, r, ps)
           /\ KeepsOpen(r, WalkTowardEach(v, d, r, ps))
           /\ KeepsOpen(WalkTowardEach(v, d, r, ps), r)
           /\ \A n \in 1..Len(ps) :
                ps[n] \in Paths /\ Resolves(v, ps[n]) /\ Anchored(d, ps[n]) =>
                  ps[n] \in DOMAIN WalkTowardEach(v, d, r, ps)
<1>. DEFINE N == Len(ps)
            After(n, b) == WalkToward(v, d, b, ps[n], FALSE)
            Walk(m, f) == f = [n \in 0..m |-> IF n = 0 THEN r ELSE After(n, f[n - 1])]
            w == CHOOSE f : Walk(N, f)
            Good(a, b) == /\ RowsInv(v, d, b) /\ DOMAIN a \subseteq DOMAIN b
                          /\ KeepsOpen(a, b) /\ KeepsOpen(b, a)
            Held(n, b) == ps[n] \in Paths /\ Resolves(v, ps[n]) /\ Anchored(d, ps[n]) =>
                            ps[n] \in DOMAIN b
<1>8. WalkTowardEach(v, d, r, ps) = w[N]
  BY DEF WalkTowardEach
<1>1. ASSUME NEW n \in 1..N, NEW b, RowsInv(v, d, b)
      PROVE  Good(b, After(n, b)) /\ Held(n, After(n, b))
  <2>1. Good(b, After(n, b))
    BY <1>1, WalkTowardInv
  <2>2. Held(n, After(n, b))
    BY <1>1, WalkReaches
  <2>. QED  BY <2>1, <2>2
<1>. HIDE DEF After, N
<1>2. N \in Nat
  BY DEF N
<1>3. Walk(N, w)
  <2>. DEFINE T == {m \in Nat : \E f : Walk(m, f)}
  <2>1. 0 \in T
    <3>1. Walk(0, [n \in 0..0 |-> r])
      OBVIOUS
    <3>. QED  BY <3>1
  <2>2. ASSUME NEW m \in Nat, m \in T PROVE m + 1 \in T
    <3>1. PICK f : Walk(m, f)
      BY <2>2
    <3>. DEFINE g == [n \in 0..(m + 1) |-> IF n = m + 1 THEN After(n, f[m]) ELSE f[n]]
    <3>2. \A n \in 0..m : f[n] = IF n = 0 THEN r ELSE After(n, f[n - 1])
      BY <3>1
    <3>3. \A n \in 0..m : g[n] = f[n]
      OBVIOUS
    <3>4. g[m + 1] = After(m + 1, g[m])
      OBVIOUS
    <3>5. ASSUME NEW n \in 0..(m + 1)
          PROVE  g[n] = IF n = 0 THEN r ELSE After(n, g[n - 1])
      <4>1. CASE n = m + 1
        BY <3>4, <4>1
      <4>2. CASE n # m + 1
        <5>1. n \in 0..m /\ (n # 0 => n - 1 \in 0..m)
          BY <4>2
        <5>. HIDE DEF g
        <5>. QED  BY <3>2, <3>3, <5>1
      <4>. QED  BY <4>1, <4>2
    <3>6. Walk(m + 1, g)
      BY <3>5
    <3>. HIDE DEF g, Walk
    <3>. QED  BY <3>6
  <2>. HIDE DEF T
  <2>3. N \in T
    BY <1>2, <2>1, <2>2, Induction
  <2>. QED  BY <2>3 DEF T
<1>4. w[0] = r /\ \A n \in 1..N : w[n] = After(n, w[n - 1])
  <2>. HIDE DEF w
  <2>. QED  BY <1>2, <1>3
<1>. HIDE DEF w
<1>. DEFINE I == {n \in Nat : n <= N => Good(r, w[n]) /\ \A k \in 1..n : Held(k, w[n])}
<1>5. 0 \in I
  BY <1>4 DEF KeepsOpen
<1>6. ASSUME NEW n \in Nat, n \in I PROVE n + 1 \in I
  <2>. SUFFICES ASSUME n + 1 <= N
                PROVE  Good(r, w[n + 1]) /\ \A k \in 1..(n + 1) : Held(k, w[n + 1])
    OBVIOUS
  <2>1. n <= N /\ n + 1 \in 1..N /\ (n + 1) - 1 = n
    BY <1>2
  <2>2. w[n + 1] = After(n + 1, w[n])
    BY <1>4, <2>1
  <2>3. Good(r, w[n]) /\ \A k \in 1..n : Held(k, w[n])
    BY <1>6, <2>1
  <2>4. Good(w[n], w[n + 1]) /\ Held(n + 1, w[n + 1])
    BY <1>1, <2>1, <2>2, <2>3
  <2>5. Good(r, w[n + 1])
    BY <2>3, <2>4 DEF KeepsOpen
  <2>6. ASSUME NEW k \in 1..(n + 1) PROVE Held(k, w[n + 1])
    <3>1. CASE k = n + 1
      BY <2>4, <3>1
    <3>2. CASE k # n + 1
      <4>1. k \in 1..n
        BY <3>2
      <4>. QED  BY <2>3, <2>4, <4>1
    <3>. QED  BY <3>1, <3>2
  <2>. QED  BY <2>5, <2>6
<1>7. N \in I
  <2>. HIDE DEF I
  <2>. QED  BY <1>2, <1>5, <1>6, Induction
<1>9. Good(r, w[N]) /\ \A k \in 1..N : Held(k, w[N])
  BY <1>2, <1>7
<1>. QED  BY <1>8, <1>9 DEF N

(* A cause's field is spelled token by token, whatever it is about.        *)
LEMMA RejectableType ==
    ASSUME TreeInv, NEW cause \in Rejectable
    PROVE  IsSequence(cause.field)
<1>. DEFINE spelled == EmittedPositions(draft)
            name(p) == Append(ManifestPath(draft, Front(p)), Last(p))
            causes(p, fields) == {[about |-> p, field |-> f] : f \in fields}
            absent == {p \in missing : Front(p) = <<>> \/ Front(p) \in spelled}
<1>1. \A p \in spelled : p \in Paths \ {<<>>}
  BY EmittedFacts DEF TreeInv
<1>2. \/ cause \in causes(<<>>, Pathless)
      \/ \E p \in spelled : cause \in causes(p, CauseFields(ManifestPath(draft, p)))
      \/ \E p \in absent : cause \in causes(p, CauseFields(name(p)))
  BY DEF Rejectable
<1>. HIDE DEF spelled
<1>3. CASE cause \in causes(<<>>, Pathless)
  BY <1>3, PathlessType
<1>4. ASSUME NEW p \in spelled, cause \in causes(p, CauseFields(ManifestPath(draft, p)))
      PROVE  IsSequence(cause.field)
  <2>1. ManifestPath(draft, p) \in Paths /\ ManifestPath(draft, p) # <<>>
    BY <1>1, <1>4, ManifestPathBy, FrontLast DEF Paths
  <2>. QED  BY <1>4, <2>1, CauseFieldsType DEF Paths
<1>5. ASSUME NEW p \in absent, cause \in causes(p, CauseFields(name(p)))
      PROVE  IsSequence(cause.field)
  <2>. DEFINE S == Segments \cup {Last(p)}
              f == ManifestPath(draft, Front(p))
  <2>1. Front(p) \in Paths
    <3>1. <<>> \in Paths
      BY DEF Paths
    <3>. QED  BY <1>1, <1>5, <3>1
  <2>2. f \in Paths
    BY <2>1, ManifestPathBy
  <2>3. f \in Seq(S) /\ Last(p) \in S
    <3>1. Len(f) \in Nat /\ \A n \in 1..Len(f) : f[n] \in S
      BY <2>2 DEF Paths
    <3>2. f = [n \in 1..Len(f) |-> f[n]]
      BY <2>2 DEF Paths
    <3>. HIDE DEF f, S
    <3>3. f \in Seq(S)
      BY <3>1, <3>2
    <3>. QED  BY <3>3 DEF S
  <2>4. cause.field \in CauseFields(Append(f, Last(p)))
    BY <1>5
  <2>. HIDE DEF f, S
  <2>6. Append(f, Last(p)) \in Seq(S) /\ Append(f, Last(p)) # <<>>
    BY <2>3, Appended
  <2>. QED  BY <2>4, <2>6, CauseFieldsType
<1>. QED  BY <1>2, <1>3, <1>4, <1>5

LEMMA ApplyReportKeepsTree ==
    ASSUME TreeInv, ApplyReport
    PROVE  TreeInv'
<1>1. /\ version \in Versions /\ WellFormed(version, draft) /\ RowsInv(version, draft, rows)
      /\ missing = MissingRequired(version, draft)
  BY DEF TreeInv
<1>2. PICK count \in 0..MaxCauses :
        \E causes \in [1..count -> Rejectable], message \in {TRUE, count > 0} :
          ShowFindings(MapCauses([n \in 1..count |-> causes[n].field], message))
  BY DEF ApplyReport
<1>3. PICK causes \in [1..count -> Rejectable], message \in {TRUE, count > 0} :
        ShowFindings(MapCauses([n \in 1..count |-> causes[n].field], message))
  BY <1>2
<1>. DEFINE ss == [n \in 1..count |-> causes[n].field]
            fs == MapCauses(ss, message)
<1>4. Len(fs) \in Nat /\ DOMAIN fs = 1..Len(fs) /\ \A n \in 1..Len(fs) : Len(fs[n]) \in Nat
  <2>1. count \in Nat
    <3>1. count \in 0..MaxCauses
      OBVIOUS
    <3>. QED  BY <3>1, ComposeTreeAssumption
  <2>2. /\ DOMAIN ss = 1..count /\ ss = [n \in 1..count |-> ss[n]]
        /\ \A n \in 1..count : IsSequence(ss[n])
    BY RejectableType
  <2>. HIDE DEF ss
  <2>. QED  BY <2>1, <2>2, MapCausesType
<1>. DEFINE reached(n) == fs[n] \in DOMAIN rows' \ {<<>>}
            first(n) == \A m \in 1..(n - 1) : fs[m] # fs[n]
            N == {n \in DOMAIN fs : reached(n) /\ first(n)}
            M == {n \in DOMAIN fs : ~reached(n)}
<1>13. ShowFindings(fs)
  BY <1>3
<1>. HIDE DEF ss, fs
<1>5. /\ rows' = WalkTowardEach(version, draft, rows, fs)
      /\ validation' = [mapped |-> Picked(fs, N), unmappable |-> Cardinality(M),
                        next |-> 1, stale |-> FALSE]
      /\ UNCHANGED <<version, draft, missing>>
  BY <1>13 DEF ShowFindings
<1>6. RowsInv(version, draft, rows')
  BY <1>1, <1>4, <1>5, WalkTowardEachInv
<1>7. /\ N \subseteq 1..Len(fs) /\ M \subseteq 1..Len(fs)
      /\ \A n \in N : n \in Nat /\ fs[n] \in DOMAIN rows'
  BY <1>4
<1>. HIDE DEF N, M
<1>8. IsFiniteSet(N) /\ Cardinality(M) \in Nat
  <2>1. IsFiniteSet(1..Len(fs))
    BY <1>4, FS_Interval
  <2>. QED  BY <1>7, <2>1, FS_Subset, FS_CardinalityType
<1>. DEFINE mapped == Picked(fs, N)
<1>9. mapped \in Seq(DOMAIN rows')
  BY <1>7, <1>8, PickedType
<1>10. DOMAIN rows' \subseteq Paths
  BY <1>6 DEF RowsInv, RowsMirror
<1>. HIDE DEF mapped
<1>11. /\ mapped \in Seq(Paths)
       /\ mapped # <<>> => 1 \in DOMAIN mapped
       /\ \A n \in DOMAIN mapped : mapped[n] \in DOMAIN rows'
  BY <1>9, <1>10
<1>12. OutcomeInv(validation', rows')
  <2>. DEFINE c == Cardinality(M)
              state == [mapped |-> mapped, unmappable |-> c, next |-> 1, stale |-> FALSE]
  <2>1. validation' = state /\ c \in Nat
    BY <1>5, <1>8 DEF mapped
  <2>. HIDE DEF c
  <2>. HIDE DEF mapped
  <2>2. mapped \in Seq(Paths) /\ c \in Nat
    BY <1>11, <2>1
  <2>3. /\ state \in [mapped : Seq(Paths), unmappable : Nat, next : Nat, stale : BOOLEAN]
        /\ state.mapped = mapped /\ state.next = 1
    BY <2>2
  <2>. HIDE DEF state
  <2>. QED  BY <1>11, <2>1, <2>3 DEF OutcomeInv
<1>. QED  BY <1>1, <1>5, <1>6, <1>12 DEF TreeInv

LEMMA ValidatePlainlyKeepsTree ==
    ASSUME TreeInv, ValidatePlainly
    PROVE  TreeInv'
<1>1. validation' = Findingless /\ UNCHANGED <<version, draft, missing, rows>>
  BY DEF ValidatePlainly
<1>2. OutcomeInv(Findingless, rows)
  <2>1. <<>> \in Seq(Paths)
    OBVIOUS
  <2>. HIDE DEF Paths
  <2>2. /\ Findingless \in [mapped : Seq(Paths), unmappable : Nat, next : Nat, stale : BOOLEAN]
        /\ Findingless.mapped = <<>>
    BY <2>1 DEF Findingless
  <2>. QED  BY <2>2 DEF OutcomeInv
<1>. QED  BY <1>1, <1>2 DEF TreeInv

LEMMA JumpToFindingKeepsTree ==
    ASSUME TreeInv, JumpToFinding
    PROVE  TreeInv'
<1>. DEFINE next == validation.next
            mapped == validation.mapped
<1>1. /\ validation # Null /\ mapped # <<>>
      /\ rows' = WalkToward(version, draft, rows, mapped[next], TRUE)
      /\ validation' = [validation EXCEPT !.next = 1 + (@ % Len(mapped))]
      /\ UNCHANGED <<version, draft, missing>>
  BY DEF JumpToFinding
<1>2. /\ version \in Versions /\ WellFormed(version, draft) /\ RowsInv(version, draft, rows)
      /\ OutcomeInv(validation, rows)
  BY DEF TreeInv
<1>3. /\ validation \in [mapped : Seq(Paths), unmappable : Nat, next : Nat, stale : BOOLEAN]
      /\ mapped \in Seq(Paths) /\ next \in DOMAIN mapped
      /\ ~validation.stale => \A n \in DOMAIN mapped : mapped[n] \in DOMAIN rows
  BY <1>1, <1>2 DEF OutcomeInv
<1>4. Len(mapped[next]) \in Nat
  <2>1. mapped[next] \in Paths
    <3>. HIDE DEF mapped, next
    <3>. QED  BY <1>3
  <2>. QED  BY <2>1 DEF Paths
<1>5. RowsInv(version, draft, rows') /\ DOMAIN rows \subseteq DOMAIN rows'
  BY <1>1, <1>2, <1>4, WalkTowardInv
<1>6. 1 + (next % Len(mapped)) \in Nat /\ 1 + (next % Len(mapped)) \in DOMAIN mapped
  <2>. HIDE DEF mapped, next
  <2>1. Len(mapped) \in Nat /\ Len(mapped) > 0 /\ DOMAIN mapped = 1..Len(mapped) /\ next \in Nat
    BY <1>1, <1>3
  <2>2. next % Len(mapped) \in 0..(Len(mapped) - 1)
    BY <2>1
  <2>. QED  BY <2>1, <2>2
<1>7. OutcomeInv(validation', rows')
  <2>. DEFINE after == 1 + (next % Len(mapped))
  <2>1. validation' = [validation EXCEPT !.next = after]
    BY <1>1
  <2>2. after \in Nat /\ after \in DOMAIN mapped
    BY <1>6
  <2>. HIDE DEF after
  <2>3. /\ validation' \in [mapped : Seq(Paths), unmappable : Nat, next : Nat, stale : BOOLEAN]
        /\ validation'.mapped = mapped /\ validation'.next = after
        /\ validation'.stale = validation.stale
    BY <1>3, <2>1, <2>2
  <2>4. ~validation.stale => \A n \in DOMAIN mapped : mapped[n] \in DOMAIN rows'
    BY <1>3, <1>5
  <2>. HIDE DEF mapped
  <2>. QED  BY <2>2, <2>3, <2>4 DEF OutcomeInv
<1>. QED  BY <1>1, <1>2, <1>5, <1>7 DEF TreeInv

LEMMA SelectSearchMatchKeepsTree ==
    ASSUME TreeInv, SelectSearchMatch
    PROVE  TreeInv'
<1>1. PICK s \in Candidates[version] : rows' = Landing(version, draft, rows, s).rows
  BY DEF SelectSearchMatch
<1>2. UNCHANGED <<version, draft, missing, validation>>
  BY DEF SelectSearchMatch
<1>3. /\ version \in Versions /\ WellFormed(version, draft) /\ RowsInv(version, draft, rows)
  BY DEF TreeInv
<1>4. Len(s) \in Nat
  BY <1>3, TreeFacts DEF Candidates
<1>5. RowsInv(version, draft, rows') /\ DOMAIN rows \subseteq DOMAIN rows'
  BY <1>1, <1>3, <1>4, LandingInv
<1>. QED  BY <1>2, <1>5, RowsGrow

LEMMA CommitVersionSwitchKeepsTree ==
    ASSUME TreeInv, NEW target \in Versions, CommitVersionSwitch(target)
    PROVE  TreeInv'
<1>1. /\ version' = target /\ draft' = CarryOver(draft, target)
      /\ missing' = MissingRequired(target, draft') /\ validation' = Null
  BY DEF CommitVersionSwitch, SwitchTo
<1>2. PICK focus \in Focusable :
        rows' = LandAfterSwitch(target, draft', OpenedRows(target, draft'), focus).rows
  BY <1>1 DEF CommitVersionSwitch, SwitchLands
<1>3. WellFormed(target, draft')
  BY <1>1, CarryOverIsWellFormed DEF TreeInv
<1>4. RowsInv(target, draft', OpenedRows(target, draft'))
  BY <1>3, OpenedRowsInv
<1>5. RowsInv(target, draft', rows')
  BY <1>2, <1>3, <1>4, LandAfterSwitchInv
<1>. QED  BY <1>1, <1>3, <1>5 DEF TreeInv, OutcomeInv

LEMMA StutterKeepsTree == TreeInv /\ UNCHANGED vars => TreeInv'
BY DEF TreeInv, vars

(* Every reachable state satisfies it: one step of the proof per action.   *)
THEOREM TreeTheorem == Spec => []TreeInv
<1>1. TreeInv /\ [Next]_vars => TreeInv'
  <2>1. SUFFICES ASSUME TreeInv, Next PROVE TreeInv'
    BY StutterKeepsTree
  <2>2. Step
    BY <2>1 DEF Next
  <2>3. CASE \E p \in DOMAIN rows : ToggleFocused(p)
    BY <2>1, <2>3, ToggleKeepsTree
  <2>4. CASE \E p \in DOMAIN rows : ConfirmEditor(p)
    BY <2>1, <2>4, ConfirmEditorKeepsTree
  <2>5. CASE \E p \in DOMAIN rows : AppendToArray(p)
    BY <2>1, <2>5, AppendToArrayKeepsTree
  <2>6. CASE \E p \in DOMAIN rows : ConfirmKeyPrompt(p)
    BY <2>1, <2>6, ConfirmKeyPromptKeepsTree
  <2>7. CASE \E p \in DOMAIN rows : PerformUnset(p)
    BY <2>1, <2>7, PerformUnsetKeepsTree
  <2>8. CASE \E p \in GatePaths : ConfirmGatePrompt(p)
    BY <2>1, <2>8, ConfirmGatePromptKeepsTree
  <2>9. CASE ValidatePlainly
    BY <2>1, <2>9, ValidatePlainlyKeepsTree
  <2>10. CASE ApplyReport
    BY <2>1, <2>10, ApplyReportKeepsTree
  <2>11. CASE JumpToFinding
    BY <2>1, <2>11, JumpToFindingKeepsTree
  <2>12. CASE SelectSearchMatch
    BY <2>1, <2>12, SelectSearchMatchKeepsTree
  <2>13. CASE \E target \in Versions : CommitVersionSwitch(target)
    BY <2>1, <2>13, CommitVersionSwitchKeepsTree
  <2>. QED
    BY <2>2, <2>3, <2>4, <2>5, <2>6, <2>7, <2>8, <2>9, <2>10, <2>11, <2>12, <2>13 DEF Step
<1>. QED  BY <1>1, InitTree, PTL DEF Spec

-----------------------------------------------------------------------------
(* The contents of items.                                                  *)

LEMMA Joined ==
    ASSUME NEW b \in Paths, NEW q \in Paths
    PROVE  /\ b \o q \in Paths /\ Len(b \o q) = Len(b) + Len(q)
           /\ \A n \in 1..Len(b) : (b \o q)[n] = b[n]
           /\ \A n \in 1..Len(q) : (b \o q)[Len(b) + n] = q[n]
           /\ IsAtOrBeneath(b \o q, b)
           /\ SubSeq(b \o q, Len(b) + 1, Len(b \o q)) = q
<1>1. Len(b) \in Nat /\ Len(q) \in Nat /\ b \in Seq(Segments) /\ q \in Seq(Segments)
  BY DEF Paths
<1>2. /\ b \o q \in Seq(Segments) /\ Len(b \o q) = Len(b) + Len(q)
      /\ \A n \in 1..Len(b) : (b \o q)[n] = b[n]
      /\ \A n \in 1..Len(q) : (b \o q)[Len(b) + n] = q[n]
  BY <1>1
<1>3. IsAtOrBeneath(b \o q, b)
  BY <1>1, <1>2 DEF IsAtOrBeneath
<1>4. SubSeq(b \o q, Len(b) + 1, Len(b \o q)) = q
  <2>. DEFINE r == SubSeq(b \o q, Len(b) + 1, Len(b \o q))
  <2>1. r \in Seq(Segments) /\ Len(r) = Len(q) /\ \A n \in 1..Len(r) : r[n] = q[n]
    BY <1>1, <1>2
  <2>. HIDE DEF r
  <2>2. r = q
    BY <1>1, <2>1, SameSequence
  <2>. QED  BY <2>2 DEF r
<1>. QED  BY <1>2, <1>3, <1>4 DEF Paths

LEMMA Remainder ==
    ASSUME NEW b \in Paths, NEW o \in Paths, IsAtOrBeneath(o, b)
    PROVE  /\ SubSeq(o, Len(b) + 1, Len(o)) \in Paths
           /\ b \o SubSeq(o, Len(b) + 1, Len(o)) = o
<1>. DEFINE r == SubSeq(o, Len(b) + 1, Len(o))
<1>1. /\ Len(b) \in Nat /\ Len(o) \in Nat /\ b \in Seq(Segments) /\ o \in Seq(Segments)
      /\ Len(b) <= Len(o) /\ \A n \in 1..Len(b) : o[n] = b[n]
  BY DEF Paths, IsAtOrBeneath
<1>2. r \in Seq(Segments) /\ Len(r) = Len(o) - Len(b)
      /\ \A n \in 1..Len(r) : r[n] = o[Len(b) + n]
  BY <1>1
<1>. HIDE DEF r
<1>3. b \o r \in Seq(Segments) /\ Len(b \o r) = Len(o)
  BY <1>1, <1>2
<1>4. ASSUME NEW n \in 1..Len(o) PROVE (b \o r)[n] = o[n]
  <2>1. CASE n <= Len(b)
    BY <1>1, <1>2, <2>1
  <2>2. CASE n > Len(b)
    <3>1. n - Len(b) \in 1..Len(r) /\ Len(b) + (n - Len(b)) = n
      BY <1>1, <1>2, <2>2
    <3>2. (b \o r)[n] = r[n - Len(b)]
      BY <1>1, <1>2, <2>2
    <3>. QED  BY <1>2, <3>1, <3>2
  <2>3. n <= Len(b) \/ n > Len(b)
    <3>1. Len(b) \in Nat
      BY <1>1
    <3>. QED  BY <3>1
  <2>. QED  BY <2>1, <2>2, <2>3
<1>5. b \o r = o
  BY <1>1, <1>3, <1>4, SameSequence
<1>. QED  BY <1>2, <1>5 DEF r, Paths

LEMMA ContentBy ==
    ASSUME NEW d, DOMAIN d \subseteq Paths, NEW b \in Paths
    PROVE  /\ DOMAIN Content(d, b) = {q \in Paths : b \o q \in DOMAIN d}
           /\ Content(d, b) = [q \in {r \in Paths : b \o r \in DOMAIN d} |-> d[b \o q]]
<1>. DEFINE D == {SubSeq(o, Len(b) + 1, Len(o)) : o \in {h \in DOMAIN d : IsAtOrBeneath(h, b)}}
            E == {q \in Paths : b \o q \in DOMAIN d}
<1>1. ASSUME NEW q \in D PROVE q \in E
  BY <1>1, Remainder
<1>2. ASSUME NEW q \in E PROVE q \in D
  <2>1. /\ b \o q \in DOMAIN d /\ IsAtOrBeneath(b \o q, b)
        /\ q = SubSeq(b \o q, Len(b) + 1, Len(b \o q))
    BY <1>2, Joined
  <2>. QED  BY <2>1
<1>3. D = E
  <2>. HIDE DEF D, E
  <2>. QED  BY <1>1, <1>2
<1>4. Content(d, b) = [q \in D |-> d[b \o q]]
  BY DEF Content
<1>. HIDE DEF D
<1>. QED  BY <1>3, <1>4

LEMMA SameContent ==
    ASSUME NEW d, DOMAIN d \subseteq Paths, NEW e, DOMAIN e \subseteq Paths,
           NEW b \in Paths, NEW c \in Paths,
           \A q \in Paths : b \o q \in DOMAIN d <=> c \o q \in DOMAIN e,
           \A q \in Paths : b \o q \in DOMAIN d => d[b \o q] = e[c \o q]
    PROVE  Content(d, b) = Content(e, c)
<1>. DEFINE D == {q \in Paths : b \o q \in DOMAIN d}
            E == {q \in Paths : c \o q \in DOMAIN e}
<1>1. D = E
  OBVIOUS
<1>2. Content(d, b) = [q \in D |-> d[b \o q]]
  BY ContentBy
<1>3. Content(e, c) = [q \in E |-> e[c \o q]]
  BY ContentBy
<1>4. \A q \in D : d[b \o q] = e[c \o q]
  OBVIOUS
<1>. HIDE DEF D, E
<1>. QED  BY <1>1, <1>2, <1>3, <1>4

(* The items of an array, one by one.                                      *)
LEMMA ItemsBy ==
    ASSUME NEW v, NEW d, WellFormed(v, d), NEW p \in Paths
    PROVE  /\ ItemCount(d, p) \in Nat /\ DOMAIN ItemsAt(d, p) = 1..ItemCount(d, p)
           /\ Len(ItemsAt(d, p)) = ItemCount(d, p)
           /\ \A n \in 1..ItemCount(d, p) :
                /\ n - 1 \in Nat
                /\ Append(p, IndexSegment(n - 1)) \in DOMAIN d
                /\ ItemsAt(d, p)[n] = Content(d, Append(p, IndexSegment(n - 1)))
<1>1. /\ ItemCount(d, p) \in Nat
      /\ \A i \in Nat : Append(p, IndexSegment(i)) \in DOMAIN d <=> i < ItemCount(d, p)
  BY HeldItems DEF WellFormed, IsDraft
<1>2. ASSUME NEW n \in 1..ItemCount(d, p)
      PROVE  n - 1 \in Nat /\ Append(p, IndexSegment(n - 1)) \in DOMAIN d
  BY <1>1, n - 1 \in Nat /\ n - 1 < ItemCount(d, p)
<1>3. /\ DOMAIN ItemsAt(d, p) = 1..ItemCount(d, p)
      /\ \A n \in 1..ItemCount(d, p) :
           ItemsAt(d, p)[n] = Content(d, Append(p, IndexSegment(n - 1)))
  BY DEF ItemsAt
<1>4. Len(ItemsAt(d, p)) = ItemCount(d, p)
  <2>. DEFINE N == ItemCount(d, p)
              f(n) == Content(d, Append(p, IndexSegment(n - 1)))
  <2>1. ItemsAt(d, p) = [n \in 1..N |-> f(n)] /\ N \in Nat
    BY <1>1 DEF ItemsAt
  <2>. HIDE DEF N, f
  <2>2. Len(ItemsAt(d, p)) = N
    BY <2>1
  <2>. QED  BY <2>2 DEF N
<1>. QED  BY <1>1, <1>2, <1>3, <1>4

LEMMA ItemPosition ==
    ASSUME NEW p \in Paths, NEW i \in Nat
    PROVE  LET b == Append(p, IndexSegment(i)) IN
           /\ b \in Paths \ {<<>>} /\ Front(b) = p /\ Last(b) = IndexSegment(i)
           /\ IsItem(Last(b)) /\ ~IsField(Last(b)) /\ Last(b).item = i
           /\ Len(p) \in Nat /\ Len(b) = Len(p) + 1
           /\ \A j \in Nat : Append(p, IndexSegment(j)) = b => j = i
<1>1. \A j \in Nat : /\ IndexSegment(j) \in Segments /\ IndexSegment(j).item = j
                     /\ IsItem(IndexSegment(j)) /\ ~IsField(IndexSegment(j))
  BY IndexSegments
<1>2. \A j \in Nat : LET b == Append(p, IndexSegment(j)) IN
        /\ b \in Paths \ {<<>>} /\ Front(b) = p /\ Last(b) = IndexSegment(j)
        /\ Len(b) = Len(p) + 1
  BY <1>1, Appended DEF Paths
<1>3. Len(p) \in Nat
  BY DEF Paths
<1>. QED  BY <1>1, <1>2, <1>3

(* An array that holds the same indexes has as many items.                 *)
LEMMA SameCount ==
    ASSUME NEW v, NEW d, WellFormed(v, d), NEW w, NEW e, WellFormed(w, e), NEW p \in Paths,
           \A i \in Nat : Append(p, IndexSegment(i)) \in DOMAIN d
                            <=> Append(p, IndexSegment(i)) \in DOMAIN e
    PROVE  ItemCount(d, p) = ItemCount(e, p)
<1>. DEFINE m == ItemCount(d, p)
            n == ItemCount(e, p)
<1>1. /\ m \in Nat /\ n \in Nat
      /\ \A i \in Nat : (Append(p, IndexSegment(i)) \in DOMAIN d <=> i < m)
                        /\ (Append(p, IndexSegment(i)) \in DOMAIN e <=> i < n)
  BY HeldItems DEF WellFormed, IsDraft
<1>2. \A i \in Nat : i < m <=> i < n
  BY <1>1
<1>. HIDE DEF m, n
<1>3. m = n
  <2>1. ~(m < n) /\ ~(n < m)
    BY <1>1, <1>2
  <2>. QED  BY <1>1, <2>1
<1>. QED  BY <1>3 DEF m, n

(* Items whose contents stay, but for what is above a given position: of    *)
(* the items of one array, that is one at most.                            *)
LEMMA OneItemChanges ==
    ASSUME NEW v, NEW d, WellFormed(v, d), NEW w, NEW e, WellFormed(w, e),
           NEW p \in Paths, NEW t \in Paths, ItemCount(d, p) = ItemCount(e, p),
           \A i \in Nat :
              LET b == Append(p, IndexSegment(i)) IN
              b \in DOMAIN d /\ ~IsAtOrBeneath(t, b) => Content(e, b) = Content(d, b)
    PROVE  ItemsKept(d, e, p)
<1>. DEFINE before == ItemsAt(d, p)
            after == ItemsAt(e, p)
            N == ItemCount(d, p)
            b(n) == Append(p, IndexSegment(n - 1))
<1>1. /\ N \in Nat /\ DOMAIN before = 1..N /\ Len(after) = Len(before)
      /\ \A n \in 1..N : /\ n - 1 \in Nat /\ b(n) \in DOMAIN d
                         /\ before[n] = Content(d, b(n)) /\ after[n] = Content(e, b(n))
  BY ItemsBy
<1>2. ASSUME NEW m \in 1..N, NEW n \in 1..N, after[m] # before[m], after[n] # before[n]
      PROVE  m = n
  <2>1. IsAtOrBeneath(t, b(m)) /\ IsAtOrBeneath(t, b(n))
    BY <1>1, <1>2
  <2>2. /\ b(m) \in Paths /\ b(n) \in Paths /\ Len(b(m)) = Len(b(n)) /\ Len(b(m)) \in Nat
        /\ b(m) = b(n) => m - 1 = n - 1
    BY <1>1, ItemPosition
  <2>. HIDE DEF b
  <2>3. b(m) = b(n)
    BY <2>1, <2>2, BeneathOrder DEF Paths
  <2>4. m - 1 = n - 1
    BY <2>2, <2>3
  <2>. QED  BY <1>1, <2>4
<1>. HIDE DEF before, after, N
<1>3. /\ Len(after) = Len(before)
      /\ \A m, n \in DOMAIN before : after[m] # before[m] /\ after[n] # before[n] => m = n
  BY <1>1, <1>2
<1>. QED  BY <1>3 DEF ItemsKept, before, after

-----------------------------------------------------------------------------
(* Setting a value, appending an item and adding a key.                    *)

(* A Draft that only grew along t, and changed at most there.              *)
GrewAlong(d, e, t) ==
    /\ DOMAIN e = DOMAIN d \cup Along(t)
    /\ \A q \in DOMAIN d \ {t} : e[q] = d[q]

LEMMA GrewElsewhere ==
    ASSUME NEW v, NEW d, WellFormed(v, d), NEW w, NEW e, WellFormed(w, e),
           NEW t \in Paths, GrewAlong(d, e, t),
           NEW b \in Paths, ~IsAtOrBeneath(t, b)
    PROVE  Content(e, b) = Content(d, b)
<1>1. /\ DOMAIN d \subseteq Paths /\ DOMAIN e \subseteq Paths
      /\ DOMAIN e = DOMAIN d \cup Along(t) /\ \A q \in DOMAIN d \ {t} : e[q] = d[q]
  BY DEF WellFormed, IsDraft, GrewAlong
<1>2. ASSUME NEW q \in Paths PROVE b \o q \in Paths /\ b \o q \notin Along(t) /\ b \o q # t
  <2>1. b \o q \in Paths /\ IsAtOrBeneath(b \o q, b)
    BY Joined
  <2>2. ~IsAtOrBeneath(t, b \o q)
    BY <2>1, BeneathOrder DEF Paths
  <2>3. b \o q \notin Along(t)
    BY <2>1, <2>2, AlongPosition
  <2>4. b \o q # t
    BY <2>2, BeneathOrder DEF Paths
  <2>. QED  BY <2>1, <2>3, <2>4
<1>3. \A q \in Paths : b \o q \in DOMAIN d <=> b \o q \in DOMAIN e
  BY <1>1, <1>2
<1>4. \A q \in Paths : b \o q \in DOMAIN d => d[b \o q] = e[b \o q]
  BY <1>1, <1>2
<1>. QED  BY <1>1, <1>3, <1>4, SameContent

(* A new or filled position changes the items above it only, unless it is   *)
(* a new item of the array.                                                *)
LEMMA GrowthKeepsItems ==
    ASSUME NEW v, NEW d, WellFormed(v, d), NEW w, NEW e, WellFormed(w, e),
           NEW t \in Paths, GrewAlong(d, e, t), NEW p \in Paths,
           \A q \in Along(t) : IsItem(Last(q)) /\ Front(q) = p => q \in DOMAIN d
    PROVE  ItemsKept(d, e, p)
<1>1. DOMAIN e = DOMAIN d \cup Along(t)
  BY DEF GrewAlong
<1>2. ASSUME NEW i \in Nat
      PROVE  Append(p, IndexSegment(i)) \in DOMAIN d <=> Append(p, IndexSegment(i)) \in DOMAIN e
  BY <1>1, ItemPosition
<1>3. ItemCount(d, p) = ItemCount(e, p)
  BY <1>2, SameCount
<1>4. ASSUME NEW i \in Nat, ~IsAtOrBeneath(t, Append(p, IndexSegment(i)))
      PROVE  Content(e, Append(p, IndexSegment(i))) = Content(d, Append(p, IndexSegment(i)))
  <2>1. Append(p, IndexSegment(i)) \in Paths
    BY ItemPosition
  <2>. QED  BY <1>4, <2>1, GrewElsewhere
<1>. QED  BY <1>3, <1>4, OneItemChanges

(* A position whose items and keys are all held is no new item.            *)
LEMMA AnchoredAddsNoItem ==
    ASSUME NEW d, NEW t \in Paths, Anchored(d, t)
    PROVE  \A q \in Along(t) : IsItem(Last(q)) => q \in DOMAIN d
<1>. SUFFICES ASSUME NEW q \in Along(t), IsItem(Last(q)) PROVE q \in DOMAIN d
  OBVIOUS
<1>1. q \in Paths \ {<<>>}
  BY AlongPosition
<1>2. ~IsField(Last(q))
  BY <1>1, SchemaPathFront, SegmentKinds
<1>. QED  BY <1>2 DEF Anchored

LEMMA SetKeepsItems ==
    ASSUME NEW v \in Versions, NEW d, WellFormed(v, d),
           NEW t \in Paths \ {<<>>}, Resolves(v, t), Placeable(d, t), Anchored(d, t),
           NEW x \in Admissible(v, t), NEW p \in Paths
    PROVE  ItemsKept(d, Set(v, d, t, x), p)
<1>. DEFINE e == Set(v, d, t, x)
<1>1. WellFormed(v, e) /\ DOMAIN e = DOMAIN d \cup Along(t)
  BY SetIsWellFormed
<1>2. \A q \in DOMAIN d \ {t} : e[q] = d[q]
  BY DEF Set, Materialize
<1>3. GrewAlong(d, e, t)
  BY <1>1, <1>2 DEF GrewAlong
<1>4. \A q \in Along(t) : IsItem(Last(q)) => q \in DOMAIN d
  BY AnchoredAddsNoItem
<1>. HIDE DEF e
<1>5. ItemsKept(d, e, p)
  BY <1>1, <1>3, <1>4, GrowthKeepsItems
<1>. QED  BY <1>5 DEF e

(* An entry that is new is empty, and what is above it is not an item of    *)
(* another array.                                                          *)
LEMMA NewEntry ==
    ASSUME NEW v \in Versions, NEW d, WellFormed(v, d), NEW a \in Paths, Anchored(d, a),
           NEW s \in Segments, ~IsField(s), Resolves(v, Append(a, s)),
           Placeable(d, Append(a, s)), Append(a, s) \notin DOMAIN d
    PROVE  LET t == Append(a, s)
               e == Materialize(d, t)
           IN  /\ t \in Paths \ {<<>>} /\ WellFormed(v, e) /\ GrewAlong(d, e, t)
               /\ \A q \in Along(t) : IsItem(Last(q)) /\ q # t => q \in DOMAIN d
               /\ Content(e, t) = [q \in {<<>>} |-> Null]
<1>. DEFINE t == Append(a, s)
            e == Materialize(d, t)
<1>1. t \in Paths \ {<<>>} /\ Front(t) = a /\ Last(t) = s
  BY Appended DEF Paths
<1>9. Resolves(v, t) /\ Placeable(d, t) /\ ~IsField(Last(t))
  BY <1>1
<1>. HIDE DEF t
<1>2. WellFormed(v, e) /\ DOMAIN e = DOMAIN d \cup Along(t)
  BY <1>1, <1>9, EntryIsWellFormed
<1>3. GrewAlong(d, e, t)
  BY <1>2 DEF GrewAlong, Materialize
<1>4. t \in Along(t) /\ Along(t) = Along(a) \cup {t} /\ t \notin DOMAIN d
  BY <1>1, AlongIsStarts DEF Paths, t
<1>5. \A q \in Along(t) : IsItem(Last(q)) /\ q # t => q \in DOMAIN d
  BY <1>4, AnchoredAddsNoItem
<1>6. e[t] = Null
  BY <1>4 DEF Materialize
<1>. HIDE DEF e
<1>7. \A q \in Paths : t \o q \in DOMAIN e <=> q = <<>>
  <2>1. <<>> \in Paths /\ t \o <<>> = t /\ t \in DOMAIN e
    BY <1>1, <1>2, <1>4 DEF Paths
  <2>2. ASSUME NEW q \in Paths, t \o q \in DOMAIN e PROVE q = <<>>
    <3>1. /\ t \o q \in Paths /\ IsAtOrBeneath(t \o q, t)
          /\ Len(t \o q) = Len(t) + Len(q)
      BY <1>1, Joined
    <3>2. t \o q \notin DOMAIN d
      BY <1>1, <1>4, <3>1, DraftAbove DEF WellFormed
    <3>3. t \o q \in Along(t)
      BY <1>2, <2>2, <3>2
    <3>4. Len(t \o q) \in 1..Len(t)
      BY <1>1, <3>3, AlongPosition
    <3>5. Len(q) = 0
      <4>1. Len(t) \in Nat /\ Len(q) \in Nat
        BY <1>1 DEF Paths
      <4>. QED  BY <3>1, <3>4, <4>1
    <3>. QED  BY <3>5 DEF Paths
  <2>. QED  BY <2>1, <2>2
<1>8. Content(e, t) = [q \in {<<>>} |-> Null]
  <2>1. DOMAIN e \subseteq Paths
    BY <1>2 DEF WellFormed, IsDraft
  <2>2. Content(e, t) = [q \in {r \in Paths : t \o r \in DOMAIN e} |-> e[t \o q]]
    BY <1>1, <2>1, ContentBy
  <2>3. {r \in Paths : t \o r \in DOMAIN e} = {<<>>}
    <3>1. <<>> \in Paths
      BY DEF Paths
    <3>. QED  BY <1>7, <3>1
  <2>4. t \o <<>> = t
    BY <1>1 DEF Paths
  <2>. QED  BY <1>6, <2>2, <2>3, <2>4
<1>. QED  BY <1>1, <1>2, <1>3, <1>5, <1>8 DEF t, e

LEMMA AddKeyKeepsItems ==
    ASSUME NEW v \in Versions, NEW d, WellFormed(v, d), NEW a \in Paths, Anchored(d, a),
           Resolves(v, a), TypeAt(v, a) = "map", NEW key \in Nat, key \notin KeysAt(d, a),
           NEW p \in Paths
    PROVE  ItemsKept(d, AddKey(d, a, key), p)
<1>. DEFINE t == Append(a, KeySegment(key))
            e == Materialize(d, t)
<1>1. KeySegment(key) \in Segments /\ ~IsField(KeySegment(key)) /\ ~IsItem(KeySegment(key))
  BY KeySegments
<1>2. Resolves(v, t) /\ Placeable(d, t)
  BY ChildrenResolve, AnchoredIsPlaceable
<1>3. t \notin DOMAIN d
  BY HeldKeys DEF WellFormed, IsDraft
<1>4. Last(t) = KeySegment(key)
  BY <1>1, Appended DEF Paths
<1>5. /\ t \in Paths \ {<<>>} /\ WellFormed(v, e) /\ GrewAlong(d, e, t)
      /\ \A q \in Along(t) : IsItem(Last(q)) /\ q # t => q \in DOMAIN d
  BY <1>1, <1>2, <1>3, NewEntry
<1>. HIDE DEF t, e
<1>6. \A q \in Along(t) : IsItem(Last(q)) => q \in DOMAIN d
  BY <1>1, <1>4, <1>5
<1>7. ItemsKept(d, e, p)
  BY <1>5, <1>6, GrowthKeepsItems
<1>. QED  BY <1>7 DEF AddKey, e, t

LEMMA AppendKeepsItems ==
    ASSUME NEW v \in Versions, NEW d, WellFormed(v, d), NEW a \in Paths, Anchored(d, a),
           Resolves(v, a), TypeAt(v, a) = "array", NEW p \in Paths
    PROVE  ItemsKept(d, AppendItem(d, a), p)
<1>. DEFINE c == ItemCount(d, a)
            t == Append(a, IndexSegment(c))
            e == Materialize(d, t)
<1>1. c \in Nat /\ \A i \in Nat : Append(a, IndexSegment(i)) \in DOMAIN d <=> i < c
  BY HeldItems DEF WellFormed, IsDraft
<1>2. IndexSegment(c) \in Segments /\ ~IsField(IndexSegment(c))
  BY <1>1, IndexSegments
<1>3. Resolves(v, t) /\ Placeable(d, t) /\ t \notin DOMAIN d
  BY <1>1, ChildrenResolve, AnchoredIsPlaceable
<1>4. Front(t) = a /\ \A i \in Nat : Append(a, IndexSegment(i)) = t => i = c
  BY <1>1, ItemPosition
<1>5. /\ t \in Paths \ {<<>>} /\ WellFormed(v, e) /\ GrewAlong(d, e, t)
      /\ \A q \in Along(t) : IsItem(Last(q)) /\ q # t => q \in DOMAIN d
      /\ Content(e, t) = [q \in {<<>>} |-> Null]
  BY <1>2, <1>3, NewEntry
<1>6. DOMAIN e = DOMAIN d \cup Along(t)
  BY <1>5 DEF GrewAlong
<1>. HIDE DEF e
<1>7. CASE p # a
  <2>. HIDE DEF t, c
  <2>1. \A q \in Along(t) : IsItem(Last(q)) /\ Front(q) = p => q \in DOMAIN d
    BY <1>4, <1>5, <1>7
  <2>. QED  BY <1>5, <2>1, GrowthKeepsItems DEF AppendItem, e, t, c
<1>8. CASE p = a
  <2>1. \A i \in Nat : Append(a, IndexSegment(i)) \in DOMAIN e <=> i < c + 1
    <3>1. t \in DOMAIN e
      BY <1>5, <1>6, AlongIsStarts DEF Paths
    <3>2. ASSUME NEW i \in Nat, Append(a, IndexSegment(i)) \in Along(t) PROVE i < c \/ i = c
      <4>1. IsItem(Last(Append(a, IndexSegment(i))))
        BY ItemPosition
      <4>. QED  BY <1>1, <1>4, <1>5, <3>2, <4>1
    <3>3. \A i \in Nat : i < c + 1 <=> i < c \/ i = c
      BY <1>1
    <3>. QED  BY <1>1, <1>6, <3>1, <3>2, <3>3
  <2>2. ItemCount(e, a) = c + 1
    <3>. DEFINE n == ItemCount(e, a)
    <3>1. n \in Nat /\ \A i \in Nat : Append(a, IndexSegment(i)) \in DOMAIN e <=> i < n
      BY <1>5, HeldItems DEF WellFormed, IsDraft
    <3>2. \A i \in Nat : i < n <=> i < c + 1
      BY <2>1, <3>1
    <3>. HIDE DEF n, c
    <3>3. ~(n < c + 1) /\ ~(c + 1 < n)
      BY <1>1, <3>1, <3>2
    <3>4. n = c + 1
      BY <1>1, <3>1, <3>3
    <3>. QED  BY <3>4 DEF n
  <2>. DEFINE before == ItemsAt(d, a)
              after == ItemsAt(e, a)
              blank == [q \in {<<>>} |-> Null]
  <2>3. /\ DOMAIN before = 1..c /\ Len(before) = c
        /\ \A n \in 1..c : /\ n - 1 \in Nat
                           /\ before[n] = Content(d, Append(a, IndexSegment(n - 1)))
    BY ItemsBy
  <2>4. /\ DOMAIN after = 1..(c + 1)
        /\ \A n \in 1..(c + 1) : after[n] = Content(e, Append(a, IndexSegment(n - 1)))
    BY <1>5, <2>2, ItemsBy
  <2>5. ASSUME NEW n \in 1..c PROVE after[n] = before[n]
    <3>1. n - 1 \in Nat /\ n - 1 # c /\ n \in 1..(c + 1)
      BY <1>1
    <3>2. /\ Append(a, IndexSegment(n - 1)) \in Paths
          /\ ~IsAtOrBeneath(t, Append(a, IndexSegment(n - 1)))
      <4>1. /\ Append(a, IndexSegment(n - 1)) \in Paths /\ Len(a) \in Nat
            /\ Len(Append(a, IndexSegment(n - 1))) = Len(a) + 1
        BY <3>1, ItemPosition
      <4>2. Len(t) = Len(a) + 1
        BY <1>1, ItemPosition
      <4>3. Append(a, IndexSegment(n - 1)) # t
        BY <1>4, <3>1
      <4>. DEFINE b == Append(a, IndexSegment(n - 1))
      <4>4. b \in Paths /\ Len(t) = Len(b) /\ b # t
        BY <4>1, <4>2, <4>3
      <4>. HIDE DEF t, b
      <4>5. IsAtOrBeneath(t, b) => t = b
        BY <1>5, <4>4, BeneathOrder DEF Paths
      <4>. QED  BY <4>4, <4>5 DEF b
    <3>3. Content(e, Append(a, IndexSegment(n - 1))) = Content(d, Append(a, IndexSegment(n - 1)))
      <4>. HIDE DEF t
      <4>. QED  BY <1>5, <3>2, GrewElsewhere
    <3>. HIDE DEF before, after
    <3>. QED  BY <2>3, <2>4, <3>1, <3>3
  <2>6. after[c + 1] = blank
    <3>1. c + 1 \in 1..(c + 1) /\ (c + 1) - 1 = c
      BY <1>1
    <3>. HIDE DEF after, c
    <3>2. after[c + 1] = Content(e, Append(a, IndexSegment(c)))
      BY <2>4, <3>1
    <3>. QED  BY <1>5, <3>2 DEF t
  <2>7. after = Append(before, blank)
    <3>1. /\ before = [n \in 1..c |-> before[n]]
          /\ after = [n \in 1..(c + 1) |-> after[n]]
      <4>1. before = [n \in DOMAIN before |-> before[n]]
        BY DEF ItemsAt
      <4>2. after = [n \in DOMAIN after |-> after[n]]
        BY DEF ItemsAt
      <4>. HIDE DEF before, after, c
      <4>. QED  BY <2>3, <2>4, <4>1, <4>2
    <3>. HIDE DEF before, after, blank, c
    <3>. DEFINE S == {before[n] : n \in 1..c} \cup {blank}
    <3>2. before \in Seq(S) /\ blank \in S
      BY <1>1, <3>1
    <3>3. /\ Append(before, blank) \in Seq(S) /\ Len(Append(before, blank)) = c + 1
          /\ Append(before, blank)[c + 1] = blank
          /\ \A n \in 1..c : Append(before, blank)[n] = before[n]
      <4>. HIDE DEF S
      <4>. QED  BY <2>3, <3>2
    <3>4. \A n \in 1..(c + 1) : n = c + 1 \/ n \in 1..c
      BY <1>1
    <3>5. after \in Seq(S) /\ Len(after) = c + 1
      <4>1. \A n \in 1..(c + 1) : after[n] \in S
        BY <2>5, <2>6, <3>4
      <4>2. c + 1 \in Nat
        BY <1>1
      <4>. HIDE DEF S
      <4>. QED  BY <3>1, <4>1, <4>2
    <3>6. \A n \in 1..(c + 1) : after[n] = Append(before, blank)[n]
      BY <2>5, <2>6, <3>3, <3>4
    <3>. HIDE DEF S
    <3>. QED  BY <3>3, <3>5, <3>6, SameSequence
  <2>. HIDE DEF before, after, blank
  <2>8. ItemsKept(d, e, a)
    BY <2>7 DEF ItemsKept, before, after, blank
  <2>. QED  BY <1>8, <2>8 DEF AppendItem, e
<1>. QED  BY <1>7, <1>8

-----------------------------------------------------------------------------
(* Unsetting.                                                              *)

(* What is beneath an entry that is not above a removed one moves with it.  *)
LEMMA RenumberedRest ==
    ASSUME NEW t \in Paths \ {<<>>}, NEW b \in Paths, NEW q \in Paths,
           ~IsAtOrBeneath(t, b)
    PROVE  Renumbered(t, b \o q) = Renumbered(t, b) \o q
<1>. DEFINE c == Renumbered(t, b)
            o == b \o q
            n == Len(t)
<1>1. /\ Len(b) \in Nat /\ Len(q) \in Nat /\ n \in Nat /\ n > 0
      /\ o \in Paths /\ Len(o) = Len(b) + Len(q)
      /\ \A m \in 1..Len(b) : o[m] = b[m]
      /\ \A m \in 1..Len(q) : o[Len(b) + m] = q[m]
  BY Joined, FollowsBy DEF Paths
<1>2. c \in Paths /\ Len(c) = Len(b) /\ \A m \in 1..Len(b) : m # n => c[m] = b[m]
  BY RenumberedBy
<1>3. /\ c \o q \in Paths /\ Len(c \o q) = Len(b) + Len(q)
      /\ \A m \in 1..Len(b) : (c \o q)[m] = c[m]
      /\ \A m \in 1..Len(q) : (c \o q)[Len(b) + m] = q[m]
  <2>. HIDE DEF c
  <2>1. /\ c \o q \in Paths /\ Len(c \o q) = Len(c) + Len(q)
        /\ \A m \in 1..Len(c) : (c \o q)[m] = c[m]
        /\ \A m \in 1..Len(q) : (c \o q)[Len(c) + m] = q[m]
    BY <1>2, Joined
  <2>. QED  BY <1>2, <2>1
<1>4. Follows(t, o) <=> Follows(t, b)
  <2>1. CASE Len(b) >= n
    <3>1. \A m \in 1..n : o[m] = b[m]
      BY <1>1, <2>1
    <3>2. Len(o) >= n /\ n \in 1..n /\ \A m \in 1..(n - 1) : m \in 1..n
      BY <1>1, <2>1
    <3>. HIDE DEF o
    <3>. QED  BY <1>1, <2>1, <3>1, <3>2, FollowsBy
  <2>2. CASE Len(b) < n
    <3>1. ~Follows(t, b)
      BY <1>1, <2>2, FollowsBy
    <3>2. ASSUME Follows(t, o) PROVE FALSE
      <4>1. \A m \in 1..(n - 1) : o[m] = t[m]
        BY <1>1, <3>2, FollowsBy
      <4>2. \A m \in 1..Len(b) : m \in 1..(n - 1)
        BY <1>1, <2>2
      <4>3. \A m \in 1..Len(b) : t[m] = b[m]
        BY <1>1, <4>1, <4>2
      <4>. QED  BY <1>1, <2>2, <4>3 DEF IsAtOrBeneath
    <3>. QED  BY <3>1, <3>2
  <2>. QED  BY <1>1, <2>1, <2>2
<1>5. CASE ~Follows(t, b)
  BY <1>1, <1>4, <1>5, RenumberedBy
<1>6. CASE Follows(t, b)
  <2>. DEFINE r == Renumbered(t, o)
  <2>1. n \in 1..Len(b)
    BY <1>6, RenumberedBy
  <2>2. /\ r \in Paths /\ Len(r) = Len(o)
        /\ \A m \in 1..Len(o) : m # n => r[m] = o[m]
        /\ r[n] = IndexSegment(o[n].item - 1)
    <3>. HIDE DEF o
    <3>. QED  BY <1>1, <1>4, <1>6, RenumberedBy
  <2>3. c[n] = IndexSegment(b[n].item - 1)
    BY <1>6, RenumberedBy
  <2>4. o[n] = b[n] /\ (c \o q)[n] = c[n]
    BY <1>1, <1>3, <2>1
  <2>. HIDE DEF r, o, c
  <2>5. ASSUME NEW m \in 1..Len(r) PROVE r[m] = (c \o q)[m]
    <3>1. CASE m = n
      BY <2>2, <2>3, <2>4, <3>1
    <3>2. CASE m # n /\ m \in 1..Len(b)
      <4>1. m \in 1..Len(o)
        BY <2>2
      <4>2. r[m] = o[m] /\ o[m] = b[m] /\ c[m] = b[m] /\ (c \o q)[m] = c[m]
        BY <1>1, <1>2, <1>3, <2>2, <3>2, <4>1
      <4>. QED  BY <4>2
    <3>3. CASE m # n /\ m \notin 1..Len(b)
      <4>1. /\ m \in 1..Len(o) /\ m - Len(b) \in 1..Len(q)
            /\ m = Len(b) + (m - Len(b))
        BY <1>1, <2>2, <3>3
      <4>2. r[m] = o[m]
        BY <2>2, <3>3, <4>1
      <4>3. o[m] = q[m - Len(b)] /\ (c \o q)[m] = q[m - Len(b)]
        BY <1>1, <1>3, <4>1
      <4>. QED  BY <4>2, <4>3
    <3>. QED  BY <3>1, <3>2, <3>3
  <2>6. r = c \o q
    <3>1. Len(r) = Len(c \o q)
      BY <1>1, <1>3, <2>2
    <3>. QED  BY <1>3, <2>2, <2>5, <3>1, SameSequence DEF Paths
  <2>. QED  BY <2>6 DEF r, c, o
<1>. QED  BY <1>5, <1>6

(* An item that stays, and that the removed entry is not beneath, keeps its *)
(* contents where it is now.                                               *)
LEMMA UnsetMovesContent ==
    ASSUME NEW v, NEW d, IsDraft(v, d), NEW t \in DOMAIN d, NEW b \in Kept(d, t),
           ~IsAtOrBeneath(t, b)
    PROVE  Content(Unset(d, t), Renumbered(t, b)) = Content(d, b)
<1>. DEFINE e == Unset(d, t)
            c == Renumbered(t, b)
<1>1. /\ t \in Paths \ {<<>>} /\ Kept(d, t) \subseteq Paths \ {<<>>}
      /\ Moved(d, t) \subseteq Paths \ {<<>>} /\ DOMAIN d \subseteq Paths
      /\ \A a \in Along(Front(t)) : a \in Paths /\ a \in Kept(d, t) /\ Renumbered(t, a) = a
      /\ Hollow(t, Moved(d, t)) \subseteq Along(Front(t))
  BY MovedFacts DEF IsDraft
<1>2. /\ DOMAIN e = Moved(d, t) \ Hollow(t, Moved(d, t))
      /\ \A q \in Kept(d, t) : Renumbered(t, q) \in DOMAIN e => e[Renumbered(t, q)] = d[q]
      /\ \A r \in DOMAIN e : \E q \in Kept(d, t) : r = Renumbered(t, q)
  BY UnsetBy
<1>. HIDE DEF e
<1>3. b \in Paths /\ c \in Paths /\ ~IsAtOrBeneath(b, t)
  BY <1>1, RenumberedBy DEF Kept
<1>4. ASSUME NEW q \in Paths, b \o q \in DOMAIN d
      PROVE  c \o q \in DOMAIN e /\ e[c \o q] = d[b \o q]
  <2>1. b \o q \in Paths /\ IsAtOrBeneath(b \o q, b)
    BY <1>3, Joined
  <2>2. ~IsAtOrBeneath(b \o q, t) /\ ~IsAtOrBeneath(t, b \o q)
    <3>1. Len(b) \in Nat /\ Len(t) \in Nat
      BY <1>1, <1>3 DEF Paths
    <3>2. ~IsAtOrBeneath(t, b \o q)
      BY <1>1, <1>3, <2>1, BeneathOrder DEF Paths
    <3>3. ASSUME IsAtOrBeneath(b \o q, t) PROVE FALSE
      <4>1. Len(b) <= Len(t) \/ Len(t) <= Len(b)
        BY <3>1
      <4>2. IsAtOrBeneath(t, b) \/ IsAtOrBeneath(b, t)
        BY <1>1, <1>3, <2>1, <3>3, <4>1, BeneathOrder DEF Paths
      <4>. QED  BY <1>3, <4>2
    <3>. QED  BY <3>2, <3>3
  <2>3. b \o q \in Kept(d, t)
    BY <1>4, <2>2 DEF Kept
  <2>4. Renumbered(t, b \o q) = c \o q
    BY <1>1, <1>3, RenumberedRest
  <2>5. c \o q \in Moved(d, t)
    BY <2>3, <2>4 DEF Moved
  <2>6. c \o q \notin Along(Front(t))
    <3>. SUFFICES ASSUME c \o q \in Along(Front(t)) PROVE FALSE
      OBVIOUS
    <3>. DEFINE a == c \o q
    <3>1. a \in Paths /\ a \in Kept(d, t) /\ Renumbered(t, a) = Renumbered(t, b \o q)
      BY <1>1, <2>4
    <3>2. ~IsAtOrBeneath(a, t)
      BY <3>1 DEF Kept
    <3>3. a = b \o q
      <4>. HIDE DEF a
      <4>. QED  BY <1>1, <2>1, <2>2, <3>1, <3>2, RenumberedApart
    <3>4. IsAtOrBeneath(Front(t), a) /\ Front(t) \in Paths
      <4>1. Front(t) \in Paths
        BY <1>1, SchemaPathFront
      <4>. QED  BY <4>1, AlongPosition
    <3>5. IsAtOrBeneath(t, a)
      <4>. HIDE DEF a
      <4>. QED  BY <1>1, <3>1, <3>4, BeneathFront DEF Paths
    <3>. QED  BY <2>2, <3>3, <3>5
  <2>7. c \o q \in DOMAIN e
    BY <1>1, <1>2, <2>5, <2>6
  <2>. QED  BY <1>2, <2>3, <2>4, <2>7
<1>5. ASSUME NEW q \in Paths, c \o q \in DOMAIN e PROVE b \o q \in DOMAIN d
  <2>1. PICK o \in Kept(d, t) : c \o q = Renumbered(t, o)
    BY <1>2, <1>5
  <2>2. o \in Paths /\ o \in DOMAIN d /\ ~IsAtOrBeneath(o, t)
    BY <1>1 DEF Kept
  <2>3. IsAtOrBeneath(c \o q, c)
    BY <1>3, Joined
  <2>4. IsAtOrBeneath(o, b)
    BY <1>1, <1>3, <2>1, <2>2, <2>3, RenumberedBeneath
  <2>. DEFINE r == SubSeq(o, Len(b) + 1, Len(o))
  <2>5. r \in Paths /\ b \o r = o
    BY <1>3, <2>2, <2>4, Remainder
  <2>. HIDE DEF r
  <2>6. c \o r = c \o q
    <3>1. b \o r \in Kept(d, t) /\ Renumbered(t, b \o r) = c \o q
      BY <2>1, <2>5
    <3>2. t \in Paths \ {<<>>} /\ b \in Paths /\ r \in Paths
      BY <1>1, <1>3, <2>5
    <3>3. Renumbered(t, b \o r) = Renumbered(t, b) \o r
      BY <3>2, RenumberedRest
    <3>. QED  BY <3>1, <3>3
  <2>. HIDE DEF c
  <2>7. r = q
    BY <1>3, <2>5, <2>6, Joined
  <2>. QED  BY <2>2, <2>5, <2>7
<1>. HIDE DEF c
<1>6. DOMAIN e \subseteq Paths
  BY <1>1, <1>2
<1>7. \A q \in Paths : b \o q \in DOMAIN d <=> c \o q \in DOMAIN e
  BY <1>4, <1>5
<1>8. \A q \in Paths : b \o q \in DOMAIN d => d[b \o q] = e[c \o q]
  BY <1>4
<1>9. Content(d, b) = Content(e, c)
  BY <1>1, <1>3, <1>6, <1>7, <1>8, SameContent
<1>. QED  BY <1>9 DEF e, c

(* Where the items of the removed item's array come from.                  *)
LEMMA UnsetItems ==
    ASSUME NEW v \in Versions, NEW d, WellFormed(v, d), NEW t \in DOMAIN d, IsItem(Last(t))
    PROVE  LET p == Front(t)
               k == Last(t).item
               N == ItemCount(d, p)
               b(i) == Append(p, IndexSegment(i))
           IN  /\ p \in Paths /\ k \in Nat /\ k < N /\ N \in Nat
               /\ ItemCount(Unset(d, t), p) = N - 1
               /\ \A i \in Nat : i < k => Content(Unset(d, t), b(i)) = Content(d, b(i))
               /\ \A i \in Nat : i >= k /\ i < N - 1 =>
                    Content(Unset(d, t), b(i)) = Content(d, b(i + 1))
<1>. DEFINE p == Front(t)
            k == Last(t).item
            N == ItemCount(d, p)
            e == Unset(d, t)
            b(i) == Append(p, IndexSegment(i))
<1>1. IsDraft(v, d) /\ WellFormed(v, e) /\ t \in Paths \ {<<>>} /\ DOMAIN d \subseteq Paths \ {<<>>}
  BY UnsetIsWellFormed DEF WellFormed, IsDraft
<1>2. p \in Paths
  BY <1>1, SchemaPathFront
<1>3. /\ k \in Nat /\ t = b(k)
      /\ \A i \in Nat : /\ IsAtOrBeneath(b(i), t) <=> i = k
                        /\ i > k => Renumbered(t, b(i)) = b(i - 1)
                        /\ i < k => Renumbered(t, b(i)) = b(i)
  BY <1>1, RenumberedSibling
<1>4. /\ N \in Nat /\ \A i \in Nat : b(i) \in DOMAIN d <=> i < N
  BY <1>1, <1>2, HeldItems DEF WellFormed, IsDraft
<1>5. k < N
  BY <1>3, <1>4
<1>6. \A i \in Nat : /\ b(i) \in Paths \ {<<>>} /\ ~IsField(Last(b(i)))
                     /\ Len(b(i)) = Len(t)
                     /\ b(i) = t => i = k
  <2>1. \A i \in Nat : /\ b(i) \in Paths \ {<<>>} /\ ~IsField(Last(b(i)))
                       /\ Len(b(i)) = Len(p) + 1
                       /\ \A j \in Nat : b(j) = b(i) => j = i
    BY <1>2, ItemPosition
  <2>2. k \in Nat /\ t = b(k)
    BY <1>3
  <2>. HIDE DEF b, k, p
  <2>. QED  BY <2>1, <2>2
<1>. HIDE DEF e, k, N, p, b
<1>7. ASSUME NEW i \in Nat, i < N, i # k
      PROVE  /\ b(i) \in Kept(d, t) /\ Renumbered(t, b(i)) \in DOMAIN e
             /\ Content(e, Renumbered(t, b(i))) = Content(d, b(i))
  <2>1. b(i) \in Kept(d, t)
    BY <1>3, <1>4, <1>7 DEF Kept
  <2>2. Renumbered(t, b(i)) \in DOMAIN e
    BY <1>1, <1>6, <2>1, EntriesStay DEF e
  <2>3. ~IsAtOrBeneath(t, b(i))
    <3>1. b(i) \in Paths /\ Len(t) = Len(b(i)) /\ b(i) # t
      BY <1>6, <1>7
    <3>. QED  BY <1>1, <3>1, BeneathOrder DEF Paths
  <2>. QED  BY <1>1, <2>1, <2>2, <2>3, UnsetMovesContent DEF e
<1>8. ASSUME NEW i \in Nat, i < k
      PROVE  b(i) \in DOMAIN e /\ Content(e, b(i)) = Content(d, b(i))
  BY <1>3, <1>4, <1>5, <1>7, <1>8
<1>9. ASSUME NEW i \in Nat, i >= k, i < N - 1
      PROVE  b(i) \in DOMAIN e /\ Content(e, b(i)) = Content(d, b(i + 1))
  <2>1. i + 1 \in Nat /\ i + 1 < N /\ i + 1 # k /\ i + 1 > k /\ (i + 1) - 1 = i
    BY <1>3, <1>4, <1>9
  <2>2. Renumbered(t, b(i + 1)) = b(i)
    BY <1>3, <2>1
  <2>. QED  BY <1>7, <2>1, <2>2
<1>10. ASSUME NEW i \in Nat, b(i) \in DOMAIN e PROVE i < N - 1
  <2>. SUFFICES ASSUME ~(i < N - 1) PROVE FALSE
    OBVIOUS
  <2>1. i + 1 \in Nat /\ ~(i + 1 < N) /\ i + 1 # k /\ i + 1 > k /\ (i + 1) - 1 = i
    BY <1>3, <1>4, <1>5
  <2>2. Renumbered(t, b(i + 1)) = b(i) /\ ~IsAtOrBeneath(b(i + 1), t)
    BY <1>3, <2>1
  <2>3. PICK o \in Kept(d, t) : b(i) = Renumbered(t, o)
    BY <1>1, <1>10, LeftByUnset DEF e
  <2>4. o \in Paths /\ o \in DOMAIN d /\ ~IsAtOrBeneath(o, t)
    BY <1>1 DEF Kept
  <2>5. b(i + 1) \in Paths
    BY <1>6, <2>1
  <2>6. o = b(i + 1)
    BY <1>1, <2>2, <2>3, <2>4, <2>5, RenumberedApart
  <2>. QED  BY <1>4, <2>1, <2>4, <2>6
<1>11. ItemCount(e, p) = N - 1
  <2>. DEFINE n == ItemCount(e, p)
  <2>1. n \in Nat /\ \A i \in Nat : b(i) \in DOMAIN e <=> i < n
    BY <1>1, <1>2, HeldItems DEF WellFormed, IsDraft, b
  <2>2. \A i \in Nat : i < n <=> i < N - 1
    <3>1. \A i \in Nat : i < k \/ i >= k
      BY <1>3
    <3>2. \A i \in Nat : i < N - 1 => b(i) \in DOMAIN e
      BY <1>8, <1>9, <3>1
    <3>. HIDE DEF n
    <3>. QED  BY <1>10, <2>1, <3>2
  <2>. HIDE DEF n
  <2>3. n = N - 1
    <3>1. N - 1 \in Nat
      BY <1>3, <1>4, <1>5
    <3>2. ~(n < N - 1) /\ ~(N - 1 < n)
      BY <2>1, <2>2, <3>1
    <3>. QED  BY <2>1, <3>1, <3>2
  <2>. QED  BY <2>3 DEF n
<1>. QED  BY <1>2, <1>3, <1>4, <1>5, <1>8, <1>9, <1>11 DEF p, k, N, e, b

(* Taking an item out of its array.                                        *)
LEMMA UnsetRemovesItem ==
    ASSUME NEW v \in Versions, NEW d, WellFormed(v, d), NEW t \in DOMAIN d, IsItem(Last(t))
    PROVE  ItemsKept(d, Unset(d, t), Front(t))
<1>. DEFINE p == Front(t)
            k == Last(t).item
            N == ItemCount(d, p)
            e == Unset(d, t)
            before == ItemsAt(d, p)
            after == ItemsAt(e, p)
<1>1. /\ p \in Paths /\ k \in Nat /\ k < N /\ N \in Nat /\ ItemCount(e, p) = N - 1
      /\ \A i \in Nat : i < k =>
           Content(e, Append(p, IndexSegment(i))) = Content(d, Append(p, IndexSegment(i)))
      /\ \A i \in Nat : i >= k /\ i < N - 1 =>
           Content(e, Append(p, IndexSegment(i))) = Content(d, Append(p, IndexSegment(i + 1)))
  BY UnsetItems
<1>2. WellFormed(v, e)
  BY UnsetIsWellFormed
<1>. HIDE DEF p, k, e
<1>3. /\ DOMAIN before = 1..N /\ Len(before) = N
      /\ \A n \in 1..N : before[n] = Content(d, Append(p, IndexSegment(n - 1)))
  BY <1>1, ItemsBy
<1>4. /\ DOMAIN after = 1..(N - 1)
      /\ \A n \in 1..(N - 1) : after[n] = Content(e, Append(p, IndexSegment(n - 1)))
  BY <1>1, <1>2, ItemsBy
<1>5. before = [n \in 1..N |-> before[n]] /\ after = [n \in 1..(N - 1) |-> after[n]]
  <2>1. before = [n \in DOMAIN before |-> before[n]] /\ after = [n \in DOMAIN after |-> after[n]]
    BY DEF ItemsAt
  <2>. HIDE DEF before, after, N
  <2>. QED  BY <1>3, <1>4, <2>1
<1>. HIDE DEF before, after, N
<1>6. ASSUME NEW n \in 1..(N - 1)
      PROVE  after[n] = IF n <= k THEN before[n] ELSE before[n + 1]
  <2>1. n \in 1..N /\ n + 1 \in 1..N /\ n - 1 \in Nat /\ (n + 1) - 1 = n /\ (n - 1) + 1 = n
    BY <1>1
  <2>2. CASE n <= k
    <3>1. n - 1 < k
      BY <1>1, <2>2
    <3>. QED  BY <1>1, <1>3, <1>4, <2>1, <2>2, <3>1
  <2>3. CASE ~(n <= k)
    <3>1. n - 1 >= k /\ n - 1 < N - 1
      BY <1>1, <2>3
    <3>2. Content(e, Append(p, IndexSegment(n - 1))) = Content(d, Append(p, IndexSegment((n - 1) + 1)))
      BY <1>1, <2>1, <3>1
    <3>. QED  BY <1>3, <1>4, <2>1, <2>3, <3>2
  <2>. QED  BY <2>2, <2>3
<1>. DEFINE S == {before[n] : n \in 1..N}
            left == SubSeq(before, 1, k)
            right == SubSeq(before, k + 2, N)
<1>7. before \in Seq(S)
  BY <1>1, <1>3, <1>5
<1>8. /\ left \in Seq(S) /\ Len(left) = k /\ \A n \in 1..k : left[n] = before[n]
      /\ right \in Seq(S) /\ Len(right) = N - 1 - k
      /\ \A n \in 1..(N - 1 - k) : right[n] = before[k + 1 + n]
  <2>. HIDE DEF S
  <2>. QED  BY <1>1, <1>3, <1>7
<1>. HIDE DEF S, left, right
<1>9. /\ left \o right \in Seq(S) /\ Len(left \o right) = N - 1
      /\ \A n \in 1..k : (left \o right)[n] = before[n]
      /\ \A n \in 1..(N - 1 - k) : (left \o right)[k + n] = before[k + 1 + n]
  <2>1. /\ left \o right \in Seq(S) /\ Len(left \o right) = Len(left) + Len(right)
        /\ \A n \in 1..Len(left) : (left \o right)[n] = left[n]
        /\ \A n \in 1..Len(right) : (left \o right)[Len(left) + n] = right[n]
    BY <1>8
  <2>2. k + (N - 1 - k) = N - 1
    BY <1>1
  <2>. QED  BY <1>8, <2>1, <2>2
<1>10. ASSUME NEW n \in 1..(N - 1) PROVE after[n] = (left \o right)[n]
  <2>1. CASE n <= k
    <3>1. n \in 1..k
      BY <1>1, <2>1
    <3>. QED  BY <1>6, <1>9, <2>1, <3>1
  <2>2. CASE ~(n <= k)
    <3>1. n - k \in 1..(N - 1 - k) /\ k + (n - k) = n /\ k + 1 + (n - k) = n + 1
      BY <1>1, <2>2
    <3>2. (left \o right)[k + (n - k)] = before[k + 1 + (n - k)]
      BY <1>9, <3>1
    <3>. QED  BY <1>6, <2>2, <3>1, <3>2
  <2>. QED  BY <2>1, <2>2
<1>11. after = left \o right
  <2>1. N - 1 \in Nat
    BY <1>1
  <2>. DEFINE w == left \o right
  <2>4. w \in Seq(S) /\ Len(w) = N - 1
    BY <1>9
  <2>5. \A n \in 1..(N - 1) : after[n] = w[n]
    BY <1>10
  <2>. HIDE DEF w
  <2>6. \A n \in 1..(N - 1) : w[n] \in S
    BY <2>1, <2>4
  <2>2. \A n \in 1..(N - 1) : after[n] \in S
    BY <2>5, <2>6
  <2>3. after \in Seq(S) /\ Len(after) = N - 1
    BY <1>5, <2>1, <2>2
  <2>. QED  BY <1>9, <1>10, <2>1, <2>3, SameSequence
<1>12. RemoveAt(before, k + 1) = left \o right
  <2>1. (k + 1) - 1 = k /\ (k + 1) + 1 = k + 2
    BY <1>1
  <2>. QED  BY <1>3, <2>1 DEF RemoveAt, left, right
<1>13. k + 1 \in DOMAIN before
  BY <1>1, <1>3
<1>14. \E n \in DOMAIN before : after = RemoveAt(before, n)
  BY <1>11, <1>12, <1>13
<1>. QED  BY <1>14 DEF ItemsKept, before, after, p, e

(* Unsetting anything else changes the items above it only.                *)
LEMMA UnsetKeepsItems ==
    ASSUME NEW v \in Versions, NEW d, WellFormed(v, d), NEW t \in DOMAIN d,
           NEW p \in DOMAIN d \cap DOMAIN Unset(d, t), Stays(d, Unset(d, t), p)
    PROVE  ItemsKept(d, Unset(d, t), p)
<1>. DEFINE e == Unset(d, t)
            b(i) == Append(p, IndexSegment(i))
<1>1. /\ IsDraft(v, d) /\ WellFormed(v, e) /\ IsDraft(v, e) /\ t \in Paths \ {<<>>}
      /\ DOMAIN d \subseteq Paths \ {<<>>} /\ p \in Paths \ {<<>>} /\ p \in DOMAIN e
  BY UnsetIsWellFormed DEF WellFormed, IsDraft
<1>2. CASE IsItem(Last(t)) /\ p = Front(t)
  BY <1>2, UnsetRemovesItem
<1>3. CASE ~(IsItem(Last(t)) /\ p = Front(t))
  <2>1. PICK o \in Kept(d, t) : p = Renumbered(t, o)
    BY <1>1, LeftByUnset
  <2>2. o \in Paths /\ ~IsAtOrBeneath(o, t)
    BY <1>1 DEF Kept
  <2>3. ~Follows(t, o)
    <3>. SUFFICES ASSUME Follows(t, o) PROVE FALSE
      OBVIOUS
    <3>. DEFINE n == Len(t)
                q == SubSeq(p, 1, n)
    <3>1. /\ n \in Nat /\ n > 0 /\ Len(o) >= n /\ IsItem(t[n]) /\ IsItem(o[n])
          /\ \A m \in 1..(n - 1) : o[m] = t[m]
          /\ n \in 1..Len(o)
      BY <1>1, <2>2, FollowsBy, RenumberedBy
    <3>2. /\ Len(p) = Len(o) /\ IsItem(p[n])
          /\ \A m \in 1..(n - 1) : p[m] = t[m]
      <4>1. \A m \in 1..(n - 1) : m \in 1..Len(o) /\ m # n
        BY <2>2, <3>1 DEF Paths
      <4>2. /\ Len(p) = Len(o)
            /\ \A m \in 1..Len(o) : m # n => p[m] = o[m]
            /\ IsItem(p[n]) <=> IsItem(o[n])
        <5>1. /\ Len(p) = Len(o)
              /\ \A m \in 1..Len(o) : m # n => p[m] = o[m]
          BY <1>1, <2>1, <2>2, RenumberedBy
        <5>2. IsItem(p[n]) <=> IsItem(o[n])
          BY <1>1, <2>1, <2>2, <3>1, RenumberedKinds
        <5>. QED  BY <5>1, <5>2
      <4>. QED  BY <3>1, <4>1, <4>2
    <3>3. q \in Along(p) /\ Len(q) = n
      <4>1. n \in 1..Len(p) /\ n \in 0..Len(p) /\ p \in Seq(Segments)
        BY <1>1, <3>1, <3>2 DEF Paths
      <4>2. Len(q) = n
        BY <4>1, Start
      <4>. QED  BY <4>1, <4>2 DEF Along
    <3>4. Last(q) = p[n] /\ Front(q) = SubSeq(p, 1, n - 1)
      BY <1>1, <3>3, AlongPosition
    <3>5. IsItem(Last(t)) /\ Front(t) = SubSeq(t, 1, n - 1)
      <4>1. t \in Seq(Segments) /\ t # <<>>
        BY <1>1 DEF Paths
      <4>2. Front(t) = SubSeq(t, 1, Len(t) - 1) /\ Last(t) = t[Len(t)]
        BY <4>1, FrontLast
      <4>. QED  BY <3>1, <4>2
    <3>6. SubSeq(p, 1, n - 1) = SubSeq(t, 1, n - 1)
      <4>1. /\ n - 1 \in 0..Len(p) /\ n - 1 \in 0..Len(t) /\ p \in Seq(Segments)
            /\ t \in Seq(Segments)
        BY <1>1, <3>1, <3>2 DEF Paths
      <4>2. /\ SubSeq(p, 1, n - 1) \in Seq(Segments) /\ Len(SubSeq(p, 1, n - 1)) = n - 1
            /\ \A m \in 1..(n - 1) : SubSeq(p, 1, n - 1)[m] = p[m]
        BY <4>1, Start
      <4>3. /\ SubSeq(t, 1, n - 1) \in Seq(Segments) /\ Len(SubSeq(t, 1, n - 1)) = n - 1
            /\ \A m \in 1..(n - 1) : SubSeq(t, 1, n - 1)[m] = t[m]
        BY <4>1, Start
      <4>. QED  BY <3>2, <4>2, <4>3, SameSequence
    <3>7. /\ ItemCount(d, Front(t)) \in Nat
          /\ ItemCount(e, Front(t)) = ItemCount(d, Front(t)) - 1
      BY <3>5, UnsetItems
    <3>8. ItemCount(e, Front(t)) >= ItemCount(d, Front(t))
      <4>. HIDE DEF q, e
      <4>. QED  BY <3>2, <3>3, <3>4, <3>5, <3>6 DEF Stays, e
    <3>. QED  BY <3>7, <3>8
  <2>4. p \in Kept(d, t) /\ ~IsAtOrBeneath(p, t) /\ Renumbered(t, p) = p
    BY <1>1, <2>1, <2>2, <2>3, RenumberedBy
  <2>5. ASSUME NEW i \in Nat
        PROVE  /\ b(i) \in Paths /\ ~IsField(Last(b(i)))
               /\ ~IsAtOrBeneath(b(i), t) /\ Renumbered(t, b(i)) = b(i)
    <3>1. b(i) \in Paths /\ ~IsField(Last(b(i)))
      BY <1>1, ItemPosition
    <3>2. /\ IsAtOrBeneath(b(i), t) <=> IsAtOrBeneath(p, t)
          /\ Renumbered(t, b(i)) = Append(Renumbered(t, p), IndexSegment(i))
      BY <1>1, <1>3, RenumberedElsewhere
    <3>. QED  BY <2>4, <3>1, <3>2
  <2>. HIDE DEF b, e
  <2>6. ASSUME NEW i \in Nat PROVE b(i) \in DOMAIN d <=> b(i) \in DOMAIN e
    <3>1. ASSUME b(i) \in DOMAIN d PROVE b(i) \in DOMAIN e
      <4>1. b(i) \in Kept(d, t)
        BY <2>5, <3>1 DEF Kept
      <4>. QED  BY <1>1, <2>5, <4>1, EntriesStay DEF e
    <3>2. ASSUME b(i) \in DOMAIN e PROVE b(i) \in DOMAIN d
      <4>1. PICK q \in Kept(d, t) : b(i) = Renumbered(t, q)
        BY <1>1, <3>2, LeftByUnset DEF e
      <4>2. q \in Paths /\ q \in DOMAIN d /\ ~IsAtOrBeneath(q, t)
        BY <1>1 DEF Kept
      <4>3. q = b(i)
        BY <1>1, <2>5, <4>1, <4>2, RenumberedApart
      <4>. QED  BY <4>2, <4>3
    <3>. QED  BY <3>1, <3>2
  <2>7. ItemCount(d, p) = ItemCount(e, p)
    BY <1>1, <2>6, SameCount DEF b
  <2>8. ASSUME NEW i \in Nat, b(i) \in DOMAIN d, ~IsAtOrBeneath(t, b(i))
        PROVE  Content(e, b(i)) = Content(d, b(i))
    <3>1. b(i) \in Kept(d, t)
      BY <2>5, <2>8 DEF Kept
    <3>. QED  BY <1>1, <2>5, <2>8, <3>1, UnsetMovesContent DEF e
  <2>9. ItemsKept(d, e, p)
    BY <1>1, <2>7, <2>8, OneItemChanges DEF b
  <2>. QED  BY <2>9 DEF e
<1>. QED  BY <1>2, <1>3

-----------------------------------------------------------------------------
(* No step disturbs two items of one array: what each action does to the   *)
(* array's items.                                                          *)
LEMMA StepKeepsItems ==
    ASSUME TreeInv, Next, draft' # draft, version' = version,
           NEW p \in DOMAIN draft \cap DOMAIN draft', Stays(draft, draft', p)
    PROVE  ItemsKept(draft, draft', p)
<1>1. /\ version \in Versions /\ WellFormed(version, draft) /\ RowsInv(version, draft, rows)
      /\ RowsMirror(version, draft, rows)
  BY DEF TreeInv, RowsInv
<1>2. p \in Paths
  BY <1>1 DEF WellFormed, IsDraft
<1>3. ASSUME NEW t \in DOMAIN rows
      PROVE  t \in Paths /\ Resolves(version, t) /\ Anchored(draft, t)
  BY <1>1, RowsResolve, RowsAnchor
<1>4. ASSUME NEW t \in DOMAIN rows, ConfirmEditor(t) PROVE ItemsKept(draft, draft', p)
  <2>1. PICK x \in Admissible(version, t) : draft' = Set(version, draft, t, x)
    BY <1>4 DEF ConfirmEditor
  <2>2. t # <<>> /\ Placeable(draft, t)
    BY <1>1, <1>4, RootResolves DEF ConfirmEditor, IsLeaf, Structures
  <2>. QED  BY <1>1, <1>2, <1>3, <2>1, <2>2, SetKeepsItems
<1>5. ASSUME NEW t \in GatePaths, ConfirmGatePrompt(t) PROVE ItemsKept(draft, draft', p)
  <2>1. PICK x \in Admissible(version, t) : draft' = Set(version, draft, t, x)
    BY <1>5 DEF ConfirmGatePrompt
  <2>2. /\ t \in Paths \ {<<>>} /\ Resolves(version, t)
        /\ Placeable(draft, t) /\ Anchored(draft, t)
    BY <1>1, GateFacts
  <2>. QED  BY <1>1, <1>2, <2>1, <2>2, SetKeepsItems
<1>6. ASSUME NEW t \in DOMAIN rows, AppendToArray(t) PROVE ItemsKept(draft, draft', p)
  <2>1. TypeAt(version, t) = "array" /\ draft' = AppendItem(draft, t)
    BY <1>6 DEF AppendToArray
  <2>. QED  BY <1>1, <1>2, <1>3, <2>1, AppendKeepsItems
<1>7. ASSUME NEW t \in DOMAIN rows, ConfirmKeyPrompt(t) PROVE ItemsKept(draft, draft', p)
  <2>1. TypeAt(version, t) = "map"
    BY <1>7 DEF ConfirmKeyPrompt
  <2>2. PICK key \in MapKeys \ KeysAt(draft, t) : draft' = AddKey(draft, t, key)
    BY <1>7 DEF ConfirmKeyPrompt
  <2>3. key \in Nat /\ key \notin KeysAt(draft, t)
    BY ComposeTreeAssumption
  <2>. QED  BY <1>1, <1>2, <1>3, <2>1, <2>2, <2>3, AddKeyKeepsItems
<1>8. ASSUME NEW t \in DOMAIN rows, PerformUnset(t) PROVE ItemsKept(draft, draft', p)
  <2>1. t \in DOMAIN draft /\ draft' = Unset(draft, t)
    BY <1>8 DEF PerformUnset, Holds
  <2>. QED  BY <1>1, <2>1, UnsetKeepsItems
<1>9. /\ \A t \in DOMAIN rows : ~ToggleFocused(t)
      /\ ~ValidatePlainly /\ ~ApplyReport /\ ~JumpToFinding /\ ~SelectSearchMatch
      /\ \A target \in Versions : ~CommitVersionSwitch(target)
  BY DEF ToggleFocused, ValidatePlainly, ApplyReport, ShowFindings, JumpToFinding,
         SelectSearchMatch, CommitVersionSwitch, SwitchTo
<1>. QED  BY <1>4, <1>5, <1>6, <1>7, <1>8, <1>9 DEF Next, Step

-----------------------------------------------------------------------------
(* What the runs check.                                                    *)

(* A tree in order has the shape of one.                                   *)
LEMMA TreeIsTyped ==
    ASSUME TreeInv
    PROVE  TypeOK
<1>1. /\ version \in Versions /\ WellFormed(version, draft) /\ RowsMirror(version, draft, rows)
      /\ OutcomeInv(validation, rows)
  BY DEF TreeInv, RowsInv
<1>2. ASSUME NEW p \in DOMAIN rows
      PROVE  /\ rows[p] \in [loaded : BOOLEAN, expanded : BOOLEAN]
             /\ Resolves(version, p)
             /\ p # <<>> => Front(p) \in DOMAIN rows
  BY <1>1, RowsResolve DEF RowsMirror
<1>3. \/ validation = Null
      \/ /\ validation.stale \in BOOLEAN
         /\ validation.mapped # <<>> => validation.next \in DOMAIN validation.mapped
  BY <1>1 DEF OutcomeInv
<1>4. DOMAIN rows \subseteq Paths
  BY <1>1 DEF RowsMirror
<1>. QED  BY <1>1, <1>2, <1>3, <1>4 DEF TypeOK, WellFormed

(* The Draft always fits the open version's Type Schema, its arrays are     *)
(* dense and its fields hold something; rows and outcome have their shape  *)
(* (draft.go's Set, AppendItem, AddKey and Unset; carryover.go).           *)
THEOREM TypeTheorem == Spec => []TypeOK
<1>1. TreeInv => TypeOK
  BY TreeIsTyped
<1>. QED  BY <1>1, TreeTheorem, PTL

(* The rows under a loaded collection are exactly the items and keys the   *)
(* Draft holds there (loadRow, insertInstantiatedRow,                      *)
(* removeInstantiatedRow, performUnset).                                   *)
THEOREM MirrorTheorem == Spec => []RowsMirrorDraft
<1>1. TreeInv => RowsMirrorDraft
  BY LoadedChildren DEF TreeInv, RowsInv, RowsMirrorDraft
<1>. QED  BY <1>1, TreeTheorem, PTL

(* Every visible row is loaded, so Enter knows a leaf from a parent        *)
(* (expandRow).                                                            *)
THEOREM LookaheadTheorem == Spec => []VisibleRowsAreLoaded
<1>1. TreeInv => VisibleRowsAreLoaded
  <2>. SUFFICES ASSUME TreeInv, NEW p \in DOMAIN rows, Visible(p) PROVE rows[p].loaded
    BY DEF VisibleRowsAreLoaded
  <2>1. RowsInv(version, draft, rows) /\ RowsMirror(version, draft, rows)
    BY DEF TreeInv, RowsInv
  <2>2. CASE p = <<>>
    BY <2>1, <2>2 DEF RowsInv
  <2>3. CASE p # <<>>
    <3>1. p \in Paths \ {<<>>}
      BY <2>1, <2>3 DEF RowsMirror
    <3>2. Front(p) = SubSeq(p, 1, Len(p) - 1) /\ Len(p) - 1 \in 0..(Len(p) - 1)
      BY <3>1, FrontLast DEF Paths
    <3>3. rows[Front(p)].expanded
      BY <3>2 DEF Visible
    <3>4. Front(p) \in DOMAIN rows
      BY <2>1, <3>1 DEF RowsMirror
    <3>. QED  BY <2>1, <3>1, <3>3, <3>4 DEF RowsInv, LooksAhead
  <2>. QED  BY <2>2, <2>3
<1>. QED  BY <1>1, TreeTheorem, PTL

(* The required markers are those of the Draft as it is                    *)
(* (refreshCompleteness).                                                  *)
THEOREM MissingTheorem == Spec => []MissingIsCurrent
<1>1. TreeInv => MissingIsCurrent
  BY DEF TreeInv, MissingIsCurrent
<1>. QED  BY <1>1, TreeTheorem, PTL

(* `n` finds the row of every finding that no mutation has outdated         *)
(* (pressJumpToFinding, rowForDraftPath, markValidationOutdated).          *)
THEOREM FreshFindingsTheorem == Spec => []FreshFindingsResolve
<1>1. TreeInv => FreshFindingsResolve
  <2>. SUFFICES ASSUME TreeInv, validation # Null, ~validation.stale,
                       NEW n \in DOMAIN validation.mapped
                PROVE  validation.mapped[n]
                         \in DOMAIN WalkToward(version, draft, rows, validation.mapped[n], TRUE)
    BY DEF FreshFindingsResolve
  <2>. DEFINE p == validation.mapped[n]
  <2>1. /\ version \in Versions /\ WellFormed(version, draft) /\ RowsInv(version, draft, rows)
        /\ OutcomeInv(validation, rows)
    BY DEF TreeInv
  <2>2. p \in DOMAIN rows
    BY <2>1 DEF OutcomeInv
  <2>. HIDE DEF p
  <2>3. Len(p) \in Nat
    BY <2>1, <2>2 DEF RowsInv, RowsMirror, Paths
  <2>4. DOMAIN rows \subseteq DOMAIN WalkToward(version, draft, rows, p, TRUE)
    BY <2>1, <2>3, WalkTowardInv
  <2>5. p \in DOMAIN WalkToward(version, draft, rows, p, TRUE)
    BY <2>2, <2>4
  <2>. QED  BY <2>5 DEF p
<1>. QED  BY <1>1, TreeTheorem, PTL

(* A Manifest keeps what the Draft holds apart and its arrays dense (Emit,  *)
(* emitSequence).                                                          *)
THEOREM EmissionTheorem == Spec => []EmitKeepsApart
<1>1. TreeInv => EmitKeepsApart
  BY EmissionKeepsApart DEF TreeInv, EmitKeepsApart
<1>. QED  BY <1>1, TreeTheorem, PTL

(* A Draft that misses nothing emits no object without its required fields, *)
(* but for those of which it holds an empty item or key (MissingRequired   *)
(* against Emit).                                                          *)
THEOREM CompletenessTheorem == Spec => []CompleteDraftsEmitComplete
<1>1. TreeInv => CompleteDraftsEmitComplete
  <2>. SUFFICES ASSUME TreeInv, missing = {},
                       NEW p \in {<<>>} \cup EmittedPositions(draft), NEW s \in Required[version],
                       Front(s) = SchemaPath(p), p = <<>> => Last(s) \notin Identity
                PROVE  LET q == Append(p, FieldSegment(Last(s))) IN
                       \/ q \in EmittedPositions(draft)
                       \/ \E e \in EmptyEntries(draft) : IsAtOrBeneath(e, q)
    BY DEF CompleteDraftsEmitComplete
  <2>. QED  BY EmissionIsComplete DEF TreeInv
<1>. QED  BY <1>1, TreeTheorem, PTL

(* A version switch loses nothing the drop report does not name, and what  *)
(* it carries is a Draft of the target version (CarryOver, Drops).         *)
THEOREM CarryOverTheorem == Spec => []CarriedOrReported
<1>1. TreeInv => CarriedOrReported
  <2>. SUFFICES ASSUME TreeInv, NEW target \in Versions
                PROVE  LET c == CarryOver(draft, target) IN
                       /\ IsDraft(target, c) /\ Dense(c) /\ NoHollowField(c)
                       /\ \A p \in DOMAIN draft : ~IsField(Last(p)) /\ Resolves(target, p) =>
                            p \in DOMAIN c
                       /\ \A p \in FilledPaths(draft) :
                            LET covered == \E q \in Drops(draft, target) : IsAtOrBeneath(p, q) IN
                            IF covered THEN p \notin FilledPaths(c)
                            ELSE p \in FilledPaths(c) /\ c[p].data = draft[p].data
    BY DEF CarriedOrReported
  <2>1. version \in Versions /\ WellFormed(version, draft)
    BY DEF TreeInv
  <2>2. WellFormed(target, CarryOver(draft, target))
    BY <2>1, CarryOverIsWellFormed
  <2>3. CarriedEntries(draft, target) \subseteq DOMAIN CarryOver(draft, target)
    BY <2>1, CarryOverBy
  <2>4. \A p \in DOMAIN draft : ~IsField(Last(p)) /\ Resolves(target, p) =>
          p \in CarriedEntries(draft, target)
    BY DEF CarriedEntries
  <2>5. \A p \in FilledPaths(draft) :
          LET c == CarryOver(draft, target)
              covered == \E q \in Drops(draft, target) : IsAtOrBeneath(p, q)
          IN  IF covered THEN p \notin FilledPaths(c)
              ELSE p \in FilledPaths(c) /\ c[p].data = draft[p].data
    BY <2>1, CarryOverReports
  <2>. QED  BY <2>2, <2>3, <2>4, <2>5 DEF WellFormed
<1>. QED  BY <1>1, TreeTheorem, PTL

(* Enter twice on a filled leaf leaves the value as it is exactly when the  *)
(* enum, if there is one, lists it and it is not a string of digits in an   *)
(* int-or-string field (newFieldEditor, confirmValue, carryValue).         *)
THEOREM ReopenedTheorem == Spec => []ReopenedValuesStay
<1>1. TreeInv => ReopenedValuesStay
  <2>. SUFFICES ASSUME TreeInv, NEW p \in FilledPaths(draft)
                PROVE  LET x == draft[p].data
                           digits == /\ TypeAt(version, p) = "int-or-string"
                                     /\ Flavor[x] = "text" /\ Reads(Spelling[x], {"whole"}) # {}
                           stays == Confirms(version, p, Opened(version, draft, p)) = {x}
                       IN  stays <=> IsListed(version, p, x) /\ ~digits
    BY DEF ReopenedValuesStay
  <2>. DEFINE x == draft[p].data
              type == TypeAt(version, p)
              digits == type = "int-or-string" /\ Flavor[x] = "text"
                          /\ Reads(Spelling[x], {"whole"}) # {}
  <2>1. version \in Versions /\ IsDraft(version, draft)
    BY DEF TreeInv, WellFormed
  <2>2. x \in Data /\ Flavor[x] \in Spellings(type) /\ Resolves(version, p)
    BY <2>1, FilledIsLeaf
  <2>3. IsEnumerated(version, p) => type \in Scalars /\ EnumAt(version, p) \in Seq(STRING) \ {<<>>}
    BY <2>1, DraftAssumption DEF IsEnumerated, EnumAt, TypeAt
  <2>4. \A F : Flavor[x] \in F => x \in Reads(Spelling[x], F)
    BY <2>2 DEF Reads
  <2>5. \A y \in Data : Spelling[y] = Spelling[x] /\ Flavor[y] = Flavor[x] => y = x
    BY <2>2, DraftAssumption
  <2>6. \A y \in Data : Spelling[y] = Spelling[x] =>
          ~(Flavor[x] = "whole" /\ Flavor[y] = "fraction") /\ ~(Flavor[x] = "fraction" /\ Flavor[y] = "whole")
    BY <2>2, WidgetAssumption
  <2>. DEFINE confirmed == Confirms(version, p, Opened(version, draft, p))
              parsed == Reads(Spelling[x], Parsed(type))
  <2>7. CASE IsListed(version, p, x)
    <3>1. Opened(version, draft, p) = Spelling[x]
      BY <2>7 DEF Opened, WidgetFor, IsListed
    <3>2. /\ parsed # {} => confirmed = parsed
          /\ WidgetFor(version, p) \in {"text", "select"} /\ parsed = {} =>
               confirmed = Reads(Spelling[x], {"text"})
      BY <3>1 DEF Confirms
    <3>3. \A f : Flavor[x] = f => Reads(Spelling[x], {f}) = {x}
      BY <2>2, <2>5 DEF Reads
    <3>4. Flavor[x] \in {"whole", "fraction"} => Reads(Spelling[x], {"whole", "fraction"}) = {x}
      BY <2>2, <2>5, <2>6 DEF Reads
    <3>5. type \in {"string", "int-or-string"} => WidgetFor(version, p) \in {"text", "select"}
      BY DEF WidgetFor
    <3>6. CASE type = "int-or-string" /\ Flavor[x] = "text"
      <4>1. parsed = Reads(Spelling[x], {"whole"})
        BY <3>6 DEF Parsed
      <4>2. x \notin parsed
        BY <3>6, <4>1 DEF Reads
      <4>. HIDE DEF x, type, parsed, confirmed
      <4>3. confirmed = {x} <=> parsed = {}
        BY <3>2, <3>3, <3>5, <3>6, <4>2
      <4>. QED  BY <2>7, <3>6, <4>1, <4>3 DEF confirmed, x, type
    <3>7. CASE type = "string" /\ Flavor[x] = "text"
      <4>1. parsed = {}
        BY <3>7 DEF Parsed, Reads
      <4>2. confirmed = {x}
        BY <3>2, <3>3, <3>5, <3>7, <4>1
      <4>. QED  BY <2>7, <3>7, <4>2
    <3>8. CASE ~(type \in {"string", "int-or-string"} /\ Flavor[x] = "text")
      <4>1. parsed = {x}
        BY <2>2, <3>3, <3>4, <3>8 DEF Parsed, Spellings
      <4>2. confirmed = {x}
        BY <3>2, <4>1
      <4>. QED  BY <2>7, <3>8, <4>2
    <3>. QED  BY <3>6, <3>7, <3>8
  <2>8. CASE ~IsListed(version, p, x)
    <3>1. /\ IsEnumerated(version, p) /\ Spelling[x] \notin Range(EnumAt(version, p))
          /\ type \in Scalars
      BY <2>3, <2>8 DEF IsListed
    <3>2. WidgetFor(version, p) = "select"
      BY <3>1 DEF WidgetFor, Scalars
    <3>3. Opened(version, draft, p) = Head(EnumAt(version, p))
      BY <3>1, <3>2 DEF Opened
    <3>4. Head(EnumAt(version, p)) \in Range(EnumAt(version, p))
      BY <2>3, <3>1 DEF Range
    <3>5. Opened(version, draft, p) # Spelling[x]
      BY <3>1, <3>3, <3>4
    <3>6. x \notin confirmed
      BY <3>5 DEF Confirms, Reads
    <3>7. confirmed # {x}
      BY <3>6
    <3>. QED  BY <2>8, <3>7
  <2>. QED  BY <2>7, <2>8
<1>. QED  BY <1>1, TreeTheorem, PTL

(* No step disturbs two items of one array: one goes, an empty one comes   *)
(* last, or one changes, and the others keep contents and order, whatever   *)
(* is nested in them (deleteChild's renumbering, Unset, Set, AppendItem).   *)
THEOREM ItemsTheorem == Spec => ItemsKeepTheirContents
<1>1. TreeInv /\ [Next]_vars =>
        [draft' # draft /\ version' = version =>
           \A p \in DOMAIN draft \cap DOMAIN draft' :
              TypeAt(version, p) = "array" /\ Stays(draft, draft', p) =>
                  ItemsKept(draft, draft', p)]_vars
  BY StepKeepsItems
<1>. QED  BY <1>1, TreeTheorem, PTL DEF Spec, ItemsKeepTheirContents

-----------------------------------------------------------------------------
(* What the findings mark: the server's spelling of a position, token by    *)
(* token, and back.                                                        *)

(* Positions in increasing order are picked in that order.                 *)
LEMMA PickedInOrder ==
    ASSUME NEW s, NEW c \in Nat, NEW at \in [1..c -> Nat],
           \A j, k \in 1..c : j < k => at[j] < at[k]
    PROVE  Picked(s, {at[k] : k \in 1..c}) = [k \in 1..c |-> s[at[k]]]
<1>. DEFINE N == {at[k] : k \in 1..c}
            below(m) == {x \in N : x < m}
<1>1. \A j, k \in 1..c : at[j] = at[k] => j = k
  OBVIOUS
<1>2. ASSUME NEW k \in 0..c
      PROVE  Cardinality({at[j] : j \in 1..k}) = k
  <2>. DEFINE f == [j \in 1..k |-> at[j]]
              S == {at[j] : j \in 1..k}
  <2>1. \A j \in 1..k : j \in 1..c
    OBVIOUS
  <2>2. f \in Bijection(1..k, S)
    BY <1>1, <2>1 DEF Bijection, Injection, Surjection, IsInjective
  <2>3. IsFiniteSet(1..k) /\ Cardinality(1..k) = k
    BY FS_Interval
  <2>. HIDE DEF f, S
  <2>4. Cardinality(S) = k
    BY <2>2, <2>3, FS_Bijection DEF ExistsBijection
  <2>. QED  BY <2>4 DEF S
<1>3. Cardinality(N) = c
  BY <1>2
<1>4. ASSUME NEW k \in 1..c PROVE Cardinality(below(at[k])) = k - 1
  <2>1. below(at[k]) = {at[j] : j \in 1..(k - 1)}
    <3>1. ASSUME NEW x \in below(at[k]) PROVE \E j \in 1..(k - 1) : x = at[j]
      <4>1. PICK j \in 1..c : x = at[j] /\ at[j] < at[k]
        OBVIOUS
      <4>2. j < k
        <5>1. at[j] \in Nat /\ at[k] \in Nat
          OBVIOUS
        <5>2. ~(k < j) /\ j # k
          BY <4>1, <5>1
        <5>. QED  BY <5>2
      <4>. QED  BY <4>1, <4>2
    <3>2. ASSUME NEW j \in 1..(k - 1) PROVE at[j] \in below(at[k])
      <4>1. j \in 1..c /\ j < k
        OBVIOUS
      <4>. QED  BY <4>1
    <3>. QED  BY <3>1, <3>2
  <2>2. k - 1 \in 0..c
    OBVIOUS
  <2>. QED  BY <1>2, <2>1, <2>2
<1>. HIDE DEF below
<1>5. ASSUME NEW k \in 1..c
      PROVE  (CHOOSE n \in N : Cardinality(below(n)) = k - 1) = at[k]
  <2>1. \A n \in N : Cardinality(below(n)) = k - 1 => n = at[k]
    <3>. SUFFICES ASSUME NEW j \in 1..c, Cardinality(below(at[j])) = k - 1
                  PROVE  at[j] = at[k]
      OBVIOUS
    <3>1. j - 1 = k - 1
      BY <1>4
    <3>. QED  BY <3>1
  <2>2. at[k] \in N /\ Cardinality(below(at[k])) = k - 1
    BY <1>4
  <2>. HIDE DEF N
  <2>. QED  BY <2>1, <2>2
<1>. HIDE DEF N
<1>6. Picked(s, N) = [i \in 1..Cardinality(N) |->
                        s[CHOOSE n \in N : Cardinality(below(n)) = i - 1]]
  BY DEF Picked, below
<1>7. \A i \in 1..c : s[CHOOSE n \in N : Cardinality(below(n)) = i - 1] = s[at[i]]
  BY <1>5
<1>8. Picked(s, N) = [i \in 1..c |-> s[CHOOSE n \in N : Cardinality(below(n)) = i - 1]]
  BY <1>3, <1>6
<1>9. Picked(s, N) = [k \in 1..c |-> s[at[k]]]
  BY <1>7, <1>8
<1>. QED  BY <1>9 DEF N

(* What a segment's token is, and what it reads back as.                   *)
Tokens == {Dot, EmptySelector} \cup [name : STRING] \cup [digits : Nat] \cup [text : Nat]
Token(segment) ==
    CASE IsField(segment) -> Name(segment.field)
      [] IsItem(segment) -> Digits(segment.item)
      [] IsKey(segment) /\ segment.key \in DigitKeys -> Digits(segment.key)
      [] OTHER -> Text(segment.key)
Misread(segment) ==
    IF IsKey(segment) /\ segment.key \in DigitKeys THEN IndexSegment(segment.key) ELSE segment
MisreadPath(p) == [n \in 1..Len(p) |-> Misread(p[n])]
ReadBack(token) ==
    CASE IsName(token) -> FieldSegment(token.name)
      [] "digits" \in DOMAIN token -> IndexSegment(token.digits)
      [] OTHER -> KeySegment(token.text)

(* Tokens tell themselves apart.                                           *)
LEMMA TokenKinds ==
    /\ ~IsName(Dot) /\ Dot # EmptySelector /\ Dot \in Tokens /\ EmptySelector \in Tokens
    /\ \A x : /\ IsName(Name(x)) /\ Name(x).name = x /\ "digits" \notin DOMAIN Name(x)
              /\ Name(x) # Dot /\ Name(x) # EmptySelector
    /\ \A x : /\ ~IsName(Digits(x)) /\ Digits(x).digits = x /\ "digits" \in DOMAIN Digits(x)
              /\ Digits(x) # Dot /\ Digits(x) # EmptySelector
    /\ \A x : /\ ~IsName(Text(x)) /\ Text(x).text = x /\ "digits" \notin DOMAIN Text(x)
              /\ Text(x) # Dot /\ Text(x) # EmptySelector
    /\ \A x \in STRING : Name(x) \in Tokens
    /\ \A x \in Nat : Digits(x) \in Tokens /\ Text(x) \in Tokens
<1>1. DOMAIN Dot = {"dot"} /\ DOMAIN EmptySelector = {"empty"}
  BY DEF Dot, EmptySelector
<1>2. /\ \A x : DOMAIN Name(x) = {"name"} /\ Name(x).name = x
      /\ \A x : DOMAIN Digits(x) = {"digits"} /\ Digits(x).digits = x
      /\ \A x : DOMAIN Text(x) = {"text"} /\ Text(x).text = x
  BY DEF Name, Digits, Text
<1>3. /\ Dot \in Tokens /\ EmptySelector \in Tokens /\ \A x \in STRING : Name(x) \in Tokens
      /\ \A x \in Nat : Digits(x) \in Tokens /\ Text(x) \in Tokens
  BY DEF Tokens, Name, Digits, Text
<1>4. Dot # EmptySelector
  BY <1>1
<1>5. \A x : Name(x) # Dot /\ Name(x) # EmptySelector /\ IsName(Name(x))
             /\ "digits" \notin DOMAIN Name(x)
  BY <1>1, <1>2 DEF IsName
<1>6. \A x : /\ Digits(x) # Dot /\ Digits(x) # EmptySelector /\ ~IsName(Digits(x))
             /\ "digits" \in DOMAIN Digits(x)
  BY <1>1, <1>2 DEF IsName
<1>7. \A x : /\ Text(x) # Dot /\ Text(x) # EmptySelector /\ ~IsName(Text(x))
             /\ "digits" \notin DOMAIN Text(x)
  BY <1>1, <1>2 DEF IsName
<1>8. ~IsName(Dot)
  BY <1>1 DEF IsName
<1>. QED  BY <1>2, <1>3, <1>4, <1>5, <1>6, <1>7, <1>8

(* A segment is spelled as its token, a field with a dot before it, and the *)
(* token reads back as the segment or, for a key of digits, as an item.    *)
LEMMA SegmentSpelled ==
    ASSUME NEW s \in Segments
    PROVE  /\ Token(s) \in Tokens /\ Token(s) # Dot /\ Token(s) # EmptySelector
           /\ IsName(Token(s)) <=> IsField(s)
           /\ Spelled(s) = IF IsField(s) THEN <<Dot, Token(s)>> ELSE <<Token(s)>>
           /\ ReadBack(Token(s)) = Misread(s)
<1>1. CASE IsField(s)
  <2>1. s.field \in STRING /\ ~IsKey(s) /\ ~IsItem(s) /\ s = FieldSegment(s.field)
    BY <1>1, SegmentKinds
  <2>2. Token(s) = Name(s.field) /\ Spelled(s) = <<Dot, Name(s.field)>>
    BY <1>1, <2>1 DEF Token, Spelled
  <2>3. Misread(s) = s
    BY <2>1 DEF Misread
  <2>4. ReadBack(Name(s.field)) = FieldSegment(s.field)
    BY <2>1, TokenKinds DEF ReadBack
  <2>. QED  BY <1>1, <2>1, <2>2, <2>3, <2>4, TokenKinds
<1>2. CASE IsItem(s)
  <2>1. s.item \in Nat /\ ~IsKey(s) /\ ~IsField(s) /\ s = IndexSegment(s.item)
    BY <1>2, SegmentKinds
  <2>2. Token(s) = Digits(s.item) /\ Spelled(s) = <<Digits(s.item)>>
    BY <1>2, <2>1 DEF Token, Spelled
  <2>3. Misread(s) = s
    BY <2>1 DEF Misread
  <2>4. ReadBack(Digits(s.item)) = IndexSegment(s.item)
    BY <2>1, TokenKinds DEF ReadBack
  <2>. QED  BY <2>1, <2>2, <2>3, <2>4, TokenKinds
<1>3. CASE IsKey(s) /\ s.key \in DigitKeys
  <2>1. s.key \in Nat /\ ~IsItem(s) /\ ~IsField(s)
    BY <1>3, SegmentKinds
  <2>2. Token(s) = Digits(s.key) /\ Spelled(s) = <<Digits(s.key)>>
    BY <1>3, <2>1 DEF Token, Spelled
  <2>3. Misread(s) = IndexSegment(s.key)
    BY <1>3 DEF Misread
  <2>4. ReadBack(Digits(s.key)) = IndexSegment(s.key)
    BY <2>1, TokenKinds DEF ReadBack
  <2>. QED  BY <2>1, <2>2, <2>3, <2>4, TokenKinds
<1>4. CASE IsKey(s) /\ s.key \notin DigitKeys
  <2>1. s.key \in Nat /\ ~IsItem(s) /\ ~IsField(s) /\ s = KeySegment(s.key)
    BY <1>4, SegmentKinds
  <2>2. Token(s) = Text(s.key) /\ Spelled(s) = <<Text(s.key)>>
    BY <1>4, <2>1 DEF Token, Spelled
  <2>3. Misread(s) = s
    BY <1>4 DEF Misread
  <2>4. ReadBack(Text(s.key)) = KeySegment(s.key)
    BY <2>1, TokenKinds DEF ReadBack
  <2>. QED  BY <2>1, <2>2, <2>3, <2>4, TokenKinds
<1>. QED  BY <1>1, <1>2, <1>3, <1>4, SegmentKinds

(* The tokens t spell the first n segments of p: each segment's own token   *)
(* sits at a place of its own, in order, and between them are only dots.    *)
SitsAt(p, n, t, at) ==
    /\ at \in [1..n -> 1..Len(t)]
    /\ \A k \in 1..n : t[at[k]] = Token(p[k])
    /\ \A j, k \in 1..n : j < k => at[j] < at[k]
    /\ at[n] = Len(t)
    /\ at[1] = 2
Grammatical(t) ==
    /\ t \in Seq(Tokens) /\ Len(t) > 1 /\ t[1] = Dot
    /\ \A m \in 1..Len(t) : t[m] # EmptySelector
    /\ \A m \in 2..Len(t) : IsName(t[m]) <=> t[m - 1] = Dot
SpellsTo(p, n, t, at) ==
    /\ Grammatical(t)
    /\ SitsAt(p, n, t, at)
    /\ \A m \in 1..Len(t) : t[m] # Dot => \E k \in 1..n : m = at[k]

(* The first segment, a field.                                             *)
LEMMA FirstSpelled ==
    ASSUME NEW p \in Paths \ {<<>>}, IsField(p[1])
    PROVE  \E at : SpellsTo(p, 1, Spelled(p[1]), at)
<1>. DEFINE t == <<Dot, Token(p[1])>>
            at == [k \in 1..1 |-> 2]
<1>1. p[1] \in Segments
  BY FrontLast DEF Paths
<1>2. /\ Token(p[1]) \in Tokens /\ Token(p[1]) # Dot /\ Token(p[1]) # EmptySelector
      /\ IsName(Token(p[1])) /\ Spelled(p[1]) = t
  BY <1>1, SegmentSpelled
<1>3. /\ ~IsName(Dot) /\ Dot # EmptySelector /\ Dot \in Tokens
  BY TokenKinds
<1>4. Grammatical(t)
  <2>1. t \in Seq(Tokens) /\ Len(t) = 2 /\ t[1] = Dot /\ t[2] = Token(p[1])
    BY <1>2, <1>3
  <2>. HIDE DEF t
  <2>2. \A m \in 1..2 : m = 1 \/ m = 2
    OBVIOUS
  <2>3. \A m \in 2..2 : m = 2 /\ m - 1 = 1
    OBVIOUS
  <2>. QED  BY <1>2, <1>3, <2>1, <2>2, <2>3 DEF Grammatical
<1>5. SitsAt(p, 1, t, at)
  BY DEF SitsAt
<1>6. \A m \in 1..Len(t) : t[m] # Dot => \E k \in 1..1 : m = at[k]
  OBVIOUS
<1>. HIDE DEF t, at
<1>. QED  BY <1>2, <1>4, <1>5, <1>6 DEF SpellsTo

(* One more token goes on from the last.                                   *)
LEMMA TokenAppended ==
    ASSUME NEW t, Grammatical(t), t[Len(t)] # Dot, NEW x \in Tokens, x # Dot, x # EmptySelector
    PROVE  /\ ~IsName(x) => Grammatical(t \o <<x>>)
           /\ IsName(x) => Grammatical(t \o <<Dot, x>>)
           /\ Len(t \o <<x>>) = Len(t) + 1 /\ Len(t \o <<Dot, x>>) = Len(t) + 2
           /\ \A m \in 1..Len(t) : (t \o <<x>>)[m] = t[m] /\ (t \o <<Dot, x>>)[m] = t[m]
           /\ (t \o <<x>>)[Len(t) + 1] = x
           /\ (t \o <<Dot, x>>)[Len(t) + 1] = Dot /\ (t \o <<Dot, x>>)[Len(t) + 2] = x
<1>. DEFINE a == t \o <<x>>
            b == t \o <<Dot, x>>
            N == Len(t)
<1>1. /\ t \in Seq(Tokens) /\ N > 1 /\ N \in Nat /\ t[1] = Dot
      /\ \A m \in 1..N : t[m] # EmptySelector
      /\ \A m \in 2..N : IsName(t[m]) <=> t[m - 1] = Dot
  BY DEF Grammatical
<1>2. Dot \in Tokens /\ Dot # EmptySelector /\ ~IsName(Dot)
  BY TokenKinds
<1>3. /\ a \in Seq(Tokens) /\ Len(a) = N + 1 /\ a[N + 1] = x
      /\ \A m \in 1..N : a[m] = t[m]
  BY <1>1
<1>4. /\ b \in Seq(Tokens) /\ Len(b) = N + 2 /\ b[N + 1] = Dot /\ b[N + 2] = x
      /\ \A m \in 1..N : b[m] = t[m]
  BY <1>1, <1>2
<1>. HIDE DEF a, b, N
<1>5. t[N] # Dot
  BY DEF N
<1>6. ASSUME ~IsName(x) PROVE Grammatical(a)
  <2>1. \A m \in 1..(N + 1) : a[m] # EmptySelector
    BY <1>1, <1>3
  <2>2. ASSUME NEW m \in 2..(N + 1) PROVE IsName(a[m]) <=> a[m - 1] = Dot
    <3>1. CASE m = N + 1
      BY <1>1, <1>3, <1>5, <1>6, <3>1
    <3>2. CASE m # N + 1
      <4>1. m \in 2..N /\ m \in 1..N /\ m - 1 \in 1..N
        BY <1>1, <3>2
      <4>. QED  BY <1>1, <1>3, <4>1
    <3>. QED  BY <3>1, <3>2
  <2>3. a[1] = Dot /\ Len(a) > 1
    BY <1>1, <1>3
  <2>. QED  BY <1>3, <2>1, <2>2, <2>3 DEF Grammatical
<1>7. ASSUME IsName(x) PROVE Grammatical(b)
  <2>1. \A m \in 1..(N + 2) : b[m] # EmptySelector
    BY <1>1, <1>2, <1>4
  <2>2. ASSUME NEW m \in 2..(N + 2) PROVE IsName(b[m]) <=> b[m - 1] = Dot
    <3>1. CASE m = N + 1
      BY <1>1, <1>2, <1>4, <1>5, <3>1
    <3>2. CASE m = N + 2
      <4>1. m - 1 = N + 1
        BY <1>1, <3>2
      <4>. QED  BY <1>4, <1>7, <3>2, <4>1
    <3>3. CASE m # N + 1 /\ m # N + 2
      <4>1. m \in 2..N /\ m \in 1..N /\ m - 1 \in 1..N
        BY <1>1, <3>3
      <4>. QED  BY <1>1, <1>4, <4>1
    <3>. QED  BY <3>1, <3>2, <3>3
  <2>3. b[1] = Dot /\ Len(b) > 1
    BY <1>1, <1>4
  <2>. QED  BY <1>4, <2>1, <2>2, <2>3 DEF Grammatical
<1>. QED  BY <1>3, <1>4, <1>6, <1>7 DEF a, b, N

(* One more segment.                                                       *)
LEMMA MoreSpelled ==
    ASSUME NEW p \in Paths, NEW n \in 1..Len(p), n + 1 <= Len(p), NEW t, NEW at,
           SpellsTo(p, n, t, at)
    PROVE  \E bt : SpellsTo(p, n + 1, t \o Spelled(p[n + 1]), bt)
<1>. DEFINE x == Token(p[n + 1])
            u == t \o Spelled(p[n + 1])
            N == Len(t)
            M == Len(u)
            bt == [k \in 1..(n + 1) |-> IF k = n + 1 THEN M ELSE at[k]]
<1>1. Len(p) \in Nat /\ n \in Nat /\ p[n + 1] \in Segments
  BY DEF Paths
<1>2. /\ x \in Tokens /\ x # Dot /\ x # EmptySelector
      /\ IsName(x) <=> IsField(p[n + 1])
      /\ Spelled(p[n + 1]) = IF IsField(p[n + 1]) THEN <<Dot, x>> ELSE <<x>>
  BY <1>1, SegmentSpelled
<1>3. Grammatical(t) /\ N \in Nat /\ N > 1
  BY DEF SpellsTo, Grammatical
<1>4. /\ at \in [1..n -> 1..N] /\ \A k \in 1..n : t[at[k]] = Token(p[k])
      /\ \A j, k \in 1..n : j < k => at[j] < at[k]
      /\ at[n] = N /\ at[1] = 2
      /\ \A m \in 1..N : t[m] # Dot => \E k \in 1..n : m = at[k]
  BY DEF SpellsTo, SitsAt
<1>5. t[N] # Dot
  <2>1. n \in 1..n /\ p[n] \in Segments
    BY <1>1 DEF Paths
  <2>2. t[N] = Token(p[n])
    BY <1>4, <2>1
  <2>. QED  BY <2>1, <2>2, SegmentSpelled
<1>6. /\ Grammatical(u) /\ M \in Nat /\ M > N /\ u[M] = x
      /\ \A m \in 1..N : u[m] = t[m]
      /\ \A m \in 1..M : m \in 1..N \/ m = M \/ u[m] = Dot
  <2>. HIDE DEF x, N
  <2>0. t[Len(t)] # Dot
    BY <1>5 DEF N
  <2>1. CASE IsField(p[n + 1])
    <3>1. u = t \o <<Dot, x>>
      BY <1>2, <2>1
    <3>. HIDE DEF u
    <3>2. /\ Grammatical(u) /\ M = N + 2 /\ u[N + 1] = Dot /\ u[N + 2] = x
          /\ \A m \in 1..N : u[m] = t[m]
      BY <1>2, <1>3, <2>0, <2>1, <3>1, TokenAppended DEF N
    <3>. HIDE DEF M
    <3>3. M \in Nat /\ M > N /\ \A m \in 1..M : m \in 1..N \/ m = M \/ m = N + 1
      BY <1>3, <3>2
    <3>. QED  BY <3>2, <3>3
  <2>2. CASE ~IsField(p[n + 1])
    <3>1. u = t \o <<x>>
      BY <1>2, <2>2
    <3>. HIDE DEF u
    <3>4. ~IsName(x) /\ x \in Tokens /\ x # Dot /\ x # EmptySelector
      BY <1>2, <2>2
    <3>2. /\ Grammatical(u) /\ M = N + 1 /\ u[N + 1] = x
          /\ \A m \in 1..N : u[m] = t[m]
      BY <1>3, <2>0, <3>1, <3>4, TokenAppended DEF N
    <3>. HIDE DEF M
    <3>3. M \in Nat /\ M > N /\ \A m \in 1..M : m \in 1..N \/ m = M
      BY <1>3, <3>2
    <3>. QED  BY <3>2, <3>3
  <2>. QED  BY <2>1, <2>2
<1>. HIDE DEF u, x, N
<1>. DEFINE L == M
<1>7. L = M
  OBVIOUS
<1>. HIDE DEF M
<1>8. bt \in [1..(n + 1) -> 1..M]
  <2>1. \A k \in 1..(n + 1) : k # n + 1 => k \in 1..n
    BY <1>1
  <2>2. \A k \in 1..n : at[k] \in 1..M
    BY <1>3, <1>4, <1>6
  <2>3. M \in 1..M
    BY <1>3, <1>6
  <2>. QED  BY <2>1, <2>2, <2>3
<1>9. /\ \A k \in 1..n : bt[k] = at[k]
      /\ bt[n + 1] = M
      /\ \A k \in 1..(n + 1) : k \in 1..n \/ k = n + 1
  BY <1>1
<1>. HIDE DEF bt
<1>10. \A k \in 1..(n + 1) : u[bt[k]] = Token(p[k])
  <2>1. \A k \in 1..n : u[at[k]] = Token(p[k])
    BY <1>4, <1>6
  <2>. QED  BY <1>6, <1>9, <2>1 DEF x
<1>11. ASSUME NEW j \in 1..(n + 1), NEW k \in 1..(n + 1), j < k PROVE bt[j] < bt[k]
  <2>1. j \in 1..n
    BY <1>1, <1>11
  <2>2. at[j] \in 1..N
    BY <1>4, <2>1
  <2>3. CASE k = n + 1
    BY <1>3, <1>6, <1>9, <2>1, <2>2, <2>3
  <2>4. CASE k # n + 1
    <3>1. k \in 1..n
      BY <1>9, <2>4
    <3>. QED  BY <1>4, <1>9, <1>11, <2>1, <3>1
  <2>. QED  BY <2>3, <2>4
<1>12. bt[1] = 2
  <2>1. 1 \in 1..n
    BY <1>1
  <2>. QED  BY <1>4, <1>9, <2>1
<1>13. SitsAt(p, n + 1, u, bt)
  BY <1>8, <1>9, <1>10, <1>11, <1>12 DEF SitsAt, M
<1>14. ASSUME NEW m \in 1..M, u[m] # Dot PROVE \E k \in 1..(n + 1) : m = bt[k]
  <2>1. CASE m = M
    <3>1. n + 1 \in 1..(n + 1)
      BY <1>1
    <3>. QED  BY <1>9, <2>1, <3>1
  <2>2. CASE m \in 1..N
    <3>1. PICK k \in 1..n : m = at[k]
      BY <1>4, <1>6, <1>14, <2>2
    <3>2. k \in 1..(n + 1)
      BY <1>1
    <3>. QED  BY <1>9, <3>1, <3>2
  <2>. QED  BY <1>6, <1>14, <2>1, <2>2
<1>15. SpellsTo(p, n + 1, u, bt)
  BY <1>6, <1>13, <1>14 DEF SpellsTo, M
<1>. QED  BY <1>15 DEF u

(* The server's spelling of a position, token by token.                    *)
LEMMA PathSpelled ==
    ASSUME NEW p \in Paths \ {<<>>}, IsField(p[1])
    PROVE  \E at : SpellsTo(p, Len(p), FlattenSeq([n \in DOMAIN p |-> Spelled(p[n])]), at)
<1>. DEFINE ss == [n \in DOMAIN p |-> Spelled(p[n])]
            N == Len(p)
<1>1. N \in Nat \ {0} /\ DOMAIN p = 1..N
  BY FrontLast DEF Paths
<1>2. Len(ss) = N /\ \A n \in 1..N : ss[n] = Spelled(p[n])
  BY <1>1
<1>. HIDE DEF ss, N
<1>3. PICK w : /\ FlattenSeq(ss) = w[N]
               /\ \A i \in 1..N : w[i] = IF i = 1 THEN ss[i] ELSE w[i - 1] \o ss[i]
  BY <1>1, <1>2, FlattenSeqSteps
<1>. DEFINE T == {n \in Nat : n \in 1..N => \E at : SpellsTo(p, n, w[n], at)}
<1>4. 0 \in T
  OBVIOUS
<1>5. ASSUME NEW n \in Nat, n \in T PROVE n + 1 \in T
  <2>. SUFFICES ASSUME n + 1 \in 1..N PROVE \E at : SpellsTo(p, n + 1, w[n + 1], at)
    OBVIOUS
  <2>1. CASE n = 0
    <3>1. w[1] = Spelled(p[1])
      BY <1>1, <1>2, <1>3
    <3>. QED  BY <2>1, <3>1, FirstSpelled
  <2>2. CASE n # 0
    <3>1. n \in 1..N /\ n + 1 # 1 /\ (n + 1) - 1 = n /\ n + 1 <= N
      BY <1>1, <2>2
    <3>2. w[n + 1] = w[n] \o Spelled(p[n + 1])
      BY <1>2, <1>3, <3>1
    <3>3. PICK at : SpellsTo(p, n, w[n], at)
      BY <1>5, <3>1
    <3>. QED  BY <3>1, <3>2, <3>3, MoreSpelled DEF N
  <2>. QED  BY <2>1, <2>2
<1>6. N \in T
  <2>. HIDE DEF T
  <2>. QED  BY <1>1, <1>4, <1>5, Induction
<1>7. \E at : SpellsTo(p, N, FlattenSeq(ss), at)
  BY <1>1, <1>3, <1>6
<1>. QED  BY <1>7 DEF ss, N

(* Trimmed are the dots before the first that is none.                     *)
LEMMA TrimmedAt ==
    ASSUME NEW f, Len(f) \in Nat, NEW start \in 1..(Len(f) + 1),
           start <= Len(f) => f[start] # Dot, \A m \in 1..(start - 1) : f[m] = Dot
    PROVE  TrimDots(f) = SubSeq(f, start, Len(f))
<1>. DEFINE At(n) == /\ n <= Len(f) => f[n] # Dot
                     /\ \A m \in 1..(n - 1) : f[m] = Dot
<1>1. At(start)
  OBVIOUS
<1>2. ASSUME NEW n \in 1..(Len(f) + 1), At(n) PROVE n = start
  <2>1. ~(n < start)
    <3>. SUFFICES ASSUME n < start PROVE FALSE
      OBVIOUS
    <3>1. n \in 1..(start - 1) /\ n <= Len(f)
      OBVIOUS
    <3>. QED  BY <1>2, <3>1
  <2>2. ~(start < n)
    <3>. SUFFICES ASSUME start < n PROVE FALSE
      OBVIOUS
    <3>1. start \in 1..(n - 1) /\ start <= Len(f)
      OBVIOUS
    <3>. QED  BY <1>2, <3>1
  <2>. QED  BY <2>1, <2>2
<1>. HIDE DEF At
<1>3. (CHOOSE n \in 1..(Len(f) + 1) : At(n)) = start
  BY <1>1, <1>2
<1>. QED  BY <1>3 DEF TrimDots, At

(* What is after the first dot is left of a spelling that starts with one.  *)
LEMMA Trimmed ==
    ASSUME NEW t, Grammatical(t)
    PROVE  TrimDots(t) = Tail(t) /\ TrimDots(Tail(t)) = Tail(t)
<1>. DEFINE N == Len(t)
            r == Tail(t)
<1>1. /\ t \in Seq(Tokens) /\ N > 1 /\ N \in Nat /\ t[1] = Dot
      /\ IsName(t[2])
  BY DEF Grammatical
<1>2. t[2] # Dot
  BY <1>1, TokenKinds
<1>3. /\ r \in Seq(Tokens) /\ Len(r) = N - 1 /\ r[1] = t[2]
      /\ SubSeq(t, 2, N) = r /\ SubSeq(r, 1, N - 1) = r
  BY <1>1
<1>. HIDE DEF r
<1>4. TrimDots(t) = SubSeq(t, 2, N)
  <2>1. /\ 2 \in 1..(Len(t) + 1)
        /\ 2 <= Len(t) => t[2] # Dot
        /\ \A m \in 1..(2 - 1) : t[m] = Dot
    BY <1>1, <1>2
  <2>. QED  BY <1>1, <2>1, TrimmedAt
<1>5. TrimDots(r) = SubSeq(r, 1, N - 1)
  <2>1. /\ Len(r) \in Nat /\ 1 \in 1..(Len(r) + 1)
        /\ 1 <= Len(r) => r[1] # Dot
        /\ \A m \in 1..(1 - 1) : r[m] = Dot
    BY <1>1, <1>2, <1>3
  <2>. QED  BY <1>3, <2>1, TrimmedAt
<1>. QED  BY <1>3, <1>4, <1>5 DEF r

(* A position's spelling, but for the field that is named as none is, reads *)
(* back as the position, its keys of digits as items.                      *)
LEMMA Respelled ==
    ASSUME NEW p \in Paths \ {<<>>}, IsField(p[1]), NEW f \in CauseFields(p)
    PROVE  NormalizeFieldPath(f) =
             IF p = <<FieldSegment("<nil>")>> THEN <<>> ELSE MisreadPath(p)
<1>. DEFINE t == FlattenSeq([n \in DOMAIN p |-> Spelled(p[n])])
            c == Len(p)
            N == Len(t)
            r == Tail(t)
            D == {n \in DOMAIN r : r[n] # Dot}
<1>1. PICK at : SpellsTo(p, c, t, at)
  BY PathSpelled
<1>2. f \in {t, Tail(t)}
  BY DEF CauseFields
<1>. HIDE DEF t, c
<1>3. Grammatical(t) /\ N \in Nat /\ N > 1
  BY <1>1 DEF SpellsTo, Grammatical
<1>4. /\ at \in [1..c -> 1..N] /\ \A k \in 1..c : t[at[k]] = Token(p[k])
      /\ \A j, k \in 1..c : j < k => at[j] < at[k]
      /\ at[c] = N /\ at[1] = 2
      /\ \A m \in 1..N : t[m] # Dot => \E k \in 1..c : m = at[k]
  BY <1>1 DEF SpellsTo, SitsAt
<1>5. c \in Nat /\ c > 0 /\ \A k \in 1..c : p[k] \in Segments
  BY FrontLast DEF Paths, c
<1>6. TrimDots(f) = r
  BY <1>2, <1>3, Trimmed
<1>7. /\ r \in Seq(Tokens) /\ Len(r) = N - 1 /\ DOMAIN r = 1..(N - 1)
      /\ \A m \in 1..(N - 1) : r[m] = t[m + 1]
  <2>1. t \in Seq(Tokens)
    BY <1>3 DEF Grammatical
  <2>. QED  BY <1>3, <2>1
<1>. HIDE DEF r, N
<1>. DEFINE bt == [k \in 1..c |-> at[k] - 1]
<1>8. ASSUME NEW k \in 1..c
      PROVE  /\ at[k] \in 2..N /\ at[k] \in Nat /\ bt[k] = at[k] - 1 /\ bt[k] \in 1..(N - 1)
             /\ r[bt[k]] = Token(p[k])
  <2>1. at[k] \in 2..N
    <3>1. at[k] \in 1..N /\ 1 \in 1..c
      BY <1>4, <1>5
    <3>2. k = 1 \/ 1 < k
      BY <1>5
    <3>3. at[k] = 2 \/ 2 < at[k]
      BY <1>4, <3>1, <3>2
    <3>. QED  BY <1>3, <3>1, <3>3
  <2>2. at[k] - 1 \in 1..(N - 1) /\ (at[k] - 1) + 1 = at[k]
    BY <1>3, <2>1
  <2>. QED  BY <1>4, <1>7, <2>1, <2>2
<1>9. bt \in [1..c -> Nat] /\ \A j, k \in 1..c : j < k => bt[j] < bt[k]
  <2>1. \A k \in 1..c : at[k] - 1 \in Nat
    BY <1>8
  <2>2. \A j, k \in 1..c : j < k => at[j] - 1 < at[k] - 1
    BY <1>4, <1>8
  <2>. QED  BY <2>1, <2>2
<1>10. D = {bt[k] : k \in 1..c}
  <2>1. ASSUME NEW n \in 1..(N - 1), r[n] # Dot PROVE \E k \in 1..c : n = bt[k]
    <3>1. n + 1 \in 1..N /\ t[n + 1] # Dot
      BY <1>3, <1>7, <2>1
    <3>2. PICK k \in 1..c : n + 1 = at[k]
      BY <1>4, <3>1
    <3>. QED  BY <1>3, <3>2
  <2>2. ASSUME NEW k \in 1..c PROVE bt[k] \in 1..(N - 1) /\ r[bt[k]] # Dot
    BY <1>5, <1>8, SegmentSpelled
  <2>. HIDE DEF bt
  <2>. QED  BY <1>7, <2>1, <2>2
<1>. HIDE DEF D
<1>. DEFINE tokens == Picked(r, D)
<1>11. tokens = [k \in 1..c |-> r[bt[k]]]
  <2>. HIDE DEF bt
  <2>. QED  BY <1>5, <1>9, <1>10, PickedInOrder
<1>12. DOMAIN tokens = 1..c /\ \A k \in 1..c : tokens[k] = Token(p[k])
  <2>. HIDE DEF bt
  <2>. QED  BY <1>8, <1>11
<1>. HIDE DEF tokens
<1>13. [n \in DOMAIN tokens |-> ReadBack(tokens[n])] = MisreadPath(p)
  <2>1. \A k \in 1..c : ReadBack(tokens[k]) = Misread(p[k])
    BY <1>5, <1>12, SegmentSpelled
  <2>. QED  BY <1>12, <2>1 DEF MisreadPath, c
<1>14. Parses(r)
  <2>1. t \in Seq(Tokens) /\ t[1] = Dot /\ \A m \in 1..N : t[m] # EmptySelector
    BY <1>3 DEF Grammatical, N
  <2>2. \A m \in 2..N : IsName(t[m]) <=> t[m - 1] = Dot
    BY <1>3 DEF Grammatical, N
  <2>3. r # <<>> /\ Head(r) = r[1] /\ Last(r) = r[N - 1]
    <3>1. r # <<>> /\ Head(r) = r[1]
      BY <1>3, <1>7
    <3>2. Last(r) = r[Len(r)]
      BY <1>7, <3>1, FrontLast
    <3>. QED  BY <1>7, <3>1, <3>2
  <2>4. IsName(r[1])
    <3>1. 2 \in 2..N /\ 1 \in 1..(N - 1) /\ 1 + 1 = 2 /\ 2 - 1 = 1
      BY <1>3
    <3>. QED  BY <1>7, <2>1, <2>2, <3>1
  <2>5. r[N - 1] # Dot
    <3>1. c \in 1..c
      BY <1>5
    <3>2. at[c] - 1 = N - 1
      BY <1>4
    <3>. QED  BY <1>5, <1>8, <3>1, <3>2, SegmentSpelled
  <2>6. ASSUME NEW n \in 2..(N - 1) PROVE IsName(r[n]) <=> r[n - 1] = Dot
    <3>1. /\ n + 1 \in 2..N /\ (n + 1) - 1 = n /\ (n - 1) + 1 = n
          /\ n \in 1..(N - 1) /\ n - 1 \in 1..(N - 1)
      BY <1>3
    <3>. QED  BY <1>7, <2>2, <3>1
  <2>7. \A n \in 1..(N - 1) : r[n] # EmptySelector
    BY <1>3, <1>7, <2>1
  <2>. QED  BY <1>7, <2>3, <2>4, <2>5, <2>6, <2>7 DEF Parses
<1>15. r = <<Nil>> <=> p = <<FieldSegment("<nil>")>>
  <2>0. 1 \in 1..c /\ p[1] \in Segments /\ p[1] = FieldSegment(p[1].field)
        /\ r[1] = Name(p[1].field)
    <3>1. 1 \in 1..c /\ p[1] \in Segments /\ p[1] = FieldSegment(p[1].field)
      BY <1>5, SegmentKinds
    <3>2. Token(p[1]) = Name(p[1].field)
      BY <3>1, SegmentKinds DEF Token
    <3>3. at[1] - 1 = 1
      BY <1>4
    <3>. QED  BY <1>8, <3>1, <3>2, <3>3
  <2>1. ASSUME r = <<Nil>> PROVE p = <<FieldSegment("<nil>")>>
    <3>1. N = 2 /\ r[1] = Nil
      BY <1>3, <1>7, <2>1
    <3>2. c = 1
      <4>. SUFFICES ASSUME 1 < c PROVE FALSE
        BY <1>5
      <4>1. c \in 1..c /\ 1 \in 1..c
        BY <1>5
      <4>2. at[1] < at[c]
        BY <1>4, <4>1
      <4>. QED  BY <1>4, <3>1, <4>2
    <3>3. p[1].field = "<nil>"
      <4>1. \A x : Name(x).name = x
        BY DEF Name
      <4>. QED  BY <2>0, <3>1, <4>1 DEF Nil
    <3>4. p \in Seq(Segments) /\ Len(p) = 1
      BY <3>2 DEF Paths, c
    <3>5. p = <<p[1]>>
      BY <3>4
    <3>. QED  BY <2>0, <3>3, <3>5
  <2>2. ASSUME p = <<FieldSegment("<nil>")>> PROVE r = <<Nil>>
    <3>1. c = 1 /\ p[1] = FieldSegment("<nil>")
      BY <2>2 DEF c
    <3>2. p[1].field = "<nil>"
      BY <3>1 DEF FieldSegment
    <3>3. N = 2
      BY <1>4, <3>1
    <3>4. Len(r) = 1 /\ r[1] = Nil /\ r \in Seq(Tokens)
      BY <1>7, <2>0, <3>2, <3>3 DEF Nil
    <3>. QED  BY <3>4
  <2>. QED  BY <2>1, <2>2
<1>16. NormalizeFieldPath(f) =
         IF r # <<Nil>> /\ Parses(r)
         THEN [n \in DOMAIN tokens |-> ReadBack(tokens[n])]
         ELSE <<>>
  BY <1>6 DEF NormalizeFieldPath, ReadBack, tokens, D
<1>. QED  BY <1>13, <1>14, <1>15, <1>16

(* What names no position reads as the root.                               *)
LEMMA PathlessRespelled ==
    ASSUME NEW f \in Pathless
    PROVE  NormalizeFieldPath(f) = <<>>
<1>. DEFINE r == TrimDots(f)
<1>1. Nil # Dot /\ Name("name") # Dot /\ EmptySelector # Dot
  <2>1. \A x : Name(x) # Dot
    BY TokenKinds
  <2>2. EmptySelector # Dot
    BY TokenKinds
  <2>. QED  BY <2>1, <2>2 DEF Nil
<1>2. CASE f = <<>>
  <2>1. TrimDots(<<>>) = SubSeq(<<>>, 1, 0)
    <3>1. Len(<<>>) = 0
      OBVIOUS
    <3>. QED  BY <3>1, TrimmedAt
  <2>2. r = <<>>
    BY <1>2, <2>1
  <2>. QED  BY <2>2 DEF NormalizeFieldPath, Parses
<1>3. CASE f = <<Dot>>
  <2>1. TrimDots(f) = SubSeq(f, 2, 1)
    <3>1. Len(f) = 1 /\ f[1] = Dot
      BY <1>3
    <3>2. /\ 2 \in 1..(1 + 1) /\ ~(2 <= 1) /\ \A m \in 1..(2 - 1) : m = 1
      OBVIOUS
    <3>. QED  BY <3>1, <3>2, TrimmedAt
  <2>2. r = <<>>
    BY <1>3, <2>1
  <2>. QED  BY <2>2 DEF NormalizeFieldPath, Parses
<1>4. CASE f = <<Nil>>
  <2>1. TrimDots(f) = SubSeq(f, 1, 1)
    <3>1. Len(f) = 1 /\ f[1] = Nil
      BY <1>4
    <3>. QED  BY <1>1, <3>1, TrimmedAt
  <2>2. r = <<Nil>>
    BY <1>4, <2>1
  <2>. QED  BY <2>2 DEF NormalizeFieldPath
<1>5. ASSUME NEW x \in {Dot, EmptySelector}, f = <<Name("name"), x>>
      PROVE  NormalizeFieldPath(f) = <<>>
  <2>1. Len(f) = 2 /\ f[1] = Name("name") /\ f[2] = x /\ DOMAIN f = 1..2 /\ SubSeq(f, 1, 2) = f
    <3>. DEFINE y == Name("name")
    <3>1. f = <<y, x>>
      BY <1>5
    <3>. HIDE DEF y
    <3>2. Len(f) = 2 /\ f[1] = y /\ f[2] = x /\ DOMAIN f = 1..2
      BY <3>1
    <3>3. f \in Seq({x, y})
      BY <3>1
    <3>4. SubSeq(f, 1, 2) = f
      BY <3>2, <3>3
    <3>. QED  BY <3>2, <3>4 DEF y
  <2>2. TrimDots(f) = f
    BY <1>1, <2>1, TrimmedAt
  <2>3. Last(f) = x
    BY <2>1 DEF Last
  <2>4. ~Parses(f)
    BY <2>1, <2>3 DEF Parses
  <2>. QED  BY <2>2, <2>4 DEF NormalizeFieldPath
<1>. QED  BY <1>2, <1>3, <1>4, <1>5 DEF Pathless

-----------------------------------------------------------------------------
(* What the server can be about, and where the findings are pinned.        *)

(* Where emission leaves no item out, a position that the Draft anchors     *)
(* sits in the Manifest where it does in the Draft.                        *)
LEMMA UncompactedPath ==
    ASSUME NEW v, NEW d, WellFormed(v, d),
           \A q \in DOMAIN d : IsItem(Last(q)) => Emits(d, q),
           NEW p \in Paths, Anchored(d, p)
    PROVE  ManifestPath(d, p) = p
<1>1. /\ ManifestPath(d, p) \in Seq(Segments) /\ Len(ManifestPath(d, p)) = Len(p)
      /\ p \in Seq(Segments) /\ Len(p) \in Nat
  BY ManifestPathBy DEF Paths
<1>2. ASSUME NEW n \in 1..Len(p) PROVE ManifestPath(d, p)[n] = p[n]
  <2>1. CASE ~IsItem(p[n])
    BY <2>1, ManifestPathBy
  <2>2. CASE IsItem(p[n])
    <3>. DEFINE q == SubSeq(p, 1, n)
                o == SubSeq(p, 1, n - 1)
                i == p[n].item
    <3>1. ManifestPath(d, p)[n] = IndexSegment(EmitRank(d, o, i))
      BY <2>2, ManifestPathBy
    <3>2. p[n] \in Segments /\ p[n] = IndexSegment(i) /\ i \in Nat /\ ~IsField(p[n])
      BY <1>1, <2>2, SegmentKinds
    <3>3. /\ o \in Paths /\ q \in Paths \ {<<>>} /\ Front(q) = o /\ Last(q) = p[n]
          /\ q = Append(o, p[n]) /\ q \in Along(p)
      <4>1. n \in 0..Len(p) /\ n - 1 \in 0..Len(p) /\ n # 0
        BY <1>1
      <4>2. q \in Along(p)
        BY DEF Along
      <4>3. Len(q) = n /\ o \in Paths
        BY <1>1, <4>1, Start DEF Paths
      <4>4. q \in Paths \ {<<>>} /\ Front(q) = o /\ Last(q) = p[n]
        <5>. HIDE DEF q, o
        <5>1. /\ q \in Paths \ {<<>>} /\ Last(q) = p[Len(q)]
              /\ Front(q) = SubSeq(p, 1, Len(q) - 1)
          BY <4>2, AlongPosition
        <5>. QED  BY <4>3, <5>1 DEF o
      <4>5. q = Append(Front(q), Last(q))
        BY <4>4, FrontLast DEF Paths
      <4>. QED  BY <4>2, <4>3, <4>4, <4>5
    <3>. HIDE DEF q, o, i
    <3>4. q \in DOMAIN d
      BY <3>2, <3>3 DEF Anchored
    <3>5. /\ ItemCount(d, o) \in Nat
          /\ \A j \in Nat : Append(o, IndexSegment(j)) \in DOMAIN d <=> j < ItemCount(d, o)
      BY <3>3, HeldItems DEF WellFormed, IsDraft
    <3>6. i < ItemCount(d, o)
      BY <3>2, <3>3, <3>4, <3>5
    <3>7. ASSUME NEW j \in 0..(i - 1) PROVE Emits(d, Append(o, IndexSegment(j)))
      <4>1. j \in Nat /\ j < ItemCount(d, o)
        BY <3>2, <3>5, <3>6
      <4>2. Append(o, IndexSegment(j)) \in DOMAIN d
        BY <3>5, <4>1
      <4>3. IsItem(Last(Append(o, IndexSegment(j))))
        BY <3>3, <4>1, ItemPosition
      <4>. QED  BY <4>2, <4>3
    <3>8. EmitRank(d, o, i) = i
      <4>1. {j \in 0..(i - 1) : Emits(d, Append(o, IndexSegment(j)))} = 0..(i - 1)
        BY <3>7
      <4>2. Cardinality(0..(i - 1)) = i
        BY <3>2, FS_Interval
      <4>. QED  BY <4>1, <4>2 DEF EmitRank
    <3>. QED  BY <3>1, <3>2, <3>8
  <2>. QED  BY <2>1, <2>2
<1>. QED  BY <1>1, <1>2, SameSequence

(* A missing required position is a field the schema has, beneath a         *)
(* position the Draft holds, with none but fields in between.              *)
LEMMA MissingAddressed ==
    ASSUME NEW v \in Versions, NEW d, WellFormed(v, d), NEW p \in MissingRequired(v, d)
    PROVE  p \in Paths \ {<<>>} /\ Resolves(v, p) /\ IsField(Last(p)) /\ Anchored(d, p)
<1>. DEFINE present == {<<>>} \cup DOMAIN d
            lacks(r) == {s \in Required[v] : /\ Front(s) = SchemaPath(r)
                                             /\ Append(r, FieldSegment(Last(s))) \notin present}
            tail(r, t) == [n \in 1..(Len(t) - Len(r)) |-> FieldSegment(t[Len(r) + n])]
            M(r) == {r \o tail(r, t) : t \in UNION {Assured[v][s] : s \in lacks(r)}}
<1>1. PICK r \in present : p \in M(r)
  <2>1. MissingRequired(v, d) = UNION {M(r) : r \in present}
    BY DEF MissingRequired
  <2>. HIDE DEF M
  <2>. QED  BY <2>1
<1>2. PICK s \in lacks(r) : \E t \in Assured[v][s] : p = r \o tail(r, t)
  BY <1>1
<1>3. PICK t \in Assured[v][s] : p = r \o tail(r, t)
  BY <1>2
<1>4. s \in Required[v] /\ Front(s) = SchemaPath(r)
  BY <1>2
<1>5. r \in Paths /\ Len(r) \in Nat /\ (r # <<>> => r \in DOMAIN d)
  <2>1. <<>> \in Paths /\ DOMAIN d \subseteq Paths
    BY DEF WellFormed, IsDraft, Paths
  <2>2. r \in Paths /\ (r # <<>> => r \in DOMAIN d)
    <3>. HIDE DEF M
    <3>. QED  BY <2>1
  <2>. QED  BY <2>2 DEF Paths
<1>6. /\ t \in DOMAIN FieldTree[v] /\ IsAtOrBeneath(t, s)
      /\ \A n \in (Len(s) + 1)..Len(t) : SubSeq(t, 1, n) \in Required[v]
  BY <1>4, <1>3 DEF Assured
<1>. DEFINE L == Len(r)
            K == Len(t)
            e == tail(r, t)
<1>7. /\ \A u \in Required[v] : /\ u \in Seq(Names) /\ u # <<>> /\ Last(u) \in STRING \ {Item, Value}
                                /\ u \in DOMAIN FieldTree[v]
      /\ t \in Seq(Names)
  <2>1. \A u \in Required[v] : u \in DOMAIN FieldTree[v] \ {<<>>} /\ FieldTree[v][Front(u)] = "object"
    BY DraftAssumption
  <2>. QED  BY <1>6, <2>1, TreeFacts
<1>8. Len(s) = L + 1 /\ Len(s) <= K /\ K \in Nat /\ s = SubSeq(t, 1, Len(s))
  <2>1. Len(SchemaPath(r)) = L
    BY <1>5, SchemaPathType
  <2>2. Len(s) \in Nat /\ Len(Front(s)) = Len(s) - 1
    BY <1>4, <1>7, FrontLast
  <2>3. Len(s) <= Len(t) /\ s = SubSeq(t, 1, Len(s))
    BY <1>4, <1>6, <1>7, BeneathIsExtension
  <2>. QED  BY <1>4, <1>5, <1>7, <2>1, <2>2, <2>3
<1>9. ASSUME NEW n \in (L + 1)..K PROVE SubSeq(t, 1, n) \in Required[v] /\ t[n] \in STRING \ {Item, Value}
  <2>1. SubSeq(t, 1, n) \in Required[v]
    <3>1. n = Len(s) \/ n \in (Len(s) + 1)..Len(t)
      BY <1>5, <1>8
    <3>. QED  BY <1>4, <1>6, <1>8, <3>1
  <2>. DEFINE u == SubSeq(t, 1, n)
  <2>2. Len(u) = n /\ u[n] = t[n]
    <3>1. n \in 0..Len(t) /\ n \in 1..n
      BY <1>5, <1>8
    <3>. QED  BY <1>7, <3>1, Start
  <2>. HIDE DEF u
  <2>3. u \in Seq(Names) /\ u # <<>> /\ Last(u) \in STRING \ {Item, Value}
    BY <1>7, <2>1 DEF u
  <2>4. Last(u) = u[Len(u)]
    BY <2>3, FrontLast
  <2>. QED  BY <2>1, <2>2, <2>3, <2>4
<1>10. /\ e \in Paths /\ Len(e) = K - L
       /\ \A n \in 1..(K - L) : e[n] = FieldSegment(t[L + n]) /\ t[L + n] \in STRING \ {Item, Value}
  <2>1. \A n \in 1..(K - L) : L + n \in (L + 1)..K
    BY <1>5, <1>8
  <2>2. \A n \in 1..(K - L) : t[L + n] \in STRING \ {Item, Value}
    BY <1>9, <2>1
  <2>3. \A n \in 1..(K - L) : FieldSegment(t[L + n]) \in Segments
    BY <2>2, FieldSegments
  <2>4. K - L \in Nat
    BY <1>5, <1>8
  <2>. QED  BY <2>2, <2>3, <2>4 DEF Paths
<1>. HIDE DEF lacks, M, present
<1>11. p = r \o e
  BY <1>3
<1>. HIDE DEF tail, e, K
<1>12. /\ p \in Paths /\ Len(p) = K
       /\ \A n \in 1..L : p[n] = r[n]
       /\ SubSeq(p, 1, L) = r
  <2>1. /\ p \in Paths /\ Len(p) = L + Len(e) /\ \A n \in 1..L : p[n] = r[n]
        /\ IsAtOrBeneath(p, r)
    BY <1>5, <1>10, <1>11, Joined
  <2>2. Len(p) = K
    BY <1>5, <1>8, <1>10, <2>1
  <2>3. SubSeq(p, 1, L) = r
    BY <1>5, <2>1, BeneathIsExtension DEF Paths
  <2>. QED  BY <2>1, <2>2, <2>3
<1>13. ASSUME NEW n \in (L + 1)..K
       PROVE  /\ p[n] = FieldSegment(t[n]) /\ p[n] \in Segments
              /\ IsField(p[n]) /\ p[n].field = t[n]
  <2>1. n - L \in 1..(K - L) /\ L + (n - L) = n
    BY <1>5, <1>8
  <2>2. p[n] = e[n - L]
    <3>1. n - L \in 1..Len(e)
      BY <1>10, <2>1
    <3>2. (r \o e)[L + (n - L)] = e[n - L]
      BY <1>5, <1>10, <3>1, Joined
    <3>. QED  BY <1>11, <2>1, <3>2
  <2>3. p[n] = FieldSegment(t[n]) /\ t[n] \in STRING \ {Item, Value}
    BY <1>10, <2>1, <2>2
  <2>. QED  BY <2>3, FieldSegments
<1>14. SchemaPath(p) = t
  <2>1. /\ SchemaPath(p) \in Seq(Names) /\ Len(SchemaPath(p)) = K
        /\ \A n \in 1..K : IsField(p[n]) => SchemaPath(p)[n] = p[n].field
    BY <1>12, SchemaPathType
  <2>2. SchemaPath(r) = SubSeq(SchemaPath(p), 1, L)
    <3>1. L \in 0..Len(p)
      BY <1>5, <1>8, <1>12
    <3>. QED  BY <1>12, <3>1, SchemaPathStart
  <2>3. SchemaPath(r) = SubSeq(t, 1, L)
    <3>1. Len(s) - 1 = L /\ Len(s) \in 0..Len(t) /\ L \in 0..Len(s)
      BY <1>5, <1>8 DEF K
    <3>2. Front(s) = SubSeq(s, 1, L)
      BY <1>4, <1>7, <3>1, FrontLast
    <3>3. SubSeq(SubSeq(t, 1, Len(s)), 1, L) = SubSeq(t, 1, L)
      BY <1>7, <3>1, StartOfStart
    <3>. QED  BY <1>4, <1>8, <3>2, <3>3
  <2>4. ASSUME NEW n \in 1..K PROVE SchemaPath(p)[n] = t[n]
    <3>1. CASE n <= L
      <4>1. n \in 1..L /\ L \in 0..Len(t) /\ L \in 0..Len(SchemaPath(p))
        BY <1>5, <1>8, <2>1, <3>1 DEF K
      <4>2. SubSeq(t, 1, L)[n] = t[n]
        BY <1>7, <4>1, Start
      <4>3. SubSeq(SchemaPath(p), 1, L)[n] = SchemaPath(p)[n]
        BY <2>1, <4>1, Start
      <4>. QED  BY <2>2, <2>3, <4>2, <4>3
    <3>2. CASE ~(n <= L)
      <4>1. n \in (L + 1)..K
        BY <1>5, <1>8, <3>2
      <4>. QED  BY <1>13, <2>1, <4>1
    <3>. QED  BY <3>1, <3>2
  <2>. QED  BY <1>7, <2>1, <2>4, SameSequence DEF K
<1>15. p # <<>> /\ IsField(Last(p))
  <2>1. K \in (L + 1)..K /\ K > 0
    BY <1>5, <1>8
  <2>2. p # <<>>
    <3>1. Len(p) > 0
      BY <1>12, <2>1
    <3>. QED  BY <3>1
  <2>3. Last(p) = p[K]
    BY <1>12, <2>2, FrontLast DEF Paths
  <2>. QED  BY <1>13, <2>1, <2>2, <2>3
<1>16. ASSUME NEW q \in Along(p), ~IsField(Last(q)) PROVE q \in DOMAIN d
  <2>1. q \in Paths \ {<<>>} /\ Len(q) \in 1..K /\ Last(q) = p[Len(q)] /\ q = SubSeq(p, 1, Len(q))
    BY <1>12, AlongPosition
  <2>2. Len(q) \in 1..L
    BY <1>5, <1>8, <1>13, <1>16, <2>1
  <2>3. q = SubSeq(r, 1, Len(q))
    <3>1. L \in 0..Len(p) /\ Len(q) \in 0..L
      BY <1>5, <1>8, <1>12, <2>2
    <3>. QED  BY <1>12, <2>1, <3>1, StartOfStart DEF Paths
  <2>4. IsAtOrBeneath(r, q)
    BY <1>5, <2>1, <2>2, <2>3, BeneathIsExtension DEF Paths
  <2>5. r \in DOMAIN d
    <3>1. r # <<>>
      <4>1. Len(<<>>) = 0
        OBVIOUS
      <4>. QED  BY <2>2, <4>1
    <3>. QED  BY <1>5, <3>1
  <2>. QED  BY <2>1, <2>4, <2>5, DraftAbove DEF WellFormed
<1>. QED  BY <1>6, <1>12, <1>14, <1>15, <1>16 DEF Resolves, Anchored

(* A position without keys of digits reads as itself.                      *)
LEMMA MisreadBy ==
    ASSUME NEW p \in Paths
    PROVE  /\ Len(MisreadPath(p)) = Len(p)
           /\ \A n \in 1..Len(p) : MisreadPath(p)[n] = Misread(p[n])
           /\ MisreadPath(p) = p <=> ~\E n \in DOMAIN p : IsKey(p[n]) /\ p[n].key \in DigitKeys
<1>1. /\ p \in Seq(Segments) /\ Len(p) \in Nat /\ DOMAIN p = 1..Len(p)
      /\ p = [n \in 1..Len(p) |-> p[n]]
      /\ \A n \in 1..Len(p) : p[n] \in Segments
  BY DEF Paths
<1>2. /\ Len(MisreadPath(p)) = Len(p)
      /\ \A n \in 1..Len(p) : MisreadPath(p)[n] = Misread(p[n])
  BY <1>1 DEF MisreadPath
<1>3. ASSUME NEW n \in 1..Len(p)
      PROVE  Misread(p[n]) = p[n] <=> ~(IsKey(p[n]) /\ p[n].key \in DigitKeys)
  <2>1. CASE IsKey(p[n]) /\ p[n].key \in DigitKeys
    <3>1. Misread(p[n]) = IndexSegment(p[n].key) /\ p[n].key \in Nat
      BY <1>1, <2>1, SegmentKinds DEF Misread
    <3>2. ~IsKey(Misread(p[n]))
      BY <3>1, IndexSegments
    <3>. QED  BY <2>1, <3>2
  <2>2. CASE ~(IsKey(p[n]) /\ p[n].key \in DigitKeys)
    BY <2>2 DEF Misread
  <2>. QED  BY <2>1, <2>2
<1>4. (\A n \in 1..Len(p) : Misread(p[n]) = p[n]) => MisreadPath(p) = p
  BY <1>1 DEF MisreadPath
<1>5. MisreadPath(p) = p => \A n \in 1..Len(p) : Misread(p[n]) = p[n]
  BY <1>2
<1>. HIDE DEF Misread, MisreadPath
<1>6. MisreadPath(p) = p <=> ~\E n \in DOMAIN p : IsKey(p[n]) /\ p[n].key \in DigitKeys
  BY <1>1, <1>3, <1>4, <1>5
<1>. QED  BY <1>2, <1>6

(* A position with one reads as an item of a map, which no tree shows.     *)
LEMMA MisreadIsNoRow ==
    ASSUME NEW v \in Versions, NEW d, NEW r, RowsMirror(v, d, r), NEW p \in Paths, Resolves(v, p),
           MisreadPath(p) # p
    PROVE  MisreadPath(p) \notin DOMAIN r
<1>. DEFINE m == MisreadPath(p)
            T == {n \in Nat : n \in 1..Len(p) /\ m[n] # p[n]}
<1>1. /\ Len(p) \in Nat /\ p = [n \in 1..Len(p) |-> p[n]] /\ p \in Seq(Segments)
      /\ DOMAIN p = 1..Len(p) /\ \A n \in 1..Len(p) : p[n] \in Segments
  BY DEF Paths
<1>2. /\ Len(m) = Len(p) /\ \A n \in 1..Len(p) : m[n] = Misread(p[n])
      /\ \E n \in DOMAIN p : IsKey(p[n]) /\ p[n].key \in DigitKeys
  BY MisreadBy
<1>. HIDE DEF m
<1>. SUFFICES ASSUME m \in DOMAIN r PROVE FALSE
  BY DEF m
<1>3. m \in Paths /\ Resolves(v, m)
  BY RowsResolve
<1>4. \A n \in 1..Len(p) : m[n] # p[n] =>
        /\ IsKey(p[n]) /\ ~IsField(p[n]) /\ ~IsItem(p[n])
        /\ IsItem(m[n]) /\ ~IsField(m[n]) /\ ~IsKey(m[n])
  <2>. TAKE n \in 1..Len(p)
  <2>. HAVE m[n] # p[n]
  <2>1. IsKey(p[n]) /\ m[n] = IndexSegment(p[n].key)
    BY <1>2 DEF Misread
  <2>2. ~IsField(p[n]) /\ ~IsItem(p[n]) /\ p[n].key \in Nat
    BY <1>1, <2>1, SegmentKinds
  <2>. QED  BY <2>1, <2>2, IndexSegments
<1>5. T # {}
  <2>1. PICK n \in 1..Len(p) : IsKey(p[n]) /\ p[n].key \in DigitKeys
    BY <1>1, <1>2
  <2>2. m[n] = IndexSegment(p[n].key) /\ p[n].key \in Nat
    BY <1>1, <1>2, <2>1, SegmentKinds DEF Misread
  <2>3. ~IsKey(m[n])
    BY <2>2, IndexSegments
  <2>4. n \in Nat /\ m[n] # p[n]
    BY <2>1, <2>3
  <2>. QED  BY <2>4
<1>6. PICK n \in T : \A k \in T : n <= k
  <2>. HIDE DEF T
  <2>1. T \in SUBSET Nat
    BY DEF T
  <2>. QED  BY <1>5, <2>1, LeastNumber
<1>7. /\ n \in 1..Len(p) /\ m[n] # p[n] /\ n - 1 \in 0..Len(p) /\ n \in 0..Len(p)
      /\ \A k \in 1..(n - 1) : m[k] = p[k]
  <2>1. n \in 1..Len(p) /\ m[n] # p[n]
    BY <1>6
  <2>2. ASSUME NEW k \in 1..(n - 1) PROVE m[k] = p[k]
    <3>1. k \in Nat /\ k \in 1..Len(p) /\ ~(n <= k)
      BY <1>1, <2>1
    <3>. QED  BY <1>6, <3>1
  <2>. QED  BY <1>1, <2>1, <2>2
<1>. HIDE DEF T
<1>8. ASSUME NEW q \in Paths, Len(q) = Len(p), Resolves(v, q)
      PROVE  LET s == SubSeq(q, 1, n) IN
             /\ s \in Paths \ {<<>>} /\ Resolves(v, s) /\ Last(s) = q[n]
             /\ Front(s) = SubSeq(q, 1, n - 1)
  <2>. DEFINE s == SubSeq(q, 1, n)
  <2>1. s \in Along(q)
    BY <1>7, <1>8 DEF Along
  <2>2. Len(s) = n
    BY <1>7, <1>8, Start DEF Paths
  <2>. HIDE DEF s
  <2>3. /\ s \in Paths \ {<<>>} /\ Last(s) = q[n] /\ Front(s) = SubSeq(q, 1, n - 1)
        /\ IsAtOrBeneath(q, s)
    BY <2>1, <2>2, AlongPosition
  <2>4. Resolves(v, s)
    BY <1>8, <2>3, AboveResolves
  <2>. QED  BY <2>3, <2>4 DEF s
<1>9. SubSeq(m, 1, n - 1) = SubSeq(p, 1, n - 1)
  <2>. DEFINE a == SubSeq(m, 1, n - 1)
              b == SubSeq(p, 1, n - 1)
  <2>1. /\ a \in Seq(Segments) /\ Len(a) = n - 1 /\ \A k \in 1..(n - 1) : a[k] = m[k]
        /\ b \in Seq(Segments) /\ Len(b) = n - 1 /\ \A k \in 1..(n - 1) : b[k] = p[k]
    BY <1>1, <1>2, <1>3, <1>7, Start DEF Paths
  <2>. HIDE DEF a, b
  <2>2. \A k \in 1..Len(a) : a[k] = b[k]
    BY <1>7, <2>1
  <2>3. a = b
    BY <2>1, <2>2, SameSequence
  <2>. QED  BY <2>3 DEF a, b
<1>. DEFINE a == SubSeq(m, 1, n)
            b == SubSeq(p, 1, n)
<1>10. /\ a \in Paths \ {<<>>} /\ Resolves(v, a) /\ Last(a) = m[n]
       /\ b \in Paths \ {<<>>} /\ Resolves(v, b) /\ Last(b) = p[n]
       /\ Front(a) = Front(b)
  BY <1>2, <1>3, <1>8, <1>9
<1>. HIDE DEF a, b
<1>11. TypeAt(v, Front(a)) = "array" /\ TypeAt(v, Front(b)) = "map"
  <2>1. IsItem(Last(a)) /\ ~IsField(Last(a)) /\ ~IsKey(Last(a))
    BY <1>4, <1>7, <1>10
  <2>2. IsKey(Last(b)) /\ ~IsField(Last(b)) /\ ~IsItem(Last(b))
    BY <1>4, <1>7, <1>10
  <2>3. TypeAt(v, Front(a)) = "array"
    BY <1>10, <2>1, ParentResolves
  <2>4. TypeAt(v, Front(b)) = "map"
    BY <1>10, <2>2, ParentResolves
  <2>. QED  BY <2>3, <2>4
<1>. QED  BY <1>10, <1>11

(* What a cause can be about where emission leaves no item out: no position *)
(* or one the schema has and the Draft anchors, spelled as it is.          *)
LEMMA CausesAddressed ==
    ASSUME TreeInv, \A q \in DOMAIN draft : IsItem(Last(q)) => Emits(draft, q),
           NEW cause \in Rejectable
    PROVE  \/ cause.about = <<>> /\ cause.field \in Pathless
           \/ /\ cause.about \in Paths \ {<<>>} /\ Resolves(version, cause.about)
              /\ Anchored(draft, cause.about) /\ cause.field \in CauseFields(cause.about)
<1>. DEFINE spelled == EmittedPositions(draft)
            name(p) == Append(ManifestPath(draft, Front(p)), Last(p))
            causes(p, fields) == {[about |-> p, field |-> f] : f \in fields}
            absent == {p \in missing : Front(p) = <<>> \/ Front(p) \in spelled}
<1>1. /\ version \in Versions /\ WellFormed(version, draft) /\ IsDraft(version, draft)
      /\ missing = MissingRequired(version, draft)
  BY DEF TreeInv, WellFormed
<1>2. \/ cause \in causes(<<>>, Pathless)
      \/ \E p \in spelled : cause \in causes(p, CauseFields(ManifestPath(draft, p)))
      \/ \E p \in absent : cause \in causes(p, CauseFields(name(p)))
  BY DEF Rejectable
<1>. HIDE DEF spelled
<1>3. CASE cause \in causes(<<>>, Pathless)
  BY <1>3
<1>4. ASSUME NEW p \in spelled, cause \in causes(p, CauseFields(ManifestPath(draft, p)))
      PROVE  /\ p \in Paths \ {<<>>} /\ Resolves(version, p) /\ Anchored(draft, p)
             /\ cause.about = p /\ cause.field \in CauseFields(p)
  <2>1. p \in DOMAIN draft /\ p \in Paths \ {<<>>} /\ Resolves(version, p)
    BY <1>1, EmittedFacts DEF spelled
  <2>2. Anchored(draft, p)
    BY <1>1, <2>1 DEF Anchored, IsDraft
  <2>3. ManifestPath(draft, p) = p
    BY <1>1, <2>1, <2>2, UncompactedPath
  <2>4. cause.about = p /\ cause.field \in CauseFields(ManifestPath(draft, p))
    BY <1>4
  <2>. QED  BY <2>1, <2>2, <2>3, <2>4
<1>5. ASSUME NEW p \in absent, cause \in causes(p, CauseFields(name(p)))
      PROVE  /\ p \in Paths \ {<<>>} /\ Resolves(version, p) /\ Anchored(draft, p)
             /\ cause.about = p /\ cause.field \in CauseFields(p)
  <2>1. p \in Paths \ {<<>>} /\ Resolves(version, p) /\ Anchored(draft, p)
    BY <1>1, MissingAddressed
  <2>2. /\ Front(p) \in Paths /\ p = Append(Front(p), Last(p))
        /\ Front(p) = SubSeq(p, 1, Len(p) - 1) /\ Len(p) - 1 \in 0..Len(p)
    BY <2>1, FrontLast DEF Paths
  <2>3. Anchored(draft, Front(p))
    <3>1. Along(Front(p)) \subseteq Along(p)
      BY <2>1, AlongIsStarts DEF Paths
    <3>. QED  BY <2>1, <3>1 DEF Anchored
  <2>4. ManifestPath(draft, Front(p)) = Front(p)
    BY <1>1, <2>2, <2>3, UncompactedPath
  <2>5. cause.about = p /\ cause.field \in CauseFields(name(p))
    BY <1>5
  <2>6. name(p) = p
    BY <2>2, <2>4
  <2>. HIDE DEF name, absent
  <2>. QED  BY <2>1, <2>5, <2>6
<1>6. CASE \E p \in spelled : cause \in causes(p, CauseFields(ManifestPath(draft, p)))
  <2>. HIDE DEF causes
  <2>. QED  BY <1>4, <1>6
<1>7. CASE \E p \in absent : cause \in causes(p, CauseFields(name(p)))
  <2>. HIDE DEF causes, absent, name
  <2>. QED  BY <1>5, <1>7
<1>. QED  BY <1>2, <1>3, <1>6, <1>7

(* Where the tree has the row of all it can reach, the finding is pinned    *)
(* there, or nowhere if the spelling reads as another position.            *)
LEMMA PinnedByName ==
    ASSUME NEW v \in Versions, NEW d, NEW r, RowsMirror(v, d, r),
           NEW p \in Paths \ {<<>>}, Resolves(v, p), Anchored(d, p), NEW f \in CauseFields(p),
           LET finding == NormalizeFieldPath(f) IN
           finding \in Paths /\ Resolves(v, finding) /\ Anchored(d, finding) => finding \in DOMAIN r
    PROVE  (IF NormalizeFieldPath(f) \in DOMAIN r THEN NormalizeFieldPath(f) ELSE <<>>)
             = IF ReadsAsAnother(p) THEN <<>> ELSE p
<1>. DEFINE finding == NormalizeFieldPath(f)
            digits == \E n \in DOMAIN p : IsKey(p[n]) /\ p[n].key \in DigitKeys
<1>1. finding = IF p = <<FieldSegment("<nil>")>> THEN <<>> ELSE MisreadPath(p)
  <2>1. IsField(p[1])
    BY FirstIsField
  <2>. QED  BY <2>1, Respelled
<1>2. MisreadPath(p) = p <=> ~digits
  BY MisreadBy
<1>3. MisreadPath(p) # p => MisreadPath(p) \notin DOMAIN r
  BY MisreadIsNoRow
<1>4. ReadsAsAnother(p) <=> p = <<FieldSegment("<nil>")>> \/ digits
  BY DEF ReadsAsAnother
<1>5. finding = p => finding \in DOMAIN r
  OBVIOUS
<1>. HIDE DEF finding, digits
<1>6. (IF finding \in DOMAIN r THEN finding ELSE <<>>) = IF ReadsAsAnother(p) THEN <<>> ELSE p
  <2>1. CASE p = <<FieldSegment("<nil>")>>
    BY <1>1, <1>4, <2>1
  <2>2. CASE p # <<FieldSegment("<nil>")>> /\ digits
    BY <1>1, <1>2, <1>3, <1>4, <2>2
  <2>3. CASE p # <<FieldSegment("<nil>")>> /\ ~digits
    BY <1>1, <1>2, <1>4, <1>5, <2>3
  <2>. QED  BY <2>1, <2>2, <2>3
<1>. QED  BY <1>6 DEF finding

(* A report pins its findings there.                                       *)
LEMMA ReportPins ==
    ASSUME TreeInv, ApplyReport
    PROVE  FindingsMarkOffendersWithoutGaps'
<1>1. /\ version \in Versions /\ WellFormed(version, draft) /\ RowsInv(version, draft, rows)
  BY DEF TreeInv
<1>2. PICK count \in 0..MaxCauses :
        \E causes \in [1..count -> Rejectable], message \in {TRUE, count > 0} :
          LET findings == MapCauses([n \in 1..count |-> causes[n].field], message) IN
          /\ ShowFindings(findings)
          /\ offenders' = {[about |-> causes[n].about,
                            pin |-> IF findings[n] \in DOMAIN rows' THEN findings[n] ELSE <<>>] :
                              n \in 1..count}
  BY DEF ApplyReport
<1>13. PICK causes \in [1..count -> Rejectable], message \in {TRUE, count > 0} :
         LET findings == MapCauses([n \in 1..count |-> causes[n].field], message) IN
         /\ ShowFindings(findings)
         /\ offenders' = {[about |-> causes[n].about,
                           pin |-> IF findings[n] \in DOMAIN rows' THEN findings[n] ELSE <<>>] :
                             n \in 1..count}
  BY <1>2
<1>. DEFINE ss == [n \in 1..count |-> causes[n].field]
            fs == MapCauses(ss, message)
            pin(n) == IF fs[n] \in DOMAIN rows' THEN fs[n] ELSE <<>>
<1>3. /\ ShowFindings(fs)
      /\ offenders' = {[about |-> causes[n].about, pin |-> pin(n)] : n \in 1..count}
  BY <1>13
<1>4. Len(fs) \in Nat /\ DOMAIN fs = 1..Len(fs) /\ \A n \in 1..Len(fs) : Len(fs[n]) \in Nat
  <2>1. count \in Nat
    <3>1. count \in 0..MaxCauses
      OBVIOUS
    <3>. QED  BY <3>1, ComposeTreeAssumption
  <2>2. /\ DOMAIN ss = 1..count /\ ss = [n \in 1..count |-> ss[n]]
        /\ \A n \in 1..count : IsSequence(ss[n])
    BY RejectableType
  <2>. HIDE DEF ss
  <2>. QED  BY <2>1, <2>2, MapCausesType
<1>5. ASSUME NEW n \in 1..count
      PROVE  /\ causes[n] \in Rejectable /\ n \in 1..Len(fs)
             /\ fs[n] = NormalizeFieldPath(causes[n].field)
  <2>1. DOMAIN ss = 1..count /\ ss[n] = causes[n].field
    OBVIOUS
  <2>2. ss # <<>>
    <3>1. n \in DOMAIN ss /\ DOMAIN <<>> = {}
      BY <2>1
    <3>. HIDE DEF ss
    <3>. QED  BY <3>1
  <2>. HIDE DEF ss
  <2>3. fs = [k \in DOMAIN ss |-> NormalizeFieldPath(ss[k])]
    BY <2>2 DEF MapCauses
  <2>4. n \in DOMAIN fs /\ fs[n] = NormalizeFieldPath(ss[n])
    <3>. HIDE DEF fs
    <3>. QED  BY <2>1, <2>3
  <2>. HIDE DEF fs
  <2>. QED  BY <1>4, <2>1, <2>4
<1>. HIDE DEF ss, fs
<1>6. rows' = WalkTowardEach(version, draft, rows, fs) /\ UNCHANGED <<version, draft>>
  BY <1>3 DEF ShowFindings
<1>7. /\ RowsMirror(version, draft, rows')
      /\ \A n \in 1..Len(fs) : fs[n] \in Paths /\ Resolves(version, fs[n]) /\ Anchored(draft, fs[n]) =>
                                 fs[n] \in DOMAIN rows'
  BY <1>1, <1>4, <1>6, WalkTowardEachInv DEF RowsInv
<1>8. SUFFICES ASSUME \A q \in DOMAIN draft : IsItem(Last(q)) => Emits(draft, q),
                      NEW cause \in offenders'
               PROVE  cause.pin = IF ReadsAsAnother(cause.about) THEN <<>> ELSE cause.about
  BY <1>6 DEF FindingsMarkOffendersWithoutGaps
<1>9. PICK n \in 1..count : cause.about = causes[n].about /\ cause.pin = pin(n)
  BY <1>3
<1>. DEFINE p == causes[n].about
            f == causes[n].field
<1>10. \/ p = <<>> /\ f \in Pathless
       \/ /\ p \in Paths \ {<<>>} /\ Resolves(version, p)
          /\ Anchored(draft, p) /\ f \in CauseFields(p)
  BY <1>5, <1>8, CausesAddressed
<1>11. fs[n] = NormalizeFieldPath(f) /\ n \in 1..Len(fs)
  BY <1>5
<1>. HIDE DEF p, f
<1>12. pin(n) = IF ReadsAsAnother(p) THEN <<>> ELSE p
  <2>1. CASE p = <<>> /\ f \in Pathless
    <3>1. fs[n] = <<>>
      BY <1>11, <2>1, PathlessRespelled
    <3>. QED  BY <2>1, <3>1
  <2>2. CASE /\ p \in Paths \ {<<>>} /\ Resolves(version, p)
             /\ Anchored(draft, p) /\ f \in CauseFields(p)
    <3>. DEFINE r == rows'
    <3>1. RowsMirror(version, draft, r)
      BY <1>7
    <3>2. /\ NormalizeFieldPath(f) \in Paths /\ Resolves(version, NormalizeFieldPath(f))
          /\ Anchored(draft, NormalizeFieldPath(f))
          => NormalizeFieldPath(f) \in DOMAIN r
      BY <1>7, <1>11
    <3>. HIDE DEF r
    <3>3. (IF NormalizeFieldPath(f) \in DOMAIN r THEN NormalizeFieldPath(f) ELSE <<>>)
             = IF ReadsAsAnother(p) THEN <<>> ELSE p
      BY <1>1, <2>2, <3>1, <3>2, PinnedByName
    <3>. QED  BY <1>11, <3>3 DEF r
  <2>. QED  BY <1>10, <2>1, <2>2
<1>. QED  BY <1>9, <1>12 DEF p

(* No other step adds one.                                                 *)
LEMMA StepKeepsPins ==
    ASSUME Next
    PROVE  offenders' = {} \/ UNCHANGED <<draft, offenders>> \/ ApplyReport
<1>1. Step
  BY DEF Next
<1>2. CASE \E p \in DOMAIN rows : ToggleFocused(p)
  BY <1>2 DEF ToggleFocused
<1>3. CASE \E p \in DOMAIN rows : ConfirmEditor(p)
  BY <1>3 DEF ConfirmEditor, Mutated
<1>4. CASE \E p \in DOMAIN rows : AppendToArray(p)
  BY <1>4 DEF AppendToArray, Mutated
<1>5. CASE \E p \in DOMAIN rows : ConfirmKeyPrompt(p)
  BY <1>5 DEF ConfirmKeyPrompt, Mutated
<1>6. CASE \E p \in DOMAIN rows : PerformUnset(p)
  BY <1>6 DEF PerformUnset, Mutated
<1>7. CASE \E p \in GatePaths : ConfirmGatePrompt(p)
  BY <1>7 DEF ConfirmGatePrompt, Mutated
<1>8. CASE ValidatePlainly
  BY <1>8 DEF ValidatePlainly
<1>9. CASE JumpToFinding
  BY <1>9 DEF JumpToFinding
<1>10. CASE SelectSearchMatch
  BY <1>10 DEF SelectSearchMatch
<1>11. CASE \E target \in Versions : CommitVersionSwitch(target)
  BY <1>11 DEF CommitVersionSwitch, SwitchTo
<1>. QED  BY <1>1, <1>2, <1>3, <1>4, <1>5, <1>6, <1>7, <1>8, <1>9, <1>10, <1>11 DEF Step

(* Wherever emission leaves no item out, no finding that names a position   *)
(* is lost but those whose spelling reads as another (applyReport,         *)
(* normalizeFieldPath, MissingRequired, Emit).                             *)
THEOREM OffendersTheorem == Spec => []FindingsMarkOffendersWithoutGaps
<1>1. Init => FindingsMarkOffendersWithoutGaps
  BY DEF Init, FindingsMarkOffendersWithoutGaps
<1>2. TreeInv /\ FindingsMarkOffendersWithoutGaps /\ [Next]_vars
        => FindingsMarkOffendersWithoutGaps'
  <2>. SUFFICES ASSUME TreeInv, FindingsMarkOffendersWithoutGaps, [Next]_vars
                PROVE  FindingsMarkOffendersWithoutGaps'
    OBVIOUS
  <2>1. offenders' = {} \/ UNCHANGED <<draft, offenders>> \/ ApplyReport
    BY StepKeepsPins DEF vars
  <2>2. CASE offenders' = {}
    BY <2>2 DEF FindingsMarkOffendersWithoutGaps
  <2>3. CASE UNCHANGED <<draft, offenders>>
    BY <2>3 DEF FindingsMarkOffendersWithoutGaps
  <2>4. CASE ApplyReport
    BY <2>4, ReportPins
  <2>. QED  BY <2>1, <2>2, <2>3, <2>4
<1>. QED  BY <1>1, <1>2, TreeTheorem, PTL DEF Spec

=============================================================================
