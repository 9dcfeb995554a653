----------------------------- MODULE DraftProofs -----------------------------
(***************************************************************************)
(* What the operators of Draft.tla do to every Draft of every Kind: each   *)
(* mutation and a carry-over lead from a Draft that fits its Type Schema,  *)
(* with dense arrays and no hollow field, to another one.                  *)
(***************************************************************************)
EXTENDS Draft, FiniteSetTheorems, TLAPS

-----------------------------------------------------------------------------
(* Numbers.                                                                *)

(* A set of numbers that is not empty has a least one: what the choices of *)
(* a first or a highest position rest on.                                  *)
LEMMA LeastNumber ==
    ASSUME NEW T \in SUBSET Nat, T # {}
    PROVE  \E m \in T : \A k \in T : m <= k
<1>. DEFINE Below(n) == {i \in Nat : i < n}
            Downs == {Below(n) : n \in T}
<1>1. ASSUME NEW n \in Nat PROVE IsFiniteSet(Below(n))
  <2>1. Below(n) \in SUBSET (0..n)
    OBVIOUS
  <2>2. IsFiniteSet(0..n)
    BY FS_Interval
  <2>. HIDE DEF Below
  <2>. QED  BY <2>1, <2>2, FS_Subset
<1>2. Downs \subseteq FiniteSubsetsOf(Nat)
  BY <1>1 DEF FiniteSubsetsOf
<1>3. PICK x \in Downs : \A y \in Downs : <<y, x>> \notin StrictSubsetOrdering(Nat)
  <2>1. Downs # {}
    OBVIOUS
  <2>. HIDE DEF Downs
  <2>. QED  BY <1>2, <2>1, FS_StrictSubsetOrderingWellFounded, WFMin
<1>4. PICK m \in T : x = Below(m)
  OBVIOUS
<1>5. ASSUME NEW k \in T, k < m PROVE FALSE
  <2>1. Below(k) \subseteq Below(m) /\ Below(k) # Below(m)
    <3>1. k \in Below(m) /\ k \notin Below(k)
      BY <1>5
    <3>. QED  BY <1>5, <3>1
  <2>2. Below(k) \in Downs /\ Below(k) \subseteq Nat /\ Below(m) \subseteq Nat
    OBVIOUS
  <2>. HIDE DEF Below, Downs
  <2>. QED  BY <1>3, <1>4, <2>1, <2>2 DEF StrictSubsetOrdering
<1>. QED  BY <1>5

(* Induction over the numbers, for a property given as a set.              *)
LEMMA Induction ==
    ASSUME NEW T, 0 \in T, \A n \in Nat : n \in T => n + 1 \in T
    PROVE  Nat \subseteq T
<1>. SUFFICES ASSUME Nat \ T # {} PROVE FALSE
  OBVIOUS
<1>1. PICK m \in Nat \ T : \A k \in Nat \ T : m <= k
  BY LeastNumber
<1>2. m # 0 /\ m - 1 \in Nat
  BY <1>1
<1>. QED  BY <1>1, <1>2

(* Indexes that start at zero and leave none out are the ones below their   *)
(* count.                                                                  *)
LEMMA DenseIndexes ==
    ASSUME NEW I \in SUBSET Nat, IsFiniteSet(I), \A i \in I : i > 0 => i - 1 \in I
    PROVE  Cardinality(I) \in Nat /\ I = {i \in Nat : i < Cardinality(I)}
<1>1. Cardinality(I) \in Nat
  BY FS_CardinalityType
<1>2. Nat \ I # {}
  <2>. SUFFICES ASSUME Nat \subseteq I PROVE FALSE
    OBVIOUS
  <2>. DEFINE n == Cardinality(I)
  <2>1. 0..n \in SUBSET I
    BY <1>1
  <2>2. Cardinality(0..n) = n + 1
    BY <1>1, FS_Interval
  <2>3. Cardinality(0..n) <= Cardinality(I)
    BY <2>1, FS_Subset
  <2>. QED  BY <1>1, <2>2, <2>3
<1>3. PICK m \in Nat \ I : \A k \in Nat \ I : m <= k
  BY <1>2, LeastNumber
<1>4. ASSUME NEW i \in I, i > m PROVE FALSE
  <2>. DEFINE J == {j \in I : j > m}
  <2>1. PICK j \in J : \A k \in J : j <= k
    <3>1. J \in SUBSET Nat /\ J # {}
      BY <1>4
    <3>. HIDE DEF J
    <3>. QED  BY <3>1, LeastNumber
  <2>2. j - 1 \in I /\ j - 1 # m
    BY <1>3, <2>1
  <2>. QED  BY <1>3, <2>1, <2>2
<1>5. I = {i \in Nat : i < m}
  <2>1. \A i \in I : i < m
    BY <1>3, <1>4
  <2>2. \A i \in Nat : i < m => i \in I
    BY <1>3
  <2>. QED  BY <2>1, <2>2
<1>6. I = 0..(m - 1)
  BY <1>3, <1>5
<1>7. Cardinality(I) = m
  BY <1>3, <1>6, FS_Interval
<1>. QED  BY <1>1, <1>5, <1>7

-----------------------------------------------------------------------------
(* Segments.                                                               *)

LEMMA SegmentKinds ==
    ASSUME NEW s \in Segments
    PROVE  /\ IsField(s) \/ IsItem(s) \/ IsKey(s)
           /\ IsField(s) => ~IsItem(s) /\ ~IsKey(s) /\ s.field \in STRING \ {Item, Value}
                            /\ s = FieldSegment(s.field)
           /\ IsItem(s) => ~IsField(s) /\ ~IsKey(s) /\ s.item \in Nat /\ s = IndexSegment(s.item)
           /\ IsKey(s) => ~IsField(s) /\ ~IsItem(s) /\ s.key \in Nat /\ s = KeySegment(s.key)
BY DEF Segments, IsField, IsItem, IsKey, FieldSegment, IndexSegment, KeySegment

LEMMA FieldSegments ==
    ASSUME NEW name \in STRING \ {Item, Value}
    PROVE  /\ FieldSegment(name) \in Segments /\ FieldSegment(name).field = name
           /\ IsField(FieldSegment(name))
           /\ ~IsItem(FieldSegment(name)) /\ ~IsKey(FieldSegment(name))
BY DEF Segments, IsField, IsItem, IsKey, FieldSegment

LEMMA IndexSegments ==
    ASSUME NEW i \in Nat
    PROVE  /\ IndexSegment(i) \in Segments /\ IndexSegment(i).item = i
           /\ IsItem(IndexSegment(i))
           /\ ~IsField(IndexSegment(i)) /\ ~IsKey(IndexSegment(i))
BY DEF Segments, IsField, IsItem, IsKey, IndexSegment

LEMMA KeySegments ==
    ASSUME NEW key \in Nat
    PROVE  /\ KeySegment(key) \in Segments /\ KeySegment(key).key = key
           /\ IsKey(KeySegment(key))
           /\ ~IsField(KeySegment(key)) /\ ~IsItem(KeySegment(key))
BY DEF Segments, IsField, IsItem, IsKey, KeySegment

-----------------------------------------------------------------------------
(* Paths.                                                                  *)

(* A sequence is given by its length and its elements.                     *)
LEMMA SameSequence ==
    ASSUME NEW S, NEW p \in Seq(S), NEW q \in Seq(S),
           Len(p) = Len(q), \A n \in 1..Len(p) : p[n] = q[n]
    PROVE  p = q
OBVIOUS

LEMMA Start ==
    ASSUME NEW S, NEW p \in Seq(S), NEW n \in 0..Len(p)
    PROVE  /\ SubSeq(p, 1, n) \in Seq(S) /\ Len(SubSeq(p, 1, n)) = n
           /\ \A m \in 1..n : SubSeq(p, 1, n)[m] = p[m]
           /\ SubSeq(p, 1, n) = <<>> <=> n = 0
           /\ n = Len(p) => SubSeq(p, 1, n) = p
OBVIOUS

LEMMA StartOfStart ==
    ASSUME NEW S, NEW p \in Seq(S), NEW n \in 0..Len(p), NEW m \in 0..n
    PROVE  SubSeq(SubSeq(p, 1, n), 1, m) = SubSeq(p, 1, m)
BY Start

LEMMA FrontLast ==
    ASSUME NEW S, NEW p \in Seq(S), p # <<>>
    PROVE  /\ Len(p) \in Nat /\ Len(p) > 0
           /\ Front(p) \in Seq(S) /\ Len(Front(p)) = Len(p) - 1
           /\ Front(p) = SubSeq(p, 1, Len(p) - 1)
           /\ Last(p) \in S /\ Last(p) = p[Len(p)]
           /\ p = Append(Front(p), Last(p))
           /\ \A n \in 1..(Len(p) - 1) : Front(p)[n] = p[n]
<1>1. Len(p) \in Nat /\ Len(p) > 0
  OBVIOUS
<1>2. Front(p) \in Seq(S) /\ Len(Front(p)) = Len(p) - 1 /\ Front(p) = SubSeq(p, 1, Len(p) - 1)
  <2>1. Len(p) - 1 \in 0..Len(p)
    BY <1>1
  <2>. QED  BY <2>1, Start DEF Front
<1>3. \A n \in 1..(Len(p) - 1) : Front(p)[n] = p[n]
  BY <1>1 DEF Front
<1>4. Last(p) \in S /\ Last(p) = p[Len(p)]
  BY <1>1 DEF Last
<1>5. p = Append(Front(p), Last(p))
  BY <1>1, <1>2, <1>3, <1>4
<1>. QED  BY <1>1, <1>2, <1>3, <1>4, <1>5

LEMMA Appended ==
    ASSUME NEW S, NEW p \in Seq(S), NEW s \in S
    PROVE  /\ Append(p, s) \in Seq(S) /\ Append(p, s) # <<>>
           /\ Len(Append(p, s)) = Len(p) + 1
           /\ Front(Append(p, s)) = p /\ Last(Append(p, s)) = s
BY DEF Front, Last

LEMMA BeneathIsExtension ==
    ASSUME NEW S, NEW p \in Seq(S), NEW q \in Seq(S)
    PROVE  IsAtOrBeneath(p, q) <=> Len(q) <= Len(p) /\ q = SubSeq(p, 1, Len(q))
BY Start, SameSequence DEF IsAtOrBeneath

LEMMA BeneathOrder ==
    ASSUME NEW S, NEW p \in Seq(S), NEW q \in Seq(S), NEW r \in Seq(S)
    PROVE  /\ IsAtOrBeneath(p, p) /\ IsAtOrBeneath(p, <<>>)
           /\ IsAtOrBeneath(<<>>, p) => p = <<>>
           /\ IsAtOrBeneath(p, q) /\ IsAtOrBeneath(q, r) => IsAtOrBeneath(p, r)
           /\ IsAtOrBeneath(p, q) /\ Len(p) = Len(q) => p = q
           /\ IsAtOrBeneath(r, p) /\ IsAtOrBeneath(r, q) /\ Len(p) <= Len(q) => IsAtOrBeneath(q, p)
BY SameSequence DEF IsAtOrBeneath

LEMMA BeneathFront ==
    ASSUME NEW S, NEW p \in Seq(S) \ {<<>>}, NEW q \in Seq(S)
    PROVE  /\ IsAtOrBeneath(p, Front(p))
           /\ IsAtOrBeneath(p, q) <=> p = q \/ IsAtOrBeneath(Front(p), q)
<1>0. /\ Len(p) \in Nat /\ Len(q) \in Nat /\ Len(Front(p)) = Len(p) - 1
      /\ \A n \in 1..(Len(p) - 1) : Front(p)[n] = p[n]
  <2>1. p \in Seq(S) /\ p # <<>> /\ Len(q) \in Nat
    OBVIOUS
  <2>. QED  BY <2>1, FrontLast
<1>1. IsAtOrBeneath(p, Front(p))
  BY <1>0 DEF IsAtOrBeneath
<1>2. ASSUME IsAtOrBeneath(p, q), p # q PROVE IsAtOrBeneath(Front(p), q)
  <2>1. Len(q) # Len(p)
    BY <1>2, SameSequence DEF IsAtOrBeneath
  <2>. QED  BY <1>0, <1>2, <2>1 DEF IsAtOrBeneath
<1>3. ASSUME IsAtOrBeneath(Front(p), q) PROVE IsAtOrBeneath(p, q)
  BY <1>0, <1>3 DEF IsAtOrBeneath
<1>. QED  BY <1>1, <1>2, <1>3, BeneathOrder

LEMMA BeneathStart ==
    ASSUME NEW S, NEW p \in Seq(S), NEW n \in 0..Len(p)
    PROVE  IsAtOrBeneath(p, SubSeq(p, 1, n))
BY Start DEF IsAtOrBeneath

LEMMA ChildIsAppended ==
    ASSUME NEW S, NEW p \in Seq(S), NEW q \in Seq(S)
    PROVE  Len(q) = Len(p) + 1 /\ IsAtOrBeneath(q, p) <=> q # <<>> /\ Front(q) = p
<1>1. ASSUME Len(q) = Len(p) + 1, IsAtOrBeneath(q, p) PROVE q # <<>> /\ Front(q) = p
  BY <1>1, FrontLast, SameSequence DEF IsAtOrBeneath
<1>2. ASSUME q # <<>>, Front(q) = p PROVE Len(q) = Len(p) + 1 /\ IsAtOrBeneath(q, p)
  BY <1>2, FrontLast DEF IsAtOrBeneath
<1>. QED  BY <1>1, <1>2

LEMMA AlongIsStarts ==
    ASSUME NEW S, NEW p \in Seq(S)
    PROVE  /\ \A q \in Seq(S) : q \in Along(p) <=> q # <<>> /\ IsAtOrBeneath(p, q)
           /\ Along(p) \subseteq Seq(S) \ {<<>>}
           /\ p # <<>> => p \in Along(p) /\ Along(p) = Along(Front(p)) \cup {p}
           /\ Along(<<>>) = {}
           /\ IsFiniteSet(Along(p))
<1>1. Along(p) \subseteq Seq(S) \ {<<>>}
  BY Start DEF Along
<1>2. ASSUME NEW q \in Seq(S) PROVE q \in Along(p) <=> q # <<>> /\ IsAtOrBeneath(p, q)
  BY Start, BeneathIsExtension DEF Along
<1>3. ASSUME p # <<>> PROVE p \in Along(p) /\ Along(p) = Along(Front(p)) \cup {p}
  <2>1. p \in Along(p)
    BY <1>2, <1>3, BeneathOrder
  <2>2. Front(p) \in Seq(S)
    BY <1>3, FrontLast
  <2>3. \A q \in Seq(S) : q \in Along(Front(p)) <=> q # <<>> /\ IsAtOrBeneath(Front(p), q)
    BY <2>2, Start, BeneathIsExtension DEF Along
  <2>4. Along(Front(p)) \subseteq Seq(S)
    BY <2>2, Start DEF Along
  <2>. QED  BY <1>1, <1>2, <1>3, <2>1, <2>3, <2>4, BeneathFront
<1>4. Along(<<>>) = {}
  BY DEF Along
<1>5. IsFiniteSet(Along(p))
  <2>. DEFINE f == [n \in 1..Len(p) |-> SubSeq(p, 1, n)]
  <2>1. f \in Surjection(1..Len(p), Along(p))
    BY DEF Surjection, Along
  <2>2. IsFiniteSet(1..Len(p))
    BY FS_Interval
  <2>. QED  BY <2>1, <2>2, FS_Surjection
<1>. QED  BY <1>1, <1>2, <1>3, <1>4, <1>5

-----------------------------------------------------------------------------
(* Schema-level paths.                                                     *)

(* The provers do not know a literal for a string.                         *)
Names == STRING \cup {Item, Value}

LEMMA SchemaPathType ==
    ASSUME NEW p \in Paths
    PROVE  /\ SchemaPath(p) \in Seq(Names) /\ Len(SchemaPath(p)) = Len(p)
           /\ \A n \in 1..Len(p) : /\ IsField(p[n]) => SchemaPath(p)[n] = p[n].field
                                   /\ IsItem(p[n]) => SchemaPath(p)[n] = Item
                                   /\ IsKey(p[n]) => SchemaPath(p)[n] = Value
<1>1. \A n \in 1..Len(p) : p[n] \in Segments
  BY DEF Paths
<1>2. Len(p) \in Nat
  BY DEF Paths
<1>3. ASSUME NEW n \in 1..Len(p)
      PROVE  /\ SchemaPath(p)[n] \in Names
             /\ IsField(p[n]) => SchemaPath(p)[n] = p[n].field
             /\ IsItem(p[n]) => SchemaPath(p)[n] = Item
             /\ IsKey(p[n]) => SchemaPath(p)[n] = Value
  <2>1. SchemaPath(p)[n] = CASE IsField(p[n]) -> p[n].field
                             [] IsItem(p[n]) -> Item
                             [] IsKey(p[n]) -> Value
    BY DEF SchemaPath
  <2>. QED  BY <1>1, <2>1, SegmentKinds DEF Names
<1>4. SchemaPath(p) \in [1..Len(p) -> Names]
  BY <1>3 DEF SchemaPath
<1>. QED  BY <1>2, <1>3, <1>4

LEMMA SchemaPathStart ==
    ASSUME NEW p \in Paths, NEW n \in 0..Len(p)
    PROVE  SchemaPath(SubSeq(p, 1, n)) = SubSeq(SchemaPath(p), 1, n)
<1>1. SubSeq(p, 1, n) \in Paths /\ Len(SubSeq(p, 1, n)) = n
  BY Start DEF Paths
<1>2. \A m \in 1..n : SubSeq(p, 1, n)[m] = p[m]
  BY Start DEF Paths
<1>3. SchemaPath(p) \in Seq(Names) /\ Len(SchemaPath(p)) = Len(p) /\ Len(p) \in Nat
  BY SchemaPathType DEF Paths
<1>4. \A m \in 1..n : SchemaPath(SubSeq(p, 1, n))[m] = SchemaPath(p)[m]
  <2>. TAKE m \in 1..n
  <2>1. p[m] \in Segments /\ m \in 1..Len(p)
    BY DEF Paths
  <2>2. SubSeq(p, 1, n)[m] = p[m]
    BY <1>2
  <2>. QED  BY <1>1, <2>1, <2>2, SchemaPathType, SegmentKinds
<1>5. SubSeq(SchemaPath(p), 1, n) \in Seq(Names) /\ Len(SubSeq(SchemaPath(p), 1, n)) = n
  BY <1>3, Start
<1>6. \A m \in 1..n : SubSeq(SchemaPath(p), 1, n)[m] = SchemaPath(p)[m]
  BY <1>3, Start
<1>7. /\ SchemaPath(SubSeq(p, 1, n)) \in Seq(Names)
      /\ Len(SchemaPath(SubSeq(p, 1, n))) = n
  BY <1>1, SchemaPathType
<1>. QED  BY <1>4, <1>5, <1>6, <1>7, SameSequence

LEMMA SchemaPathFront ==
    ASSUME NEW p \in Paths \ {<<>>}
    PROVE  /\ Front(p) \in Paths /\ Last(p) \in Segments
           /\ SchemaPath(p) \in Seq(Names) \ {<<>>}
           /\ SchemaPath(Front(p)) = Front(SchemaPath(p))
           /\ IsField(Last(p)) => Last(SchemaPath(p)) = Last(p).field
           /\ IsItem(Last(p)) => Last(SchemaPath(p)) = Item
           /\ IsKey(Last(p)) => Last(SchemaPath(p)) = Value
<1>1. /\ Front(p) \in Paths /\ Last(p) \in Segments /\ Last(p) = p[Len(p)]
      /\ Front(p) = SubSeq(p, 1, Len(p) - 1) /\ Len(p) \in Nat /\ Len(p) > 0
  BY FrontLast DEF Paths
<1>2. SchemaPath(p) \in Seq(Names) /\ Len(SchemaPath(p)) = Len(p)
  BY SchemaPathType
<1>3. SchemaPath(Front(p)) = Front(SchemaPath(p))
  <2>1. Len(p) - 1 \in 0..Len(p)
    BY <1>1
  <2>. QED  BY <1>1, <1>2, <2>1, SchemaPathStart DEF Front
<1>4. Last(SchemaPath(p)) = SchemaPath(p)[Len(p)]
  BY <1>2 DEF Last
<1>5. SchemaPath(p) # <<>>
  BY <1>1, <1>2
<1>. QED  BY <1>1, <1>2, <1>3, <1>4, <1>5, SchemaPathType

LEMMA SchemaPathAppend ==
    ASSUME NEW p \in Paths
    PROVE  /\ \A name \in STRING \ {Item, Value} :
                SchemaPath(Append(p, FieldSegment(name))) = Append(SchemaPath(p), name)
           /\ \A i \in Nat : SchemaPath(Append(p, IndexSegment(i))) = Append(SchemaPath(p), Item)
           /\ \A k \in Nat : SchemaPath(Append(p, KeySegment(k))) = Append(SchemaPath(p), Value)
<1>1. ASSUME NEW s \in Segments
      PROVE  /\ SchemaPath(Append(p, s)) # <<>> /\ SchemaPath(Append(p, s)) \in Seq(Names)
             /\ Front(SchemaPath(Append(p, s))) = SchemaPath(p)
             /\ IsField(s) => Last(SchemaPath(Append(p, s))) = s.field
             /\ IsItem(s) => Last(SchemaPath(Append(p, s))) = Item
             /\ IsKey(s) => Last(SchemaPath(Append(p, s))) = Value
  <2>1. /\ Append(p, s) \in Paths \ {<<>>}
        /\ Front(Append(p, s)) = p /\ Last(Append(p, s)) = s
    BY Appended DEF Paths
  <2>. QED  BY <2>1, SchemaPathFront
<1>2. ASSUME NEW t \in Seq(Names) \ {<<>>} PROVE t = Append(Front(t), Last(t))
  BY FrontLast
<1>3. ASSUME NEW name \in STRING \ {Item, Value}
      PROVE  SchemaPath(Append(p, FieldSegment(name))) = Append(SchemaPath(p), name)
  BY <1>1, <1>2, FieldSegments
<1>4. ASSUME NEW i \in Nat
      PROVE  SchemaPath(Append(p, IndexSegment(i))) = Append(SchemaPath(p), Item)
  BY <1>1, <1>2, IndexSegments
<1>5. ASSUME NEW k \in Nat
      PROVE  SchemaPath(Append(p, KeySegment(k))) = Append(SchemaPath(p), Value)
  BY <1>1, <1>2, KeySegments
<1>. QED  BY <1>3, <1>4, <1>5

LEMMA SchemaPathRoot == SchemaPath(<<>>) = <<>>
BY DEF SchemaPath

(* The Type Schema of every version is a tree.                             *)
LEMMA TreeFacts ==
    ASSUME NEW v \in Versions
    PROVE  /\ DOMAIN FieldTree[v] \subseteq Seq(Names)
           /\ \A s \in DOMAIN FieldTree[v] \ {<<>>} : s \in Seq(STRING) /\ Last(s) \in STRING
           /\ <<>> \in DOMAIN FieldTree[v] /\ FieldTree[v][<<>>] = "object"
           /\ \A s \in DOMAIN FieldTree[v] :
                /\ FieldTree[v][s] \in Types
                /\ FieldTree[v][s] = "array" => Append(s, Item) \in DOMAIN FieldTree[v]
                /\ FieldTree[v][s] = "map" => Append(s, Value) \in DOMAIN FieldTree[v]
           /\ \A s \in DOMAIN FieldTree[v] \ {<<>>} :
                LET parent == FieldTree[v][Front(s)] IN
                /\ Front(s) \in DOMAIN FieldTree[v]
                /\ \/ parent = "object" /\ Last(s) \notin {Item, Value}
                   \/ parent = "array" /\ Last(s) = Item
                   \/ parent = "map" /\ Last(s) = Value
<1>1. IsFieldTree(FieldTree[v])
  BY DraftAssumption
<1>2. DOMAIN FieldTree[v] \subseteq Seq(STRING)
  BY <1>1 DEF IsFieldTree
<1>3. ASSUME NEW s \in Seq(STRING) PROVE s \in Seq(Names) /\ (s # <<>> => Last(s) \in STRING)
  <2>1. \A n \in 1..Len(s) : s[n] \in Names
    BY DEF Names
  <2>. QED  BY <2>1, FrontLast
<1>. QED  BY <1>1, <1>2, <1>3 DEF IsFieldTree

LEMMA RootResolves ==
    ASSUME NEW v \in Versions
    PROVE  Resolves(v, <<>>) /\ TypeAt(v, <<>>) = "object"
BY TreeFacts, SchemaPathRoot DEF Resolves, TypeAt

(* A position is a child its parent's type has.                            *)
LEMMA ParentResolves ==
    ASSUME NEW v \in Versions, NEW p \in Paths \ {<<>>}, Resolves(v, p)
    PROVE  /\ Resolves(v, Front(p))
           /\ \/ IsField(Last(p)) /\ TypeAt(v, Front(p)) = "object"
              \/ IsItem(Last(p)) /\ TypeAt(v, Front(p)) = "array"
              \/ IsKey(Last(p)) /\ TypeAt(v, Front(p)) = "map"
           /\ IsField(Last(p)) => Last(p).field \in FieldNames[v][SchemaPath(Front(p))]
<1>. DEFINE s == SchemaPath(p)
<1>1. s \in DOMAIN FieldTree[v] \ {<<>>} /\ SchemaPath(Front(p)) = Front(s)
  BY SchemaPathFront DEF Resolves
<1>2. /\ Front(s) \in DOMAIN FieldTree[v]
      /\ \/ FieldTree[v][Front(s)] = "object" /\ Last(s) \notin {Item, Value}
         \/ FieldTree[v][Front(s)] = "array" /\ Last(s) = Item
         \/ FieldTree[v][Front(s)] = "map" /\ Last(s) = Value
  BY <1>1, TreeFacts
<1>3. /\ IsField(Last(p)) => Last(s) = Last(p).field /\ Last(s) \notin {Item, Value}
      /\ IsItem(Last(p)) => Last(s) = Item
      /\ IsKey(Last(p)) => Last(s) = Value
      /\ IsField(Last(p)) \/ IsItem(Last(p)) \/ IsKey(Last(p))
      /\ Item # Value
  BY SchemaPathFront, SegmentKinds DEF Item, Value
<1>4. ASSUME IsField(Last(p)) PROVE Last(p).field \in FieldNames[v][SchemaPath(Front(p))]
  <2>1. FieldTree[v][Front(s)] = "object"
    BY <1>2, <1>3, <1>4
  <2>. HIDE DEF s
  <2>. QED  BY <1>1, <1>2, <1>3, <1>4, <2>1 DEF FieldNames
<1>. QED  BY <1>1, <1>2, <1>3, <1>4 DEF Resolves, TypeAt

(* The children a type has.                                                *)
LEMMA ChildrenResolve ==
    ASSUME NEW v \in Versions, NEW p \in Paths, Resolves(v, p)
    PROVE  /\ TypeAt(v, p) = "object" =>
                \A name \in FieldNames[v][SchemaPath(p)] :
                    /\ name \in STRING \ {Item, Value}
                    /\ Append(p, FieldSegment(name)) \in Paths
                    /\ Resolves(v, Append(p, FieldSegment(name)))
           /\ TypeAt(v, p) = "array" =>
                \A i \in Nat : /\ Append(p, IndexSegment(i)) \in Paths
                               /\ Resolves(v, Append(p, IndexSegment(i)))
           /\ TypeAt(v, p) = "map" =>
                \A k \in Nat : /\ Append(p, KeySegment(k)) \in Paths
                               /\ Resolves(v, Append(p, KeySegment(k)))
<1>. DEFINE s == SchemaPath(p)
<1>1. s \in DOMAIN FieldTree[v] /\ TypeAt(v, p) = FieldTree[v][s]
  BY DEF Resolves, TypeAt
<1>2. ASSUME TypeAt(v, p) = "object", NEW name \in FieldNames[v][s]
      PROVE  /\ name \in STRING \ {Item, Value}
             /\ Append(p, FieldSegment(name)) \in Paths
             /\ Resolves(v, Append(p, FieldSegment(name)))
  <2>1. PICK t \in DOMAIN FieldTree[v] \ {<<>>} : Front(t) = s /\ name = Last(t)
    BY <1>1, <1>2 DEF FieldNames
  <2>2. t \in Seq(Names) /\ t = Append(s, name)
    BY <2>1, TreeFacts, FrontLast
  <2>3. name \in STRING \ {Item, Value}
    BY <1>1, <1>2, <2>1, TreeFacts
  <2>4. Append(p, FieldSegment(name)) \in Paths
    BY <2>3, FieldSegments, Appended DEF Paths
  <2>. QED  BY <2>1, <2>2, <2>3, <2>4, SchemaPathAppend DEF Resolves
<1>3. ASSUME TypeAt(v, p) = "array", NEW i \in Nat
      PROVE  Append(p, IndexSegment(i)) \in Paths /\ Resolves(v, Append(p, IndexSegment(i)))
  <2>1. Append(p, IndexSegment(i)) \in Paths
    BY IndexSegments, Appended DEF Paths
  <2>. QED  BY <1>1, <1>3, <2>1, TreeFacts, SchemaPathAppend DEF Resolves
<1>4. ASSUME TypeAt(v, p) = "map", NEW k \in Nat
      PROVE  Append(p, KeySegment(k)) \in Paths /\ Resolves(v, Append(p, KeySegment(k)))
  <2>1. Append(p, KeySegment(k)) \in Paths
    BY KeySegments, Appended DEF Paths
  <2>. QED  BY <1>1, <1>4, <2>1, TreeFacts, SchemaPathAppend DEF Resolves
<1>. QED  BY <1>2, <1>3, <1>4

(* What is above a position resolves with it.                              *)
LEMMA AboveResolves ==
    ASSUME NEW v \in Versions, NEW p \in Paths, Resolves(v, p), NEW q \in Paths, IsAtOrBeneath(p, q)
    PROVE  Resolves(v, q) /\ (p # q => TypeAt(v, q) \in Structures)
<1>. DEFINE T == {n \in Nat : n <= Len(p) => Resolves(v, SubSeq(p, 1, Len(p) - n))}
<1>1. Len(p) \in Nat
  BY DEF Paths
<1>2. 0 \in T
  <2>1. Len(p) \in 0..Len(p) /\ Len(p) - 0 = Len(p)
    BY <1>1
  <2>. QED  BY <2>1, Start DEF Paths
<1>3. ASSUME NEW n \in Nat, n \in T PROVE n + 1 \in T
  <2>. SUFFICES ASSUME n + 1 <= Len(p) PROVE Resolves(v, SubSeq(p, 1, Len(p) - (n + 1)))
    OBVIOUS
  <2>. DEFINE o == SubSeq(p, 1, Len(p) - n)
  <2>1. o \in Paths \ {<<>>} /\ Len(o) = Len(p) - n
    <3>1. Len(p) - n \in 0..Len(p) /\ Len(p) - n # 0
      BY <1>1
    <3>2. \A k \in 0..Len(p) : /\ SubSeq(p, 1, k) \in Paths /\ Len(SubSeq(p, 1, k)) = k
                               /\ k # 0 => SubSeq(p, 1, k) # <<>>
      BY Start DEF Paths
    <3>. QED  BY <3>1, <3>2
  <2>2. Resolves(v, o)
    BY <1>1, <1>3
  <2>3. Front(o) = SubSeq(p, 1, Len(p) - (n + 1))
    <3>1. Len(p) - n \in 0..Len(p) /\ Len(p) - (n + 1) \in 0..(Len(p) - n)
      BY <1>1
    <3>2. Front(o) = SubSeq(o, 1, Len(p) - (n + 1))
      BY <1>1, <2>1 DEF Front
    <3>. QED  BY <3>1, <3>2, StartOfStart DEF Paths
  <2>. QED  BY <2>1, <2>2, <2>3, ParentResolves
<1>4. ASSUME NEW n \in 0..Len(p) PROVE Resolves(v, SubSeq(p, 1, n))
  <2>1. Len(p) - n \in T
    <3>. HIDE DEF T
    <3>. QED  BY <1>1, <1>2, <1>3, Induction
  <2>. QED  BY <1>1, <2>1
<1>5. q = SubSeq(p, 1, Len(q)) /\ Len(q) \in 0..Len(p)
  BY <1>1, BeneathIsExtension DEF Paths
<1>6. ASSUME p # q PROVE TypeAt(v, q) \in Structures
  <2>1. Len(q) + 1 \in 0..Len(p)
    BY <1>1, <1>5, <1>6, BeneathOrder DEF Paths
  <2>. DEFINE c == SubSeq(p, 1, Len(q) + 1)
  <2>2. c \in Paths \ {<<>>} /\ Resolves(v, c) /\ Len(c) = Len(q) + 1
    BY <1>4, <1>5, <2>1, Start DEF Paths
  <2>3. Front(c) = q
    <3>1. Front(c) = SubSeq(c, 1, Len(q))
      BY <1>5, <2>2 DEF Front
    <3>. QED  BY <1>5, <2>1, <3>1, StartOfStart DEF Paths
  <2>. QED  BY <2>2, <2>3, ParentResolves DEF Structures
<1>. QED  BY <1>4, <1>5, <1>6

-----------------------------------------------------------------------------
(* Reading a Draft.                                                        *)

LEMMA DraftChildren ==
    ASSUME NEW d, DOMAIN d \subseteq Paths \ {<<>>}, NEW p \in Paths
    PROVE  ChildrenOf(d, p) = {q \in DOMAIN d : Front(q) = p}
BY ChildIsAppended DEF ChildrenOf, Paths

LEMMA DraftAbove ==
    ASSUME NEW v, NEW d, IsDraft(v, d), NEW p \in DOMAIN d,
           NEW q \in Paths \ {<<>>}, IsAtOrBeneath(p, q)
    PROVE  q \in DOMAIN d
<1>1. p \in Paths /\ Along(p) \subseteq DOMAIN d
  BY DEF IsDraft
<1>. QED  BY <1>1, AlongIsStarts DEF Paths

(* The items held at a position are the ones below their count.            *)
LEMMA HeldItems ==
    ASSUME NEW d, IsFiniteSet(DOMAIN d), DOMAIN d \subseteq Paths \ {<<>>}, Dense(d),
           NEW p \in Paths
    PROVE  /\ ItemCount(d, p) \in Nat
           /\ \A i \in Nat : Append(p, IndexSegment(i)) \in DOMAIN d <=> i < ItemCount(d, p)
<1>. DEFINE I == {i \in Nat : Append(p, IndexSegment(i)) \in DOMAIN d}
            C == {q \in ChildrenOf(d, p) : IsItem(Last(q))}
            f == [q \in C |-> Last(q).item]
<1>1. \A i \in Nat : /\ Append(p, IndexSegment(i)) \in Paths \ {<<>>}
                     /\ Front(Append(p, IndexSegment(i))) = p
                     /\ Last(Append(p, IndexSegment(i))) = IndexSegment(i)
  BY IndexSegments, Appended DEF Paths
<1>2. \A q \in C : /\ q \in DOMAIN d /\ Last(q).item \in Nat
                   /\ q = Append(p, IndexSegment(Last(q).item))
  <2>. TAKE q \in C
  <2>1. q \in DOMAIN d /\ Front(q) = p /\ q \in Paths \ {<<>>} /\ IsItem(Last(q))
    BY DraftChildren
  <2>2. q = Append(Front(q), Last(q)) /\ Last(q) \in Segments
    BY <2>1, FrontLast DEF Paths
  <2>. QED  BY <2>1, <2>2, SegmentKinds
<1>3. \A i \in I : /\ Append(p, IndexSegment(i)) \in C
                   /\ Last(Append(p, IndexSegment(i))).item = i
  BY <1>1, DraftChildren, IndexSegments
<1>4. f \in Bijection(C, I)
  <2>1. f \in [C -> I]
    BY <1>2
  <2>2. \A q, r \in C : f[q] = f[r] => q = r
    BY <1>2
  <2>3. \A i \in I : \E q \in C : f[q] = i
    BY <1>3
  <2>. HIDE DEF f, C, I
  <2>. QED  BY <2>1, <2>2, <2>3 DEF Bijection, Injection, Surjection, IsInjective
<1>5. IsFiniteSet(C)
  <2>1. C \in SUBSET DOMAIN d
    BY <1>2
  <2>. HIDE DEF C
  <2>. QED  BY <2>1, FS_Subset
<1>6. IsFiniteSet(I) /\ Cardinality(I) = Cardinality(C)
  <2>. HIDE DEF f, C, I
  <2>. QED  BY <1>4, <1>5, FS_Bijection DEF ExistsBijection
<1>7. \A i \in I : i > 0 => i - 1 \in I
  <2>. SUFFICES ASSUME NEW i \in I, i > 0 PROVE Append(p, IndexSegment(i - 1)) \in DOMAIN d
    OBVIOUS
  <2>. QED  BY <1>1, IndexSegments DEF Dense
<1>8. Cardinality(I) \in Nat /\ I = {i \in Nat : i < Cardinality(I)}
  <2>1. I \in SUBSET Nat
    OBVIOUS
  <2>. HIDE DEF I
  <2>. QED  BY <1>6, <1>7, <2>1, DenseIndexes
<1>9. ItemCount(d, p) = Cardinality(C)
  BY DEF ItemCount
<1>. QED  BY <1>6, <1>8, <1>9

LEMMA HeldKeys ==
    ASSUME NEW d, DOMAIN d \subseteq Paths \ {<<>>}, NEW p \in Paths
    PROVE  KeysAt(d, p) = {k \in Nat : Append(p, KeySegment(k)) \in DOMAIN d}
<1>1. ASSUME NEW q \in ChildrenOf(d, p), IsKey(Last(q))
      PROVE  Last(q).key \in Nat /\ Append(p, KeySegment(Last(q).key)) \in DOMAIN d
  <2>1. q \in DOMAIN d /\ Front(q) = p /\ q \in Paths \ {<<>>}
    BY DraftChildren
  <2>2. q = Append(Front(q), Last(q)) /\ Last(q) \in Segments
    BY <2>1, FrontLast DEF Paths
  <2>. QED  BY <1>1, <2>1, <2>2, SegmentKinds
<1>2. ASSUME NEW k \in Nat, Append(p, KeySegment(k)) \in DOMAIN d
      PROVE  /\ Append(p, KeySegment(k)) \in ChildrenOf(d, p)
             /\ IsKey(Last(Append(p, KeySegment(k))))
             /\ Last(Append(p, KeySegment(k))).key = k
  <2>1. /\ Front(Append(p, KeySegment(k))) = p
        /\ Last(Append(p, KeySegment(k))) = KeySegment(k)
    BY KeySegments, Appended DEF Paths
  <2>. QED  BY <1>2, <2>1, DraftChildren, KeySegments
<1>. QED  BY <1>1, <1>2 DEF KeysAt

-----------------------------------------------------------------------------
(* Mutating a Draft.                                                       *)

WellFormed(v, d) == IsDraft(v, d) /\ Dense(d) /\ NoHollowField(d)

(* A new Draft holds nothing.                                              *)
LEMMA EmptyIsWellFormed ==
    ASSUME NEW v \in Versions
    PROVE  WellFormed(v, EmptyDraft)
<1>1. DOMAIN EmptyDraft = {} /\ EmptyDraft = [p \in DOMAIN EmptyDraft |-> EmptyDraft[p]]
  BY DEF EmptyDraft
<1>2. IsFiniteSet({})
  BY FS_EmptySet
<1>3. EmptyDraft \in [DOMAIN EmptyDraft -> Values \cup {Null}]
  BY <1>1
<1>. QED  BY <1>1, <1>2, <1>3
          DEF WellFormed, IsDraft, Dense, NoHollowField, EmptyEntries, Instantiated

LEMMA AlongPosition ==
    ASSUME NEW p \in Paths, NEW q \in Along(p)
    PROVE  /\ q \in Paths \ {<<>>} /\ Len(q) \in 1..Len(p) /\ q = SubSeq(p, 1, Len(q))
           /\ Last(q) = p[Len(q)] /\ Front(q) = SubSeq(p, 1, Len(q) - 1)
           /\ IsAtOrBeneath(p, q)
           /\ Along(q) \subseteq Along(p)
<1>1. q \in Paths \ {<<>>} /\ IsAtOrBeneath(p, q) /\ Len(p) \in Nat /\ Len(q) \in Nat
  BY AlongIsStarts DEF Paths
<1>2. Len(q) \in 0..Len(p) /\ q = SubSeq(p, 1, Len(q)) /\ Len(q) # 0
  BY <1>1, BeneathIsExtension DEF Paths
<1>3. Last(q) = p[Len(q)]
  BY <1>1, <1>2 DEF Last, IsAtOrBeneath
<1>4. Front(q) = SubSeq(p, 1, Len(q) - 1)
  <2>1. Len(q) - 1 \in 0..Len(q)
    BY <1>2
  <2>. QED  BY <1>2, <2>1, StartOfStart DEF Front, Paths
<1>5. Along(q) \subseteq Along(p)
  BY <1>1, AlongIsStarts, BeneathOrder DEF Paths
<1>. QED  BY <1>1, <1>2, <1>3, <1>4, <1>5

(* Instantiating a position that is placeable keeps all but the position    *)
(* itself in order (materialize, ensurePlaceable).                         *)
LEMMA Materialized ==
    ASSUME NEW v \in Versions, NEW d, WellFormed(v, d),
           NEW p \in Paths \ {<<>>}, Resolves(v, p), Placeable(d, p)
    PROVE  LET m == Materialize(d, p) IN
           /\ DOMAIN m = DOMAIN d \cup Along(p) /\ p \in DOMAIN m
           /\ IsDraft(v, m) /\ Dense(m)
           /\ \A q \in EmptyEntries(m) : IsField(Last(q)) => q = p
<1>. DEFINE m == Materialize(d, p)
<1>1. DOMAIN m = DOMAIN d \cup Along(p)
  BY DEF Materialize
<1>2. p \in DOMAIN m
  BY <1>1, AlongIsStarts DEF Paths
<1>3. \A q \in DOMAIN m : m[q] = IF q \in DOMAIN d THEN d[q] ELSE Null
  BY <1>1 DEF Materialize
<1>4. IsFiniteSet(DOMAIN m) /\ DOMAIN m \subseteq Paths \ {<<>>}
  <2>1. IsFiniteSet(DOMAIN d) /\ IsFiniteSet(Along(p))
    BY AlongIsStarts DEF WellFormed, IsDraft, Paths
  <2>2. IsFiniteSet(DOMAIN d \cup Along(p))
    BY <2>1, FS_Union
  <2>3. Along(p) \subseteq Paths \ {<<>>} /\ DOMAIN d \subseteq Paths \ {<<>>}
    BY AlongPosition DEF WellFormed, IsDraft
  <2>. QED  BY <1>1, <2>2, <2>3
<1>5. m \in [DOMAIN m -> Values \cup {Null}]
  <2>1. m = [q \in DOMAIN m |-> m[q]]
    BY <1>1 DEF Materialize
  <2>2. \A q \in DOMAIN m : m[q] \in Values \cup {Null}
    BY <1>3 DEF WellFormed, IsDraft
  <2>. HIDE DEF m
  <2>. QED  BY <2>1, <2>2
<1>6. ASSUME NEW q \in DOMAIN m
      PROVE  /\ Resolves(v, q) /\ Along(q) \subseteq DOMAIN m
             /\ m[q] = Null \/ (m[q].type = TypeAt(v, q) /\ m[q].data \in Fitting(v, q))
  <2>1. CASE q \in DOMAIN d
    BY <1>1, <1>3, <2>1 DEF WellFormed, IsDraft
  <2>2. CASE q \in Along(p) /\ q \notin DOMAIN d
    <3>1. Resolves(v, q)
      BY <2>2, AlongPosition, AboveResolves
    <3>. QED  BY <1>1, <1>3, <2>2, <3>1, AlongPosition
  <2>. QED  BY <1>1, <2>1, <2>2
<1>7. IsDraft(v, m)
  <2>. HIDE DEF m
  <2>. QED  BY <1>4, <1>5, <1>6 DEF IsDraft
<1>8. Dense(m)
  <2>. SUFFICES ASSUME NEW q \in DOMAIN m, IsItem(Last(q)), Last(q).item > 0
                PROVE  Append(Front(q), IndexSegment(Last(q).item - 1)) \in DOMAIN m
    BY DEF Dense
  <2>1. CASE q \in DOMAIN d
    BY <1>1, <2>1 DEF WellFormed, Dense
  <2>2. CASE q \in Along(p)
    <3>1. /\ Len(q) \in 1..Len(p) /\ Last(q) = p[Len(q)]
          /\ Front(q) = SubSeq(p, 1, Len(q) - 1)
      BY <2>2, AlongPosition
    <3>2. Last(q).item <= ItemCount(d, Front(q))
      BY <3>1 DEF Placeable
    <3>3. Front(q) \in Paths /\ Last(q).item \in Nat
      BY <2>2, AlongPosition, FrontLast, SegmentKinds DEF Paths
    <3>4. /\ ItemCount(d, Front(q)) \in Nat
          /\ \A i \in Nat : Append(Front(q), IndexSegment(i)) \in DOMAIN d
                              <=> i < ItemCount(d, Front(q))
      BY <3>3, HeldItems DEF WellFormed, IsDraft
    <3>. QED  BY <1>1, <3>2, <3>3, <3>4
  <2>. QED  BY <1>1, <2>1, <2>2
<1>9. ASSUME NEW q \in EmptyEntries(m), IsField(Last(q)), q # p PROVE FALSE
  <2>1. q \in DOMAIN m /\ q \in Paths \ {<<>>} /\ ChildrenOf(m, q) = {} /\ m[q] = Null
    BY <1>4, <1>9 DEF EmptyEntries, Instantiated
  <2>2. CASE q \in Along(p)
    <3>1. Len(q) \in 1..Len(p) /\ Len(p) \in Nat /\ q = SubSeq(p, 1, Len(q)) /\ Len(q) # Len(p)
      <4>1. Len(q) \in 1..Len(p) /\ Len(p) \in Nat /\ q = SubSeq(p, 1, Len(q))
        BY <2>2, AlongPosition DEF Paths
      <4>2. SubSeq(p, 1, Len(p)) = p
        BY <4>1, Start DEF Paths
      <4>. QED  BY <1>9, <4>1, <4>2
    <3>2. SubSeq(p, 1, Len(q) + 1) \in Along(p) /\ Len(SubSeq(p, 1, Len(q) + 1)) = Len(q) + 1
      BY <3>1, Start DEF Along, Paths
    <3>3. IsAtOrBeneath(SubSeq(p, 1, Len(q) + 1), q)
      <4>1. \A n \in 1..Len(q) : SubSeq(p, 1, Len(q) + 1)[n] = p[n] /\ q[n] = p[n]
        BY <2>2, <3>1, AlongPosition, Start DEF Paths, IsAtOrBeneath
      <4>. QED  BY <3>1, <3>2, <4>1 DEF IsAtOrBeneath
    <3>. QED  BY <1>1, <2>1, <3>2, <3>3 DEF ChildrenOf
  <2>3. CASE q \in DOMAIN d
    <3>1. ChildrenOf(d, q) = {} /\ d[q] = Null
      BY <1>1, <1>3, <2>1, <2>3 DEF ChildrenOf
    <3>. QED  BY <1>9, <2>3, <3>1 DEF WellFormed, NoHollowField, EmptyEntries, Instantiated
  <2>. QED  BY <1>1, <2>1, <2>2, <2>3
<1>. QED  BY <1>1, <1>2, <1>7, <1>8, <1>9

(* Set, AppendItem and AddKey at a position the open version has and the    *)
(* Draft can take.                                                         *)
LEMMA SetIsWellFormed ==
    ASSUME NEW v \in Versions, NEW d, WellFormed(v, d),
           NEW p \in Paths \ {<<>>}, Resolves(v, p), Placeable(d, p),
           NEW x \in Admissible(v, p)
    PROVE  /\ WellFormed(v, Set(v, d, p, x))
           /\ DOMAIN Set(v, d, p, x) = DOMAIN d \cup Along(p)
<1>. DEFINE m == Materialize(d, p)
            e == Set(v, d, p, x)
            y == [type |-> TypeAt(v, p), data |-> x]
<1>1. /\ DOMAIN m = DOMAIN d \cup Along(p) /\ p \in DOMAIN m
      /\ IsDraft(v, m) /\ Dense(m)
      /\ \A q \in EmptyEntries(m) : IsField(Last(q)) => q = p
  BY Materialized
<1>2. x \in Fitting(v, p) /\ x \in Data
  BY DEF Admissible, Fitting
<1>3. y \in Values
  <2>1. TypeAt(v, p) \in Types
    BY TreeFacts DEF Resolves, TypeAt
  <2>. QED  BY <1>2, <2>1 DEF Values
<1>4. y # Null
  BY <1>3, DraftAssumption
<1>5. e = [m EXCEPT ![p] = y]
  BY DEF Set
<1>. HIDE DEF m, e
<1>6. /\ DOMAIN e = DOMAIN m /\ e[p] = y
      /\ \A q \in DOMAIN m : q # p => e[q] = m[q]
  BY <1>1, <1>5
<1>7. e \in [DOMAIN e -> Values \cup {Null}]
  BY <1>1, <1>3, <1>5 DEF IsDraft
<1>8. IsDraft(v, e)
  <2>1. y.type = TypeAt(v, p) /\ y.data \in Fitting(v, p)
    BY <1>2
  <2>. HIDE DEF y
  <2>. QED  BY <1>1, <1>6, <1>7, <2>1 DEF IsDraft
<1>9. Dense(e)
  BY <1>1, <1>6 DEF Dense
<1>10. ASSUME NEW q \in EmptyEntries(e), IsField(Last(q)) PROVE FALSE
  <2>1. q \in DOMAIN m /\ q # p /\ m[q] = Null /\ ChildrenOf(m, q) = {}
    BY <1>4, <1>6, <1>10 DEF EmptyEntries, Instantiated, ChildrenOf
  <2>. QED  BY <1>1, <1>10, <2>1 DEF EmptyEntries, Instantiated
<1>. QED  BY <1>1, <1>6, <1>8, <1>9, <1>10 DEF WellFormed, NoHollowField, e

(* An empty item or key at the end of a position that is there.            *)
LEMMA EntryIsWellFormed ==
    ASSUME NEW v \in Versions, NEW d, WellFormed(v, d),
           NEW p \in Paths \ {<<>>}, Resolves(v, p), Placeable(d, p), ~IsField(Last(p))
    PROVE  /\ WellFormed(v, Materialize(d, p))
           /\ DOMAIN Materialize(d, p) = DOMAIN d \cup Along(p)
<1>. DEFINE m == Materialize(d, p)
<1>1. /\ DOMAIN m = DOMAIN d \cup Along(p) /\ p \in DOMAIN m
      /\ IsDraft(v, m) /\ Dense(m)
      /\ \A q \in EmptyEntries(m) : IsField(Last(q)) => q = p
  BY Materialized
<1>2. NoHollowField(m)
  <2>. HIDE DEF m
  <2>. QED  BY <1>1 DEF NoHollowField
<1>. QED  BY <1>1, <1>2 DEF WellFormed

(* The positions whose items and keys are all held.                        *)
Anchored(d, p) == \A q \in Along(p) : ~IsField(Last(q)) => q \in DOMAIN d

LEMMA AnchoredIsPlaceable ==
    ASSUME NEW v \in Versions, NEW d, WellFormed(v, d), NEW p \in Paths, Anchored(d, p)
    PROVE  /\ Placeable(d, p)
           /\ Placeable(d, Append(p, IndexSegment(ItemCount(d, p))))
           /\ \A k \in Nat : Placeable(d, Append(p, KeySegment(k)))

<1>1. ASSUME NEW n \in 1..Len(p), IsItem(p[n])
      PROVE  p[n].item <= ItemCount(d, SubSeq(p, 1, n - 1))
  <2>. DEFINE q == SubSeq(p, 1, n)
  <2>1. q \in Along(p) /\ Len(q) = n
    <3>1. n \in 0..Len(p) /\ p \in Seq(Segments)
      BY DEF Paths
    <3>2. Len(q) = n
      BY <3>1, Start
    <3>. QED  BY <3>2 DEF Along
  <2>2. q \in Paths \ {<<>>} /\ Last(q) = p[n] /\ Front(q) = SubSeq(p, 1, n - 1)
    BY <2>1, AlongPosition
  <2>3. /\ Front(q) \in Paths /\ Last(q) \in Segments
        /\ q = Append(Front(q), Last(q))
    BY <2>2, FrontLast DEF Paths
  <2>4. q \in DOMAIN d
    BY <1>1, <2>1, <2>2, <2>3, SegmentKinds DEF Anchored
  <2>. HIDE DEF q
  <2>5. p[n].item \in Nat /\ p[n] = IndexSegment(p[n].item)
    BY <1>1, <2>2, <2>3, SegmentKinds
  <2>6. /\ ItemCount(d, Front(q)) \in Nat
        /\ Append(Front(q), IndexSegment(p[n].item)) \in DOMAIN d
             <=> p[n].item < ItemCount(d, Front(q))
    BY <2>3, <2>5, HeldItems DEF WellFormed, IsDraft
  <2>7. Append(Front(q), IndexSegment(p[n].item)) \in DOMAIN d
    BY <2>2, <2>3, <2>4, <2>5
  <2>8. p[n].item <= ItemCount(d, Front(q))
    BY <2>5, <2>6, <2>7
  <2>. QED  BY <2>2, <2>8
<1>2. ASSUME NEW s \in Segments, IsItem(s) => s.item <= ItemCount(d, p)
      PROVE  Placeable(d, Append(p, s))
  <2>. DEFINE r == Append(p, s)
  <2>. SUFFICES ASSUME NEW n \in 1..Len(r), IsItem(r[n])
                PROVE  r[n].item <= ItemCount(d, SubSeq(r, 1, n - 1))
    BY DEF Placeable
  <2>1. /\ Len(r) = Len(p) + 1 /\ r[Len(p) + 1] = s /\ \A m \in 1..Len(p) : r[m] = p[m]
        /\ Len(p) \in Nat
    BY DEF Paths
  <2>2. SubSeq(r, 1, n - 1) = SubSeq(p, 1, n - 1)
    <3>1. r \in Paths /\ n - 1 \in 0..Len(p) /\ n - 1 \in 0..Len(r)
      BY <2>1, Appended DEF Paths
    <3>. QED  BY <2>1, <3>1, Start, SameSequence DEF Paths
  <2>3. CASE n = Len(p) + 1
    <3>1. SubSeq(p, 1, n - 1) = p
      BY <2>1, <2>3, Start DEF Paths
    <3>. QED  BY <1>2, <2>1, <2>2, <2>3, <3>1
  <2>4. CASE n \in 1..Len(p)
    BY <1>1, <2>1, <2>2, <2>4
  <2>. QED  BY <2>1, <2>3, <2>4
<1>3. ItemCount(d, p) \in Nat
  BY HeldItems DEF WellFormed, IsDraft
<1>4. Placeable(d, p)
  BY <1>1 DEF Placeable
<1>5. Placeable(d, Append(p, IndexSegment(ItemCount(d, p))))
  BY <1>2, <1>3, IndexSegments
<1>6. ASSUME NEW k \in Nat PROVE Placeable(d, Append(p, KeySegment(k)))
  BY <1>2, KeySegments
<1>. QED  BY <1>4, <1>5, <1>6

-----------------------------------------------------------------------------
(* Removing an item.                                                       *)

(* The positions that a removal of p renumbers.                            *)
Follows(p, q) ==
    LET n == Len(p) IN
    /\ IsItem(p[n])
    /\ Len(q) >= n
    /\ IsAtOrBeneath(q, Front(p))
    /\ IsItem(q[n])
    /\ q[n].item > p[n].item

LEMMA FollowsBy ==
    ASSUME NEW p \in Paths \ {<<>>}, NEW q \in Paths
    PROVE  /\ Len(p) \in Nat /\ Len(p) > 0
           /\ Follows(p, q) <=>
                /\ Len(q) >= Len(p) /\ \A m \in 1..(Len(p) - 1) : q[m] = p[m]
                /\ IsItem(p[Len(p)]) /\ IsItem(q[Len(p)])
                /\ q[Len(p)].item > p[Len(p)].item
<1>1. /\ Len(Front(p)) = Len(p) - 1 /\ Len(p) \in Nat /\ Len(p) > 0
      /\ \A m \in 1..(Len(p) - 1) : Front(p)[m] = p[m]
  BY FrontLast DEF Paths
<1>2. Len(q) \in Nat
  BY DEF Paths
<1>. QED  BY <1>1, <1>2 DEF Follows, IsAtOrBeneath

LEMMA RenumberedBy ==
    ASSUME NEW p \in Paths \ {<<>>}, NEW q \in Paths
    PROVE  /\ Renumbered(p, q) \in Paths /\ Len(Renumbered(p, q)) = Len(q)
           /\ \A m \in 1..Len(q) : m # Len(p) => Renumbered(p, q)[m] = q[m]
           /\ ~Follows(p, q) => Renumbered(p, q) = q
           /\ Follows(p, q) =>
                /\ q[Len(p)].item \in Nat /\ q[Len(p)].item > 0
                /\ Renumbered(p, q)[Len(p)] = IndexSegment(q[Len(p)].item - 1)
                /\ Len(p) \in 1..Len(q)
<1>. DEFINE n == Len(p)
<1>1. n \in Nat /\ n > 0 /\ Len(q) \in Nat
  BY FollowsBy DEF Paths
<1>2. ASSUME ~Follows(p, q) PROVE Renumbered(p, q) = q
  BY <1>2 DEF Follows, Renumbered
<1>3. ASSUME Follows(p, q)
      PROVE  /\ q[n].item \in Nat /\ q[n].item > 0 /\ n \in 1..Len(q)
             /\ Renumbered(p, q) = [q EXCEPT ![n] = IndexSegment(q[n].item - 1)]
  <2>1. /\ n \in 1..Len(q) /\ IsItem(p[n]) /\ IsItem(q[n])
        /\ q[n].item > p[n].item
    BY <1>1, <1>3, FollowsBy
  <2>2. p[n] \in Segments /\ q[n] \in Segments
    BY <1>1, <2>1 DEF Paths
  <2>3. Renumbered(p, q) = [q EXCEPT ![n] = IndexSegment(q[n].item - 1)]
    BY <1>3 DEF Follows, Renumbered
  <2>. QED  BY <2>1, <2>2, <2>3, SegmentKinds
<1>4. ASSUME Follows(p, q)
      PROVE  /\ Renumbered(p, q) \in Paths /\ Len(Renumbered(p, q)) = Len(q)
             /\ \A m \in 1..Len(q) : m # n => Renumbered(p, q)[m] = q[m]
             /\ Renumbered(p, q)[n] = IndexSegment(q[n].item - 1)
  <2>1. IndexSegment(q[n].item - 1) \in Segments
    <3>1. q[n].item - 1 \in Nat
      BY <1>3, <1>4
    <3>. QED  BY <3>1, IndexSegments
  <2>. QED  BY <1>3, <1>4, <2>1 DEF Paths
<1>. QED  BY <1>2, <1>3, <1>4

(* Renumbering keeps what kind each segment is, so the type of a position. *)
LEMMA RenumberedKinds ==
    ASSUME NEW p \in Paths \ {<<>>}, NEW q \in Paths
    PROVE  /\ \A m \in 1..Len(q) :
                /\ IsField(Renumbered(p, q)[m]) <=> IsField(q[m])
                /\ IsItem(Renumbered(p, q)[m]) <=> IsItem(q[m])
                /\ IsKey(Renumbered(p, q)[m]) <=> IsKey(q[m])
                /\ ~IsItem(q[m]) => Renumbered(p, q)[m] = q[m]
           /\ SchemaPath(Renumbered(p, q)) = SchemaPath(q)
<1>. DEFINE r == Renumbered(p, q)
<1>1. r \in Paths /\ Len(r) = Len(q) /\ Len(q) \in Nat
  <2>1. Len(q) \in Nat
    BY DEF Paths
  <2>. QED  BY <2>1, RenumberedBy
<1>2. ASSUME NEW m \in 1..Len(q)
      PROVE  /\ IsField(r[m]) <=> IsField(q[m])
             /\ IsItem(r[m]) <=> IsItem(q[m])
             /\ IsKey(r[m]) <=> IsKey(q[m])
             /\ ~IsItem(q[m]) => r[m] = q[m]
             /\ r[m] = q[m] \/ (IsItem(r[m]) /\ IsItem(q[m]))
  <2>. SUFFICES ASSUME r[m] # q[m] PROVE FALSE \/ (IsItem(r[m]) /\ IsItem(q[m]) /\ r[m] \in Segments /\ q[m] \in Segments)
    BY SegmentKinds
  <2>1. Follows(p, q) /\ m = Len(p)
    BY RenumberedBy
  <2>2. IsItem(q[m]) /\ q[m].item - 1 \in Nat /\ r[m] = IndexSegment(q[m].item - 1)
    BY <2>1, RenumberedBy, FollowsBy
  <2>. QED  BY <1>1, <2>2, IndexSegments DEF Paths
<1>3. SchemaPath(r) = SchemaPath(q)
  <2>1. /\ SchemaPath(r) \in Seq(Names) /\ SchemaPath(q) \in Seq(Names)
        /\ Len(SchemaPath(r)) = Len(q) /\ Len(SchemaPath(q)) = Len(q)
    BY <1>1, SchemaPathType
  <2>2. ASSUME NEW m \in 1..Len(q) PROVE SchemaPath(r)[m] = SchemaPath(q)[m]
    <3>1. q[m] \in Segments
      BY DEF Paths
    <3>. QED  BY <1>1, <1>2, <3>1, SchemaPathType, SegmentKinds
  <2>. QED  BY <2>1, <2>2, SameSequence
<1>. QED  BY <1>2, <1>3

(* It renumbers what is above a position along with it.                    *)
LEMMA RenumberedStart ==
    ASSUME NEW p \in Paths \ {<<>>}, NEW q \in Paths, NEW k \in 0..Len(q)
    PROVE  Renumbered(p, SubSeq(q, 1, k)) = SubSeq(Renumbered(p, q), 1, k)
<1>. DEFINE o == SubSeq(q, 1, k)
            r == Renumbered(p, q)
            n == Len(p)
<1>1. /\ o \in Paths /\ Len(o) = k /\ \A m \in 1..k : o[m] = q[m]
  BY Start DEF Paths
<1>2. r \in Paths /\ Len(r) = Len(q)
  BY RenumberedBy
<1>3. /\ SubSeq(r, 1, k) \in Paths /\ Len(SubSeq(r, 1, k)) = k
      /\ \A m \in 1..k : SubSeq(r, 1, k)[m] = r[m]
  BY <1>2, Start DEF Paths
<1>4. Renumbered(p, o) \in Paths /\ Len(Renumbered(p, o)) = k
  BY <1>1, RenumberedBy
<1>5. Len(q) \in Nat /\ n \in Nat /\ n > 0
  BY FollowsBy DEF Paths
<1>6. Follows(p, o) <=> Follows(p, q) /\ n <= k
  <2>1. Follows(p, o) <=> /\ k >= n /\ \A m \in 1..(n - 1) : o[m] = p[m]
                          /\ IsItem(p[n]) /\ IsItem(o[n]) /\ o[n].item > p[n].item
    <3>. HIDE DEF o
    <3>. QED  BY <1>1, FollowsBy
  <2>2. Follows(p, q) <=> /\ Len(q) >= n /\ \A m \in 1..(n - 1) : q[m] = p[m]
                          /\ IsItem(p[n]) /\ IsItem(q[n]) /\ q[n].item > p[n].item
    BY FollowsBy
  <2>3. k >= n => o[n] = q[n] /\ \A m \in 1..(n - 1) : o[m] = q[m]
    BY <1>1, <1>5
  <2>. HIDE DEF o
  <2>. QED  BY <1>5, <2>1, <2>2, <2>3
<1>7. ASSUME NEW m \in 1..k PROVE Renumbered(p, o)[m] = r[m]
  <2>. HIDE DEF o
  <2>1. CASE m # n
    BY <1>1, <2>1, RenumberedBy
  <2>2. CASE m = n /\ Follows(p, q)
    <3>1. Follows(p, o)
      BY <1>5, <1>6, <2>2
    <3>2. Renumbered(p, o)[n] = IndexSegment(o[n].item - 1)
      BY <1>1, <3>1, RenumberedBy
    <3>3. r[n] = IndexSegment(q[n].item - 1)
      BY <2>2, RenumberedBy
    <3>. QED  BY <1>1, <2>2, <3>2, <3>3
  <2>3. CASE m = n /\ ~Follows(p, q)
    <3>1. ~Follows(p, o)
      BY <1>6, <2>3
    <3>. QED  BY <1>1, <2>3, <3>1, RenumberedBy
  <2>. QED  BY <2>1, <2>2, <2>3
<1>. HIDE DEF r, o
<1>8. Renumbered(p, o) = SubSeq(r, 1, k)
  BY <1>3, <1>4, <1>7, SameSequence DEF Paths
<1>. QED  BY <1>8 DEF r, o

LEMMA RenumberedFront ==
    ASSUME NEW p \in Paths \ {<<>>}, NEW q \in Paths \ {<<>>}
    PROVE  /\ Renumbered(p, q) # <<>>
           /\ Front(Renumbered(p, q)) = Renumbered(p, Front(q))
           /\ IsField(Last(Renumbered(p, q))) <=> IsField(Last(q))
           /\ IsItem(Last(Renumbered(p, q))) <=> IsItem(Last(q))
           /\ IsKey(Last(Renumbered(p, q))) <=> IsKey(Last(q))
           /\ Len(q) # Len(p) => Last(Renumbered(p, q)) = Last(q)
           /\ ~IsItem(Last(q)) => Last(Renumbered(p, q)) = Last(q)
<1>1. Len(q) \in Nat /\ Len(q) > 0 /\ Len(q) - 1 \in 0..Len(q) /\ Len(q) \in 1..Len(q)
  BY FrontLast DEF Paths
<1>2. Renumbered(p, q) \in Paths /\ Len(Renumbered(p, q)) = Len(q)
  BY RenumberedBy
<1>3. Front(Renumbered(p, q)) = Renumbered(p, Front(q))
  BY <1>1, <1>2, RenumberedStart DEF Front
<1>4. Renumbered(p, q) # <<>>
  BY <1>1, <1>2
<1>5. Last(q) = q[Len(q)] /\ Last(Renumbered(p, q)) = Renumbered(p, q)[Len(q)]
  BY <1>2 DEF Last
<1>. DEFINE m == Len(q)
            s == Renumbered(p, q)
<1>6. /\ IsField(s[m]) <=> IsField(q[m])
      /\ IsItem(s[m]) <=> IsItem(q[m])
      /\ IsKey(s[m]) <=> IsKey(q[m])
      /\ ~IsItem(q[m]) => s[m] = q[m]
  BY <1>1, RenumberedKinds
<1>7. m # Len(p) => s[m] = q[m]
  BY <1>1, RenumberedBy
<1>. QED  BY <1>3, <1>4, <1>5, <1>6, <1>7

(* Two positions that stay do not collide.                                 *)
LEMMA RenumberedApart ==
    ASSUME NEW p \in Paths \ {<<>>}, NEW q \in Paths, NEW r \in Paths,
           ~IsAtOrBeneath(q, p), ~IsAtOrBeneath(r, p), Renumbered(p, q) = Renumbered(p, r)
    PROVE  q = r
<1>. DEFINE n == Len(p)
<1>1. /\ n \in Nat /\ n > 0 /\ Len(q) = Len(r) /\ Len(q) \in Nat
      /\ \A m \in 1..Len(q) : m # n => q[m] = r[m]
  <2>1. n \in Nat /\ n > 0 /\ Len(q) \in Nat
    BY FollowsBy DEF Paths
  <2>2. Len(q) = Len(r)
    BY RenumberedBy
  <2>. QED  BY <2>1, <2>2, RenumberedBy
<1>2. ASSUME NEW a \in Paths, NEW b \in Paths, Follows(p, a), ~Follows(p, b),
             Len(a) = Len(b), \A m \in 1..Len(a) : m # n => a[m] = b[m],
             Renumbered(p, a) = Renumbered(p, b)
      PROVE  IsAtOrBeneath(b, p)
  <2>1. /\ n \in 1..Len(a) /\ \A m \in 1..(n - 1) : a[m] = p[m]
        /\ IsItem(p[n]) /\ IsItem(a[n]) /\ a[n].item > p[n].item
        /\ a[n].item \in Nat /\ a[n].item > 0
        /\ b[n] = IndexSegment(a[n].item - 1)
    BY <1>2, FollowsBy, RenumberedBy
  <2>2. IsItem(b[n]) /\ b[n].item = a[n].item - 1
    BY <2>1, IndexSegments
  <2>3. \A m \in 1..(n - 1) : b[m] = p[m]
    <3>. SUFFICES ASSUME NEW m \in 1..(n - 1) PROVE b[m] = p[m]
      OBVIOUS
    <3>1. m \in 1..Len(a) /\ m # n
      BY <1>1, <2>1
    <3>. QED  BY <1>2, <2>1, <3>1
  <2>4. Len(b) >= n /\ Len(b) \in Nat
    BY <1>1, <1>2, <2>1 DEF Paths
  <2>5. ~(b[n].item > p[n].item)
    BY <1>2, <2>1, <2>2, <2>3, <2>4, FollowsBy
  <2>6. p[n].item \in Nat /\ p[n] = IndexSegment(p[n].item)
    <3>1. p[n] \in Segments
      BY <1>1 DEF Paths
    <3>. QED  BY <2>1, <3>1, SegmentKinds
  <2>7. b[n] = p[n]
    <3>1. a[n].item - 1 = p[n].item
      BY <2>1, <2>2, <2>5, <2>6
    <3>. QED  BY <2>1, <2>6, <3>1
  <2>. QED  BY <1>1, <2>3, <2>4, <2>7 DEF IsAtOrBeneath
<1>3. CASE Follows(p, q) <=> Follows(p, r)
  <2>1. ASSUME n \in 1..Len(q), Follows(p, q) PROVE q[n] = r[n]
    <3>1. /\ q[n].item \in Nat /\ r[n].item \in Nat /\ q[n].item > 0 /\ r[n].item > 0
          /\ IndexSegment(q[n].item - 1) = IndexSegment(r[n].item - 1)
      BY <1>3, <2>1, RenumberedBy
    <3>2. q[n].item = r[n].item
      <4>1. q[n].item - 1 = r[n].item - 1
        BY <3>1, IndexSegments
      <4>. QED  BY <3>1, <4>1
    <3>3. q[n] \in Segments /\ r[n] \in Segments /\ IsItem(q[n]) /\ IsItem(r[n])
      BY <1>1, <1>3, <2>1, FollowsBy DEF Paths
    <3>. QED  BY <3>2, <3>3, SegmentKinds
  <2>2. CASE Follows(p, q)
    <3>1. n \in 1..Len(q)
      BY <2>2, RenumberedBy
    <3>. QED  BY <1>1, <2>1, <2>2, <3>1, SameSequence DEF Paths
  <2>3. CASE ~Follows(p, q)
    BY <1>3, <2>3, RenumberedBy
  <2>. QED  BY <2>2, <2>3
<1>. QED  BY <1>1, <1>2, <1>3

LEMMA RenumberedBeneath ==
    ASSUME NEW p \in Paths \ {<<>>}, NEW q \in Paths, NEW r \in Paths,
           ~IsAtOrBeneath(q, p), ~IsAtOrBeneath(r, p)
    PROVE  IsAtOrBeneath(Renumbered(p, q), Renumbered(p, r)) <=> IsAtOrBeneath(q, r)
<1>1. /\ Renumbered(p, q) \in Paths /\ Renumbered(p, r) \in Paths
      /\ Len(Renumbered(p, q)) = Len(q) /\ Len(Renumbered(p, r)) = Len(r)
      /\ Len(q) \in Nat /\ Len(r) \in Nat
  <2>1. Len(q) \in Nat /\ Len(r) \in Nat
    BY DEF Paths
  <2>. QED  BY <2>1, RenumberedBy
<1>2. ASSUME Len(r) <= Len(q)
      PROVE  (Renumbered(p, r) = SubSeq(Renumbered(p, q), 1, Len(r)))
               <=> (r = SubSeq(q, 1, Len(r)))
  <2>. DEFINE o == SubSeq(q, 1, Len(r))
  <2>1. Len(r) \in 0..Len(q)
    BY <1>1, <1>2
  <2>2. o \in Paths /\ IsAtOrBeneath(q, o)
    BY <2>1, Start, BeneathStart DEF Paths
  <2>3. ~IsAtOrBeneath(o, p)
    <3>. HIDE DEF o
    <3>. QED  BY <2>2, BeneathOrder DEF Paths
  <2>4. Renumbered(p, o) = SubSeq(Renumbered(p, q), 1, Len(r))
    BY <2>1, RenumberedStart
  <2>. HIDE DEF o
  <2>5. Renumbered(p, r) = Renumbered(p, o) => r = o
    BY <2>2, <2>3, RenumberedApart
  <2>. QED  BY <2>4, <2>5 DEF o
<1>. QED  BY <1>1, <1>2, BeneathIsExtension DEF Paths

(* The items beside a removed one, and those of other arrays.              *)
LEMMA RenumberedSibling ==
    ASSUME NEW p \in Paths \ {<<>>}, IsItem(Last(p)), NEW i \in Nat
    PROVE  LET b == Append(Front(p), IndexSegment(i)) IN
           /\ Last(p).item \in Nat /\ p = Append(Front(p), IndexSegment(Last(p).item))
           /\ IsAtOrBeneath(b, p) <=> i = Last(p).item
           /\ i > Last(p).item => Renumbered(p, b) = Append(Front(p), IndexSegment(i - 1))
           /\ i < Last(p).item => Renumbered(p, b) = b
<1>. DEFINE n == Len(p)
            o == Front(p)
            k == Last(p).item
            b == Append(o, IndexSegment(i))
<1>1. /\ n \in Nat /\ n > 0 /\ o \in Paths /\ Len(o) = n - 1 /\ Last(p) \in Segments
      /\ Last(p) = p[n] /\ p = Append(o, Last(p)) /\ \A m \in 1..(n - 1) : o[m] = p[m]
  BY FrontLast DEF Paths
<1>2. k \in Nat /\ Last(p) = IndexSegment(k)
  BY <1>1, SegmentKinds
<1>3. /\ b \in Paths \ {<<>>} /\ Len(b) = n /\ Front(b) = o /\ b[n] = IndexSegment(i)
      /\ \A m \in 1..(n - 1) : b[m] = p[m]
  <2>1. b \in Paths \ {<<>>} /\ Len(b) = n /\ Front(b) = o /\ Last(b) = IndexSegment(i)
    BY <1>1, IndexSegments, Appended DEF Paths
  <2>2. b[n] = IndexSegment(i)
    BY <2>1 DEF Last
  <2>. HIDE DEF b, o
  <2>3. \A m \in 1..(n - 1) : Front(b)[m] = b[m]
    BY <2>1, FrontLast DEF Paths
  <2>. QED  BY <1>1, <2>1, <2>2, <2>3
<1>. HIDE DEF b
<1>4. b[n].item = i /\ IsItem(b[n])
  BY <1>3, IndexSegments
<1>5. Follows(p, b) <=> i > k
  BY <1>1, <1>3, <1>4, FollowsBy
<1>6. IsAtOrBeneath(b, p) <=> i = k
  <2>1. IsAtOrBeneath(b, p) <=> b = p
    BY <1>1, <1>3, BeneathOrder DEF Paths
  <2>2. b = p <=> i = k
    BY <1>1, <1>2, <1>4 DEF b
  <2>. QED  BY <2>1, <2>2
<1>7. ASSUME i > k PROVE Renumbered(p, b) = Append(o, IndexSegment(i - 1))
  <2>. DEFINE r == Renumbered(p, b)
  <2>1. r \in Paths \ {<<>>} /\ Len(r) = n /\ r[n] = IndexSegment(i - 1)
    BY <1>3, <1>4, <1>5, <1>7, RenumberedBy, RenumberedFront
  <2>2. Front(r) = Renumbered(p, o)
    BY <1>3, RenumberedFront
  <2>3. Renumbered(p, o) = o
    <3>1. ~Follows(p, o)
      BY <1>1, FollowsBy
    <3>. QED  BY <1>1, <3>1, RenumberedBy
  <2>4. r = Append(Front(r), Last(r)) /\ Last(r) = r[n]
    <3>. HIDE DEF r
    <3>. QED  BY <2>1, FrontLast DEF Paths
  <2>. QED  BY <2>1, <2>2, <2>3, <2>4
<1>8. ASSUME i < k PROVE Renumbered(p, b) = b
  <2>1. ~(i > k)
    BY <1>2, <1>8
  <2>. QED  BY <1>3, <1>5, <2>1, RenumberedBy
<1>. QED  BY <1>1, <1>2, <1>6, <1>7, <1>8 DEF b

LEMMA RenumberedChild ==
    ASSUME NEW p \in Paths \ {<<>>}, NEW o \in Paths, NEW s \in Segments,
           ~(IsItem(Last(p)) /\ IsItem(s) /\ o = Front(p))
    PROVE  Renumbered(p, Append(o, s)) = Append(Renumbered(p, o), s)
<1>. DEFINE n == Len(p)
            b == Append(o, s)
            r == Renumbered(p, b)
<1>1. b \in Paths \ {<<>>} /\ Len(b) = Len(o) + 1 /\ Front(b) = o /\ Last(b) = s
  BY Appended DEF Paths
<1>. HIDE DEF b
<1>2. r \in Paths \ {<<>>} /\ Front(r) = Renumbered(p, o) /\ Len(r) = Len(b)
  BY <1>1, RenumberedBy, RenumberedFront
<1>3. Last(r) = s
  <2>1. CASE Len(b) # n \/ ~IsItem(s)
    BY <1>1, <2>1, RenumberedFront
  <2>2. CASE ~Follows(p, b)
    BY <1>1, <2>2, RenumberedBy
  <2>3. CASE Len(b) = n /\ IsItem(s) /\ Follows(p, b)
    <3>1. /\ Front(p) \in Paths /\ Len(Front(p)) = n - 1 /\ Last(p) = p[n] /\ n \in Nat
          /\ \A m \in 1..(n - 1) : Front(p)[m] = p[m]
      BY FrontLast DEF Paths
    <3>2. Len(o) = n - 1 /\ \A m \in 1..(n - 1) : o[m] = b[m]
      BY <1>1, <2>3, <3>1, FrontLast DEF Paths
    <3>3. IsItem(p[n]) /\ \A m \in 1..(n - 1) : b[m] = p[m]
      BY <1>1, <2>3, FollowsBy
    <3>4. o = Front(p)
      BY <3>1, <3>2, <3>3, SameSequence DEF Paths
    <3>. QED  BY <2>3, <3>1, <3>3, <3>4
  <2>. QED  BY <2>1, <2>2, <2>3
<1>4. r = Append(Front(r), Last(r))
  <2>. HIDE DEF r
  <2>. QED  BY <1>2, FrontLast DEF Paths
<1>. QED  BY <1>2, <1>3, <1>4 DEF b

LEMMA ChildBeneath ==
    ASSUME NEW p \in Paths, NEW o \in Paths, NEW s \in Segments
    PROVE  IsAtOrBeneath(Append(o, s), p) <=> p = Append(o, s) \/ IsAtOrBeneath(o, p)
<1>1. Append(o, s) \in Paths \ {<<>>} /\ Front(Append(o, s)) = o
  BY Appended DEF Paths
<1>. QED  BY <1>1, BeneathFront DEF Paths

LEMMA RenumberedElsewhere ==
    ASSUME NEW p \in Paths \ {<<>>}, NEW o \in Paths, ~(IsItem(Last(p)) /\ o = Front(p)),
           NEW i \in Nat
    PROVE  LET b == Append(o, IndexSegment(i)) IN
           /\ IsAtOrBeneath(b, p) <=> IsAtOrBeneath(o, p)
           /\ Renumbered(p, b) = Append(Renumbered(p, o), IndexSegment(i))
<1>1. p # Append(o, IndexSegment(i))
  <2>1. /\ Front(Append(o, IndexSegment(i))) = o
        /\ Last(Append(o, IndexSegment(i))) = IndexSegment(i)
    BY IndexSegments, Appended DEF Paths
  <2>. QED  BY <2>1, IndexSegments
<1>. QED  BY <1>1, IndexSegments, ChildBeneath, RenumberedChild

(* What a removal of p keeps, and where it then is.                        *)
Kept(d, p) == {q \in DOMAIN d : ~IsAtOrBeneath(q, p)}
Moved(d, p) == {Renumbered(p, q) : q \in Kept(d, p)}

LEMMA MovedFacts ==
    ASSUME NEW v, NEW d, IsDraft(v, d), NEW p \in DOMAIN d
    PROVE  /\ p \in Paths \ {<<>>} /\ Kept(d, p) \subseteq Paths \ {<<>>}
           /\ Moved(d, p) \subseteq Paths \ {<<>>}
           /\ \A r \in Moved(d, p) : \A s \in Paths \ {<<>>} :
                IsAtOrBeneath(r, s) => s \in Moved(d, p)
           /\ \A a \in Along(Front(p)) : /\ a \in Kept(d, p) /\ a \in Moved(d, p)
                                         /\ a \in Paths \ {<<>>}
                                         /\ Renumbered(p, a) = a
           /\ Hollow(p, Moved(d, p)) \subseteq Along(Front(p))
           /\ \A a \in Hollow(p, Moved(d, p)) : IsField(Last(a))
<1>1. p \in Paths \ {<<>>} /\ Kept(d, p) \subseteq Paths \ {<<>>}
  BY DEF IsDraft, Kept
<1>2. Moved(d, p) \subseteq Paths \ {<<>>}
  BY <1>1, RenumberedBy, RenumberedFront DEF Moved
<1>3. ASSUME NEW r \in Moved(d, p), NEW s \in Paths \ {<<>>}, IsAtOrBeneath(r, s)
      PROVE  s \in Moved(d, p)
  <2>1. PICK q \in Kept(d, p) : r = Renumbered(p, q)
    BY DEF Moved
  <2>2. q \in Paths \ {<<>>} /\ q \in DOMAIN d /\ ~IsAtOrBeneath(q, p)
    BY <1>1 DEF Kept
  <2>3. r \in Paths /\ Len(r) = Len(q) /\ Len(s) \in Nat
    BY <1>1, <2>1, <2>2, RenumberedBy DEF Paths
  <2>4. Len(s) \in 0..Len(q) /\ s = SubSeq(r, 1, Len(s)) /\ Len(s) # 0
    BY <1>3, <2>3, BeneathIsExtension DEF Paths
  <2>. DEFINE o == SubSeq(q, 1, Len(s))
  <2>5. o \in Paths \ {<<>>} /\ IsAtOrBeneath(q, o)
    BY <2>2, <2>4, Start, BeneathStart DEF Paths
  <2>6. s = Renumbered(p, o)
    BY <1>1, <2>1, <2>2, <2>4, RenumberedStart
  <2>. HIDE DEF o
  <2>7. o \in DOMAIN d
    BY <2>2, <2>5, DraftAbove
  <2>8. ~IsAtOrBeneath(o, p)
    BY <1>1, <2>2, <2>5, BeneathOrder DEF Paths
  <2>. QED  BY <2>6, <2>7, <2>8 DEF Kept, Moved
<1>4. ASSUME NEW a \in Along(Front(p))
      PROVE  /\ a \in Kept(d, p) /\ a \in Moved(d, p) /\ a \in Paths \ {<<>>}
             /\ Renumbered(p, a) = a
  <2>1. /\ Front(p) \in Paths /\ Len(Front(p)) = Len(p) - 1 /\ Len(p) \in Nat
        /\ IsAtOrBeneath(p, Front(p))
    BY <1>1, FrontLast, BeneathFront DEF Paths
  <2>2. a \in Paths \ {<<>>} /\ IsAtOrBeneath(Front(p), a) /\ Len(a) \in 1..Len(Front(p))
    BY <2>1, AlongPosition
  <2>3. IsAtOrBeneath(p, a)
    BY <1>1, <2>1, <2>2, BeneathOrder DEF Paths
  <2>4. a \in DOMAIN d
    BY <2>2, <2>3, DraftAbove
  <2>5. ~IsAtOrBeneath(a, p)
    BY <2>1, <2>2 DEF IsAtOrBeneath
  <2>6. ~Follows(p, a)
    BY <1>1, <2>1, <2>2, FollowsBy
  <2>7. Renumbered(p, a) = a
    BY <1>1, <2>2, <2>6, RenumberedBy
  <2>. QED  BY <2>2, <2>4, <2>5, <2>7 DEF Kept, Moved
<1>5. Hollow(p, Moved(d, p)) \subseteq Along(Front(p))
  BY DEF Hollow
<1>6. ASSUME NEW a \in Hollow(p, Moved(d, p)) PROVE IsField(Last(a))
  BY <1>4, <1>5, BeneathOrder DEF Hollow, Paths
<1>. QED  BY <1>1, <1>2, <1>3, <1>4, <1>5, <1>6

LEMMA UnsetBy ==
    ASSUME NEW v, NEW d, IsDraft(v, d), NEW p \in DOMAIN d
    PROVE  /\ DOMAIN Unset(d, p) = Moved(d, p) \ Hollow(p, Moved(d, p))
           /\ \A q \in Kept(d, p) : Renumbered(p, q) \in DOMAIN Unset(d, p) =>
                Unset(d, p)[Renumbered(p, q)] = d[q]
           /\ \A r \in DOMAIN Unset(d, p) : \E q \in Kept(d, p) : r = Renumbered(p, q)
<1>1. Unset(d, p) = [q \in Moved(d, p) \ Hollow(p, Moved(d, p)) |->
                       d[CHOOSE o \in Kept(d, p) : Renumbered(p, o) = q]]
  BY DEF Unset, Moved, Kept
<1>2. ASSUME NEW q \in Kept(d, p)
      PROVE  (CHOOSE o \in Kept(d, p) : Renumbered(p, o) = Renumbered(p, q)) = q
  <2>1. PICK o \in Kept(d, p) :
          /\ Renumbered(p, o) = Renumbered(p, q)
          /\ o = CHOOSE x \in Kept(d, p) : Renumbered(p, x) = Renumbered(p, q)
    OBVIOUS
  <2>2. o = q
    BY <2>1, MovedFacts, RenumberedApart DEF Kept
  <2>. QED  BY <2>1, <2>2
<1>. QED  BY <1>1, <1>2 DEF Moved

LEMMA LeftByUnset ==
    ASSUME NEW v, NEW d, IsDraft(v, d), NEW p \in DOMAIN d
    PROVE  \A q \in DOMAIN Unset(d, p) : \E o \in Kept(d, p) : q = Renumbered(p, o)
BY UnsetBy

(* An item or a key that is not beneath what is removed stays.             *)
LEMMA EntriesStay ==
    ASSUME NEW v, NEW d, IsDraft(v, d), NEW p \in DOMAIN d, NEW q \in Kept(d, p),
           ~IsField(Last(q))
    PROVE  Renumbered(p, q) \in DOMAIN Unset(d, p)
<1>1. p \in Paths \ {<<>>} /\ q \in Paths \ {<<>>} /\ Renumbered(p, q) \in Moved(d, p)
  BY MovedFacts DEF Moved
<1>2. ~IsField(Last(Renumbered(p, q)))
  BY <1>1, RenumberedFront
<1>3. Renumbered(p, q) \notin Hollow(p, Moved(d, p))
  BY <1>2, MovedFacts
<1>. QED  BY <1>1, <1>3, UnsetBy

(* Where a removed position was the last that a field held something for,  *)
(* the field goes; what is left fits the Type Schema (remove, deleteChild). *)
LEMMA UnsetIsWellFormed ==
    ASSUME NEW v \in Versions, NEW d, WellFormed(v, d), NEW p \in DOMAIN d
    PROVE  WellFormed(v, Unset(d, p))
<1>. DEFINE K == Kept(d, p)
            M == Moved(d, p)
            H == Hollow(p, M)
            u == Unset(d, p)
<1>1. IsDraft(v, d) /\ Dense(d) /\ NoHollowField(d)
  BY DEF WellFormed
<1>2. /\ DOMAIN u = M \ H
      /\ \A q \in K : Renumbered(p, q) \in DOMAIN u => u[Renumbered(p, q)] = d[q]
      /\ \A r \in DOMAIN u : \E q \in K : r = Renumbered(p, q)
  BY <1>1, UnsetBy
<1>3. /\ p \in Paths \ {<<>>} /\ K \subseteq Paths \ {<<>>} /\ M \subseteq Paths \ {<<>>}
      /\ \A r \in M : \A s \in Paths \ {<<>>} : IsAtOrBeneath(r, s) => s \in M
      /\ \A a \in Along(Front(p)) : /\ a \in K /\ a \in M /\ a \in Paths \ {<<>>}
                                    /\ Renumbered(p, a) = a
      /\ H \subseteq Along(Front(p))
      /\ \A a \in H : IsField(Last(a))
  BY <1>1, MovedFacts
<1>4. \A q \in K : q \in DOMAIN d /\ ~IsAtOrBeneath(q, p) /\ Renumbered(p, q) \in M
  BY DEF Kept, Moved
<1>5. \A a \in Along(Front(p)) : a \in H <=>
        \A q \in M : IsAtOrBeneath(q, a) => q \in Along(Front(p)) /\ IsField(Last(q))
  BY DEF Hollow
<1>6. u = [r \in DOMAIN u |-> u[r]]
  BY DEF Unset
<1>. HIDE DEF K, M, H, u
<1>7. IsFiniteSet(DOMAIN u)
  <2>. DEFINE f == [q \in K |-> Renumbered(p, q)]
  <2>1. f \in Surjection(K, M)
    <3>1. f \in [K -> M] /\ \A r \in M : \E q \in K : f[q] = r
      BY <1>4 DEF M, Moved, K
    <3>. HIDE DEF f
    <3>. QED  BY <3>1 DEF Surjection
  <2>2. IsFiniteSet(K)
    <3>1. K \in SUBSET DOMAIN d /\ IsFiniteSet(DOMAIN d)
      BY <1>1, <1>4 DEF IsDraft
    <3>. QED  BY <3>1, FS_Subset
  <2>3. IsFiniteSet(M)
    <3>. HIDE DEF f
    <3>. QED  BY <2>1, <2>2, FS_Surjection
  <2>4. DOMAIN u \in SUBSET M
    BY <1>2
  <2>. QED  BY <2>3, <2>4, FS_Subset
<1>8. u \in [DOMAIN u -> Values \cup {Null}]
  <2>1. \A r \in DOMAIN u : u[r] \in Values \cup {Null}
    BY <1>1, <1>2, <1>4 DEF IsDraft
  <2>. QED  BY <1>6, <2>1
<1>9. ASSUME NEW r \in DOMAIN u
      PROVE  /\ Resolves(v, r) /\ Along(r) \subseteq DOMAIN u
             /\ u[r] = Null \/ (u[r].type = TypeAt(v, r) /\ u[r].data \in Fitting(v, r))
  <2>1. PICK q \in K : r = Renumbered(p, q)
    BY <1>2
  <2>2. /\ Resolves(v, q) /\ u[r] = d[q]
        /\ d[q] = Null \/ (d[q].type = TypeAt(v, q) /\ d[q].data \in Fitting(v, q))
    BY <1>1, <1>2, <1>4, <2>1 DEF IsDraft
  <2>3. SchemaPath(r) = SchemaPath(q)
    BY <1>3, <2>1, RenumberedKinds
  <2>4. Along(r) \subseteq DOMAIN u
    <3>. SUFFICES ASSUME NEW s \in Along(r) PROVE s \in M \ H
      BY <1>2
    <3>1. r \in M /\ r \in Paths \ {<<>>}
      BY <1>2, <1>3
    <3>2. s \in Paths \ {<<>>} /\ IsAtOrBeneath(r, s)
      BY <3>1, AlongPosition
    <3>3. s \in M
      BY <1>3, <3>1, <3>2
    <3>4. ASSUME s \in H PROVE r \in H
      <4>1. r \in Along(Front(p)) /\ s \in Along(Front(p))
        BY <1>3, <1>5, <3>1, <3>2, <3>4
      <4>2. ASSUME NEW q1 \in M, IsAtOrBeneath(q1, r)
            PROVE  q1 \in Along(Front(p)) /\ IsField(Last(q1))
        <5>1. IsAtOrBeneath(q1, s)
          BY <1>3, <3>1, <3>2, <4>2, BeneathOrder DEF Paths
        <5>. QED  BY <1>5, <3>4, <4>1, <5>1
      <4>. QED  BY <1>5, <4>1, <4>2
    <3>. QED  BY <1>2, <3>3, <3>4
  <2>. QED  BY <2>2, <2>3, <2>4 DEF Resolves, TypeAt, Fitting
<1>10. IsDraft(v, u)
  <2>1. DOMAIN u \subseteq Paths \ {<<>>}
    BY <1>2, <1>3
  <2>. QED  BY <1>7, <1>8, <1>9, <2>1 DEF IsDraft
<1>11. Dense(u)
  <2>. SUFFICES ASSUME NEW r \in DOMAIN u, IsItem(Last(r)), Last(r).item > 0
                PROVE  Append(Front(r), IndexSegment(Last(r).item - 1)) \in DOMAIN u
    BY DEF Dense
  <2>1. PICK q \in K : r = Renumbered(p, q)
    BY <1>2
  <2>. DEFINE o == Front(q)
              i == Last(q).item
              k == Last(p).item
              item(j) == Append(o, IndexSegment(j))
  <2>2. q \in Paths \ {<<>>} /\ q \in DOMAIN d /\ ~IsAtOrBeneath(q, p) /\ IsItem(Last(q))
    BY <1>3, <1>4, <2>1, RenumberedFront
  <2>3. o \in Paths /\ i \in Nat /\ q = item(i)
    <3>1. o \in Paths /\ Last(q) \in Segments /\ q = Append(o, Last(q))
      BY <2>2, FrontLast DEF Paths
    <3>. QED  BY <2>2, <3>1, SegmentKinds
  <2>4. ASSUME NEW a \in Paths, NEW j \in Nat
        PROVE  /\ Last(Append(a, IndexSegment(j))).item = j
               /\ Front(Append(a, IndexSegment(j))) = a
               /\ ~IsField(Last(Append(a, IndexSegment(j))))
    BY IndexSegments, Appended DEF Paths
  <2>5. \A j \in Nat : j < i => item(j) \in DOMAIN d
    <3>. DEFINE count == ItemCount(d, o)
    <3>1. count \in Nat /\ \A j \in Nat : item(j) \in DOMAIN d <=> j < count
      BY <1>1, <2>3, HeldItems DEF IsDraft
    <3>2. i < count
      BY <2>2, <2>3, <3>1
    <3>. HIDE DEF item, count
    <3>. QED  BY <2>3, <3>1, <3>2
  <2>6. \A j \in Nat : j < i /\ ~IsAtOrBeneath(item(j), p) => Renumbered(p, item(j)) \in DOMAIN u
    BY <1>1, <2>3, <2>4, <2>5, EntriesStay DEF Kept, u
  <2>7. CASE IsItem(Last(p)) /\ o = Front(p)
    <3>1. /\ k \in Nat
          /\ \A j \in Nat : /\ IsAtOrBeneath(item(j), p) <=> j = k
                            /\ j > k => Renumbered(p, item(j)) = item(j - 1)
                            /\ j < k => Renumbered(p, item(j)) = item(j)
      BY <1>3, <2>7, RenumberedSibling
    <3>. HIDE DEF item, o, k, i
    <3>2. i # k
      BY <2>2, <2>3, <3>1
    <3>3. CASE i > k
      <4>1. r = item(i - 1) /\ i - 1 \in Nat
        BY <2>1, <2>3, <3>1, <3>3
      <4>2. Last(r).item = i - 1 /\ Front(r) = o
        BY <2>3, <2>4, <4>1 DEF item
      <4>3. i - 1 > 0 /\ i - 2 \in Nat /\ (i - 1) - 1 = i - 2
        BY <2>3, <4>1, <4>2
      <4>4. item(i - 2) \in DOMAIN u
        <5>1. CASE i - 1 > k
          <6>1. i - 1 < i /\ i - 1 # k
            BY <2>3, <3>1, <5>1
          <6>2. Renumbered(p, item(i - 1)) \in DOMAIN u
            BY <2>6, <3>1, <4>1, <6>1
          <6>. QED  BY <3>1, <4>1, <4>3, <5>1, <6>2
        <5>2. CASE i - 1 = k
          <6>1. i - 2 < k /\ i - 2 < i /\ i - 2 # k
            BY <2>3, <5>2
          <6>. QED  BY <2>6, <3>1, <4>3, <6>1
        <5>. QED  BY <2>3, <3>1, <3>3, <5>1, <5>2
      <4>. QED  BY <4>2, <4>3, <4>4 DEF item
    <3>4. CASE i < k
      <4>1. r = item(i)
        BY <2>1, <2>3, <3>1, <3>4
      <4>2. Last(r).item = i /\ Front(r) = o
        BY <2>3, <2>4, <4>1 DEF item
      <4>3. i - 1 \in Nat /\ i - 1 < k /\ i - 1 < i /\ i - 1 # k
        BY <2>3, <3>1, <3>4, <4>2
      <4>. QED  BY <2>6, <3>1, <4>2, <4>3 DEF item
    <3>. QED  BY <2>3, <3>1, <3>2, <3>3, <3>4
  <2>8. CASE ~(IsItem(Last(p)) /\ o = Front(p))
    <3>1. \A j \in Nat : /\ IsAtOrBeneath(item(j), p) <=> IsAtOrBeneath(o, p)
                         /\ Renumbered(p, item(j)) = Append(Renumbered(p, o), IndexSegment(j))
      BY <1>3, <2>3, <2>8, RenumberedElsewhere
    <3>2. r = Append(Renumbered(p, o), IndexSegment(i)) /\ ~IsAtOrBeneath(o, p)
      BY <2>1, <2>2, <2>3, <3>1
    <3>3. Last(r).item = i /\ Front(r) = Renumbered(p, o)
      BY <1>3, <2>3, <2>4, <3>2, RenumberedBy
    <3>4. i - 1 \in Nat /\ i - 1 < i
      BY <2>3, <3>3
    <3>. QED  BY <2>6, <3>1, <3>2, <3>3, <3>4
  <2>. QED  BY <2>7, <2>8
<1>12. NoHollowField(u)
  <2>. SUFFICES ASSUME NEW r \in EmptyEntries(u), IsField(Last(r)) PROVE FALSE
    BY DEF NoHollowField
  <2>1. r \in DOMAIN u /\ u[r] = Null /\ ChildrenOf(u, r) = {}
    BY DEF EmptyEntries, Instantiated
  <2>2. PICK q \in K : r = Renumbered(p, q)
    BY <1>2, <2>1
  <2>3. q \in DOMAIN d /\ d[q] = Null /\ q \in Paths \ {<<>>} /\ ~IsAtOrBeneath(q, p)
    BY <1>2, <1>3, <1>4, <2>1, <2>2
  <2>4. IsField(Last(q)) /\ r \in M /\ r \in Paths \ {<<>>} /\ r \notin H
    BY <1>2, <1>3, <2>1, <2>2, <2>3, RenumberedFront
  <2>5. PICK c \in DOMAIN d : Front(c) = q
    <3>1. q \notin Instantiated(d)
      BY <1>1, <2>3, <2>4 DEF NoHollowField, EmptyEntries
    <3>2. ChildrenOf(d, q) # {}
      BY <2>3, <3>1 DEF Instantiated
    <3>. QED  BY <1>1, <2>3, <3>2, DraftChildren DEF IsDraft
  <2>6. c \in Paths \ {<<>>} /\ IsAtOrBeneath(c, q)
    BY <1>1, <2>5, BeneathFront DEF IsDraft, Paths
  <2>7. \A e \in M : Front(e) = r => e \in H
    <3>1. ChildrenOf(u, r) = {e \in DOMAIN u : Front(e) = r}
      BY <1>2, <1>3, <2>4, DraftChildren
    <3>. QED  BY <1>2, <2>1, <3>1
  <2>8. r \in Along(Front(p))
    <3>1. CASE IsAtOrBeneath(c, p)
      <4>1. c = p
        BY <1>3, <2>3, <2>5, <2>6, <3>1, BeneathFront DEF Paths
      <4>2. q \in Along(Front(p))
        BY <2>3, <2>5, <4>1, AlongIsStarts DEF Paths
      <4>. QED  BY <1>3, <2>2, <4>2
    <3>2. CASE ~IsAtOrBeneath(c, p)
      <4>1. c \in K
        BY <3>2 DEF K, Kept
      <4>. DEFINE e == Renumbered(p, c)
      <4>2. e \in M /\ e \in Paths \ {<<>>} /\ Front(e) = r
        BY <1>3, <1>4, <2>2, <2>5, <2>6, <4>1, RenumberedFront
      <4>3. e \in Along(Front(p)) /\ Front(p) \in Paths
        BY <1>3, <2>7, <4>2, FrontLast DEF Paths
      <4>. HIDE DEF e
      <4>4. IsAtOrBeneath(e, r)
        BY <4>2, BeneathFront DEF Paths
      <4>5. IsAtOrBeneath(Front(p), e)
        BY <4>3, AlongPosition
      <4>6. IsAtOrBeneath(Front(p), r)
        BY <2>4, <4>2, <4>3, <4>4, <4>5, BeneathOrder DEF Paths
      <4>. QED  BY <2>4, <4>3, <4>6, AlongIsStarts DEF Paths
    <3>. QED  BY <3>1, <3>2
  <2>9. ASSUME NEW s \in M, IsAtOrBeneath(s, r) PROVE s \in Along(Front(p)) /\ IsField(Last(s))
    <3>1. CASE s = r
      BY <2>4, <2>8, <3>1
    <3>2. CASE s # r
      <4>1. s \in Paths \ {<<>>} /\ Len(s) \in Nat /\ Len(r) \in Nat
        BY <1>3, <2>4 DEF Paths
      <4>2. Len(r) < Len(s)
        <5>1. Len(r) <= Len(s)
          BY <2>9 DEF IsAtOrBeneath
        <5>2. Len(r) # Len(s)
          BY <2>4, <2>9, <3>2, <4>1, BeneathOrder DEF Paths
        <5>. QED  BY <4>1, <5>1, <5>2
      <4>. DEFINE e == SubSeq(s, 1, Len(r) + 1)
      <4>3. Len(r) + 1 \in 0..Len(s) /\ Len(r) + 1 # 0
        BY <4>1, <4>2
      <4>4. e \in Paths \ {<<>>} /\ Len(e) = Len(r) + 1 /\ IsAtOrBeneath(s, e)
        BY <4>1, <4>3, Start, BeneathStart DEF Paths
      <4>. HIDE DEF e
      <4>5. IsAtOrBeneath(e, r)
        <5>1. Len(r) <= Len(e)
          BY <4>1, <4>4
        <5>. QED  BY <2>4, <2>9, <4>1, <4>4, <5>1, BeneathOrder DEF Paths
      <4>6. Front(e) = r
        BY <2>4, <4>4, <4>5, ChildIsAppended DEF Paths
      <4>7. e \in M
        BY <1>3, <4>4
      <4>8. e \in H
        BY <2>7, <4>6, <4>7
      <4>. QED  BY <1>3, <1>5, <4>4, <4>8
    <3>. QED  BY <3>1, <3>2
  <2>. QED  BY <1>5, <2>4, <2>8, <2>9
<1>. QED  BY <1>10, <1>11, <1>12 DEF WellFormed, u

-----------------------------------------------------------------------------
(* Carry-over.                                                             *)

(* A filled value sits at a position that has nothing beneath it.          *)
LEMMA FilledIsLeaf ==
    ASSUME NEW v \in Versions, NEW d, IsDraft(v, d), NEW p \in FilledPaths(d)
    PROVE  /\ p \in DOMAIN d /\ p \in Paths \ {<<>>} /\ Resolves(v, p)
           /\ d[p] \in Values /\ d[p].type = TypeAt(v, p) /\ d[p].data \in Data
           /\ Flavor[d[p].data] \in Spellings(TypeAt(v, p))
           /\ TypeAt(v, p) \notin Structures
           /\ \A q \in DOMAIN d : IsAtOrBeneath(q, p) => q = p
<1>1. /\ p \in DOMAIN d /\ p \in Paths \ {<<>>} /\ Resolves(v, p)
      /\ d[p] \in Values /\ d[p].type = TypeAt(v, p) /\ d[p].data \in Fitting(v, p)
  BY DEF FilledPaths, IsDraft
<1>2. d[p].data \in Data /\ Flavor[d[p].data] \in Spellings(TypeAt(v, p))
  BY <1>1 DEF Fitting
<1>3. TypeAt(v, p) \notin Structures
  BY <1>2 DEF Spellings, Structures
<1>4. ASSUME NEW q \in DOMAIN d, IsAtOrBeneath(q, p) PROVE q = p
  <2>1. q \in Paths /\ Resolves(v, q)
    BY DEF IsDraft
  <2>. QED  BY <1>1, <1>3, <1>4, <2>1, AboveResolves
<1>. QED  BY <1>1, <1>2, <1>3, <1>4

(* What carries fits the display type it carries to.                       *)
LEMMA CarriedFits ==
    ASSUME NEW v \in Versions, NEW target \in Versions, NEW d, IsDraft(v, d),
           NEW p \in FilledPaths(d), Carries(d, target, p)
    PROVE  /\ [d[p] EXCEPT !.type = TypeAt(target, p)] \in Values
           /\ d[p].data \in Fitting(target, p)
<1>1. /\ p \in Paths \ {<<>>}
      /\ d[p] \in Values /\ d[p].type = TypeAt(v, p) /\ d[p].data \in Data
      /\ Flavor[d[p].data] \in Spellings(TypeAt(v, p))
  BY FilledIsLeaf
<1>2. TypeAt(target, p) \in Types
  BY TreeFacts DEF Carries, Resolves, TypeAt
<1>3. Flavor[d[p].data] \in Flavors
  BY <1>1, DraftAssumption
<1>4. Flavor[d[p].data] \in Spellings(TypeAt(target, p))
  <2>1. TypeCarries(d[p], TypeAt(target, p))
    BY DEF Carries
  <2>. QED  BY <1>1, <1>3, <2>1 DEF TypeCarries, Spellings, Flavors
<1>. QED  BY <1>1, <1>2, <1>4 DEF Fitting, Values

LEMMA CarryOverBy ==
    ASSUME NEW v \in Versions, NEW target \in Versions, NEW d, WellFormed(v, d)
    PROVE  LET C == CarriedEntries(d, target)
               c == CarryOver(d, target)
           IN  /\ C \subseteq DOMAIN d /\ \A p \in C : Resolves(target, p)
               /\ DOMAIN c = UNION {Along(p) : p \in C} /\ C \subseteq DOMAIN c
               /\ DOMAIN c \subseteq DOMAIN d
               /\ \A q \in DOMAIN c :
                    c[q] = IF d[q] # Null /\ q \in C /\ Carries(d, target, q)
                           THEN [d[q] EXCEPT !.type = TypeAt(target, q)]
                           ELSE Null
<1>. DEFINE C == CarriedEntries(d, target)
            c == CarryOver(d, target)
<1>1. IsDraft(v, d)
  BY DEF WellFormed
<1>2. C \subseteq DOMAIN d /\ \A p \in C : Resolves(target, p)
  BY DEF CarriedEntries, FilledPaths, Carries
<1>3. /\ DOMAIN c = UNION {Along(p) : p \in C}
      /\ \A q \in DOMAIN c :
           c[q] = IF d[q] # Null /\ q \in C /\ Carries(d, target, q)
                  THEN [d[q] EXCEPT !.type = TypeAt(target, q)]
                  ELSE Null
  BY DEF CarryOver
<1>. HIDE DEF C, c
<1>4. \A p \in C : p \in Along(p) /\ Along(p) \subseteq DOMAIN d
  BY <1>1, <1>2, AlongIsStarts DEF IsDraft, Paths
<1>. QED  BY <1>2, <1>3, <1>4 DEF C, c

(* The carried Draft fits the target's Type Schema (CarryOver).            *)
LEMMA CarryOverIsWellFormed ==
    ASSUME NEW v \in Versions, NEW target \in Versions, NEW d, WellFormed(v, d)
    PROVE  WellFormed(target, CarryOver(d, target))
<1>. DEFINE C == CarriedEntries(d, target)
            c == CarryOver(d, target)
            new(q) == [d[q] EXCEPT !.type = TypeAt(target, q)]
<1>1. IsDraft(v, d) /\ Dense(d)
  BY DEF WellFormed
<1>2. /\ C \subseteq DOMAIN d /\ \A p \in C : Resolves(target, p)
      /\ DOMAIN c = UNION {Along(p) : p \in C} /\ C \subseteq DOMAIN c
      /\ DOMAIN c \subseteq DOMAIN d
      /\ \A q \in DOMAIN c :
           c[q] = IF d[q] # Null /\ q \in C /\ Carries(d, target, q) THEN new(q) ELSE Null
  BY CarryOverBy
<1>3. c = [q \in DOMAIN c |-> c[q]]
  BY DEF CarryOver
<1>4. /\ \A p \in DOMAIN d : /\ IsField(Last(p)) /\ p \in C
                               => p \in FilledPaths(d) /\ Carries(d, target, p)
                             /\ ~IsField(Last(p)) /\ Resolves(target, p) => p \in C
      /\ \A p \in DOMAIN d : d[p] # Null => p \in FilledPaths(d)
  BY DEF CarriedEntries, FilledPaths
<1>5. DOMAIN d \subseteq Paths \ {<<>>} /\ IsFiniteSet(DOMAIN d)
  BY <1>1 DEF IsDraft
<1>6. \A q \in DOMAIN d : d[q] # Null /\ Carries(d, target, q) =>
        /\ new(q) \in Values /\ new(q) # Null
        /\ new(q).type = TypeAt(target, q) /\ new(q).data \in Fitting(target, q)
        /\ new(q).data = d[q].data
  <2>. SUFFICES ASSUME NEW q \in DOMAIN d, d[q] # Null, Carries(d, target, q)
                PROVE  /\ new(q) \in Values /\ new(q) # Null
                       /\ new(q).type = TypeAt(target, q) /\ new(q).data \in Fitting(target, q)
                       /\ new(q).data = d[q].data
    OBVIOUS
  <2>1. new(q) \in Values /\ d[q].data \in Fitting(target, q) /\ d[q] \in Values
    BY <1>1, <1>4, CarriedFits, FilledIsLeaf
  <2>2. new(q).type = TypeAt(target, q) /\ new(q).data = d[q].data
    BY <2>1 DEF Values
  <2>. HIDE DEF new
  <2>. QED  BY <2>1, <2>2, DraftAssumption
<1>. HIDE DEF C, c, new
<1>7. ASSUME NEW q \in DOMAIN c
      PROVE  /\ Resolves(target, q) /\ Along(q) \subseteq DOMAIN c
             /\ c[q] \in Values \cup {Null}
             /\ c[q] = Null \/ (c[q].type = TypeAt(target, q) /\ c[q].data \in Fitting(target, q))
  <2>1. PICK p \in C : q \in Along(p)
    BY <1>2
  <2>2. p \in Paths /\ q \in Paths /\ IsAtOrBeneath(p, q) /\ Along(q) \subseteq Along(p)
    BY <1>2, <1>5, <2>1, AlongPosition
  <2>3. Resolves(target, q)
    BY <1>2, <2>2, AboveResolves
  <2>4. Along(q) \subseteq DOMAIN c
    BY <1>2, <2>1, <2>2
  <2>. QED  BY <1>2, <1>6, <2>3, <2>4
<1>8. IsDraft(target, c)
  <2>1. IsFiniteSet(DOMAIN c)
    BY <1>2, <1>5, FS_Subset
  <2>2. c \in [DOMAIN c -> Values \cup {Null}]
    BY <1>3, <1>7
  <2>. QED  BY <1>2, <1>5, <1>7, <2>1, <2>2 DEF IsDraft
<1>9. Dense(c)
  <2>. SUFFICES ASSUME NEW q \in DOMAIN c, IsItem(Last(q)), Last(q).item > 0
                PROVE  Append(Front(q), IndexSegment(Last(q).item - 1)) \in DOMAIN c
    BY DEF Dense
  <2>. DEFINE b == Append(Front(q), IndexSegment(Last(q).item - 1))
  <2>1. b \in DOMAIN d
    BY <1>1, <1>2 DEF Dense
  <2>2. q \in Paths \ {<<>>} /\ Resolves(target, q)
    BY <1>2, <1>5, <1>7
  <2>3. Front(q) \in Paths /\ Last(q).item \in Nat /\ Last(q).item - 1 \in Nat
    BY <2>2, FrontLast, SegmentKinds DEF Paths
  <2>4. Resolves(target, Front(q)) /\ TypeAt(target, Front(q)) = "array"
    BY <2>2, ParentResolves, FrontLast, SegmentKinds DEF Paths
  <2>5. Resolves(target, b) /\ ~IsField(Last(b))
    BY <2>3, <2>4, ChildrenResolve, IndexSegments, Appended DEF Paths
  <2>. QED  BY <1>2, <1>4, <2>1, <2>5
<1>10. NoHollowField(c)
  <2>. SUFFICES ASSUME NEW q \in EmptyEntries(c), IsField(Last(q)) PROVE FALSE
    BY DEF NoHollowField
  <2>1. q \in DOMAIN c /\ c[q] = Null /\ ChildrenOf(c, q) = {}
    BY DEF EmptyEntries, Instantiated
  <2>2. PICK p \in C : q \in Along(p)
    BY <1>2, <2>1
  <2>3. /\ p \in Paths \ {<<>>} /\ q \in Paths \ {<<>>} /\ IsAtOrBeneath(p, q)
        /\ Len(q) \in 1..Len(p) /\ q = SubSeq(p, 1, Len(q)) /\ Len(p) \in Nat
    BY <1>2, <1>5, <2>2, AlongPosition DEF Paths
  <2>4. Len(q) = Len(p)
    <3>. SUFFICES ASSUME Len(q) # Len(p) PROVE FALSE
      OBVIOUS
    <3>. DEFINE e == SubSeq(p, 1, Len(q) + 1)
    <3>1. Len(q) + 1 \in 1..Len(p)
      BY <2>3
    <3>2. e \in Along(p) /\ e \in Paths \ {<<>>} /\ Len(e) = Len(q) + 1 /\ IsAtOrBeneath(p, e)
      BY <2>3, <3>1, Start, BeneathStart DEF Along, Paths
    <3>. HIDE DEF e
    <3>3. IsAtOrBeneath(e, q)
      <4>1. Len(q) <= Len(e)
        BY <2>3, <3>2
      <4>. QED  BY <2>3, <3>2, <4>1, BeneathOrder DEF Paths
    <3>4. e \in ChildrenOf(c, q)
      BY <1>2, <3>2, <3>3 DEF ChildrenOf
    <3>. QED  BY <2>1, <3>4
  <2>5. q = p
    BY <2>3, <2>4, BeneathOrder DEF Paths
  <2>6. q \in FilledPaths(d) /\ Carries(d, target, q) /\ d[q] # Null
    BY <1>2, <1>4, <2>2, <2>5 DEF FilledPaths
  <2>. QED  BY <1>2, <1>6, <2>1, <2>2, <2>5, <2>6
<1>. QED  BY <1>8, <1>9, <1>10 DEF WellFormed, c

(* The drop report tells exactly which values the carried Draft lacks.     *)
LEMMA CarryOverReports ==
    ASSUME NEW v \in Versions, NEW target \in Versions, NEW d, WellFormed(v, d),
           NEW p \in FilledPaths(d)
    PROVE  LET c == CarryOver(d, target)
               covered == \E q \in Drops(d, target) : IsAtOrBeneath(p, q)
           IN  IF covered THEN p \notin FilledPaths(c)
               ELSE p \in FilledPaths(c) /\ c[p].data = d[p].data
<1>. DEFINE C == CarriedEntries(d, target)
            c == CarryOver(d, target)
            covered == \E q \in Drops(d, target) : IsAtOrBeneath(p, q)
            new(q) == [d[q] EXCEPT !.type = TypeAt(target, q)]
<1>1. IsDraft(v, d)
  BY DEF WellFormed
<1>2. /\ C \subseteq DOMAIN c
      /\ \A q \in DOMAIN c :
           c[q] = IF d[q] # Null /\ q \in C /\ Carries(d, target, q) THEN new(q) ELSE Null
  BY CarryOverBy
<1>3. WellFormed(target, c)
  BY CarryOverIsWellFormed
<1>4. \A q \in DOMAIN c : Resolves(target, q)
  BY <1>3 DEF WellFormed, IsDraft
<1>5. /\ p \in DOMAIN d /\ p \in Paths \ {<<>>} /\ d[p] # Null /\ d[p] \in Values
      /\ \A q \in DOMAIN d : IsAtOrBeneath(q, p) => q = p
  BY <1>1, FilledIsLeaf DEF FilledPaths
<1>. HIDE DEF C, c
<1>6. ASSUME NEW q \in Drops(d, target), IsAtOrBeneath(p, q) PROVE p \notin FilledPaths(c)
  <2>1. q \in DOMAIN d /\ q \in Paths
    BY <1>1 DEF Drops, FilledPaths, IsDraft
  <2>2. CASE ~Resolves(target, q)
    <3>1. ~Resolves(target, p)
      BY <1>5, <1>6, <2>1, <2>2, AboveResolves
    <3>. QED  BY <1>4, <3>1 DEF FilledPaths
  <2>3. CASE q \in FilledPaths(d) /\ ~Carries(d, target, q)
    <3>1. p = q
      BY <1>1, <1>5, <1>6, <2>3, FilledIsLeaf
    <3>. QED  BY <1>2, <2>3, <3>1 DEF FilledPaths
  <2>. QED  BY <2>2, <2>3 DEF Drops
<1>7. ASSUME ~covered PROVE p \in FilledPaths(c) /\ c[p].data = d[p].data
  <2>1. Resolves(target, p)
    <3>. SUFFICES ASSUME ~Resolves(target, p) PROVE FALSE
      OBVIOUS
    <3>. DEFINE T == {n \in 0..Len(p) : ~Resolves(target, SubSeq(p, 1, n))}
    <3>1. Len(p) \in Nat /\ SubSeq(p, 1, Len(p)) = p /\ Len(p) \in 0..Len(p)
      BY <1>5, Start DEF Paths
    <3>2. T \in SUBSET Nat /\ T # {}
      <4>1. Len(p) \in T
        BY <3>1
      <4>. QED  BY <3>1, <4>1
    <3>3. PICK m \in T : \A k \in T : m <= k
      <4>. HIDE DEF T
      <4>. QED  BY <3>2, LeastNumber
    <3>4. m # 0
      <4>1. SubSeq(p, 1, 0) = <<>>
        BY <1>5, <3>1, Start DEF Paths
      <4>. QED  BY <4>1, RootResolves
    <3>. DEFINE r == SubSeq(p, 1, m)
    <3>5. r \in Paths \ {<<>>} /\ Len(r) = m /\ IsAtOrBeneath(p, r)
      BY <1>5, <3>4, Start, BeneathStart DEF Paths
    <3>6. Resolves(target, SubSeq(p, 1, m - 1))
      BY <3>1, <3>3, <3>4
    <3>7. Front(r) = SubSeq(p, 1, m - 1)
      <4>1. m - 1 \in 0..m
        BY <3>4
      <4>. QED  BY <1>5, <3>5, <4>1, StartOfStart DEF Front, Paths
    <3>8. ~Resolves(target, r)
      OBVIOUS
    <3>. HIDE DEF r, T
    <3>9. r \in DOMAIN d
      BY <1>1, <1>5, <3>5, DraftAbove
    <3>10. r \in Drops(d, target)
      BY <3>6, <3>7, <3>8, <3>9 DEF Drops
    <3>. QED  BY <1>7, <3>5, <3>10
  <2>2. Carries(d, target, p)
    <3>1. IsAtOrBeneath(p, p)
      BY <1>5, BeneathOrder DEF Paths
    <3>. QED  BY <1>7, <2>1, <3>1 DEF Drops
  <2>3. p \in C
    BY <2>2 DEF C, CarriedEntries
  <2>4. new(p) \in Values /\ new(p).data = d[p].data
    <3>1. new(p) \in Values
      BY <1>1, <2>2, CarriedFits
    <3>. QED  BY <1>5, <3>1 DEF Values
  <2>5. p \in DOMAIN c /\ c[p] = new(p)
    BY <1>2, <1>5, <2>2, <2>3
  <2>. HIDE DEF new
  <2>. QED  BY <2>4, <2>5, DraftAssumption DEF FilledPaths
<1>. QED  BY <1>6, <1>7 DEF c

-----------------------------------------------------------------------------
(* Emission.                                                               *)

LEMMA FirstIsField ==
    ASSUME NEW v \in Versions, NEW p \in Paths \ {<<>>}, Resolves(v, p)
    PROVE  IsField(p[1])
<1>. DEFINE c == SubSeq(p, 1, 1)
<1>1. 1 \in 0..Len(p) /\ Len(p) \in Nat
  BY FrontLast DEF Paths
<1>2. c \in Paths \ {<<>>} /\ Len(c) = 1 /\ c[1] = p[1] /\ IsAtOrBeneath(p, c)
  BY <1>1, Start, BeneathStart DEF Paths
<1>. HIDE DEF c
<1>3. Resolves(v, c)
  BY <1>2, AboveResolves
<1>4. Front(c) = <<>> /\ Last(c) = p[1] /\ Last(c) \in Segments
  <2>1. Front(c) \in Seq(Segments) /\ Len(Front(c)) = 0
    BY <1>2, FrontLast DEF Paths
  <2>. QED  BY <1>2, <2>1, FrontLast DEF Last, Paths
<1>. QED  BY <1>2, <1>3, <1>4, ParentResolves, RootResolves

(* What the Manifest spells is what holds something filled outside of the   *)
(* identity fields.                                                        *)
LEMMA EmittedFacts ==
    ASSUME NEW v \in Versions, NEW d, WellFormed(v, d)
    PROVE  /\ EmittedPaths(d) \subseteq EmittedPositions(d)
           /\ \A p \in EmittedPositions(d) :
                /\ p \in DOMAIN d /\ p \in Paths \ {<<>>} /\ Resolves(v, p)
                /\ Emits(d, p) /\ p[1].field \notin Identity
           /\ \A p \in Paths \ {<<>>} :
                Emits(d, p) /\ p[1].field \notin Identity => p \in EmittedPositions(d)
<1>1. IsDraft(v, d) /\ DOMAIN d \subseteq Paths \ {<<>>}
  BY DEF WellFormed, IsDraft
<1>2. \A q \in FilledPaths(d) : q \in DOMAIN d /\ q \in Paths \ {<<>>}
  BY <1>1 DEF FilledPaths
<1>3. \A q \in EmittedPaths(d) : q \in FilledPaths(d) /\ q[1].field \notin Identity
  BY DEF EmittedPaths
<1>4. ASSUME NEW p \in EmittedPositions(d)
      PROVE  /\ p \in DOMAIN d /\ p \in Paths \ {<<>>} /\ Resolves(v, p)
             /\ Emits(d, p) /\ p[1].field \notin Identity
  <2>1. PICK q \in EmittedPaths(d) : p \in Along(q)
    BY DEF EmittedPositions
  <2>2. q \in DOMAIN d /\ q \in Paths \ {<<>>} /\ q \in FilledPaths(d) /\ q[1].field \notin Identity
    BY <1>2, <1>3
  <2>3. p \in Paths \ {<<>>} /\ IsAtOrBeneath(q, p) /\ Len(p) >= 1
    BY <2>1, <2>2, AlongPosition
  <2>4. p \in DOMAIN d /\ Resolves(v, p)
    BY <1>1, <2>2, <2>3, DraftAbove DEF IsDraft
  <2>5. p[1] = q[1]
    BY <2>3 DEF IsAtOrBeneath, Paths
  <2>. QED  BY <2>2, <2>3, <2>4, <2>5 DEF Emits
<1>5. ASSUME NEW p \in Paths \ {<<>>}, Emits(d, p), p[1].field \notin Identity
      PROVE  p \in EmittedPositions(d)
  <2>1. PICK q \in FilledPaths(d) : IsAtOrBeneath(q, p)
    BY <1>5 DEF Emits
  <2>2. q \in Paths \ {<<>>} /\ p \in Along(q)
    BY <1>2, <2>1, AlongIsStarts DEF Paths
  <2>3. p[1] = q[1]
    BY <2>1, FrontLast DEF IsAtOrBeneath, Paths
  <2>4. q \in EmittedPaths(d)
    BY <1>5, <2>3 DEF EmittedPaths
  <2>. QED  BY <2>2, <2>4 DEF EmittedPositions
<1>6. EmittedPaths(d) \subseteq EmittedPositions(d)
  BY <1>2, <1>3, AlongIsStarts DEF EmittedPositions, Paths
<1>. QED  BY <1>4, <1>5, <1>6

(* The index an item has in the Manifest.                                  *)
EmitRank(d, o, i) == Cardinality({j \in 0..(i - 1) : Emits(d, Append(o, IndexSegment(j)))})

LEMMA RankFacts ==
    ASSUME NEW d, NEW o, NEW i \in Nat
    PROVE  /\ EmitRank(d, o, i) \in Nat
           /\ \A j \in Nat : j < i /\ Emits(d, Append(o, IndexSegment(j)))
                               => EmitRank(d, o, j) < EmitRank(d, o, i)
           /\ EmitRank(d, o, i) > 0 =>
                \E j \in Nat : /\ j < i /\ Emits(d, Append(o, IndexSegment(j)))
                               /\ EmitRank(d, o, j) = EmitRank(d, o, i) - 1
<1>. DEFINE E(j) == Emits(d, Append(o, IndexSegment(j)))
            S(k) == {j \in 0..(k - 1) : E(j)}
            R(k) == EmitRank(d, o, k)
<1>. HIDE DEF E
<1>1. \A k \in Nat : IsFiniteSet(S(k)) /\ R(k) = Cardinality(S(k)) /\ R(k) \in Nat
  <2>. TAKE k \in Nat
  <2>1. S(k) \in SUBSET (0..(k - 1)) /\ IsFiniteSet(0..(k - 1))
    BY FS_Interval
  <2>2. IsFiniteSet(S(k))
    <3>. HIDE DEF S
    <3>. QED  BY <2>1, FS_Subset
  <2>3. R(k) = Cardinality(S(k))
    BY DEF EmitRank, E
  <2>. HIDE DEF R, S
  <2>. QED  BY <2>2, <2>3, FS_CardinalityType
<1>2. ASSUME NEW j \in Nat, NEW k \in Nat, j < k, E(j) PROVE R(j) < R(k)
  <2>1. S(j) \in SUBSET (S(k) \ {j}) /\ j \in S(k)
    BY <1>2
  <2>. HIDE DEF R, S
  <2>2. IsFiniteSet(S(k) \ {j}) /\ Cardinality(S(k) \ {j}) = R(k) - 1
    BY <1>1, <2>1, FS_RemoveElement
  <2>3. Cardinality(S(j)) <= Cardinality(S(k) \ {j})
    BY <2>1, <2>2, FS_Subset
  <2>. QED  BY <1>1, <2>2, <2>3
<1>3. ASSUME NEW k \in Nat PROVE R(k + 1) = IF E(k) THEN R(k) + 1 ELSE R(k)
  <2>1. CASE E(k)
    <3>1. S(k + 1) = S(k) \cup {k} /\ k \notin S(k)
      BY <2>1
    <3>. HIDE DEF R, S
    <3>. QED  BY <1>1, <2>1, <3>1, FS_AddElement
  <2>2. CASE ~E(k)
    <3>1. S(k + 1) = S(k)
      BY <2>2
    <3>. HIDE DEF R, S
    <3>. QED  BY <1>1, <2>2, <3>1
  <2>. QED  BY <2>1, <2>2
<1>4. R(0) = 0
  <2>1. S(0) = {}
    OBVIOUS
  <2>. HIDE DEF R, S
  <2>. QED  BY <1>1, <2>1, FS_EmptySet
<1>. HIDE DEF R, S
<1>5. ASSUME R(i) > 0 PROVE \E j \in Nat : j < i /\ E(j) /\ R(j) = R(i) - 1
  <2>. DEFINE T == {k \in 0..i : R(k) = R(i)}
  <2>1. T \in SUBSET Nat /\ T # {}
    <3>1. i \in T
      OBVIOUS
    <3>. QED  BY <3>1
  <2>2. PICK m \in T : \A k \in T : m <= k
    <3>. HIDE DEF T
    <3>. QED  BY <2>1, LeastNumber
  <2>3. m \in Nat /\ m # 0 /\ m <= i /\ R(m) = R(i)
    BY <1>4, <1>5
  <2>4. m - 1 \in Nat /\ m - 1 < i /\ m - 1 \in 0..i /\ (m - 1) + 1 = m
    BY <2>3
  <2>5. R(m - 1) # R(i)
    <3>1. m - 1 \notin T
      BY <2>2, <2>3
    <3>. QED  BY <2>4, <3>1
  <2>6. R(m) = IF E(m - 1) THEN R(m - 1) + 1 ELSE R(m - 1)
    BY <1>3, <2>4
  <2>7. E(m - 1) /\ R(m - 1) = R(i) - 1
    <3>1. R(m - 1) \in Nat /\ R(i) \in Nat
      BY <1>1, <2>4
    <3>. QED  BY <2>3, <2>5, <2>6, <3>1
  <2>. QED  BY <2>4, <2>7
<1>. QED  BY <1>1, <1>2, <1>5 DEF R, E

LEMMA ManifestPathBy ==
    ASSUME NEW d, NEW p \in Paths
    PROVE  /\ ManifestPath(d, p) \in Paths /\ Len(ManifestPath(d, p)) = Len(p)
           /\ \A n \in 1..Len(p) :
                /\ ~IsItem(p[n]) => ManifestPath(d, p)[n] = p[n]
                /\ IsItem(p[n]) => /\ p[n].item \in Nat
                                   /\ ManifestPath(d, p)[n]
                                        = IndexSegment(EmitRank(d, SubSeq(p, 1, n - 1), p[n].item))
<1>1. Len(p) \in Nat /\ \A n \in 1..Len(p) : p[n] \in Segments
  BY DEF Paths
<1>2. ManifestPath(d, p) = [n \in 1..Len(p) |-> ManifestPath(d, p)[n]]
  BY DEF ManifestPath
<1>3. ASSUME NEW n \in 1..Len(p)
      PROVE  /\ ManifestPath(d, p)[n] \in Segments
             /\ ~IsItem(p[n]) => ManifestPath(d, p)[n] = p[n]
             /\ IsItem(p[n]) => /\ p[n].item \in Nat
                                /\ ManifestPath(d, p)[n]
                                     = IndexSegment(EmitRank(d, SubSeq(p, 1, n - 1), p[n].item))
  <2>1. CASE ~IsItem(p[n])
    BY <1>1, <2>1 DEF ManifestPath
  <2>2. CASE IsItem(p[n])
    <3>1. ManifestPath(d, p)[n] = IndexSegment(EmitRank(d, SubSeq(p, 1, n - 1), p[n].item))
      BY <2>2 DEF ManifestPath, EmitRank
    <3>2. p[n].item \in Nat
      BY <1>1, <2>2, SegmentKinds
    <3>3. EmitRank(d, SubSeq(p, 1, n - 1), p[n].item) \in Nat
      BY <3>2, RankFacts
    <3>. QED  BY <2>2, <3>1, <3>2, <3>3, IndexSegments
  <2>. QED  BY <2>1, <2>2
<1>4. ManifestPath(d, p) \in [1..Len(p) -> Segments]
  BY <1>2, <1>3
<1>. QED  BY <1>1, <1>3, <1>4 DEF Paths

(* Emission closes the gaps that empty items leave and keeps apart what it  *)
(* spells (emitSequence).                                                  *)
LEMMA ManifestPathApart ==
    ASSUME NEW v \in Versions, NEW d, WellFormed(v, d),
           NEW p \in EmittedPositions(d), NEW q \in EmittedPositions(d),
           ManifestPath(d, p) = ManifestPath(d, q)
    PROVE  p = q
<1>1. p \in Paths \ {<<>>} /\ q \in Paths \ {<<>>} /\ Emits(d, p) /\ Emits(d, q)
  BY EmittedFacts
<1>2. Len(p) = Len(q) /\ Len(p) \in Nat
  <2>1. Len(p) \in Nat
    BY <1>1 DEF Paths
  <2>. QED  BY <1>1, <2>1, ManifestPathBy
<1>. SUFFICES ASSUME p # q PROVE FALSE
  OBVIOUS
<1>. DEFINE T == {n \in 1..Len(p) : p[n] # q[n]}
<1>3. T \in SUBSET Nat /\ T # {}
  BY <1>1, <1>2, SameSequence DEF Paths
<1>4. PICK m \in T : \A n \in T : m <= n
  <2>. HIDE DEF T
  <2>. QED  BY <1>3, LeastNumber
<1>5. m \in 1..Len(p) /\ p[m] # q[m] /\ p[m] \in Segments /\ q[m] \in Segments
  BY <1>1, <1>2 DEF Paths
<1>. DEFINE o == SubSeq(p, 1, m - 1)
<1>6. o = SubSeq(q, 1, m - 1)
  <2>1. m - 1 \in 0..Len(p) /\ m - 1 \in 0..Len(q)
    BY <1>2, <1>5
  <2>2. ASSUME NEW n \in 1..(m - 1) PROVE p[n] = q[n]
    <3>1. n \notin T /\ n \in 1..Len(p)
      BY <1>2, <1>4, <1>5
    <3>. QED  BY <3>1
  <2>3. /\ SubSeq(p, 1, m - 1) \in Paths /\ SubSeq(q, 1, m - 1) \in Paths
        /\ Len(SubSeq(p, 1, m - 1)) = m - 1 /\ Len(SubSeq(q, 1, m - 1)) = m - 1
        /\ \A n \in 1..(m - 1) : SubSeq(p, 1, m - 1)[n] = p[n] /\ SubSeq(q, 1, m - 1)[n] = q[n]
    BY <1>1, <2>1, Start DEF Paths
  <2>. QED  BY <2>2, <2>3, SameSequence DEF Paths
(* An item that something emitted sits in is emitted.                      *)
<1>7. ASSUME NEW r \in Paths, Emits(d, r), m \in 1..Len(r), IsItem(r[m])
      PROVE  /\ r[m].item \in Nat /\ r[m] = IndexSegment(r[m].item)
             /\ Emits(d, Append(SubSeq(r, 1, m - 1), IndexSegment(r[m].item)))
  <2>1. r[m] \in Segments
    BY <1>7 DEF Paths
  <2>2. r[m].item \in Nat /\ r[m] = IndexSegment(r[m].item)
    BY <1>7, <2>1, SegmentKinds
  <2>. DEFINE c == SubSeq(r, 1, m)
  <2>3. m \in 0..Len(r) /\ m # 0
    BY <1>7 DEF Paths
  <2>4. c \in Paths \ {<<>>} /\ Len(c) = m /\ c[m] = r[m] /\ IsAtOrBeneath(r, c)
    BY <1>7, <2>3, Start, BeneathStart DEF Paths
  <2>5. Front(c) = SubSeq(r, 1, m - 1)
    <3>1. m - 1 \in 0..m
      BY <2>3
    <3>. QED  BY <2>3, <2>4, <3>1, StartOfStart DEF Front, Paths
  <2>. HIDE DEF c
  <2>6. c = Append(SubSeq(r, 1, m - 1), IndexSegment(r[m].item))
    <3>1. c = Append(Front(c), Last(c)) /\ Last(c) = c[m]
      BY <2>4, FrontLast DEF Paths
    <3>. QED  BY <2>2, <2>4, <2>5, <3>1
  <2>7. Emits(d, c)
    <3>1. PICK x \in FilledPaths(d) : IsAtOrBeneath(x, r)
      BY <1>7 DEF Emits
    <3>2. x \in Paths
      BY DEF FilledPaths, WellFormed, IsDraft
    <3>. QED  BY <2>4, <3>1, <3>2, BeneathOrder DEF Emits, Paths
  <2>. QED  BY <2>2, <2>6, <2>7
<1>8. ManifestPath(d, p)[m] = ManifestPath(d, q)[m]
  OBVIOUS
<1>. HIDE DEF T, o
<1>9. CASE ~IsItem(p[m]) /\ ~IsItem(q[m])
  BY <1>1, <1>2, <1>5, <1>8, <1>9, ManifestPathBy
<1>10. ASSUME NEW r \in Paths, NEW s \in Paths, m \in 1..Len(r), m \in 1..Len(s),
              ManifestPath(d, r)[m] = ManifestPath(d, s)[m], IsItem(r[m])
       PROVE  IsItem(s[m])
  <2>. SUFFICES ASSUME ~IsItem(s[m]) PROVE FALSE
    OBVIOUS
  <2>1. IsItem(ManifestPath(d, r)[m])
    <3>1. /\ r[m].item \in Nat
          /\ ManifestPath(d, r)[m] = IndexSegment(EmitRank(d, SubSeq(r, 1, m - 1), r[m].item))
      BY <1>10, ManifestPathBy
    <3>2. EmitRank(d, SubSeq(r, 1, m - 1), r[m].item) \in Nat
      BY <3>1, RankFacts
    <3>. QED  BY <3>1, <3>2, IndexSegments
  <2>. QED  BY <1>10, <2>1, ManifestPathBy
<1>11. CASE IsItem(p[m]) /\ IsItem(q[m])
  <2>. DEFINE i == p[m].item
              j == q[m].item
  <2>1. /\ i \in Nat /\ j \in Nat /\ i # j
        /\ Emits(d, Append(o, IndexSegment(i))) /\ Emits(d, Append(o, IndexSegment(j)))
    BY <1>1, <1>2, <1>5, <1>6, <1>7, <1>11 DEF o
  <2>2. IndexSegment(EmitRank(d, o, i)) = IndexSegment(EmitRank(d, o, j))
    <3>1. ManifestPath(d, p)[m] = IndexSegment(EmitRank(d, o, i))
      BY <1>1, <1>5, <1>11, ManifestPathBy DEF o
    <3>2. ManifestPath(d, q)[m] = IndexSegment(EmitRank(d, SubSeq(q, 1, m - 1), j))
      BY <1>1, <1>2, <1>5, <1>11, ManifestPathBy
    <3>. QED  BY <1>6, <1>8, <3>1, <3>2
  <2>3. EmitRank(d, o, i) \in Nat /\ EmitRank(d, o, j) \in Nat
    BY <2>1, RankFacts
  <2>4. EmitRank(d, o, i) = EmitRank(d, o, j)
    BY <2>2, <2>3, IndexSegments
  <2>5. i < j => EmitRank(d, o, i) < EmitRank(d, o, j)
    BY <2>1, RankFacts
  <2>6. j < i => EmitRank(d, o, j) < EmitRank(d, o, i)
    BY <2>1, RankFacts
  <2>. QED  BY <2>1, <2>3, <2>4, <2>5, <2>6
<1>. QED  BY <1>1, <1>2, <1>5, <1>8, <1>9, <1>10, <1>11

LEMMA ManifestPathDense ==
    ASSUME NEW v \in Versions, NEW d, WellFormed(v, d),
           NEW p \in EmittedPositions(d), IsItem(Last(ManifestPath(d, p))),
           Last(ManifestPath(d, p)).item > 0
    PROVE  \E q \in EmittedPositions(d) :
              Append(Front(ManifestPath(d, p)), IndexSegment(Last(ManifestPath(d, p)).item - 1))
                = ManifestPath(d, q)
<1>. DEFINE n == Len(p)
            o == Front(p)
            i == p[n].item
            m == ManifestPath(d, p)
<1>1. /\ p \in Paths \ {<<>>} /\ Resolves(v, p) /\ Emits(d, p) /\ p[1].field \notin Identity
      /\ n \in Nat /\ n > 0
  BY EmittedFacts, FrontLast DEF Paths
<1>2. /\ o \in Paths /\ Len(o) = n - 1 /\ o = SubSeq(p, 1, n - 1) /\ Last(p) = p[n]
      /\ p = Append(o, p[n]) /\ \A k \in 1..(n - 1) : o[k] = p[k]
  BY <1>1, FrontLast DEF Paths
<1>3. m \in Paths /\ Len(m) = n /\ Last(m) = m[n]
  BY <1>1, ManifestPathBy DEF Last
<1>4. IsItem(p[n]) /\ i \in Nat /\ m[n] = IndexSegment(EmitRank(d, o, i))
  <2>1. IsItem(p[n])
    BY <1>1, <1>3, ManifestPathBy
  <2>. QED  BY <1>1, <1>2, <2>1, ManifestPathBy
<1>5. EmitRank(d, o, i) \in Nat /\ Last(m).item = EmitRank(d, o, i)
  BY <1>3, <1>4, RankFacts, IndexSegments
<1>6. PICK j \in Nat : /\ j < i /\ Emits(d, Append(o, IndexSegment(j)))
                       /\ EmitRank(d, o, j) = EmitRank(d, o, i) - 1
  <2>1. EmitRank(d, o, i) > 0
    BY <1>5
  <2>. QED  BY <1>4, <2>1, RankFacts
<1>. DEFINE q == Append(o, IndexSegment(j))
<1>7. /\ q \in Paths \ {<<>>} /\ Len(q) = n /\ Front(q) = o /\ q[n] = IndexSegment(j)
      /\ \A k \in 1..(n - 1) : q[k] = p[k]
  <2>1. q \in Paths \ {<<>>} /\ Len(q) = n /\ Front(q) = o /\ Last(q) = IndexSegment(j)
    <3>1. IndexSegment(j) \in Segments
      BY IndexSegments
    <3>2. /\ q \in Paths \ {<<>>} /\ Len(q) = Len(o) + 1 /\ Front(q) = o
          /\ Last(q) = IndexSegment(j)
      BY <1>2, <3>1, Appended DEF Paths
    <3>. QED  BY <1>1, <1>2, <3>2
  <2>. HIDE DEF q
  <2>2. q[n] = IndexSegment(j) /\ \A k \in 1..(n - 1) : Front(q)[k] = q[k]
    BY <1>1, <2>1, FrontLast DEF Paths, Last
  <2>. QED  BY <1>2, <2>1, <2>2
<1>. HIDE DEF q
<1>8. q \in EmittedPositions(d)
  <2>1. n # 1
    <3>1. IsField(p[1])
      BY <1>1, FirstIsField
    <3>2. p[n] \in Segments
      BY <1>1 DEF Paths
    <3>. QED  BY <1>4, <3>1, <3>2, SegmentKinds
  <2>2. q[1] = p[1]
    BY <1>1, <1>7, <2>1
  <2>. QED  BY <1>1, <1>6, <1>7, <2>2, EmittedFacts DEF q
<1>9. ManifestPath(d, q) = Append(Front(m), IndexSegment(Last(m).item - 1))
  <2>. DEFINE r == ManifestPath(d, q)
  <2>1. r \in Paths /\ Len(r) = n
    BY <1>7, ManifestPathBy
  <2>2. r[n] = IndexSegment(Last(m).item - 1)
    <3>1. IsItem(q[n]) /\ q[n].item = j
      BY <1>7, IndexSegments
    <3>2. SubSeq(q, 1, n - 1) = o
      BY <1>7 DEF Front
    <3>3. n \in 1..Len(q) /\ q \in Paths
      BY <1>1, <1>7
    <3>4. r[n] = IndexSegment(EmitRank(d, SubSeq(q, 1, n - 1), q[n].item))
      BY <3>1, <3>3, ManifestPathBy
    <3>5. r[n] = IndexSegment(EmitRank(d, o, j))
      BY <3>1, <3>2, <3>4
    <3>. QED  BY <1>5, <1>6, <3>5
  <2>3. ASSUME NEW k \in 1..(n - 1) PROVE r[k] = m[k]
    <3>1. SubSeq(q, 1, k - 1) = SubSeq(p, 1, k - 1)
      <4>1. k - 1 \in 0..Len(q) /\ k - 1 \in 0..Len(p)
        BY <1>1, <1>7
      <4>2. /\ SubSeq(q, 1, k - 1) \in Paths /\ SubSeq(p, 1, k - 1) \in Paths
            /\ Len(SubSeq(q, 1, k - 1)) = k - 1 /\ Len(SubSeq(p, 1, k - 1)) = k - 1
            /\ \A l \in 1..(k - 1) : SubSeq(q, 1, k - 1)[l] = q[l] /\ SubSeq(p, 1, k - 1)[l] = p[l]
        BY <1>1, <1>7, <4>1, Start DEF Paths
      <4>3. \A l \in 1..(k - 1) : q[l] = p[l]
        BY <1>1, <1>7
      <4>. QED  BY <4>2, <4>3, SameSequence DEF Paths
    <3>2. k \in 1..n /\ q[k] = p[k]
      BY <1>1, <1>7
    <3>3. CASE IsItem(p[k])
      <4>1. m[k] = IndexSegment(EmitRank(d, SubSeq(p, 1, k - 1), p[k].item))
        BY <1>1, <3>2, <3>3, ManifestPathBy
      <4>2. r[k] = IndexSegment(EmitRank(d, SubSeq(q, 1, k - 1), q[k].item))
        BY <1>7, <3>2, <3>3, ManifestPathBy
      <4>. QED  BY <3>1, <3>2, <4>1, <4>2
    <3>4. CASE ~IsItem(p[k])
      BY <1>1, <1>7, <3>2, <3>4, ManifestPathBy
    <3>. QED  BY <3>3, <3>4
  <2>. HIDE DEF r, m
  <2>4. m # <<>> /\ r # <<>>
    BY <1>1, <1>3, <2>1
  <2>5. /\ Front(m) \in Paths /\ Len(Front(m)) = n - 1 /\ \A k \in 1..(n - 1) : Front(m)[k] = m[k]
        /\ Front(r) \in Paths /\ Len(Front(r)) = n - 1 /\ \A k \in 1..(n - 1) : Front(r)[k] = r[k]
        /\ r = Append(Front(r), r[n])
    <3>1. m \in Seq(Segments) \ {<<>>} /\ r \in Seq(Segments) \ {<<>>}
      BY <1>3, <2>1, <2>4 DEF Paths
    <3>2. Front(m) \in Paths /\ Len(Front(m)) = n - 1 /\ \A k \in 1..(n - 1) : Front(m)[k] = m[k]
      BY <1>3, <3>1, FrontLast DEF Paths
    <3>3. /\ Front(r) \in Paths /\ Len(Front(r)) = n - 1
          /\ \A k \in 1..(n - 1) : Front(r)[k] = r[k]
          /\ r = Append(Front(r), r[n])
      BY <2>1, <3>1, FrontLast DEF Paths
    <3>. QED  BY <3>2, <3>3
  <2>6. Front(r) = Front(m)
    BY <2>3, <2>5, SameSequence DEF Paths
  <2>. QED  BY <2>2, <2>5, <2>6 DEF r
<1>. QED  BY <1>8, <1>9

(* No two filled values are emitted to one position, and no array that is   *)
(* emitted has a gap.                                                      *)
LEMMA EmissionKeepsApart ==
    ASSUME NEW v \in Versions, NEW d, WellFormed(v, d)
    PROVE  LET positions == {ManifestPath(d, p) : p \in EmittedPositions(d)} IN
           /\ Cardinality({entry[1] : entry \in Emit(d)}) = Cardinality(EmittedPaths(d))
           /\ \A m \in positions : IsItem(Last(m)) /\ Last(m).item > 0 =>
                Append(Front(m), IndexSegment(Last(m).item - 1)) \in positions
<1>. DEFINE S == EmittedPaths(d)
            T == {entry[1] : entry \in Emit(d)}
            f == [p \in S |-> ManifestPath(d, p)]
<1>1. Cardinality(T) = Cardinality(S)
  <2>1. IsFiniteSet(S)
    <3>1. IsFiniteSet(DOMAIN d) /\ S \subseteq DOMAIN d
      BY DEF WellFormed, IsDraft, EmittedPaths, FilledPaths
    <3>. QED  BY <3>1, FS_Subset
  <2>2. T = {ManifestPath(d, p) : p \in S}
    <3>1. ASSUME NEW p \in S PROVE ManifestPath(d, p) \in T
      <4>1. <<ManifestPath(d, p), d[p].data>> \in Emit(d)
        BY DEF Emit
      <4>2. <<ManifestPath(d, p), d[p].data>>[1] = ManifestPath(d, p)
        OBVIOUS
      <4>. QED  BY <4>1, <4>2
    <3>2. ASSUME NEW t \in T PROVE \E p \in S : t = ManifestPath(d, p)
      <4>1. PICK entry \in Emit(d) : t = entry[1]
        OBVIOUS
      <4>2. PICK p \in S : entry = <<ManifestPath(d, p), d[p].data>>
        BY DEF Emit
      <4>. QED  BY <4>1, <4>2
    <3>. HIDE DEF S, T
    <3>. QED  BY <3>1, <3>2
  <2>3. \A p, q \in S : f[p] = f[q] => p = q
    <3>1. S \subseteq EmittedPositions(d)
      BY EmittedFacts
    <3>. QED  BY <3>1, ManifestPathApart
  <2>4. f \in [S -> T] /\ \A t \in T : \E p \in S : f[p] = t
    BY <2>2
  <2>5. f \in Bijection(S, T)
    BY <2>3, <2>4 DEF Bijection, Injection, Surjection, IsInjective
  <2>. HIDE DEF S, T, f
  <2>. QED  BY <2>1, <2>5, FS_Bijection DEF ExistsBijection
<1>2. ASSUME NEW p \in EmittedPositions(d), IsItem(Last(ManifestPath(d, p))),
             Last(ManifestPath(d, p)).item > 0
      PROVE  Append(Front(ManifestPath(d, p)), IndexSegment(Last(ManifestPath(d, p)).item - 1))
               \in {ManifestPath(d, q) : q \in EmittedPositions(d)}
  BY <1>2, ManifestPathDense
<1>. QED  BY <1>1, <1>2

(* All that a Draft holds holds a value or an empty item or key.           *)
LEMMA HeldIsEmitted ==
    ASSUME NEW v \in Versions, NEW d, WellFormed(v, d), NEW q \in DOMAIN d
    PROVE  Emits(d, q) \/ \E e \in EmptyEntries(d) : IsAtOrBeneath(e, q)
<1>. DEFINE B(r) == {x \in DOMAIN d : IsAtOrBeneath(x, r)}
            L == {Cardinality(B(r)) : r \in B(q)}
<1>1. IsFiniteSet(DOMAIN d) /\ DOMAIN d \subseteq Seq(Segments) \ {<<>>}
  BY DEF WellFormed, IsDraft, Paths
<1>2. \A r : IsFiniteSet(B(r)) /\ Cardinality(B(r)) \in Nat
  BY <1>1, FS_Subset, FS_CardinalityType
<1>3. q \in B(q)
  BY <1>1, BeneathOrder
<1>4. PICK r \in B(q) : \A s \in B(q) : Cardinality(B(r)) <= Cardinality(B(s))
  <2>1. L \in SUBSET Nat /\ L # {}
    BY <1>2, <1>3
  <2>2. PICK m \in L : \A k \in L : m <= k
    <3>. HIDE DEF L
    <3>. QED  BY <2>1, LeastNumber
  <2>. QED  BY <2>2
<1>5. ChildrenOf(d, r) = {}
  <2>. SUFFICES ASSUME NEW c \in ChildrenOf(d, r) PROVE FALSE
    OBVIOUS
  <2>1. /\ c \in DOMAIN d /\ Len(c) = Len(r) + 1 /\ IsAtOrBeneath(c, r)
        /\ r \in DOMAIN d /\ IsAtOrBeneath(r, q)
    BY <1>4 DEF ChildrenOf
  <2>2. c \in B(q)
    BY <1>1, <2>1, BeneathOrder
  <2>3. B(c) \subseteq B(r)
    BY <1>1, <2>1, BeneathOrder
  <2>4. r \in B(r) /\ r \notin B(c)
    BY <1>1, <2>1, BeneathOrder DEF IsAtOrBeneath
  <2>5. Cardinality(B(c)) < Cardinality(B(r))
    <3>. HIDE DEF B
    <3>1. B(c) # B(r)
      BY <2>4
    <3>. QED  BY <1>2, <2>3, <3>1, FS_Subset
  <2>. HIDE DEF B
  <2>. QED  BY <1>2, <1>4, <2>2, <2>5
<1>6. r \in FilledPaths(d) \cup EmptyEntries(d) /\ IsAtOrBeneath(r, q)
  BY <1>4, <1>5 DEF EmptyEntries, Instantiated, FilledPaths
<1>. QED  BY <1>6 DEF Emits

(* A Draft that lacks nothing is emitted with every required field its     *)
(* objects have, but for the fields of which it holds an empty item or key. *)
LEMMA EmissionIsComplete ==
    ASSUME NEW v \in Versions, NEW d, WellFormed(v, d),
           MissingRequired(v, d) = {},
           NEW p \in {<<>>} \cup EmittedPositions(d), NEW s \in Required[v],
           Front(s) = SchemaPath(p), p = <<>> => Last(s) \notin Identity
    PROVE  LET q == Append(p, FieldSegment(Last(s))) IN
           q \in EmittedPositions(d) \/ \E e \in EmptyEntries(d) : IsAtOrBeneath(e, q)
<1>. DEFINE q == Append(p, FieldSegment(Last(s)))
            present == {<<>>} \cup DOMAIN d
<1>1. p \in Paths /\ p \in present
  <2>1. \A r \in EmittedPositions(d) : r \in DOMAIN d /\ r \in Paths
    BY EmittedFacts
  <2>2. <<>> \in Paths
    BY DEF Paths
  <2>. QED  BY <2>1, <2>2
<1>2. /\ s \in DOMAIN FieldTree[v] \ {<<>>} /\ FieldTree[v][Front(s)] = "object"
      /\ Last(s) \in STRING \ {Item, Value}
  <2>1. s \in DOMAIN FieldTree[v] \ {<<>>} /\ FieldTree[v][Front(s)] = "object"
    BY DraftAssumption
  <2>. QED  BY <2>1, TreeFacts
<1>3. FieldSegment(Last(s)) \in Segments /\ FieldSegment(Last(s)).field = Last(s)
      /\ IsField(FieldSegment(Last(s)))
  BY <1>2, FieldSegments
<1>4. q \in Paths \ {<<>>} /\ Len(q) = Len(p) + 1 /\ Front(q) = p /\ Last(q) = FieldSegment(Last(s))
  BY <1>1, <1>3, Appended DEF Paths
<1>5. q \in DOMAIN d
  <2>. SUFFICES ASSUME q \notin present PROVE FALSE
    BY <1>4
  <2>1. s \in Assured[v][s]
    <3>1. s \in Seq(Names) /\ Len(s) \in Nat
      BY <1>2, TreeFacts
    <3>2. IsAtOrBeneath(s, s)
      BY <3>1, BeneathOrder
    <3>. QED  BY <1>2, <3>1, <3>2 DEF Assured
  <2>. DEFINE absent == {t \in Required[v] : /\ Front(t) = SchemaPath(p)
                                             /\ Append(p, FieldSegment(Last(t))) \notin present}
              assured == UNION {Assured[v][t] : t \in absent}
              spell(t) == p \o [n \in 1..(Len(t) - Len(p)) |-> FieldSegment(t[Len(p) + n])]
  <2>2. s \in absent
    OBVIOUS
  <2>3. s \in assured
    <3>. HIDE DEF absent
    <3>. QED  BY <2>1, <2>2
  <2>4. {spell(t) : t \in assured} \subseteq MissingRequired(v, d)
    <3>. DEFINE lacks(r) == {t \in Required[v] : /\ Front(t) = SchemaPath(r)
                                                  /\ Append(r, FieldSegment(Last(t))) \notin present}
                at(r, t) == r \o [n \in 1..(Len(t) - Len(r)) |-> FieldSegment(t[Len(r) + n])]
                M(r) == {at(r, t) : t \in UNION {Assured[v][t] : t \in lacks(r)}}
    <3>1. MissingRequired(v, d) = UNION {M(r) : r \in present}
      BY DEF MissingRequired
    <3>2. M(p) = {spell(t) : t \in assured}
      OBVIOUS
    <3>. HIDE DEF M, assured, spell
    <3>. QED  BY <1>1, <3>1, <3>2
  <2>5. spell(s) \in {spell(t) : t \in assured}
    <3>. HIDE DEF assured
    <3>. QED  BY <2>3
  <2>. QED  BY <2>4, <2>5
<1>6. q[1].field \notin Identity
  <2>. HIDE DEF q
  <2>1. CASE p = <<>>
    <3>1. Len(q) = 1
      BY <1>4, <2>1
    <3>2. q[1] = Last(q)
      BY <3>1 DEF Last
    <3>. QED  BY <1>3, <1>4, <2>1, <3>2
  <2>2. CASE p # <<>>
    <3>1. p \in EmittedPositions(d) /\ p[1].field \notin Identity
      BY <2>2, EmittedFacts
    <3>2. 1 \in 1..(Len(q) - 1)
      BY <1>1, <1>4, <2>2 DEF Paths
    <3>3. p[1] = q[1]
      BY <1>4, <3>2, FrontLast DEF Paths
    <3>. QED  BY <3>1, <3>3
  <2>. QED  BY <2>1, <2>2
<1>. HIDE DEF q
<1>7. Emits(d, q) \/ \E e \in EmptyEntries(d) : IsAtOrBeneath(e, q)
  BY <1>5, HeldIsEmitted
<1>8. Emits(d, q) => q \in EmittedPositions(d)
  BY <1>4, <1>6, EmittedFacts
<1>. QED  BY <1>7, <1>8 DEF q

=============================================================================
