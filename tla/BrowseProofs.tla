------------------------------ MODULE BrowseProofs ------------------------------
(***************************************************************************)
(* From the command line to the compose view, for every cluster, Type      *)
(* Schema and sequence of keys: what the picker, the field search and the  *)
(* version list offer is what is there, their highlight stays on it, the    *)
(* focus is a row on screen, and what leaves the Draft was asked about.    *)
(*                                                                         *)
(* Three orders do the work: of the Kinds, of the rows on screen and of the *)
(* matches.  Each is shown strict, so that a place in it names one member  *)
(* and listing in it lists each member once.                               *)
(***************************************************************************)
EXTENDS Browse, ComposeTreeProofs

-----------------------------------------------------------------------------
(* Lists in order: what InOrder and Picked return.                         *)

(* A function from an initial segment of the naturals is a sequence.       *)
LEMMA AsSequence ==
    ASSUME NEW S, NEW c \in Nat, NEW s \in [1..c -> S]
    PROVE  s \in Seq(S) /\ Len(s) = c /\ DOMAIN s = 1..c
OBVIOUS

(* The members of S before x.                                              *)
Below(S, R, x) == {y \in S : <<y, x>> \in R}

(* R orders S: no member before itself, transitive, no two unrelated.      *)
StrictOrder(S, R) ==
    /\ \A x \in S : <<x, x>> \notin R
    /\ \A x, y, z \in S : <<x, y>> \in R /\ <<y, z>> \in R => <<x, z>> \in R
    /\ \A x, y \in S : x # y => <<x, y>> \in R \/ <<y, x>> \in R
(* A member's place is how many are before it.                             *)
Ranks(S, R, place) == \A x \in S : place[x] = Cardinality(Below(S, R, x))
(* The sequence lists every member of S once, in the order R.              *)
Listed(S, R, s) ==
    /\ s \in Seq(S) /\ Len(s) = Cardinality(S) /\ DOMAIN s = 1..Cardinality(S)
    /\ Cardinality(S) \in Nat
    /\ \A x \in S : \E n \in 1..Cardinality(S) : s[n] = x
    /\ \A m, n \in 1..Cardinality(S) : m < n => <<s[m], s[n]>> \in R
    /\ \A m, n \in 1..Cardinality(S) : s[m] = s[n] => m = n

(* In a strict order the places are 0 and up, one for each member.         *)
LEMMA Places ==
    ASSUME NEW S, IsFiniteSet(S), NEW R,
           StrictOrder(S, R), NEW place, Ranks(S, R, place)
    PROVE  /\ Cardinality(S) \in Nat
           /\ \A x \in S : place[x] \in 0..(Cardinality(S) - 1)
           /\ \A x, y \in S : <<x, y>> \in R <=> place[x] < place[y]
           /\ \A x, y \in S : place[x] = place[y] => x = y
           /\ \A n \in 0..(Cardinality(S) - 1) : \E x \in S : place[x] = n
<1>. DEFINE below(x) == {y \in S : <<y, x>> \in R}
            c == Cardinality(S)
            rank == [x \in S |-> Cardinality(below(x))]
<1>. USE DEF StrictOrder
<1>1. c \in Nat
  BY FS_CardinalityType
<1>2. ASSUME NEW x \in S
      PROVE  IsFiniteSet(below(x)) /\ Cardinality(below(x)) \in 0..(c - 1)
  <2>1. below(x) \in SUBSET S /\ below(x) # S
    OBVIOUS
  <2>. HIDE DEF below
  <2>2. IsFiniteSet(below(x)) /\ Cardinality(below(x)) <= c /\ Cardinality(below(x)) # c
    BY <2>1, FS_Subset
  <2>3. Cardinality(below(x)) \in Nat
    BY <2>2, FS_CardinalityType
  <2>. HIDE DEF c
  <2>. QED  BY <1>1, <2>2, <2>3
<1>3. ASSUME NEW x \in S, NEW y \in S, <<x, y>> \in R
      PROVE  Cardinality(below(x)) < Cardinality(below(y))
  <2>1. below(x) \in SUBSET below(y) /\ below(x) # below(y)
    <3>1. x \in below(y) /\ x \notin below(x)
      BY <1>3
    <3>2. \A z \in S : <<z, x>> \in R => <<z, y>> \in R
      BY <1>3
    <3>. QED  BY <3>1, <3>2
  <2>. HIDE DEF below
  <2>2. /\ Cardinality(below(x)) <= Cardinality(below(y))
        /\ Cardinality(below(x)) # Cardinality(below(y))
    BY <1>2, <2>1, FS_Subset
  <2>3. Cardinality(below(x)) \in Int /\ Cardinality(below(y)) \in Int
    BY <1>2
  <2>. QED  BY <2>2, <2>3
<1>4. \A x, y \in S : Cardinality(below(x)) = Cardinality(below(y)) => x = y
  <2>. SUFFICES ASSUME NEW x \in S, NEW y \in S, x # y,
                       Cardinality(below(x)) = Cardinality(below(y))
                PROVE  FALSE
    OBVIOUS
  <2>1. Cardinality(below(x)) < Cardinality(below(y)) \/ Cardinality(below(y)) < Cardinality(below(x))
    <3>. HIDE DEF below
    <3>. QED  BY <1>3
  <2>2. Cardinality(below(x)) \in Int /\ Cardinality(below(y)) \in Int
    <3>. HIDE DEF below, c
    <3>. QED  BY <1>1, <1>2
  <2>. HIDE DEF below
  <2>. QED  BY <2>1, <2>2
<1>5. \A x, y \in S : Cardinality(below(x)) < Cardinality(below(y)) => <<x, y>> \in R
  <2>. SUFFICES ASSUME NEW x \in S, NEW y \in S, <<x, y>> \notin R,
                       Cardinality(below(x)) < Cardinality(below(y))
                PROVE  FALSE
    OBVIOUS
  <2>1. x = y \/ <<y, x>> \in R
    OBVIOUS
  <2>2. Cardinality(below(x)) \in Int /\ Cardinality(below(y)) \in Int
    <3>. HIDE DEF below, c
    <3>. QED  BY <1>1, <1>2
  <2>3. CASE x = y
    <3>. HIDE DEF below
    <3>. QED  BY <2>2, <2>3
  <2>4. CASE <<y, x>> \in R
    <3>1. Cardinality(below(y)) < Cardinality(below(x))
      BY <1>3, <2>4
    <3>. HIDE DEF below
    <3>. QED  BY <2>2, <3>1
  <2>. QED  BY <2>1, <2>3, <2>4
<1>6. rank \in Injection(S, 0..(c - 1))
  <2>1. rank \in [S -> 0..(c - 1)]
    BY <1>2
  <2>2. \A x, y \in S : rank[x] = rank[y] => x = y
    <3>. HIDE DEF below, c
    <3>. QED  BY <1>4
  <2>. HIDE DEF rank
  <2>. QED  BY <2>1, <2>2 DEF Injection, IsInjective
<1>7. IsFiniteSet(0..(c - 1)) /\ Cardinality(0..(c - 1)) = c
  <2>. HIDE DEF c
  <2>. QED  BY <1>1, FS_Interval
<1>8. rank \in Surjection(S, 0..(c - 1))
  <2>. HIDE DEF rank
  <2>. QED  BY <1>6, <1>7, FS_Injection
<1>9. \A n \in 0..(c - 1) : \E x \in S : Cardinality(below(x)) = n
  <2>1. \A n \in 0..(c - 1) : \E x \in S : rank[x] = n
    <3>. HIDE DEF rank
    <3>. QED  BY <1>8 DEF Surjection
  <2>. HIDE DEF below, c
  <2>. QED  BY <2>1
<1>. QED
  <2>1. c \in Nat /\ \A x \in S : Cardinality(below(x)) \in 0..(c - 1)
    BY <1>1, <1>2
  <2>2. \A x, y \in S : <<x, y>> \in R <=> Cardinality(below(x)) < Cardinality(below(y))
    <3>. HIDE DEF below
    <3>. QED  BY <1>3, <1>5
  <2>3. \A x \in S : place[x] = Cardinality(below(x))
    BY DEF Below, Ranks
  <2>. HIDE DEF below
  <2>. QED  BY <2>1, <2>2, <2>3, <1>4, <1>9

(* What a sequence that reaches every member of S lists.                   *)
LEMMA ToSetBy ==
    ASSUME NEW S, NEW c, NEW s, DOMAIN s = 1..c, \A n \in 1..c : s[n] \in S,
           \A x \in S : \E n \in 1..c : s[n] = x
    PROVE  ToSet(s) = S
BY Zenon DEF ToSet

(* A sequence by place lists in order.                                     *)
LEMMA Ranked ==
    ASSUME NEW S, IsFiniteSet(S), NEW R, StrictOrder(S, R), NEW place, Ranks(S, R, place),
           NEW s \in [1..Cardinality(S) -> S],
           \A n \in 1..Cardinality(S) : place[s[n]] = n - 1
    PROVE  Listed(S, R, s)
<1>. DEFINE c == Cardinality(S)
<1>1. /\ c \in Nat
      /\ \A x \in S : place[x] \in 0..(c - 1)
      /\ \A x, y \in S : <<x, y>> \in R <=> place[x] < place[y]
      /\ \A x, y \in S : place[x] = place[y] => x = y
      /\ \A n \in 0..(c - 1) : \E x \in S : place[x] = n
  <2>1. /\ Cardinality(S) \in Nat
        /\ \A x \in S : place[x] \in 0..(Cardinality(S) - 1)
        /\ \A x, y \in S : <<x, y>> \in R <=> place[x] < place[y]
        /\ \A x, y \in S : place[x] = place[y] => x = y
        /\ \A n \in 0..(Cardinality(S) - 1) : \E x \in S : place[x] = n
    BY Places
  <2>. QED  BY <2>1
<1>2. s \in [1..c -> S] /\ \A n \in 1..c : place[s[n]] = n - 1
  OBVIOUS
<1>. HIDE DEF c
<1>3. ASSUME NEW n \in 1..c PROVE s[n] \in S /\ place[s[n]] = n - 1
  BY <1>2
<1>4. s \in Seq(S) /\ Len(s) = c /\ DOMAIN s = 1..c
  BY <1>1, <1>2, AsSequence
<1>5. ASSUME NEW x \in S PROVE \E n \in 1..c : s[n] = x
  <2>1. place[x] \in 0..(c - 1) /\ place[x] + 1 \in 1..c
    BY <1>1
  <2>2. PICK k \in 1..c : k = place[x] + 1
    BY <2>1
  <2>3. s[k] \in S /\ place[s[k]] = k - 1
    BY <1>3
  <2>4. place[s[k]] = place[x]
    BY <2>1, <2>2, <2>3
  <2>5. s[k] = x
    BY <1>1, <2>3, <2>4
  <2>. QED  BY <2>5
<1>7. \A m, n \in 1..c : /\ m < n <=> <<s[m], s[n]>> \in R
                         /\ s[m] = s[n] => m = n
  <2>. TAKE m, n \in 1..c
  <2>1. s[m] \in S /\ s[n] \in S /\ place[s[m]] = m - 1 /\ place[s[n]] = n - 1
    BY <1>3
  <2>2. m \in Int /\ n \in Int
    OBVIOUS
  <2>3. <<s[m], s[n]>> \in R <=> place[s[m]] < place[s[n]]
    BY <1>1, <2>1
  <2>4. m < n <=> place[s[m]] < place[s[n]]
    BY <2>1, <2>2
  <2>5. s[m] = s[n] => m = n
    BY <2>1, <2>2
  <2>. QED  BY <2>3, <2>4, <2>5
<1>. QED  BY <1>1, <1>4, <1>5, <1>7 DEF Listed, c

(* InOrder, over pairs.                                                    *)
Sorted(S, R) ==
    [n \in 1..Cardinality(S) |-> CHOOSE x \in S : Cardinality(Below(S, R, x)) = n - 1]

(* slices.SortFunc by a strict order lists every member once, in order.    *)
LEMMA SortedIsListed ==
    ASSUME NEW S, IsFiniteSet(S), NEW R, StrictOrder(S, R)
    PROVE  Listed(S, R, Sorted(S, R))
<1>. DEFINE place == [x \in S |-> Cardinality(Below(S, R, x))]
            s == Sorted(S, R)
<1>1. Ranks(S, R, place)
  BY DEF Ranks
<1>2. ASSUME NEW n \in 1..Cardinality(S), \E x \in S : place[x] = n - 1
      PROVE  s[n] \in S /\ place[s[n]] = n - 1
  <2>1. s[n] = CHOOSE x \in S : place[x] = n - 1
    BY DEF Sorted
  <2>. HIDE DEF place, s
  <2>. QED  BY <1>2, <2>1
<1>3. /\ Cardinality(S) \in Nat
      /\ \A n \in 0..(Cardinality(S) - 1) : \E x \in S : place[x] = n
  <2>. HIDE DEF place, s
  <2>. QED  BY <1>1, Places
<1>4. \A n \in 1..Cardinality(S) : s[n] \in S /\ place[s[n]] = n - 1
  <2>. HIDE DEF place, s
  <2>1. \A n \in 1..Cardinality(S) : n - 1 \in 0..(Cardinality(S) - 1)
    BY <1>3
  <2>. QED  BY <1>2, <1>3, <2>1
<1>5. s \in [1..Cardinality(S) -> S]
  BY <1>4 DEF Sorted
<1>. HIDE DEF place, s
<1>6. \A n \in 1..Cardinality(S) : place[s[n]] = n - 1
  BY <1>4
<1>7. Listed(S, R, s)
  BY <1>1, <1>5, <1>6, Ranked
<1>. QED  BY <1>7 DEF s

(* The positions at are those of N, rising, and s is read at each.         *)
PickedAt(s, N, at) ==
    /\ Len(at) = Cardinality(N) /\ Cardinality(N) \in Nat /\ DOMAIN at = 1..Len(at)
    /\ \A n \in N : \E i \in 1..Len(at) : at[i] = n
    /\ Len(Picked(s, N)) = Len(at) /\ DOMAIN Picked(s, N) = 1..Len(at)
    /\ \A i \in 1..Len(at) : at[i] \in N /\ Picked(s, N)[i] = s[at[i]]
    /\ \A i, j \in 1..Len(at) : i < j => at[i] < at[j]

(* Picked reads s at the positions of N, in order.                         *)
LEMMA PickedBy ==
    ASSUME NEW s, NEW N, IsFiniteSet(N), \A n \in N : n \in Nat
    PROVE  \E at \in Seq(N) : PickedAt(s, N, at)
<1>. DEFINE R == {e \in N \X N : e[1] < e[2]}
            at == Sorted(N, R)
<1>1. \A m, n \in N : <<m, n>> \in R <=> m < n
  OBVIOUS
<1>2. StrictOrder(N, R)
  <2>. HIDE DEF R
  <2>. QED  BY <1>1 DEF StrictOrder
<1>3. Listed(N, R, at)
  <2>. HIDE DEF R
  <2>. QED  BY <1>2, SortedIsListed
<1>4. \A i \in 1..Cardinality(N) : Picked(s, N)[i] = s[at[i]]
  <2>. TAKE i \in 1..Cardinality(N)
  <2>1. \A n \in N : {m \in N : m < n} = Below(N, R, n)
    BY DEF Below
  <2>. HIDE DEF R
  <2>2. Picked(s, N)[i] = s[CHOOSE n \in N : Cardinality({m \in N : m < n}) = i - 1]
    BY DEF Picked
  <2>3. \A n \in N : Cardinality({m \in N : m < n}) = i - 1 <=> Cardinality(Below(N, R, n)) = i - 1
    BY <2>1
  <2>4. (CHOOSE n \in N : Cardinality({m \in N : m < n}) = i - 1)
          = (CHOOSE n \in N : Cardinality(Below(N, R, n)) = i - 1)
    BY <2>3
  <2>5. at[i] = CHOOSE n \in N : Cardinality(Below(N, R, n)) = i - 1
    BY DEF Sorted
  <2>. QED  BY <2>2, <2>4, <2>5
<1>. HIDE DEF R, at
<1>5. Len(Picked(s, N)) = Cardinality(N) /\ DOMAIN Picked(s, N) = 1..Cardinality(N)
  BY <1>3 DEF Picked, Listed
<1>6. \A i, j \in 1..Cardinality(N) : i < j => at[i] < at[j]
  <2>1. \A i \in 1..Cardinality(N) : at[i] \in N
    BY <1>3 DEF Listed
  <2>2. \A i, j \in 1..Cardinality(N) : i < j => <<at[i], at[j]>> \in R
    BY <1>3 DEF Listed
  <2>. QED  BY <1>1, <2>1, <2>2
<1>. QED  BY <1>3, <1>4, <1>5, <1>6 DEF Listed, PickedAt

(* Lexicographic order on tuples of one length is a strict order.          *)
LEMMA LexicalOrder ==
    ASSUME NEW k \in Nat, NEW s \in [1..k -> Nat], NEW t \in [1..k -> Nat], NEW u \in [1..k -> Nat]
    PROVE  /\ ~LexicallyBefore(s, s)
           /\ LexicallyBefore(s, t) /\ LexicallyBefore(t, u) => LexicallyBefore(s, u)
           /\ s # t => LexicallyBefore(s, t) \/ LexicallyBefore(t, s)
<1>1. ~LexicallyBefore(s, s)
  BY DEF LexicallyBefore
<1>2. ASSUME LexicallyBefore(s, t), LexicallyBefore(t, u) PROVE LexicallyBefore(s, u)
  <2>1. PICK m \in 1..k : s[m] < t[m] /\ \A i \in 1..(m - 1) : s[i] = t[i]
    BY <1>2 DEF LexicallyBefore
  <2>2. PICK n \in 1..k : t[n] < u[n] /\ \A i \in 1..(n - 1) : t[i] = u[i]
    BY <1>2 DEF LexicallyBefore
  <2>3. CASE m <= n
    <3>1. s[m] < u[m] /\ \A i \in 1..(m - 1) : s[i] = u[i]
      BY <2>1, <2>2, <2>3
    <3>. QED  BY <3>1 DEF LexicallyBefore
  <2>4. CASE n < m
    <3>1. s[n] < u[n] /\ \A i \in 1..(n - 1) : s[i] = u[i]
      BY <2>1, <2>2, <2>4
    <3>. QED  BY <3>1 DEF LexicallyBefore
  <2>. QED  BY <2>3, <2>4
<1>3. ASSUME s # t PROVE LexicallyBefore(s, t) \/ LexicallyBefore(t, s)
  <2>1. \E n \in 1..k : s[n] # t[n]
    BY <1>3
  <2>2. PICK m \in {n \in 1..k : s[n] # t[n]} : \A n \in {i \in 1..k : s[i] # t[i]} : m <= n
    <3>. DEFINE D == {n \in 1..k : s[n] # t[n]}
    <3>1. D # {}
      BY <2>1
    <3>3. D \in SUBSET Nat
      OBVIOUS
    <3>. HIDE DEF D
    <3>2. \E m \in D : \A n \in D : m <= n
      BY <3>1, <3>3, LeastNumber
    <3>. QED  BY <3>2 DEF D
  <2>3. \A n \in 1..(m - 1) : s[n] = t[n]
    BY <2>2
  <2>4. m \in 1..k /\ s[m] \in Nat /\ t[m] \in Nat /\ (s[m] < t[m] \/ t[m] < s[m])
    BY <2>2
  <2>. QED  BY <2>3, <2>4 DEF LexicallyBefore
<1>. QED  BY <1>1, <1>2, <1>3

-----------------------------------------------------------------------------
(* The Kinds: the list's and the picker's order are strict orders.         *)

(* The Kinds composing is meaningful for where `broken` does not answer.   *)
Browsables(broken) ==
    {BrowsableKind(r) : r \in {q \in Resources : /\ IsPersistable(q)
                                                 /\ <<q.group, q.version>> \notin broken}}
(* compareKinds, over pairs.                                               *)
ListOrder(S) == {e \in S \X S : KindOrder(e[1], e[2])}
(* The picker's order, over pairs.                                         *)
RowOrder(S) == {e \in S \X S : PickerOrder(e[1], e[2])}

(* An image of a finite set is finite.                                     *)
LEMMA ImageIsFinite ==
    ASSUME NEW S, IsFiniteSet(S), NEW T, NEW f \in [S -> T], \A y \in T : \E x \in S : f[x] = y
    PROVE  IsFiniteSet(T)
<1>1. f \in Surjection(S, T)
  BY DEF Surjection
<1>. QED  BY <1>1, FS_Surjection

(* A Kind is one of a resource, and its Gvk tells which.                   *)
LEMMA KindFacts ==
    ASSUME NEW broken
    PROVE  /\ IsFiniteSet(Browsables(broken))
           /\ \A k \in Browsables(broken) :
                /\ k # Nothing
                /\ k.group \in DOMAIN Rank /\ k.version \in DOMAIN Rank /\ k.kind \in DOMAIN Rank
                /\ k.preferred <=> k.group \in DOMAIN Preferred /\ Preferred[k.group] = k.version
           /\ \A k, l \in Browsables(broken) : Gvk(k) = Gvk(l) => k = l
<1>. DEFINE P == {q \in Resources : IsPersistable(q) /\ <<q.group, q.version>> \notin broken}
            f == [r \in P |-> BrowsableKind(r)]
<1>1. IsFiniteSet(P)
  <2>1. P \in SUBSET Resources
    OBVIOUS
  <2>. HIDE DEF P
  <2>. QED  BY <2>1, FS_Subset, DiscoveryAssumption
<1>2. \A k \in Browsables(broken) : \E r \in P : f[r] = k
  BY DEF Browsables
<1>3. IsFiniteSet(Browsables(broken))
  <2>1. f \in [P -> Browsables(broken)]
    BY DEF Browsables
  <2>. HIDE DEF P, f
  <2>. QED  BY <1>1, <1>2, <2>1, ImageIsFinite
<1>4. \A k \in Browsables(broken) : \E r \in Resources : IsPersistable(r) /\ k = BrowsableKind(r)
  BY DEF Browsables
<1>5. ASSUME NEW r \in Resources
      PROVE  LET k == BrowsableKind(r) IN
             /\ k # Nothing
             /\ k.group \in DOMAIN Rank /\ k.version \in DOMAIN Rank /\ k.kind \in DOMAIN Rank
             /\ k.preferred <=> k.group \in DOMAIN Preferred /\ Preferred[k.group] = k.version
  <2>1. /\ {r.group, r.version, r.kind} \subseteq DOMAIN Rank
        /\ {r.ownGroup, r.ownVersion} \subseteq DOMAIN Rank \cup {Nothing}
    BY DiscoveryAssumption
  <2>2. BrowsableKind(r) # Nothing
    BY KindAssumption
  <2>3. LET k == BrowsableKind(r) IN
        /\ k.group = IF r.ownGroup = Nothing THEN r.group ELSE r.ownGroup
        /\ k.version = IF r.ownVersion = Nothing THEN r.version ELSE r.ownVersion
        /\ k.kind = r.kind
        /\ k.preferred <=> k.group \in DOMAIN Preferred /\ Preferred[k.group] = k.version
    BY Zenon DEF BrowsableKind
  <2>. QED  BY <2>1, <2>2, <2>3
<1>6. \A k \in Browsables(broken) :
        /\ k # Nothing
        /\ k.group \in DOMAIN Rank /\ k.version \in DOMAIN Rank /\ k.kind \in DOMAIN Rank
        /\ k.preferred <=> k.group \in DOMAIN Preferred /\ Preferred[k.group] = k.version
  BY <1>4, <1>5
<1>7. \A k, l \in Browsables(broken) : Gvk(k) = Gvk(l) => k = l
  BY <1>4, KindAssumption
<1>. QED  BY <1>3, <1>6, <1>7

(* An order by a key that tells the elements apart.                        *)
LEMMA KeyedOrder ==
    ASSUME NEW S, NEW n \in Nat, NEW key \in [S -> [1..n -> Nat]],
           \A x, y \in S : key[x] = key[y] => x = y,
           NEW R, \A x, y \in S : <<x, y>> \in R <=> LexicallyBefore(key[x], key[y])
    PROVE  StrictOrder(S, R)
<1>1. \A x, y, z \in S :
        /\ ~LexicallyBefore(key[x], key[x])
        /\ LexicallyBefore(key[x], key[y]) /\ LexicallyBefore(key[y], key[z])
             => LexicallyBefore(key[x], key[z])
        /\ key[x] # key[y] => LexicallyBefore(key[x], key[y]) \/ LexicallyBefore(key[y], key[x])
  BY LexicalOrder
<1>. QED  BY <1>1 DEF StrictOrder

(* compareKinds is a strict order on what is discovered (compareKinds).    *)
LEMMA ListOrderIsStrict ==
    ASSUME NEW broken
    PROVE  StrictOrder(Browsables(broken), ListOrder(Browsables(broken)))
<1>. DEFINE S == Browsables(broken)
            key == [k \in S |-> <<Rank[k.group], Rank[k.version], Rank[k.kind]>>]
<1>1. \A k \in S : k.group \in DOMAIN Rank /\ k.version \in DOMAIN Rank /\ k.kind \in DOMAIN Rank
  BY KindFacts
<1>2. \A k \in S : Rank[k.group] \in Nat /\ Rank[k.version] \in Nat /\ Rank[k.kind] \in Nat
  BY <1>1, DiscoveryAssumption
<1>3. key \in [S -> [1..3 -> Nat]]
  BY <1>2
<1>4. ASSUME NEW k \in S, NEW l \in S, key[k] = key[l] PROVE k = l
  <2>1. Rank[k.group] = Rank[l.group] /\ Rank[k.version] = Rank[l.version] /\ Rank[k.kind] = Rank[l.kind]
    BY <1>4
  <2>2. k.group = l.group /\ k.version = l.version /\ k.kind = l.kind
    BY <1>1, <2>1, DiscoveryAssumption
  <2>. QED  BY <2>2, KindFacts DEF Gvk
<1>5. \A k, l \in S : <<k, l>> \in ListOrder(S) <=> LexicallyBefore(key[k], key[l])
  BY DEF ListOrder, KindOrder
<1>. QED
  <2>. HIDE DEF key
  <2>. QED  BY <1>3, <1>4, <1>5, KeyedOrder

(* So is the picker's, which puts a Kind's preferred version first.        *)
LEMMA RowOrderIsStrict ==
    ASSUME NEW broken
    PROVE  StrictOrder(Browsables(broken), RowOrder(Browsables(broken)))
<1>. DEFINE S == Browsables(broken)
            last(k) == IF k.preferred THEN 0 ELSE 1
            key == [k \in S |-> <<Rank[k.group], Rank[k.kind], last(k), Rank[k.version]>>]
<1>1. \A k \in S : k.group \in DOMAIN Rank /\ k.version \in DOMAIN Rank /\ k.kind \in DOMAIN Rank
  BY KindFacts
<1>2. \A k \in S : Rank[k.group] \in Nat /\ Rank[k.version] \in Nat /\ Rank[k.kind] \in Nat
  BY <1>1, DiscoveryAssumption
<1>3. key \in [S -> [1..4 -> Nat]]
  BY <1>2
<1>4. ASSUME NEW k \in S, NEW l \in S, key[k] = key[l] PROVE k = l
  <2>1. Rank[k.group] = Rank[l.group] /\ Rank[k.version] = Rank[l.version] /\ Rank[k.kind] = Rank[l.kind]
    BY <1>4
  <2>2. k.group = l.group /\ k.version = l.version /\ k.kind = l.kind
    BY <1>1, <2>1, DiscoveryAssumption
  <2>. QED  BY <2>2, KindFacts DEF Gvk
<1>5. \A k, l \in S : <<k, l>> \in RowOrder(S) <=> LexicallyBefore(key[k], key[l])
  BY DEF RowOrder, PickerOrder
<1>. QED
  <2>. HIDE DEF key
  <2>. QED  BY <1>3, <1>4, <1>5, KeyedOrder

(* Sorting by KindOrder is sorting by the pairs it relates.                *)
LEMMA InListOrder ==
    ASSUME NEW S
    PROVE  InOrder(S, KindOrder) = Sorted(S, ListOrder(S))
<1>1. \A x \in S : {y \in S : KindOrder(y, x)} = Below(S, ListOrder(S), x)
  BY DEF Below, ListOrder
<1>2. ASSUME NEW n
      PROVE  (CHOOSE x \in S : Cardinality({y \in S : KindOrder(y, x)}) = n - 1)
               = (CHOOSE x \in S : Cardinality(Below(S, ListOrder(S), x)) = n - 1)
  <2>1. \A x \in S : Cardinality({y \in S : KindOrder(y, x)}) = n - 1
                     <=> Cardinality(Below(S, ListOrder(S), x)) = n - 1
    BY <1>1
  <2>. QED  BY <2>1
<1>3. InOrder(S, KindOrder) =
        [n \in 1..Cardinality(S) |-> CHOOSE x \in S : Cardinality({y \in S : KindOrder(y, x)}) = n - 1]
  BY DEF InOrder
<1>. QED  BY <1>2, <1>3 DEF Sorted

(* Sorting by PickerOrder is sorting by the pairs it relates.              *)
LEMMA InRowOrder ==
    ASSUME NEW S
    PROVE  InOrder(S, PickerOrder) = Sorted(S, RowOrder(S))
<1>1. \A x \in S : {y \in S : PickerOrder(y, x)} = Below(S, RowOrder(S), x)
  BY DEF Below, RowOrder
<1>2. ASSUME NEW n
      PROVE  (CHOOSE x \in S : Cardinality({y \in S : PickerOrder(y, x)}) = n - 1)
               = (CHOOSE x \in S : Cardinality(Below(S, RowOrder(S), x)) = n - 1)
  <2>1. \A x \in S : Cardinality({y \in S : PickerOrder(y, x)}) = n - 1
                     <=> Cardinality(Below(S, RowOrder(S), x)) = n - 1
    BY <1>1
  <2>. QED  BY <2>1
<1>3. InOrder(S, PickerOrder) =
        [n \in 1..Cardinality(S) |-> CHOOSE x \in S : Cardinality({y \in S : PickerOrder(y, x)}) = n - 1]
  BY DEF InOrder
<1>. QED  BY <1>2, <1>3 DEF Sorted

(* What Launch makes of the answer.                                        *)
LEMMA RowsAreListed ==
    ASSUME NEW broken, NEW malformed
    PROVE  LET S == Browsables(broken)
               found == DiscoverKinds(Answer(broken, malformed))
           IN  /\ Listed(S, ListOrder(S), found)
               /\ ToSet(found) = S
               /\ Listed(S, RowOrder(S), PickerRows(found))
<1>. DEFINE S == Browsables(broken)
            found == DiscoverKinds(Answer(broken, malformed))
<1>1. IsFiniteSet(S) /\ StrictOrder(S, ListOrder(S)) /\ StrictOrder(S, RowOrder(S))
  BY KindFacts, ListOrderIsStrict, RowOrderIsStrict
<1>2. {BrowsableKind(r) : r \in {q \in Answer(broken, malformed).resources : IsPersistable(q)}} = S
  <2>1. Answer(broken, malformed).resources = {r \in Resources : <<r.group, r.version>> \notin broken}
    BY DEF Answer
  <2>2. {q \in Answer(broken, malformed).resources : IsPersistable(q)}
          = {q \in Resources : IsPersistable(q) /\ <<q.group, q.version>> \notin broken}
    BY <2>1
  <2>. QED  BY <2>2 DEF Browsables
<1>3. found = Sorted(S, ListOrder(S))
  BY <1>2, InListOrder DEF DiscoverKinds
<1>4. Listed(S, ListOrder(S), found)
  <2>. HIDE DEF S, found
  <2>. QED  BY <1>1, <1>3, SortedIsListed
<1>5. ToSet(found) = S
  <2>. HIDE DEF S, found
  <2>1. /\ DOMAIN found = 1..Cardinality(S) /\ found \in Seq(S) /\ Len(found) = Cardinality(S)
        /\ \A x \in S : \E n \in 1..Cardinality(S) : found[n] = x
    BY <1>4 DEF Listed
  <2>2. \A n \in 1..Cardinality(S) : found[n] \in S
    BY <2>1
  <2>. QED  BY Zenon, <2>1, <2>2 DEF ToSet
<1>6. PickerRows(found) = Sorted(S, RowOrder(S))
  <2>. HIDE DEF S, found
  <2>. QED  BY <1>5, InRowOrder DEF PickerRows
<1>7. Listed(S, RowOrder(S), PickerRows(found))
  <2>. HIDE DEF S, found
  <2>. QED  BY <1>1, <1>6, SortedIsListed
<1>. QED  BY <1>4, <1>5, <1>7

(* What a reader of a listing needs.                                       *)
LEMMA ListedFacts ==
    ASSUME NEW S, NEW R, NEW s, Listed(S, R, s)
    PROVE  /\ Len(s) \in Nat /\ DOMAIN s = 1..Len(s)
           /\ ToSet(s) = S
           /\ \A n \in 1..Len(s) : s[n] \in S
           /\ \A m, n \in 1..Len(s) : m < n => <<s[m], s[n]>> \in R
           /\ \A m, n \in 1..Len(s) : s[m] = s[n] => m = n
<1>1. /\ DOMAIN s = 1..Cardinality(S) /\ s \in Seq(S) /\ Len(s) = Cardinality(S) /\ Len(s) \in Nat
      /\ \A x \in S : \E n \in 1..Cardinality(S) : s[n] = x
      /\ \A m, n \in 1..Cardinality(S) : m < n => <<s[m], s[n]>> \in R
      /\ \A m, n \in 1..Cardinality(S) : s[m] = s[n] => m = n
  BY DEF Listed
<1>2. \A n \in 1..Len(s) : s[n] \in S
  BY <1>1
<1>3. ToSet(s) = S
  <2>1. \A x \in S : \E n \in DOMAIN s : s[n] = x
    BY <1>1
  <2>2. \A n \in DOMAIN s : s[n] \in S
    BY <1>1, <1>2
  <2>. QED  BY Zenon, <2>1, <2>2 DEF ToSet
<1>. QED  BY <1>1, <1>2, <1>3

(* The positions of a sequence that are picked out.                        *)
LEMMA PickedOut ==
    ASSUME NEW s, Len(s) \in Nat, DOMAIN s = 1..Len(s), NEW N \in SUBSET DOMAIN s
    PROVE  /\ Len(Picked(s, N)) \in Nat /\ DOMAIN Picked(s, N) = 1..Len(Picked(s, N))
           /\ Len(Picked(s, N)) = Cardinality(N) /\ IsFiniteSet(N)
           /\ \A n \in N : \E i \in 1..Len(Picked(s, N)) : Picked(s, N)[i] = s[n]
           /\ \A i \in 1..Len(Picked(s, N)) : \E n \in N : Picked(s, N)[i] = s[n]
           /\ \A i, j \in 1..Len(Picked(s, N)) : i < j =>
                \E m, n \in N : m < n /\ Picked(s, N)[i] = s[m] /\ Picked(s, N)[j] = s[n]
           /\ ToSet(Picked(s, N)) = {s[n] : n \in N}
           /\ Picked(s, N) = <<>> <=> N = {}
<1>1. IsFiniteSet(N) /\ \A n \in N : n \in Nat
  <2>1. IsFiniteSet(1..Len(s))
    BY FS_Interval
  <2>2. N \in SUBSET (1..Len(s))
    OBVIOUS
  <2>. QED  BY <2>1, <2>2, FS_Subset
<1>2. \E at \in Seq(N) : PickedAt(s, N, at)
  BY <1>1, PickedBy
<1>. DEFINE t == Picked(s, N)
<1>. HIDE DEF t
<1>3. PICK at \in Seq(N) :
             /\ Len(at) = Cardinality(N) /\ Cardinality(N) \in Nat /\ DOMAIN at = 1..Len(at)
             /\ \A n \in N : \E i \in 1..Len(at) : at[i] = n
             /\ Len(t) = Len(at) /\ DOMAIN t = 1..Len(at)
             /\ \A i \in 1..Len(at) : at[i] \in N /\ t[i] = s[at[i]]
             /\ \A i, j \in 1..Len(at) : i < j => at[i] < at[j]
  BY <1>2 DEF t, PickedAt
<1>4. Len(t) \in Nat /\ DOMAIN t = 1..Len(t) /\ Len(t) = Cardinality(N)
  BY <1>3
<1>5. \A n \in N : \E i \in 1..Len(t) : t[i] = s[n]
  BY <1>3
<1>6. \A i \in 1..Len(t) : \E n \in N : t[i] = s[n]
  BY <1>3
<1>7. \A i, j \in 1..Len(t) : i < j => \E m, n \in N : m < n /\ t[i] = s[m] /\ t[j] = s[n]
  BY <1>3
<1>8. ToSet(t) = {s[n] : n \in N}
  <2>1. \A i \in DOMAIN t : t[i] \in {s[n] : n \in N}
    BY <1>4, <1>6
  <2>2. \A x \in {s[n] : n \in N} : \E i \in DOMAIN t : t[i] = x
    BY <1>4, <1>5
  <2>. QED  BY Zenon, <2>1, <2>2 DEF ToSet
<1>9. t = <<>> <=> N = {}
  <2>1. t = <<>> => Len(t) = 0
    OBVIOUS
  <2>2. N = {} => t = <<>>
    BY FS_EmptySet DEF t, Picked
  <2>. QED  BY <1>4, <1>5, <1>6, <2>1, <2>2
<1>. QED  BY <1>1, <1>4, <1>5, <1>6, <1>7, <1>8, <1>9 DEF t

-----------------------------------------------------------------------------
(* The launch: what the picker lists, and what a deep link resolves to.    *)

-----------------------------------------------------------------------------
(* The launch.                                                             *)

(* Where a Session can be.                                                 *)
Stages == {"launch", "refused", "picker", "opening", "failed", "compose", "ended"}
(* Past the pre-flight.                                                    *)
Started == stage \notin {"launch", "refused"}
(* The picker's rows are all that can be browsed, in its order.            *)
AllRows(b, s) == Listed(Browsables(b), RowOrder(Browsables(b)), s)

(* Once launched, the rows are those of the cluster the launch met;        *)
(* before, there are none.                                                 *)
LaunchInv ==
    /\ stage \in Stages
    /\ (stage = "refused") = (refusal # Nothing)
    /\ refusal = "discovery" => ~cluster.up \/ cluster.malformed
    /\ ~Started => kinds = <<>> /\ picker = NewList /\ height = 0
    /\ Started => AllRows(cluster.broken, kinds)

(* Discovery fails only where nothing answers or the answer is malformed;  *)
(* otherwise it lists what can be browsed.                                 *)
LEMMA DiscoveryAnswers ==
    /\ DiscoveryFails(Discovered) => ~cluster.up \/ cluster.malformed
    /\ ~DiscoveryFails(Discovered) =>
         /\ Discovered = Answer(cluster.broken, cluster.malformed)
         /\ AllRows(cluster.broken, PickerRows(DiscoverKinds(Discovered)))
<1>1. DiscoveryFails(Discovered) => ~cluster.up \/ cluster.malformed
  BY DEF DiscoveryFails, Discovered, Answer
<1>2. ~DiscoveryFails(Discovered) => Discovered = Answer(cluster.broken, cluster.malformed)
  BY DEF DiscoveryFails, Discovered, Unanswered
<1>3. AllRows(cluster.broken, PickerRows(DiscoverKinds(Answer(cluster.broken, cluster.malformed))))
  BY RowsAreListed DEF AllRows
<1>. QED  BY <1>1, <1>2, <1>3

(* It holds at the start.                                                  *)
LEMMA InitLaunch == BrowseInit => LaunchInv
<1>. SUFFICES ASSUME BrowseInit PROVE LaunchInv
  OBVIOUS
<1>1. /\ stage = "launch" /\ refusal = Nothing
      /\ kinds = <<>> /\ picker = NewList /\ height = 0
  BY DEF BrowseInit
<1>2. refusal # "discovery"
  BY <1>1, BrowseAssumption
<1>. QED  BY <1>1, <1>2 DEF LaunchInv, Stages, Started

(* What every step but the launch's leaves alone.                          *)
LEMMA OtherSteps ==
    ASSUME BrowseStep
    PROVE  \/ RefuseLaunch
           \/ Launch
           \/ /\ Started /\ Started'
              /\ stage' \in Stages
              /\ UNCHANGED <<refusal, cluster, kinds>>
<1>. USE DEF Started, Stages, launchVars
<1>1. ASSUME NEW list, Pick(list)
      PROVE  /\ Started /\ Started' /\ stage' \in Stages
             /\ UNCHANGED <<refusal, cluster, kinds>>
  BY <1>1 DEF Pick
<1>2. CASE TypePicker
  BY <1>1, <1>2 DEF TypePicker
<1>3. CASE ErasePicker
  BY <1>1, <1>3 DEF ErasePicker
<1>4. CASE ClearPicker
  BY <1>1, <1>4 DEF ClearPicker
<1>5. CASE \E delta \in {1, -1} : MovePicker(delta)
  BY <1>1, <1>5 DEF MovePicker
<1>6. CASE Resize
  BY <1>6 DEF Resize
<1>7. CASE SelectHighlighted
  BY <1>7 DEF SelectHighlighted
<1>8. CASE OpenCompose
  BY <1>8 DEF OpenCompose
<1>9. CASE FailToOpen
  BY <1>9 DEF FailToOpen
<1>10. CASE ReturnToPicker
  BY <1>10 DEF ReturnToPicker
<1>11. CASE Quit
  BY <1>11 DEF Quit
<1>12. CASE Compose
  BY <1>12 DEF Compose
<1>. QED
  BY <1>2, <1>3, <1>4, <1>5, <1>6, <1>7, <1>8, <1>9, <1>10, <1>11, <1>12 DEF BrowseStep

(* Every step keeps it.                                                    *)
LEMMA LaunchStep ==
    ASSUME LaunchInv, BrowseStep
    PROVE  LaunchInv'
<1>1. CASE RefuseLaunch
  <2>1. ASSUME NEW cause \in {"connection", "discovery", "namespace", "link", "terminal"},
               Refuse(cause), stage = "launch",
               cause = "discovery" => DiscoveryFails(Discovered)
        PROVE  LaunchInv'
    BY <2>1, DiscoveryAnswers, BrowseAssumption
       DEF Refuse, LaunchInv, Stages, Started, pickerVars
  <2>. QED  BY <1>1, <2>1 DEF RefuseLaunch
<1>2. CASE Launch
  <2>1. stage' \in {"picker", "opening"} /\ UNCHANGED <<refusal, cluster>>
    BY <1>2 DEF Launch
  <2>2. AllRows(cluster.broken, kinds')
    BY <1>2, DiscoveryAnswers DEF Launch
  <2>3. refusal = Nothing
    BY <1>2 DEF Launch, LaunchInv
  <2>. QED  BY <2>1, <2>2, <2>3, BrowseAssumption DEF LaunchInv, Stages, Started
<1>3. CASE /\ Started /\ Started'
           /\ stage' \in Stages
           /\ UNCHANGED <<refusal, cluster, kinds>>
  BY <1>3 DEF LaunchInv, Started
<1>. QED  BY <1>1, <1>2, <1>3, OtherSteps

(* So does a stutter.                                                      *)
LEMMA LaunchStutter == LaunchInv /\ UNCHANGED browseVars => LaunchInv'
BY DEF LaunchInv, browseVars, launchVars, pickerVars, Started

(* The picker's rows are what the cluster serves, whatever is down, for as *)
(* long as the Session lasts (DiscoverKinds, newPicker).                   *)
THEOREM LaunchTheorem == BrowseSpec => []LaunchInv
<1>1. LaunchInv /\ [BrowseNext]_browseVars => LaunchInv'
  BY LaunchStep, LaunchStutter DEF BrowseNext
<1>. QED  BY <1>1, InitLaunch, PTL DEF BrowseSpec

(* One apiservice down does not take the picker down: every Kind outside   *)
(* the group versions that are unavailable is listed, each once           *)
(* (DiscoverKinds).                                                        *)
THEOREM BrokenApiserviceTheorem == BrowseSpec => []OneBrokenApiserviceHidesOnlyItself
<1>1. LaunchInv => OneBrokenApiserviceHidesOnlyItself
  <2>1. AllRows(cluster.broken, kinds) =>
          /\ ToSet(kinds) = Browsables(cluster.broken)
          /\ \A m, n \in DOMAIN kinds : kinds[m] = kinds[n] => m = n
    BY ListedFacts DEF AllRows
  <2>. QED  BY <2>1 DEF LaunchInv, Started, OneBrokenApiserviceHidesOnlyItself, Browsables
<1>. QED  BY <1>1, LaunchTheorem, PTL

(* What a token resolves to among Kinds each listed once.                  *)
LEMMA ResolvedToken ==
    ASSUME NEW s, Len(s) \in Nat, DOMAIN s = 1..Len(s), NEW token,
           ResolveKindToken(s, token) # Nothing
    PROVE  LET named == {k \in ToSet(s) : KindMatchesToken(k, token)}
               to == ResolveKindToken(s, token)
           IN  /\ to \in named
               /\ \A k \in named : GroupKind(k) = GroupKind(to)
               /\ (\E k \in named : k.preferred) => to.preferred
<1>. DEFINE N == {n \in DOMAIN s : KindMatchesToken(s[n], token)}
            matched_ == Picked(s, N)
            named == {k \in ToSet(s) : KindMatchesToken(k, token)}
            to == ResolveKindToken(s, token)
            groups == {GroupKind(k) : k \in named}
<1>1. named = {s[n] : n \in N}
  <2>1. \A k \in named : \E n \in N : k = s[n]
    BY DEF ToSet
  <2>2. \A n \in N : s[n] \in named
    BY DEF ToSet
  <2>. QED  BY Zenon, <2>1, <2>2
<1>2. N \in SUBSET DOMAIN s
  OBVIOUS
<1>3. to = IF Cardinality({GroupKind(kind_) : kind_ \in ToSet(matched_)}) = 1
           THEN PreferredVersionOf(matched_) ELSE Nothing
  BY DEF ResolveKindToken
<1>. HIDE DEF N, matched_, named, to
<1>4. /\ Len(matched_) \in Nat /\ DOMAIN matched_ = 1..Len(matched_)
      /\ Len(matched_) = Cardinality(N) /\ IsFiniteSet(N)
      /\ ToSet(matched_) = {s[n] : n \in N}
      /\ matched_ = <<>> <=> N = {}
  BY <1>2, PickedOut DEF matched_
<1>5. ToSet(matched_) = named
  BY <1>1, <1>4
<1>6. Cardinality(groups) = 1 /\ to = PreferredVersionOf(matched_)
  BY <1>3, <1>5 DEF to
<1>7. IsFiniteSet(groups)
  <2>. DEFINE f == [n \in N |-> GroupKind(s[n])]
  <2>1. \A y \in groups : \E n \in N : f[n] = y
    BY <1>1
  <2>2. f \in [N -> groups]
    BY <1>1
  <2>. HIDE DEF f, groups
  <2>. QED  BY <1>4, <2>1, <2>2, ImageIsFinite
<1>8. PICK g : groups = {g}
  <2>. HIDE DEF groups
  <2>. QED  BY <1>6, <1>7, FS_Singleton
<1>9. \A k \in named : GroupKind(k) = g
  BY <1>8
<1>10. named # {}
  BY <1>8
<1>11. matched_ # <<>> /\ 1 \in DOMAIN matched_
  <2>1. N # {}
    BY <1>1, <1>10
  <2>2. Len(matched_) # 0
    BY <1>4, <2>1, FS_EmptySet
  <2>. QED  BY <1>4, <2>1, <2>2
<1>12. \A n \in DOMAIN matched_ : matched_[n] \in named
  BY Zenon, <1>5 DEF ToSet
<1>13. \A k \in named : \E n \in DOMAIN matched_ : matched_[n] = k
  BY Zenon, <1>5 DEF ToSet
<1>. DEFINE M == {n \in DOMAIN matched_ : matched_[n].preferred}
            preferring == Picked(matched_, M)
<1>14. M \in SUBSET DOMAIN matched_
  OBVIOUS
<1>15. to = IF preferring = <<>> THEN Head(matched_) ELSE Head(preferring)
  BY <1>6 DEF PreferredVersionOf
<1>. HIDE DEF preferring
<1>16. /\ Len(preferring) \in Nat /\ DOMAIN preferring = 1..Len(preferring)
       /\ \A i \in 1..Len(preferring) : \E n \in M : preferring[i] = matched_[n]
       /\ preferring = <<>> <=> M = {}
       /\ Len(preferring) = Cardinality(M) /\ IsFiniteSet(M)
  <2>. HIDE DEF M
  <2>. QED  BY <1>4, <1>14, PickedOut DEF preferring
<1>17. CASE preferring = <<>>
  <2>1. to = matched_[1] /\ to \in named
    BY <1>11, <1>12, <1>15, <1>17
  <2>2. \A k \in named : ~k.preferred
    BY <1>13, <1>16, <1>17
  <2>. QED  BY <1>9, <2>1, <2>2 DEF named, to
<1>18. CASE preferring # <<>>
  <2>1. 1 \in 1..Len(preferring)
    <3>1. M # {}
      BY <1>16, <1>18
    <3>2. Cardinality(M) # 0
      BY <1>16, <3>1, FS_EmptySet
    <3>. QED  BY <1>16, <3>2
  <2>2. to = preferring[1]
    BY <1>15, <1>18
  <2>3. \E n \in M : to = matched_[n]
    BY <1>16, <2>1, <2>2
  <2>4. to \in named /\ to.preferred
    BY <1>12, <2>3
  <2>. QED  BY <1>9, <2>4 DEF named, to
<1>. QED  BY <1>17, <1>18

(* A deep link's token lands on one Kind, on its preferred version where   *)
(* the cluster has one, or the launch is refused (ResolveKindToken).       *)
THEOREM LinkTheorem == BrowseSpec => LinkLandsOnPreferred
<1>. DEFINE Named(l, token) == {k \in ToSet(l) : KindMatchesToken(k, token)}
            Link == stage = "launch" /\ stage' = "opening" =>
                      /\ kind' \in Named(kinds', arg.token)
                      /\ \A k \in Named(kinds', arg.token) : GroupKind(k) = GroupKind(kind')
                      /\ (\E k \in Named(kinds', arg.token) : k.preferred) => kind'.preferred
<1>1. ASSUME BrowseStep PROVE Link
  <2>. SUFFICES ASSUME stage = "launch", stage' = "opening"
                PROVE  /\ kind' \in Named(kinds', arg.token)
                       /\ \A k \in Named(kinds', arg.token) : GroupKind(k) = GroupKind(kind')
                       /\ (\E k \in Named(kinds', arg.token) : k.preferred) => kind'.preferred
    OBVIOUS
  <2>1. Launch
    BY <1>1, OtherSteps DEF RefuseLaunch, Refuse, Started
  <2>2. /\ ~DiscoveryFails(Discovered)
        /\ kinds' = PickerRows(DiscoverKinds(Discovered))
        /\ kind' = ResolveKindToken(DiscoverKinds(Discovered), arg.token)
        /\ kind' # Nothing
    BY <2>1 DEF Launch, LinkedKind
  <2>3. Discovered = Answer(cluster.broken, cluster.malformed)
    BY <2>2, DiscoveryAnswers
  <2>4. LET S == Browsables(cluster.broken)
            found == DiscoverKinds(Discovered)
        IN  Listed(S, ListOrder(S), found) /\ Listed(S, RowOrder(S), PickerRows(found))
    BY <2>3, RowsAreListed
  <2>5. /\ Len(DiscoverKinds(Discovered)) \in Nat
        /\ DOMAIN DiscoverKinds(Discovered) = 1..Len(DiscoverKinds(Discovered))
        /\ ToSet(kinds') = ToSet(DiscoverKinds(Discovered))
    BY <2>2, <2>4, ListedFacts
  <2>. DEFINE found == DiscoverKinds(Discovered)
              to == ResolveKindToken(found, arg.token)
  <2>6. /\ to \in Named(found, arg.token)
        /\ \A k \in Named(found, arg.token) : GroupKind(k) = GroupKind(to)
        /\ (\E k \in Named(found, arg.token) : k.preferred) => to.preferred
    BY <2>2, <2>5, ResolvedToken
  <2>7. Named(kinds', arg.token) = Named(found, arg.token)
    BY <2>5
  <2>. HIDE DEF Named, found
  <2>. QED  BY <2>2, <2>6, <2>7 DEF found
<1>2. BrowseNext => Link
  BY <1>1 DEF BrowseNext
<1>3. [BrowseNext]_browseVars => [Link]_browseVars
  BY <1>2
<1>4. [][Link]_browseVars => LinkLandsOnPreferred
  BY PTL DEF LinkLandsOnPreferred
<1>. QED  BY <1>3, <1>4, PTL DEF BrowseSpec

-----------------------------------------------------------------------------
(* The highlight of a filtered list stays on screen.                       *)

-----------------------------------------------------------------------------
(* The lists.                                                              *)

(* The states of a filtered list.                                          *)
Lists == [filter : Seq(Letters), cursor : Nat, offset : Nat]

(* The highlight is one of count rows, or the first where there is none.   *)
InView(list, count) == list.cursor = 0 \/ list.cursor < count

(* The highlight is among the lines that show.                             *)
OnScreen(list, count, lines) ==
    LET shown == PickerRowsShown(count, lines) IN
    shown > 0 => list.cursor \in list.offset..(list.offset + shown - 1)

(* A new list shows its first match.                                       *)
LEMMA NewListFacts ==
    ASSUME NEW count \in Nat, NEW lines \in Nat
    PROVE  NewList \in Lists /\ InView(NewList, count) /\ OnScreen(NewList, count, lines)
           /\ NewList.filter = <<>>
<1>1. NewList \in Lists
  BY DEF NewList, Lists
<1>2. InView(NewList, count) /\ NewList.filter = <<>>
  BY DEF NewList, InView
<1>3. OnScreen(NewList, count, lines)
  BY DEF NewList, OnScreen, PickerRowsShown
<1>. QED  BY <1>1, <1>2, <1>3

(* So does a list whose filter changed: the highlight goes back to the     *)
(* top.                                                                    *)
LEMMA RefilteredFacts ==
    ASSUME NEW filter \in Seq(Letters), NEW count \in Nat, NEW lines \in Nat
    PROVE  /\ Refiltered(filter) \in Lists /\ Refiltered(filter).filter = filter
           /\ InView(Refiltered(filter), count) /\ OnScreen(Refiltered(filter), count, lines)
<1>1. Refiltered(filter) = [filter |-> filter, cursor |-> 0, offset |-> 0]
  BY DEF Refiltered, NewList
<1>2. Refiltered(filter) \in Lists
  BY <1>1 DEF Lists
<1>3. InView(Refiltered(filter), count)
  BY <1>1 DEF InView
<1>4. OnScreen(Refiltered(filter), count, lines)
  BY <1>1 DEF OnScreen, PickerRowsShown
<1>. QED  BY <1>1, <1>2, <1>3, <1>4

(* What the changes of a filter do to a list.                              *)
LEMMA FilterSteps ==
    ASSUME NEW list \in Lists
    PROVE  /\ \A letter \in Letters :
                \E filter \in Seq(Letters) : Typed(list, <<letter>>) = Refiltered(filter)
           /\ Cleared(list) = Refiltered(<<>>) /\ <<>> \in Seq(Letters)
           /\ \/ Erased(list) = list /\ list.filter = <<>>
              \/ \E filter \in Seq(Letters) : Erased(list) = Refiltered(filter)
<1>1. list.filter \in Seq(Letters)
  BY DEF Lists
<1>2. ASSUME NEW letter \in Letters PROVE list.filter \o <<letter>> \in Seq(Letters)
  BY <1>1
<1>3. list.filter # <<>> => Front(list.filter) \in Seq(Letters)
  BY <1>1, FrontLast
<1>4. \A letter \in Letters :
        \E filter \in Seq(Letters) : Typed(list, <<letter>>) = Refiltered(filter)
  <2>. TAKE letter \in Letters
  <2>1. Typed(list, <<letter>>) = Refiltered(list.filter \o <<letter>>)
    BY DEF Typed
  <2>. QED  BY <1>2, <2>1
<1>5. Cleared(list) = Refiltered(<<>>) /\ <<>> \in Seq(Letters)
  BY DEF Cleared
<1>6. \/ Erased(list) = list /\ list.filter = <<>>
      \/ \E filter \in Seq(Letters) : Erased(list) = Refiltered(filter)
  BY <1>3, Zenon DEF Erased
<1>. QED  BY <1>4, <1>5, <1>6

(* A clamped index is in bounds.                                           *)
LEMMA ClampedBy ==
    ASSUME NEW n \in Int, NEW last \in Int
    PROVE  /\ Clamped(n, last) \in Nat
           /\ last >= 0 => Clamped(n, last) \in 0..last
           /\ last >= 0 /\ n \in 0..last => Clamped(n, last) = n
           /\ last < 0 => Clamped(n, last) = 0
BY DEF Clamped, Larger, Smaller

(* picker.follow scrolls the highlight into view and changes nothing else. *)
LEMMA FollowFacts ==
    ASSUME NEW list \in Lists, NEW count \in Nat, NEW lines \in Nat, InView(list, count)
    PROVE  LET to == PickerFollow(list, count, lines) IN
           /\ to \in Lists /\ to.filter = list.filter /\ to.cursor = list.cursor
           /\ InView(to, count)
           /\ OnScreen(to, count, lines)
<1>. DEFINE shown == PickerRowsShown(count, lines)
            offset == IF shown <= 0 THEN Smaller(list.offset, Larger(count - 1, 0))
                      ELSE Scrolled(list.offset, list.cursor, count, shown)
<1>1. list.cursor \in Nat /\ list.offset \in Nat /\ list.filter \in Seq(Letters)
      /\ list = [filter |-> list.filter, cursor |-> list.cursor, offset |-> list.offset]
  BY DEF Lists
<1>2. PickerFollow(list, count, lines)
        = [filter |-> list.filter, cursor |-> list.cursor, offset |-> offset]
  BY <1>1 DEF PickerFollow
<1>3. shown \in Int
  BY DEF PickerRowsShown
<1>. HIDE DEF shown
<1>4. CASE shown <= 0
  <2>1. offset = Smaller(list.offset, Larger(count - 1, 0))
    BY <1>4
  <2>2. offset \in Nat
    BY <1>1, <2>1 DEF Smaller, Larger
  <2>. HIDE DEF offset
  <2>. QED  BY <1>1, <1>2, <1>3, <1>4, <2>2 DEF Lists, InView, OnScreen, shown
<1>5. CASE shown > 0
  <2>. DEFINE filled == Smaller(list.offset, Larger(count - shown, 0))
  <2>1. filled \in Nat
    BY <1>1, <1>3 DEF Smaller, Larger
  <2>2. offset = CASE list.cursor < filled -> list.cursor
                   [] list.cursor >= filled + shown -> list.cursor - shown + 1
                   [] OTHER -> filled
    BY <1>3, <1>5 DEF Scrolled
  <2>. HIDE DEF filled, offset
  <2>3. offset \in Nat /\ list.cursor \in offset..(offset + shown - 1)
    BY <1>1, <1>3, <1>5, <2>1, <2>2
  <2>. QED  BY <1>1, <1>2, <2>3 DEF Lists, InView, OnScreen, shown
<1>. QED  BY <1>3, <1>4, <1>5

(* The highlight moves within the matches.                                 *)
LEMMA MoveFacts ==
    ASSUME NEW list \in Lists, NEW count \in Nat, NEW delta \in {1, -1}, InView(list, count)
    PROVE  /\ ListMove(list, delta, count) \in Lists
           /\ ListMove(list, delta, count).filter = list.filter
           /\ InView(ListMove(list, delta, count), count)
           /\ \A lines \in Nat :
                LET to == PickerMove(list, delta, count, lines) IN
                OnScreen(list, count, lines) =>
                  /\ to \in Lists /\ to.filter = list.filter
                  /\ InView(to, count)
                  /\ OnScreen(to, count, lines)
<1>1. list.cursor \in Nat /\ list.offset \in Nat /\ list.filter \in Seq(Letters)
      /\ list = [filter |-> list.filter, cursor |-> list.cursor, offset |-> list.offset]
  BY DEF Lists
<1>2. CASE count = 0
  BY <1>2 DEF ListMove, PickerMove
<1>3. CASE count # 0
  <2>. DEFINE to == [list EXCEPT !.cursor = Clamped(@ + delta, count - 1)]
              at == Clamped(list.cursor + delta, count - 1)
  <2>1. at \in 0..(count - 1)
    <3>1. list.cursor + delta \in Int /\ count - 1 \in Int /\ count - 1 >= 0
      BY <1>1, <1>3
    <3>. QED  BY <3>1, ClampedBy
  <2>2. to = [filter |-> list.filter, cursor |-> at, offset |-> list.offset]
    BY <1>1
  <2>3. to \in Lists /\ to.filter = list.filter /\ InView(to, count)
    <3>. HIDE DEF at, to
    <3>. QED  BY <1>1, <2>1, <2>2 DEF Lists, InView
  <2>4. ListMove(list, delta, count) = to
    BY <1>3 DEF ListMove
  <2>5. \A lines \in Nat : PickerMove(list, delta, count, lines) = PickerFollow(to, count, lines)
    BY <1>3 DEF PickerMove
  <2>. HIDE DEF to
  <2>6. \A lines \in Nat :
          LET m == PickerFollow(to, count, lines) IN
          m \in Lists /\ m.filter = to.filter /\ InView(m, count) /\ OnScreen(m, count, lines)
    BY <2>3, FollowFacts
  <2>. QED  BY <2>3, <2>4, <2>5, <2>6
<1>. QED  BY <1>2, <1>3

-----------------------------------------------------------------------------
(* The picker's highlight.                                                 *)

(* The picker's matches are some of its rows.                              *)
LEMMA PickerMatchesFacts ==
    ASSUME LaunchInv
    PROVE  /\ Len(kinds) \in Nat /\ DOMAIN kinds = 1..Len(kinds)
           /\ Len(PickerMatches) \in Nat /\ DOMAIN PickerMatches = 1..Len(PickerMatches)
           /\ \A n \in 1..Len(PickerMatches) : PickerMatches[n] \in ToSet(kinds)
           /\ PickerMatches = <<>> <=> Len(PickerMatches) = 0
           /\ ~Started => Len(PickerMatches) = 0
<1>. DEFINE N == {n \in DOMAIN kinds : KindMatches(kinds[n], picker.filter)}
<1>1. Len(kinds) \in Nat /\ DOMAIN kinds = 1..Len(kinds)
  BY ListedFacts DEF LaunchInv, AllRows
<1>2. N \in SUBSET DOMAIN kinds /\ PickerMatches = Picked(kinds, N)
  BY DEF PickerMatches
<1>. HIDE DEF N
<1>3. /\ Len(PickerMatches) \in Nat /\ DOMAIN PickerMatches = 1..Len(PickerMatches)
      /\ \A i \in 1..Len(PickerMatches) : \E n \in N : PickerMatches[i] = kinds[n]
      /\ Len(PickerMatches) = Cardinality(N) /\ IsFiniteSet(N)
      /\ PickerMatches = <<>> <=> N = {}
  <2>. DEFINE t == Picked(kinds, N)
  <2>1. /\ Len(t) \in Nat /\ DOMAIN t = 1..Len(t)
        /\ \A i \in 1..Len(t) : \E n \in N : t[i] = kinds[n]
        /\ Len(t) = Cardinality(N) /\ IsFiniteSet(N)
        /\ t = <<>> <=> N = {}
    BY <1>1, <1>2, PickedOut
  <2>. HIDE DEF t
  <2>2. PickerMatches = t
    BY <1>2 DEF t
  <2>. QED  BY <2>1, <2>2
<1>4. \A n \in N : kinds[n] \in ToSet(kinds)
  BY <1>2 DEF ToSet
<1>5. Cardinality(N) = 0 <=> N = {}
  BY <1>3, FS_EmptySet
<1>6. ~Started => N = {}
  BY <1>1, <1>2 DEF LaunchInv
<1>. QED  BY <1>1, <1>3, <1>4, <1>5, <1>6

(* The same after a step.                                                  *)
LEMMA PickerMatchesNext == LaunchInv' => (Len(PickerMatches) \in Nat)'
<1>1. LaunchInv => Len(PickerMatches) \in Nat
  BY PickerMatchesFacts
<1>. QED  BY <1>1, PTL

(* The picker's highlight is a match, and on screen.                       *)
PickerInv ==
    /\ picker \in Lists /\ height \in Nat
    /\ InView(picker, Len(PickerMatches))
    /\ OnScreen(picker, Len(PickerMatches), height)

(* It holds at the start.                                                  *)
LEMMA InitPicker == BrowseInit => PickerInv
<1>. SUFFICES ASSUME BrowseInit PROVE PickerInv
  OBVIOUS
<1>1. LaunchInv
  BY InitLaunch
<1>2. picker = NewList /\ height = 0
  BY DEF BrowseInit
<1>3. Len(PickerMatches) \in Nat
  BY <1>1, PickerMatchesFacts
<1>. QED  BY <1>2, <1>3, NewListFacts DEF PickerInv

(* Every step keeps it: the rows stay, and each change of the filter       *)
(* re-anchors the highlight.                                               *)
LEMMA PickerStep ==
    ASSUME LaunchInv, LaunchInv', PickerInv, BrowseStep
    PROVE  PickerInv'
<1>. DEFINE count == Len(PickerMatches)
<1>1. Len(PickerMatches) \in Nat /\ Len(PickerMatches') \in Nat
  <2>1. Len(PickerMatches) \in Nat
    BY PickerMatchesFacts
  <2>2. Len(PickerMatches') \in Nat
    BY PickerMatchesNext
  <2>. QED  BY <2>1, <2>2
<1>2. CASE kinds' = kinds /\ picker' = picker /\ height' = height
  <2>1. PickerMatches' = PickerMatches
    BY <1>2 DEF PickerMatches
  <2>. QED  BY <1>2, <2>1 DEF PickerInv
<1>3. ASSUME NEW filter \in Seq(Letters), picker' = Refiltered(filter), height' = height
      PROVE  PickerInv'
  BY <1>1, <1>3, RefilteredFacts DEF PickerInv
<1>4. ASSUME NEW list, Pick(list)
      PROVE  picker' = list /\ kinds' = kinds /\ height' = height
  BY <1>4 DEF Pick, launchVars
<1>5. CASE TypePicker
  <2>1. PICK letter \in Letters : Pick(Typed(picker, <<letter>>))
    BY <1>5 DEF TypePicker
  <2>. QED  BY <1>3, <1>4, <2>1, FilterSteps DEF PickerInv
<1>6. CASE ErasePicker
  BY <1>2, <1>3, <1>4, <1>6, FilterSteps DEF PickerInv, ErasePicker
<1>7. CASE ClearPicker
  BY <1>3, <1>4, <1>7, FilterSteps DEF PickerInv, ClearPicker
<1>8. CASE \E delta \in {1, -1} : MovePicker(delta)
  <2>1. PICK delta \in {1, -1} : MovePicker(delta)
    BY <1>8
  <2>2. picker' = PickerMove(picker, delta, count, height) /\ kinds' = kinds /\ height' = height
    BY <1>4, <2>1 DEF MovePicker
  <2>. HIDE DEF count
  <2>3. /\ picker' \in Lists /\ picker'.filter = picker.filter
        /\ InView(picker', count) /\ OnScreen(picker', count, height)
    BY <1>1, <2>2, MoveFacts DEF PickerInv, count
  <2>4. PickerMatches' = PickerMatches
    BY <2>2, <2>3 DEF PickerMatches
  <2>. QED  BY <2>2, <2>3, <2>4 DEF PickerInv, count
<1>9. CASE Resize
  <2>1. PICK to \in Heights : height' = to /\ picker' = PickerFollow(picker, count, to)
    BY <1>9 DEF Resize
  <2>2. kinds' = kinds /\ to \in Nat
    BY <1>9, BrowseAssumption DEF Resize, launchVars
  <2>. HIDE DEF count
  <2>3. /\ picker' \in Lists /\ picker'.filter = picker.filter
        /\ InView(picker', count) /\ OnScreen(picker', count, to)
    BY <1>1, <2>1, <2>2, FollowFacts DEF PickerInv, count
  <2>4. PickerMatches' = PickerMatches
    BY <2>2, <2>3 DEF PickerMatches
  <2>. QED  BY <2>1, <2>2, <2>3, <2>4 DEF PickerInv, count
<1>10. CASE Launch
  <2>1. picker' = NewList /\ height' = 0
    BY <1>10 DEF Launch, pickerVars, LaunchInv, Started
  <2>. QED  BY <1>1, <2>1, NewListFacts DEF PickerInv
<1>11. CASE RefuseLaunch
  <2>1. kinds' = kinds /\ picker' = picker /\ height' = height
    BY <1>11 DEF RefuseLaunch, Refuse, pickerVars
  <2>. QED  BY <1>2, <2>1
<1>12. CASE SelectHighlighted \/ OpenCompose \/ FailToOpen \/ ReturnToPicker \/ Quit \/ Compose
  <2>1. kinds' = kinds /\ picker' = picker /\ height' = height
    BY <1>12 DEF SelectHighlighted, OpenCompose, FailToOpen, ReturnToPicker, Quit, Compose,
                 launchVars, pickerVars
  <2>. QED  BY <1>2, <2>1
<1>. QED
  BY <1>5, <1>6, <1>7, <1>8, <1>9, <1>10, <1>11, <1>12 DEF BrowseStep

(* So does a stutter.                                                      *)
LEMMA PickerStutter == PickerInv /\ UNCHANGED browseVars => PickerInv'
BY DEF PickerInv, browseVars, launchVars, pickerVars, PickerMatches

-----------------------------------------------------------------------------
(* The lists over the view: the field search and the version list.         *)

-----------------------------------------------------------------------------
(* The lists over the view.                                                *)

(* The candidates of a search are finitely many.                           *)
LEMMA CandidatesFacts ==
    ASSUME NEW v \in Versions
    PROVE  IsFiniteSet(Candidates[v]) /\ Candidates[v] \subseteq DOMAIN FieldTree[v] \ {<<>>}
<1>1. IsFiniteSet(DOMAIN FieldTree[v])
  BY ComposeViewAssumption
<1>2. Candidates[v] \subseteq DOMAIN FieldTree[v] \ {<<>>}
  BY DEF Candidates
<1>3. Candidates[v] \in SUBSET DOMAIN FieldTree[v]
  BY <1>2
<1>. QED  BY <1>1, <1>2, <1>3, FS_Subset

(* They are listed as a sequence.                                          *)
LEMMA FieldPathsFacts ==
    ASSUME NEW v \in Versions
    PROVE  LET paths == FieldPaths[v] IN
           /\ Len(paths) \in Nat /\ DOMAIN paths = 1..Len(paths) /\ (Len(paths) = 0 => paths = <<>>)
           /\ Len(paths) = Cardinality(Candidates[v])
<1>1. Cardinality(Candidates[v]) \in Nat
  BY CandidatesFacts, FS_CardinalityType
<1>2. DOMAIN FieldPaths[v] = 1..Cardinality(Candidates[v])
  BY DEF FieldPaths, InOrder
<1>3. Len(FieldPaths[v]) = Cardinality(Candidates[v])
  BY <1>1 DEF FieldPaths, InOrder
<1>4. Cardinality(Candidates[v]) = 0 => FieldPaths[v] = <<>>
  BY DEF FieldPaths, InOrder
<1>. QED  BY <1>1, <1>2, <1>3, <1>4

(* And so are the matches.                                                 *)
LEMMA ComputeMatchesFacts ==
    ASSUME NEW v \in Versions, NEW filter
    PROVE  LET m == ComputeMatches(v, filter) IN
           Len(m) \in Nat /\ DOMAIN m = 1..Len(m) /\ (Len(m) = 0 => m = <<>>)
<1>1. CASE filter = <<>>
  <2>1. ComputeMatches(v, filter) = FieldPaths[v]
    BY <1>1 DEF ComputeMatches
  <2>. QED  BY <2>1, FieldPathsFacts
<1>2. CASE filter # <<>>
  <2>. DEFINE found == {n \in DOMAIN FieldPaths[v] : FuzzyMatches(filter, Letterwise(FieldPaths[v][n]))}
              k == Cardinality(found)
              m == ComputeMatches(v, filter)
  <2>1. k \in Nat
    <3>1. Len(FieldPaths[v]) \in Nat /\ DOMAIN FieldPaths[v] = 1..Len(FieldPaths[v])
      BY FieldPathsFacts
    <3>2. IsFiniteSet(1..Len(FieldPaths[v])) /\ found \in SUBSET (1..Len(FieldPaths[v]))
      BY <3>1, FS_Interval
    <3>. HIDE DEF found
    <3>3. IsFiniteSet(found)
      BY <3>2, FS_Subset
    <3>. QED  BY <3>3, FS_CardinalityType
  <2>2. DOMAIN m = 1..k
    BY <1>2 DEF ComputeMatches, InOrder
  <2>3. Len(m) = k
    BY <1>2, <2>1 DEF ComputeMatches, InOrder
  <2>4. k = 0 => m = <<>>
    <3>1. PICK r : m = [n \in DOMAIN r |-> FieldPaths[v][r[n]]]
      BY <1>2 DEF ComputeMatches
    <3>2. DOMAIN r = 1..k
      BY <2>2, <3>1
    <3>. HIDE DEF m, k
    <3>3. k = 0 => DOMAIN r = {}
      BY <3>2
    <3>. QED  BY <3>1, <3>3
  <2>. QED  BY <2>1, <2>2, <2>3, <2>4
<1>. QED  BY <1>1, <1>2

(* The version list offers versions the Kind is served at, and not the one *)
(* on view.                                                                *)
LEMMA VersionMatchesFacts ==
    ASSUME Len(served) \in Nat, DOMAIN served = 1..Len(served)
    PROVE  /\ Len(VersionMatches) \in Nat /\ DOMAIN VersionMatches = 1..Len(VersionMatches)
           /\ \A n \in DOMAIN VersionMatches :
                VersionMatches[n] \in ToSet(served) /\ VersionMatches[n] # version
           /\ Len(VersionMatches) = 0 => VersionMatches = <<>>
<1>. DEFINE N == {n \in DOMAIN served : served[n] # version}
            others == Picked(served, N)
            M == {n \in DOMAIN others : FuzzyMatches(versionList.filter, VersionText[others[n]])}
            matches == Picked(others, M)
<1>1. N \in SUBSET DOMAIN served
  OBVIOUS
<1>2. others = Others
  BY DEF Others
<1>3. matches = VersionMatches
  BY DEF VersionMatches, Others
<1>. HIDE DEF others, matches
<1>4. M \in SUBSET DOMAIN others
  OBVIOUS
<1>5. \A n \in N : served[n] \in ToSet(served) /\ served[n] # version
  BY DEF ToSet
<1>. HIDE DEF N, M
<1>6. /\ Len(others) \in Nat /\ DOMAIN others = 1..Len(others)
      /\ \A i \in 1..Len(others) : \E n \in N : others[i] = served[n]
  BY <1>1, PickedOut DEF others
<1>7. /\ Len(matches) \in Nat /\ DOMAIN matches = 1..Len(matches)
      /\ \A i \in 1..Len(matches) : \E n \in M : matches[i] = others[n]
      /\ Len(matches) = Cardinality(M) /\ IsFiniteSet(M)
      /\ matches = <<>> <=> M = {}
  BY <1>4, <1>6, PickedOut DEF matches
<1>8. \A n \in DOMAIN matches : matches[n] \in ToSet(served) /\ matches[n] # version
  BY <1>4, <1>5, <1>6, <1>7
<1>9. Len(matches) = 0 => matches = <<>>
  BY <1>7, FS_EmptySet
<1>. QED  BY <1>3, <1>7, <1>8, <1>9

(* The highlights of the search and of the version list are matches.       *)
ListsInv ==
    /\ search \in Lists /\ versionList \in Lists
    /\ Len(matched) \in Nat /\ (Len(matched) = 0 => matched = <<>>)
    /\ InView(search, Len(matched))
    /\ Len(served) \in Nat /\ DOMAIN served = 1..Len(served)
    /\ InView(versionList, Len(VersionMatches))
    /\ overlay # "versions" => versionList = NewList

(* The same after a step.                                                  *)
LEMMA VersionMatchesNext ==
    (Len(served) \in Nat /\ DOMAIN served = 1..Len(served))' => (Len(VersionMatches) \in Nat)'
<1>1. Len(served) \in Nat /\ DOMAIN served = 1..Len(served) => Len(VersionMatches) \in Nat
  BY VersionMatchesFacts
<1>. QED  BY <1>1, PTL

(* Nothing changes that they depend on.                                    *)
LEMMA ListsStay ==
    ASSUME ListsInv, UNCHANGED <<surfaces, version>>, overlay # "versions", overlay' # "versions"
    PROVE  ListsInv'
BY DEF ListsInv, surfaces, VersionMatches, Others

(* No view, no lists.                                                      *)
LEMMA NoViewLists == NoView => ListsInv
<1>. SUFFICES ASSUME NoView PROVE ListsInv
  OBVIOUS
<1>1. /\ search = NewList /\ versionList = NewList /\ matched = <<>> /\ served = <<>>
      /\ overlay = "none"
  BY DEF NoView
<1>2. Len(served) \in Nat /\ DOMAIN served = 1..Len(served)
  BY <1>1
<1>3. Len(VersionMatches) \in Nat
  BY <1>2, VersionMatchesFacts
<1>4. Len(matched) \in Nat
  BY <1>1
<1>. QED  BY <1>1, <1>2, <1>3, <1>4, NewListFacts DEF ListsInv

(* Every step of the view keeps it.                                        *)
LEMMA ViewKeepsLists ==
    ASSUME ListsInv, version \in Versions, ViewStep
    PROVE  /\ ListsInv' /\ served' = served
           /\ \/ version' = version
              \/ version' \in ToSet(served) /\ version' \in Versions
<1>. USE DEF surfaces, treeVars
<1>1. CASE UNCHANGED <<surfaces, version>> /\ overlay # "versions" /\ overlay' # "versions"
  BY <1>1, ListsStay
<1>2. ASSUME NEW list \in Lists, search' = list,
             Len(matched') \in Nat, Len(matched') = 0 => matched' = <<>>, InView(list, Len(matched')),
             UNCHANGED <<version, served, versionList>>,
             overlay' = overlay \/ (overlay' # "versions" /\ overlay # "versions")
      PROVE  ListsInv'
  BY <1>2 DEF ListsInv, VersionMatches, Others
<1>3. CASE OpenSearch
  <2>1. matched' = matched \/ (matched = <<>> /\ matched' = ComputeMatches(version, <<>>))
    BY <1>3 DEF OpenSearch, EnsureCandidates
  <2>2. /\ Len(matched') \in Nat /\ Len(matched') = 0 => matched' = <<>>
    BY <2>1, ComputeMatchesFacts DEF ListsInv
  <2>3. InView(search, Len(matched'))
    <3>1. matched = <<>> => search.cursor = 0
      BY DEF ListsInv, InView, Lists
    <3>. QED  BY <2>1, <3>1 DEF ListsInv, InView
  <2>. QED  BY <1>2, <1>3, <2>2, <2>3 DEF OpenSearch, ListsInv
<1>4. ASSUME NEW list, SearchFor(list), NEW filter \in Seq(Letters), list = Refiltered(filter)
      PROVE  ListsInv' /\ UNCHANGED <<version, served>>
  <2>1. matched' = ComputeMatches(version, filter)
    BY <1>4, RefilteredFacts DEF SearchFor
  <2>2. Len(matched') \in Nat /\ Len(matched') = 0 => matched' = <<>>
    BY <2>1, ComputeMatchesFacts
  <2>3. list \in Lists /\ InView(list, Len(matched'))
    BY <1>4, <2>2, RefilteredFacts
  <2>. QED  BY <1>2, <1>4, <2>2, <2>3 DEF SearchFor
<1>5. search \in Lists /\ versionList \in Lists
  BY DEF ListsInv
<1>6. CASE TypeSearch
  <2>1. PICK letter \in Letters : SearchFor(Typed(search, <<letter>>))
    BY <1>6 DEF TypeSearch
  <2>. QED  BY <1>4, <1>5, <2>1, FilterSteps
<1>7. CASE EraseSearch
  BY <1>4, <1>5, <1>7, FilterSteps DEF EraseSearch
<1>8. CASE EscapeSearch
  BY <1>1, <1>4, <1>5, <1>8, FilterSteps DEF EscapeSearch
<1>9. CASE \E delta \in {1, -1} : MoveSearch(delta)
  <2>1. PICK delta \in {1, -1} : MoveSearch(delta)
    BY <1>9
  <2>2. ListMove(search, delta, Len(matched)) \in Lists
        /\ InView(ListMove(search, delta, Len(matched)), Len(matched))
    BY <1>5, MoveFacts DEF ListsInv
  <2>. QED  BY <1>2, <2>1, <2>2 DEF MoveSearch, ListsInv
<1>10. CASE SelectMatch
  <2>1. matched' = ComputeMatches(version, <<>>) /\ search' = NewList
        /\ UNCHANGED <<version, served, versionList>> /\ overlay' = "none" /\ overlay = "search"
    BY <1>10 DEF SelectMatch
  <2>2. Len(matched') \in Nat /\ Len(matched') = 0 => matched' = <<>>
    BY <2>1, ComputeMatchesFacts
  <2>3. NewList \in Lists /\ InView(NewList, Len(matched'))
    BY <2>2, NewListFacts
  <2>. QED  BY <1>2, <2>1, <2>2, <2>3
<1>11. CASE MoveFocus \/ ExpandFocused \/ CollapseFocused \/ PressEnter \/ PressAdd
            \/ FindingsLand \/ PressJumpToFinding
  <2>1. UNCHANGED surfaces /\ overlay' = overlay /\ overlay = "none"
    BY <1>11 DEF MoveFocus, ExpandFocused, CollapseFocused, PressEnter, PressAdd,
                 FindingsLand, PressJumpToFinding, OnTree, Navigating
  <2>2. version' = version
    BY <1>11 DEF MoveFocus, ExpandFocused, CollapseFocused, PressEnter, PressAdd,
                 FindingsLand, PressJumpToFinding, ToggleFocused, ConfirmEditor, AppendToArray,
                 ConfirmKeyPrompt, ApplyReport, ShowFindings, JumpToFinding, Mutated
  <2>. QED  BY <1>1, <2>1, <2>2
<1>12. CASE PressUnset \/ AnswerUnset
  <2>1. UNCHANGED surfaces /\ overlay # "versions" /\ overlay' # "versions"
    BY <1>12 DEF PressUnset, AnswerUnset, Navigating
  <2>2. version' = version
    BY <1>12 DEF PressUnset, AnswerUnset, UnsetRow, PerformUnset, Mutated
  <2>. QED  BY <1>1, <2>1, <2>2
<1>13. ASSUME NEW list \in Lists, versionList' = list,
              UNCHANGED <<version, search, matched, served>>,
              InView(list, Len(VersionMatches')),
              overlay' # "versions" => list = NewList
       PROVE  ListsInv'
  BY <1>13 DEF ListsInv
<1>14. ASSUME UNCHANGED served PROVE Len(VersionMatches') \in Nat
  BY <1>14, VersionMatchesNext DEF ListsInv
<1>15. CASE OpenVersionList \/ LeaveVersions
  <2>1. versionList' = NewList /\ UNCHANGED <<version, search, matched, served>>
    BY <1>15 DEF OpenVersionList, LeaveVersions
  <2>. QED  BY <1>13, <1>14, <2>1, NewListFacts
<1>16. ASSUME NEW list, ListVersions(list), NEW filter \in Seq(Letters), list = Refiltered(filter)
       PROVE  ListsInv' /\ UNCHANGED <<version, served>>
  <2>1. list \in Lists /\ InView(list, Len(VersionMatches'))
    BY <1>14, <1>16, RefilteredFacts DEF ListVersions
  <2>. QED  BY <1>13, <1>16, <2>1 DEF ListVersions
<1>17. CASE FilterVersions
  <2>1. CASE \E letter \in Letters : ListVersions(Typed(versionList, <<letter>>))
    BY <1>5, <1>16, <2>1, FilterSteps
  <2>2. CASE ListVersions(Erased(versionList))
    <3>1. CASE Erased(versionList) = versionList
      BY <2>2, <3>1 DEF ListVersions, ListsInv, VersionMatches, Others
    <3>2. CASE \E filter \in Seq(Letters) : Erased(versionList) = Refiltered(filter)
      BY <1>16, <2>2, <3>2
    <3>. QED  BY <1>5, <3>1, <3>2, FilterSteps
  <2>3. CASE ListVersions(Cleared(versionList))
    BY <1>5, <1>16, <2>3, FilterSteps
  <2>. QED  BY <1>17, <2>1, <2>2, <2>3 DEF FilterVersions
<1>18. CASE \E delta \in {1, -1} : MoveVersions(delta)
  <2>1. PICK delta \in {1, -1} : MoveVersions(delta)
    BY <1>18
  <2>. DEFINE list == ListMove(versionList, delta, Len(VersionMatches))
  <2>2. Len(VersionMatches) \in Nat
    BY VersionMatchesFacts DEF ListsInv
  <2>3. list \in Lists /\ list.filter = versionList.filter /\ InView(list, Len(VersionMatches))
    BY <1>5, <2>2, MoveFacts DEF ListsInv
  <2>4. versionList' = list /\ overlay = "versions" /\ overlay' = "versions"
        /\ UNCHANGED <<version, search, matched, served>>
    BY <2>1 DEF MoveVersions, ListVersions
  <2>. HIDE DEF list
  <2>5. VersionMatches' = VersionMatches
    BY <2>3, <2>4 DEF VersionMatches, Others
  <2>. QED  BY <1>13, <2>3, <2>4, <2>5
<1>19. CASE SelectVersion
  <2>. DEFINE target == VersionMatches[versionList.cursor + 1]
  <2>1. /\ version' = target /\ target \in Versions /\ VersionMatches # <<>>
        /\ search' = NewList /\ versionList' = NewList /\ served' = served
        /\ matched' = <<>> \/ matched' = ComputeMatches(target, <<>>)
    BY <1>19 DEF SelectVersion, SwitchTo
  <2>2. /\ Len(VersionMatches) \in Nat /\ DOMAIN VersionMatches = 1..Len(VersionMatches)
        /\ \A n \in DOMAIN VersionMatches :
             VersionMatches[n] \in ToSet(served) /\ VersionMatches[n] # version
        /\ Len(VersionMatches) = 0 => VersionMatches = <<>>
    BY VersionMatchesFacts DEF ListsInv
  <2>3. versionList.cursor + 1 \in DOMAIN VersionMatches
    BY <1>5, <2>1, <2>2 DEF ListsInv, InView, Lists
  <2>4. target \in ToSet(served)
    BY <2>2, <2>3
  <2>. HIDE DEF target
  <2>5. Len(matched') \in Nat /\ (Len(matched') = 0 => matched' = <<>>)
    BY <2>1, ComputeMatchesFacts
  <2>6. ListsInv'
    BY <1>14, <2>1, <2>5, NewListFacts DEF ListsInv
  <2>. QED  BY <2>1, <2>4, <2>6
<1>. QED
  BY <1>3, <1>6, <1>7, <1>8, <1>9, <1>10, <1>11, <1>12, <1>15, <1>17, <1>18, <1>19 DEF ViewStep

-----------------------------------------------------------------------------
(* The Kind on view and the versions it is served at.                      *)

-----------------------------------------------------------------------------
(* The selected Kind.                                                      *)

(* No row of a Kind is above its Preferred Version.                        *)
LEMMA PreferredFirst ==
    ASSUME NEW b, NEW k \in Browsables(b), NEW l \in Browsables(b),
           GroupKind(k) = GroupKind(l), l.preferred
    PROVE  ~PickerOrder(k, l)
<1>. DEFINE key(m) == <<Rank[m.group], Rank[m.kind], IF m.preferred THEN 0 ELSE 1, Rank[m.version]>>
<1>1. k.group = l.group /\ k.kind = l.kind
  BY DEF GroupKind
<1>2. \A m \in {k, l} :
        /\ m.group \in DOMAIN Rank /\ m.version \in DOMAIN Rank /\ m.kind \in DOMAIN Rank
        /\ m.preferred <=> m.group \in DOMAIN Preferred /\ Preferred[m.group] = m.version
  BY KindFacts
<1>3. k.preferred => k.version = l.version
  BY <1>1, <1>2
<1>4. \A m \in {k, l} : Rank[m.group] \in Nat /\ Rank[m.version] \in Nat /\ Rank[m.kind] \in Nat
  BY <1>2, DiscoveryAssumption
<1>5. SUFFICES ASSUME LexicallyBefore(key(k), key(l)) PROVE FALSE
  BY DEF PickerOrder
<1>6. PICK n \in 1..4 : key(k)[n] < key(l)[n] /\ \A m \in 1..(n - 1) : key(k)[m] = key(l)[m]
  BY <1>5 DEF LexicallyBefore
<1>7. key(k)[1] = key(l)[1] /\ key(k)[2] = key(l)[2] /\ key(l)[3] = 0
  BY <1>1
<1>8. n # 1 /\ n # 2 /\ n # 3
  BY <1>4, <1>6, <1>7
<1>9. key(k)[4] < key(l)[4] /\ key(k)[3] = 0
  BY <1>6, <1>7, <1>8
<1>10. k.preferred
  BY <1>9
<1>. QED  BY <1>3, <1>4, <1>9, <1>10

(* The versions a Kind opens with are those of its rows, one each          *)
(* (kindVersions).                                                         *)
LEMMA KindVersionsFacts ==
    ASSUME LaunchInv, Started, NEW k
    PROVE  LET siblings == {l \in ToSet(kinds) : GroupKind(l) = GroupKind(k)}
               offered == KindVersions(k)
           IN  /\ Len(offered) \in Nat /\ DOMAIN offered = 1..Len(offered)
               /\ ToSet(offered) = {Gvk(l) : l \in siblings}
               /\ Len(offered) = Cardinality(siblings)
               /\ \A l \in siblings : l.preferred => offered[1] = Gvk(l)
<1>. DEFINE S == Browsables(cluster.broken)
            siblings == {l \in ToSet(kinds) : GroupKind(l) = GroupKind(k)}
            N == {n \in DOMAIN kinds : GroupKind(kinds[n]) = GroupKind(k)}
            t == Picked(kinds, N)
            offered == KindVersions(k)
<1>1. /\ Len(kinds) \in Nat /\ DOMAIN kinds = 1..Len(kinds) /\ ToSet(kinds) = S
      /\ \A n \in DOMAIN kinds : kinds[n] \in S
      /\ \A m, n \in DOMAIN kinds : m < n => <<kinds[m], kinds[n]>> \in RowOrder(S)
      /\ \A m, n \in DOMAIN kinds : kinds[m] = kinds[n] => m = n
  BY ListedFacts DEF LaunchInv, AllRows
<1>2. offered = [n \in DOMAIN t |-> Gvk(t[n])]
  BY DEF KindVersions
<1>3. N \in SUBSET DOMAIN kinds /\ \A n \in N : kinds[n] \in siblings
  BY DEF ToSet
<1>4. \A l \in siblings : \E n \in N : kinds[n] = l
  BY DEF ToSet
<1>5. \A l \in siblings : l \in S /\ GroupKind(l) = GroupKind(k)
  BY <1>1
<1>. HIDE DEF S, siblings, N, t, offered
<1>6. /\ Len(t) \in Nat /\ DOMAIN t = 1..Len(t) /\ Len(t) = Cardinality(N) /\ IsFiniteSet(N)
      /\ \A n \in N : \E i \in 1..Len(t) : t[i] = kinds[n]
      /\ \A i \in 1..Len(t) : \E n \in N : t[i] = kinds[n]
      /\ \A i, j \in 1..Len(t) : i < j => \E m, n \in N : m < n /\ t[i] = kinds[m] /\ t[j] = kinds[n]
  BY <1>1, <1>3, PickedOut DEF t
<1>7. DOMAIN offered = 1..Len(t) /\ Len(offered) = Len(t)
  BY <1>2, <1>6
<1>8. \A i \in 1..Len(t) : offered[i] = Gvk(t[i])
  BY <1>2, <1>6
<1>9. ToSet(offered) = {Gvk(l) : l \in siblings}
  <2>1. \A i \in DOMAIN offered : \E l \in siblings : offered[i] = Gvk(l)
    BY <1>3, <1>6, <1>7, <1>8
  <2>2. \A l \in siblings : \E i \in DOMAIN offered : offered[i] = Gvk(l)
    BY <1>4, <1>6, <1>7, <1>8
  <2>. QED  BY Zenon, <2>1, <2>2 DEF ToSet
<1>10. Len(t) = Cardinality(siblings)
  <2>. DEFINE f == [n \in N |-> kinds[n]]
  <2>1. f \in [N -> siblings]
    BY <1>3
  <2>2. \A m, n \in N : f[m] = f[n] => m = n
    BY <1>1, <1>3
  <2>3. \A l \in siblings : \E n \in N : f[n] = l
    BY <1>4
  <2>. HIDE DEF f
  <2>4. f \in Bijection(N, siblings)
    BY <2>1, <2>2, <2>3 DEF Bijection, Injection, Surjection, IsInjective
  <2>5. ExistsBijection(N, siblings)
    BY <2>4 DEF ExistsBijection
  <2>. QED  BY <1>6, <2>5, FS_Bijection
<1>11. ASSUME NEW l \in siblings, l.preferred PROVE offered[1] = Gvk(l)
  <2>1. PICK n \in N : kinds[n] = l
    BY <1>4
  <2>2. PICK i \in 1..Len(t) : t[i] = kinds[n]
    BY <1>6
  <2>3. 1 \in 1..Len(t)
    BY <1>6
  <2>4. CASE i = 1
    BY <1>8, <2>1, <2>2, <2>3, <2>4
  <2>5. CASE i # 1
    <3>1. PICK m, o \in N : m < o /\ t[1] = kinds[m] /\ t[i] = kinds[o]
      <4>1. 1 < i
        BY <1>6, <2>5
      <4>. QED  BY <1>6, <2>3, <4>1
    <3>2. <<kinds[m], l>> \in RowOrder(S)
      BY <1>1, <1>3, <2>1, <2>2, <3>1
    <3>3. kinds[m] \in S /\ l \in S /\ GroupKind(kinds[m]) = GroupKind(l)
      BY <1>3, <1>5
    <3>4. PickerOrder(kinds[m], l)
      BY <3>2 DEF RowOrder
    <3>. QED  BY <1>11, <3>3, <3>4, PreferredFirst DEF S
  <2>. QED  BY <2>4, <2>5
<1>. QED  BY <1>6, <1>7, <1>9, <1>10, <1>11 DEF siblings, offered

(* The Kind on view is a row of the picker, and the versions it was opened *)
(* with are those of all its rows.                                         *)
KindInv ==
    /\ stage \in {"opening", "failed", "compose"} => kind \in ToSet(kinds)
    /\ IF Composing
       THEN version \in Versions /\ version = Gvk(kind) /\ served = KindVersions(kind)
       ELSE NoView

(* It holds at the start.                                                  *)
LEMMA InitKind == BrowseInit => KindInv
BY DEF BrowseInit, KindInv, Composing

(* No view stays no view.                                                  *)
LEMMA NoViewStays ==
    ASSUME NoView, UNCHANGED viewVars
    PROVE  NoView'
BY DEF NoView, viewVars, treeVars, surfaces

(* A view that closes leaves nothing behind.                               *)
LEMMA Closed ==
    ASSUME CloseView
    PROVE  NoView'
BY DEF NoView, CloseView

(* Two rows of one Gvk are one row.                                        *)
LEMMA RowsByGvk ==
    ASSUME LaunchInv, Started
    PROVE  \A k, l \in ToSet(kinds) : Gvk(k) = Gvk(l) => k = l
BY ListedFacts, KindFacts DEF LaunchInv, AllRows

(* Every step over a view keeps it: a switch goes to a version of the      *)
(* Kind.                                                                   *)
LEMMA ComposeKeepsKind ==
    ASSUME LaunchInv, KindInv, ListsInv, Compose
    PROVE  KindInv'
<1>1. Composing /\ Composing' /\ Started /\ UNCHANGED kinds
      /\ kind' \in ToSet(kinds) /\ Gvk(kind') = version' /\ ViewStep
  BY DEF Compose, Composing, Started, launchVars
<1>2. kind \in ToSet(kinds) /\ version = Gvk(kind) /\ version \in Versions /\ served = KindVersions(kind)
  BY <1>1 DEF KindInv, Composing
<1>3. served' = served /\ (version' = version \/ (version' \in ToSet(served) /\ version' \in Versions))
  BY <1>1, <1>2, ViewKeepsLists
<1>4. version' \in Versions
  BY <1>2, <1>3
<1>5. GroupKind(kind') = GroupKind(kind)
  <2>1. CASE version' = version
    <3>1. kind' = kind
      BY <1>1, <1>2, <2>1, RowsByGvk
    <3>. QED  BY <3>1
  <2>2. CASE version' \in ToSet(served)
    <3>1. PICK l \in {m \in ToSet(kinds) : GroupKind(m) = GroupKind(kind)} : version' = Gvk(l)
      <4>1. ToSet(KindVersions(kind)) = {Gvk(l) : l \in {m \in ToSet(kinds) : GroupKind(m) = GroupKind(kind)}}
        BY <1>1, KindVersionsFacts
      <4>. QED  BY <1>2, <2>2, <4>1
    <3>2. kind' = l
      BY <1>1, <3>1, RowsByGvk
    <3>. QED  BY <3>1, <3>2
  <2>. QED  BY <1>3, <2>1, <2>2
<1>6. KindVersions(kind') = KindVersions(kind)
  BY <1>5 DEF KindVersions
<1>7. KindVersions(kind)' = KindVersions(kind')
  BY <1>1 DEF KindVersions
<1>. QED  BY <1>1, <1>2, <1>3, <1>4, <1>6, <1>7 DEF KindInv, Composing

(* Every step keeps it and ListsInv.                                       *)
LEMMA KindStep ==
    ASSUME LaunchInv, PickerInv, KindInv, ListsInv, LaunchInv', BrowseStep
    PROVE  KindInv' /\ ListsInv'
<1>1. ASSUME NoView' PROVE ListsInv'
  <2>1. NoView' => ListsInv'
    BY NoViewLists, PTL
  <2>. QED  BY <1>1, <2>1
<1>. USE DEF Composing
<1>2. CASE stage' \notin {"opening", "failed", "compose"} /\ NoView'
  BY <1>1, <1>2 DEF KindInv
<1>3. CASE RefuseLaunch \/ TypePicker \/ ErasePicker \/ ClearPicker \/ \E delta \in {1, -1} : MovePicker(delta)
  <2>1. stage' \in {"refused", "picker"} /\ UNCHANGED viewVars /\ ~Composing
    BY <1>3 DEF RefuseLaunch, Refuse, TypePicker, ErasePicker, ClearPicker, MovePicker, Pick
  <2>2. NoView'
    BY <2>1, NoViewStays DEF KindInv
  <2>. QED  BY <1>2, <2>1, <2>2
<1>4. CASE ReturnToPicker \/ Quit
  <2>1. stage' \in {"picker", "ended"} /\ NoView'
    BY <1>4, Closed DEF ReturnToPicker, Quit
  <2>. QED  BY <1>2, <2>1
<1>5. CASE Launch
  <2>1. NoView'
    BY <1>5, NoViewStays DEF Launch, KindInv
  <2>2. CASE stage' = "picker"
    BY <1>2, <2>1, <2>2
  <2>3. CASE stage' = "opening"
    <3>1. /\ ~DiscoveryFails(Discovered)
          /\ kinds' = PickerRows(DiscoverKinds(Discovered))
          /\ kind' = ResolveKindToken(DiscoverKinds(Discovered), arg.token)
          /\ kind' # Nothing
      BY <1>5, <2>3 DEF Launch, LinkedKind
    <3>. DEFINE found == DiscoverKinds(Discovered)
                S == Browsables(cluster.broken)
    <3>2. Discovered = Answer(cluster.broken, cluster.malformed)
      BY <3>1, DiscoveryAnswers
    <3>3. Listed(S, ListOrder(S), found) /\ Listed(S, RowOrder(S), PickerRows(found))
      BY <3>2, RowsAreListed
    <3>4. /\ Len(found) \in Nat /\ DOMAIN found = 1..Len(found)
          /\ ToSet(kinds') = ToSet(found)
      BY <3>1, <3>3, ListedFacts
    <3>5. kind' \in {k \in ToSet(found) : KindMatchesToken(k, arg.token)}
      BY <3>1, <3>4, ResolvedToken
    <3>. HIDE DEF found
    <3>. QED  BY <1>1, <2>1, <2>3, <3>4, <3>5 DEF KindInv
  <2>. QED  BY <1>5, <2>2, <2>3 DEF Launch
<1>6. CASE Resize
  <2>1. UNCHANGED <<stage, kinds, kind, viewVars>>
    BY <1>6 DEF Resize, launchVars
  <2>2. KindVersions(kind)' = KindVersions(kind)
    BY <2>1 DEF KindVersions
  <2>3. ListsInv'
    BY <2>1 DEF viewVars, treeVars, surfaces, ListsInv, VersionMatches, Others
  <2>4. UNCHANGED <<version, served>>
    BY <2>1 DEF viewVars, treeVars, surfaces
  <2>. QED  BY <2>1, <2>2, <2>3, <2>4, NoViewStays DEF KindInv
<1>7. CASE SelectHighlighted
  <2>1. NoView'
    BY <1>7, NoViewStays DEF SelectHighlighted, KindInv
  <2>2. picker.cursor + 1 \in 1..Len(PickerMatches)
    BY <1>7, PickerMatchesFacts DEF SelectHighlighted, PickerInv, InView, Lists
  <2>3. kind' \in ToSet(kinds) /\ kinds' = kinds /\ stage' = "opening"
    BY <1>7, <2>2, PickerMatchesFacts DEF SelectHighlighted, launchVars
  <2>. QED  BY <1>1, <2>1, <2>3 DEF KindInv
<1>8. CASE FailToOpen
  <2>1. NoView'
    BY <1>8, NoViewStays DEF FailToOpen, KindInv
  <2>2. kind' = kind /\ kinds' = kinds /\ stage = "opening" /\ stage' = "failed"
    BY <1>8 DEF FailToOpen, launchVars
  <2>. QED  BY <1>1, <2>1, <2>2 DEF KindInv
<1>9. CASE OpenCompose
  <2>1. /\ stage = "opening" /\ stage' = "compose" /\ kind' = kind /\ kinds' = kinds
        /\ version' = Gvk(kind) /\ Gvk(kind) \in Versions
        /\ served' = KindVersions(kind) /\ search' = NewList /\ versionList' = NewList
        /\ matched' = <<>> \/ matched' = ComputeMatches(Gvk(kind), <<>>)
    BY <1>9 DEF OpenCompose, OpenView, launchVars
  <2>2. KindVersions(kind)' = KindVersions(kind)
    BY <2>1 DEF KindVersions
  <2>3. KindInv'
    BY <2>1, <2>2 DEF KindInv
  <2>4. Len(matched') \in Nat /\ (Len(matched') = 0 => matched' = <<>>)
    BY <2>1, ComputeMatchesFacts
  <2>5. Len(served') \in Nat /\ DOMAIN served' = 1..Len(served')
    BY <2>1, KindVersionsFacts DEF Started
  <2>6. Len(VersionMatches') \in Nat
    BY <2>5, VersionMatchesNext
  <2>. QED  BY <2>1, <2>3, <2>4, <2>5, <2>6, NewListFacts DEF ListsInv
<1>10. CASE Compose
  <2>1. Composing /\ ViewStep
    BY <1>10 DEF Compose
  <2>2. ListsInv'
    BY <2>1, ViewKeepsLists DEF KindInv
  <2>. QED  BY <1>10, <2>2, ComposeKeepsKind
<1>. QED
  BY <1>3, <1>4, <1>5, <1>6, <1>7, <1>8, <1>9, <1>10 DEF BrowseStep

(* What is offered on screen is what is there: the four together.          *)
OnScreenInv == LaunchInv /\ PickerInv /\ KindInv /\ ListsInv

(* It holds for as long as the Session lasts (picker.go, search.go,        *)
(* versionswitch.go).                                                      *)
THEOREM OnScreenTheorem == BrowseSpec => []OnScreenInv
<1>1. BrowseInit => OnScreenInv
  BY InitLaunch, InitPicker, InitKind, NoViewLists DEF OnScreenInv, KindInv, Composing, BrowseInit
<1>2. OnScreenInv /\ [BrowseNext]_browseVars => OnScreenInv'
  <2>. SUFFICES ASSUME OnScreenInv, [BrowseNext]_browseVars PROVE OnScreenInv'
    OBVIOUS
  <2>1. CASE BrowseNext
    BY <2>1, LaunchStep, PickerStep, KindStep DEF OnScreenInv, BrowseNext
  <2>2. CASE UNCHANGED browseVars
    <3>1. LaunchInv' /\ PickerInv'
      BY <2>2, LaunchStutter, PickerStutter DEF OnScreenInv
    <3>2. UNCHANGED <<stage, kinds, kind, viewVars>>
      BY <2>2 DEF browseVars, launchVars
    <3>3. KindVersions(kind)' = KindVersions(kind)
      BY <3>2 DEF KindVersions
    <3>4. ListsInv'
      BY <3>2 DEF viewVars, treeVars, surfaces, ListsInv, VersionMatches, Others, OnScreenInv
    <3>5. UNCHANGED <<version, served>>
      BY <3>2 DEF viewVars, treeVars, surfaces
    <3>. QED  BY <3>1, <3>2, <3>3, <3>4, <3>5, NoViewStays DEF KindInv, OnScreenInv, Composing
  <2>. QED  BY <2>1, <2>2
<1>. QED  BY <1>1, <1>2, PTL DEF BrowseSpec

(* Enter always acts on a match that shows: the highlight of an open list  *)
(* is one of its matches, and the picker's is on screen (picker.follow,    *)
(* picker.move).                                                           *)
THEOREM HighlightTheorem == BrowseSpec => []HighlightIsOnScreen
<1>1. OnScreenInv => HighlightIsOnScreen
  <2>. SUFFICES ASSUME OnScreenInv PROVE HighlightIsOnScreen
    OBVIOUS
  <2>1. Len(PickerMatches) \in Nat
    BY PickerMatchesFacts DEF OnScreenInv
  <2>2. LET count == Len(PickerMatches)
            shown == PickerRowsShown(count, height)
        IN  count > 0 =>
              /\ picker.cursor \in 0..(count - 1)
              /\ shown > 0 => picker.cursor \in picker.offset..(picker.offset + shown - 1)
    BY <2>1 DEF OnScreenInv, PickerInv, InView, OnScreen, Lists
  <2>3. overlay = "search" /\ matched # <<>> => search.cursor \in 0..(Len(matched) - 1)
    BY DEF OnScreenInv, ListsInv, InView, Lists
  <2>4. Len(VersionMatches) \in Nat /\ (Len(VersionMatches) = 0 => VersionMatches = <<>>)
    BY VersionMatchesFacts DEF OnScreenInv, ListsInv
  <2>5. overlay = "versions" /\ VersionMatches # <<>> =>
          versionList.cursor \in 0..(Len(VersionMatches) - 1)
    BY <2>4 DEF OnScreenInv, ListsInv, InView, Lists
  <2>. QED  BY <2>2, <2>3, <2>5 DEF HighlightIsOnScreen
<1>. QED  BY <1>1, OnScreenTheorem, PTL

(* The version list offers every other version the Kind is served at, each *)
(* once, however the picker was filtered when the Kind was opened          *)
(* (kindVersions).                                                         *)
THEOREM SwitchTheorem == BrowseSpec => []SwitchOffersEveryServedVersion
<1>1. OnScreenInv => SwitchOffersEveryServedVersion
  <2>. SUFFICES ASSUME OnScreenInv, Composing
                PROVE  LET siblings == {k \in ToSet(kinds) : GroupKind(k) = GroupKind(kind)} IN
                       /\ ToSet(served) = {Gvk(k) : k \in siblings}
                       /\ Len(served) = Cardinality(siblings)
                       /\ \A k \in siblings : k.preferred => served[1] = Gvk(k)
    BY DEF SwitchOffersEveryServedVersion
  <2>1. LaunchInv /\ Started /\ served = KindVersions(kind)
    BY DEF OnScreenInv, KindInv, Composing, Started
  <2>. QED  BY <2>1, KindVersionsFacts
<1>. QED  BY <1>1, OnScreenTheorem, PTL

-----------------------------------------------------------------------------
(* The rows on screen are finitely many.                                   *)

-----------------------------------------------------------------------------
(* The rows on screen.                                                     *)

(* The longest start of a path that ends in no field.                      *)
Stem(p, n) == /\ n \in 0..Len(p) /\ (n = 0 \/ ~IsField(p[n]))
              /\ \A m \in (n + 1)..Len(p) : IsField(p[m])

(* Every position has a start that a field does not end.                   *)
LEMMA StemExists ==
    ASSUME NEW p \in Paths
    PROVE  \E n \in 0..Len(p) : Stem(p, n)
<1>. DEFINE N == Len(p)
            T == {k \in Nat : k <= N /\ (N - k = 0 \/ ~IsField(p[N - k]))}
<1>1. N \in Nat
  BY DEF Paths
<1>. HIDE DEF N
<1>2. T \in SUBSET Nat /\ N \in T
  BY <1>1
<1>3. PICK k \in T : \A j \in T : k <= j
  <2>. HIDE DEF T
  <2>1. T # {}
    BY <1>2
  <2>. QED  BY <1>2, <2>1, LeastNumber
<1>4. N - k \in 0..N /\ (N - k = 0 \/ ~IsField(p[N - k]))
  BY <1>1, <1>3
<1>5. \A m \in (N - k + 1)..N : IsField(p[m])
  <2>. SUFFICES ASSUME NEW m \in (N - k + 1)..N, ~IsField(p[m]) PROVE FALSE
    OBVIOUS
  <2>1. N - m \in Nat /\ N - m <= N /\ N - (N - m) = m /\ N - m < k
    BY <1>1, <1>3
  <2>2. N - m \in T
    BY <2>1
  <2>. QED  BY <1>3, <2>1, <2>2
<1>. QED  BY <1>4, <1>5 DEF Stem, N

(* The rows are finitely many: the Draft is finite, and so are the fields  *)
(* of a type.                                                              *)
LEMMA FiniteRows ==
    ASSUME NEW v \in Versions, NEW d, WellFormed(v, d), NEW r, RowsMirror(v, d, r)
    PROVE  IsFiniteSet(DOMAIN r)
<1>. DEFINE D == {<<>>} \cup DOMAIN d
            T == D \X DOMAIN FieldTree[v]
            stem(p) == CHOOSE n \in 0..Len(p) : Stem(p, n)
            f == [p \in DOMAIN r |-> <<SubSeq(p, 1, stem(p)), SchemaPath(p)>>]
<1>1. IsFiniteSet(T)
  <2>1. IsFiniteSet(DOMAIN d) /\ IsFiniteSet({<<>>})
    BY FS_Singleton DEF WellFormed, IsDraft
  <2>2. IsFiniteSet(D)
    BY <2>1, FS_Union
  <2>3. IsFiniteSet(DOMAIN FieldTree[v])
    BY ComposeViewAssumption
  <2>. HIDE DEF D
  <2>. QED  BY <2>2, <2>3, FS_Product
<1>2. \A p \in DOMAIN r : /\ p \in Paths /\ p \in Seq(Segments) /\ Resolves(v, p)
                          /\ stem(p) \in 0..Len(p) /\ Stem(p, stem(p)) /\ Anchored(d, p)
  BY RowsResolve, StemExists, RowsAnchor DEF Paths
<1>. HIDE DEF stem
<1>3. ASSUME NEW p \in DOMAIN r PROVE f[p] \in T
  <2>1. SubSeq(p, 1, stem(p)) \in D
    <3>1. CASE stem(p) = 0
      BY <1>2, <3>1, Start
    <3>2. CASE stem(p) # 0
      <4>. DEFINE q == SubSeq(p, 1, stem(p))
      <4>1. Len(q) = stem(p) /\ q \in Seq(Segments)
        BY <1>2, Start
      <4>2. q \in Along(p)
        BY <1>2, <3>2 DEF Along
      <4>3. Last(q) = p[stem(p)]
        <5>. HIDE DEF q
        <5>. QED  BY <1>2, <4>1, <4>2, AlongPosition
      <4>4. ~IsField(p[stem(p)])
        BY <1>2, <3>2 DEF Stem
      <4>. QED  BY <1>2, <4>2, <4>3, <4>4 DEF Anchored
    <3>. QED  BY <3>1, <3>2
  <2>2. SchemaPath(p) \in DOMAIN FieldTree[v]
    BY <1>2 DEF Resolves
  <2>. QED  BY <2>1, <2>2
<1>4. ASSUME NEW p \in DOMAIN r, NEW q \in DOMAIN r, f[p] = f[q] PROVE p = q
  <2>1. SubSeq(p, 1, stem(p)) = SubSeq(q, 1, stem(q)) /\ SchemaPath(p) = SchemaPath(q)
    BY <1>4
  <2>2. p \in Paths /\ q \in Paths /\ p \in Seq(Segments) /\ q \in Seq(Segments)
    BY <1>2
  <2>3. Len(p) = Len(q) /\ Len(p) \in Nat
    BY <2>1, <2>2, SchemaPathType
  <2>4. stem(p) \in 0..Len(p) /\ stem(q) = stem(p)
    BY <1>2, <2>1, <2>2, Start
  <2>5. ASSUME NEW n \in 1..Len(p) PROVE p[n] = q[n]
    <3>1. CASE n <= stem(p)
      <4>1. n \in 1..stem(p) /\ stem(p) \in 0..Len(q)
        BY <2>3, <2>4, <3>1
      <4>2. SubSeq(p, 1, stem(p))[n] = p[n]
        BY <2>2, <2>4, <4>1, Start
      <4>3. SubSeq(q, 1, stem(p))[n] = q[n]
        BY <2>2, <2>4, <4>1, Start
      <4>. QED  BY <2>1, <2>4, <4>2, <4>3
    <3>2. CASE n > stem(p)
      <4>1. n \in (stem(p) + 1)..Len(p) /\ n \in 1..Len(q)
        BY <2>3, <2>4, <3>2
      <4>2. IsField(p[n]) /\ IsField(q[n]) /\ p[n] \in Segments /\ q[n] \in Segments
        BY <1>2, <2>2, <2>3, <2>4, <4>1 DEF Stem
      <4>3. p[n] = FieldSegment(p[n].field) /\ q[n] = FieldSegment(q[n].field)
        BY <4>2, SegmentKinds
      <4>4. SchemaPath(p)[n] = p[n].field /\ SchemaPath(q)[n] = q[n].field
        BY <2>2, <2>3, <4>1, <4>2, SchemaPathType
      <4>. QED  BY <2>1, <4>3, <4>4
    <3>. QED  BY <2>4, <3>1, <3>2
  <2>. QED  BY <2>2, <2>3, <2>5, SameSequence
<1>5. f \in Injection(DOMAIN r, T)
  <2>1. f \in [DOMAIN r -> T]
    BY <1>3
  <2>. HIDE DEF f
  <2>. QED  BY <1>4, <2>1 DEF Injection, IsInjective
<1>. HIDE DEF T, f
<1>. QED  BY <1>1, <1>5, FS_Injection

(* What the rows of one parent end in.                                     *)
Siblings(type) ==
    IF type = "object" THEN {s \in Segments : IsField(s) /\ s.field \in DOMAIN FieldRank}
    ELSE IF type = "array" THEN {s \in Segments : IsItem(s)} \cup {Slot}
    ELSE {s \in Segments : IsKey(s)} \cup {Slot}

(* A placeholder's segment is no field, item or key.                       *)
LEMMA SlotFacts ==
    /\ Slot \notin Segments
    /\ ~IsField(Slot) /\ ~IsItem(Slot) /\ ~IsKey(Slot)
<1>1. DOMAIN Slot = {"slot"}
  BY DEF Slot
<1>2. ~IsField(Slot) /\ ~IsItem(Slot) /\ ~IsKey(Slot)
  BY <1>1 DEF IsField, IsItem, IsKey
<1>. QED  BY <1>2, SegmentKinds

(* Rows under one parent are strictly ordered: fields by name, items by    *)
(* index, keys by key, the placeholder last.                               *)
LEMMA EarlierFacts ==
    ASSUME NEW type
    PROVE  /\ \A a \in Siblings(type) : ~Earlier(a, a)
           /\ \A a, b, c \in Siblings(type) : Earlier(a, b) /\ Earlier(b, c) => Earlier(a, c)
           /\ \A a, b \in Siblings(type) : a # b => Earlier(a, b) \/ Earlier(b, a)
<1>1. CASE type = "object"
  <2>1. \A a \in Siblings(type) :
          /\ a # Slot /\ IsField(a) /\ ~IsItem(a) /\ ~IsKey(a)
          /\ a.field \in DOMAIN FieldRank /\ a = FieldSegment(a.field)
          /\ FieldRank[a.field] \in Nat
    BY <1>1, SlotFacts, SegmentKinds, ComposeViewAssumption DEF Siblings
  <2>2. \A a, b \in Siblings(type) : Earlier(a, b) <=> FieldRank[a.field] < FieldRank[b.field]
    BY <2>1 DEF Earlier
  <2>3. \A a, b \in Siblings(type) : FieldRank[a.field] = FieldRank[b.field] => a = b
    <3>. TAKE a, b \in Siblings(type)
    <3>. HAVE FieldRank[a.field] = FieldRank[b.field]
    <3>1. a.field = b.field
      BY <2>1, ComposeViewAssumption
    <3>. QED  BY <2>1, <3>1
  <2>. QED  BY <2>1, <2>2, <2>3
<1>2. CASE type = "array"
  <2>1. \A a \in Siblings(type) : a # Slot =>
          ~IsField(a) /\ IsItem(a) /\ ~IsKey(a) /\ a.item \in Nat /\ a = IndexSegment(a.item)
    BY <1>2, SegmentKinds DEF Siblings
  <2>2. \A a, b \in Siblings(type) :
          Earlier(a, b) <=> a # Slot /\ (b = Slot \/ a.item < b.item)
    BY <2>1 DEF Earlier
  <2>3. \A a, b \in Siblings(type) : a # Slot /\ b # Slot /\ a.item = b.item => a = b
    BY <2>1
  <2>. QED  BY <2>1, <2>2, <2>3
<1>3. CASE type \notin {"object", "array"}
  <2>1. \A a \in Siblings(type) : a # Slot =>
          ~IsField(a) /\ ~IsItem(a) /\ IsKey(a) /\ a.key \in Nat /\ a = KeySegment(a.key)
    BY <1>3, SegmentKinds DEF Siblings
  <2>2. \A a, b \in Siblings(type) :
          Earlier(a, b) <=> a # Slot /\ (b = Slot \/ a.key < b.key)
    BY <2>1 DEF Earlier
  <2>3. \A a, b \in Siblings(type) : a # Slot /\ b # Slot /\ a.key = b.key => a = b
    BY <2>1
  <2>. QED  BY <2>1, <2>2, <2>3
<1>. QED  BY <1>1, <1>2, <1>3

-----------------------------------------------------------------------------
(* Depth-first order: of rows on screen, and of schema-level paths.        *)

(* The segments of rows on screen.                                         *)
Screened == Segments \cup {Slot}
(* Each segment is one that a row of the type above it can have.           *)
Orderly(v, p) ==
    /\ p \in Seq(Screened)
    /\ \A n \in 1..Len(p) : p[n] \in Siblings(TypeAt(v, SubSeq(p, 1, n - 1)))

(* Two paths part at their n-th segment.                                   *)
Fork(p, q, n) ==
    /\ n \in 1..Len(p) /\ n \in 1..Len(q)
    /\ \A m \in 1..(n - 1) : p[m] = q[m]
    /\ p[n] # q[n]

(* q is strictly beneath p.                                                *)
Strictly(q, p) == p # q /\ IsAtOrBeneath(q, p)

(* One is on the way to the other, or the two part in the order E.         *)
Parts(E, p, q) == \E n \in Nat : Fork(p, q, n) /\ <<p[n], q[n]>> \in E
(* p is above q, or their paths part and p's segment comes first.          *)
Before(E, p, q) == Strictly(q, p) \/ Parts(E, p, q)
(* Depth-first order, over pairs.                                          *)
TreeOrder(E, S) == {e \in S \X S : Before(E, e[1], e[2])}

(* Where paths part, E orders what they go on with.                        *)
Forked(E, S) ==
    /\ \A p, q \in S : \A n \in Nat :
         Fork(p, q, n) => <<p[n], q[n]>> \in E \/ <<q[n], p[n]>> \in E
    /\ \A p, q, r \in S : \A n \in Nat :
         Fork(p, q, n) /\ Fork(q, r, n) /\ <<p[n], q[n]>> \in E /\ <<q[n], r[n]>> \in E
           => p[n] # r[n] /\ <<p[n], r[n]>> \in E

(* Two paths are one, or one is on the way to the other, or they part.     *)
LEMMA Related ==
    ASSUME NEW S, NEW p \in Seq(S), NEW q \in Seq(S)
    PROVE  p = q \/ Strictly(p, q) \/ Strictly(q, p) \/ \E n \in Nat : Fork(p, q, n)
<1>. DEFINE k == Smaller(Len(p), Len(q))
<1>1. /\ Len(p) \in Nat /\ Len(q) \in Nat /\ k \in Nat /\ k <= Len(p) /\ k <= Len(q)
      /\ k = Len(p) \/ k = Len(q)
      /\ \A n : n \in 1..k <=> n \in 1..Len(p) /\ n \in 1..Len(q)
  BY DEF Smaller
<1>. HIDE DEF k
<1>. DEFINE T == {n \in Nat : n \in 1..k /\ p[n] # q[n]}
<1>2. CASE T = {}
  <2>1. \A n \in 1..k : p[n] = q[n]
    BY <1>1, <1>2
  <2>2. CASE k = Len(p)
    BY <1>1, <2>1, <2>2 DEF Strictly, IsAtOrBeneath
  <2>3. CASE k = Len(q)
    BY <1>1, <2>1, <2>3 DEF Strictly, IsAtOrBeneath
  <2>. QED  BY <1>1, <2>2, <2>3
<1>3. CASE T # {}
  <2>1. PICK n \in T : \A m \in T : n <= m
    <3>1. T \in SUBSET Nat
      OBVIOUS
    <3>. HIDE DEF T
    <3>. QED  BY <1>3, <3>1, LeastNumber
  <2>2. n \in Nat /\ n \in 1..k /\ p[n] # q[n] /\ \A m \in 1..(n - 1) : p[m] = q[m]
    <3>1. \A m \in 1..(n - 1) : m \in Nat /\ m \in 1..k /\ m < n
      BY <1>1, <2>1
    <3>. QED  BY <2>1, <3>1
  <2>3. Fork(p, q, n)
    BY <1>1, <2>2 DEF Fork
  <2>. QED  BY <2>2, <2>3
<1>. QED  BY <1>2, <1>3

(* A fork, as Above and FieldPaths spell it.                               *)
LEMMA ForkStart ==
    ASSUME NEW S, NEW p \in Seq(S), NEW q \in Seq(S), NEW n \in Nat
    PROVE  Fork(p, q, n) <=> /\ n \in 1..Smaller(Len(p), Len(q))
                             /\ SubSeq(p, 1, n - 1) = SubSeq(q, 1, n - 1) /\ p[n] # q[n]
<1>1. /\ Len(p) \in Nat /\ Len(q) \in Nat
      /\ n \in 1..Smaller(Len(p), Len(q)) <=> n \in 1..Len(p) /\ n \in 1..Len(q)
  BY DEF Smaller
<1>. SUFFICES ASSUME n \in 1..Len(p), n \in 1..Len(q)
              PROVE  SubSeq(p, 1, n - 1) = SubSeq(q, 1, n - 1)
                       <=> \A m \in 1..(n - 1) : p[m] = q[m]
  BY <1>1 DEF Fork
<1>2. n - 1 \in 0..Len(p) /\ n - 1 \in 0..Len(q)
  BY <1>1
<1>. DEFINE a == SubSeq(p, 1, n - 1)
            b == SubSeq(q, 1, n - 1)
<1>3. /\ a \in Seq(S) /\ b \in Seq(S) /\ Len(a) = n - 1 /\ Len(b) = n - 1
      /\ \A m \in 1..(n - 1) : a[m] = p[m] /\ b[m] = q[m]
  BY <1>2, Start
<1>. HIDE DEF a, b
<1>4. (\A m \in 1..(n - 1) : p[m] = q[m]) => a = b
  BY <1>3, SameSequence
<1>5. a = b => \A m \in 1..(n - 1) : p[m] = q[m]
  BY <1>3
<1>. QED  BY <1>4, <1>5 DEF a, b

(* Depth-first order is transitive.                                        *)
LEMMA BeforeTransitive ==
    ASSUME NEW A, NEW E, NEW S \in SUBSET Seq(A), Forked(E, S),
           NEW p \in S, NEW q \in S, NEW r \in S, Before(E, p, q), Before(E, q, r)
    PROVE  Before(E, p, r)
<1>1. p \in Seq(A) /\ q \in Seq(A) /\ r \in Seq(A)
  OBVIOUS
<1>2. Len(p) \in Nat /\ Len(q) \in Nat /\ Len(r) \in Nat
  BY <1>1
<1>3. CASE Strictly(q, p) /\ Strictly(r, q)
  <2>1. IsAtOrBeneath(r, p)
    BY <1>1, <1>3, BeneathOrder DEF Strictly
  <2>2. Len(p) < Len(q) /\ Len(q) <= Len(r)
    <3>1. Len(p) <= Len(q) /\ Len(q) <= Len(r)
      BY <1>3 DEF Strictly, IsAtOrBeneath
    <3>2. Len(p) # Len(q)
      BY <1>1, <1>3, BeneathOrder DEF Strictly
    <3>. QED  BY <1>2, <3>1, <3>2
  <2>3. p # r
    BY <1>2, <2>2
  <2>. QED  BY <2>1, <2>3 DEF Before, Strictly
<1>4. CASE Strictly(q, p) /\ Parts(E, q, r)
  <2>1. PICK n \in Nat : Fork(q, r, n) /\ <<q[n], r[n]>> \in E
    BY <1>4 DEF Parts
  <2>2. Len(p) <= Len(q) /\ \A m \in 1..Len(p) : q[m] = p[m]
    BY <1>4 DEF Strictly, IsAtOrBeneath
  <2>3. CASE n <= Len(p)
    <3>1. Fork(p, r, n) /\ p[n] = q[n]
      BY <1>2, <2>1, <2>2, <2>3 DEF Fork
    <3>. QED  BY <2>1, <3>1 DEF Before, Parts
  <2>4. CASE n > Len(p)
    <3>1. Len(p) < Len(r) /\ \A m \in 1..Len(p) : r[m] = p[m]
      BY <1>2, <2>1, <2>2, <2>4 DEF Fork
    <3>2. Strictly(r, p)
      BY <1>2, <3>1 DEF Strictly, IsAtOrBeneath
    <3>. QED  BY <3>2 DEF Before
  <2>. QED  BY <1>2, <2>3, <2>4
<1>5. CASE Parts(E, p, q) /\ Strictly(r, q)
  <2>1. PICK n \in Nat : Fork(p, q, n) /\ <<p[n], q[n]>> \in E
    BY <1>5 DEF Parts
  <2>2. Len(q) <= Len(r) /\ \A m \in 1..Len(q) : r[m] = q[m]
    BY <1>5 DEF Strictly, IsAtOrBeneath
  <2>3. Fork(p, r, n) /\ r[n] = q[n]
    BY <1>2, <2>1, <2>2 DEF Fork
  <2>. QED  BY <2>1, <2>3 DEF Before, Parts
<1>6. CASE Parts(E, p, q) /\ Parts(E, q, r)
  <2>1. PICK n \in Nat : Fork(p, q, n) /\ <<p[n], q[n]>> \in E
    BY <1>6 DEF Parts
  <2>2. PICK m \in Nat : Fork(q, r, m) /\ <<q[m], r[m]>> \in E
    BY <1>6 DEF Parts
  <2>3. CASE n < m
    <3>1. Fork(p, r, n) /\ r[n] = q[n]
      BY <1>2, <2>1, <2>2, <2>3 DEF Fork
    <3>. QED  BY <2>1, <3>1 DEF Before, Parts
  <2>4. CASE m < n
    <3>1. Fork(p, r, m) /\ p[m] = q[m]
      BY <1>2, <2>1, <2>2, <2>4 DEF Fork
    <3>. QED  BY <2>2, <3>1 DEF Before, Parts
  <2>5. CASE n = m
    <3>1. p[n] # r[n] /\ <<p[n], r[n]>> \in E
      BY <2>1, <2>2, <2>5 DEF Forked
    <3>2. Fork(p, r, n)
      BY <2>1, <2>2, <2>5, <3>1 DEF Fork
    <3>. QED  BY <3>1, <3>2 DEF Before, Parts
  <2>. QED  BY <2>3, <2>4, <2>5
<1>. QED  BY <1>3, <1>4, <1>5, <1>6 DEF Before

(* Depth-first order is a strict order where the segments at every fork    *)
(* are strictly ordered.                                                   *)
LEMMA TreeOrderIsStrict ==
    ASSUME NEW A, NEW E, NEW S \in SUBSET Seq(A), Forked(E, S)
    PROVE  StrictOrder(S, TreeOrder(E, S))
<1>1. \A p, q \in S : <<p, q>> \in TreeOrder(E, S) <=> Before(E, p, q)
  BY DEF TreeOrder
<1>2. ASSUME NEW p \in S PROVE ~Before(E, p, p)
  BY DEF Before, Strictly, Parts, Fork
<1>3. ASSUME NEW p \in S, NEW q \in S, p # q PROVE Before(E, p, q) \/ Before(E, q, p)
  <2>1. CASE Strictly(p, q) \/ Strictly(q, p)
    BY <2>1 DEF Before
  <2>2. CASE \E n \in Nat : Fork(p, q, n)
    <3>1. PICK n \in Nat : Fork(p, q, n)
      BY <2>2
    <3>2. Fork(q, p, n)
      BY <3>1 DEF Fork
    <3>3. <<p[n], q[n]>> \in E \/ <<q[n], p[n]>> \in E
      BY <3>1 DEF Forked
    <3>. QED  BY <3>1, <3>2, <3>3 DEF Before, Parts
  <2>3. p \in Seq(A) /\ q \in Seq(A)
    OBVIOUS
  <2>. QED  BY <1>3, <2>1, <2>2, <2>3, Related
<1>4. \A p, q, r \in S : Before(E, p, q) /\ Before(E, q, r) => Before(E, p, r)
  BY BeforeTransitive
<1>. QED  BY <1>1, <1>2, <1>3, <1>4 DEF StrictOrder

(* The rows of the field tree.                                             *)
EarlierPairs == {e \in Screened \X Screened : Earlier(e[1], e[2])}
(* Above, over pairs.                                                      *)
AboveOrder(S) == {e \in S \X S : Above(e[1], e[2])}

(* Above is depth-first order by Earlier.                                  *)
LEMMA AboveBy ==
    ASSUME NEW p \in Seq(Screened), NEW q \in Seq(Screened)
    PROVE  Above(p, q) <=> Before(EarlierPairs, p, q)
<1>1. \A n \in Nat : Fork(p, q, n) => p[n] \in Screened /\ q[n] \in Screened
  BY DEF Fork
<1>2. \A n \in Nat : Fork(p, q, n) => (<<p[n], q[n]>> \in EarlierPairs <=> Earlier(p[n], q[n]))
  BY <1>1 DEF EarlierPairs
<1>3. Parts(EarlierPairs, p, q) <=> \E n \in Nat : Fork(p, q, n) /\ Earlier(p[n], q[n])
  BY <1>2 DEF Parts
<1>4. \A n \in Nat : Fork(p, q, n) <=> /\ n \in 1..Smaller(Len(p), Len(q))
                                       /\ SubSeq(p, 1, n - 1) = SubSeq(q, 1, n - 1) /\ p[n] # q[n]
  BY ForkStart
<1>5. \A n \in 1..Smaller(Len(p), Len(q)) : n \in Nat
  BY DEF Smaller
<1>. QED  BY <1>3, <1>4, <1>5 DEF Above, Before, Strictly

(* Rows on screen are strictly ordered (appendVisibleRows).                *)
LEMMA AboveIsStrict ==
    ASSUME NEW v, NEW S, \A p \in S : Orderly(v, p)
    PROVE  StrictOrder(S, AboveOrder(S))
<1>1. S \in SUBSET Seq(Screened)
  BY DEF Orderly
<1>2. ASSUME NEW p \in S, NEW q \in S, NEW n \in Nat, Fork(p, q, n)
      PROVE  /\ SubSeq(p, 1, n - 1) = SubSeq(q, 1, n - 1)
             /\ p[n] \in Siblings(TypeAt(v, SubSeq(p, 1, n - 1)))
             /\ q[n] \in Siblings(TypeAt(v, SubSeq(p, 1, n - 1)))
             /\ <<p[n], q[n]>> \in EarlierPairs <=> Earlier(p[n], q[n])
             /\ <<q[n], p[n]>> \in EarlierPairs <=> Earlier(q[n], p[n])
             /\ p[n] # q[n]
  <2>1. p \in Seq(Screened) /\ q \in Seq(Screened) /\ n \in 1..Len(p) /\ n \in 1..Len(q)
        /\ p[n] # q[n]
    BY <1>1, <1>2 DEF Fork
  <2>2. p[n] \in Screened /\ q[n] \in Screened
    BY <2>1
  <2>3. SubSeq(p, 1, n - 1) = SubSeq(q, 1, n - 1)
    BY <1>2, <2>1, ForkStart
  <2>4. p[n] \in Siblings(TypeAt(v, SubSeq(p, 1, n - 1)))
    BY <2>1 DEF Orderly
  <2>5. q[n] \in Siblings(TypeAt(v, SubSeq(q, 1, n - 1)))
    BY <2>1 DEF Orderly
  <2>. QED  BY <2>1, <2>2, <2>3, <2>4, <2>5 DEF EarlierPairs
<1>3. Forked(EarlierPairs, S)
  <2>1. ASSUME NEW p \in S, NEW q \in S, NEW n \in Nat, Fork(p, q, n)
        PROVE  <<p[n], q[n]>> \in EarlierPairs \/ <<q[n], p[n]>> \in EarlierPairs
    <3>. DEFINE type == TypeAt(v, SubSeq(p, 1, n - 1))
    <3>1. p[n] \in Siblings(type) /\ q[n] \in Siblings(type) /\ p[n] # q[n]
      BY <1>2, <2>1
    <3>. HIDE DEF type
    <3>2. Earlier(p[n], q[n]) \/ Earlier(q[n], p[n])
      BY <3>1, EarlierFacts
    <3>. QED  BY <1>2, <2>1, <3>2
  <2>2. ASSUME NEW p \in S, NEW q \in S, NEW r \in S, NEW n \in Nat, Fork(p, q, n), Fork(q, r, n),
               <<p[n], q[n]>> \in EarlierPairs, <<q[n], r[n]>> \in EarlierPairs
        PROVE  p[n] # r[n] /\ <<p[n], r[n]>> \in EarlierPairs
    <3>. DEFINE type == TypeAt(v, SubSeq(q, 1, n - 1))
    <3>1. /\ p[n] \in Siblings(type) /\ q[n] \in Siblings(type) /\ r[n] \in Siblings(type)
          /\ Earlier(p[n], q[n]) /\ Earlier(q[n], r[n])
      BY <1>2, <2>2
    <3>. HIDE DEF type
    <3>2. Earlier(p[n], r[n]) /\ p[n] # r[n]
      BY <3>1, EarlierFacts
    <3>3. p[n] \in Screened /\ r[n] \in Screened
      BY <1>1, <2>2 DEF Fork
    <3>. QED  BY <3>2, <3>3 DEF EarlierPairs
  <2>. QED  BY <2>1, <2>2 DEF Forked
<1>4. StrictOrder(S, TreeOrder(EarlierPairs, S))
  BY <1>1, <1>3, TreeOrderIsStrict
<1>5. AboveOrder(S) = TreeOrder(EarlierPairs, S)
  BY <1>1, AboveBy DEF AboveOrder, TreeOrder
<1>. QED  BY <1>4, <1>5

-----------------------------------------------------------------------------
(* Every row on screen has a place of its own.                             *)

(* The rows whose ancestors are all expanded.                              *)
Seen(r) == {p \in DOMAIN r : OnWay(r, p)}
(* The expanded collections among them.                                    *)
Open(v, r) == {p \in Seen(r) : r[p].expanded /\ TypeAt(v, p) \in {"array", "map"}}

(* The rows on screen, by name.                                            *)
LEMMA ShownBy ==
    ASSUME NEW v, NEW r
    PROVE  Shown(v, r) = Seen(r) \cup {Append(p, Slot) : p \in Open(v, r)}
BY DEF Shown, Seen, Open, OnWay

(* A placeholder is no row, and its collection's row is above it.          *)
LEMMA SlotRow ==
    ASSUME NEW p \in Paths
    PROVE  LET q == Append(p, Slot) IN
           /\ q \in Seq(Screened) /\ q # <<>> /\ q \notin Paths /\ IsSlot(q)
           /\ Front(q) = p /\ Len(q) = Len(p) + 1 /\ Last(q) = Slot
           /\ Len(p) \in Nat /\ p \in Seq(Screened)
           /\ \A n \in 0..Len(p) : SubSeq(q, 1, n) = SubSeq(p, 1, n)
           /\ \A n \in 1..Len(p) : q[n] = p[n]
           /\ q[Len(p) + 1] = Slot
<1>. DEFINE q == Append(p, Slot)
<1>1. p \in Seq(Screened) /\ Slot \in Screened /\ Len(p) \in Nat
  BY DEF Paths, Screened
<1>2. /\ q \in Seq(Screened) /\ q # <<>> /\ Front(q) = p /\ Len(q) = Len(p) + 1 /\ Last(q) = Slot
  BY <1>1, Appended
<1>3. q[Len(p) + 1] = Slot /\ \A n \in 1..Len(p) : q[n] = p[n]
  BY <1>1
<1>. HIDE DEF q
<1>4. q \notin Paths
  BY <1>1, <1>2, <1>3, SlotFacts DEF Paths
<1>5. IsSlot(q)
  BY <1>2 DEF IsSlot
<1>6. \A n \in 0..Len(p) : SubSeq(q, 1, n) = SubSeq(p, 1, n)
  <2>1. Len(q) - 1 = Len(p)
    BY <1>1, <1>2
  <2>2. Front(q) = SubSeq(q, 1, Len(q) - 1)
    BY <1>2, FrontLast
  <2>3. p = SubSeq(q, 1, Len(p))
    BY <1>2, <2>1, <2>2
  <2>. TAKE n \in 0..Len(p)
  <2>4. Len(p) \in 0..Len(q)
    BY <1>1, <1>2
  <2>5. SubSeq(SubSeq(q, 1, Len(p)), 1, n) = SubSeq(q, 1, n)
    BY <1>2, <2>4, StartOfStart
  <2>. QED  BY <2>3, <2>5
<1>. QED  BY <1>1, <1>2, <1>3, <1>4, <1>5, <1>6 DEF q

(* No row of the tree is a placeholder.                                    *)
LEMMA NoSlotInRow ==
    ASSUME NEW p \in Paths
    PROVE  ~IsSlot(p)
BY FrontLast, SlotFacts DEF IsSlot, Paths

(* What is on screen is a row under expanded ones, or the placeholder of   *)
(* one that is expanded.                                                   *)
LEMMA OnScreenBy ==
    ASSUME NEW v \in Versions, NEW d, NEW r, RowsInv(v, d, r)
    PROVE  /\ \A p \in Paths : p \in Shown(v, r) <=> p \in DOMAIN r /\ OnWay(r, p)
           /\ \A p \in Shown(v, r) : ~IsSlot(p) <=> p \in Paths
           /\ \A p \in Shown(v, r) : IsSlot(p) =>
                /\ Front(p) \in Open(v, r) /\ Front(p) \in Paths /\ Front(p) \in Shown(v, r)
                /\ p = Append(Front(p), Slot)
           /\ \A p \in Open(v, r) : Append(p, Slot) \in Shown(v, r)
           /\ <<>> \in Shown(v, r)
<1>1. DOMAIN r \subseteq Paths /\ <<>> \in DOMAIN r
  BY DEF RowsInv, RowsMirror
<1>. DEFINE Slots == {Append(p, Slot) : p \in Open(v, r)}
<1>2. Shown(v, r) = Seen(r) \cup Slots /\ Seen(r) \subseteq Paths /\ Open(v, r) \subseteq Seen(r)
  BY <1>1, ShownBy DEF Seen, Open
<1>3. ASSUME NEW p \in Slots
      PROVE  /\ p \notin Paths /\ IsSlot(p) /\ Front(p) \in Open(v, r) /\ p = Append(Front(p), Slot)
  BY <1>2, SlotRow
<1>. HIDE DEF Slots
<1>4. \A p \in Paths : p \in Shown(v, r) <=> p \in DOMAIN r /\ OnWay(r, p)
  BY <1>2, <1>3 DEF Seen
<1>5. \A p \in Shown(v, r) : ~IsSlot(p) <=> p \in Paths
  BY <1>2, <1>3, NoSlotInRow
<1>6. \A p \in Shown(v, r) : IsSlot(p) =>
        /\ Front(p) \in Open(v, r) /\ Front(p) \in Paths /\ Front(p) \in Shown(v, r)
        /\ p = Append(Front(p), Slot)
  BY <1>2, <1>3, NoSlotInRow
<1>7. \A p \in Open(v, r) : Append(p, Slot) \in Shown(v, r)
  BY <1>2 DEF Slots
<1>8. <<>> \in Shown(v, r)
  BY <1>1, <1>2 DEF Seen, OnWay
<1>. QED  BY <1>4, <1>5, <1>6, <1>7, <1>8

(* Each segment of a row fits its parent's type.                           *)
LEMMA RowIsOrderly ==
    ASSUME NEW v \in Versions, NEW d, NEW r, RowsInv(v, d, r), NEW p \in DOMAIN r
    PROVE  Orderly(v, p)
<1>1. /\ p \in Paths /\ p \in Seq(Screened) /\ Len(p) \in Nat
      /\ \A n \in 0..Len(p) : SubSeq(p, 1, n) \in DOMAIN r
      /\ \A q \in DOMAIN r : q \in Paths /\ Resolves(v, q)
  BY RowsResolve, RowsAnchor DEF RowsInv, Paths, Screened
<1>2. ASSUME NEW n \in 1..Len(p)
      PROVE  p[n] \in Siblings(TypeAt(v, SubSeq(p, 1, n - 1)))
  <2>. DEFINE q == SubSeq(p, 1, n)
  <2>1. /\ q \in DOMAIN r /\ q \in Paths \ {<<>>} /\ Len(q) = n /\ Last(q) = p[n]
        /\ Front(q) = SubSeq(p, 1, n - 1)
    <3>1. q \in Along(p)
      BY DEF Along
    <3>2. n \in 0..Len(p) /\ Len(q) = n
      BY <1>1, Start DEF Paths
    <3>3. q \in DOMAIN r
      BY <1>1, <3>2
    <3>. HIDE DEF q
    <3>. QED  BY <1>1, <3>1, <3>2, <3>3, AlongPosition
  <2>. HIDE DEF q
  <2>2. /\ \/ IsField(Last(q)) /\ TypeAt(v, Front(q)) = "object"
           \/ IsItem(Last(q)) /\ TypeAt(v, Front(q)) = "array"
           \/ IsKey(Last(q)) /\ TypeAt(v, Front(q)) = "map"
        /\ Last(q) \in Segments
    BY <1>1, <2>1, ParentResolves, SchemaPathFront
  <2>3. ASSUME IsField(Last(q)) PROVE Last(q).field \in DOMAIN FieldRank
    <3>1. /\ SchemaPath(q) \in DOMAIN FieldTree[v] \ {<<>>}
          /\ Last(SchemaPath(q)) = Last(q).field
      BY <1>1, <2>1, <2>3, SchemaPathFront DEF Resolves
    <3>2. Last(q).field \notin {Item, Value}
      BY <2>2, <2>3, SegmentKinds
    <3>. QED  BY <3>1, <3>2, ComposeViewAssumption
  <2>. QED  BY <2>1, <2>2, <2>3 DEF Siblings
<1>. QED  BY <1>1, <1>2 DEF Orderly

(* So does each segment of a row on screen.                                *)
LEMMA ShownIsOrderly ==
    ASSUME NEW v \in Versions, NEW d, NEW r, RowsInv(v, d, r), NEW p \in Shown(v, r)
    PROVE  Orderly(v, p)
<1>1. CASE ~IsSlot(p)
  BY <1>1, OnScreenBy, RowIsOrderly
<1>2. CASE IsSlot(p)
  <2>. DEFINE q == Front(p)
  <2>1. /\ q \in Paths /\ q \in DOMAIN r /\ p = Append(q, Slot)
        /\ TypeAt(v, q) \in {"array", "map"}
    BY <1>2, OnScreenBy DEF Open, Seen
  <2>. HIDE DEF q
  <2>2. Orderly(v, q)
    BY <2>1, RowIsOrderly
  <2>3. /\ p \in Seq(Screened) /\ Len(p) = Len(q) + 1 /\ Len(q) \in Nat
        /\ \A n \in 0..Len(q) : SubSeq(p, 1, n) = SubSeq(q, 1, n)
        /\ \A n \in 1..Len(q) : p[n] = q[n]
        /\ p[Len(q) + 1] = Slot
    BY <2>1, SlotRow
  <2>4. SubSeq(p, 1, Len(q)) = q
    <3>1. SubSeq(q, 1, Len(q)) = q
      BY <2>1 DEF Paths
    <3>. QED  BY <2>3, <3>1
  <2>5. ASSUME NEW n \in 1..Len(p)
        PROVE  p[n] \in Siblings(TypeAt(v, SubSeq(p, 1, n - 1)))
    <3>1. CASE n = Len(q) + 1
      <4>1. n - 1 = Len(q) /\ p[n] = Slot
        BY <2>3, <3>1
      <4>2. SubSeq(p, 1, n - 1) = q
        BY <2>4, <4>1
      <4>. QED  BY <2>1, <4>1, <4>2 DEF Siblings
    <3>2. CASE n # Len(q) + 1
      <4>1. n \in 1..Len(q) /\ n - 1 \in 0..Len(q)
        BY <2>3, <3>2
      <4>2. SubSeq(p, 1, n - 1) = SubSeq(q, 1, n - 1) /\ p[n] = q[n]
        BY <2>3, <4>1
      <4>. QED  BY <2>2, <4>1, <4>2 DEF Orderly
    <3>. QED  BY <3>1, <3>2
  <2>. QED  BY <2>3, <2>5 DEF Orderly
<1>. QED  BY <1>1, <1>2

(* The rows on screen are finitely many, and each has a place of its own.  *)
LEMMA ShownPlaces ==
    ASSUME NEW v \in Versions, NEW d, WellFormed(v, d), NEW r, RowsInv(v, d, r)
    PROVE  LET S == Shown(v, r) IN
           /\ IsFiniteSet(S) /\ Cardinality(S) \in Nat /\ Cardinality(S) > 0
           /\ \A p \in S : Place(S, p) \in 0..(Cardinality(S) - 1)
           /\ \A p, q \in S : Place(S, p) = Place(S, q) => p = q
           /\ \A n \in 0..(Cardinality(S) - 1) : \E p \in S : Place(S, p) = n
           /\ \A p, q \in S : Above(p, q) <=> Place(S, p) < Place(S, q)
<1>. DEFINE S == Shown(v, r)
            R == AboveOrder(S)
            place == [p \in S |-> Place(S, p)]
<1>1. IsFiniteSet(S)
  <2>1. IsFiniteSet(DOMAIN r)
    BY FiniteRows DEF RowsInv
  <2>2. IsFiniteSet(Seen(r)) /\ IsFiniteSet(Open(v, r))
    <3>1. Seen(r) \in SUBSET DOMAIN r /\ Open(v, r) \in SUBSET DOMAIN r
      BY DEF Seen, Open
    <3>. QED  BY <2>1, <3>1, FS_Subset
  <2>3. IsFiniteSet({Append(p, Slot) : p \in Open(v, r)})
    <3>. DEFINE O == Open(v, r)
                T == {Append(p, Slot) : p \in O}
                f == [p \in O |-> Append(p, Slot)]
    <3>1. f \in [O -> T] /\ \A y \in T : \E x \in O : f[x] = y
      <4>. HIDE DEF O
      <4>. QED  OBVIOUS
    <3>. HIDE DEF f, T
    <3>2. IsFiniteSet(T)
      BY <2>2, <3>1, ImageIsFinite
    <3>. QED  BY <3>2 DEF T
  <2>. QED  BY <2>2, <2>3, ShownBy, FS_Union
<1>2. StrictOrder(S, R)
  <2>1. \A p \in S : Orderly(v, p)
    BY ShownIsOrderly
  <2>. HIDE DEF S
  <2>. QED  BY <2>1, AboveIsStrict
<1>3. <<>> \in S
  BY OnScreenBy
<1>. HIDE DEF S
<1>4. \A p, q \in S : <<p, q>> \in R <=> Above(p, q)
  BY DEF AboveOrder
<1>5. \A p \in S : Below(S, R, p) = {q \in S : Above(q, p)}
  BY <1>4 DEF Below
<1>6. Ranks(S, R, place)
  BY <1>5 DEF Ranks, Place
<1>. HIDE DEF R
<1>7. /\ Cardinality(S) \in Nat
      /\ \A x \in S : place[x] \in 0..(Cardinality(S) - 1)
      /\ \A x, y \in S : <<x, y>> \in R <=> place[x] < place[y]
      /\ \A x, y \in S : place[x] = place[y] => x = y
      /\ \A n \in 0..(Cardinality(S) - 1) : \E x \in S : place[x] = n
  <2>. HIDE DEF place
  <2>. QED  BY <1>1, <1>2, <1>6, Places
<1>8. \A p \in S : place[p] = Place(S, p)
  OBVIOUS
<1>. HIDE DEF place
<1>9. /\ \A p \in S : Place(S, p) \in 0..(Cardinality(S) - 1)
      /\ \A p, q \in S : Place(S, p) = Place(S, q) => p = q
      /\ \A n \in 0..(Cardinality(S) - 1) : \E p \in S : Place(S, p) = n
      /\ \A p, q \in S : Above(p, q) <=> Place(S, p) < Place(S, q)
  <2>1. \A p \in S : Place(S, p) \in 0..(Cardinality(S) - 1)
    BY <1>7, <1>8
  <2>2. \A p, q \in S : Place(S, p) = Place(S, q) => p = q
    BY <1>7, <1>8
  <2>3. \A n \in 0..(Cardinality(S) - 1) : \E p \in S : Place(S, p) = n
    <3>. TAKE n \in 0..(Cardinality(S) - 1)
    <3>1. PICK p \in S : place[p] = n
      BY <1>7
    <3>. QED  BY <1>8, <3>1
  <2>4. \A p, q \in S : Above(p, q) <=> Place(S, p) < Place(S, q)
    <3>. TAKE p \in S, q \in S
    <3>1. Above(p, q) <=> place[p] < place[q]
      BY <1>4, <1>7
    <3>. QED  BY <1>8, <3>1
  <2>. QED  BY <2>1, <2>2, <2>3, <2>4
<1>10. Cardinality(S) > 0
  BY <1>3, <1>7
<1>. QED  BY <1>1, <1>7, <1>9, <1>10 DEF S

-----------------------------------------------------------------------------
(* The fuzzy match: the forward scan.                                      *)

(* The first k letters of the filter occur in the text, in order, at those *)
(* positions.                                                              *)
Occurs(filter, text, at, k) ==
    /\ \A n \in 1..k : at[n] \in 1..Len(text) /\ text[at[n]] = filter[n]
    /\ \A n \in 2..k : at[n - 1] < at[n]

(* What the forward scan has found in the first n letters of the text.     *)
Scanned(filter, text, n, found) ==
    /\ found \in Seq(Nat) /\ Len(found) <= Len(filter)
    /\ Occurs(filter, text, found, Len(found))
    /\ \A i \in 1..Len(found) : found[i] <= n
    /\ \A at : \A i \in 1..Len(filter) :
         Occurs(filter, text, at, i) /\ at[i] <= n => i <= Len(found) /\ found[i] <= at[i]

(* One letter further.                                                     *)
LEMMA ScanStep ==
    ASSUME NEW X, NEW filter \in Seq(X), NEW Y, NEW text \in Seq(Y),
           NEW n \in Nat, n + 1 <= Len(text), NEW found, Scanned(filter, text, n, found)
    PROVE  Scanned(filter, text, n + 1,
                   IF Len(found) < Len(filter) /\ text[n + 1] = filter[Len(found) + 1]
                   THEN Append(found, n + 1)
                   ELSE found)
<1>. DEFINE k == Len(found)
<1>1. /\ found \in Seq(Nat) /\ k \in Nat /\ k <= Len(filter) /\ Len(filter) \in Nat /\ Len(text) \in Nat
      /\ Occurs(filter, text, found, k)
      /\ \A i \in 1..k : found[i] <= n /\ found[i] \in Nat
  BY DEF Scanned
<1>2. ASSUME NEW at, NEW i \in 1..Len(filter), Occurs(filter, text, at, i), at[i] <= n + 1
      PROVE  /\ at[i] <= n \/ at[i] = n + 1
             /\ at[i] <= n => i <= k /\ found[i] <= at[i]
             /\ at[i] = n + 1 => i <= k + 1
  <2>1. at[i] \in Nat /\ i \in 1..i
    BY <1>1, <1>2 DEF Occurs
  <2>2. at[i] <= n => i <= k /\ found[i] <= at[i]
    BY <1>2 DEF Scanned
  <2>3. ASSUME at[i] = n + 1, i # 1 PROVE i <= k + 1
    <3>1. i - 1 \in 1..Len(filter) /\ i \in 2..i /\ i - 1 \in 1..i
      BY <1>1, <2>3
    <3>2. Occurs(filter, text, at, i - 1)
      BY <1>1, <1>2 DEF Occurs
    <3>3. at[i - 1] \in Nat /\ at[i - 1] < at[i]
      BY <1>1, <1>2, <3>1 DEF Occurs
    <3>4. at[i - 1] <= n
      BY <2>1, <2>3, <3>3
    <3>5. i - 1 <= k
      BY <3>1, <3>2, <3>4 DEF Scanned
    <3>. QED  BY <1>1, <3>5
  <2>4. i <= k + 1 \/ i # 1
    BY <1>1
  <2>5. at[i] <= n \/ at[i] = n + 1
    BY <1>2, <2>1
  <2>. QED  BY <2>2, <2>3, <2>4, <2>5
<1>3. CASE k < Len(filter) /\ text[n + 1] = filter[k + 1]
  <2>. DEFINE g == Append(found, n + 1)
  <2>1. /\ g \in Seq(Nat) /\ Len(g) = k + 1 /\ g[k + 1] = n + 1
        /\ \A i \in 1..k : g[i] = found[i]
    BY <1>1
  <2>. HIDE DEF g, k
  <2>2. Occurs(filter, text, g, k + 1)
    <3>1. ASSUME NEW i \in 1..(k + 1) PROVE g[i] \in 1..Len(text) /\ text[g[i]] = filter[i]
      <4>1. CASE i = k + 1
        BY <1>1, <1>3, <2>1, <4>1
      <4>2. CASE i # k + 1
        <5>1. i \in 1..k
          BY <1>1, <4>2
        <5>2. found[i] \in 1..Len(text) /\ text[found[i]] = filter[i]
          BY <1>1, <5>1 DEF Occurs
        <5>. QED  BY <2>1, <5>1, <5>2
      <4>. QED  BY <4>1, <4>2
    <3>2. ASSUME NEW i \in 2..(k + 1) PROVE g[i - 1] < g[i]
      <4>1. CASE i = k + 1
        <5>1. i - 1 \in 1..k /\ i - 1 = k
          BY <1>1, <4>1
        <5>2. g[i - 1] = found[i - 1] /\ found[i - 1] \in Nat /\ found[i - 1] <= n
          BY <1>1, <2>1, <5>1
        <5>. QED  BY <2>1, <4>1, <5>2
      <4>2. CASE i # k + 1
        <5>1. i \in 2..k /\ i \in 1..k /\ i - 1 \in 1..k
          BY <1>1, <4>2
        <5>. QED  BY <1>1, <2>1, <5>1 DEF Occurs
      <4>. QED  BY <4>1, <4>2
    <3>. QED  BY <3>1, <3>2 DEF Occurs
  <2>3. ASSUME NEW i \in 1..(k + 1) PROVE g[i] <= n + 1 /\ g[i] \in Nat
    <3>1. CASE i = k + 1
      BY <1>1, <2>1, <3>1
    <3>2. CASE i # k + 1
      <4>1. i \in 1..k
        BY <1>1, <3>2
      <4>2. found[i] <= n /\ found[i] \in Nat
        BY <1>1, <4>1
      <4>. QED  BY <2>1, <4>1, <4>2
    <3>. QED  BY <3>1, <3>2
  <2>4. ASSUME NEW at, NEW i \in 1..Len(filter), Occurs(filter, text, at, i), at[i] <= n + 1
        PROVE  i <= k + 1 /\ g[i] <= at[i]
    <3>1. CASE at[i] <= n
      <4>1. i <= k /\ found[i] <= at[i]
        BY <1>2, <2>4, <3>1
      <4>2. i \in 1..k
        BY <1>1, <4>1
      <4>. QED  BY <1>1, <2>1, <4>1, <4>2
    <3>2. CASE at[i] = n + 1
      <4>1. i <= k + 1
        BY <1>2, <2>4, <3>2
      <4>2. i \in 1..(k + 1)
        BY <1>1, <4>1
      <4>. QED  BY <2>3, <3>2, <4>2
    <3>. QED  BY <1>2, <2>4, <3>1, <3>2
  <2>5. Scanned(filter, text, n + 1, g)
    BY <1>1, <1>3, <2>1, <2>2, <2>3, <2>4 DEF Scanned
  <2>. QED  BY <1>3, <2>5 DEF g, k
<1>4. CASE ~(k < Len(filter) /\ text[n + 1] = filter[k + 1])
  <2>1. \A i \in 1..k : found[i] <= n + 1
    BY <1>1
  <2>2. ASSUME NEW at, NEW i \in 1..Len(filter), Occurs(filter, text, at, i), at[i] <= n + 1
        PROVE  i <= k /\ found[i] <= at[i]
    <3>1. CASE at[i] <= n
      BY <1>2, <2>2, <3>1
    <3>2. CASE at[i] = n + 1
      <4>1. i <= k + 1
        BY <1>2, <2>2, <3>2
      <4>2. text[n + 1] = filter[i]
        <5>1. i \in 1..i
          OBVIOUS
        <5>. QED  BY <2>2, <3>2, <5>1 DEF Occurs
      <4>3. i # k + 1
        BY <1>1, <1>4, <4>2
      <4>4. i \in 1..k
        <5>. HIDE DEF k
        <5>. QED  BY <1>1, <4>1, <4>3
      <4>5. found[i] <= n /\ found[i] \in Nat
        BY <1>1, <4>4
      <4>. QED  BY <3>2, <4>4, <4>5
    <3>. QED  BY <1>2, <2>2, <3>1, <3>2
  <2>3. Scanned(filter, text, n + 1, found)
    BY <1>1, <2>1, <2>2 DEF Scanned
  <2>. QED  BY <1>4, <2>3
<1>. QED  BY <1>3, <1>4

(* The forward scan finds the filter wherever it occurs, and each letter as *)
(* early as it can be (ForwardScan).                                       *)
LEMMA ForwardScanBy ==
    ASSUME NEW X, NEW filter \in Seq(X), NEW Y, NEW text \in Seq(Y)
    PROVE  Scanned(filter, text, Len(text), ForwardScan(filter, text))
<1>. DEFINE Past(n, b) == IF Len(b) < Len(filter) /\ text[n] = filter[Len(b) + 1]
                          THEN Append(b, n) ELSE b
            N == Len(text)
            Walk(m, f) == f = [n \in 0..m |-> IF n = 0 THEN <<>> ELSE Past(n, f[n - 1])]
            w == CHOOSE f : Walk(N, f)
<1>1. ForwardScan(filter, text) = w[N]
  BY DEF ForwardScan
<1>2. ASSUME NEW n \in Nat, n + 1 <= N, NEW b, Scanned(filter, text, n, b)
      PROVE  Scanned(filter, text, n + 1, Past(n + 1, b))
  BY <1>2, ScanStep
<1>3. Scanned(filter, text, 0, <<>>)
  <2>1. \A at : \A i \in 1..Len(filter) : Occurs(filter, text, at, i) => ~(at[i] <= 0)
    <3>. TAKE at
    <3>. TAKE i \in 1..Len(filter)
    <3>. HAVE Occurs(filter, text, at, i)
    <3>1. at[i] \in 1..Len(text)
      BY DEF Occurs
    <3>. QED  BY <3>1
  <2>. QED  BY <2>1 DEF Scanned, Occurs
<1>. HIDE DEF Past, N
<1>4. N \in Nat
  BY DEF N
<1>5. Walk(N, w)
  <2>. DEFINE T == {m \in Nat : \E f : Walk(m, f)}
  <2>1. 0 \in T
    <3>1. Walk(0, [n \in 0..0 |-> <<>>])
      OBVIOUS
    <3>. QED  BY <3>1
  <2>2. ASSUME NEW m \in Nat, m \in T PROVE m + 1 \in T
    <3>1. PICK f : Walk(m, f)
      BY <2>2
    <3>. DEFINE g == [n \in 0..(m + 1) |-> IF n = m + 1 THEN Past(n, f[m]) ELSE f[n]]
    <3>2. \A n \in 0..m : f[n] = IF n = 0 THEN <<>> ELSE Past(n, f[n - 1])
      BY <3>1
    <3>3. \A n \in 0..m : g[n] = f[n]
      OBVIOUS
    <3>4. g[m + 1] = Past(m + 1, g[m])
      OBVIOUS
    <3>5. ASSUME NEW n \in 0..(m + 1)
          PROVE  g[n] = IF n = 0 THEN <<>> ELSE Past(n, g[n - 1])
      <4>1. CASE n = m + 1
        BY <3>4, <4>1
      <4>2. CASE n # m + 1
        <5>1. n \in 0..m /\ (n # 0 => n - 1 \in 0..m)
          BY <4>2
        <5>. HIDE DEF g
        <5>. QED  BY <3>2, <3>3, <5>1
      <4>. QED  BY <4>1, <4>2
    <3>6. Walk(m + 1, g)
      BY <3>5
    <3>. HIDE DEF g, Walk
    <3>. QED  BY <3>6
  <2>. HIDE DEF T
  <2>3. N \in T
    BY <1>4, <2>1, <2>2, Induction
  <2>. QED  BY <2>3 DEF T
<1>6. w[0] = <<>> /\ \A n \in 1..N : w[n] = Past(n, w[n - 1])
  <2>. HIDE DEF w
  <2>. QED  BY <1>4, <1>5
<1>. HIDE DEF w
<1>. DEFINE I == {n \in Nat : n <= N => Scanned(filter, text, n, w[n])}
<1>7. 0 \in I
  BY <1>3, <1>6
<1>8. ASSUME NEW n \in Nat, n \in I PROVE n + 1 \in I
  <2>. SUFFICES ASSUME n + 1 <= N PROVE Scanned(filter, text, n + 1, w[n + 1])
    OBVIOUS
  <2>1. n <= N /\ n + 1 \in 1..N /\ (n + 1) - 1 = n
    BY <1>4
  <2>2. w[n + 1] = Past(n + 1, w[n])
    BY <1>6, <2>1
  <2>3. Scanned(filter, text, n, w[n])
    BY <1>8, <2>1
  <2>. QED  BY <1>2, <2>1, <2>2, <2>3
<1>9. N \in I
  <2>. HIDE DEF I
  <2>. QED  BY <1>4, <1>7, <1>8, Induction
<1>. QED  BY <1>1, <1>4, <1>9 DEF N

(* A filter matches where it occurs (fuzzyMatches).                        *)
LEMMA FuzzyMatchesBy ==
    ASSUME NEW X, NEW filter \in Seq(X), NEW Y, NEW text \in Seq(Y)
    PROVE  FuzzyMatches(filter, text) <=> \E at : Occurs(filter, text, at, Len(filter))
<1>. DEFINE found == ForwardScan(filter, text)
<1>1. Scanned(filter, text, Len(text), found)
  BY ForwardScanBy
<1>2. FuzzyMatches(filter, text) <=> Len(found) = Len(filter)
  BY DEF FuzzyMatches
<1>. HIDE DEF found
<1>3. Len(found) \in Nat /\ Len(filter) \in Nat /\ Len(text) \in Nat /\ Len(found) <= Len(filter)
  BY <1>1 DEF Scanned
<1>4. Len(found) = Len(filter) => Occurs(filter, text, found, Len(filter))
  BY <1>1 DEF Scanned
<1>5. ASSUME NEW at, Occurs(filter, text, at, Len(filter)) PROVE Len(found) = Len(filter)
  <2>1. CASE Len(filter) = 0
    BY <1>3, <2>1
  <2>2. CASE Len(filter) # 0
    <3>1. Len(filter) \in 1..Len(filter)
      BY <1>3, <2>2
    <3>2. at[Len(filter)] <= Len(text)
      BY <1>3, <1>5, <3>1 DEF Occurs
    <3>3. Len(filter) <= Len(found)
      BY <1>1, <1>5, <3>1, <3>2 DEF Scanned
    <3>. QED  BY <1>3, <3>3
  <2>. QED  BY <2>1, <2>2
<1>. QED  BY <1>2, <1>4, <1>5

-----------------------------------------------------------------------------
(* The fuzzy match: pulled right, the positions are the tightest.          *)

(* The last place before m where the letter is.                            *)
LastAt(text, letter, m) ==
    CHOOSE i \in 1..(m - 1) : /\ text[i] = letter
                              /\ \A j \in (i + 1)..(m - 1) : text[j] # letter

(* It is there, and the rightmost.                                         *)
LEMMA Rightmost ==
    ASSUME NEW text, NEW letter, NEW m \in Nat, NEW i \in 1..(m - 1), text[i] = letter
    PROVE  LET b == LastAt(text, letter, m) IN
            /\ b \in 1..(m - 1) /\ text[b] = letter
           /\ \A j \in 1..(m - 1) : text[j] = letter => j <= b
<1>. DEFINE T == {j \in Nat : j \in 1..(m - 1) /\ text[m - j] = letter}
<1>1. m - i \in T
  <2>1. m - i \in 1..(m - 1) /\ m - i \in Nat /\ m - (m - i) = i
    OBVIOUS
  <2>. QED  BY <2>1
<1>2. PICK j \in T : \A l \in T : j <= l
  <2>. HIDE DEF T
  <2>1. T \in SUBSET Nat
    BY DEF T
  <2>. QED  BY <1>1, <2>1, LeastNumber
<1>3. /\ m - j \in 1..(m - 1) /\ text[m - j] = letter
      /\ \A l \in ((m - j) + 1)..(m - 1) : text[l] # letter
  <2>1. ASSUME NEW l \in ((m - j) + 1)..(m - 1), text[l] = letter PROVE FALSE
    <3>1. m - l \in 1..(m - 1) /\ m - l \in Nat /\ m - (m - l) = l /\ ~(j <= m - l)
      BY <1>2
    <3>2. m - l \in T
      BY <2>1, <3>1
    <3>. QED  BY <1>2, <3>1, <3>2
  <2>2. m - j \in 1..(m - 1) /\ text[m - j] = letter
    BY <1>2
  <2>. QED  BY <2>1, <2>2
<1>. DEFINE b == LastAt(text, letter, m)
<1>4. /\ b \in 1..(m - 1) /\ text[b] = letter
      /\ \A l \in (b + 1)..(m - 1) : text[l] # letter
  BY <1>3 DEF LastAt
<1>. HIDE DEF b
<1>5. ASSUME NEW l \in 1..(m - 1), text[l] = letter PROVE l <= b
  <2>1. CASE l <= b
    BY <2>1
  <2>2. CASE ~(l <= b)
    <3>1. l \in (b + 1)..(m - 1)
      BY <1>4, <2>2
    <3>. QED  BY <1>4, <1>5, <3>1
  <2>. QED  BY <2>1, <2>2
<1>6. /\ b \in 1..(m - 1) /\ text[b] = letter
      /\ \A l \in 1..(m - 1) : text[l] = letter => l <= b
  BY <1>4, <1>5
<1>. QED  BY <1>6 DEF b

(* The matched positions spell the filter, end where its first occurrence   *)
(* ends, and each is as far right as that end allows (fuzzySubsequence).   *)
Tightest(filter, text, P) ==
    LET k == Len(filter) IN
    /\ P \in [1..k -> 1..Len(text)]
    /\ Occurs(filter, text, P, k)
    /\ \A at : Occurs(filter, text, at, k) =>
         /\ P[k] <= at[k]
         /\ at[k] = P[k] => \A n \in 1..k : at[n] <= P[n]

LEMMA MatchedPositionsBy ==
    ASSUME NEW X, NEW filter \in Seq(X), filter # <<>>, NEW Y, NEW text \in Seq(Y),
           FuzzyMatches(filter, text)
    PROVE  Tightest(filter, text, MatchedPositions(filter, text))
<1>. DEFINE found == ForwardScan(filter, text)
            k == Len(filter)
            Pull(n, f) == IF n = Len(found) THEN found[n] ELSE LastAt(text, filter[n], f[n + 1])
            tight == CHOOSE f : f = [n \in DOMAIN found |-> Pull(n, f)]
            P == MatchedPositions(filter, text)
<1>1. P = [n \in DOMAIN found |-> tight[n]]
  BY DEF MatchedPositions, LastAt
<1>2. Scanned(filter, text, Len(text), found) /\ Len(found) = k
  BY ForwardScanBy DEF FuzzyMatches
<1>3. k \in Nat /\ k > 0 /\ Len(text) \in Nat
  OBVIOUS
<1>. HIDE DEF found, P
<1>4. DOMAIN found = 1..k
  BY <1>2 DEF Scanned
<1>. HIDE DEF k
<1>. DEFINE Back(j, f) == f = [n \in (k - j)..k |-> Pull(n, f)]
<1>5. \E f : f = [n \in 1..k |-> Pull(n, f)]
  <2>. DEFINE T == {j \in Nat : \E f : Back(j, f)}
  <2>1. 0 \in T
    <3>1. (k - 0)..k = {k}
      BY <1>3
    <3>. DEFINE g == [n \in {k} |-> found[k]]
    <3>2. g = [n \in {k} |-> Pull(n, g)]
      BY <1>2
    <3>3. Back(0, g)
      BY <3>1, <3>2
    <3>. QED  BY <3>3
  <2>2. ASSUME NEW j \in Nat, j \in T PROVE j + 1 \in T
    <3>1. PICK f : Back(j, f)
      BY <2>2
    <3>. DEFINE at == k - (j + 1)
                g == [n \in at..k |-> IF n = at THEN Pull(at, f) ELSE f[n]]
    <3>2. \A n \in (k - j)..k : f[n] = Pull(n, f)
      BY <3>1
    <3>3. at + 1 \in (k - j)..k /\ at \in Int /\ at # k /\ (at + 1) # at /\ at + 1 \in at..k /\ at \in at..k
      BY <1>3
    <3>4. ASSUME NEW n \in at..k PROVE g[n] = Pull(n, g)
      <4>1. CASE n = at
        <5>1. g[at] = Pull(at, f)
          <6>. HIDE DEF at, Pull
          <6>. QED  BY <3>3
        <5>2. g[at + 1] = f[at + 1]
          <6>. HIDE DEF at, Pull
          <6>. QED  BY <3>3
        <5>. HIDE DEF g, at
        <5>. QED  BY <1>2, <3>3, <4>1, <5>1, <5>2
      <4>2. CASE n # at
        <5>1. n \in (k - j)..k
          BY <1>3, <4>2
        <5>2. n # k => n + 1 \in at..k /\ n + 1 # at
          BY <1>3, <5>1
        <5>3. g[n] = f[n] /\ (n # k => g[n + 1] = f[n + 1])
          BY <4>2, <5>2
        <5>. HIDE DEF g, at
        <5>. QED  BY <1>2, <3>2, <5>1, <5>3
      <4>. QED  BY <4>1, <4>2
    <3>5. g = [n \in at..k |-> g[n]]
      OBVIOUS
    <3>6. Back(j + 1, g)
      <4>. HIDE DEF g
      <4>. QED  BY <3>4, <3>5
    <3>. HIDE DEF Back
    <3>. QED  BY <3>6
  <2>. HIDE DEF T
  <2>3. k - 1 \in T
    BY <1>3, <2>1, <2>2, Induction
  <2>4. PICK f : Back(k - 1, f)
    BY <2>3 DEF T
  <2>5. (k - (k - 1))..k = 1..k
    BY <1>3
  <2>. HIDE DEF Pull
  <2>6. f = [n \in 1..k |-> Pull(n, f)]
    BY <2>4, <2>5
  <2>. QED  BY <2>6
<1>6. tight = [n \in 1..k |-> Pull(n, tight)]
  <2>. HIDE DEF Pull
  <2>1. \E f : f = [n \in DOMAIN found |-> Pull(n, f)]
    BY <1>4, <1>5
  <2>2. tight = [n \in DOMAIN found |-> Pull(n, tight)]
    BY <2>1
  <2>. QED  BY <1>4, <2>2
<1>7. \A n \in 1..k : tight[n] = Pull(n, tight)
  BY <1>6
<1>8. DOMAIN P = 1..k /\ \A n \in 1..k : P[n] = tight[n]
  BY <1>1, <1>4
<1>. HIDE DEF tight
<1>9. P[k] = found[k] /\ \A n \in 1..k : n # k => P[n] = LastAt(text, filter[n], P[n + 1])
  <2>1. k \in 1..k
    BY <1>3
  <2>2. ASSUME NEW n \in 1..k, n # k PROVE P[n] = LastAt(text, filter[n], P[n + 1])
    <3>1. n + 1 \in 1..k
      BY <1>3, <2>2
    <3>2. tight[n] = LastAt(text, filter[n], tight[n + 1])
      BY <1>2, <1>7, <2>2
    <3>. QED  BY <1>8, <3>1, <3>2
  <2>3. P[k] = found[k]
    <3>. QED  BY <1>2, <1>7, <1>8, <2>1
  <2>. QED  BY <2>2, <2>3
<1>. DEFINE Ends(at) == Occurs(filter, text, at, k) /\ at[k] = P[k]
            Good(n) == /\ P[n] \in 1..Len(text) /\ text[P[n]] = filter[n] /\ found[n] <= P[n]
                       /\ n # k => P[n] < P[n + 1]
                       /\ \A at : Ends(at) => at[n] <= P[n]
            G == {j \in Nat : j <= k - 1 => Good(k - j)}
<1>10. Occurs(filter, text, found, k) /\ found \in Seq(Nat)
  BY <1>2 DEF Scanned
<1>11. 0 \in G
  <2>1. k \in 1..k /\ k - 0 = k
    BY <1>3
  <2>2. found[k] \in 1..Len(text) /\ text[found[k]] = filter[k] /\ found[k] \in Nat
    BY <1>10, <2>1 DEF Occurs
  <2>3. Good(k)
    BY <1>9, <2>2
  <2>. HIDE DEF Good
  <2>. QED  BY <2>1, <2>3
<1>12. ASSUME NEW j \in Nat, j \in G PROVE j + 1 \in G
  <2>. SUFFICES ASSUME j + 1 <= k - 1 PROVE Good(k - (j + 1))
    <3>. HIDE DEF Good
    <3>. QED  OBVIOUS
  <2>. DEFINE n == k - (j + 1)
  <2>1. n \in 1..k /\ n # k /\ n + 1 = k - j /\ n + 1 \in 2..k /\ n + 1 \in 1..k /\ j <= k - 1 /\ (n + 1) - 1 = n
        /\ n \in Nat /\ k \in 1..k
    BY <1>3
  <2>2. Good(k - j)
    <3>. HIDE DEF Good
    <3>. QED  BY <1>12, <2>1
  <2>. HIDE DEF n
  <2>3. Good(n + 1)
    <3>. HIDE DEF Good
    <3>. QED  BY <2>1, <2>2
  <2>4. P[n + 1] \in 1..Len(text) /\ found[n + 1] <= P[n + 1] /\ P[n + 1] \in Nat
    BY <2>3
  <2>5. found[n] \in 1..Len(text) /\ text[found[n]] = filter[n] /\ found[n] < found[n + 1] /\ found[n + 1] \in Nat
    BY <1>10, <2>1 DEF Occurs
  <2>6. found[n] \in 1..(P[n + 1] - 1)
    BY <2>4, <2>5
  <2>. DEFINE b == LastAt(text, filter[n], P[n + 1])
  <2>7. /\ b \in 1..(P[n + 1] - 1) /\ text[b] = filter[n]
        /\ \A i \in 1..(P[n + 1] - 1) : text[i] = filter[n] => i <= b
    BY <2>4, <2>5, <2>6, Rightmost
  <2>8. P[n] = b
    BY <1>9, <2>1
  <2>. HIDE DEF b
  <2>9. P[n] \in 1..Len(text) /\ text[P[n]] = filter[n] /\ P[n] < P[n + 1]
    BY <1>3, <2>4, <2>7, <2>8
  <2>10. found[n] <= P[n]
    BY <2>5, <2>6, <2>7, <2>8
  <2>11. ASSUME NEW at, Ends(at) PROVE at[n] <= P[n]
    <3>1. /\ at[n] \in 1..Len(text) /\ text[at[n]] = filter[n] /\ at[n] < at[n + 1]
          /\ at[n + 1] \in 1..Len(text)
      BY <2>1, <2>11 DEF Occurs
    <3>2. at[n + 1] <= P[n + 1]
      BY <2>3, <2>11
    <3>3. at[n] \in 1..(P[n + 1] - 1)
      BY <2>4, <3>1, <3>2
    <3>. QED  BY <2>7, <2>8, <3>1, <3>3
  <2>12. Good(n)
    BY <2>9, <2>10, <2>11
  <2>. QED  BY <2>12 DEF n
<1>13. ASSUME NEW n \in 1..k PROVE Good(n)
  <2>1. k - n \in Nat /\ k - n <= k - 1 /\ k - (k - n) = n
    BY <1>3
  <2>. HIDE DEF Good
  <2>2. Nat \subseteq G
    <3>. HIDE DEF G
    <3>. QED  BY <1>11, <1>12, Induction
  <2>3. k - n \in G
    BY <2>1, <2>2
  <2>. QED  BY <2>1, <2>3
<1>14. Occurs(filter, text, P, k)
  <2>1. ASSUME NEW n \in 2..k PROVE P[n - 1] < P[n]
    <3>1. n - 1 \in 1..k /\ n - 1 # k /\ (n - 1) + 1 = n
      BY <1>3
    <3>2. Good(n - 1)
      BY <1>13, <3>1
    <3>. QED  BY <3>1, <3>2
  <2>2. \A n \in 1..k : P[n] \in 1..Len(text) /\ text[P[n]] = filter[n]
    BY <1>13
  <2>. QED  BY <2>1, <2>2 DEF Occurs
<1>15. ASSUME NEW at, Occurs(filter, text, at, k)
       PROVE  /\ P[k] <= at[k]
              /\ at[k] = P[k] => \A n \in 1..k : at[n] <= P[n]
  <2>1. k \in 1..k /\ k \in 1..Len(filter)
    BY <1>3 DEF k
  <2>2. at[k] <= Len(text)
    BY <1>3, <1>15, <2>1 DEF Occurs
  <2>3. found[k] <= at[k]
    BY <1>2, <1>15, <2>1, <2>2 DEF Scanned, k
  <2>4. at[k] = P[k] => \A n \in 1..k : at[n] <= P[n]
    BY <1>13, <1>15
  <2>. QED  BY <1>9, <2>3, <2>4
<1>16. P \in [1..k -> 1..Len(text)]
  <2>1. \A n \in 1..k : tight[n] \in 1..Len(text)
    BY <1>8, <1>13
  <2>2. P = [n \in 1..k |-> tight[n]]
    BY <1>1, <1>4
  <2>. QED  BY <2>1, <2>2
<1>17. Tightest(filter, text, P)
  BY <1>14, <1>15, <1>16 DEF Tightest, k
<1>. QED  BY <1>17 DEF P

-----------------------------------------------------------------------------
(* The field paths in tree order.                                          *)

(* Every start of a schema-level path is one.                              *)
LEMMA SchemaStart ==
    ASSUME NEW v \in Versions, NEW s \in DOMAIN FieldTree[v], NEW n \in 0..Len(s)
    PROVE  SubSeq(s, 1, n) \in DOMAIN FieldTree[v]
<1>. DEFINE T == {m \in Nat : m <= Len(s) => SubSeq(s, 1, Len(s) - m) \in DOMAIN FieldTree[v]}
<1>1. s \in Seq(Names) /\ Len(s) \in Nat
  BY TreeFacts
<1>2. 0 \in T
  <2>1. Len(s) \in 0..Len(s) /\ Len(s) - 0 = Len(s)
    BY <1>1
  <2>. QED  BY <1>1, <2>1, Start
<1>3. ASSUME NEW m \in Nat, m \in T PROVE m + 1 \in T
  <2>. SUFFICES ASSUME m + 1 <= Len(s) PROVE SubSeq(s, 1, Len(s) - (m + 1)) \in DOMAIN FieldTree[v]
    OBVIOUS
  <2>. DEFINE k == Len(s) - m
              t == SubSeq(s, 1, k)
  <2>1. k \in 0..Len(s) /\ k # 0 /\ k - 1 \in 0..k /\ k - 1 = Len(s) - (m + 1) /\ m <= Len(s)
    BY <1>1
  <2>2. t \in DOMAIN FieldTree[v]
    BY <1>3, <2>1
  <2>. HIDE DEF k
  <2>3. t \in Seq(Names) /\ Len(t) = k /\ t # <<>>
    BY <1>1, <2>1, Start
  <2>4. Front(t) \in DOMAIN FieldTree[v]
    <3>. HIDE DEF t
    <3>. QED  BY <2>2, <2>3, TreeFacts
  <2>5. Front(t) = SubSeq(t, 1, k - 1)
    <3>. HIDE DEF t
    <3>. QED  BY <2>3, FrontLast
  <2>6. SubSeq(t, 1, k - 1) = SubSeq(s, 1, k - 1)
    BY <1>1, <2>1, StartOfStart
  <2>7. SubSeq(s, 1, k - 1) \in DOMAIN FieldTree[v]
    <3>. HIDE DEF t
    <3>. QED  BY <2>4, <2>5, <2>6
  <2>. QED  BY <2>1, <2>7
<1>4. Len(s) - n \in T
  <2>1. Len(s) - n \in Nat
    BY <1>1
  <2>. HIDE DEF T
  <2>. QED  BY <1>2, <1>3, <2>1, Induction
<1>5. Len(s) - n <= Len(s) /\ Len(s) - (Len(s) - n) = n
  BY <1>1
<1>. QED  BY <1>4, <1>5

(* A name on a schema-level path is an item's, a value's or a field's.     *)
LEMMA NameOnPath ==
    ASSUME NEW v \in Versions, NEW s \in DOMAIN FieldTree[v], NEW n \in 1..Len(s)
    PROVE  /\ s \in Seq(Names) /\ s[n] \in Names
           /\ s[n] \notin {Item, Value} => s[n] \in DOMAIN FieldRank \cap DOMAIN FieldText
           /\ LET parent == FieldTree[v][SubSeq(s, 1, n - 1)] IN
              \/ parent = "object" /\ s[n] \notin {Item, Value}
              \/ parent = "array" /\ s[n] = Item
              \/ parent = "map" /\ s[n] = Value
<1>. DEFINE t == SubSeq(s, 1, n)
<1>1. s \in Seq(Names) /\ Len(s) \in Nat /\ n \in 0..Len(s) /\ n - 1 \in 0..n /\ n - 1 \in 0..Len(s)
  BY TreeFacts
<1>2. t \in DOMAIN FieldTree[v]
  BY <1>1, SchemaStart
<1>3. t \in Seq(Names) /\ t # <<>> /\ Len(t) = n /\ t[n] = s[n]
  BY <1>1, Start
<1>4. SubSeq(t, 1, n - 1) = SubSeq(s, 1, n - 1)
  BY <1>1, StartOfStart
<1>. HIDE DEF t
<1>5. Front(t) = SubSeq(t, 1, n - 1) /\ Last(t) = s[n]
  BY <1>3, FrontLast
<1>6. LET parent == FieldTree[v][Front(t)] IN
      \/ parent = "object" /\ Last(t) \notin {Item, Value}
      \/ parent = "array" /\ Last(t) = Item
      \/ parent = "map" /\ Last(t) = Value
  BY <1>2, <1>3, TreeFacts
<1>7. Last(t) \notin {Item, Value} => Last(t) \in DOMAIN FieldRank \cap DOMAIN FieldText
  BY <1>2, <1>3, ComposeViewAssumption
<1>8. s[n] \in Names
  BY <1>1
<1>. DEFINE parent == FieldTree[v][SubSeq(s, 1, n - 1)]
<1>9. \/ parent = "object" /\ s[n] \notin {Item, Value}
      \/ parent = "array" /\ s[n] = Item
      \/ parent = "map" /\ s[n] = Value
  BY <1>4, <1>5, <1>6
<1>10. s[n] \notin {Item, Value} => s[n] \in DOMAIN FieldRank \cap DOMAIN FieldText
  BY <1>5, <1>7
<1>. QED  BY <1>1, <1>8, <1>9, <1>10

(* The order of FieldPaths: an ancestor first, then the fields by name.    *)
RankPairs == {e \in (DOMAIN FieldRank) \X (DOMAIN FieldRank) : FieldRank[e[1]] < FieldRank[e[2]]}
(* The tree order of FieldPaths.                                           *)
PathBefore(s, t) ==
    \/ s # t /\ IsPrefix(s, t)
    \/ \E n \in 1..Smaller(Len(s), Len(t)) :
         /\ SubSeq(s, 1, n - 1) = SubSeq(t, 1, n - 1)
         /\ s[n] # t[n] /\ FieldRank[s[n]] < FieldRank[t[n]]
(* The same, over pairs.                                                   *)
PathOrder(v) == TreeOrder(RankPairs, Candidates[v])

(* Where two paths of a Type Schema part, they go on with fields.          *)
LEMMA PathsForkAtFields ==
    ASSUME NEW v \in Versions, NEW s \in DOMAIN FieldTree[v], NEW t \in DOMAIN FieldTree[v],
           NEW n \in Nat, Fork(s, t, n)
    PROVE  s[n] \in DOMAIN FieldRank /\ t[n] \in DOMAIN FieldRank /\ s[n] # t[n]
<1>1. s \in Seq(Names) /\ t \in Seq(Names)
  BY TreeFacts
<1>2. n \in 1..Len(s) /\ n \in 1..Len(t) /\ s[n] # t[n] /\ SubSeq(s, 1, n - 1) = SubSeq(t, 1, n - 1)
  BY <1>1, ForkStart DEF Fork
<1>. DEFINE parent == FieldTree[v][SubSeq(s, 1, n - 1)]
<1>3. /\ s[n] \notin {Item, Value} => s[n] \in DOMAIN FieldRank
      /\ \/ parent = "object" /\ s[n] \notin {Item, Value}
         \/ parent = "array" /\ s[n] = Item
         \/ parent = "map" /\ s[n] = Value
  BY <1>2, NameOnPath
<1>4. /\ t[n] \notin {Item, Value} => t[n] \in DOMAIN FieldRank
      /\ \/ parent = "object" /\ t[n] \notin {Item, Value}
         \/ parent = "array" /\ t[n] = Item
         \/ parent = "map" /\ t[n] = Value
  BY <1>2, NameOnPath
<1>. HIDE DEF parent
<1>. QED  BY <1>2, <1>3, <1>4

(* It is depth-first order by field name.                                  *)
LEMMA PathBeforeBy ==
    ASSUME NEW v \in Versions, NEW s \in DOMAIN FieldTree[v], NEW t \in DOMAIN FieldTree[v]
    PROVE  PathBefore(s, t) <=> Before(RankPairs, s, t)
<1>1. s \in Seq(Names) /\ t \in Seq(Names) /\ Len(s) \in Nat /\ Len(t) \in Nat
  BY TreeFacts
<1>2. \A n \in Nat : Fork(s, t, n) => (<<s[n], t[n]>> \in RankPairs <=> FieldRank[s[n]] < FieldRank[t[n]])
  BY PathsForkAtFields DEF RankPairs
<1>3. \A n \in Nat : Fork(s, t, n) <=> /\ n \in 1..Smaller(Len(s), Len(t))
                                       /\ SubSeq(s, 1, n - 1) = SubSeq(t, 1, n - 1) /\ s[n] # t[n]
  BY <1>1, ForkStart
<1>4. \A n \in 1..Smaller(Len(s), Len(t)) : n \in Nat
  BY <1>1 DEF Smaller
<1>5. IsPrefix(s, t) <=> IsAtOrBeneath(t, s)
  <2>1. SubSeq(s, 1, Len(s)) = s
    BY <1>1
  <2>2. IsAtOrBeneath(t, s) <=> Len(s) <= Len(t) /\ s = SubSeq(t, 1, Len(s))
    BY <1>1, BeneathIsExtension
  <2>. QED  BY <2>1, <2>2 DEF IsPrefix
<1>6. Parts(RankPairs, s, t) <=> \E n \in Nat : Fork(s, t, n) /\ FieldRank[s[n]] < FieldRank[t[n]]
  BY <1>2 DEF Parts
<1>7. Strictly(t, s) <=> s # t /\ IsPrefix(s, t)
  BY <1>5 DEF Strictly
<1>8. (\E n \in Nat : Fork(s, t, n) /\ FieldRank[s[n]] < FieldRank[t[n]])
      <=> \E n \in 1..Smaller(Len(s), Len(t)) :
            /\ SubSeq(s, 1, n - 1) = SubSeq(t, 1, n - 1)
            /\ s[n] # t[n] /\ FieldRank[s[n]] < FieldRank[t[n]]
  BY <1>3, <1>4
<1>. QED  BY <1>6, <1>7, <1>8 DEF PathBefore, Before

(* FieldPaths lists the candidates, each once, in tree order.              *)
LEMMA FieldPathsAreListed ==
    ASSUME NEW v \in Versions
    PROVE  StrictOrder(Candidates[v], PathOrder(v)) /\ Listed(Candidates[v], PathOrder(v), FieldPaths[v])
<1>. DEFINE S == Candidates[v]
<1>1. IsFiniteSet(S) /\ S \subseteq DOMAIN FieldTree[v] /\ S \in SUBSET Seq(Names)
  BY CandidatesFacts, TreeFacts
<1>2. Forked(RankPairs, S)
  <2>1. ASSUME NEW p \in S, NEW q \in S, NEW n \in Nat, Fork(p, q, n)
        PROVE  <<p[n], q[n]>> \in RankPairs \/ <<q[n], p[n]>> \in RankPairs
    <3>1. p[n] \in DOMAIN FieldRank /\ q[n] \in DOMAIN FieldRank /\ p[n] # q[n]
      BY <1>1, <2>1, PathsForkAtFields
    <3>2. FieldRank[p[n]] \in Nat /\ FieldRank[q[n]] \in Nat /\ FieldRank[p[n]] # FieldRank[q[n]]
      BY <3>1, ComposeViewAssumption
    <3>3. FieldRank[p[n]] < FieldRank[q[n]] \/ FieldRank[q[n]] < FieldRank[p[n]]
      BY <3>2
    <3>. QED  BY <3>1, <3>3 DEF RankPairs
  <2>2. ASSUME NEW p \in S, NEW q \in S, NEW r \in S, NEW n \in Nat, Fork(p, q, n), Fork(q, r, n),
               <<p[n], q[n]>> \in RankPairs, <<q[n], r[n]>> \in RankPairs
        PROVE  p[n] # r[n] /\ <<p[n], r[n]>> \in RankPairs
    <3>1. /\ p[n] \in DOMAIN FieldRank /\ q[n] \in DOMAIN FieldRank /\ r[n] \in DOMAIN FieldRank
          /\ FieldRank[p[n]] < FieldRank[q[n]] /\ FieldRank[q[n]] < FieldRank[r[n]]
      BY <2>2 DEF RankPairs
    <3>2. FieldRank[p[n]] \in Nat /\ FieldRank[q[n]] \in Nat /\ FieldRank[r[n]] \in Nat
      BY <3>1, ComposeViewAssumption
    <3>3. FieldRank[p[n]] < FieldRank[r[n]] /\ FieldRank[p[n]] # FieldRank[r[n]]
      BY <3>1, <3>2
    <3>. QED  BY <3>1, <3>3 DEF RankPairs
  <2>. QED  BY <2>1, <2>2 DEF Forked
<1>3. StrictOrder(S, PathOrder(v))
  BY <1>1, <1>2, TreeOrderIsStrict DEF PathOrder
<1>4. Listed(S, PathOrder(v), Sorted(S, PathOrder(v)))
  <2>. HIDE DEF S
  <2>. QED  BY <1>1, <1>3, SortedIsListed
<1>5. FieldPaths[v] = InOrder(S, PathBefore)
  BY DEF FieldPaths, PathBefore, InOrder
<1>6. \A x, y \in S : <<x, y>> \in PathOrder(v) <=> PathBefore(x, y)
  <2>1. \A x, y \in S : PathBefore(x, y) <=> Before(RankPairs, x, y)
    BY <1>1, PathBeforeBy
  <2>. QED  BY <2>1 DEF PathOrder, TreeOrder
<1>. HIDE DEF S
<1>7. \A x \in S : {y \in S : PathBefore(y, x)} = Below(S, PathOrder(v), x)
  BY <1>6 DEF Below
<1>8. ASSUME NEW n
      PROVE  (CHOOSE x \in S : Cardinality({y \in S : PathBefore(y, x)}) = n - 1)
               = (CHOOSE x \in S : Cardinality(Below(S, PathOrder(v), x)) = n - 1)
  <2>1. \A x \in S : Cardinality({y \in S : PathBefore(y, x)}) = n - 1
                     <=> Cardinality(Below(S, PathOrder(v), x)) = n - 1
    BY <1>7
  <2>. QED  BY <2>1
<1>9. InOrder(S, PathBefore) =
        [n \in 1..Cardinality(S) |-> CHOOSE x \in S : Cardinality({y \in S : PathBefore(y, x)}) = n - 1]
  BY DEF InOrder
<1>10. InOrder(S, PathBefore) = Sorted(S, PathOrder(v))
  BY <1>8, <1>9 DEF Sorted
<1>11. Listed(S, PathOrder(v), FieldPaths[v])
  BY <1>4, <1>5, <1>10
<1>. QED  BY <1>3, <1>11 DEF S

-----------------------------------------------------------------------------
(* How a field path is spelled, and the span of a match.                   *)

(* What a path is spelled with.                                           *)
Marks == STRING \cup {"."}

(* A field path is spelled in letters.                                     *)
LEMMA LetterwiseType ==
    ASSUME NEW v \in Versions, NEW s \in Candidates[v]
    PROVE  Letterwise(s) \in Seq(Marks)
<1>. DEFINE X == Marks
            N == {n \in DOMAIN s : s[n] \notin {Item, Value}}
            names == Dotted(s)
            texts == [n \in DOMAIN names |-> IF n = 1 THEN FieldText[names[n]]
                                             ELSE <<".">> \o FieldText[names[n]]]
<1>1. s \in DOMAIN FieldTree[v] \ {<<>>} /\ Last(s) \notin {Item, Value}
  BY DEF Candidates
<1>2. s \in Seq(Names) /\ Len(s) \in Nat /\ DOMAIN s = 1..Len(s) /\ s # <<>>
  BY <1>1, TreeFacts
<1>3. N # {} /\ N \in SUBSET DOMAIN s
  <2>1. Last(s) = s[Len(s)]
    BY <1>2, FrontLast
  <2>2. Len(s) \in DOMAIN s
    BY <1>2
  <2>. QED  BY <1>1, <2>1, <2>2
<1>4. \A n \in N : s[n] \in DOMAIN FieldText
  BY <1>1, <1>2, NameOnPath
<1>5. names = Picked(s, N)
  BY DEF Dotted
<1>. HIDE DEF N, names
<1>6. /\ Len(names) \in Nat /\ DOMAIN names = 1..Len(names) /\ names # <<>>
      /\ \A i \in 1..Len(names) : \E n \in N : names[i] = s[n]
  <2>. DEFINE m == Picked(s, N)
  <2>1. /\ Len(m) \in Nat /\ DOMAIN m = 1..Len(m) /\ (m = <<>> <=> N = {})
        /\ \A i \in 1..Len(m) : \E n \in N : m[i] = s[n]
    BY <1>2, <1>3, PickedOut
  <2>. HIDE DEF m
  <2>. QED  BY <1>3, <1>5, <2>1 DEF m
<1>7. \A i \in 1..Len(names) : names[i] \in DOMAIN FieldText
  BY <1>4, <1>6
<1>8. ASSUME NEW t \in Seq(STRING) PROVE t \in Seq(X)
  <2>1. t \in [1..Len(t) -> X] /\ Len(t) \in Nat
    BY DEF Marks
  <2>. QED  BY <2>1, AsSequence
<1>9. <<".">> \in Seq(X)
  BY DEF Marks
<1>. HIDE DEF X
<1>10. \A i \in 1..Len(names) : texts[i] \in Seq(X)
  <2>. TAKE i \in 1..Len(names)
  <2>1. FieldText[names[i]] \in Seq(X)
    BY <1>7, <1>8, ComposeViewAssumption
  <2>2. <<".">> \o FieldText[names[i]] \in Seq(X)
    BY <1>9, <2>1
  <2>. QED  BY <1>6, <2>1, <2>2
<1>11. texts \in Seq(Seq(X)) /\ Len(texts) = Len(names) /\ texts # <<>>
  <2>1. texts \in [1..Len(names) -> Seq(X)]
    BY <1>6, <1>10
  <2>2. Len(names) # 0
    BY <1>5, <1>3, <1>2, <1>6, PickedOut, FS_EmptySet
  <2>. HIDE DEF texts
  <2>3. texts \in Seq(Seq(X)) /\ Len(texts) = Len(names)
    BY <1>6, <2>1, AsSequence
  <2>. QED  BY <2>2, <2>3
<1>12. Letterwise(s) = FlattenSeq(texts)
  BY DEF Letterwise, names
<1>. HIDE DEF texts
<1>13. FlattenSeq(texts) \in Seq(X)
  <2>. DEFINE T == Seq(X)
  <2>1. \A a, b \in T : a \o b \in T
    OBVIOUS
  <2>2. texts \in Seq(T)
    BY <1>11
  <2>. HIDE DEF T
  <2>3. FlattenSeq(texts) \in T
    BY <1>11, <2>1, <2>2, FlattenSeqType
  <2>. QED  BY <2>3 DEF T
<1>. QED  BY <1>12, <1>13 DEF X

(* An occurrence goes forward.                                             *)
LEMMA OccursForward ==
    ASSUME NEW filter, NEW text, Len(text) \in Nat, NEW at, NEW k \in Nat, Occurs(filter, text, at, k)
    PROVE  \A n \in 1..k : at[n] \in Nat /\ at[1] <= at[n]
<1>. DEFINE T == {n \in Nat : n + 1 <= k => at[1] <= at[n + 1]}
<1>1. \A n \in 1..k : at[n] \in Nat
  BY DEF Occurs
<1>2. 0 \in T
  <2>1. 0 + 1 <= k => 1 \in 1..k
    OBVIOUS
  <2>. QED  BY <1>1, <2>1
<1>3. ASSUME NEW n \in Nat, n \in T PROVE n + 1 \in T
  <2>. SUFFICES ASSUME (n + 1) + 1 <= k PROVE at[1] <= at[(n + 1) + 1]
    OBVIOUS
  <2>. DEFINE m == n + 1
  <2>1. m + 1 \in 2..k /\ m + 1 \in 1..k /\ m \in 1..k /\ 1 \in 1..k /\ (m + 1) - 1 = m /\ m <= k
    OBVIOUS
  <2>2. at[1] <= at[m]
    BY <1>3, <2>1
  <2>. HIDE DEF m
  <2>3. at[m] < at[m + 1]
    BY <2>1 DEF Occurs
  <2>4. at[1] <= at[m + 1]
    BY <1>1, <2>1, <2>2, <2>3
  <2>. QED  BY <2>4 DEF m
<1>4. ASSUME NEW n \in 1..k PROVE at[1] <= at[n]
  <2>1. n - 1 \in Nat /\ (n - 1) + 1 = n /\ n <= k
    OBVIOUS
  <2>2. n - 1 \in T
    <3>. HIDE DEF T
    <3>. QED  BY <1>2, <1>3, <2>1, Induction
  <2>. QED  BY <2>1, <2>2
<1>. QED  BY <1>1, <1>4

(* The span of a match.                                                    *)
SpanOf(filter, s) == Span(MatchedPositions(filter, Letterwise(s)))

LEMMA SpanBy ==
    ASSUME NEW X, NEW filter \in Seq(X), filter # <<>>, NEW Y, NEW text \in Seq(Y),
           FuzzyMatches(filter, text)
    PROVE  LET P == MatchedPositions(filter, text)
               k == Len(filter)
           IN  /\ Tightest(filter, text, P)
               /\ P[1] \in Nat /\ P[k] \in Nat /\ P[1] <= P[k]
               /\ Span(P) = 1 + (P[k] - P[1]) /\ Span(P) \in Nat
<1>. DEFINE P == MatchedPositions(filter, text)
            k == Len(filter)
<1>1. Tightest(filter, text, P)
  BY MatchedPositionsBy
<1>2. k \in Nat /\ k > 0 /\ Len(text) \in Nat /\ k \in 1..k /\ 1 \in 1..k
  OBVIOUS
<1>. HIDE DEF P
<1>3. P \in [1..k -> 1..Len(text)] /\ Occurs(filter, text, P, k)
  BY <1>1 DEF Tightest
<1>. HIDE DEF k
<1>4. Len(P) = k /\ P \in Seq(1..Len(text)) /\ P # <<>>
  <2>1. Len(P) = k /\ P \in Seq(1..Len(text))
    BY <1>2, <1>3, AsSequence
  <2>. QED  BY <1>2, <2>1
<1>5. P[1] \in Nat /\ P[k] \in Nat /\ P[1] <= P[k]
  BY <1>2, <1>3, OccursForward
<1>6. Last(P) = P[k] /\ Head(P) = P[1]
  <2>. DEFINE S == 1..Len(text)
  <2>1. P \in Seq(S)
    BY <1>4
  <2>. HIDE DEF S
  <2>2. Last(P) = P[k]
    BY <1>4, <2>1, FrontLast
  <2>3. Head(P) = P[1]
    BY <1>4, <2>1
  <2>. QED  BY <2>2, <2>3
<1>7. Span(P) = 1 + P[k] - P[1]
  BY <1>4, <1>6 DEF Span
<1>8. Span(P) = 1 + (P[k] - P[1]) /\ Span(P) \in Nat
  BY <1>5, <1>7
<1>. QED  BY <1>1, <1>5, <1>8 DEF P, k

-----------------------------------------------------------------------------
(* The ranking of the matches.                                             *)

(* How computeMatches ranks the positions of FieldPaths.                   *)
Found(v, filter) ==
    {n \in DOMAIN FieldPaths[v] : FuzzyMatches(filter, Letterwise(FieldPaths[v][n]))}
(* What a match is ranked by: its span, its length, its place in the tree. *)
SearchKey(v, filter, n) ==
    <<SpanOf(filter, FieldPaths[v][n]), Len(Letterwise(FieldPaths[v][n])), n>>
(* The ranking of two matches.                                             *)
MatchBefore(v, filter, m, n) == LexicallyBefore(SearchKey(v, filter, m), SearchKey(v, filter, n))
(* The same, over pairs.                                                   *)
MatchOrder(v, filter) ==
    {e \in Found(v, filter) \X Found(v, filter) : MatchBefore(v, filter, e[1], e[2])}

(* Lexicographic order on three numbers, spelled out.                      *)
LEMMA ThreeKeys ==
    ASSUME NEW a \in Nat, NEW b \in Nat, NEW c \in Nat, NEW d \in Nat, NEW e \in Nat, NEW f \in Nat
    PROVE  LexicallyBefore(<<a, b, c>>, <<d, e, f>>) <=>
             \/ a < d
             \/ a = d /\ (b < e \/ (b = e /\ c < f))
<1>. DEFINE s == <<a, b, c>>
            t == <<d, e, f>>
<1>1. DOMAIN s = {1, 2, 3} /\ s[1] = a /\ s[2] = b /\ s[3] = c /\ t[1] = d /\ t[2] = e /\ t[3] = f
  OBVIOUS
<1>. HIDE DEF s, t
<1>2. LexicallyBefore(s, t) <=> \/ s[1] < t[1] /\ \A m \in 1..(1 - 1) : s[m] = t[m]
                                \/ s[2] < t[2] /\ \A m \in 1..(2 - 1) : s[m] = t[m]
                                \/ s[3] < t[3] /\ \A m \in 1..(3 - 1) : s[m] = t[m]
  BY <1>1 DEF LexicallyBefore
<1>3. (\A m \in 1..(1 - 1) : s[m] = t[m]) <=> TRUE
  OBVIOUS
<1>4. (\A m \in 1..(2 - 1) : s[m] = t[m]) <=> s[1] = t[1]
  OBVIOUS
<1>5. (\A m \in 1..(3 - 1) : s[m] = t[m]) <=> s[1] = t[1] /\ s[2] = t[2]
  OBVIOUS
<1>6. LexicallyBefore(s, t) <=> \/ a < d
                                \/ b < e /\ a = d
                                \/ c < f /\ a = d /\ b = e
  BY <1>1, <1>2, <1>3, <1>4, <1>5
<1>. QED  BY <1>6 DEF s, t

(* The ranking is a strict order on the matches.                           *)
LEMMA MatchOrderIsStrict ==
    ASSUME NEW v \in Versions, NEW X, NEW filter \in Seq(X), filter # <<>>
    PROVE  /\ Found(v, filter) \in SUBSET DOMAIN FieldPaths[v] /\ IsFiniteSet(Found(v, filter))
           /\ \A n \in Found(v, filter) :
                /\ n \in Nat /\ FieldPaths[v][n] \in Candidates[v]
                /\ SpanOf(filter, FieldPaths[v][n]) \in Nat
                /\ Len(Letterwise(FieldPaths[v][n])) \in Nat
           /\ StrictOrder(Found(v, filter), MatchOrder(v, filter))
<1>. DEFINE S == Found(v, filter)
            paths == FieldPaths[v]
<1>1. Len(paths) \in Nat /\ DOMAIN paths = 1..Len(paths) /\ \A n \in 1..Len(paths) : paths[n] \in Candidates[v]
  BY FieldPathsAreListed, ListedFacts
<1>2. S \in SUBSET DOMAIN paths
  BY DEF Found
<1>3. IsFiniteSet(S)
  <2>1. IsFiniteSet(1..Len(paths))
    BY <1>1, FS_Interval
  <2>. HIDE DEF S, paths
  <2>. QED  BY <1>1, <1>2, <2>1, FS_Subset
<1>4. ASSUME NEW n \in S
      PROVE  /\ n \in Nat /\ paths[n] \in Candidates[v]
             /\ SpanOf(filter, paths[n]) \in Nat /\ Len(Letterwise(paths[n])) \in Nat
  <2>1. n \in 1..Len(paths) /\ FuzzyMatches(filter, Letterwise(paths[n]))
    BY <1>1 DEF Found
  <2>2. paths[n] \in Candidates[v]
    BY <1>1, <2>1
  <2>. DEFINE text == Letterwise(paths[n])
  <2>3. text \in Seq(Marks)
    BY <2>2, LetterwiseType
  <2>. HIDE DEF paths
  <2>4. Span(MatchedPositions(filter, text)) \in Nat
    <3>. HIDE DEF text
    <3>1. FuzzyMatches(filter, text)
      BY <2>1 DEF text
    <3>. QED  BY <2>3, <3>1, SpanBy
  <2>5. Len(text) \in Nat
    <3>. HIDE DEF text
    <3>. QED  BY <2>3
  <2>. QED  BY <1>1, <2>1, <2>2, <2>4, <2>5 DEF SpanOf
<1>. DEFINE key == [n \in S |-> SearchKey(v, filter, n)]
<1>5. ASSUME NEW n \in S PROVE key[n] \in [1..3 -> Nat] /\ key[n][3] = n
  <2>1. SpanOf(filter, paths[n]) \in Nat /\ Len(Letterwise(paths[n])) \in Nat /\ n \in Nat
    BY <1>4
  <2>. DEFINE a == SpanOf(filter, paths[n])
              b == Len(Letterwise(paths[n]))
  <2>2. key[n] = <<a, b, n>>
    BY DEF SearchKey
  <2>. HIDE DEF a, b, key
  <2>3. a \in Nat /\ b \in Nat /\ n \in Nat
    BY <2>1 DEF a, b
  <2>. QED  BY <2>2, <2>3
<1>6. key \in [S -> [1..3 -> Nat]]
  BY <1>5
<1>7. \A x, y \in S : <<x, y>> \in MatchOrder(v, filter) <=> LexicallyBefore(key[x], key[y])
  BY DEF MatchOrder, MatchBefore
<1>8. \A x, y \in S : key[x] = key[y] => x = y
  BY <1>5
<1>9. StrictOrder(S, MatchOrder(v, filter))
  <2>. HIDE DEF S, key
  <2>. QED  BY <1>6, <1>7, <1>8, KeyedOrder
<1>. QED  BY <1>2, <1>3, <1>4, <1>9

(* The matches of a filter: what it occurs in, ranked.                     *)
LEMMA MatchesAreRanked ==
    ASSUME NEW v \in Versions, NEW X, NEW filter \in Seq(X), filter # <<>>
    PROVE  LET m == ComputeMatches(v, filter)
               paths == FieldPaths[v]
           IN  /\ \A i \in DOMAIN m : m[i] \in Candidates[v] /\ FuzzyMatches(filter, Letterwise(m[i]))
               /\ \A s \in Candidates[v] :
                    FuzzyMatches(filter, Letterwise(s)) => \E i \in DOMAIN m : m[i] = s
               /\ \A i, j \in DOMAIN m : i < j =>
                    \E x, y \in Found(v, filter) :
                       m[i] = paths[x] /\ m[j] = paths[y] /\ MatchBefore(v, filter, x, y)
<1>. DEFINE S == Found(v, filter)
            R == MatchOrder(v, filter)
            paths == FieldPaths[v]
            m == ComputeMatches(v, filter)
            ranked == Sorted(S, R)
<1>1. /\ S \in SUBSET DOMAIN paths /\ IsFiniteSet(S) /\ StrictOrder(S, R)
      /\ \A n \in S : paths[n] \in Candidates[v]
  BY MatchOrderIsStrict
<1>2. Listed(S, R, ranked)
  <2>. HIDE DEF S, R
  <2>. QED  BY <1>1, SortedIsListed
<1>. DEFINE inOrder == [n \in 1..Cardinality(S) |->
                          CHOOSE x \in S : Cardinality({y \in S : MatchBefore(v, filter, y, x)}) = n - 1]
<1>3. m = [n \in DOMAIN inOrder |-> paths[inOrder[n]]]
  BY DEF ComputeMatches, InOrder, MatchBefore, SearchKey, SpanOf, Found
<1>4. inOrder = ranked
  <2>1. \A x \in S : {y \in S : MatchBefore(v, filter, y, x)} = Below(S, R, x)
    BY DEF Below, MatchOrder
  <2>. HIDE DEF S, R
  <2>. DEFINE mine(n) == CHOOSE x \in S : Cardinality({y \in S : MatchBefore(v, filter, y, x)}) = n - 1
              theirs(n) == CHOOSE x \in S : Cardinality(Below(S, R, x)) = n - 1
  <2>2. ASSUME NEW n PROVE mine(n) = theirs(n)
    <3>1. \A x \in S : Cardinality({y \in S : MatchBefore(v, filter, y, x)}) = n - 1
                       <=> Cardinality(Below(S, R, x)) = n - 1
      BY <2>1
    <3>. QED  BY <3>1
  <2>3. inOrder = [n \in 1..Cardinality(S) |-> mine(n)]
    OBVIOUS
  <2>4. ranked = [n \in 1..Cardinality(S) |-> theirs(n)]
    BY DEF Sorted
  <2>. HIDE DEF inOrder, ranked, mine, theirs
  <2>. QED  BY <2>2, <2>3, <2>4
<1>. HIDE DEF inOrder, ranked, m
<1>5. /\ DOMAIN ranked = 1..Cardinality(S)
      /\ \A n \in 1..Cardinality(S) : ranked[n] \in S
      /\ \A x \in S : \E n \in 1..Cardinality(S) : ranked[n] = x
      /\ \A i, j \in 1..Cardinality(S) : i < j => <<ranked[i], ranked[j]>> \in R
  <2>. HIDE DEF S, R
  <2>. QED  BY <1>2 DEF Listed
<1>6. DOMAIN m = 1..Cardinality(S) /\ \A n \in 1..Cardinality(S) : m[n] = paths[ranked[n]]
  BY <1>3, <1>4, <1>5
<1>7. \A n \in S : FuzzyMatches(filter, Letterwise(paths[n]))
  BY DEF Found
<1>8. ASSUME NEW s \in Candidates[v], FuzzyMatches(filter, Letterwise(s))
      PROVE  \E i \in DOMAIN m : m[i] = s
  <2>1. PICK n \in DOMAIN paths : paths[n] = s
    <3>1. DOMAIN paths = 1..Len(paths) /\ ToSet(paths) = Candidates[v]
      BY FieldPathsAreListed, ListedFacts
    <3>. HIDE DEF paths
    <3>. QED  BY <3>1 DEF ToSet
  <2>2. n \in S
    BY <1>8, <2>1 DEF Found
  <2>. HIDE DEF S, paths
  <2>. QED  BY <1>5, <1>6, <2>1, <2>2
<1>9. ASSUME NEW i \in DOMAIN m, NEW j \in DOMAIN m, i < j
      PROVE  \E x, y \in S : m[i] = paths[x] /\ m[j] = paths[y] /\ MatchBefore(v, filter, x, y)
  <2>1. ranked[i] \in S /\ ranked[j] \in S /\ <<ranked[i], ranked[j]>> \in R
        /\ m[i] = paths[ranked[i]] /\ m[j] = paths[ranked[j]]
    BY <1>5, <1>6, <1>9
  <2>2. MatchBefore(v, filter, ranked[i], ranked[j])
    BY <2>1 DEF MatchOrder
  <2>. HIDE DEF S, paths
  <2>. QED  BY <2>1, <2>2
<1>10. \A i \in DOMAIN m : m[i] \in Candidates[v] /\ FuzzyMatches(filter, Letterwise(m[i]))
  <2>. HIDE DEF S, paths
  <2>. QED  BY <1>1, <1>5, <1>6, <1>7
<1>. HIDE DEF S, paths
<1>. QED  BY <1>8, <1>9, <1>10 DEF S, paths, m

-----------------------------------------------------------------------------
(* The ranking is the one the search promises.                             *)

(* The occurrences of a filter in a path, and the spans of those that end   *)
(* earliest.                                                               *)
Occurrences(filter, s) ==
    {at \in [1..Len(filter) -> 1..Len(Letterwise(s))] :
        /\ \A n \in 1..Len(filter) : Letterwise(s)[at[n]] = filter[n]
        /\ \A n \in 2..Len(filter) : at[n - 1] < at[n]}
(* Those with the smallest span.                                           *)
Earliest(filter, s) ==
    {f \in Occurrences(filter, s) : \A g \in Occurrences(filter, s) : f[Len(filter)] <= g[Len(filter)]}
(* How far they stretch.                                                   *)
Spans(filter, s) == {at[Len(filter)] - at[1] : at \in Earliest(filter, s)}

(* A text matches exactly where the filter occurs in it.                   *)
LEMMA OccurrencesBy ==
    ASSUME NEW v \in Versions, NEW s \in Candidates[v], NEW X, NEW filter \in Seq(X)
    PROVE  /\ Occurrences(filter, s) # {} <=> FuzzyMatches(filter, Letterwise(s))
           /\ \A at \in Occurrences(filter, s) : Occurs(filter, Letterwise(s), at, Len(filter))
<1>. DEFINE text == Letterwise(s)
            k == Len(filter)
            O == Occurrences(filter, s)
<1>1. text \in Seq(Marks)
  BY LetterwiseType
<1>2. \A at \in O : Occurs(filter, text, at, k)
  BY DEF Occurrences, Occurs
<1>3. \A at \in [1..k -> 1..Len(text)] : Occurs(filter, text, at, k) => at \in O
  BY DEF Occurrences, Occurs
<1>. HIDE DEF O, text
<1>4. FuzzyMatches(filter, text) <=> \E at : Occurs(filter, text, at, k)
  BY <1>1, FuzzyMatchesBy
<1>5. ASSUME FuzzyMatches(filter, text) PROVE O # {}
  <2>1. PICK at : Occurs(filter, text, at, k)
    BY <1>4, <1>5
  <2>. DEFINE f == [n \in 1..k |-> at[n]]
  <2>2. \A n \in 1..k : at[n] \in 1..Len(text) /\ text[at[n]] = filter[n] /\ f[n] = at[n]
    BY <2>1 DEF Occurs
  <2>3. f \in [1..k -> 1..Len(text)]
    BY <2>2
  <2>4. \A n \in 2..k : n \in 1..k /\ n - 1 \in 1..k /\ at[n - 1] < at[n]
    BY <2>1 DEF Occurs
  <2>. HIDE DEF f
  <2>5. Occurs(filter, text, f, k)
    <3>. HIDE DEF k
    <3>. QED  BY <2>2, <2>4 DEF Occurs
  <2>. QED  BY <1>3, <2>3, <2>5
<1>. QED  BY <1>2, <1>4, <1>5 DEF O, text

(* The span a match is ranked by is that of its tightest occurrence.       *)
LEMMA TightestSpan ==
    ASSUME NEW v \in Versions, NEW s \in Candidates[v], NEW X, NEW filter \in Seq(X), filter # <<>>,
           FuzzyMatches(filter, Letterwise(s))
    PROVE  /\ SpanOf(filter, s) \in Nat
           /\ (CHOOSE n \in Spans(filter, s) : \A m \in Spans(filter, s) : n <= m) = SpanOf(filter, s) - 1
<1>. DEFINE text == Letterwise(s)
            k == Len(filter)
            P == MatchedPositions(filter, text)
            O == Occurrences(filter, s)
            S == Spans(filter, s)
<1>1. text \in Seq(Marks)
  BY LetterwiseType
<1>2. k \in Nat /\ k > 0 /\ 1 \in 1..k /\ k \in 1..k
  OBVIOUS
<1>. HIDE DEF text
<1>3. /\ Tightest(filter, text, P) /\ P[1] \in Nat /\ P[k] \in Nat
      /\ Span(P) = 1 + (P[k] - P[1]) /\ Span(P) \in Nat
  <2>1. FuzzyMatches(filter, text)
    BY DEF text
  <2>. QED  BY <1>1, <2>1, SpanBy
<1>4. SpanOf(filter, s) = Span(P)
  BY DEF SpanOf, text
<1>. HIDE DEF P
<1>5. /\ P \in [1..k -> 1..Len(text)] /\ Occurs(filter, text, P, k)
      /\ \A at : Occurs(filter, text, at, k) =>
           /\ P[k] <= at[k]
           /\ at[k] = P[k] => \A n \in 1..k : at[n] <= P[n]
  BY <1>3 DEF Tightest
<1>6. P \in O
  BY <1>5 DEF Occurrences, Occurs, text
<1>7. \A at \in O : Occurs(filter, text, at, k) /\ at[1] \in Nat /\ at[k] \in Nat
  <2>1. \A at \in O : Occurs(filter, text, at, k)
    BY OccurrencesBy DEF text
  <2>. QED  BY <1>2, <2>1 DEF Occurs
<1>. HIDE DEF O, k
<1>8. S = {at[k] - at[1] : at \in {f \in O : \A g \in O : f[k] <= g[k]}}
  BY DEF Spans, Earliest, O, k
<1>. HIDE DEF S
<1>9. P[k] - P[1] \in S
  <2>1. \A g \in O : P[k] <= g[k]
    BY <1>5, <1>7
  <2>. QED  BY <1>6, <1>8, <2>1
<1>10. ASSUME NEW n \in S PROVE n \in Int /\ P[k] - P[1] <= n
  <2>1. PICK f \in O : (\A g \in O : f[k] <= g[k]) /\ n = f[k] - f[1]
    BY <1>8
  <2>2. f[k] = P[k]
    <3>1. f[k] <= P[k] /\ P[k] <= f[k]
      BY <1>5, <1>6, <1>7, <2>1
    <3>. QED  BY <1>3, <1>7, <3>1
  <2>3. f[1] <= P[1]
    BY <1>2, <1>5, <1>7, <2>2
  <2>. QED  BY <1>3, <1>7, <2>1, <2>2, <2>3
<1>11. (CHOOSE n \in S : \A m \in S : n <= m) = P[k] - P[1]
  <2>. DEFINE least == CHOOSE n \in S : \A m \in S : n <= m
              p == P[k] - P[1]
  <2>1. p \in S /\ \A m \in S : p <= m
    BY <1>9, <1>10
  <2>2. p \in Int /\ \A m \in S : m \in Int
    BY <1>9, <1>10
  <2>. HIDE DEF p
  <2>3. least \in S /\ \A m \in S : least <= m
    BY <2>1
  <2>. HIDE DEF least
  <2>4. least <= p /\ p <= least /\ least \in Int
    BY <2>1, <2>2, <2>3
  <2>5. least = p
    BY <2>2, <2>4
  <2>. QED  BY <2>5 DEF least, p
<1>. QED  BY <1>3, <1>4, <1>11 DEF S

(* The search's list, whatever its filter, is the one the memo was ranked   *)
(* for.                                                                    *)
LEMMA RankingIsRight ==
    ASSUME version \in Versions, search.filter \in Seq(Letters),
           matched = ComputeMatches(version, search.filter)
    PROVE  SearchListsWhatMatches
<1>. DEFINE v == version
            filter == search.filter
            size == Len(search.filter)
            paths == FieldPaths[version]
            spans(s) == Spans(search.filter, s)
            tightest(s) == IF size = 0 THEN 0
                           ELSE CHOOSE n \in spans(s) : \A m \in spans(s) : n <= m
            length(s) == IF size = 0 THEN 0 ELSE Len(Letterwise(s))
            place(s) == CHOOSE n \in DOMAIN FieldPaths[version] : FieldPaths[version][n] = s
            Sooner(a, b) == \/ tightest(a) < tightest(b)
                            \/ /\ tightest(a) = tightest(b)
                               /\ \/ length(a) < length(b)
                                  \/ length(a) = length(b) /\ place(a) < place(b)
<1>1. /\ Len(paths) \in Nat /\ DOMAIN paths = 1..Len(paths) /\ ToSet(paths) = Candidates[v]
      /\ \A n \in 1..Len(paths) : paths[n] \in Candidates[v]
      /\ \A m, n \in 1..Len(paths) : paths[m] = paths[n] => m = n
  BY FieldPathsAreListed, ListedFacts
<1>2. \A n \in 1..Len(paths) : place(paths[n]) = n
  <2>. TAKE n \in 1..Len(paths)
  <2>1. \A m \in DOMAIN paths : paths[m] = paths[n] <=> m = n
    BY <1>1
  <2>. HIDE DEF paths
  <2>2. (CHOOSE m \in DOMAIN paths : paths[m] = paths[n]) = n
    BY <1>1, <2>1
  <2>. QED  BY <2>2 DEF paths
<1>3. \A s \in Candidates[v] : Occurrences(filter, s) # {} <=> FuzzyMatches(filter, Letterwise(s))
  BY OccurrencesBy
<1>4. size \in Nat /\ (size = 0 <=> filter = <<>>)
  OBVIOUS
<1>5. /\ ToSet(matched) = {s \in Candidates[v] : Occurrences(filter, s) # {}}
      /\ \A m, n \in DOMAIN matched : m < n => Sooner(matched[m], matched[n])
  <2>1. CASE filter = <<>>
    <3>1. matched = paths
      BY <2>1 DEF ComputeMatches
    <3>2. \A s : tightest(s) = 0 /\ length(s) = 0
      BY <1>4, <2>1
    <3>3. \A s \in Candidates[v] : Occurrences(filter, s) # {}
      <4>. TAKE s \in Candidates[v]
      <4>. DEFINE e == [n \in 1..Len(filter) |-> n]
      <4>1. 1..Len(filter) = {} /\ 2..Len(filter) = {}
        BY <2>1
      <4>2. e \in [1..Len(filter) -> 1..Len(Letterwise(s))]
        BY <4>1
      <4>. HIDE DEF e
      <4>3. e \in Occurrences(filter, s)
        BY <4>1, <4>2 DEF Occurrences
      <4>. QED  BY <4>3
    <3>. HIDE DEF tightest, length, place, paths
    <3>4. ASSUME NEW m \in DOMAIN matched, NEW n \in DOMAIN matched, m < n
          PROVE  Sooner(matched[m], matched[n])
      BY <1>1, <1>2, <3>1, <3>2, <3>4
    <3>. QED  BY <1>1, <3>1, <3>3, <3>4
  <2>2. CASE filter # <<>>
    <3>1. /\ \A i \in DOMAIN matched :
               matched[i] \in Candidates[v] /\ FuzzyMatches(filter, Letterwise(matched[i]))
          /\ \A s \in Candidates[v] :
               FuzzyMatches(filter, Letterwise(s)) => \E i \in DOMAIN matched : matched[i] = s
          /\ \A i, j \in DOMAIN matched : i < j =>
               \E x, y \in Found(v, filter) :
                  matched[i] = paths[x] /\ matched[j] = paths[y] /\ MatchBefore(v, filter, x, y)
      BY <2>2, MatchesAreRanked
    <3>2. ToSet(matched) = {s \in Candidates[v] : Occurrences(filter, s) # {}}
      <4>1. ToSet(matched) = {matched[i] : i \in DOMAIN matched}
        BY DEF ToSet
      <4>. HIDE DEF paths
      <4>. QED  BY <1>3, <3>1, <4>1
    <3>3. ASSUME NEW m \in DOMAIN matched, NEW n \in DOMAIN matched, m < n
          PROVE  Sooner(matched[m], matched[n])
      <4>. DEFINE a == matched[m]
                  b == matched[n]
      <4>1. PICK x \in Found(v, filter), y \in Found(v, filter) :
              a = paths[x] /\ b = paths[y] /\ MatchBefore(v, filter, x, y)
        BY <3>1, <3>3
      <4>2. x \in 1..Len(paths) /\ y \in 1..Len(paths) /\ x \in Nat /\ y \in Nat
        BY <1>1, <2>2, MatchOrderIsStrict
      <4>3. /\ SpanOf(filter, a) \in Nat /\ tightest(a) = SpanOf(filter, a) - 1
            /\ SpanOf(filter, b) \in Nat /\ tightest(b) = SpanOf(filter, b) - 1
        <5>1. \A s \in Candidates[v] : FuzzyMatches(filter, Letterwise(s)) =>
                SpanOf(filter, s) \in Nat /\ tightest(s) = SpanOf(filter, s) - 1
          BY <1>4, <2>2, TightestSpan
        <5>. HIDE DEF tightest
        <5>. QED  BY <3>1, <3>3, <5>1
      <4>4. place(a) = x /\ place(b) = y
        BY <1>2, <4>1, <4>2
      <4>5. length(a) = Len(Letterwise(a)) /\ length(b) = Len(Letterwise(b))
        BY <1>4, <2>2
      <4>6. Len(Letterwise(a)) \in Nat /\ Len(Letterwise(b)) \in Nat
        <5>1. a \in Candidates[v] /\ b \in Candidates[v]
          BY <3>1, <3>3
        <5>2. \A s \in Candidates[v] : Letterwise(s) \in Seq(Marks)
          BY LetterwiseType
        <5>. HIDE DEF a, b
        <5>. QED  BY <5>1, <5>2
      <4>7. LexicallyBefore(<<SpanOf(filter, a), Len(Letterwise(a)), x>>,
                            <<SpanOf(filter, b), Len(Letterwise(b)), y>>)
        BY <4>1 DEF MatchBefore, SearchKey
      <4>. DEFINE sa == SpanOf(filter, a)
                  sb == SpanOf(filter, b)
                  la == Len(Letterwise(a))
                  lb == Len(Letterwise(b))
      <4>8. \/ sa < sb
            \/ sa = sb /\ (la < lb \/ (la = lb /\ x < y))
        <5>1. sa \in Nat /\ sb \in Nat /\ la \in Nat /\ lb \in Nat /\ LexicallyBefore(<<sa, la, x>>, <<sb, lb, y>>)
          BY <4>3, <4>6, <4>7
        <5>. HIDE DEF sa, sb, la, lb
        <5>. QED  BY <4>2, <5>1, ThreeKeys
      <4>. HIDE DEF sa, sb, la, lb, tightest, length, place, a, b
      <4>9. /\ tightest(a) = sa - 1 /\ tightest(b) = sb - 1 /\ sa \in Nat /\ sb \in Nat
            /\ length(a) = la /\ length(b) = lb
        BY <4>3, <4>5 DEF sa, sb, la, lb
      <4>10. Sooner(a, b)
        BY <4>4, <4>8, <4>9
      <4>. QED  BY <4>10 DEF a, b
    <3>. QED  BY <3>2, <3>3
  <2>. QED  BY <2>1, <2>2
<1>. QED  BY <1>5 DEF SearchListsWhatMatches, Occurrences, Spans, Earliest

-----------------------------------------------------------------------------
(* The memoized ranking is that of the filter.                             *)

-----------------------------------------------------------------------------
(* The search's memo.                                                      *)

(* What the memo holds is the ranking for the filter that is typed, or     *)
(* nothing before the first search: the highlight is an index into it, so  *)
(* SearchListsWhatMatches is not inductive without it.                     *)
SearchInv ==
    IF overlay = "search"
    THEN matched = ComputeMatches(version, search.filter)
    ELSE search.filter = <<>> /\ matched \in {<<>>, ComputeMatches(version, <<>>)}

(* No view, no memo.                                                       *)
LEMMA NoViewSearch ==
    ASSUME NoView
    PROVE  SearchInv
BY DEF NoView, SearchInv, NewList

(* The same after a step.                                                  *)
LEMMA NoViewSearchNext == NoView' => SearchInv'
<1>1. NoView => SearchInv
  BY NoViewSearch
<1>. QED  BY <1>1, PTL

(* Nothing changes that it depends on.                                     *)
LEMMA SearchStays ==
    ASSUME SearchInv, UNCHANGED <<version, search, matched>>,
           overlay' = "search" <=> overlay = "search"
    PROVE  SearchInv'
BY DEF SearchInv

(* Every step of the view keeps it: what changes the filter or the version *)
(* ranks anew.                                                             *)
LEMMA ViewKeepsSearch ==
    ASSUME SearchInv, ListsInv, ViewStep
    PROVE  SearchInv'
<1>. USE DEF surfaces, treeVars
<1>0. NewList.filter = <<>>
  BY DEF NewList
<1>1. CASE OpenSearch
  <2>1. overlay = "none" /\ overlay' = "search" /\ UNCHANGED <<version, search>>
        /\ matched' = IF matched = <<>> THEN ComputeMatches(version, <<>>) ELSE matched
    BY <1>1 DEF OpenSearch, EnsureCandidates
  <2>. QED  BY <2>1 DEF SearchInv
<1>2. ASSUME NEW list, SearchFor(list)
      PROVE  SearchInv'
  <2>1. overlay = "search" /\ overlay' = "search" /\ version' = version /\ search' = list
        /\ matched' = ComputeMatches(version, list.filter)
    BY <1>2 DEF SearchFor
  <2>. QED  BY <2>1 DEF SearchInv
<1>3. CASE TypeSearch \/ EraseSearch
  BY <1>2, <1>3 DEF TypeSearch, EraseSearch
<1>4. CASE EscapeSearch
  <2>1. CASE SearchFor(Cleared(search))
    BY <1>2, <2>1
  <2>2. CASE overlay = "search" /\ search.filter = <<>> /\ overlay' = "none"
             /\ UNCHANGED <<version, search, matched>>
    BY <2>2 DEF SearchInv
  <2>. QED  BY <1>4, <2>1, <2>2 DEF EscapeSearch
<1>5. CASE \E delta \in {1, -1} : MoveSearch(delta)
  <2>1. PICK delta \in {1, -1} : MoveSearch(delta)
    BY <1>5
  <2>2. ListMove(search, delta, Len(matched)).filter = search.filter
    BY MoveFacts DEF ListsInv
  <2>3. overlay = "search" /\ overlay' = "search" /\ UNCHANGED <<version, matched>>
        /\ search' = ListMove(search, delta, Len(matched))
    BY <2>1 DEF MoveSearch
  <2>. QED  BY <2>2, <2>3 DEF SearchInv
<1>6. CASE SelectMatch
  <2>1. overlay' = "none" /\ search' = NewList /\ matched' = ComputeMatches(version, <<>>)
        /\ version' = version
    BY <1>6 DEF SelectMatch
  <2>. QED  BY <1>0, <2>1 DEF SearchInv
<1>7. CASE SelectVersion
  <2>1. overlay' = "none" /\ search' = NewList
        /\ (matched' = <<>> \/ matched' = ComputeMatches(version', <<>>))
    BY <1>7 DEF SelectVersion, SwitchTo
  <2>. QED  BY <1>0, <2>1 DEF SearchInv
<1>8. CASE MoveFocus \/ ExpandFocused \/ CollapseFocused \/ PressEnter \/ PressAdd
            \/ FindingsLand \/ PressJumpToFinding
  <2>1. UNCHANGED <<search, matched>> /\ overlay' = overlay /\ overlay = "none"
    BY <1>8 DEF MoveFocus, ExpandFocused, CollapseFocused, PressEnter, PressAdd,
                FindingsLand, PressJumpToFinding, OnTree, Navigating
  <2>2. version' = version
    BY <1>8 DEF MoveFocus, ExpandFocused, CollapseFocused, PressEnter, PressAdd,
                FindingsLand, PressJumpToFinding, ToggleFocused, ConfirmEditor, AppendToArray,
                ConfirmKeyPrompt, ApplyReport, ShowFindings, JumpToFinding, Mutated
  <2>. QED  BY <2>1, <2>2, SearchStays
<1>9. CASE PressUnset \/ AnswerUnset
  <2>1. UNCHANGED <<search, matched>> /\ overlay # "search" /\ overlay' # "search"
    BY <1>9 DEF PressUnset, AnswerUnset, Navigating
  <2>2. version' = version
    BY <1>9 DEF PressUnset, AnswerUnset, UnsetRow, PerformUnset, Mutated
  <2>. QED  BY <2>1, <2>2, SearchStays
<1>10. CASE OpenVersionList \/ LeaveVersions \/ FilterVersions
             \/ \E delta \in {1, -1} : MoveVersions(delta)
  <2>1. UNCHANGED <<version, search, matched>> /\ overlay # "search" /\ overlay' # "search"
    BY <1>10 DEF OpenVersionList, LeaveVersions, FilterVersions, MoveVersions, ListVersions, Navigating
  <2>. QED  BY <2>1, SearchStays
<1>. QED
  BY <1>1, <1>3, <1>4, <1>5, <1>6, <1>7, <1>8, <1>9, <1>10 DEF ViewStep

(* Every step keeps it.                                                    *)
LEMMA SearchStep ==
    ASSUME SearchInv, KindInv, ListsInv, BrowseStep
    PROVE  SearchInv'
<1>1. CASE UNCHANGED viewVars
  BY <1>1, SearchStays DEF viewVars, treeVars, surfaces
<1>2. CASE RefuseLaunch \/ Launch \/ TypePicker \/ ErasePicker \/ ClearPicker
            \/ (\E delta \in {1, -1} : MovePicker(delta))
            \/ Resize \/ SelectHighlighted \/ FailToOpen
  BY <1>1, <1>2 DEF RefuseLaunch, Refuse, Launch, TypePicker, ErasePicker, ClearPicker, MovePicker,
                    Pick, Resize, SelectHighlighted, FailToOpen
<1>3. CASE ReturnToPicker \/ Quit
  BY <1>3, Closed, NoViewSearchNext DEF ReturnToPicker, Quit
<1>4. CASE OpenCompose
  <2>1. search' = NewList /\ overlay' = "none" /\ version' = Gvk(kind)
        /\ (matched' = <<>> \/ matched' = ComputeMatches(Gvk(kind), <<>>))
    BY <1>4 DEF OpenCompose, OpenView
  <2>2. NewList.filter = <<>>
    BY DEF NewList
  <2>. QED  BY <2>1, <2>2 DEF SearchInv
<1>5. CASE Compose
  BY <1>5, ViewKeepsSearch DEF Compose
<1>. QED  BY <1>2, <1>3, <1>4, <1>5 DEF BrowseStep

(* What is offered on screen, with the memo.                               *)
SearchingInv == OnScreenInv /\ SearchInv

(* It holds for as long as the Session lasts (computeMatches,              *)
(* ensureCandidates).                                                      *)
THEOREM SearchingTheorem == BrowseSpec => []SearchingInv
<1>1. BrowseInit => SearchingInv
  <2>1. BrowseInit => OnScreenInv
    BY InitLaunch, InitPicker, InitKind, NoViewLists DEF OnScreenInv, KindInv, Composing, BrowseInit
  <2>. QED  BY <2>1, NoViewSearch DEF SearchingInv, BrowseInit
<1>2. SearchInv /\ OnScreenInv /\ [BrowseNext]_browseVars => SearchInv'
  <2>. SUFFICES ASSUME SearchInv, OnScreenInv, [BrowseNext]_browseVars PROVE SearchInv'
    OBVIOUS
  <2>1. CASE BrowseNext
    BY <2>1, SearchStep DEF OnScreenInv, BrowseNext
  <2>2. CASE UNCHANGED browseVars
    BY <2>2, SearchStays DEF browseVars, viewVars, treeVars, surfaces
  <2>. QED  BY <2>1, <2>2
<1>3. BrowseInit => SearchInv
  BY <1>1 DEF SearchingInv
<1>4. SearchingInv <=> OnScreenInv /\ SearchInv
  BY DEF SearchingInv
<1>. QED  BY <1>2, <1>3, <1>4, OnScreenTheorem, PTL DEF BrowseSpec

(* The search lists exactly the fields that spell the filter in order,     *)
(* tighter spans first, then shorter paths, then tree order                *)
(* (computeMatches, fuzzySubsequence).                                     *)
THEOREM SearchTheorem == BrowseSpec => []SearchListsWhatMatches
<1>1. SearchingInv => SearchListsWhatMatches
  <2>. SUFFICES ASSUME SearchingInv PROVE SearchListsWhatMatches
    OBVIOUS
  <2>1. CASE overlay # "search"
    BY <2>1 DEF SearchListsWhatMatches
  <2>2. CASE overlay = "search"
    <3>1. matched = ComputeMatches(version, search.filter)
      BY <2>2 DEF SearchingInv, SearchInv
    <3>2. ~NoView
      BY <2>2 DEF NoView
    <3>3. version \in Versions
      BY <3>2 DEF SearchingInv, OnScreenInv, KindInv
    <3>4. search.filter \in Seq(Letters)
      BY DEF SearchingInv, OnScreenInv, ListsInv, Lists
    <3>. QED  BY <3>1, <3>3, <3>4, RankingIsRight
  <2>. QED  BY <2>1, <2>2
<1>. QED  BY <1>1, SearchingTheorem, PTL

-----------------------------------------------------------------------------
(* The focus is a row on screen.                                           *)

-----------------------------------------------------------------------------
(* The focus.                                                              *)

(* The focus is the place of one of the rows in S.                         *)
InPlace(S) == cursor \in 0..(Cardinality(S) - 1)
(* The tree is true to the Draft and the focus is a row on screen.         *)
FocusInv == TreeInv /\ InPlace(Shown(version, rows))

(* The focus is on the one row on screen whose place the index is.         *)
LEMMA FocusBy ==
    ASSUME FocusInv
    PROVE  LET S == Shown(version, rows) IN
           /\ cursor \in Nat /\ Focused \in S /\ Place(S, Focused) = cursor
           /\ \A p \in S : Place(S, p) = cursor => p = Focused
<1>. DEFINE S == Shown(version, rows)
<1>1. /\ Cardinality(S) \in Nat
      /\ \A p, q \in S : Place(S, p) = Place(S, q) => p = q
      /\ \A n \in 0..(Cardinality(S) - 1) : \E p \in S : Place(S, p) = n
  BY ShownPlaces DEF FocusInv, TreeInv
<1>2. cursor \in 0..(Cardinality(S) - 1)
  BY DEF FocusInv, InPlace
<1>3. Focused = CHOOSE p \in S : Place(S, p) = cursor
  BY DEF Focused
<1>. HIDE DEF S
<1>4. \E p \in S : Place(S, p) = cursor
  BY <1>1, <1>2
<1>5. Focused \in S /\ Place(S, Focused) = cursor
  BY <1>3, <1>4
<1>6. cursor \in Nat
  BY <1>1, <1>2
<1>. QED  BY <1>1, <1>5, <1>6 DEF S

(* The same after a step.                                                  *)
LEMMA FocusByNext ==
    FocusInv' => /\ (Focused \in Shown(version, rows))'
                 /\ (Place(Shown(version, rows), Focused) = cursor)'
                 /\ (\A p \in Shown(version, rows) : Place(Shown(version, rows), p) = cursor => p = Focused)'
<1>1. FocusInv => /\ Focused \in Shown(version, rows)
                  /\ Place(Shown(version, rows), Focused) = cursor
                  /\ \A p \in Shown(version, rows) : Place(Shown(version, rows), p) = cursor => p = Focused
  BY FocusBy
<1>. QED  BY <1>1, PTL

(* The focus is on a row, or on the placeholder of an expanded collection  *)
(* on screen.                                                              *)
LEMMA FocusedRow ==
    ASSUME FocusInv
    PROVE  /\ ~IsSlot(Focused) <=> Focused \in Paths
           /\ ~IsSlot(Focused) => Focused \in DOMAIN rows /\ OnWay(rows, Focused) /\ Visible(Focused)
           /\ IsSlot(Focused) => Front(Focused) \in DOMAIN rows /\ Focused # <<>>
<1>1. Focused \in Shown(version, rows)
  BY FocusBy
<1>2. version \in Versions /\ RowsInv(version, draft, rows)
  BY DEF FocusInv, TreeInv
<1>3. /\ \A p \in Paths : p \in Shown(version, rows) <=> p \in DOMAIN rows /\ OnWay(rows, p)
      /\ \A p \in Shown(version, rows) : ~IsSlot(p) <=> p \in Paths
      /\ \A p \in Shown(version, rows) : IsSlot(p) => Front(p) \in Paths /\ Front(p) \in Shown(version, rows)
  BY <1>2, OnScreenBy
<1>. QED  BY <1>1, <1>3 DEF Visible, OnWay, IsSlot

(* focusIndex stays in bounds.                                             *)
LEMMA FocusIndexBy ==
    ASSUME NEW S, Cardinality(S) \in Nat, Cardinality(S) > 0, NEW index \in Int
    PROVE  /\ FocusIndex(S, index) \in 0..(Cardinality(S) - 1)
           /\ index \in 0..(Cardinality(S) - 1) => FocusIndex(S, index) = index
<1>1. Cardinality(S) - 1 \in Int /\ Cardinality(S) - 1 >= 0
  OBVIOUS
<1>. QED  BY <1>1, ClampedBy DEF FocusIndex

(* So does focusRow.                                                       *)
LEMMA FocusRowBy ==
    ASSUME NEW v \in Versions, NEW d, WellFormed(v, d), NEW r, RowsInv(v, d, r), NEW p, cursor \in Nat
    PROVE  FocusRow(Shown(v, r), p) \in 0..(Cardinality(Shown(v, r)) - 1)
<1>. DEFINE S == Shown(v, r)
<1>1. Cardinality(S) \in Nat /\ Cardinality(S) > 0 /\ \A q \in S : Place(S, q) \in 0..(Cardinality(S) - 1)
  BY ShownPlaces
<1>. HIDE DEF S
<1>2. FocusIndex(S, cursor) \in 0..(Cardinality(S) - 1)
  BY <1>1, FocusIndexBy
<1>3. FocusRow(S, p) \in 0..(Cardinality(S) - 1)
  BY <1>1, <1>2 DEF FocusRow
<1>. QED  BY <1>3 DEF S

(* Where no row folds, all that was on screen stays there.                 *)
LEMMA ShownGrows ==
    ASSUME NEW v \in Versions, NEW d, NEW r, RowsInv(v, d, r), NEW e, NEW m, RowsInv(v, e, m),
           DOMAIN r \subseteq DOMAIN m, KeepsOpen(r, m)
    PROVE  Shown(v, r) \subseteq Shown(v, m)
<1>1. ASSUME NEW p \in Seen(r) PROVE p \in Seen(m)
  <2>1. p \in DOMAIN r /\ OnWay(r, p) /\ \A n \in 0..(Len(p) - 1) : SubSeq(p, 1, n) \in DOMAIN r
    <3>1. p \in DOMAIN r /\ OnWay(r, p)
      BY DEF Seen
    <3>2. p \in Paths /\ \A n \in 0..Len(p) : SubSeq(p, 1, n) \in DOMAIN r
      BY <3>1, RowsResolve, RowsAnchor DEF RowsInv
    <3>3. Len(p) \in Nat
      BY <3>2 DEF Paths
    <3>. QED  BY <3>1, <3>2, <3>3
  <2>2. OnWay(m, p)
    BY <2>1 DEF OnWay, KeepsOpen
  <2>. QED  BY <2>1, <2>2 DEF Seen
<1>2. Open(v, r) \subseteq Open(v, m)
  BY <1>1 DEF Open, Seen, KeepsOpen
<1>3. Shown(v, r) = Seen(r) \cup {Append(p, Slot) : p \in Open(v, r)}
      /\ Shown(v, m) = Seen(m) \cup {Append(p, Slot) : p \in Open(v, m)}
  BY ShownBy
<1>. QED  BY <1>1, <1>2, <1>3

(* A row that folds takes off screen what is beneath it, and nothing else. *)
LEMMA ShownFolds ==
    ASSUME NEW v \in Versions, NEW d, NEW r, RowsInv(v, d, r), NEW p \in Shown(v, r), p \in Paths
    PROVE  LET m == [r EXCEPT ![p].expanded = FALSE] IN
           /\ Shown(v, m) \subseteq Shown(v, r)
           /\ \A q \in Shown(v, r) : ~Strictly(q, p) => q \in Shown(v, m)
<1>. DEFINE m == [r EXCEPT ![p].expanded = FALSE]
<1>1. /\ p \in DOMAIN r /\ DOMAIN r \subseteq Paths
      /\ r = [q \in DOMAIN r |-> r[q]]
      /\ \A q \in DOMAIN r : r[q] \in [loaded : BOOLEAN, expanded : BOOLEAN]
  BY OnScreenBy DEF RowsInv, RowsMirror
<1>2. /\ DOMAIN m = DOMAIN r
      /\ \A q \in DOMAIN r : m[q].expanded <=> r[q].expanded /\ q # p
  BY <1>1
<1>. HIDE DEF m
<1>3. \A q \in DOMAIN r : /\ q \in Paths /\ Len(q) \in Nat
                          /\ \A n \in 0..(Len(q) - 1) : SubSeq(q, 1, n) \in DOMAIN r
  <2>. TAKE q \in DOMAIN r
  <2>1. q \in Paths /\ \A n \in 0..Len(q) : SubSeq(q, 1, n) \in DOMAIN r
    BY RowsResolve, RowsAnchor DEF RowsInv
  <2>2. Len(q) \in Nat
    BY <2>1 DEF Paths
  <2>. QED  BY <2>1, <2>2
<1>4. Seen(m) \subseteq Seen(r) /\ Open(v, m) \subseteq Open(v, r)
  BY <1>2, <1>3 DEF Seen, Open, OnWay
<1>5. Shown(v, r) = Seen(r) \cup {Append(q, Slot) : q \in Open(v, r)}
      /\ Shown(v, m) = Seen(m) \cup {Append(q, Slot) : q \in Open(v, m)}
  BY ShownBy
<1>6. Len(p) \in Nat
  BY <1>1, <1>3
<1>7. ASSUME NEW q \in Seen(r), ~Strictly(q, p) PROVE q \in Seen(m)
  <2>1. q \in DOMAIN r /\ OnWay(r, q) /\ q \in Paths /\ Len(q) \in Nat
    BY <1>3 DEF Seen
  <2>2. ASSUME NEW n \in 0..(Len(q) - 1) PROVE SubSeq(q, 1, n) # p
    <3>1. SUFFICES ASSUME SubSeq(q, 1, n) = p PROVE FALSE
      OBVIOUS
    <3>2. n \in 0..Len(q) /\ n < Len(q)
      BY <2>1
    <3>3. Len(SubSeq(q, 1, n)) = n
      BY <2>1, <3>2, Start DEF Paths
    <3>4. Len(p) = n
      BY <3>1, <3>3
    <3>5. IsAtOrBeneath(q, p)
      BY <2>1, <3>1, <3>2, <3>4 DEF IsAtOrBeneath
    <3>6. p # q
      BY <2>1, <3>2, <3>4
    <3>. QED  BY <1>7, <3>5, <3>6 DEF Strictly
  <2>3. OnWay(m, q)
    BY <1>2, <1>3, <2>1, <2>2 DEF OnWay
  <2>. QED  BY <1>2, <2>1, <2>3 DEF Seen
<1>8. ASSUME NEW q \in Open(v, r), ~Strictly(Append(q, Slot), p) PROVE q \in Open(v, m)
  <2>1. q \in Seen(r) /\ q \in DOMAIN r /\ q \in Paths /\ r[q].expanded
    BY <1>3 DEF Open, Seen
  <2>. DEFINE z == Append(q, Slot)
  <2>2. /\ z \notin Paths /\ Len(z) = Len(q) + 1 /\ Len(q) \in Nat
        /\ \A n \in 0..Len(q) : SubSeq(z, 1, n) = SubSeq(q, 1, n)
    BY <2>1, SlotRow
  <2>3. ~IsAtOrBeneath(z, p)
    BY <1>8, <2>2 DEF Strictly
  <2>. HIDE DEF z
  <2>4. ~IsAtOrBeneath(q, p)
    BY <1>6, <2>2, <2>3 DEF IsAtOrBeneath
  <2>5. q # p
    <3>1. IsAtOrBeneath(p, p)
      BY <1>1 DEF IsAtOrBeneath, Paths
    <3>. QED  BY <2>4, <3>1
  <2>6. q \in Seen(m) /\ m[q].expanded
    BY <1>2, <1>7, <2>1, <2>4, <2>5 DEF Strictly
  <2>. QED  BY <2>6 DEF Open
<1>9. Shown(v, m) \subseteq Shown(v, r)
  BY <1>4, <1>5
<1>10. \A q \in Shown(v, r) : ~Strictly(q, p) => q \in Shown(v, m)
  BY <1>5, <1>7, <1>8
<1>. QED  BY <1>9, <1>10 DEF m

(* The place of a row is kept where all and only what is above it stays.   *)
LEMMA SamePlace ==
    ASSUME NEW S, NEW T, NEW p,
           \A q \in S : Above(q, p) => q \in T,
           \A q \in T : Above(q, p) => q \in S
    PROVE  Place(T, p) = Place(S, p)
<1>1. {q \in S : Above(q, p)} = {q \in T : Above(q, p)}
  OBVIOUS
<1>. QED  BY <1>1 DEF Place

-----------------------------------------------------------------------------
(* What keeps the focus on a row: toggles and findings.                    *)

(* A row that folds keeps its place.                                       *)
LEMMA FoldKeepsPlace ==
    ASSUME NEW v \in Versions, NEW d, WellFormed(v, d), NEW r, RowsInv(v, d, r),
           NEW p \in Shown(v, r), p \in Paths
    PROVE  LET m == [r EXCEPT ![p].expanded = FALSE] IN
           p \in Shown(v, m) /\ Place(Shown(v, m), p) = Place(Shown(v, r), p)
<1>. DEFINE m == [r EXCEPT ![p].expanded = FALSE]
            S == Shown(v, r)
            T == Shown(v, m)
<1>1. T \subseteq S /\ \A q \in S : ~Strictly(q, p) => q \in T
  BY ShownFolds
<1>2. \A q \in S : Place(S, q) \in Int /\ (Above(p, q) <=> Place(S, p) < Place(S, q))
        /\ (Above(q, p) <=> Place(S, q) < Place(S, p))
  BY ShownPlaces
<1>. HIDE DEF S, T
<1>3. \A q : Strictly(q, p) => Above(p, q)
  BY DEF Strictly, Above
<1>4. \A q \in S : Above(q, p) => q \in T
  BY <1>1, <1>2, <1>3 DEF S
<1>5. ~Strictly(p, p)
  BY DEF Strictly
<1>6. p \in T
  BY <1>1, <1>5 DEF S
<1>7. Place(T, p) = Place(S, p)
  BY <1>1, <1>4, SamePlace
<1>. QED  BY <1>6, <1>7 DEF S, T

(* More rows leave the focus in bounds.                                    *)
LEMMA GrownInPlace ==
    ASSUME NEW S, NEW T, IsFiniteSet(T), S \subseteq T, InPlace(S)
    PROVE  InPlace(T)
<1>1. IsFiniteSet(S) /\ Cardinality(S) <= Cardinality(T)
  BY FS_Subset
<1>2. Cardinality(S) \in Nat /\ Cardinality(T) \in Nat
  BY <1>1, FS_CardinalityType
<1>. QED  BY <1>1, <1>2 DEF InPlace

(* A toggle of the focused row leaves its index where it is.               *)
LEMMA ToggleKeepsFocus ==
    ASSUME FocusInv, ToggleFocused(Focused), UNCHANGED cursor, ~IsSlot(Focused)
    PROVE  FocusInv'
<1>. DEFINE p == Focused
<1>1. /\ version \in Versions /\ WellFormed(version, draft) /\ RowsInv(version, draft, rows)
      /\ TreeInv /\ InPlace(Shown(version, rows))
  BY DEF FocusInv, TreeInv
<1>2. TreeInv'
  BY <1>1, ToggleKeepsTree
<1>3. /\ version' = version /\ draft' = draft
      /\ \/ rows' = [rows EXCEPT ![p].expanded = FALSE]
         \/ rows' = ExpandRow(version, draft, rows, p)
  BY DEF ToggleFocused
<1>4. p \in Shown(version, rows) /\ p \in Paths /\ p \in DOMAIN rows /\ Place(Shown(version, rows), p) = cursor
  BY FocusBy, FocusedRow
<1>5. RowsInv(version, draft, rows') /\ WellFormed(version', draft')
  BY <1>2, <1>3 DEF TreeInv
<1>. HIDE DEF p
<1>6. /\ IsFiniteSet(Shown(version, rows'))
      /\ \A q \in Shown(version, rows') :
           Place(Shown(version, rows'), q) \in 0..(Cardinality(Shown(version, rows')) - 1)
  BY <1>1, <1>5, ShownPlaces
<1>7. CASE rows' = [rows EXCEPT ![p].expanded = FALSE]
  <2>. DEFINE m == [rows EXCEPT ![p].expanded = FALSE]
  <2>3. p \in Shown(version, m) /\ Place(Shown(version, m), p) = Place(Shown(version, rows), p)
    BY <1>1, <1>4, FoldKeepsPlace
  <2>4. rows' = m
    BY <1>7
  <2>. HIDE DEF m
  <2>1. p \in Shown(version, rows') /\ Place(Shown(version, rows'), p) = cursor
    BY <1>4, <2>3, <2>4
  <2>2. InPlace(Shown(version, rows'))
    BY <1>6, <2>1 DEF InPlace
  <2>. QED  BY <1>2, <1>3, <2>2 DEF FocusInv, InPlace
<1>8. CASE rows' = ExpandRow(version, draft, rows, p)
  <2>1. DOMAIN rows \subseteq DOMAIN rows' /\ KeepsOpen(rows, rows')
    BY <1>1, <1>4, <1>8, ExpandRowInv
  <2>2. Shown(version, rows) \subseteq Shown(version, rows')
    BY <1>1, <1>5, <2>1, ShownGrows
  <2>3. InPlace(Shown(version, rows'))
    BY <1>1, <1>6, <2>2, GrownInPlace
  <2>. QED  BY <1>2, <1>3, <2>3 DEF FocusInv, InPlace
<1>. QED  BY <1>3, <1>7, <1>8

(* What an outcome's findings make of the rows.                            *)
LEMMA FindingsGrow ==
    ASSUME TreeInv, ApplyReport
    PROVE  /\ UNCHANGED <<version, draft>>
           /\ \E fs : /\ rows' = WalkTowardEach(version, draft, rows, fs)
                      /\ Len(fs) \in Nat /\ \A n \in 1..Len(fs) : Len(fs[n]) \in Nat
<1>1. PICK count \in 0..MaxCauses :
        \E causes \in [1..count -> Rejectable], message \in {TRUE, count > 0} :
          ShowFindings(MapCauses([n \in 1..count |-> causes[n].field], message))
  BY DEF ApplyReport
<1>2. PICK causes \in [1..count -> Rejectable], message \in {TRUE, count > 0} :
        ShowFindings(MapCauses([n \in 1..count |-> causes[n].field], message))
  BY <1>1
<1>. DEFINE ss == [n \in 1..count |-> causes[n].field]
            fs == MapCauses(ss, message)
<1>3. Len(fs) \in Nat /\ \A n \in 1..Len(fs) : Len(fs[n]) \in Nat
  <2>1. count \in Nat
    <3>1. count \in 0..MaxCauses
      OBVIOUS
    <3>. QED  BY <3>1, ComposeTreeAssumption
  <2>2. /\ DOMAIN ss = 1..count /\ ss = [n \in 1..count |-> ss[n]]
        /\ \A n \in 1..count : IsSequence(ss[n])
    BY RejectableType
  <2>. HIDE DEF ss
  <2>. QED  BY <2>1, <2>2, MapCausesType
<1>4. ShowFindings(fs)
  BY <1>2
<1>. HIDE DEF ss, fs
<1>5. rows' = WalkTowardEach(version, draft, rows, fs) /\ UNCHANGED <<version, draft>>
  BY <1>4 DEF ShowFindings
<1>. QED  BY <1>3, <1>5

(* Findings leave the focus in bounds.                                     *)
LEMMA FindingsKeepFocus ==
    ASSUME FocusInv, ApplyReport, UNCHANGED cursor
    PROVE  FocusInv'
<1>1. /\ version \in Versions /\ WellFormed(version, draft) /\ RowsInv(version, draft, rows)
      /\ TreeInv /\ InPlace(Shown(version, rows))
  BY DEF FocusInv, TreeInv
<1>2. TreeInv'
  BY <1>1, ApplyReportKeepsTree
<1>3. PICK fs : /\ rows' = WalkTowardEach(version, draft, rows, fs)
                /\ Len(fs) \in Nat /\ \A n \in 1..Len(fs) : Len(fs[n]) \in Nat
  BY <1>1, FindingsGrow
<1>4. UNCHANGED <<version, draft>>
  BY <1>1, FindingsGrow
<1>5. RowsInv(version, draft, rows') /\ DOMAIN rows \subseteq DOMAIN rows' /\ KeepsOpen(rows, rows')
  BY <1>1, <1>3, WalkTowardEachInv
<1>6. Shown(version, rows) \subseteq Shown(version, rows')
  BY <1>1, <1>5, ShownGrows
<1>7. IsFiniteSet(Shown(version, rows'))
  BY <1>1, <1>5, ShownPlaces
<1>8. InPlace(Shown(version, rows'))
  BY <1>1, <1>6, <1>7, GrownInPlace
<1>. QED  BY <1>2, <1>4, <1>8 DEF FocusInv, InPlace

(* A cursor that is clamped to the rows on screen, or put on one of them.  *)
LEMMA FocusedAnew ==
    ASSUME TreeInv', FocusInv, UNCHANGED version,
           \/ \E p : cursor' = FocusRow(Shown(version, rows'), p)
           \/ \E index \in Int : cursor' = FocusIndex(Shown(version, rows'), index)
           \/ \E p \in Shown(version, rows') : cursor' = Place(Shown(version, rows'), p)
    PROVE  FocusInv'
<1>1. version \in Versions /\ cursor \in Nat
  BY FocusBy DEF FocusInv, TreeInv
<1>2. WellFormed(version, draft') /\ RowsInv(version, draft', rows')
  BY DEF TreeInv
<1>. DEFINE S == Shown(version, rows')
<1>3. Cardinality(S) \in Nat /\ Cardinality(S) > 0 /\ \A p \in S : Place(S, p) \in 0..(Cardinality(S) - 1)
  BY <1>1, <1>2, ShownPlaces
<1>4. \A p : FocusRow(S, p) \in 0..(Cardinality(S) - 1)
  BY <1>1, <1>2, FocusRowBy
<1>5. \A index \in Int : FocusIndex(S, index) \in 0..(Cardinality(S) - 1)
  BY <1>3, FocusIndexBy
<1>6. cursor' \in 0..(Cardinality(S) - 1)
  BY <1>3, <1>4, <1>5
<1>. QED  BY <1>6 DEF FocusInv, InPlace

(* Each match of the search can be landed on.                              *)
LEMMA MatchedAreCandidates ==
    ASSUME NEW v \in Versions, NEW X, NEW filter \in Seq(X)
    PROVE  LET m == ComputeMatches(v, filter) IN \A i \in DOMAIN m : m[i] \in Candidates[v]
<1>1. CASE filter = <<>>
  <2>1. ComputeMatches(v, filter) = FieldPaths[v]
    BY <1>1 DEF ComputeMatches
  <2>2. ToSet(FieldPaths[v]) = Candidates[v]
    BY FieldPathsAreListed, ListedFacts
  <2>. QED  BY <2>1, <2>2 DEF ToSet
<1>2. CASE filter # <<>>
  BY <1>2, MatchesAreRanked
<1>. QED  BY <1>1, <1>2

-----------------------------------------------------------------------------
(* The unset confirm is about the focused row.                             *)

-----------------------------------------------------------------------------
(* The view.                                                               *)

(* What the unset confirm asks about is the focused row and what it holds. *)
UnsettingInv ==
    /\ overlay \in {"none", "search", "versions", "unset"}
    /\ IF overlay = "unset"
       THEN Focused \in Paths /\ unsetting = [path |-> Focused, count |-> DiscardCount(draft, Focused)]
       ELSE unsetting = Null

(* A list or a confirm opening over the tree leaves the focus where it is. *)
LEMMA OverTheTree ==
    ASSUME FocusInv, UnsettingInv, UNCHANGED <<treeVars, cursor>>
    PROVE  /\ FocusInv' /\ Focused' = Focused
           /\ UNCHANGED <<overlay, unsetting>> => UnsettingInv'
           /\ /\ overlay' \in {"none", "search", "versions"} /\ overlay # "unset"
              /\ unsetting' = unsetting
              => UnsettingInv'
<1>. USE DEF treeVars
<1>1. TreeInv'
  BY StutterKeepsTree DEF FocusInv, vars
<1>2. Shown(version, rows)' = Shown(version, rows)
  BY DEF Shown
<1>3. FocusInv'
  BY <1>1, <1>2 DEF FocusInv, InPlace
<1>4. Focused' = Focused
  BY <1>2 DEF Focused
<1>5. UNCHANGED <<overlay, unsetting>> => UnsettingInv'
  BY <1>4 DEF UnsettingInv
<1>6. overlay' \in {"none", "search", "versions"} /\ overlay # "unset" /\ unsetting' = unsetting
      => UnsettingInv'
  BY DEF UnsettingInv
<1>. QED  BY <1>3, <1>4, <1>5, <1>6

(* A key on the tree is not an answer.                                     *)
LEMMA NotAsking ==
    ASSUME UnsettingInv, OnTree
    PROVE  UnsettingInv' /\ overlay = "none"
BY DEF UnsettingInv, OnTree, Navigating

(* The steps of the surfaces that leave the tree and the focus.            *)
LEMMA SurfacesKeepView ==
    ASSUME FocusInv, UnsettingInv,
           \/ OpenSearch \/ TypeSearch \/ EraseSearch \/ EscapeSearch
           \/ \E delta \in {1, -1} : MoveSearch(delta) \/ MoveVersions(delta)
           \/ OpenVersionList \/ FilterVersions \/ LeaveVersions
    PROVE  FocusInv' /\ UnsettingInv'
<1>1. /\ UNCHANGED <<treeVars, cursor, unsetting>> /\ overlay # "unset"
      /\ overlay' \in {"none", "search", "versions"}
  BY DEF OpenSearch, TypeSearch, EraseSearch, EscapeSearch, SearchFor, MoveSearch, MoveVersions,
         OpenVersionList, FilterVersions, LeaveVersions, ListVersions, Navigating
<1>. QED  BY <1>1, OverTheTree

(* Moving the focus changes nothing else.                                  *)
LEMMA MoveKeepsView ==
    ASSUME FocusInv, UnsettingInv, OnTree, UNCHANGED treeVars,
           \/ \E p : cursor' = FocusRow(Shown(version, rows), p)
           \/ \E index \in Int : cursor' = FocusIndex(Shown(version, rows), index)
    PROVE  FocusInv' /\ UnsettingInv'
<1>1. TreeInv' /\ UNCHANGED <<version, rows>>
  BY StutterKeepsTree DEF FocusInv, vars, treeVars
<1>2. FocusInv'
  BY <1>1, FocusedAnew
<1>. QED  BY <1>2, NotAsking

(* The unset keeps the focus in bounds.                                    *)
LEMMA UnsetRowKeepsFocus ==
    ASSUME FocusInv, NEW p, UnsetRow(p)
    PROVE  FocusInv'
<1>1. PerformUnset(p) /\ UNCHANGED version
  BY DEF UnsetRow, PerformUnset, Mutated
<1>2. TreeInv'
  BY <1>1, PerformUnsetKeepsTree DEF FocusInv
<1>3. cursor \in Int
  BY FocusBy
<1>4. cursor' = FocusIndex(Shown(version, rows'), cursor)
  BY DEF UnsetRow
<1>. QED  BY <1>1, <1>2, <1>3, <1>4, FocusedAnew

(* Every step of the view keeps the focus on a row and the confirm on the  *)
(* focus.                                                                  *)
LEMMA ViewKeepsView ==
    ASSUME FocusInv, UnsettingInv, ListsInv, SearchInv, ViewStep
    PROVE  FocusInv' /\ UnsettingInv'
<1>. DEFINE shown == Shown(version, rows)
<1>1. /\ version \in Versions /\ WellFormed(version, draft) /\ RowsInv(version, draft, rows) /\ TreeInv
      /\ cursor \in Nat /\ Focused \in shown
      /\ Cardinality(shown) \in Nat
  BY FocusBy, ShownPlaces DEF FocusInv, TreeInv
<1>2. CASE \/ OpenSearch \/ TypeSearch \/ EraseSearch \/ EscapeSearch
           \/ \E delta \in {1, -1} : MoveSearch(delta) \/ MoveVersions(delta)
           \/ OpenVersionList \/ FilterVersions \/ LeaveVersions
  BY <1>2, SurfacesKeepView
<1>3. CASE SelectMatch
  <2>. DEFINE s == matched[search.cursor + 1]
              land == Landing(version, draft, rows, s)
  <2>1. /\ overlay = "search" /\ matched # <<>> /\ overlay' = "none" /\ unsetting' = unsetting
        /\ rows' = land.rows /\ UNCHANGED <<version, draft, missing, validation>>
        /\ cursor' = FocusRow(Shown(version, rows'), land.at)
    BY <1>3 DEF SelectMatch
  <2>2. s \in Candidates[version]
    <3>1. search.filter \in Seq(Letters) /\ matched = ComputeMatches(version, search.filter)
      BY <2>1 DEF ListsInv, Lists, SearchInv
    <3>2. /\ \A i \in DOMAIN matched : matched[i] \in Candidates[version]
          /\ Len(matched) \in Nat /\ DOMAIN matched = 1..Len(matched)
      BY <1>1, <3>1, MatchedAreCandidates, ComputeMatchesFacts
    <3>3. search.cursor + 1 \in DOMAIN matched
      BY <2>1, <3>2 DEF ListsInv, InView, Lists
    <3>. QED  BY <3>2, <3>3
  <2>. HIDE DEF s
  <2>3. Len(s) \in Nat
    BY <1>1, <2>2, TreeFacts DEF Candidates
  <2>4. RowsInv(version, draft, land.rows) /\ DOMAIN rows \subseteq DOMAIN land.rows
    BY <1>1, <2>3, LandingInv
  <2>. HIDE DEF land
  <2>5. TreeInv'
    BY <1>1, <2>1, <2>4, RowsGrow
  <2>6. FocusInv'
    BY <2>1, <2>5, FocusedAnew
  <2>. QED  BY <2>1, <2>6 DEF UnsettingInv
<1>4. CASE MoveFocus
  <2>1. PICK index \in {cursor + 1, cursor - 1, 0, Cardinality(shown) - 1} :
          cursor' = FocusIndex(shown, index)
    BY <1>4 DEF MoveFocus
  <2>2. index \in Int
    BY <1>1
  <2>3. OnTree /\ UNCHANGED treeVars
    BY <1>4 DEF MoveFocus
  <2>. HIDE DEF shown
  <2>. QED  BY <2>1, <2>2, <2>3, MoveKeepsView DEF shown
<1>5. CASE ExpandFocused
  <2>1. OnTree /\ ~IsSlot(Focused)
    BY <1>5 DEF ExpandFocused
  <2>2. CASE ToggleFocused(Focused) /\ UNCHANGED cursor
    BY <2>1, <2>2, ToggleKeepsFocus, NotAsking
  <2>3. CASE cursor' = FocusIndex(shown, cursor + 1) /\ UNCHANGED treeVars
    <3>1. cursor + 1 \in Int
      BY <1>1
    <3>. QED  BY <2>1, <2>3, <3>1, MoveKeepsView
  <2>. QED  BY <1>5, <2>2, <2>3 DEF ExpandFocused
<1>6. CASE CollapseFocused
  <2>1. OnTree
    BY <1>6 DEF CollapseFocused
  <2>2. CASE ~IsSlot(Focused) /\ ToggleFocused(Focused) /\ UNCHANGED cursor
    BY <2>1, <2>2, ToggleKeepsFocus, NotAsking
  <2>3. CASE cursor' = FocusRow(shown, Front(Focused)) /\ UNCHANGED treeVars
    BY <2>1, <2>3, MoveKeepsView
  <2>. QED  BY <1>6, <2>2, <2>3 DEF CollapseFocused
<1>7. CASE PressEnter
  <2>1. OnTree /\ ~IsSlot(Focused) /\ UNCHANGED cursor
    BY <1>7 DEF PressEnter
  <2>2. CASE ToggleFocused(Focused)
    BY <2>1, <2>2, ToggleKeepsFocus, NotAsking
  <2>3. CASE ConfirmEditor(Focused)
    <3>1. TreeInv' /\ UNCHANGED <<version, rows>>
      BY <1>1, <2>3, ConfirmEditorKeepsTree DEF ConfirmEditor, Mutated
    <3>2. FocusInv'
      BY <2>1, <3>1 DEF FocusInv, InPlace
    <3>. QED  BY <2>1, <3>2, NotAsking
  <2>. QED  BY <1>7, <2>2, <2>3 DEF PressEnter
<1>8. CASE PressAdd
  <2>1. OnTree /\ UNCHANGED version /\ \E p : cursor' = FocusRow(Shown(version, rows'), p)
    BY <1>8 DEF PressAdd, AppendToArray, ConfirmKeyPrompt, Mutated
  <2>2. TreeInv'
    BY <1>1, <1>8, AppendToArrayKeepsTree, ConfirmKeyPromptKeepsTree DEF PressAdd
  <2>. QED  BY <2>1, <2>2, FocusedAnew, NotAsking
<1>9. CASE PressUnset
  <2>1. overlay = "none" /\ ~IsSlot(Focused)
    BY <1>9 DEF PressUnset, Navigating
  <2>2. CASE UnsetRow(Focused) /\ UNCHANGED <<overlay, unsetting>>
    BY <2>1, <2>2, UnsetRowKeepsFocus DEF UnsettingInv
  <2>3. CASE /\ overlay' = "unset" /\ UNCHANGED <<treeVars, cursor>>
             /\ unsetting' = [path |-> Focused, count |-> DiscardCount(draft, Focused)]
    <3>1. FocusInv' /\ Focused' = Focused /\ draft' = draft
      BY <2>3, OverTheTree DEF treeVars
    <3>2. Focused \in Paths
      BY <2>1, FocusedRow
    <3>. QED  BY <2>3, <3>1, <3>2 DEF UnsettingInv
  <2>. QED  BY <1>9, <2>2, <2>3 DEF PressUnset
<1>10. CASE AnswerUnset
  <2>1. overlay' = "none" /\ unsetting' = Null
    BY <1>10 DEF AnswerUnset
  <2>2. CASE UnsetRow(unsetting.path)
    BY <2>1, <2>2, UnsetRowKeepsFocus DEF UnsettingInv
  <2>3. CASE UNCHANGED <<treeVars, cursor>>
    BY <2>1, <2>3, OverTheTree DEF UnsettingInv
  <2>. QED  BY <1>10, <2>2, <2>3 DEF AnswerUnset
<1>11. CASE FindingsLand
  BY <1>11, FindingsKeepFocus, NotAsking DEF FindingsLand
<1>12. CASE PressJumpToFinding
  <2>1. OnTree /\ UNCHANGED version /\ TreeInv' /\ \E p : cursor' = FocusRow(Shown(version, rows'), p)
    BY <1>1, <1>12, JumpToFindingKeepsTree DEF PressJumpToFinding, JumpToFinding
  <2>. QED  BY <2>1, FocusedAnew, NotAsking
<1>13. CASE SelectVersion
  <2>. DEFINE target == VersionMatches[versionList.cursor + 1]
              focus == NodePath(Focused)
              land == LandAfterSwitch(target, draft', OpenedRows(target, draft'), focus)
  <2>1. /\ overlay = "versions" /\ target \in Versions
        /\ version' = target /\ draft' = CarryOver(draft, target)
        /\ missing' = MissingRequired(target, draft') /\ validation' = Null
        /\ rows' = land.rows /\ cursor' = Place(Shown(target, rows'), land.at)
        /\ overlay' = "none" /\ unsetting' = unsetting
    BY <1>13 DEF SelectVersion, SwitchTo, SwitchLands
  <2>2. WellFormed(target, draft')
    BY <1>1, <2>1, CarryOverIsWellFormed
  <2>. HIDE DEF target, focus
  <2>3. RowsInv(target, draft', OpenedRows(target, draft'))
    BY <2>1, <2>2, OpenedRowsInv
  <2>4. RowsInv(target, draft', land.rows) /\ land.at \in DOMAIN land.rows /\ OnWay(land.rows, land.at)
    BY <2>1, <2>2, <2>3, LandAfterSwitchInv
  <2>. HIDE DEF land
  <2>5. TreeInv'
    BY <2>1, <2>2, <2>4 DEF TreeInv, OutcomeInv
  <2>6. land.at \in Shown(target, rows')
    <3>1. land.at \in Paths
      BY <2>4 DEF RowsInv, RowsMirror
    <3>. QED  BY <2>1, <2>4, <3>1, OnScreenBy
  <2>7. cursor' \in 0..(Cardinality(Shown(target, rows')) - 1)
    BY <2>1, <2>2, <2>4, <2>6, ShownPlaces
  <2>8. FocusInv'
    BY <2>1, <2>5, <2>7 DEF FocusInv, InPlace
  <2>. QED  BY <2>1, <2>8 DEF UnsettingInv
<1>. QED
  BY <1>2, <1>3, <1>4, <1>5, <1>6, <1>7, <1>8, <1>9, <1>10, <1>11, <1>12, <1>13 DEF ViewStep

-----------------------------------------------------------------------------
(* The view's invariant, and what of it is its type.                       *)

(* A view opens on a row.                                                  *)
LEMMA OpenComposeFocuses ==
    ASSUME OpenCompose
    PROVE  FocusInv' /\ UnsettingInv'
<1>. DEFINE v == Gvk(kind)
            land == LandAfterSwitch(v, EmptyDraft, OpenedRows(v, EmptyDraft), landing)
<1>1. /\ v \in Versions /\ version' = v /\ draft' = EmptyDraft
      /\ missing' = MissingRequired(v, EmptyDraft) /\ validation' = Null
      /\ rows' = land.rows /\ cursor' = Place(Shown(v, rows'), land.at)
      /\ overlay' = "none" /\ unsetting' = Null
  BY DEF OpenCompose, OpenView
<1>. HIDE DEF v
<1>2. WellFormed(v, EmptyDraft)
  BY <1>1, EmptyIsWellFormed
<1>3. RowsInv(v, EmptyDraft, OpenedRows(v, EmptyDraft))
  BY <1>1, <1>2, OpenedRowsInv
<1>4. RowsInv(v, EmptyDraft, land.rows) /\ land.at \in DOMAIN land.rows /\ OnWay(land.rows, land.at)
  BY <1>1, <1>2, <1>3, LandAfterSwitchInv
<1>. HIDE DEF land
<1>5. TreeInv'
  BY <1>1, <1>2, <1>4 DEF TreeInv, OutcomeInv
<1>6. land.at \in Shown(v, rows')
  <2>1. land.at \in Paths
    BY <1>4 DEF RowsInv, RowsMirror
  <2>. QED  BY <1>1, <1>4, <2>1, OnScreenBy
<1>7. cursor' \in 0..(Cardinality(Shown(v, rows')) - 1)
  BY <1>1, <1>2, <1>4, <1>6, ShownPlaces
<1>8. FocusInv'
  BY <1>1, <1>5, <1>7 DEF FocusInv, InPlace
<1>. QED  BY <1>1, <1>8 DEF UnsettingInv

(* Of an open view: the focus is a row on screen, and what an unset        *)
(* confirm asks about is that row and its number.                          *)
ViewInv == Composing => FocusInv /\ UnsettingInv

(* Nothing changes that it depends on.                                     *)
LEMMA ViewStays ==
    ASSUME ViewInv, UNCHANGED viewVars, Composing' => Composing
    PROVE  ViewInv'
BY OverTheTree DEF ViewInv, viewVars

(* Every step keeps it.                                                    *)
LEMMA ViewInvStep ==
    ASSUME ViewInv, SearchingInv, BrowseStep
    PROVE  ViewInv'
<1>. USE DEF Composing
<1>1. CASE stage' # "compose"
  BY <1>1 DEF ViewInv
<1>2. CASE Resize
  <2>1. UNCHANGED <<stage, viewVars>>
    BY <1>2 DEF Resize
  <2>. QED  BY <2>1, ViewStays
<1>3. CASE OpenCompose
  BY <1>3, OpenComposeFocuses DEF ViewInv
<1>4. CASE Compose
  <2>1. Composing /\ ViewStep
    BY <1>4 DEF Compose
  <2>2. FocusInv /\ UnsettingInv /\ ListsInv /\ SearchInv
    BY <2>1 DEF ViewInv, SearchingInv, OnScreenInv
  <2>. QED  BY <2>1, <2>2, ViewKeepsView DEF ViewInv
<1>5. CASE RefuseLaunch \/ Launch \/ TypePicker \/ ErasePicker \/ ClearPicker
            \/ (\E delta \in {1, -1} : MovePicker(delta))
            \/ SelectHighlighted \/ FailToOpen \/ ReturnToPicker \/ Quit
  <2>1. stage' # "compose"
    BY <1>5 DEF RefuseLaunch, Refuse, Launch, TypePicker, ErasePicker, ClearPicker, MovePicker,
                Pick, SelectHighlighted, FailToOpen, ReturnToPicker, Quit
  <2>. QED  BY <1>1, <2>1
<1>. QED  BY <1>2, <1>3, <1>4, <1>5 DEF BrowseStep

(* It holds for as long as the view is open: neither a lazily grown row, a *)
(* fold, a removal that renumbers nor a version switch leaves the focus    *)
(* past the rows (focusRow, focusIndex).                                   *)
THEOREM ViewTheorem == BrowseSpec => []ViewInv
<1>1. BrowseInit => ViewInv
  BY DEF BrowseInit, ViewInv, Composing
<1>2. ViewInv /\ SearchingInv /\ [BrowseNext]_browseVars => ViewInv'
  <2>. SUFFICES ASSUME ViewInv, SearchingInv, [BrowseNext]_browseVars PROVE ViewInv'
    OBVIOUS
  <2>1. CASE BrowseNext
    BY <2>1, ViewInvStep DEF BrowseNext
  <2>2. CASE UNCHANGED browseVars
    <3>1. UNCHANGED <<stage, viewVars>>
      BY <2>2 DEF browseVars
    <3>. QED  BY <3>1, ViewStays DEF Composing
  <2>. QED  BY <2>1, <2>2
<1>. QED  BY <1>1, <1>2, SearchingTheorem, PTL DEF BrowseSpec

(* What a Draft holds can be counted.                                      *)
LEMMA FilledIsFinite ==
    ASSUME NEW v, NEW d, IsDraft(v, d), NEW p
    PROVE  /\ IsFiniteSet(FilledPaths(d)) /\ Cardinality(FilledPaths(d)) \in Nat
           /\ IsFiniteSet(FilledBeneath(d, p)) /\ DiscardCount(d, p) \in Nat
<1>1. IsFiniteSet(DOMAIN d) /\ FilledPaths(d) \in SUBSET DOMAIN d /\ FilledBeneath(d, p) \in SUBSET FilledPaths(d)
  BY DEF IsDraft, FilledPaths, FilledBeneath
<1>. QED  BY <1>1, FS_Subset, FS_CardinalityType DEF DiscardCount

(* Every variable keeps its shape, the focus is one of the rows on screen, *)
(* and a confirm is open exactly when there is something to confirm        *)
(* (picker.go, search.go, compose.go).                                     *)
THEOREM BrowseTypeTheorem == BrowseSpec => []BrowseTypeOK
<1>1. SearchingInv /\ ViewInv => BrowseTypeOK
  <2>. SUFFICES ASSUME SearchingInv, ViewInv PROVE BrowseTypeOK
    OBVIOUS
  <2>1. LaunchInv /\ KindInv
    BY DEF SearchingInv, OnScreenInv
  <2>2. ASSUME Composing
        PROVE  /\ TypeOK /\ version = Gvk(kind)
               /\ cursor \in 0..(Cardinality(Shown(version, rows)) - 1)
               /\ overlay \in {"none", "search", "versions", "unset"}
               /\ (overlay = "unset") = (unsetting # Null)
    <3>1. TreeInv /\ cursor \in 0..(Cardinality(Shown(version, rows)) - 1) /\ UnsettingInv
      BY <2>2 DEF ViewInv, FocusInv, InPlace
    <3>2. TypeOK
      BY <3>1, TreeIsTyped
    <3>3. overlay = "unset" => unsetting # Null
      <4>1. DiscardCount(draft, Focused) \in Nat
        BY <3>1, FilledIsFinite DEF TreeInv, WellFormed
      <4>2. overlay = "unset" => unsetting \in [path : Paths, count : Nat]
        BY <3>1, <4>1 DEF UnsettingInv
      <4>. QED  BY <4>2, ComposeViewAssumption
    <3>4. overlay # "unset" => unsetting = Null
      BY <3>1 DEF UnsettingInv
    <3>5. version = Gvk(kind)
      BY <2>1, <2>2 DEF KindInv
    <3>. QED  BY <3>1, <3>2, <3>3, <3>4, <3>5 DEF UnsettingInv
  <2>3. ~Composing => NoView
    BY <2>1 DEF KindInv
  <2>4. stage \in Stages /\ ((stage = "refused") = (refusal # Nothing))
    BY <2>1 DEF LaunchInv
  <2>5. stage \in {"opening", "failed", "compose"} => kind \in ToSet(kinds)
    BY <2>1 DEF KindInv
  <2>. QED  BY <2>2, <2>3, <2>4, <2>5 DEF BrowseTypeOK, Stages
<1>. QED  BY <1>1, SearchingTheorem, ViewTheorem, PTL

-----------------------------------------------------------------------------
(* What leaves the Draft was asked about.                                  *)

-----------------------------------------------------------------------------
(* What `d` takes away.                                                    *)

(* An Unset takes what the position holds, and nothing else.               *)
LEMMA UnsetTakes ==
    ASSUME NEW v \in Versions, NEW d, WellFormed(v, d), NEW p \in DOMAIN d
    PROVE  Cardinality(FilledPaths(d)) - Cardinality(FilledPaths(Unset(d, p))) = DiscardCount(d, p)
<1>. DEFINE e == Unset(d, p)
            F == FilledPaths(d)
            G == FilledBeneath(d, p)
            R == F \ G
            T == FilledPaths(e)
            f == [q \in R |-> Renumbered(p, q)]
<1>1. IsDraft(v, d) /\ p \in Paths \ {<<>>}
  BY DEF WellFormed, IsDraft
<1>2. /\ DOMAIN e = Moved(d, p) \ Hollow(p, Moved(d, p))
      /\ \A q \in Kept(d, p) : Renumbered(p, q) \in DOMAIN e => e[Renumbered(p, q)] = d[q]
      /\ \A r \in DOMAIN e : \E q \in Kept(d, p) : r = Renumbered(p, q)
  <2>. HIDE DEF F, G, R, T, f
  <2>1. /\ DOMAIN Unset(d, p) = Moved(d, p) \ Hollow(p, Moved(d, p))
        /\ \A q \in Kept(d, p) : Renumbered(p, q) \in DOMAIN Unset(d, p) => Unset(d, p)[Renumbered(p, q)] = d[q]
        /\ \A r \in DOMAIN Unset(d, p) : \E q \in Kept(d, p) : r = Renumbered(p, q)
    <3>1. IsDraft(v, d)
      BY <1>1
    <3>. HIDE DEF e
    <3>. QED  BY Zenon, <3>1, UnsetBy
  <2>. QED  BY <2>1
<1>3. /\ \A q \in R : q \in Kept(d, p) /\ d[q] # Null /\ q \in FilledPaths(d)
      /\ \A q \in Kept(d, p) : d[q] # Null => q \in R
  BY DEF FilledPaths, FilledBeneath, Kept
<1>4. /\ \A q \in Kept(d, p) : q \in Paths /\ ~IsAtOrBeneath(q, p) /\ q \in DOMAIN d
      /\ Hollow(p, Moved(d, p)) \subseteq Along(Front(p))
      /\ \A a \in Along(Front(p)) : a \in Kept(d, p) /\ Renumbered(p, a) = a
  BY <1>1, MovedFacts DEF Kept
<1>. HIDE DEF R, e
<1>5. ASSUME NEW q \in R
      PROVE  Renumbered(p, q) \in DOMAIN e
  <2>1. q \in Kept(d, p) /\ d[q] # Null
    BY <1>3
  <2>2. Renumbered(p, q) \in Moved(d, p)
    BY <2>1 DEF Moved
  <2>3. ASSUME Renumbered(p, q) \in Hollow(p, Moved(d, p)) PROVE FALSE
    <3>. DEFINE a == Renumbered(p, q)
    <3>1. a \in Along(Front(p)) /\ a \in Kept(d, p) /\ Renumbered(p, a) = a
      BY <1>4, <2>3
    <3>2. q = a
      BY <1>1, <1>4, <2>1, <3>1, RenumberedApart
    <3>. HIDE DEF a
    <3>3. IsAtOrBeneath(p, a) /\ a \in DOMAIN d
      <4>1. p \in Seq(Segments) /\ Along(p) = Along(Front(p)) \cup {p}
        BY <1>1, AlongIsStarts DEF Paths
      <4>2. a \in Along(p)
        BY <3>1, <4>1
      <4>. QED  BY <1>1, <1>4, <3>1, <4>2, AlongPosition
    <3>4. p = a
      BY <1>1, <1>3, <3>2, <3>3, FilledIsLeaf
    <3>. QED  BY <1>4, <3>1, <3>3, <3>4
  <2>. QED  BY <1>2, <2>2, <2>3
<1>6. f \in [R -> T]
  <2>1. \A q \in R : Renumbered(p, q) \in T
    BY <1>2, <1>3, <1>5 DEF FilledPaths
  <2>. HIDE DEF T
  <2>. QED  BY <2>1
<1>7. \A q, r \in R : f[q] = f[r] => q = r
  <2>1. \A q, r \in R : Renumbered(p, q) = Renumbered(p, r) => q = r
    BY <1>1, <1>3, <1>4, RenumberedApart
  <2>. QED  BY <2>1
<1>8. \A t \in T : \E q \in R : f[q] = t
  <2>. SUFFICES ASSUME NEW t \in T PROVE \E q \in R : f[q] = t
    OBVIOUS
  <2>1. t \in DOMAIN e /\ e[t] # Null
    BY DEF FilledPaths
  <2>2. PICK q \in Kept(d, p) : t = Renumbered(p, q)
    BY <1>2, <2>1
  <2>3. q \in R
    BY <1>2, <1>3, <2>1, <2>2
  <2>. QED  BY <2>2, <2>3
<1>. HIDE DEF f
<1>9. f \in Bijection(R, T)
  BY <1>6, <1>7, <1>8 DEF Bijection, Injection, Surjection, IsInjective
<1>10. IsFiniteSet(F) /\ IsFiniteSet(G) /\ Cardinality(F) \in Nat /\ Cardinality(G) \in Nat
       /\ DiscardCount(d, p) = Cardinality(G)
  BY <1>1, FilledIsFinite, FS_CardinalityType DEF DiscardCount
<1>11. F \cap G = G
  BY DEF FilledBeneath
<1>. HIDE DEF F, G
<1>12. IsFiniteSet(R) /\ Cardinality(R) = Cardinality(F) - Cardinality(G)
  BY <1>10, <1>11, FS_Difference DEF R
<1>13. Cardinality(T) = Cardinality(R)
  BY <1>9, <1>12, FS_Bijection DEF ExistsBijection
<1>. QED  BY <1>10, <1>12, <1>13 DEF F, e

(* What is entered takes nothing away.                                     *)
LEMMA NothingLost ==
    ASSUME NEW v, NEW d, IsDraft(v, d), NEW w, NEW e, IsDraft(w, e),
           \A q \in DOMAIN d : d[q] # Null => q \in DOMAIN e /\ e[q] # Null
    PROVE  ~(Cardinality(FilledPaths(d)) - Cardinality(FilledPaths(e)) > 0)
<1>1. FilledPaths(d) \in SUBSET FilledPaths(e)
  BY DEF FilledPaths
<1>2. IsFiniteSet(FilledPaths(e)) /\ Cardinality(FilledPaths(e)) \in Nat /\ Cardinality(FilledPaths(d)) \in Nat
  BY FilledIsFinite
<1>3. Cardinality(FilledPaths(d)) <= Cardinality(FilledPaths(e))
  BY <1>1, <1>2, FS_Subset
<1>. QED  BY <1>2, <1>3

(* Materializing a position takes nothing away.                            *)
LEMMA MaterializeKeepsFilled ==
    ASSUME NEW d, NEW p
    PROVE  \A q \in DOMAIN d : q \in DOMAIN Materialize(d, p) /\ Materialize(d, p)[q] = d[q]
BY DEF Materialize

(* Neither does setting one.                                               *)
LEMMA SetKeepsFilled ==
    ASSUME NEW v \in Versions, NEW d, NEW p, Resolves(v, p), NEW x \in Admissible(v, p)
    PROVE  \A q \in DOMAIN d : d[q] # Null => q \in DOMAIN Set(v, d, p, x) /\ Set(v, d, p, x)[q] # Null
<1>. DEFINE y == [type |-> TypeAt(v, p), data |-> x]
            m == Materialize(d, p)
<1>1. x \in Data
  BY DEF Admissible, Fitting
<1>2. TypeAt(v, p) \in Types
  BY TreeFacts DEF Resolves, TypeAt
<1>3. y \in Values
  BY <1>1, <1>2 DEF Values
<1>4. y # Null
  BY <1>3, DraftAssumption
<1>5. Set(v, d, p, x) = [m EXCEPT ![p] = y]
  BY DEF Set
<1>. HIDE DEF y
<1>6. \A q \in DOMAIN d : q \in DOMAIN m /\ m[q] = d[q]
  BY MaterializeKeepsFilled
<1>. HIDE DEF m
<1>. QED  BY <1>4, <1>5, <1>6

(* A key takes values away only by an Unset of the row it is about.        *)
LEMMA OnlyUnsetTakes ==
    ASSUME FocusInv, UnsettingInv, ListsInv, SearchInv, ViewStep, version' = version,
           Cardinality(FilledPaths(draft)) - Cardinality(FilledPaths(draft')) > 0
    PROVE  \/ /\ overlay = "unset" /\ unsetting.path = Focused /\ Focused \in DOMAIN draft
              /\ draft' = Unset(draft, Focused)
           \/ /\ Focused \in DOMAIN draft /\ UnsetsAtOnce(Focused)
              /\ draft' = Unset(draft, Focused)
<1>1. /\ version \in Versions /\ WellFormed(version, draft) /\ TreeInv
  BY DEF FocusInv, TreeInv
<1>2. WellFormed(version, draft')
  <2>1. TreeInv'
    BY ViewKeepsView DEF FocusInv
  <2>. QED  BY <2>1 DEF TreeInv
<1>3. IsDraft(version, draft) /\ IsDraft(version, draft')
  BY <1>1, <1>2 DEF WellFormed
<1>4. ~(\A q \in DOMAIN draft : draft[q] # Null => q \in DOMAIN draft' /\ draft'[q] # Null)
  <2>. SUFFICES ASSUME \A q \in DOMAIN draft : draft[q] # Null => q \in DOMAIN draft' /\ draft'[q] # Null
                PROVE  FALSE
    OBVIOUS
  <2>1. ~(Cardinality(FilledPaths(draft)) - Cardinality(FilledPaths(draft')) > 0)
    BY <1>3, NothingLost
  <2>. QED  BY <2>1
<1>5. CASE UNCHANGED draft
  BY <1>4, <1>5
<1>6. CASE \/ OpenSearch \/ TypeSearch \/ EraseSearch \/ EscapeSearch \/ SelectMatch
           \/ \E delta \in {1, -1} : MoveSearch(delta) \/ MoveVersions(delta)
           \/ OpenVersionList \/ FilterVersions \/ LeaveVersions
           \/ MoveFocus \/ ExpandFocused \/ CollapseFocused \/ FindingsLand \/ PressJumpToFinding
  <2>1. draft' = draft
    BY <1>6 DEF OpenSearch, TypeSearch, EraseSearch, EscapeSearch, SearchFor, SelectMatch, MoveSearch,
                MoveVersions, OpenVersionList, FilterVersions, LeaveVersions, ListVersions, MoveFocus,
                ExpandFocused, CollapseFocused, FindingsLand, PressJumpToFinding, ToggleFocused,
                ApplyReport, ShowFindings, JumpToFinding, treeVars
  <2>. QED  BY <1>5, <2>1
<1>7. CASE PressEnter
  <2>1. CASE ToggleFocused(Focused)
    BY <1>5, <2>1 DEF ToggleFocused
  <2>2. CASE ConfirmEditor(Focused)
    <3>1. PICK x \in Admissible(version, Focused) : draft' = Set(version, draft, Focused, x)
      BY <2>2 DEF ConfirmEditor
    <3>2. Resolves(version, Focused)
      <4>1. Focused \in DOMAIN rows
        BY <2>2 DEF ConfirmEditor, Visible
      <4>. QED  BY <1>1, <4>1, RowsResolve DEF TreeInv, RowsInv
    <3>. QED  BY <1>1, <1>4, <3>1, <3>2, SetKeepsFilled
  <2>. QED  BY <1>7, <2>1, <2>2 DEF PressEnter
<1>8. CASE PressAdd
  <2>1. \E p : draft' = Materialize(draft, p)
    BY <1>8 DEF PressAdd, AppendToArray, ConfirmKeyPrompt, AppendItem, AddKey
  <2>. QED  BY <1>4, <2>1, MaterializeKeepsFilled
<1>9. CASE PressUnset
  <2>1. CASE UNCHANGED treeVars
    BY <1>5, <2>1 DEF treeVars
  <2>2. CASE UnsetsAtOnce(Focused) /\ UnsetRow(Focused) /\ Holds(draft, Focused)
    BY <2>2 DEF UnsetRow, PerformUnset, Holds
  <2>. QED  BY <1>9, <2>1, <2>2 DEF PressUnset
<1>10. CASE AnswerUnset
  <2>1. CASE UNCHANGED treeVars
    BY <1>5, <2>1 DEF treeVars
  <2>2. CASE UnsetRow(unsetting.path)
    <3>1. overlay = "unset" /\ unsetting.path = Focused
      BY <1>10 DEF AnswerUnset, UnsettingInv
    <3>. QED  BY <2>2, <3>1 DEF UnsetRow, PerformUnset, Holds
  <2>. QED  BY <1>10, <2>1, <2>2 DEF AnswerUnset
<1>11. CASE SelectVersion
  <2>. DEFINE target == VersionMatches[versionList.cursor + 1]
  <2>1. version' = target /\ VersionMatches # <<>>
    BY <1>11 DEF SelectVersion, SwitchTo
  <2>2. /\ Len(VersionMatches) \in Nat /\ DOMAIN VersionMatches = 1..Len(VersionMatches)
        /\ \A n \in DOMAIN VersionMatches : VersionMatches[n] # version
        /\ Len(VersionMatches) = 0 => VersionMatches = <<>>
    BY VersionMatchesFacts DEF ListsInv
  <2>3. versionList.cursor + 1 \in DOMAIN VersionMatches
    BY <2>1, <2>2 DEF ListsInv, InView, Lists
  <2>4. target # version
    BY <2>2, <2>3
  <2>. QED  BY <2>1, <2>4
<1>. QED
  BY <1>6, <1>7, <1>8, <1>9, <1>10, <1>11 DEF ViewStep

(* So no step of the program does, unasked.                                *)
LEMMA NotSilently ==
    ASSUME ViewInv, SearchingInv, BrowseStep, Composing, version' = version,
           Cardinality(FilledPaths(draft)) - Cardinality(FilledPaths(draft')) > 0
    PROVE  LET lost == Cardinality(FilledPaths(draft)) - Cardinality(FilledPaths(draft')) IN
           \/ overlay = "unset" /\ unsetting = [path |-> Focused, count |-> lost]
           \/ /\ lost = 1 /\ Focused \in FilledPaths(draft)
              /\ draft[Focused].type # "raw-YAML"
<1>. DEFINE lost == Cardinality(FilledPaths(draft)) - Cardinality(FilledPaths(draft'))
<1>1. FocusInv /\ UnsettingInv /\ ListsInv /\ SearchInv /\ version \in Versions /\ WellFormed(version, draft)
  BY DEF ViewInv, SearchingInv, OnScreenInv, FocusInv, TreeInv
<1>2. ViewStep
  <2>1. draft' # draft
    <3>1. ASSUME draft' = draft PROVE FALSE
      <4>1. Cardinality(FilledPaths(draft)) \in Nat
        BY <1>1, FilledIsFinite DEF WellFormed
      <4>2. Cardinality(FilledPaths(draft')) = Cardinality(FilledPaths(draft))
        BY <3>1
      <4>. QED  BY <4>1, <4>2
    <3>. QED  BY <3>1
  <2>2. version' # Null
    BY <1>1, ComposeViewAssumption
  <2>3. CASE ReturnToPicker \/ Quit
    BY <2>2, <2>3 DEF ReturnToPicker, Quit, CloseView
  <2>4. CASE Resize
    BY <2>1, <2>4 DEF Resize, viewVars, treeVars
  <2>5. CASE Compose
    BY <2>5 DEF Compose
  <2>6. CASE RefuseLaunch \/ Launch \/ TypePicker \/ ErasePicker \/ ClearPicker
             \/ (\E delta \in {1, -1} : MovePicker(delta))
             \/ SelectHighlighted \/ OpenCompose \/ FailToOpen
    BY <2>6 DEF RefuseLaunch, Launch, TypePicker, ErasePicker, ClearPicker, MovePicker,
                Pick, SelectHighlighted, OpenCompose, FailToOpen, Composing
  <2>. QED  BY <2>3, <2>4, <2>5, <2>6 DEF BrowseStep
<1>3. /\ Focused \in DOMAIN draft /\ draft' = Unset(draft, Focused)
      /\ overlay = "unset" \/ UnsetsAtOnce(Focused)
  BY <1>1, <1>2, OnlyUnsetTakes
<1>4. lost = DiscardCount(draft, Focused)
  BY <1>1, <1>3, UnsetTakes
<1>. HIDE DEF lost
<1>5. CASE overlay = "unset"
  BY <1>1, <1>4, <1>5 DEF UnsettingInv, lost
<1>6. CASE UnsetsAtOnce(Focused)
  <2>1. lost > 0
    BY DEF lost
  <2>2. lost = 1 /\ draft[Focused] # Null /\ draft[Focused].type # "raw-YAML"
    BY <1>4, <1>6, <2>1 DEF UnsetsAtOnce
  <2>. QED  BY <1>3, <2>2 DEF FilledPaths, lost
<1>. QED  BY <1>3, <1>5, <1>6

(* `d` takes at most the row's own scalar away without asking, and what a  *)
(* confirm takes is what it asked about, by its number (pressUnset,        *)
(* updateUnsetConfirm).                                                    *)
THEOREM SilentUnsetTheorem == BrowseSpec => NoSilentUnset
<1>. DEFINE A == Composing /\ version' = version =>
                   LET lost == Cardinality(FilledPaths(draft)) - Cardinality(FilledPaths(draft')) IN
                   lost > 0 =>
                       \/ overlay = "unset" /\ unsetting = [path |-> Focused, count |-> lost]
                       \/ /\ lost = 1 /\ Focused \in FilledPaths(draft)
                          /\ draft[Focused].type # "raw-YAML"
<1>1. ViewInv /\ SearchingInv /\ [BrowseNext]_browseVars => [A]_browseVars
  <2>. SUFFICES ASSUME ViewInv, SearchingInv, BrowseNext PROVE A
    OBVIOUS
  <2>. QED  BY NotSilently DEF BrowseNext
<1>2. NoSilentUnset <=> [][A]_browseVars
  BY DEF NoSilentUnset
<1>. HIDE DEF A
<1>. QED  BY <1>1, <1>2, SearchingTheorem, ViewTheorem, PTL DEF BrowseSpec

-----------------------------------------------------------------------------
(* What is above a row stays in place while the tree grows beneath it.     *)

(* What starts a path above p is itself above p.                           *)
LEMMA StartsAbove ==
    ASSUME NEW p \in Seq(Screened), NEW q \in Seq(Screened), Above(q, p), NEW n \in 0..Len(q)
    PROVE  Above(SubSeq(q, 1, n), p)
<1>. DEFINE o == SubSeq(q, 1, n)
<1>1. Before(EarlierPairs, q, p)
  BY AboveBy
<1>2. /\ o \in Seq(Screened) /\ Len(o) = n /\ \A m \in 1..n : o[m] = q[m]
      /\ Len(q) \in Nat /\ Len(p) \in Nat /\ n \in Nat /\ n <= Len(q)
  BY Start
<1>. HIDE DEF o
<1>3. CASE Strictly(p, q)
  <2>1. Len(q) <= Len(p) /\ (\A m \in 1..Len(q) : p[m] = q[m]) /\ p # q
    BY <1>3 DEF Strictly, IsAtOrBeneath
  <2>2. Len(q) < Len(p)
    BY <1>2, <2>1
  <2>3. IsAtOrBeneath(p, o) /\ o # p
    BY <1>2, <2>1, <2>2 DEF IsAtOrBeneath
  <2>. QED  BY <1>2, <2>3, AboveBy DEF Before, Strictly, o
<1>4. CASE Parts(EarlierPairs, q, p)
  <2>1. PICK k \in Nat : Fork(q, p, k) /\ <<q[k], p[k]>> \in EarlierPairs
    BY <1>4 DEF Parts
  <2>2. k \in 1..Len(q) /\ k \in 1..Len(p) /\ (\A m \in 1..(k - 1) : q[m] = p[m]) /\ q[k] # p[k]
    BY <2>1 DEF Fork
  <2>3. CASE k <= n
    <3>1. k \in 1..n /\ \A m \in 1..(k - 1) : m \in 1..n
      BY <1>2, <2>2, <2>3
    <3>2. k \in 1..Len(o) /\ o[k] = q[k] /\ \A m \in 1..(k - 1) : o[m] = p[m]
      BY <1>2, <2>2, <3>1
    <3>3. Fork(o, p, k) /\ <<o[k], p[k]>> \in EarlierPairs
      BY <2>1, <2>2, <3>2 DEF Fork
    <3>. QED  BY <1>2, <3>3, AboveBy DEF Before, Parts, o
  <2>4. CASE k > n
    <3>1. IsAtOrBeneath(p, o) /\ o # p
      BY <1>2, <2>2, <2>4 DEF IsAtOrBeneath
    <3>. QED  BY <1>2, <3>1, AboveBy DEF Before, Strictly, o
  <2>. QED  BY <1>2, <2>2, <2>3, <2>4
<1>. QED  BY <1>1, <1>3, <1>4 DEF Before

(* Where every row above p stays and none of them folds, all that was on   *)
(* screen above p stays there.                                             *)
LEMMA AboveStays ==
    ASSUME NEW v \in Versions, NEW d, NEW r, RowsInv(v, d, r), NEW m, NEW p \in Seq(Screened),
           \A o \in Seen(r) : Above(o, p) => o \in DOMAIN m /\ (r[o].expanded => m[o].expanded)
    PROVE  \A q \in Shown(v, r) : Above(q, p) => q \in Shown(v, m)
<1>1. ASSUME NEW q \in Seen(r), Above(q, p) PROVE q \in Seen(m) /\ (r[q].expanded => m[q].expanded)
  <2>1. q \in DOMAIN r /\ OnWay(r, q) /\ q \in Paths /\ \A n \in 0..Len(q) : SubSeq(q, 1, n) \in DOMAIN r
    BY RowsResolve, RowsAnchor DEF Seen, RowsInv
  <2>2. q \in Seq(Screened) /\ Len(q) \in Nat
    BY <2>1 DEF Paths, Screened
  <2>3. ASSUME NEW n \in 0..(Len(q) - 1) PROVE m[SubSeq(q, 1, n)].expanded
    <3>. DEFINE o == SubSeq(q, 1, n)
    <3>1. n \in 0..Len(q)
      BY <2>2
    <3>2. o \in DOMAIN r /\ r[o].expanded /\ Above(o, p)
      BY <1>1, <2>1, <2>2, <3>1, StartsAbove DEF OnWay
    <3>3. OnWay(r, o)
      <4>. SUFFICES ASSUME NEW k \in 0..(Len(o) - 1) PROVE r[SubSeq(o, 1, k)].expanded
        BY DEF OnWay
      <4>1. Len(o) = n
        BY <2>2, <3>1, Start
      <4>2. k \in 0..n /\ k \in 0..(Len(q) - 1)
        BY <3>1, <4>1
      <4>3. SubSeq(o, 1, k) = SubSeq(q, 1, k)
        BY <2>2, <3>1, <4>2, StartOfStart
      <4>. QED  BY <2>1, <4>2, <4>3 DEF OnWay
    <3>4. o \in Seen(r)
      BY <3>2, <3>3 DEF Seen
    <3>. HIDE DEF o
    <3>5. m[o].expanded
      BY <3>2, <3>4
    <3>. QED  BY <3>5 DEF o
  <2>. QED  BY <1>1, <2>3 DEF Seen, OnWay
<1>2. ASSUME NEW o \in Open(v, r), Above(Append(o, Slot), p) PROVE o \in Open(v, m)
  <2>. DEFINE z == Append(o, Slot)
  <2>1. o \in Seen(r) /\ o \in Paths /\ r[o].expanded /\ TypeAt(v, o) \in {"array", "map"}
    BY DEF Open, Seen, RowsInv, RowsMirror
  <2>2. z \in Seq(Screened) /\ Len(z) = Len(o) + 1 /\ Len(o) \in Nat /\ SubSeq(z, 1, Len(o)) = SubSeq(o, 1, Len(o))
    BY <2>1, SlotRow
  <2>3. SubSeq(o, 1, Len(o)) = o
    BY <2>1 DEF Paths
  <2>4. Len(o) \in 0..Len(z)
    BY <2>2
  <2>. HIDE DEF z
  <2>5. Above(SubSeq(z, 1, Len(o)), p)
    BY <1>2, <2>2, <2>4, StartsAbove DEF z
  <2>6. Above(o, p)
    BY <2>2, <2>3, <2>5
  <2>. QED  BY <1>1, <2>1, <2>6 DEF Open
<1>. QED  BY <1>1, <1>2, ShownBy

(* A row seen now whose ancestors were there, and as far open, was there:  *)
(* what was on screen had already been loaded (expandRow).                 *)
LEMMA NothingNew ==
    ASSUME NEW v \in Versions, NEW d, NEW r, RowsInv(v, d, r), NEW m, RowsInv(v, d, m),
           NEW q \in Seen(m),
           \A n \in 0..(Len(q) - 1) : LET o == SubSeq(q, 1, n) IN
               o \in DOMAIN r /\ m[o].expanded => r[o].expanded
    PROVE  q \in Seen(r)
<1>1. q \in DOMAIN m /\ OnWay(m, q) /\ q \in Paths /\ \A n \in 0..Len(q) : SubSeq(q, 1, n) \in DOMAIN m
  BY RowsResolve, RowsAnchor DEF Seen, RowsInv
<1>2. Len(q) \in Nat /\ SubSeq(q, 1, Len(q)) = q /\ SubSeq(q, 1, 0) = <<>>
  BY <1>1 DEF Paths
<1>3. /\ <<>> \in DOMAIN r /\ r[<<>>].loaded /\ \A o \in DOMAIN r : LooksAhead(r, o)
      /\ \A o \in Paths \ {<<>>} :
           o \in DOMAIN r <=> Front(o) \in DOMAIN r /\ r[Front(o)].loaded /\ Addressed(v, d, o)
      /\ \A o \in DOMAIN m \cap (Paths \ {<<>>}) : Addressed(v, d, o)
  BY DEF RowsInv, RowsMirror
<1>. DEFINE T == {n \in Nat : n <= Len(q) /\ SubSeq(q, 1, n) \notin DOMAIN r}
<1>4. ASSUME T # {} PROVE FALSE
  <2>1. PICK n \in T : \A k \in T : n <= k
    <3>1. T \in SUBSET Nat
      OBVIOUS
    <3>. HIDE DEF T
    <3>. QED  BY <1>4, <3>1, LeastNumber
  <2>2. n \in Nat /\ n <= Len(q) /\ SubSeq(q, 1, n) \notin DOMAIN r /\ n # 0
        /\ \A k \in 0..(n - 1) : SubSeq(q, 1, k) \in DOMAIN r
    <3>1. n \in Nat /\ n <= Len(q) /\ SubSeq(q, 1, n) \notin DOMAIN r
      BY <2>1
    <3>2. n # 0
      BY <1>2, <1>3, <3>1
    <3>3. ASSUME NEW k \in 0..(n - 1) PROVE SubSeq(q, 1, k) \in DOMAIN r
      <4>1. k \in Nat /\ k <= Len(q) /\ ~(n <= k)
        BY <1>2, <3>1
      <4>2. k \notin T
        BY <2>1, <4>1
      <4>. QED  BY <4>1, <4>2
    <3>. QED  BY <3>1, <3>2, <3>3
  <2>. DEFINE g == SubSeq(q, 1, n)
              f == SubSeq(q, 1, n - 1)
  <2>3. /\ g \in Paths \ {<<>>} /\ g \in DOMAIN m /\ g \notin DOMAIN r /\ f \in DOMAIN r /\ Front(g) = f
    <3>1. n \in 0..Len(q) /\ n - 1 \in 0..n /\ n - 1 \in 0..(n - 1)
      BY <1>2, <2>2
    <3>2. /\ g \in Seq(Segments) /\ Len(g) = n /\ (g = <<>> <=> n = 0)
      BY <1>1, <3>1, Start DEF Paths
    <3>3. SubSeq(g, 1, n - 1) = f
      BY <1>1, <3>1, StartOfStart DEF Paths
    <3>4. Front(g) = SubSeq(g, 1, Len(g) - 1)
      BY <2>2, <3>2, FrontLast
    <3>. QED  BY <1>1, <2>2, <3>1, <3>2, <3>3, <3>4 DEF Paths
  <2>4. r[f].loaded
    <3>1. CASE n = 1
      <4>1. n - 1 = 0
        BY <3>1
      <4>2. f = <<>>
        BY <1>2, <4>1
      <4>. QED  BY <1>3, <4>2
    <3>2. CASE n # 1
      <4>1. n - 2 \in 0..(n - 1) /\ n - 2 \in 0..(Len(q) - 1) /\ n - 2 \in Nat /\ n - 1 \in 0..Len(q) /\ n - 1 \in Nat
            /\ n - 2 \in 0..(n - 1)
        BY <1>2, <2>2, <3>2
      <4>. DEFINE h == SubSeq(q, 1, n - 2)
      <4>2. h \in DOMAIN r /\ m[h].expanded
        BY <1>1, <2>2, <4>1 DEF OnWay
      <4>3. r[h].expanded
        BY <4>1, <4>2
      <4>4. Front(f) = h /\ f # <<>>
        <5>1. /\ f \in Seq(Segments) /\ Len(f) = n - 1 /\ (f = <<>> <=> n - 1 = 0)
          BY <1>1, <4>1, Start DEF Paths
        <5>2. SubSeq(f, 1, n - 2) = h
          BY <1>1, <4>1, StartOfStart DEF Paths
        <5>3. f # <<>> /\ Len(f) - 1 = n - 2
          BY <2>2, <3>2, <5>1
        <5>. HIDE DEF f
        <5>4. Front(f) = SubSeq(f, 1, Len(f) - 1)
          BY <5>1, <5>3, FrontLast
        <5>. QED  BY <5>2, <5>3, <5>4
      <4>. QED  BY <1>3, <2>3, <4>2, <4>3, <4>4 DEF LooksAhead
    <3>. QED  BY <3>1, <3>2
  <2>. HIDE DEF f, g
  <2>5. Addressed(v, d, g)
    BY <1>3, <2>3
  <2>. QED  BY <1>3, <2>3, <2>4, <2>5
<1>5. \A n \in 0..Len(q) : SubSeq(q, 1, n) \in DOMAIN r
  BY <1>2, <1>4
<1>6. OnWay(r, q)
  <2>. SUFFICES ASSUME NEW n \in 0..(Len(q) - 1) PROVE r[SubSeq(q, 1, n)].expanded
    BY DEF OnWay
  <2>1. n \in 0..Len(q)
    BY <1>2
  <2>. QED  BY <1>1, <1>5, <2>1 DEF OnWay
<1>7. q \in DOMAIN r
  <2>1. Len(q) \in 0..Len(q)
    BY <1>2
  <2>. QED  BY <1>2, <1>5, <2>1
<1>. QED  BY <1>6, <1>7 DEF Seen

-----------------------------------------------------------------------------
(* A row that stays on screen keeps the focus.                             *)

(* No path is above itself.                                                *)
LEMMA NotAboveItself ==
    ASSUME NEW p
    PROVE  ~Above(p, p)
BY DEF Above

(* A row keeps its place where what is above it stays, as far open.        *)
LEMMA SameAbove ==
    ASSUME NEW v \in Versions, NEW d, NEW r, RowsInv(v, d, r), NEW e, NEW m, RowsInv(v, e, m),
           NEW p \in Seq(Screened),
           \A o \in Seen(r) : Above(o, p) => o \in DOMAIN m /\ (r[o].expanded => m[o].expanded),
           \A o \in Seen(m) : Above(o, p) => o \in DOMAIN r /\ (m[o].expanded => r[o].expanded)
    PROVE  Place(Shown(v, m), p) = Place(Shown(v, r), p)
<1>1. \A q \in Shown(v, r) : Above(q, p) => q \in Shown(v, m)
  BY AboveStays
<1>2. \A q \in Shown(v, m) : Above(q, p) => q \in Shown(v, r)
  BY AboveStays
<1>. QED  BY <1>1, <1>2, SamePlace

(* What is on screen are paths.                                            *)
LEMMA OnScreenIsPath ==
    ASSUME NEW v \in Versions, NEW d, NEW r, RowsInv(v, d, r), NEW p \in Shown(v, r)
    PROVE  p \in Seq(Screened)
BY ShownIsOrderly DEF Orderly

(* Rows that are loaded, and nothing unfolded but p: it stays in place.    *)
LEMMA GrowthKeepsPlace ==
    ASSUME NEW v \in Versions, NEW d, NEW r, RowsInv(v, d, r), NEW m, RowsInv(v, d, m),
           NEW p \in Shown(v, r), DOMAIN r \subseteq DOMAIN m, KeepsOpen(r, m),
           \A o \in DOMAIN m : m[o].expanded /\ o # p => o \in DOMAIN r /\ r[o].expanded
    PROVE  p \in Shown(v, m) /\ Place(Shown(v, m), p) = Place(Shown(v, r), p)
<1>1. p \in Seq(Screened)
  BY OnScreenIsPath
<1>2. p \in Shown(v, m)
  BY ShownGrows
<1>3. \A o \in Seen(r) : Above(o, p) => o \in DOMAIN m /\ (r[o].expanded => m[o].expanded)
  BY DEF Seen, KeepsOpen
<1>4. ASSUME NEW o \in Seen(m), Above(o, p)
      PROVE  o \in DOMAIN r /\ (m[o].expanded => r[o].expanded)
  <2>1. /\ o \in DOMAIN m /\ OnWay(m, o) /\ o \in Paths /\ \A n \in 0..Len(o) : SubSeq(o, 1, n) \in DOMAIN m
    BY RowsResolve, RowsAnchor DEF Seen, RowsInv
  <2>2. o \in Seq(Screened) /\ Len(o) \in Nat
    BY <2>1 DEF Paths, Screened
  <2>3. ASSUME NEW n \in 0..(Len(o) - 1)
        PROVE  SubSeq(o, 1, n) \in DOMAIN r /\ (m[SubSeq(o, 1, n)].expanded => r[SubSeq(o, 1, n)].expanded)
    <3>. DEFINE a == SubSeq(o, 1, n)
    <3>1. n \in 0..Len(o)
      BY <2>2
    <3>2. Above(a, p)
      BY <1>1, <1>4, <2>2, <3>1, StartsAbove
    <3>3. a \in DOMAIN m /\ m[a].expanded
      BY <2>1, <3>1 DEF OnWay
    <3>. HIDE DEF a
    <3>4. a # p
      BY <3>2, NotAboveItself
    <3>5. a \in DOMAIN r /\ r[a].expanded
      BY <3>3, <3>4
    <3>. QED  BY <3>5 DEF a
  <2>4. o \in Seen(r)
    BY <2>3, NothingNew
  <2>5. o # p
    BY <1>4, NotAboveItself
  <2>. QED  BY <2>1, <2>4, <2>5 DEF Seen
<1>5. Place(Shown(v, m), p) = Place(Shown(v, r), p)
  BY <1>1, <1>3, <1>4, SameAbove
<1>. QED  BY <1>2, <1>5

(* A row at the cursor is the focused one.                                 *)
LEMMA FocusKept ==
    ASSUME FocusInv', version' = version, NEW p \in Shown(version, rows'),
           Place(Shown(version, rows'), p) = cursor'
    PROVE  Focused' = p
<1>1. (\A q \in Shown(version, rows) : Place(Shown(version, rows), q) = cursor => q = Focused)'
  BY FocusByNext
<1>2. \A q \in Shown(version, rows') : Place(Shown(version, rows'), q) = cursor' => q = Focused'
  BY <1>1
<1>. QED  BY <1>2

(* A row that folds or unfolds keeps the focus (toggleFocused).            *)
LEMMA ToggleFocusStays ==
    ASSUME FocusInv, ToggleFocused(Focused), UNCHANGED cursor, ~IsSlot(Focused)
    PROVE  Focused' = Focused
<1>. DEFINE p == Focused
<1>1. /\ version \in Versions /\ WellFormed(version, draft) /\ RowsInv(version, draft, rows)
      /\ TreeInv /\ InPlace(Shown(version, rows))
  BY DEF FocusInv, TreeInv
<1>2. FocusInv' /\ TreeInv'
  BY ToggleKeepsFocus DEF FocusInv
<1>3. /\ version' = version /\ draft' = draft /\ cursor' = cursor
      /\ \/ rows' = [rows EXCEPT ![p].expanded = FALSE]
         \/ rows' = ExpandRow(version, draft, rows, p)
  BY DEF ToggleFocused
<1>4. p \in Shown(version, rows) /\ p \in Paths /\ p \in DOMAIN rows /\ Place(Shown(version, rows), p) = cursor
  BY FocusBy, FocusedRow
<1>5. RowsInv(version, draft, rows')
  BY <1>2, <1>3 DEF TreeInv
<1>. HIDE DEF p
<1>7. CASE rows' = [rows EXCEPT ![p].expanded = FALSE]
  <2>. DEFINE m == [rows EXCEPT ![p].expanded = FALSE]
  <2>3. p \in Shown(version, m) /\ Place(Shown(version, m), p) = Place(Shown(version, rows), p)
    BY <1>1, <1>4, FoldKeepsPlace
  <2>4. rows' = m
    BY <1>7
  <2>. HIDE DEF m
  <2>1. p \in Shown(version, rows') /\ Place(Shown(version, rows'), p) = cursor'
    BY <1>3, <1>4, <2>3, <2>4
  <2>. QED  BY <1>2, <1>3, <2>1, FocusKept DEF p
<1>8. CASE rows' = ExpandRow(version, draft, rows, p)
  <2>1. DOMAIN rows \subseteq DOMAIN rows' /\ KeepsOpen(rows, rows')
    BY <1>1, <1>4, <1>8, ExpandRowInv
  <2>2. \A o \in DOMAIN rows' : rows'[o].expanded /\ o # p => o \in DOMAIN rows /\ rows[o].expanded
    <3>1. RowsMirror(version, draft, rows) /\ \A o \in DOMAIN rows \ {p} : LooksAhead(rows, o)
      BY <1>1 DEF RowsInv
    <3>2. /\ \A q \in DOMAIN rows \ {p} : rows'[q].expanded = rows[q].expanded
          /\ \A q \in DOMAIN rows' \ DOMAIN rows : ~rows'[q].expanded
      BY <1>1, <1>4, <1>8, <3>1, ExpandRowBy
    <3>. QED  BY <3>2
  <2>3. p \in Shown(version, rows') /\ Place(Shown(version, rows'), p) = Place(Shown(version, rows), p)
    BY <1>1, <1>4, <1>5, <2>1, <2>2, GrowthKeepsPlace
  <2>. QED  BY <1>2, <1>3, <1>4, <2>3, FocusKept DEF p
<1>. QED  BY <1>3, <1>7, <1>8

(* Findings that grow the tree leave the focus on its row.                 *)
LEMMA FindingsFocusStays ==
    ASSUME FocusInv, ApplyReport, UNCHANGED cursor
    PROVE  Focused' = Focused
<1>1. /\ version \in Versions /\ WellFormed(version, draft) /\ RowsInv(version, draft, rows)
      /\ TreeInv
  BY DEF FocusInv, TreeInv
<1>2. FocusInv'
  BY FindingsKeepFocus
<1>3. PICK fs : /\ rows' = WalkTowardEach(version, draft, rows, fs)
                /\ Len(fs) \in Nat /\ \A n \in 1..Len(fs) : Len(fs[n]) \in Nat
  BY <1>1, FindingsGrow
<1>4. version' = version /\ draft' = draft /\ cursor' = cursor
  BY <1>1, FindingsGrow
<1>5. /\ RowsInv(version, draft, rows') /\ DOMAIN rows \subseteq DOMAIN rows' /\ KeepsOpen(rows, rows')
      /\ KeepsOpen(rows', rows)
  BY <1>1, <1>3, WalkTowardEachInv
<1>6. Focused \in Shown(version, rows) /\ Place(Shown(version, rows), Focused) = cursor
  BY FocusBy
<1>7. \A o \in DOMAIN rows' : rows'[o].expanded => o \in DOMAIN rows /\ rows[o].expanded
  BY <1>5 DEF KeepsOpen
<1>8. /\ Focused \in Shown(version, rows')
      /\ Place(Shown(version, rows'), Focused) = Place(Shown(version, rows), Focused)
  BY <1>1, <1>5, <1>6, <1>7, GrowthKeepsPlace
<1>. QED  BY <1>2, <1>4, <1>6, <1>8, FocusKept

-----------------------------------------------------------------------------
(* What `a` added takes the focus.                                         *)

(* What was added is on screen: its row, and all it is beneath unfolded.   *)
LEMMA AddedShows ==
    ASSUME TreeInv, TreeInv', version' = version, NEW p \in DOMAIN rows, OnWay(rows, p), NEW q, Added(p, q)
    PROVE  /\ q \in Shown(version, rows') /\ Len(q) = Len(p) + 1
           /\ q \in DOMAIN draft' \ DOMAIN draft /\ ~IsField(Last(q))
           /\ \A x \in DOMAIN draft' \ DOMAIN draft : Len(x) = Len(p) + 1 => x = q
<1>1. /\ q \in Paths \ {<<>>} /\ Front(q) = p /\ ~IsField(Last(q))
      /\ q \notin DOMAIN draft /\ DOMAIN draft' = DOMAIN draft \cup Along(q)
      /\ KeepsOpen(rows, rows') /\ q \in DOMAIN rows' /\ rows'[p].expanded
  BY DEF Added
<1>2. /\ version \in Versions /\ RowsInv(version, draft, rows) /\ RowsInv(version, draft', rows')
  BY DEF TreeInv
<1>3. p \in Paths /\ (\A n \in 0..Len(p) : SubSeq(p, 1, n) \in DOMAIN rows) /\ Len(p) \in Nat
      /\ SubSeq(p, 1, Len(p)) = p
  BY <1>2, RowsResolve, RowsAnchor DEF RowsInv, Paths
<1>4. Len(q) = Len(p) + 1 /\ p = SubSeq(q, 1, Len(p)) /\ Len(q) \in Nat /\ SubSeq(q, 1, Len(q)) = q
  <2>1. Len(Front(q)) = Len(q) - 1 /\ Front(q) = SubSeq(q, 1, Len(q) - 1) /\ Len(q) \in Nat
        /\ SubSeq(q, 1, Len(q)) = q
    BY <1>1, FrontLast DEF Paths
  <2>. QED  BY <1>1, <1>3, <2>1
<1>5. \A n \in 0..(Len(p) - 1) : rows[SubSeq(p, 1, n)].expanded
  BY DEF OnWay
<1>6. \A n \in 0..Len(p) : rows'[SubSeq(p, 1, n)].expanded
  <2>1. \A n \in 0..(Len(p) - 1) : n \in 0..Len(p)
    BY <1>3
  <2>2. \A n \in 0..(Len(p) - 1) : rows'[SubSeq(p, 1, n)].expanded
    BY <1>1, <1>3, <1>5, <2>1 DEF KeepsOpen
  <2>. SUFFICES ASSUME NEW n \in 0..Len(p), n \notin 0..(Len(p) - 1) PROVE rows'[SubSeq(p, 1, n)].expanded
    BY <2>2
  <2>3. n = Len(p)
    <3>1. Len(p) \in Nat
      BY <1>3
    <3>. QED  BY <3>1
  <2>. QED  BY <1>1, <1>3, <2>3
<1>7. OnWay(rows', q)
  <2>. SUFFICES ASSUME NEW n \in 0..(Len(q) - 1) PROVE rows'[SubSeq(q, 1, n)].expanded
    BY DEF OnWay
  <2>1. n \in 0..Len(p)
    BY <1>3, <1>4
  <2>2. Len(p) \in 0..Len(q)
    BY <1>3, <1>4
  <2>3. SubSeq(SubSeq(q, 1, Len(p)), 1, n) = SubSeq(q, 1, n)
    BY <1>1, <2>1, <2>2, StartOfStart DEF Paths
  <2>. QED  BY <1>4, <1>6, <2>1, <2>3
<1>8. q \in Along(q)
  BY <1>1, AlongIsStarts DEF Paths
<1>9. q \in Shown(version, rows')
  <2>1. \A o \in Paths : o \in Shown(version, rows') <=> o \in DOMAIN rows' /\ OnWay(rows', o)
    BY <1>2, OnScreenBy
  <2>. QED  BY <1>1, <1>7, <2>1
<1>10. ASSUME NEW x \in DOMAIN draft' \ DOMAIN draft, Len(x) = Len(p) + 1 PROVE x = q
  <2>1. x \in Along(q)
    BY <1>1
  <2>2. x = SubSeq(q, 1, Len(x))
    BY <1>1, <2>1, AlongPosition
  <2>. QED  BY <1>4, <1>10, <2>2
<1>. QED  BY <1>1, <1>4, <1>8, <1>9, <1>10

(* The focus goes to what was added.                                       *)
LEMMA AddFocuses ==
    ASSUME FocusInv, FocusInv', PressAdd
    PROVE  Focused' \in {x \in DOMAIN draft' \ DOMAIN draft : ~IsField(Last(x))}
<1>. DEFINE p == Focused
            added == CHOOSE x \in DOMAIN draft' \ DOMAIN draft : Len(x) = Len(p) + 1
<1>1. /\ ~IsSlot(p) /\ (AppendToArray(p) \/ ConfirmKeyPrompt(p))
      /\ cursor' = FocusRow(Shown(version, rows'), added)
  BY DEF PressAdd
<1>2. p \in DOMAIN rows /\ OnWay(rows, p)
  BY <1>1, FocusedRow
<1>3. TreeInv /\ TreeInv' /\ version' = version
  BY <1>1 DEF FocusInv, AppendToArray, ConfirmKeyPrompt, Mutated
<1>. HIDE DEF p, added
<1>4. PICK q : Added(p, q)
  BY <1>1, <1>3, AppendToArrayKeepsTree, ConfirmKeyPromptKeepsTree
<1>5. /\ q \in Shown(version, rows') /\ Len(q) = Len(p) + 1
      /\ q \in DOMAIN draft' \ DOMAIN draft /\ ~IsField(Last(q))
      /\ \A x \in DOMAIN draft' \ DOMAIN draft : Len(x) = Len(p) + 1 => x = q
  BY <1>2, <1>3, <1>4, AddedShows
<1>6. added = q
  BY <1>5 DEF added
<1>7. Place(Shown(version, rows'), q) = cursor'
  BY <1>1, <1>5, <1>6 DEF FocusRow
<1>8. Focused' = q
  BY <1>3, <1>5, <1>7, FocusKept
<1>. QED  BY <1>5, <1>8

-----------------------------------------------------------------------------
(* What a removal and a reload leave above a row.                          *)

(* What is at p, beneath it, or beneath a later sibling is not above it.   *)
LEMMA NotAboveFrom ==
    ASSUME NEW p \in Paths \ {<<>>}, NEW o \in Paths, Len(o) >= Len(p),
           \A j \in 1..(Len(p) - 1) : o[j] = p[j],
           o[Len(p)] = p[Len(p)] \/ ~Earlier(o[Len(p)], p[Len(p)])
    PROVE  ~Above(o, p)
<1>1. p \in Seq(Segments) /\ o \in Seq(Segments) /\ Len(p) \in Nat /\ Len(o) \in Nat
  BY DEF Paths
<1>2. ~(o # p /\ IsAtOrBeneath(p, o))
  <2>. SUFFICES ASSUME IsAtOrBeneath(p, o) PROVE o = p
    OBVIOUS
  <2>1. Len(o) <= Len(p)
    BY DEF IsAtOrBeneath
  <2>2. Len(p) = Len(o)
    BY <1>1, <2>1
  <2>. QED  BY <1>1, <2>2, BeneathOrder
<1>3. ASSUME NEW n \in 1..Smaller(Len(o), Len(p)), o[n] # p[n], Earlier(o[n], p[n]) PROVE FALSE
  <2>1. n \in 1..Len(p)
    BY <1>1 DEF Smaller
  <2>2. n = Len(p)
    BY <1>1, <1>3, <2>1
  <2>. QED  BY <1>3, <2>2
<1>. QED  BY <1>2, <1>3 DEF Above

(* What is beneath a row is not above it.                                  *)
LEMMA BeneathIsNotAbove ==
    ASSUME NEW p \in Paths \ {<<>>}, NEW o \in Paths, IsAtOrBeneath(o, p)
    PROVE  ~Above(o, p)
<1>1. Len(p) \in Nat /\ Len(p) > 0 /\ Len(o) \in Nat
  BY FrontLast DEF Paths
<1>2. Len(o) >= Len(p) /\ \A j \in 1..Len(p) : o[j] = p[j]
  BY <1>1 DEF IsAtOrBeneath
<1>3. (\A j \in 1..(Len(p) - 1) : o[j] = p[j]) /\ o[Len(p)] = p[Len(p)]
  BY <1>1, <1>2
<1>. QED  BY <1>2, <1>3, NotAboveFrom

(* Items are above one another by their index.                             *)
LEMMA EarlierItems ==
    ASSUME NEW a \in Segments, NEW b \in Segments, IsItem(a), IsItem(b)
    PROVE  Earlier(a, b) <=> a.item < b.item
<1>1. ~IsField(a) /\ ~IsKey(a) /\ a # Slot /\ b # Slot
  BY SegmentKinds, SlotFacts
<1>. QED  BY <1>1 DEF Earlier

(* What follows a removed item is not above it, before and after.          *)
LEMMA FollowersAreNotAbove ==
    ASSUME NEW p \in Paths \ {<<>>}, NEW o \in Paths, Follows(p, o)
    PROVE  ~Above(o, p) /\ ~Above(Renumbered(p, o), p)
<1>. DEFINE n == Len(p)
            x == Renumbered(p, o)
<1>1. /\ n \in Nat /\ n > 0 /\ Len(o) >= n /\ \A m \in 1..(n - 1) : o[m] = p[m]
      /\ IsItem(p[n]) /\ IsItem(o[n]) /\ o[n].item > p[n].item
  BY FollowsBy
<1>2. /\ x \in Paths /\ Len(x) = Len(o) /\ \A m \in 1..Len(o) : m # n => x[m] = o[m]
      /\ o[n].item \in Nat /\ o[n].item > 0 /\ x[n] = IndexSegment(o[n].item - 1) /\ n \in 1..Len(o)
  BY RenumberedBy
<1>3. Len(o) \in Nat /\ p[n] \in Segments /\ o[n] \in Segments
  <2>1. Len(o) \in Nat /\ p \in Seq(Segments) /\ o \in Seq(Segments) /\ n \in 1..Len(p)
    BY <1>1 DEF Paths
  <2>. HIDE DEF n
  <2>. QED  BY <1>2, <2>1
<1>. HIDE DEF n, x
<1>4. p[n].item \in Nat
  BY <1>1, <1>3, SegmentKinds DEF Segments
<1>5. ~Earlier(o[n], p[n])
  BY <1>1, <1>2, <1>3, <1>4, EarlierItems
<1>6. ~Above(o, p)
  BY <1>1, <1>5, NotAboveFrom DEF n
<1>7. o[n].item - 1 \in Nat
  BY <1>2
<1>8. IndexSegment(o[n].item - 1) \in Segments /\ IsItem(x[n]) /\ x[n] \in Segments /\ x[n].item = o[n].item - 1
  BY <1>2, <1>7, IndexSegments, SegmentKinds
<1>9. ~Earlier(x[n], p[n])
  <2>1. ~(o[n].item - 1 < p[n].item)
    BY <1>1, <1>2, <1>4
  <2>. QED  BY <1>1, <1>3, <1>8, <2>1, EarlierItems
<1>10. Len(x) >= n /\ \A m \in 1..(n - 1) : x[m] = p[m]
  <2>1. \A m \in 1..(n - 1) : m \in 1..Len(o) /\ m # n
    BY <1>1, <1>3
  <2>. QED  BY <1>1, <1>2, <2>1
<1>11. ~Above(x, p)
  BY <1>2, <1>9, <1>10, NotAboveFrom DEF n
<1>. QED  BY <1>6, <1>11 DEF x

(* The rows m have what r has above p, and it is as far open.              *)
SameBefore(r, m, p) ==
    \A o \in Paths : Above(o, p) => /\ o \in DOMAIN r <=> o \in DOMAIN m
                                    /\ o \in DOMAIN r => m[o].expanded = r[o].expanded

(* removeInstantiatedRow leaves what is above the removed row.             *)
LEMMA RemovalKeepsBefore ==
    ASSUME NEW v \in Versions, NEW d, NEW r, RowsInv(v, d, r), NEW p \in DOMAIN r, p # <<>>
    PROVE  SameBefore(r, RemoveRow(r, p), p)
<1>. DEFINE m == RemoveRow(r, p)
<1>1. /\ DOMAIN m = {Renumbered(p, o) : o \in Besides(r, p)}
      /\ \A o \in Besides(r, p) : m[Renumbered(p, o)] = r[o]
  <2>1. IsRemoval(r, p, m)
    BY RemoveRowBy
  <2>. HIDE DEF m
  <2>. QED  BY <2>1 DEF IsRemoval
<1>2. p \in Paths \ {<<>>} /\ DOMAIN r \subseteq Paths
  BY DEF RowsInv, RowsMirror
<1>. HIDE DEF m
<1>3. ASSUME NEW o \in Paths, Above(o, p), o \in DOMAIN r
      PROVE  o \in DOMAIN m /\ m[o].expanded = r[o].expanded
  <2>1. ~IsAtOrBeneath(o, p) /\ ~Follows(p, o)
    BY <1>2, <1>3, BeneathIsNotAbove, FollowersAreNotAbove
  <2>2. Renumbered(p, o) = o
    BY <1>2, <2>1, RenumberedBy
  <2>3. o \in Besides(r, p)
    BY <1>3, <2>1 DEF Besides
  <2>. QED  BY <1>1, <2>2, <2>3
<1>4. ASSUME NEW o \in Paths, Above(o, p), o \in DOMAIN m
      PROVE  o \in DOMAIN r
  <2>1. PICK x \in Besides(r, p) : o = Renumbered(p, x)
    BY <1>1, <1>4
  <2>2. x \in DOMAIN r /\ x \in Paths
    BY <1>2 DEF Besides
  <2>3. ~Follows(p, x)
    BY <1>2, <1>4, <2>1, <2>2, FollowersAreNotAbove
  <2>4. o = x
    BY <1>2, <2>1, <2>2, <2>3, RenumberedBy
  <2>. QED  BY <2>2, <2>4
<1>. QED  BY <1>3, <1>4 DEF SameBefore, m

(* A field that reloads leaves what is above it, and stays.                *)
LEMMA ReloadKeepsBefore ==
    ASSUME NEW v \in Versions, NEW d, NEW r, RowsInv(v, d, r), NEW e, WellFormed(v, e),
           NEW p \in DOMAIN r, p # <<>>, Resolves(v, p)
    PROVE  LET m == ReloadRow(v, e, r, p) IN SameBefore(r, m, p) /\ p \in DOMAIN m
<1>. DEFINE left == {o \in DOMAIN r : o = p \/ ~IsAtOrBeneath(o, p)}
            s == [q \in left |-> IF q = p THEN NewRow ELSE r[q]]
            fresh == {q \in {p} : ~s[q].loaded}
            C == FreshChildren(v, e, p)
            children == UNION {FreshChildren(v, e, q) : q \in fresh}
            m == ReloadRow(v, e, r, p)
<1>1. p \in Paths \ {<<>>} /\ DOMAIN r \subseteq Paths
  BY DEF RowsInv, RowsMirror
<1>2. CASE IsLeaf(v, p)
  BY <1>2 DEF ReloadRow, SameBefore
<1>3. CASE ~IsLeaf(v, p)
  <2>1. m = [q \in left \cup children |->
                CASE q \in fresh -> [s[q] EXCEPT !.loaded = TRUE]
                  [] q \in children -> NewRow
                  [] OTHER -> s[q]]
    BY <1>3 DEF ReloadRow, LoadRows
  <2>2. \A q \in C : IsAtOrBeneath(q, p)
    <3>1. C = {q \in Paths \ {<<>>} : Front(q) = p /\ Addressed(v, e, q)}
      BY <1>1, FreshBy
    <3>2. ASSUME NEW q \in Paths \ {<<>>}, Front(q) = p PROVE IsAtOrBeneath(q, p)
      <4>1. IsAtOrBeneath(q, p) <=> q = p \/ IsAtOrBeneath(Front(q), p)
        BY <1>1, BeneathFront DEF Paths
      <4>2. IsAtOrBeneath(p, p)
        BY <1>1, BeneathOrder DEF Paths
      <4>. QED  BY <3>2, <4>1, <4>2
    <3>. QED  BY <3>1, <3>2
  <2>3. children \subseteq C
    OBVIOUS
  <2>4. fresh \subseteq {p} /\ p \in left /\ left \subseteq DOMAIN r
        /\ \A o \in DOMAIN r : ~IsAtOrBeneath(o, p) => o \in left /\ (o # p => s[o] = r[o])
    OBVIOUS
  <2>. HIDE DEF m, left, s, fresh, C, children
  <2>5. ASSUME NEW o \in Paths, Above(o, p)
        PROVE  /\ o \in DOMAIN r <=> o \in DOMAIN m
               /\ o \in DOMAIN r => m[o].expanded = r[o].expanded
    <3>1. ~IsAtOrBeneath(o, p) /\ o # p
      BY <1>1, <2>5, BeneathIsNotAbove, NotAboveItself
    <3>2. o \notin children /\ o \notin fresh
      BY <2>2, <2>3, <2>4, <3>1
    <3>3. o \in DOMAIN m <=> o \in left
      BY <2>1, <3>2
    <3>4. o \in left => m[o] = s[o]
      BY <2>1, <3>2
    <3>. QED  BY <2>4, <3>1, <3>3, <3>4
  <2>6. p \in DOMAIN m
    BY <2>1, <2>4
  <2>. QED  BY <2>5, <2>6 DEF SameBefore, m
<1>. QED  BY <1>2, <1>3

-----------------------------------------------------------------------------
(* Where a path would be among rows it is not one of.                      *)

(* Of any three paths that rows can have: the order on screen is strict.   *)
LEMMA AboveOrdered ==
    ASSUME NEW v, NEW x, NEW y, NEW z, Orderly(v, x), Orderly(v, y), Orderly(v, z)
    PROVE  /\ ~Above(x, x)
           /\ Above(x, y) /\ Above(y, z) => Above(x, z)
           /\ x = y \/ Above(x, y) \/ Above(y, x)
<1>. DEFINE S == {x, y, z}
            R == AboveOrder(S)
<1>1. StrictOrder(S, R)
  <2>1. \A o \in S : Orderly(v, o)
    OBVIOUS
  <2>. HIDE DEF S
  <2>. QED  BY <2>1, AboveIsStrict
<1>2. \A o, q \in S : <<o, q>> \in R <=> Above(o, q)
  BY DEF AboveOrder
<1>3. x \in S /\ y \in S /\ z \in S
  OBVIOUS
<1>. HIDE DEF S, R
<1>. QED  BY <1>1, <1>2, <1>3 DEF StrictOrder

(* Where a path would be among the rows, though it may not be there.       *)
LEMMA PlaceAround ==
    ASSUME NEW v, NEW T, IsFiniteSet(T), \A x \in T : Orderly(v, x), NEW p, Orderly(v, p)
    PROVE  /\ Place(T, p) \in Nat
           /\ \A x \in T : /\ Place(T, x) \in Nat
                           /\ Above(p, x) => Place(T, p) <= Place(T, x)
                           /\ Above(x, p) => Place(T, x) < Place(T, p)
<1>. DEFINE before(x) == {q \in T : Above(q, x)}
<1>1. \A x : IsFiniteSet(before(x)) /\ Cardinality(before(x)) \in Nat /\ Place(T, x) = Cardinality(before(x))
  <2>. SUFFICES ASSUME NEW x PROVE IsFiniteSet(before(x)) /\ Cardinality(before(x)) \in Nat
    BY DEF Place
  <2>1. before(x) \in SUBSET T
    OBVIOUS
  <2>. HIDE DEF before
  <2>. QED  BY <2>1, FS_Subset, FS_CardinalityType
<1>2. ASSUME NEW x \in T, Above(p, x) PROVE Place(T, p) <= Place(T, x)
  <2>1. before(p) \in SUBSET before(x)
    BY <1>2, AboveOrdered
  <2>. HIDE DEF before
  <2>2. Cardinality(before(p)) <= Cardinality(before(x))
    BY <1>1, <2>1, FS_Subset
  <2>. QED  BY <1>1, <2>2
<1>3. ASSUME NEW x \in T, Above(x, p) PROVE Place(T, x) < Place(T, p)
  <2>1. before(x) \cup {x} \in SUBSET before(p) /\ x \notin before(x)
    BY <1>3, AboveOrdered
  <2>. HIDE DEF before
  <2>2. Cardinality(before(x) \cup {x}) = Cardinality(before(x)) + 1
    BY <1>1, <2>1, FS_AddElement
  <2>3. Cardinality(before(x) \cup {x}) <= Cardinality(before(p))
    BY <1>1, <2>1, FS_Subset
  <2>. QED  BY <1>1, <2>2, <2>3
<1>. QED  BY <1>1, <1>2, <1>3

(* As much is above p in m as in r.                                        *)
LEMMA SameBeforePlace ==
    ASSUME NEW v \in Versions, NEW d, NEW r, RowsInv(v, d, r), NEW e, NEW m, RowsInv(v, e, m),
           NEW p \in Seq(Screened), SameBefore(r, m, p)
    PROVE  Place(Shown(v, m), p) = Place(Shown(v, r), p)
<1>1. DOMAIN r \subseteq Paths /\ DOMAIN m \subseteq Paths
  BY DEF RowsInv, RowsMirror
<1>2. \A o \in Seen(r) : Above(o, p) => o \in DOMAIN m /\ (r[o].expanded => m[o].expanded)
  BY <1>1 DEF Seen, SameBefore
<1>3. \A o \in Seen(m) : Above(o, p) => o \in DOMAIN r /\ (m[o].expanded => r[o].expanded)
  BY <1>1 DEF Seen, SameBefore
<1>. QED  BY <1>2, <1>3, SameAbove

(* What p was beneath is still there, and unfolded.                        *)
LEMMA WayStays ==
    ASSUME NEW v \in Versions, NEW d, NEW r, RowsInv(v, d, r), NEW m, NEW p \in Seen(r), SameBefore(r, m, p)
    PROVE  /\ OnWay(m, p)
           /\ \A n \in 0..(Len(p) - 1) : SubSeq(p, 1, n) \in DOMAIN m
<1>1. p \in DOMAIN r /\ OnWay(r, p) /\ p \in Paths /\ \A n \in 0..Len(p) : SubSeq(p, 1, n) \in DOMAIN r
  BY RowsResolve, RowsAnchor DEF Seen, RowsInv
<1>2. ASSUME NEW n \in 0..(Len(p) - 1)
      PROVE  SubSeq(p, 1, n) \in DOMAIN m /\ m[SubSeq(p, 1, n)].expanded
  <2>. DEFINE o == SubSeq(p, 1, n)
  <2>1. n \in 0..Len(p) /\ n < Len(p) /\ Len(p) \in Nat
    <3>1. Len(p) \in Nat
      BY <1>1 DEF Paths
    <3>. QED  BY <3>1
  <2>2. o \in Paths /\ Len(o) = n /\ \A k \in 1..n : o[k] = p[k]
    BY <1>1, <2>1, Start DEF Paths
  <2>3. o \in DOMAIN r /\ r[o].expanded
    BY <1>1, <2>1 DEF OnWay
  <2>. HIDE DEF o
  <2>4. Above(o, p)
    BY <2>1, <2>2 DEF Above, IsAtOrBeneath
  <2>. QED  BY <2>2, <2>3, <2>4 DEF SameBefore, o
<1>. QED  BY <1>2 DEF OnWay

-----------------------------------------------------------------------------
(* What stands between a row and the end of its collection.                *)

(* What follows p and comes before the end of p's collection is beneath    *)
(* that collection.                                                        *)
LEMMA BetweenIsBeneath ==
    ASSUME NEW v, NEW p \in Paths \ {<<>>}, Orderly(v, p), NEW f, Orderly(v, f),
           Above(p, f), Above(f, Append(Front(p), Slot)), Orderly(v, Front(p))
    PROVE  IsAtOrBeneath(f, Front(p)) /\ f # Front(p)
<1>. DEFINE a == Front(p)
            z == Append(a, Slot)
<1>1. /\ a \in Paths /\ Len(p) = Len(a) + 1 /\ IsAtOrBeneath(p, a) /\ a # p
      /\ p \in Seq(Screened) /\ a \in Seq(Screened) /\ f \in Seq(Screened)
  <2>1. p \in Seq(Segments) \ {<<>>}
    BY DEF Paths
  <2>2. Front(p) \in Seq(Segments) /\ Len(Front(p)) = Len(p) - 1 /\ Len(p) \in Nat
    BY <2>1, FrontLast
  <2>3. IsAtOrBeneath(p, Front(p))
    BY <2>1, <2>2, BeneathFront
  <2>. QED  BY <2>2, <2>3 DEF Orderly, Paths
<1>2. z \in Seq(Screened) /\ Len(z) = Len(a) + 1 /\ Len(a) \in Nat /\ \A n \in 1..Len(a) : z[n] = a[n]
  <2>. HIDE DEF a
  <2>. QED  BY <1>1, SlotRow
<1>. HIDE DEF a, z
<1>3. Above(a, f) /\ ~Above(f, a) /\ f # a
  <2>1. Above(a, p)
    BY <1>1 DEF Above
  <2>2. Orderly(v, a)
    BY DEF a
  <2>. QED  BY <2>1, <2>2, AboveOrdered
<1>4. Above(f, z)
  BY DEF z, a
<1>5. ~Strictly(a, f)
  BY <1>1, <1>3 DEF Strictly, Above
<1>6. ASSUME NEW n \in Nat, Fork(a, f, n) PROVE FALSE
  <2>1. /\ n \in 1..Len(a) /\ n \in 1..Len(f) /\ n \in 1..Len(z)
        /\ \A m \in 1..(n - 1) : a[m] = f[m] /\ m \in 1..Len(a)
        /\ a[n] # f[n]
    BY <1>2, <1>6 DEF Fork
  <2>2. z[n] = a[n] /\ \A m \in 1..(n - 1) : z[m] = f[m]
    BY <1>2, <2>1
  <2>3. CASE Strictly(z, f)
    BY <2>1, <2>2, <2>3 DEF Strictly, IsAtOrBeneath
  <2>4. CASE Parts(EarlierPairs, f, z)
    <3>1. PICK k \in Nat : Fork(f, z, k) /\ <<f[k], z[k]>> \in EarlierPairs
      BY <2>4 DEF Parts
    <3>2. k \in 1..Len(f) /\ f[k] # z[k] /\ \A m \in 1..(k - 1) : f[m] = z[m]
      BY <3>1 DEF Fork
    <3>3. ~(k < n) /\ ~(n < k)
      BY <2>1, <2>2, <3>2
    <3>4. k = n
      BY <3>3
    <3>5. Fork(f, a, n) /\ <<f[n], a[n]>> \in EarlierPairs
      BY <2>1, <2>2, <3>1, <3>4 DEF Fork
    <3>6. Above(f, a)
      BY <1>1, <3>5, AboveBy DEF Before, Parts
    <3>. QED  BY <1>3, <3>6
  <2>. QED  BY <1>1, <1>2, <1>4, <2>3, <2>4, AboveBy DEF Before
<1>7. Strictly(f, a)
  BY <1>1, <1>3, <1>5, <1>6, Related
<1>. QED  BY <1>3, <1>7 DEF Strictly, a

(* What goes on from a path above p is above p too, unless p is beneath it.*)
LEMMA BeneathAbove ==
    ASSUME NEW p \in Seq(Screened), NEW g \in Seq(Screened), NEW f \in Seq(Screened),
           Above(g, p), IsAtOrBeneath(f, g), ~IsAtOrBeneath(p, g)
    PROVE  Above(f, p)
<1>1. Parts(EarlierPairs, g, p)
  BY AboveBy DEF Before, Strictly
<1>2. PICK n \in Nat : Fork(g, p, n) /\ <<g[n], p[n]>> \in EarlierPairs
  BY <1>1 DEF Parts
<1>3. /\ n \in 1..Len(g) /\ n \in 1..Len(p) /\ g[n] # p[n]
      /\ \A m \in 1..(n - 1) : g[m] = p[m] /\ m \in 1..Len(g)
      /\ Len(g) \in Nat
  BY <1>2 DEF Fork
<1>4. Len(g) <= Len(f) /\ \A m \in 1..Len(g) : f[m] = g[m]
  BY DEF IsAtOrBeneath
<1>5. n \in 1..Len(f) /\ f[n] = g[n] /\ \A m \in 1..(n - 1) : f[m] = p[m]
  BY <1>3, <1>4
<1>6. Fork(f, p, n) /\ <<f[n], p[n]>> \in EarlierPairs
  BY <1>2, <1>3, <1>5 DEF Fork
<1>. QED  BY <1>6, AboveBy DEF Before, Parts

(* The row a path on screen goes through is on screen.                     *)
LEMMA StartShows ==
    ASSUME NEW v \in Versions, NEW e, NEW m, RowsInv(v, e, m), NEW f \in Shown(v, m),
           NEW k \in 0..(Len(f) - 1)
    PROVE  SubSeq(f, 1, k) \in Shown(v, m) /\ SubSeq(f, 1, k) \in Paths
<1>1. DOMAIN m \subseteq Paths
  BY DEF RowsInv, RowsMirror
<1>2. ASSUME NEW q \in Paths, q \in Shown(v, m), NEW n \in 0..Len(q)
      PROVE  SubSeq(q, 1, n) \in Shown(v, m) /\ SubSeq(q, 1, n) \in Paths
  <2>. DEFINE o == SubSeq(q, 1, n)
  <2>1. q \in DOMAIN m /\ OnWay(m, q)
    BY <1>2, OnScreenBy
  <2>2. o \in DOMAIN m
    BY <2>1, RowsAnchor DEF RowsInv
  <2>3. Len(o) = n /\ Len(q) \in Nat
    BY <1>2, Start DEF Paths
  <2>4. OnWay(m, o)
    <3>. SUFFICES ASSUME NEW j \in 0..(Len(o) - 1) PROVE m[SubSeq(o, 1, j)].expanded
      BY DEF OnWay
    <3>1. j \in 0..n /\ j \in 0..(Len(q) - 1)
      BY <2>3
    <3>2. SubSeq(o, 1, j) = SubSeq(q, 1, j)
      BY <1>2, <3>1, StartOfStart DEF Paths
    <3>. QED  BY <2>1, <3>1, <3>2 DEF OnWay
  <2>. HIDE DEF o
  <2>5. o \in Shown(v, m)
    BY <1>1, <2>2, <2>4, OnScreenBy
  <2>. QED  BY <1>1, <2>2, <2>5 DEF o
<1>3. CASE f \in Paths
  <2>1. k \in 0..Len(f)
    <3>1. Len(f) \in Nat
      BY <1>3 DEF Paths
    <3>. QED  BY <3>1
  <2>. QED  BY <1>2, <1>3, <2>1
<1>4. CASE f \notin Paths
  <2>1. Front(f) \in Paths /\ Front(f) \in Shown(v, m) /\ f = Append(Front(f), Slot)
    BY <1>4, OnScreenBy
  <2>. DEFINE q == Front(f)
  <2>2. Len(f) = Len(q) + 1 /\ Len(q) \in Nat /\ \A n \in 0..Len(q) : SubSeq(f, 1, n) = SubSeq(q, 1, n)
    <3>1. q \in Paths /\ f = Append(q, Slot)
      BY <2>1
    <3>. HIDE DEF q
    <3>. QED  BY <3>1, SlotRow
  <2>3. k \in 0..Len(q)
    <3>. HIDE DEF q
    <3>. QED  BY <2>2
  <2>. QED  BY <1>2, <2>1, <2>2, <2>3
<1>. QED  BY <1>3, <1>4

-----------------------------------------------------------------------------
(* The row that takes the place of a removed one.                          *)

(* Every row of a collection is above its placeholder.                     *)
LEMMA AboveSlot ==
    ASSUME NEW p \in Paths \ {<<>>}
    PROVE  Above(p, Append(Front(p), Slot))
<1>. DEFINE a == Front(p)
            z == Append(a, Slot)
<1>1. /\ a \in Paths /\ Len(p) = Len(a) + 1 /\ Len(a) \in Nat /\ p \in Seq(Segments)
      /\ \A n \in 1..Len(a) : a[n] = p[n]
      /\ p[Len(p)] \in Segments
  <2>1. p \in Seq(Segments) /\ p # <<>>
    BY DEF Paths
  <2>2. /\ Front(p) \in Seq(Segments) /\ Len(Front(p)) = Len(p) - 1 /\ Len(p) \in Nat /\ Len(p) > 0
        /\ \A n \in 1..(Len(p) - 1) : Front(p)[n] = p[n]
        /\ p[Len(p)] \in Segments
    BY <2>1, FrontLast
  <2>. QED  BY <2>1, <2>2 DEF Paths
<1>2. /\ z \in Seq(Screened) /\ Len(z) = Len(a) + 1 /\ z[Len(a) + 1] = Slot
      /\ \A n \in 1..Len(a) : z[n] = a[n]
  <2>. HIDE DEF a
  <2>. QED  BY <1>1, SlotRow
<1>3. p \in Seq(Screened)
  BY <1>1 DEF Screened
<1>. HIDE DEF a, z
<1>. DEFINE k == Len(p)
<1>4. p[k] # Slot
  BY <1>1, SlotFacts
<1>5. Earlier(p[k], z[k]) /\ p[k] # z[k]
  BY <1>1, <1>2, <1>4 DEF Earlier
<1>6. \A n \in 1..(k - 1) : p[n] = z[n]
  BY <1>1, <1>2
<1>7. k \in 1..Len(p) /\ k \in 1..Len(z) /\ k \in Nat
  BY <1>1, <1>2
<1>. HIDE DEF k
<1>8. p[k] \in Screened /\ z[k] \in Screened
  BY <1>2, <1>3, <1>7
<1>9. Fork(p, z, k) /\ <<p[k], z[k]>> \in EarlierPairs
  BY <1>5, <1>6, <1>7, <1>8 DEF Fork, EarlierPairs
<1>10. Above(p, z)
  BY <1>2, <1>3, <1>7, <1>9, AboveBy DEF Before, Parts
<1>. QED  BY <1>10 DEF z, a

(* What stands where p stood, in a collection that is still unfolded, is   *)
(* the first of that collection below p.                                   *)
LEMMA SuccessorTakesPlace ==
    ASSUME NEW v \in Versions, NEW e, WellFormed(v, e), NEW m, RowsInv(v, e, m),
           NEW p \in Paths \ {<<>>}, Orderly(v, p), p \notin Shown(v, m),
           Append(Front(p), Slot) \in Shown(v, m),
           NEW f \in Shown(v, m), Place(Shown(v, m), f) = Place(Shown(v, m), p)
    PROVE  TakesPlace(Shown(v, m), f, p)
<1>. DEFINE T == Shown(v, m)
            a == Front(p)
            z == Append(a, Slot)
<1>1. /\ IsFiniteSet(T) /\ \A x \in T : Orderly(v, x)
      /\ \A x, y \in T : Place(T, x) = Place(T, y) => x = y
      /\ \A x, y \in T : Above(x, y) <=> Place(T, x) < Place(T, y)
  BY ShownPlaces, ShownIsOrderly
<1>2. /\ Place(T, p) \in Nat
      /\ \A x \in T : /\ Place(T, x) \in Nat
                      /\ Above(p, x) => Place(T, p) <= Place(T, x)
                      /\ Above(x, p) => Place(T, x) < Place(T, p)
  <2>. HIDE DEF T
  <2>. QED  BY <1>1, PlaceAround
<1>3. Above(p, z) /\ z \in T
  BY AboveSlot
<1>4. a \in T /\ a \in Paths /\ a = Front(z)
  <2>1. z \in T /\ a \in Paths
    <3>1. p \in Seq(Segments) /\ p # <<>>
      BY DEF Paths
    <3>. QED  BY <1>3, <3>1, FrontLast DEF Paths
  <2>2. IsSlot(z) /\ Front(z) = a
    <3>. HIDE DEF a
    <3>. QED  BY <2>1, SlotRow
  <2>. HIDE DEF a, z
  <2>. QED  BY <2>1, <2>2, OnScreenBy
<1>5. f \in T /\ Place(T, f) = Place(T, p) /\ p \notin T
  OBVIOUS
<1>6. p \in Seq(Segments) /\ p # <<>> /\ p \in Seq(Screened)
  BY DEF Paths, Screened
<1>7. Len(p) \in Nat /\ Len(a) = Len(p) - 1 /\ Len(p) > 0 /\ \A n \in 1..(Len(p) - 1) : a[n] = p[n]
  BY <1>6, FrontLast
<1>. HIDE DEF T, a, z
<1>8. ~Above(f, p) /\ f # p
  BY <1>2, <1>5
<1>9. Above(p, f)
  BY <1>1, <1>5, <1>8, AboveOrdered
<1>10. f = z \/ Above(f, z)
  BY <1>1, <1>2, <1>3, <1>5
<1>11. ASSUME f = z PROVE Front(f) = Front(p)
  BY <1>4, <1>11 DEF a
<1>12. ASSUME Above(f, z) PROVE Front(f) = Front(p)
  <2>1. IsAtOrBeneath(f, a) /\ f # a
    <3>1. Orderly(v, a) /\ Orderly(v, f)
      BY <1>1, <1>4, <1>5
    <3>. QED  BY <1>9, <1>12, <3>1, BetweenIsBeneath DEF z, a
  <2>. DEFINE k == Len(p)
              g == SubSeq(f, 1, k)
  <2>2. f \in Seq(Screened) /\ a \in Seq(Screened) /\ Len(f) \in Nat
    BY <1>1, <1>4, <1>5 DEF Orderly
  <2>3. Len(f) >= Len(a) /\ \A n \in 1..Len(a) : f[n] = a[n]
    BY <2>1 DEF IsAtOrBeneath
  <2>4. Len(f) # Len(a)
    BY <2>1, <2>2, BeneathOrder
  <2>5. Len(f) >= k
    BY <1>7, <2>2, <2>3, <2>4
  <2>6. CASE Len(f) = k
    <3>1. f # <<>>
      BY <1>7, <2>6
    <3>2. /\ Front(f) \in Seq(Screened) /\ Len(Front(f)) = k - 1
          /\ \A n \in 1..(k - 1) : Front(f)[n] = f[n]
      BY <2>2, <2>6, <3>1, FrontLast
    <3>3. Len(Front(f)) = Len(a) /\ \A n \in 1..Len(a) : Front(f)[n] = a[n]
      BY <1>7, <2>3, <3>2
    <3>. HIDE DEF k
    <3>4. IsAtOrBeneath(Front(f), a)
      <4>1. Len(a) <= Len(Front(f))
        BY <1>7, <3>3
      <4>. QED  BY <3>3, <4>1 DEF IsAtOrBeneath
    <3>. QED  BY <2>2, <3>2, <3>3, <3>4, BeneathOrder DEF a
  <2>7. CASE Len(f) > k
    <3>1. k \in 0..(Len(f) - 1) /\ k \in 0..Len(f)
      BY <1>7, <2>2, <2>7
    <3>2. g \in T /\ g \in Paths
      BY <1>5, <3>1, StartShows DEF T
    <3>3. /\ g \in Seq(Screened) /\ Len(g) = k /\ \A n \in 1..k : g[n] = f[n]
      BY <2>2, <3>1, Start
    <3>4. IsAtOrBeneath(f, g) /\ g # f
      BY <2>5, <2>7, <3>3 DEF IsAtOrBeneath
    <3>5. g # p
      BY <1>5, <3>2
    <3>10. Len(g) = Len(p)
      BY <3>3
    <3>. HIDE DEF k, g
    <3>6. ~IsAtOrBeneath(p, g)
      BY <1>6, <3>3, <3>5, <3>10, BeneathOrder
    <3>7. ~Above(g, p)
      BY <1>6, <1>8, <2>2, <3>3, <3>4, <3>6, BeneathAbove
    <3>8. Above(p, g)
      BY <1>1, <3>2, <3>5, <3>7, AboveOrdered
    <3>9. Above(g, f)
      BY <3>4 DEF Above
    <3>. QED  BY <1>1, <1>2, <1>5, <3>2, <3>8, <3>9
  <2>. QED  BY <1>7, <2>2, <2>5, <2>6, <2>7
<1>13. Front(f) = Front(p)
  BY <1>10, <1>11, <1>12
<1>14. ASSUME NEW q \in T, Above(p, q) PROVE q = f \/ Above(f, q)
  <2>1. Place(T, f) <= Place(T, q) /\ Place(T, f) \in Nat /\ Place(T, q) \in Nat
    BY <1>2, <1>5, <1>14
  <2>2. Place(T, f) = Place(T, q) => q = f
    BY <1>1, <1>5
  <2>3. Place(T, f) < Place(T, q) => Above(f, q)
    BY <1>1, <1>5
  <2>. QED  BY <2>1, <2>2, <2>3
<1>. QED  BY <1>9, <1>13, <1>14 DEF TakesPlace, T

-----------------------------------------------------------------------------
(* The focus after an unset.                                               *)

(* The index of the focus still names its row where it stayed, and         *)
(* otherwise the row that took its place: the next item or key, or the     *)
(* placeholder (performUnset).                                             *)
LEMMA UnsetFocus ==
    ASSUME FocusInv, FocusInv', ~IsSlot(Focused), UnsetRow(Focused)
    PROVE  IF Focused \in Shown(version, rows') THEN Focused' = Focused
           ELSE TakesPlace(Shown(version, rows'), Focused', Focused)
<1>. DEFINE p == Focused
            T == Shown(version, rows')
<1>1. /\ version \in Versions /\ WellFormed(version, draft) /\ RowsInv(version, draft, rows)
      /\ p \in Shown(version, rows) /\ p \in Paths /\ p \in DOMAIN rows /\ OnWay(rows, p)
      /\ Place(Shown(version, rows), p) = cursor /\ cursor \in Int
  BY FocusBy, FocusedRow DEF FocusInv, TreeInv
<1>2. /\ p # <<>> /\ Holds(draft, p) /\ draft' = Unset(draft, p)
      /\ rows' = IF IsField(Last(p)) THEN ReloadRow(version, draft', rows, p) ELSE RemoveRow(rows, p)
      /\ cursor' = FocusIndex(Shown(version, rows'), cursor)
      /\ version' = version
  BY DEF UnsetRow, PerformUnset, Mutated
<1>3. WellFormed(version, draft') /\ RowsInv(version, draft', rows')
  BY <1>2 DEF FocusInv, TreeInv
<1>4. /\ Cardinality(T) \in Nat /\ Cardinality(T) > 0
      /\ \A x \in T : Place(T, x) \in 0..(Cardinality(T) - 1)
  BY <1>1, <1>3, ShownPlaces
<1>5. Resolves(version, p) /\ Orderly(version, p) /\ p \in Seq(Screened) /\ p \in Seen(rows)
  <2>1. Resolves(version, p)
    BY <1>1, RowsResolve DEF RowsInv
  <2>2. Orderly(version, p)
    BY <1>1, RowIsOrderly
  <2>. QED  BY <1>1, <2>1, <2>2 DEF Orderly, Seen
<1>6. /\ Focused' \in T /\ Place(T, Focused') = cursor'
  <2>1. (Focused \in Shown(version, rows))' /\ (Place(Shown(version, rows), Focused) = cursor)'
    BY FocusByNext
  <2>. QED  BY <1>2, <2>1
<1>. HIDE DEF p
<1>7. SameBefore(rows, rows', p) /\ (IsField(Last(p)) => p \in DOMAIN rows')
  <2>1. CASE IsField(Last(p))
    BY <1>1, <1>2, <1>3, <1>5, <2>1, ReloadKeepsBefore
  <2>2. CASE ~IsField(Last(p))
    BY <1>1, <1>2, <2>2, RemovalKeepsBefore
  <2>. QED  BY <2>1, <2>2
<1>8. Place(T, p) = cursor
  BY <1>1, <1>3, <1>5, <1>7, SameBeforePlace
<1>9. /\ OnWay(rows', p)
      /\ \A n \in 0..(Len(p) - 1) : SubSeq(p, 1, n) \in DOMAIN rows'
  BY <1>1, <1>5, <1>7, WayStays
<1>10. CASE p \in T
  <2>1. cursor' = cursor
    <3>1. cursor \in 0..(Cardinality(T) - 1)
      BY <1>4, <1>8, <1>10
    <3>. HIDE DEF T
    <3>2. FocusIndex(T, cursor) = cursor
      BY <1>1, <1>4, <3>1, FocusIndexBy
    <3>. QED  BY <1>2, <3>2 DEF T
  <2>2. Focused' = p
    BY <1>2, <1>8, <1>10, <2>1, FocusKept
  <2>. QED  BY <1>10, <2>2 DEF p
<1>11. CASE p \notin T
  <2>1. ~IsField(Last(p))
    <3>. SUFFICES ASSUME IsField(Last(p)) PROVE FALSE
      OBVIOUS
    <3>1. p \in DOMAIN rows'
      BY <1>7
    <3>. QED  BY <1>1, <1>3, <1>9, <1>11, <3>1, OnScreenBy
  <2>. DEFINE a == Front(p)
              z == Append(a, Slot)
  <2>2. p \in Paths \ {<<>>}
    BY <1>1, <1>2
  <2>3. /\ a = SubSeq(p, 1, Len(p) - 1) /\ Len(p) \in Nat /\ Len(p) > 0 /\ a \in Paths
        /\ TypeAt(version, a) \in {"array", "map"}
    <3>1. p \in Seq(Segments) /\ p # <<>>
      BY <2>2 DEF Paths
    <3>2. TypeAt(version, a) \in {"array", "map"}
      BY <1>1, <1>5, <2>1, <2>2, ParentResolves
    <3>. QED  BY <3>1, <3>2, FrontLast DEF Paths
  <2>. HIDE DEF a
  <2>4. a \in DOMAIN rows' /\ rows'[a].expanded
    <3>1. Len(p) - 1 \in 0..(Len(p) - 1)
      BY <2>3
    <3>. QED  BY <1>9, <2>3, <3>1 DEF OnWay
  <2>5. OnWay(rows', a)
    <3>1. Len(p) - 1 \in 0..Len(p) /\ \A n \in 0..(Len(p) - 2) : n \in 0..(Len(p) - 1)
      BY <2>3
    <3>2. Len(a) = Len(p) - 1
      BY <2>2, <2>3, <3>1, Start DEF Paths
    <3>. SUFFICES ASSUME NEW n \in 0..(Len(a) - 1) PROVE rows'[SubSeq(a, 1, n)].expanded
      BY DEF OnWay
    <3>3. n \in 0..(Len(p) - 1)
      BY <2>3, <3>2
    <3>4. SubSeq(a, 1, n) = SubSeq(p, 1, n)
      BY <2>2, <2>3, <3>1, <3>3, StartOfStart DEF Paths
    <3>. QED  BY <1>9, <3>3, <3>4 DEF OnWay
  <2>6. a \in Open(version, rows')
    BY <2>3, <2>4, <2>5 DEF Open, Seen
  <2>7. z \in T
    BY <1>1, <1>3, <2>6, OnScreenBy
  <2>8. Place(T, p) <= Place(T, z)
    <3>1. Above(p, z)
      BY <2>2, AboveSlot DEF a
    <3>2. IsFiniteSet(T) /\ \A x \in T : Orderly(version, x)
      BY <1>1, <1>3, ShownPlaces, ShownIsOrderly
    <3>. HIDE DEF T, z
    <3>. QED  BY <1>5, <2>7, <3>1, <3>2, PlaceAround
  <2>9. cursor \in 0..(Cardinality(T) - 1)
    <3>1. cursor \in Nat
      BY FocusBy
    <3>. HIDE DEF T
    <3>. QED  BY <1>4, <1>8, <2>7, <2>8, <3>1
  <2>10. cursor' = cursor
    <3>. HIDE DEF T
    <3>2. FocusIndex(T, cursor) = cursor
      BY <1>1, <1>4, <2>9, FocusIndexBy
    <3>. QED  BY <1>2, <3>2 DEF T
  <2>11. TakesPlace(T, Focused', p)
    <3>. DEFINE f == Focused'
    <3>1. f \in Shown(version, rows') /\ Place(Shown(version, rows'), f) = Place(Shown(version, rows'), p)
      BY <1>6, <1>8, <2>10
    <3>2. Append(Front(p), Slot) \in Shown(version, rows')
      BY <2>7 DEF a
    <3>. HIDE DEF f
    <3>3. TakesPlace(Shown(version, rows'), f, p)
      BY <1>1, <1>3, <1>5, <1>11, <2>2, <3>1, <3>2, SuccessorTakesPlace
    <3>. QED  BY <3>3 DEF f
  <2>. QED  BY <1>11, <2>11 DEF p
<1>. QED  BY <1>10, <1>11

-----------------------------------------------------------------------------
(* The focus stays with its row.                                           *)

(* The step leaves the focus on its row, or where that row is gone, on the *)
(* one that took its place.                                                *)
FocusHolds ==
    IF Focused \in Shown(version, rows') THEN Focused' = Focused
    ELSE TakesPlace(Shown(version, rows'), Focused', Focused)

(* Every other step of the view that changes rows keeps the focus so.      *)
LEMMA ViewHoldsFocus ==
    ASSUME FocusInv, UnsettingInv, ListsInv, SearchInv, ViewStep,
           version' = version, rows' # rows, overlay # "search", ~PressJumpToFinding, ~PressAdd
    PROVE  FocusHolds
<1>1. FocusInv'
  BY ViewKeepsView
<1>2. ASSUME Focused' = Focused PROVE FocusHolds
  <2>1. (Focused \in Shown(version, rows))'
    BY <1>1, FocusByNext
  <2>2. Focused \in Shown(version, rows')
    BY <1>2, <2>1
  <2>. QED  BY <1>2, <2>2 DEF FocusHolds
<1>3. CASE \/ OpenSearch \/ TypeSearch \/ EraseSearch \/ EscapeSearch \/ SelectMatch
           \/ \E delta \in {1, -1} : MoveSearch(delta) \/ MoveVersions(delta)
           \/ OpenVersionList \/ FilterVersions \/ LeaveVersions \/ MoveFocus
  <2>1. rows' = rows \/ overlay = "search"
    BY <1>3 DEF OpenSearch, TypeSearch, EraseSearch, EscapeSearch, SearchFor, SelectMatch, MoveSearch,
                MoveVersions, OpenVersionList, FilterVersions, LeaveVersions, ListVersions, MoveFocus,
                treeVars
  <2>. QED  BY <2>1
<1>4. CASE ToggleFocused(Focused) /\ UNCHANGED cursor /\ ~IsSlot(Focused)
  BY <1>4, <1>2, ToggleFocusStays
<1>5. CASE ExpandFocused \/ CollapseFocused
  <2>1. (ToggleFocused(Focused) /\ UNCHANGED cursor /\ ~IsSlot(Focused)) \/ UNCHANGED treeVars
    BY <1>5 DEF ExpandFocused, CollapseFocused
  <2>. QED  BY <1>4, <2>1 DEF treeVars
<1>6. CASE PressEnter
  <2>1. (ToggleFocused(Focused) /\ UNCHANGED cursor /\ ~IsSlot(Focused)) \/ UNCHANGED rows
    BY <1>6 DEF PressEnter, ConfirmEditor
  <2>. QED  BY <1>4, <2>1
<1>7. CASE UnsetRow(Focused) /\ ~IsSlot(Focused)
  BY <1>1, <1>7, UnsetFocus DEF FocusHolds
<1>8. CASE PressUnset
  <2>1. (UnsetRow(Focused) /\ ~IsSlot(Focused)) \/ UNCHANGED treeVars
    BY <1>8 DEF PressUnset
  <2>. QED  BY <1>7, <2>1 DEF treeVars
<1>9. CASE AnswerUnset
  <2>1. Focused \in Paths /\ unsetting.path = Focused
    BY <1>9 DEF AnswerUnset, UnsettingInv
  <2>2. ~IsSlot(Focused)
    BY <2>1, FocusedRow
  <2>3. UnsetRow(unsetting.path) \/ UNCHANGED treeVars
    BY <1>9 DEF AnswerUnset
  <2>. QED  BY <1>7, <2>1, <2>2, <2>3 DEF treeVars
<1>10. CASE FindingsLand
  <2>1. ApplyReport /\ UNCHANGED cursor
    BY <1>10 DEF FindingsLand
  <2>. QED  BY <1>2, <2>1, FindingsFocusStays
<1>11. CASE SelectVersion
  <2>. DEFINE target == VersionMatches[versionList.cursor + 1]
  <2>1. version' = target /\ VersionMatches # <<>>
    BY <1>11 DEF SelectVersion, SwitchTo
  <2>2. /\ Len(VersionMatches) \in Nat /\ DOMAIN VersionMatches = 1..Len(VersionMatches)
        /\ \A n \in DOMAIN VersionMatches : VersionMatches[n] # version
        /\ Len(VersionMatches) = 0 => VersionMatches = <<>>
    BY VersionMatchesFacts DEF ListsInv
  <2>3. versionList.cursor + 1 \in DOMAIN VersionMatches
    BY <2>1, <2>2 DEF ListsInv, InView, Lists
  <2>4. target # version
    BY <2>2, <2>3
  <2>. QED  BY <2>1, <2>4
<1>. QED
  BY <1>3, <1>5, <1>6, <1>8, <1>9, <1>10, <1>11 DEF ViewStep

(* A step that changes the rows of the open version is one of its view.    *)
LEMMA RowsChangeInView ==
    ASSUME BrowseStep, Composing, version \in Versions, version' = version, rows' # rows
    PROVE  ViewStep
<1>1. version' # Null
  BY ComposeViewAssumption
<1>2. CASE ReturnToPicker \/ Quit
  BY <1>1, <1>2 DEF ReturnToPicker, Quit, CloseView
<1>3. CASE Resize
  BY <1>3 DEF Resize, viewVars, treeVars
<1>4. CASE Compose
  BY <1>4 DEF Compose
<1>5. CASE RefuseLaunch \/ Launch \/ TypePicker \/ ErasePicker \/ ClearPicker
           \/ (\E delta \in {1, -1} : MovePicker(delta))
           \/ SelectHighlighted \/ OpenCompose \/ FailToOpen
  BY <1>5 DEF RefuseLaunch, Launch, TypePicker, ErasePicker, ClearPicker, MovePicker,
              Pick, SelectHighlighted, OpenCompose, FailToOpen, Composing
<1>. QED  BY <1>2, <1>3, <1>4, <1>5 DEF BrowseStep

(* The focus goes to the item or key that `a` added, stays on a row that   *)
(* is changed or folds, and where its row is gone goes to the one that     *)
(* took its place (appendItem, confirmKeyPrompt, performUnset,             *)
(* toggleFocused).                                                         *)
THEOREM FocusTheorem == BrowseSpec => FocusStaysWithItsRow
<1>. DEFINE A == Composing /\ version' = version /\ rows' # rows
                   /\ overlay # "search" /\ ~PressJumpToFinding =>
                   CASE PressAdd ->
                           Focused' \in {p \in DOMAIN draft' \ DOMAIN draft : ~IsField(Last(p))}
                     [] ~PressAdd /\ Focused \in Shown(version, rows)' -> Focused' = Focused
                     [] OTHER -> TakesPlace(Shown(version, rows)', Focused', Focused)
<1>1. ViewInv /\ SearchingInv /\ [BrowseNext]_browseVars => [A]_browseVars
  <2>. SUFFICES ASSUME ViewInv, SearchingInv, BrowseStep,
                       Composing, version' = version, rows' # rows,
                       overlay # "search", ~PressJumpToFinding
                PROVE  CASE PressAdd ->
                               Focused' \in {p \in DOMAIN draft' \ DOMAIN draft : ~IsField(Last(p))}
                         [] ~PressAdd /\ Focused \in Shown(version, rows)' -> Focused' = Focused
                         [] OTHER -> TakesPlace(Shown(version, rows)', Focused', Focused)
    BY DEF BrowseNext
  <2>1. FocusInv /\ UnsettingInv /\ ListsInv /\ SearchInv /\ version \in Versions
    BY DEF ViewInv, SearchingInv, OnScreenInv, FocusInv, TreeInv
  <2>2. ViewStep
    BY <2>1, RowsChangeInView
  <2>3. CASE PressAdd
    <3>1. FocusInv'
      BY <2>1, <2>2, ViewKeepsView
    <3>2. Focused' \in {p \in DOMAIN draft' \ DOMAIN draft : ~IsField(Last(p))}
      BY <2>1, <2>3, <3>1, AddFocuses
    <3>. QED  BY <2>3, <3>2
  <2>4. CASE ~PressAdd
    <3>1. FocusHolds
      BY <2>1, <2>2, <2>4, ViewHoldsFocus
    <3>. QED  BY <2>4, <3>1 DEF FocusHolds
  <2>. QED  BY <2>3, <2>4
<1>2. FocusStaysWithItsRow <=> [][A]_browseVars
  BY DEF FocusStaysWithItsRow
<1>. HIDE DEF A
<1>. QED  BY <1>1, <1>2, SearchingTheorem, ViewTheorem, PTL DEF BrowseSpec

-----------------------------------------------------------------------------
(* Where a jump ends.                                                      *)

(* The dotted path of a path's start is a start of its dotted path.        *)
LEMMA DottedStart ==
    ASSUME NEW X, NEW s \in Seq(X), NEW k \in 0..Len(s)
    PROVE  IsPrefix(Dotted(SubSeq(s, 1, k)), Dotted(s))
<1>. DEFINE t == SubSeq(s, 1, k)
            F == {n \in DOMAIN s : s[n] \notin {Item, Value}}
            G == {n \in F : n <= k}
            H == {n \in F : n > k}
<1>1. /\ Len(s) \in Nat /\ DOMAIN s = 1..Len(s) /\ \A n \in 1..Len(s) : s[n] \in X
      /\ t \in Seq(X) /\ Len(t) = k /\ DOMAIN t = 1..k /\ \A n \in 1..k : t[n] = s[n]
  BY Start
<1>. HIDE DEF t
<1>2. /\ IsFiniteSet(G) /\ IsFiniteSet(H)
      /\ \A n \in F : n \in Nat /\ s[n] \in X /\ n \in 1..Len(s)
  <2>1. IsFiniteSet(1..Len(s))
    <3>1. Len(s) \in Int
      BY <1>1
    <3>. HIDE DEF F, G, H
    <3>. QED  BY <3>1, FS_Interval, 1 \in Int
  <2>2. G \in SUBSET (1..Len(s)) /\ H \in SUBSET (1..Len(s))
    BY <1>1
  <2>. QED  BY <1>1, <2>1, <2>2, FS_Subset
<1>3. {n \in DOMAIN t : t[n] \notin {Item, Value}} = G
  BY <1>1
<1>. HIDE DEF F
<1>4. PICK at \in Seq(G) : PickedAt(s, G, at)
  <2>. HIDE DEF G
  <2>1. \A n \in G : n \in Nat
    BY <1>2 DEF G
  <2>. QED  BY <1>2, <2>1, PickedBy
<1>5. PICK et \in Seq(H) : PickedAt(s, H, et)
  <2>. HIDE DEF H
  <2>1. \A n \in H : n \in Nat
    BY <1>2 DEF H
  <2>. QED  BY <1>2, <2>1, PickedBy
<1>. DEFINE c == Len(at)
            e == Len(et)
            bt == [i \in 1..(c + e) |-> IF i <= c THEN at[i] ELSE et[i - c]]
<1>6. /\ c \in Nat /\ e \in Nat
      /\ \A i \in 1..c : at[i] \in G
      /\ \A i \in 1..e : et[i] \in H
      /\ \A i, j \in 1..c : i < j => at[i] < at[j]
      /\ \A i, j \in 1..e : i < j => et[i] < et[j]
      /\ \A n \in G : \E i \in 1..c : at[i] = n
      /\ \A n \in H : \E i \in 1..e : et[i] = n
      /\ at = [i \in 1..c |-> at[i]]
  <2>1. /\ \A n \in G : n \in Nat
        /\ \A n \in H : n \in Nat
    BY <1>2 DEF G, H
  <2>. HIDE DEF G, H
  <2>2. /\ c \in Nat /\ e \in Nat /\ DOMAIN at = 1..c /\ at = [i \in DOMAIN at |-> at[i]]
    BY DEF c, e
  <2>3. /\ \A i \in 1..c : at[i] \in G
        /\ \A i, j \in 1..c : i < j => at[i] < at[j]
        /\ \A n \in G : \E i \in 1..c : at[i] = n
    BY <1>4 DEF PickedAt
  <2>4. /\ \A i \in 1..e : et[i] \in H
        /\ \A i, j \in 1..e : i < j => et[i] < et[j]
        /\ \A n \in H : \E i \in 1..e : et[i] = n
    BY <1>5 DEF PickedAt
  <2>. QED  BY <2>2, <2>3, <2>4
<1>. HIDE DEF c, e
<1>7. \A i \in 1..(c + e) : /\ i <= c => i \in 1..c /\ bt[i] = at[i]
                            /\ ~(i <= c) => i - c \in 1..e /\ bt[i] = et[i - c]
  BY <1>6
<1>8. \A i \in 1..(c + e) : bt[i] \in F /\ bt[i] \in Nat
  <2>1. \A n \in G \cup H : n \in F /\ n \in Nat
    BY <1>2
  <2>. HIDE DEF G, H, bt
  <2>. TAKE i \in 1..(c + e)
  <2>2. CASE i <= c
    BY <1>6, <1>7, <2>1, <2>2
  <2>3. CASE ~(i <= c)
    BY <1>6, <1>7, <2>1, <2>3
  <2>. QED  BY <2>2, <2>3
<1>9. bt \in [1..(c + e) -> Nat]
  BY <1>8
<1>10. \A i, j \in 1..(c + e) : i < j => bt[i] < bt[j]
  <2>. HIDE DEF bt
  <2>. SUFFICES ASSUME NEW i \in 1..(c + e), NEW j \in 1..(c + e), i < j PROVE bt[i] < bt[j]
    OBVIOUS
  <2>1. CASE j <= c
    <3>1. i <= c
      BY <1>6, <2>1
    <3>2. i \in 1..c /\ j \in 1..c /\ bt[i] = at[i] /\ bt[j] = at[j]
      BY <1>7, <2>1, <3>1
    <3>. QED  BY <1>6, <3>2
  <2>2. CASE ~(j <= c) /\ i <= c
    <3>1. bt[i] = at[i] /\ i \in 1..c /\ bt[j] = et[j - c] /\ j - c \in 1..e
      BY <1>7, <2>2
    <3>2. at[i] \in G /\ et[j - c] \in H
      BY <1>6, <3>1
    <3>3. at[i] <= k /\ et[j - c] > k /\ at[i] \in Nat /\ et[j - c] \in Nat
      BY <1>2, <3>2
    <3>. QED  BY <3>1, <3>3
  <2>3. CASE ~(i <= c)
    <3>1. ~(j <= c) /\ i - c < j - c
      BY <1>6, <2>3
    <3>. QED  BY <1>6, <1>7, <2>3, <3>1
  <2>. QED  BY <2>1, <2>2, <2>3
<1>11. {bt[i] : i \in 1..(c + e)} = F
  <2>1. ASSUME NEW n \in F PROVE \E i \in 1..(c + e) : bt[i] = n
    <3>1. CASE n <= k
      <4>1. PICK i \in 1..c : at[i] = n
        BY <1>6, <3>1
      <4>2. i \in 1..(c + e) /\ i <= c
        BY <1>6
      <4>. HIDE DEF bt
      <4>. QED  BY <1>7, <4>1, <4>2
    <3>2. CASE ~(n <= k)
      <4>1. n > k
        BY <1>2, <3>2
      <4>2. PICK i \in 1..e : et[i] = n
        BY <1>6, <4>1
      <4>3. i + c \in 1..(c + e) /\ ~(i + c <= c) /\ (i + c) - c = i
        BY <1>6
      <4>. HIDE DEF bt
      <4>. QED  BY <1>7, <4>2, <4>3
    <3>. QED  BY <3>1, <3>2
  <2>. HIDE DEF bt
  <2>. QED  BY <1>8, <2>1
<1>12. {at[i] : i \in 1..c} = G
  BY <1>6
<1>. HIDE DEF bt, G, H
<1>13. Dotted(s) = [i \in 1..(c + e) |-> s[bt[i]]]
  <2>1. c + e \in Nat
    BY <1>6
  <2>2. Picked(s, {bt[i] : i \in 1..(c + e)}) = [i \in 1..(c + e) |-> s[bt[i]]]
    BY <1>9, <1>10, <2>1, PickedInOrder
  <2>. QED  BY <1>11, <2>2 DEF Dotted, F
<1>14. Dotted(t) = [i \in 1..c |-> t[at[i]]]
  <2>1. \A n \in G : n \in Nat
    BY <1>2 DEF G
  <2>2. at \in [1..c -> Nat]
    BY <1>6, <2>1
  <2>3. Picked(t, {at[i] : i \in 1..c}) = [i \in 1..c |-> t[at[i]]]
    <3>1. \A i, j \in 1..c : i < j => at[i] < at[j]
      BY <1>6
    <3>2. c \in Nat
      BY <1>6
    <3>. HIDE DEF c
    <3>. QED  BY <2>2, <3>1, <3>2, PickedInOrder
  <2>. QED  BY <1>3, <1>12, <2>3 DEF Dotted
<1>15. \A i \in 1..c : /\ i \in 1..(c + e) /\ Dotted(t)[i] = Dotted(s)[i]
  <2>. TAKE i \in 1..c
  <2>1. i \in 1..(c + e) /\ i <= c /\ at[i] \in 1..k
    BY <1>2, <1>6 DEF G
  <2>2. bt[i] = at[i] /\ t[at[i]] = s[at[i]]
    BY <1>1, <1>7, <2>1
  <2>. QED  BY <1>13, <1>14, <2>1, <2>2
<1>16. Dotted(s) \in Seq(X) /\ Len(Dotted(s)) = c + e
  <2>1. \A i \in 1..(c + e) : s[bt[i]] \in X
    BY <1>2, <1>8
  <2>2. c + e \in Nat
    BY <1>6
  <2>. HIDE DEF bt
  <2>. QED  BY <1>13, <2>1, <2>2
<1>17. Dotted(t) \in Seq(X) /\ Len(Dotted(t)) = c
  <2>1. \A i \in 1..c : at[i] \in 1..k
    BY <1>2, <1>6 DEF G
  <2>2. \A i \in 1..c : t[at[i]] \in X
    BY <1>1, <2>1
  <2>3. c \in Nat
    BY <1>6
  <2>. HIDE DEF c
  <2>4. [i \in 1..c |-> t[at[i]]] \in Seq(X) /\ Len([i \in 1..c |-> t[at[i]]]) = c
    BY <2>2, <2>3
  <2>. QED  BY <1>14, <2>4
<1>18. SubSeq(Dotted(t), 1, c) = Dotted(t)
  BY <1>6, <1>17, Start
<1>19. SubSeq(Dotted(s), 1, c) = Dotted(t)
  <2>1. c \in 0..Len(Dotted(s))
    BY <1>6, <1>16
  <2>2. /\ SubSeq(Dotted(s), 1, c) \in Seq(X) /\ Len(SubSeq(Dotted(s), 1, c)) = c
        /\ \A i \in 1..c : SubSeq(Dotted(s), 1, c)[i] = Dotted(s)[i]
    BY <1>16, <2>1, Start
  <2>. QED  BY <1>15, <1>17, <2>2, SameSequence
<1>20. c <= c + e
  BY <1>6
<1>21. IsPrefix(Dotted(t), Dotted(s))
  BY <1>16, <1>17, <1>18, <1>19, <1>20 DEF IsPrefix
<1>. QED  BY <1>21 DEF t

(* A path that ends in a field is its own nearest field, and so is the root. *)
LEMMA OwnField ==
    ASSUME NEW p \in Paths, p = <<>> \/ IsField(Last(p))
    PROVE  NearestField(p) = p
<1>. DEFINE Is(n) == /\ n = 0 \/ IsField(p[n])
                     /\ \A m \in (n + 1)..Len(p) : ~IsField(p[m])
<1>1. p \in Seq(Segments) /\ Len(p) \in Nat /\ (p = <<>> <=> Len(p) = 0)
  BY DEF Paths
<1>2. Len(p) = 0 \/ IsField(p[Len(p)])
  BY <1>1, FrontLast
<1>3. Is(Len(p))
  BY <1>1, <1>2
<1>4. \A n \in 0..Len(p) : Is(n) => n = Len(p)
  <2>. SUFFICES ASSUME NEW n \in 0..Len(p), Is(n), n # Len(p) PROVE FALSE
    OBVIOUS
  <2>1. Len(p) \in (n + 1)..Len(p) /\ Len(p) # 0
    BY <1>1
  <2>. QED  BY <1>2, <2>1
<1>. HIDE DEF Is
<1>5. (CHOOSE n \in 0..Len(p) : Is(n)) = Len(p)
  BY <1>1, <1>3, <1>4
<1>6. NearestField(p) = SubSeq(p, 1, Len(p))
  BY <1>5 DEF NearestField, Is
<1>. QED  BY <1>1, <1>6

(* Into the first entries, one segment further and back.                   *)
LEMMA IntoFirstBy ==
    ASSUME NEW d, NEW p \in Paths, IntoFirst(d, p)
    PROVE  /\ \A k \in 0..Len(p) : IntoFirst(d, SubSeq(p, 1, k))
           /\ \A x \in Segments : /\ IsItem(x) => x.item = 0
                                  /\ IsKey(x) => \A key \in KeysAt(d, p) : x.key <= key
                                  => IntoFirst(d, Append(p, x))
<1>1. p \in Seq(Segments) /\ Len(p) \in Nat /\ DOMAIN p = 1..Len(p)
  BY DEF Paths
<1>2. ASSUME NEW k \in 0..Len(p) PROVE IntoFirst(d, SubSeq(p, 1, k))
  <2>. DEFINE q == SubSeq(p, 1, k)
  <2>1. q \in Seq(Segments) /\ Len(q) = k /\ DOMAIN q = 1..k /\ \A n \in 1..k : q[n] = p[n] /\ n \in DOMAIN p
    BY <1>1, Start
  <2>2. \A n \in 1..k : SubSeq(q, 1, n - 1) = SubSeq(p, 1, n - 1)
    <3>. TAKE n \in 1..k
    <3>1. n - 1 \in 0..k
      OBVIOUS
    <3>. QED  BY <1>1, <3>1, StartOfStart
  <2>. HIDE DEF q
  <2>3. IntoFirst(d, q)
    BY <2>1, <2>2 DEF IntoFirst
  <2>. QED  BY <2>3 DEF q
<1>3. ASSUME NEW x \in Segments, IsItem(x) => x.item = 0,
             IsKey(x) => \A key \in KeysAt(d, p) : x.key <= key
      PROVE  IntoFirst(d, Append(p, x))
  <2>. DEFINE q == Append(p, x)
  <2>1. /\ q \in Seq(Segments) /\ DOMAIN q = 1..(Len(p) + 1) /\ Len(q) = Len(p) + 1
        /\ q[Len(p) + 1] = x /\ \A n \in 1..Len(p) : q[n] = p[n]
    BY <1>1
  <2>2. q # <<>> /\ Front(q) = p
    BY <1>1, Appended
  <2>. HIDE DEF q
  <2>3. SubSeq(q, 1, Len(p)) = p
    <3>1. Len(q) - 1 = Len(p)
      BY <1>1, <2>1
    <3>. QED  BY <2>1, <2>2, <3>1, FrontLast
  <2>4. \A n \in 0..Len(p) : SubSeq(q, 1, n) = SubSeq(p, 1, n)
    <3>. TAKE n \in 0..Len(p)
    <3>1. Len(p) \in 0..Len(q)
      BY <1>1, <2>1
    <3>2. SubSeq(SubSeq(q, 1, Len(p)), 1, n) = SubSeq(q, 1, n)
      BY <2>1, <3>1, StartOfStart
    <3>. QED  BY <2>3, <3>2
  <2>5. ASSUME NEW n \in 1..(Len(p) + 1)
        PROVE  /\ IsItem(q[n]) => q[n].item = 0
               /\ IsKey(q[n]) => \A key \in KeysAt(d, SubSeq(q, 1, n - 1)) : q[n].key <= key
    <3>1. CASE n = Len(p) + 1
      <4>1. n - 1 = Len(p)
        BY <1>1, <3>1
      <4>2. SubSeq(q, 1, n - 1) = p
        BY <2>3, <4>1
      <4>. QED  BY <1>3, <2>1, <3>1, <4>2
    <3>2. CASE n # Len(p) + 1
      <4>1. n \in 1..Len(p) /\ n - 1 \in 0..Len(p)
        BY <1>1, <3>2
      <4>2. q[n] = p[n] /\ SubSeq(q, 1, n - 1) = SubSeq(p, 1, n - 1)
        BY <2>1, <2>4, <4>1
      <4>3. /\ IsItem(p[n]) => p[n].item = 0
            /\ IsKey(p[n]) => \A key \in KeysAt(d, SubSeq(p, 1, n - 1)) : p[n].key <= key
        <5>1. n \in DOMAIN p
          BY <1>1, <4>1
        <5>. QED  BY <5>1, Zenon DEF IntoFirst
      <4>. QED  BY <4>2, <4>3
    <3>. QED  BY <3>1, <3>2
  <2>6. IntoFirst(d, q)
    BY <2>1, <2>5 DEF IntoFirst
  <2>. QED  BY <2>6 DEF q
<1>. QED  BY <1>2, <1>3

(* How far along s a jump is after n segments.                             *)
Walked(v, d, s, n, b) ==
    IF b.landed
    THEN IsLanding(v, d, b.at, Dotted(s))
    ELSE SchemaPath(b.at) = SubSeq(s, 1, n) /\ IntoFirst(d, b.at)

(* It ends in the field of a collection that holds nothing.                *)
LEMMA EmptyEnds ==
    ASSUME NEW v \in Versions, NEW d, NEW r, RowsMirror(v, d, r), NEW p \in DOMAIN r,
           NEW s \in Seq(Names), NEW k \in 0..Len(s), SchemaPath(p) = SubSeq(s, 1, k),
           IntoFirst(d, p), TypeAt(v, p) \in {"array", "map"}, ChildrenOf(d, p) = {}
    PROVE  IsLanding(v, d, NearestField(p), Dotted(s))
<1>1. p \in Paths /\ Len(p) \in Nat /\ Len(p) = k /\ Len(s) \in Nat
  <2>1. p \in Paths
    BY RowsResolve
  <2>2. Len(SchemaPath(p)) = Len(p) /\ Len(SubSeq(s, 1, k)) = k
    BY <2>1, SchemaPathType, Start
  <2>. QED  BY <2>1, <2>2 DEF Paths
<1>2. PICK n \in 0..Len(p) : NearestField(p) = SubSeq(p, 1, n)
  BY <1>1, NearestFieldBy
<1>. DEFINE q == NearestField(p)
<1>3. q \in Paths /\ IntoFirst(d, q) /\ SchemaPath(q) = SubSeq(SubSeq(s, 1, k), 1, n)
  BY <1>1, <1>2, Start, IntoFirstBy, SchemaPathStart DEF Paths
<1>4. SchemaPath(q) = SubSeq(s, 1, n) /\ n \in 0..Len(s)
  BY <1>1, <1>3, StartOfStart
<1>5. p \in DOMAIN d \cup {q}
  <2>1. CASE p = <<>> \/ IsField(Last(p))
    BY <1>1, <2>1, OwnField
  <2>2. CASE p # <<>> /\ ~IsField(Last(p))
    BY <1>1, <2>2 DEF RowsMirror, Addressed
  <2>. QED  BY <2>1, <2>2
<1>. HIDE DEF q
<1>6. ~IsSlot(q)
  BY <1>3, NoSlotInRow
<1>7. IsPrefix(Dotted(SubSeq(s, 1, n)), Dotted(s))
  BY <1>4, DottedStart
<1>8. NodePath(q) = Dotted(SubSeq(s, 1, n))
  BY <1>4, <1>6 DEF NodePath
<1>9. IsLanding(v, d, q, Dotted(s))
  BY <1>3, <1>5, <1>6, <1>7, <1>8 DEF IsLanding, q
<1>. QED  BY <1>9 DEF q

(* Each segment goes to the field, to the first item or to the least key,  *)
(* or ends the jump where there is none (stepToward).                      *)
LEMMA LandPastWalks ==
    ASSUME NEW v \in Versions, NEW d, WellFormed(v, d), NEW s \in DOMAIN FieldTree[v],
           NEW n \in 1..Len(s), NEW b, RowsInv(v, d, b.rows), b.at \in DOMAIN b.rows,
           Walked(v, d, s, n - 1, b)
    PROVE  Walked(v, d, s, n, LandPast(v, d, s, n, b))
<1>. DEFINE p == b.at
            first(at, keys) == Append(at, KeySegment(CHOOSE k \in keys : \A j \in keys : k <= j))
            loaded == LoadRows(v, d, b.rows, {p})
            keys == {Last(q).key : q \in {c \in RowChildren(loaded, p) : IsKey(Last(c))}}
            next == CASE s[n] = Item -> Append(p, IndexSegment(0))
                      [] s[n] = Value /\ keys # {} -> first(p, keys)
                      [] OTHER -> Append(p, FieldSegment(s[n]))
            past == LandPast(v, d, s, n, b)
            u == SubSeq(s, 1, n)
<1>0. past = IF b.landed THEN b
             ELSE IF next \in DOMAIN loaded
                  THEN [rows |-> ExpandRow(v, d, loaded, p), at |-> next, landed |-> FALSE]
                  ELSE [rows |-> loaded, at |-> NearestField(p), landed |-> TRUE]
  BY DEF LandPast
<1>. SUFFICES Walked(v, d, s, n, past)
  OBVIOUS
<1>. HIDE DEF past
<1>1. CASE b.landed
  BY <1>0, <1>1 DEF Walked
<1>2. CASE ~b.landed
  <2>1. SchemaPath(p) = SubSeq(s, 1, n - 1) /\ IntoFirst(d, p)
    BY <1>2 DEF Walked
  <2>2. RowsMirror(v, d, b.rows) /\ {p} \in SUBSET DOMAIN b.rows /\ p \in Paths /\ Resolves(v, p)
    BY RowsResolve DEF RowsInv
  <2>3. RowsMirror(v, d, loaded) /\ p \in DOMAIN loaded /\ loaded[p].loaded
    BY <2>2, LoadRowsBy
  <2>. HIDE DEF loaded
  <2>4. \A q \in Paths \ {<<>>} : Front(q) = p /\ Addressed(v, d, q) => q \in DOMAIN loaded
    BY <2>3 DEF RowsMirror
  <2>5. DOMAIN loaded \subseteq Paths
    BY <2>3 DEF RowsMirror
  <2>6. RowChildren(loaded, p) = {q \in DOMAIN loaded \ {<<>>} : Front(q) = p}
    BY <2>2, <2>5, RowChildrenBy
  <2>7. s \in Seq(Names) /\ Len(s) \in Nat /\ n \in 0..Len(s) /\ n - 1 \in 0..n /\ n - 1 \in 0..Len(s)
    BY TreeFacts
  <2>8. /\ u \in DOMAIN FieldTree[v] \ {<<>>} /\ u \in Seq(Names) /\ Len(u) = n
        /\ Front(u) = SchemaPath(p) /\ Last(u) = s[n] /\ u = Append(SchemaPath(p), s[n])
    <3>1. u \in DOMAIN FieldTree[v] /\ u \in Seq(Names) /\ Len(u) = n /\ u # <<>> /\ u[n] = s[n]
      BY <2>7, SchemaStart, Start
    <3>2. SubSeq(u, 1, n - 1) = SubSeq(s, 1, n - 1)
      BY <2>7, StartOfStart
    <3>. HIDE DEF u
    <3>3. Front(u) = SubSeq(u, 1, n - 1) /\ Last(u) = u[n] /\ u = Append(Front(u), Last(u))
      BY <3>1, FrontLast
    <3>. QED  BY <2>1, <3>1, <3>2, <3>3
  <2>9. \/ TypeAt(v, p) = "object" /\ s[n] \notin {Item, Value}
        \/ TypeAt(v, p) = "array" /\ s[n] = Item
        \/ TypeAt(v, p) = "map" /\ s[n] = Value
    BY <2>8, TreeFacts DEF TypeAt
  <2>. HIDE DEF u, p
  <2>10. Item # Value
    BY DEF Item, Value
  <2>11. ASSUME NEW x \in Segments, next = Append(p, x), SchemaPath(next) = u,
                IsField(x) \/ next \in DOMAIN d,
                IsItem(x) => x.item = 0, IsKey(x) => \A key \in KeysAt(d, p) : x.key <= key
         PROVE  Walked(v, d, s, n, past)
    <3>. HIDE DEF next
    <3>1. next \in Paths \ {<<>>} /\ Front(next) = p /\ Last(next) = x
      BY <2>2, <2>11, Appended DEF Paths
    <3>2. Addressed(v, d, next)
      BY <2>8, <2>11, <3>1 DEF Addressed, Resolves
    <3>3. past.at = next /\ past.landed = FALSE
      BY <1>0, <1>2, <2>4, <3>1, <3>2
    <3>4. IntoFirst(d, next)
      BY <2>1, <2>2, <2>11, IntoFirstBy
    <3>. QED  BY <2>11, <3>3, <3>4 DEF Walked, u
  <2>12. ASSUME TypeAt(v, p) \in {"array", "map"}, ChildrenOf(d, p) = {}, next \notin DOMAIN loaded
         PROVE  Walked(v, d, s, n, past)
    <3>. HIDE DEF next
    <3>1. IsLanding(v, d, NearestField(p), Dotted(s))
      BY <2>1, <2>3, <2>7, <2>12, EmptyEnds
    <3>2. past.at = NearestField(p) /\ past.landed = TRUE
      BY <1>0, <1>2, <2>12
    <3>. QED  BY <3>1, <3>2 DEF Walked
  <2>13. \A q \in ChildrenOf(d, p) : /\ q \in DOMAIN d /\ q \in Paths \ {<<>>} /\ Front(q) = p
                                     /\ Resolves(v, q) /\ Last(q) \in Segments /\ q = Append(p, Last(q))
    <3>1. DOMAIN d \subseteq Paths \ {<<>>} /\ \A q \in DOMAIN d : Resolves(v, q)
      BY DEF WellFormed, IsDraft
    <3>2. ChildrenOf(d, p) = {q \in DOMAIN d : Front(q) = p}
      BY <2>2, <3>1, DraftChildren
    <3>. QED  BY <3>1, <3>2, FrontLast DEF Paths
  <2>14. CASE TypeAt(v, p) = "object" /\ s[n] \notin {Item, Value}
    <3>1. s[n] \in STRING \ {Item, Value}
      BY <2>7, <2>14 DEF Names
    <3>2. next = Append(p, FieldSegment(s[n]))
      BY <2>14
    <3>3. /\ FieldSegment(s[n]) \in Segments /\ IsField(FieldSegment(s[n]))
          /\ ~IsItem(FieldSegment(s[n])) /\ ~IsKey(FieldSegment(s[n]))
          /\ SchemaPath(Append(p, FieldSegment(s[n]))) = Append(SchemaPath(p), s[n])
      BY <2>2, <3>1, FieldSegments, SchemaPathAppend
    <3>. HIDE DEF next
    <3>. QED  BY <2>8, <2>11, <3>2, <3>3
  <2>15. CASE TypeAt(v, p) = "array" /\ s[n] = Item
    <3>1. next = Append(p, IndexSegment(0))
      BY <2>10, <2>15
    <3>2. /\ IndexSegment(0) \in Segments /\ IndexSegment(0).item = 0
          /\ IsItem(IndexSegment(0)) /\ ~IsKey(IndexSegment(0)) /\ ~IsField(IndexSegment(0))
          /\ SchemaPath(Append(p, IndexSegment(0))) = Append(SchemaPath(p), Item)
      BY <2>2, IndexSegments, SchemaPathAppend
    <3>. HIDE DEF next
    <3>3. CASE next \in DOMAIN d
      BY <2>8, <2>11, <2>15, <3>1, <3>2, <3>3
    <3>4. CASE next \notin DOMAIN d
      <4>1. next \notin DOMAIN loaded
        <5>1. next \in Paths \ {<<>>} /\ Last(next) = IndexSegment(0)
          BY <2>2, <3>1, <3>2, Appended DEF Paths
        <5>. QED  BY <2>3, <3>2, <3>4, <5>1 DEF RowsMirror, Addressed
      <4>2. ItemCount(d, p) \in Nat /\ \A i \in Nat : Append(p, IndexSegment(i)) \in DOMAIN d <=> i < ItemCount(d, p)
        BY <2>2, HeldItems DEF WellFormed, IsDraft
      <4>3. ASSUME NEW q \in ChildrenOf(d, p) PROVE FALSE
        <5>1. IsItem(Last(q))
          BY <2>13, <2>15, ParentResolves
        <5>2. Last(q).item \in Nat /\ Last(q) = IndexSegment(Last(q).item)
          BY <2>13, <5>1, SegmentKinds
        <5>3. Last(q).item < ItemCount(d, p)
          BY <2>13, <4>2, <5>2
        <5>4. 0 < ItemCount(d, p)
          BY <4>2, <5>2, <5>3
        <5>. QED  BY <3>1, <3>4, <4>2, <5>4
      <4>. QED  BY <2>12, <2>15, <4>1, <4>3
    <3>. QED  BY <3>3, <3>4
  <2>16. CASE TypeAt(v, p) = "map" /\ s[n] = Value
    <3>1. KeysAt(d, p) = {k \in Nat : Append(p, KeySegment(k)) \in DOMAIN d}
      BY <2>2, HeldKeys DEF WellFormed, IsDraft
    <3>2. keys \subseteq KeysAt(d, p)
      <4>1. ASSUME NEW q \in RowChildren(loaded, p), IsKey(Last(q)) PROVE Last(q).key \in KeysAt(d, p)
        <5>1. q \in DOMAIN loaded /\ q \in Paths \ {<<>>} /\ Front(q) = p
          BY <2>5, <2>6
        <5>2. Last(q) \in Segments /\ q = Append(p, Last(q))
          BY <5>1, FrontLast DEF Paths
        <5>3. Last(q).key \in Nat /\ Last(q) = KeySegment(Last(q).key) /\ ~IsField(Last(q))
          BY <4>1, <5>2, SegmentKinds
        <5>4. q \in DOMAIN d
          BY <2>3, <5>1, <5>3 DEF RowsMirror, Addressed
        <5>. QED  BY <3>1, <5>2, <5>3, <5>4
      <4>. QED  BY <4>1
    <3>3. KeysAt(d, p) \subseteq keys
      <4>. SUFFICES ASSUME NEW k \in KeysAt(d, p) PROVE k \in keys
        OBVIOUS
      <4>. DEFINE q == Append(p, KeySegment(k))
      <4>1. k \in Nat /\ q \in DOMAIN d
        BY <3>1
      <4>2. /\ KeySegment(k) \in Segments /\ KeySegment(k).key = k /\ IsKey(KeySegment(k))
            /\ ~IsField(KeySegment(k))
        BY <4>1, KeySegments
      <4>3. q \in Paths \ {<<>>} /\ Front(q) = p /\ Last(q) = KeySegment(k)
        BY <2>2, <4>2, Appended DEF Paths
      <4>4. Resolves(v, q)
        BY <4>1 DEF WellFormed, IsDraft
      <4>. HIDE DEF q
      <4>5. q \in RowChildren(loaded, p)
        BY <2>4, <2>6, <4>1, <4>3, <4>4 DEF Addressed
      <4>. QED  BY <4>2, <4>3, <4>5
    <3>. HIDE DEF keys
    <3>4. keys = KeysAt(d, p)
      BY <3>2, <3>3
    <3>5. CASE keys # {}
      <4>. DEFINE k == CHOOSE k \in keys : \A j \in keys : k <= j
      <4>1. keys \in SUBSET Nat
        BY <3>1, <3>4
      <4>2. \E m \in keys : \A j \in keys : m <= j
        BY <3>5, <4>1, LeastNumber
      <4>3. k \in keys /\ \A j \in keys : k <= j
        BY <4>2
      <4>4. next = Append(p, KeySegment(k))
        BY <2>10, <2>16, <3>5
      <4>. HIDE DEF k, next
      <4>5. k \in Nat /\ Append(p, KeySegment(k)) \in DOMAIN d
        BY <3>1, <3>4, <4>3
      <4>6. /\ KeySegment(k) \in Segments /\ KeySegment(k).key = k /\ ~IsItem(KeySegment(k))
            /\ SchemaPath(Append(p, KeySegment(k))) = Append(SchemaPath(p), Value)
        BY <2>2, <4>5, KeySegments, SchemaPathAppend
      <4>. QED  BY <2>8, <2>11, <2>16, <3>4, <4>3, <4>4, <4>5, <4>6
    <3>6. CASE keys = {}
      <4>1. next = Append(p, FieldSegment(Value))
        BY <2>10, <2>16, <3>6
      <4>. HIDE DEF next
      <4>2. next \notin DOMAIN loaded
        <5>. SUFFICES ASSUME next \in Paths PROVE FALSE
          BY <2>5
        <5>1. p \in Seq(Segments \cup {FieldSegment(Value)})
          BY <2>2 DEF Paths
        <5>2. next # <<>> /\ Last(next) = FieldSegment(Value)
          BY <4>1, <5>1, Appended
        <5>3. FieldSegment(Value) \in Segments
          BY <5>2, FrontLast DEF Paths
        <5>4. IsField(FieldSegment(Value)) /\ FieldSegment(Value).field = Value
          BY DEF IsField, FieldSegment
        <5>. QED  BY <5>3, <5>4, SegmentKinds
      <4>3. ASSUME NEW q \in ChildrenOf(d, p) PROVE FALSE
        <5>1. IsKey(Last(q))
          BY <2>13, <2>16, ParentResolves
        <5>2. Last(q).key \in Nat /\ Last(q) = KeySegment(Last(q).key)
          BY <2>13, <5>1, SegmentKinds
        <5>. QED  BY <2>13, <3>1, <3>4, <3>6, <5>2
      <4>. QED  BY <2>12, <2>16, <4>2, <4>3
    <3>. QED  BY <3>5, <3>6
  <2>. QED  BY <2>9, <2>14, <2>15, <2>16
<1>. QED  BY <1>1, <1>2

(* So the jump ends where IsLanding says.                                  *)
LEMMA LandingLands ==
    ASSUME NEW v \in Versions, NEW d, WellFormed(v, d), NEW r, RowsInv(v, d, r),
           NEW s \in DOMAIN FieldTree[v]
    PROVE  IsLanding(v, d, Landing(v, d, r, s).at, Dotted(s))
<1>. DEFINE start == [rows |-> r, at |-> <<>>, landed |-> FALSE]
            N == Len(s)
            Good(n, b) == /\ RowsInv(v, d, b.rows) /\ b.at \in DOMAIN b.rows /\ OnWay(b.rows, b.at)
                          /\ Walked(v, d, s, n, b)
<1>1. s \in Seq(Names) /\ N \in Nat
  BY TreeFacts
<1>2. PICK w : /\ Landing(v, d, r, s) = w[N] /\ w[0] = start
               /\ \A n \in 1..N : w[n] = LandPast(v, d, s, n, w[n - 1])
  <2>1. Len(s) \in Nat
    BY <1>1
  <2>. QED  BY <2>1, LandingSteps
<1>3. ASSUME NEW n \in 1..N, NEW b, Good(n - 1, b)
      PROVE  Good(n, LandPast(v, d, s, n, b))
  BY <1>3, LandPastInv, LandPastWalks
<1>4. Good(0, start)
  <2>1. <<>> \in Paths /\ SchemaPath(<<>>) = <<>> /\ IntoFirst(d, <<>>)
    BY SchemaPathRoot DEF Paths, IntoFirst
  <2>2. SubSeq(s, 1, 0) = <<>>
    BY <1>1, Start
  <2>3. Walked(v, d, s, 0, start)
    BY <2>1, <2>2 DEF Walked
  <2>. QED  BY <2>3 DEF RowsInv, RowsMirror, OnWay
<1>. HIDE DEF N, start, Good
<1>. DEFINE I == {n \in Nat : n <= N => Good(n, w[n])}
<1>5. 0 \in I
  BY <1>2, <1>4
<1>6. ASSUME NEW n \in Nat, n \in I PROVE n + 1 \in I
  <2>. SUFFICES ASSUME n + 1 <= N PROVE Good(n + 1, w[n + 1])
    OBVIOUS
  <2>1. n <= N /\ n + 1 \in 1..N /\ (n + 1) - 1 = n
    BY <1>1
  <2>2. Good(n, w[n]) /\ w[n + 1] = LandPast(v, d, s, n + 1, w[n])
    BY <1>2, <1>6, <2>1
  <2>. QED  BY <1>3, <2>1, <2>2
<1>7. N \in I
  <2>. HIDE DEF I
  <2>. QED  BY <1>1, <1>5, <1>6, Induction
<1>. DEFINE b == Landing(v, d, r, s)
<1>8. RowsInv(v, d, b.rows) /\ b.at \in DOMAIN b.rows /\ Walked(v, d, s, Len(s), b)
  BY <1>1, <1>2, <1>7 DEF Good, N
<1>. HIDE DEF b
<1>9. CASE b.landed
  BY <1>8, <1>9 DEF Walked, b
<1>10. CASE ~b.landed
  <2>1. SchemaPath(b.at) = s /\ IntoFirst(d, b.at)
    <3>1. SubSeq(s, 1, Len(s)) = s
      BY <1>1, Start DEF N
    <3>. QED  BY <1>8, <1>10, <3>1 DEF Walked
  <2>2. ~IsSlot(b.at)
    BY <1>8, RowsResolve, NoSlotInRow DEF RowsInv
  <2>3. NodePath(b.at) = Dotted(s)
    BY <2>1, <2>2 DEF NodePath
  <2>. QED  BY <2>1, <2>2, <2>3 DEF IsLanding, b
<1>. QED  BY <1>9, <1>10

(* A dotted path that the version lists is landed on, and any other leaves  *)
(* the tree at its root.                                                   *)
LEMMA SwitchLandsThere ==
    ASSUME NEW v \in Versions, NEW d, WellFormed(v, d), NEW r, RowsInv(v, d, r), NEW dotted
    PROVE  IF \E s \in Candidates[v] : Dotted(s) = dotted
           THEN IsLanding(v, d, LandAfterSwitch(v, d, r, dotted).at, dotted)
           ELSE LandAfterSwitch(v, d, r, dotted).at = <<>>
<1>. DEFINE there == {s \in Candidates[v] : Dotted(s) = dotted}
<1>1. CASE there = {}
  BY <1>1 DEF LandAfterSwitch
<1>2. CASE there # {}
  <2>. DEFINE s == CHOOSE s \in there : TRUE
  <2>1. s \in Candidates[v] /\ Dotted(s) = dotted
    BY <1>2
  <2>2. LandAfterSwitch(v, d, r, dotted) = Landing(v, d, r, s)
    BY <1>2 DEF LandAfterSwitch
  <2>. HIDE DEF s
  <2>3. s \in DOMAIN FieldTree[v]
    BY <2>1, CandidatesFacts
  <2>4. IsLanding(v, d, Landing(v, d, r, s).at, Dotted(s))
    BY <2>3, LandingLands
  <2>. QED  BY <2>1, <2>2, <2>4
<1>. QED  BY <1>1, <1>2

(* On the way to a row that is there, every row it is under is expanded.   *)
LEMMA WalkOpens ==
    ASSUME NEW v \in Versions, NEW d, WellFormed(v, d), NEW r, RowsInv(v, d, r),
           NEW p \in DOMAIN r, NEW expand
    PROVE  expand => OnWay(WalkToward(v, d, r, p, expand), p)
<1>. DEFINE N == Len(p)
            at(n) == SubSeq(p, 1, n)
            Good(n, b) == /\ RowsInv(v, d, b) /\ DOMAIN r \subseteq DOMAIN b
                          /\ \A m \in 0..(n - 1) : b[at(m)].expanded
<1>1. p \in Paths /\ N \in Nat /\ N = Len(p) /\ \A n \in 0..N : at(n) \in DOMAIN r
  BY RowsResolve, RowsAnchor DEF RowsInv, Paths
<1>. HIDE DEF N
<1>2. PICK w : /\ WalkToward(v, d, r, p, expand) = w[N] /\ w[0] = r
               /\ \A n \in 1..N : w[n] = WalkPast(v, d, p, expand, n, w[n - 1])
  BY <1>1, WalkTowardSteps
<1>. HAVE expand
<1>3. ASSUME NEW n \in 1..N, NEW b, Good(n - 1, b)
      PROVE  Good(n, WalkPast(v, d, p, expand, n, b))
  <2>. DEFINE a == at(n - 1)
              q == at(n)
              loaded == LoadRows(v, d, b, {a})
              x == ExpandRow(v, d, loaded, a)
  <2>1. n \in 0..N /\ n - 1 \in 0..N /\ n - 1 \in 0..n
    BY <1>1
  <2>2. a \in DOMAIN r /\ a \in DOMAIN b /\ q \in DOMAIN r /\ q \in DOMAIN b /\ RowsInv(v, d, b) /\ RowsMirror(v, d, b)
    BY <1>1, <1>3, <2>1 DEF RowsInv
  <2>3. /\ q \in Paths \ {<<>>} /\ Front(q) = a
    <3>1. q \in Paths /\ Len(q) = n /\ q # <<>> /\ SubSeq(q, 1, n - 1) = a
      BY <1>1, <2>1, Start, StartOfStart DEF Paths, N
    <3>. HIDE DEF q, a
    <3>. QED  BY <3>1, FrontLast DEF Paths
  <2>. HIDE DEF a, q
  <2>4. {a} \in SUBSET DOMAIN b
    BY <2>2
  <2>5. RowsInv(v, d, loaded) /\ DOMAIN b \subseteq DOMAIN loaded /\ KeepsOpen(b, loaded)
    BY <2>2, <2>4, LoadRowsInv, LoadRowsBy, LoadRowsKeepsOpen
  <2>6. WalkPast(v, d, p, expand, n, b) = x
    BY <2>2, <2>5 DEF WalkPast, a, q
  <2>. HIDE DEF loaded
  <2>7. /\ RowsInv(v, d, x) /\ DOMAIN loaded \subseteq DOMAIN x /\ KeepsOpen(loaded, x)
        /\ ~IsLeaf(v, a) => x[a].expanded
    BY <2>2, <2>5, ExpandRowInv
  <2>. HIDE DEF x
  <2>8. ~IsLeaf(v, a)
    <3>1. Resolves(v, q)
      BY <2>2, RowsResolve
    <3>. QED  BY <2>3, <3>1, ParentResolves DEF IsLeaf, Structures
  <2>9. ASSUME NEW m \in 0..(n - 1) PROVE x[at(m)].expanded
    <3>1. CASE m = n - 1
      BY <2>7, <2>8, <3>1 DEF a
    <3>2. CASE m # n - 1
      <4>1. m \in 0..((n - 1) - 1) /\ m \in 0..N
        BY <1>1, <3>2
      <4>2. b[at(m)].expanded /\ at(m) \in DOMAIN b
        BY <1>1, <1>3, <4>1
      <4>. QED  BY <2>5, <2>7, <4>2 DEF KeepsOpen
    <3>. QED  BY <3>1, <3>2
  <2>. QED  BY <1>3, <2>5, <2>6, <2>7, <2>9
<1>4. Good(0, r)
  OBVIOUS
<1>. HIDE DEF Good
<1>. DEFINE I == {n \in Nat : n <= N => Good(n, w[n])}
<1>5. 0 \in I
  BY <1>2, <1>4
<1>6. ASSUME NEW n \in Nat, n \in I PROVE n + 1 \in I
  <2>. SUFFICES ASSUME n + 1 <= N PROVE Good(n + 1, w[n + 1])
    OBVIOUS
  <2>1. n <= N /\ n + 1 \in 1..N /\ (n + 1) - 1 = n
    BY <1>1
  <2>2. Good(n, w[n]) /\ w[n + 1] = WalkPast(v, d, p, expand, n + 1, w[n])
    BY <1>2, <1>6, <2>1
  <2>. QED  BY <1>3, <2>1, <2>2
<1>7. N \in I
  <2>. HIDE DEF I
  <2>. QED  BY <1>1, <1>5, <1>6, Induction
<1>8. Good(N, w[N])
  BY <1>1, <1>7
<1>. QED  BY <1>2, <1>8 DEF Good, OnWay, N

(* A row under expanded ones that the index was taken from has the focus.  *)
LEMMA FocusLands ==
    ASSUME FocusInv', NEW p, p \in DOMAIN rows', OnWay(rows', p),
           p \in Shown(version', rows') => cursor' = Place(Shown(version', rows'), p)
    PROVE  Focused' = p
<1>1. version' \in Versions /\ RowsInv(version', draft', rows')
  BY DEF FocusInv, TreeInv
<1>2. p \in Shown(version', rows')
  <2>1. p \in Paths
    BY <1>1 DEF RowsInv, RowsMirror
  <2>. QED  BY <1>1, <2>1, OnScreenBy
<1>3. (\A q \in Shown(version, rows) : Place(Shown(version, rows), q) = cursor => q = Focused)'
  BY FocusByNext
<1>4. \A q \in Shown(version', rows') : Place(Shown(version', rows'), q) = cursor' => q = Focused'
  BY <1>3
<1>. QED  BY <1>2, <1>4

(* The highlighted match is a field path of the open version.              *)
LEMMA HighlightedMatch ==
    ASSUME version \in Versions, ListsInv, SearchInv, overlay = "search", matched # <<>>
    PROVE  matched[search.cursor + 1] \in Candidates[version]
<1>1. search.filter \in Seq(Letters) /\ matched = ComputeMatches(version, search.filter)
  BY DEF ListsInv, Lists, SearchInv
<1>2. /\ \A i \in DOMAIN matched : matched[i] \in Candidates[version]
      /\ Len(matched) \in Nat /\ DOMAIN matched = 1..Len(matched)
  BY <1>1, MatchedAreCandidates, ComputeMatchesFacts
<1>3. search.cursor + 1 \in DOMAIN matched
  BY <1>2 DEF ListsInv, InView, Lists
<1>. QED  BY <1>2, <1>3

(* Enter on a match.                                                       *)
LEMMA MatchLands ==
    ASSUME FocusInv, UnsettingInv, ListsInv, SearchInv, SelectMatch
    PROVE  LET s == matched[search.cursor + 1] IN
           s \in Candidates[version'] /\ IsLanding(version', draft', Focused', Dotted(s))
<1>. DEFINE s == matched[search.cursor + 1]
            land == Landing(version, draft, rows, s)
<1>1. version \in Versions /\ WellFormed(version, draft) /\ RowsInv(version, draft, rows)
  BY DEF FocusInv, TreeInv
<1>2. /\ overlay = "search" /\ matched # <<>> /\ rows' = land.rows /\ UNCHANGED <<version, draft>>
      /\ cursor' = FocusRow(Shown(version, rows'), land.at)
  BY DEF SelectMatch
<1>3. s \in Candidates[version]
  BY <1>1, <1>2, HighlightedMatch
<1>. HIDE DEF s
<1>4. s \in DOMAIN FieldTree[version] /\ Len(s) \in Nat
  BY <1>1, <1>3, CandidatesFacts, TreeFacts
<1>5. land.at \in DOMAIN land.rows /\ OnWay(land.rows, land.at)
  BY <1>1, <1>4, LandingInv
<1>6. IsLanding(version, draft, land.at, Dotted(s))
  BY <1>1, <1>4, LandingLands
<1>. HIDE DEF land
<1>7. FocusInv'
  BY ViewKeepsView DEF ViewStep
<1>8. Focused' = land.at
  BY <1>2, <1>5, <1>7, FocusLands DEF FocusRow
<1>. QED  BY <1>2, <1>3, <1>6, <1>8 DEF s

(* A version switch.                                                       *)
LEMMA SwitchLandsFocus ==
    ASSUME FocusInv, UnsettingInv, ListsInv, SearchInv, SelectVersion
    PROVE  IF \E s \in Candidates[version'] : Dotted(s) = NodePath(Focused)
           THEN IsLanding(version', draft', Focused', NodePath(Focused))
           ELSE Focused' = <<>>
<1>. DEFINE target == VersionMatches[versionList.cursor + 1]
            focus == NodePath(Focused)
            opened == OpenedRows(target, draft')
            land == LandAfterSwitch(target, draft', opened, focus)
<1>1. /\ target \in Versions /\ version' = target /\ draft' = CarryOver(draft, target)
      /\ rows' = land.rows /\ cursor' = Place(Shown(target, rows'), land.at)
  BY DEF SelectVersion, SwitchTo, SwitchLands
<1>2. WellFormed(target, draft')
  BY <1>1, CarryOverIsWellFormed DEF FocusInv, TreeInv
<1>. HIDE DEF target, focus
<1>3. RowsInv(target, draft', opened)
  BY <1>1, <1>2, OpenedRowsInv
<1>. HIDE DEF opened
<1>4. land.at \in DOMAIN land.rows /\ OnWay(land.rows, land.at)
  BY <1>1, <1>2, <1>3, LandAfterSwitchInv
<1>5. IF \E s \in Candidates[target] : Dotted(s) = focus
      THEN IsLanding(target, draft', land.at, focus)
      ELSE land.at = <<>>
  BY <1>1, <1>2, <1>3, SwitchLandsThere
<1>. HIDE DEF land
<1>6. FocusInv'
  BY ViewKeepsView DEF ViewStep
<1>7. Focused' = land.at
  BY <1>1, <1>4, <1>6, FocusLands
<1>. QED  BY <1>1, <1>5, <1>7 DEF focus

(* A deep link.                                                            *)
LEMMA LinkLands ==
    ASSUME OpenCompose
    PROVE  IF \E s \in Candidates[version'] : Dotted(s) = landing
           THEN IsLanding(version', draft', Focused', landing)
           ELSE Focused' = <<>>
<1>. DEFINE v == Gvk(kind)
            opened == OpenedRows(v, EmptyDraft)
            land == LandAfterSwitch(v, EmptyDraft, opened, landing)
<1>1. /\ v \in Versions /\ version' = v /\ draft' = EmptyDraft
      /\ rows' = land.rows /\ cursor' = Place(Shown(v, rows'), land.at)
  BY DEF OpenCompose, OpenView
<1>. HIDE DEF v
<1>2. WellFormed(v, EmptyDraft)
  BY <1>1, EmptyIsWellFormed
<1>3. RowsInv(v, EmptyDraft, opened)
  BY <1>1, <1>2, OpenedRowsInv
<1>. HIDE DEF opened
<1>4. land.at \in DOMAIN land.rows /\ OnWay(land.rows, land.at)
  BY <1>1, <1>2, <1>3, LandAfterSwitchInv
<1>5. IF \E s \in Candidates[v] : Dotted(s) = landing
      THEN IsLanding(v, EmptyDraft, land.at, landing)
      ELSE land.at = <<>>
  BY <1>1, <1>2, <1>3, SwitchLandsThere
<1>. HIDE DEF land
<1>6. FocusInv'
  BY OpenComposeFocuses
<1>7. Focused' = land.at
  BY <1>1, <1>4, <1>6, FocusLands
<1>. QED  BY <1>1, <1>5, <1>7

(* A finding no mutation has outdated.                                     *)
LEMMA FindingLands ==
    ASSUME FocusInv, UnsettingInv, ListsInv, SearchInv, PressJumpToFinding, ~validation.stale
    PROVE  Focused' = validation.mapped[validation.next]
<1>. DEFINE p == validation.mapped[validation.next]
<1>1. /\ version \in Versions /\ WellFormed(version, draft) /\ RowsInv(version, draft, rows)
      /\ OutcomeInv(validation, rows)
  BY DEF FocusInv, TreeInv
<1>2. /\ validation # Null /\ validation.mapped # <<>> /\ version' = version
      /\ rows' = WalkToward(version, draft, rows, p, TRUE)
      /\ cursor' = FocusRow(Shown(version, rows'), p)
  BY DEF PressJumpToFinding, JumpToFinding
<1>3. p \in DOMAIN rows
  BY <1>1, <1>2 DEF OutcomeInv
<1>. HIDE DEF p
<1>4. Len(p) \in Nat
  BY <1>1, <1>3, RowsResolve DEF RowsInv, Paths
<1>5. p \in DOMAIN rows' /\ OnWay(rows', p)
  BY <1>1, <1>2, <1>3, <1>4, WalkTowardInv, WalkOpens
<1>6. FocusInv'
  BY ViewKeepsView DEF ViewStep
<1>7. Focused' = p
  BY <1>2, <1>5, <1>6, FocusLands DEF FocusRow
<1>. QED  BY <1>7 DEF p

(* Search, version switch and deep link end at the path asked for or as    *)
(* near to it as the Draft reaches, and at the root where the Type Schema  *)
(* has no such path; a fresh finding is reached at its own row (landOn,    *)
(* landDeepLink, landAfterSwitch, pressJumpToFinding).                     *)
THEOREM JumpTheorem == BrowseSpec => JumpsLand
<1>. DEFINE lands(dotted) ==
                IF \E s \in Candidates[version'] : Dotted(s) = dotted
                THEN IsLanding(version', draft', Focused', dotted)
                ELSE Focused' = <<>>
            A == /\ Composing /\ SelectMatch => lands(Dotted(matched[search.cursor + 1]))
                 /\ Composing /\ SelectVersion => lands(NodePath(Focused))
                 /\ OpenCompose => lands(landing)
                 /\ PressJumpToFinding /\ ~validation.stale =>
                      Focused' = validation.mapped[validation.next]
<1>1. ViewInv /\ SearchingInv /\ [BrowseNext]_browseVars => [A]_browseVars
  <2>. SUFFICES ASSUME ViewInv, SearchingInv PROVE A
    OBVIOUS
  <2>1. Composing => FocusInv /\ UnsettingInv /\ ListsInv /\ SearchInv
    BY DEF ViewInv, SearchingInv, OnScreenInv
  <2>2. Composing /\ SelectMatch => lands(Dotted(matched[search.cursor + 1]))
    BY <2>1, MatchLands
  <2>3. Composing /\ SelectVersion => lands(NodePath(Focused))
    BY <2>1, SwitchLandsFocus
  <2>4. OpenCompose => lands(landing)
    BY LinkLands
  <2>5. PressJumpToFinding /\ ~validation.stale => Focused' = validation.mapped[validation.next]
    <3>1. PressJumpToFinding => Composing
      <4>1. ~Composing => validation = Null
        BY DEF SearchingInv, OnScreenInv, KindInv, NoView
      <4>. QED  BY <4>1 DEF PressJumpToFinding, JumpToFinding
    <3>. QED  BY <2>1, <3>1, FindingLands
  <2>. HIDE DEF lands
  <2>. QED  BY <2>2, <2>3, <2>4, <2>5
<1>2. JumpsLand <=> [][A]_browseVars
  BY DEF JumpsLand
<1>. HIDE DEF A
<1>. QED  BY <1>1, <1>2, SearchingTheorem, ViewTheorem, PTL DEF BrowseSpec

=============================================================================
