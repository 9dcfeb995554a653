------------------------------ MODULE Ordering ------------------------------
(***************************************************************************)
(* Sequences made by sorting and by filtering, which the other modules     *)
(* share.  They are functions of the set of what is sorted or kept, so     *)
(* that a proof can say which element sits where.  The module has no       *)
(* variables.                                                              *)
(***************************************************************************)
EXTENDS Naturals, Sequences, FiniteSets

(* The elements of a finite set in a strict total order.                   *)
InOrder(S, before(_, _)) ==
    [n \in 1..Cardinality(S) |->
        CHOOSE x \in S : Cardinality({y \in S : before(y, x)}) = n - 1]

(* The elements of a sequence at the positions N, in order.                *)
Picked(s, N) ==
    [i \in 1..Cardinality(N) |-> s[CHOOSE n \in N : Cardinality({m \in N : m < n}) = i - 1]]

(* The first of two sequences of numbers in which they differ decides.     *)
LexicallyBefore(s, t) ==
    \E n \in DOMAIN s : s[n] < t[n] /\ \A m \in 1..(n - 1) : s[m] = t[m]

=============================================================================
