------------------------------ MODULE MCCache ------------------------------
(* Two fetches at a time, of a group with a hash per revision and of one    *)
(* the index gives no hash for.                                            *)
EXTENDS CacheInvariant, TLC

Hashes == [d \in Groups \X Revisions |-> IF d[1] = "core" THEN NoHash ELSE d[2]]
Segments == [g \in Groups |-> g]

Interchangeable == Permutations(Fetches) \cup Permutations(Revisions)
=============================================================================
