---------------------------- MODULE CacheInvariant ----------------------------
(***************************************************************************)
(* Why the disk cache is right: the inductive invariant behind the safety  *)
(* properties of Cache.tla.                                                *)
(***************************************************************************)
EXTENDS Cache

(* The stages of writeDocument and evictSuperseded, which have a document  *)
(* to write and a hash to write it under.                                  *)
Caching == {"making", "creating", "writing", "renaming", "globbing", "evicting"}

Evicting == {f \in Fetches : stage[f] \in {"globbing", "evicting"}}

(* Does the document carry the name the key gives its file?                *)
Describes(k, d) == d[1] = k.group /\ Hash[d] = k.hash

(* A fetch asks by a hash some revision of its group has, has no reply      *)
(* before it asked, and caches what it was replied under the hash it asked *)
(* by: where the cluster honours hashes, a body that hash describes.       *)
FetchInv ==
    \A f \in Fetches :
        /\ key[f] # None => \E r \in Revisions : Hash[<<key[f].group, r>>] = key[f].hash
        /\ stage[f] \in {"idle", "launched", "asking"} => reply[f] = None
        /\ stage[f] \in Caching =>
              /\ key[f].hash # NoHash
              /\ reply[f] \in Bodies
              /\ HonoursHash /\ reply[f] # Corrupt => Describes(key[f], reply[f])

(* What is cached is a body.                                               *)
FilesInv ==
    /\ IsFiniteSet(DOMAIN files)
    /\ \A file \in DOMAIN files : files[file] \in Bodies
    /\ HonoursHash => HitsAreHonest

(* f has just written its own file and still is to remove the other.       *)
WillEvict(f, file) ==
    /\ file[1] = Segment[key[f].group] /\ file # File(key[f])
    /\ stage[f] = "evicting" => file \in siblings[f]

Supersedes(file, other) == \E f \in Evicting : File(key[f]) = file /\ WillEvict(f, other)

(* Of two files of a group one still is to be evicted by the writer of the  *)
(* other, except for the files owed to a mishap.                           *)
Orderly(owed) ==
    \A x, y \in DOMAIN files \ owed :
        x # y /\ x[1] = y[1] => Supersedes(x, y) \/ Supersedes(y, x)

(* There are no more of those than mishaps that left no orphan.             *)
AccountInv ==
    \E owed \in SUBSET DOMAIN files :
        Orderly(owed) /\ orphans + Cardinality(owed) <= mishaps

(* Whatever the other Sessions, the cluster and the user do between two     *)
(* steps of a fetch, what the fetch will still write and remove keeps the   *)
(* directory honest and its leftovers bounded (FetchGroupDocument,          *)
(* writeDocument, evictSuperseded).                                        *)
CacheInv ==
    /\ TypeOK
    /\ FetchInv
    /\ FilesInv
    /\ AccountInv
=============================================================================
