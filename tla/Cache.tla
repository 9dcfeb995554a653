------------------------------- MODULE Cache -------------------------------
(***************************************************************************)
(* The hash-validated disk cache for OpenAPI v3 Documents                  *)
(* (internal/data/cache.go) over the live Client (client.go), shared by    *)
(* the fetches of concurrent Sessions.  A step is one call to the file     *)
(* system or one request to the cluster; between any two of them another   *)
(* Session may take its own, the process may end, the user may delete the  *)
(* directory and the cluster may revise a document.                        *)
(*                                                                         *)
(* A document is a group-version at a revision.  A file is named by the    *)
(* sanitized group-version and hash, so the name of a file is a pair.      *)
(*                                                                         *)
(* An operator whose comment starts with "Seeded fault" is a plausible     *)
(* mistake in the definition after it and part of no behaviour.            *)
(***************************************************************************)
EXTENDS Integers, FiniteSets

CONSTANTS
    Fetches,      \* the fetches that can be under way at once
    Groups,       \* group-version paths
    Revisions,    \* the revisions of a group's document
    Hash,         \* the content hash the index gives for each document
    NoHash,       \* the hash of a document the index gives none for
    Segment,      \* the sanitized file name component of each group
    HonoursHash,  \* does the cluster refuse a superseded hash?
    Corrupt,      \* a body that is no JSON
    Refused,      \* the answer of a fetch that failed
    None,         \* no key, no reply, no answer
    MaxMishaps    \* the bound on mishaps

Documents == Groups \X Revisions
Keys == [group : Groups, hash : {Hash[d] : d \in Documents}]
Bodies == Documents \cup {Corrupt}

(* Sanitizing may let groups collide; content hashes then keep them apart. *)
ASSUME CacheAssumption ==
    /\ IsFiniteSet(Fetches)
    /\ DOMAIN Hash = Documents /\ DOMAIN Segment = Groups
    /\ \A d, e \in Documents :
         Segment[d[1]] = Segment[e[1]] /\ Hash[d] = Hash[e] /\ Hash[d] # NoHash => d = e
    /\ HonoursHash \in BOOLEAN
    /\ MaxMishaps \in Nat
    /\ Corrupt \notin Documents
    /\ Refused \notin Bodies /\ None \notin Bodies \cup Keys \cup {Refused}

VARIABLES
    cluster,      \* the revision the cluster serves of each group
    directory,    \* does the cache directory exist?
    files,        \* the cached files: what each holds, by its name
    temps,        \* the fetches whose temp file exists
    orphans,      \* how many temp files have no process any more
    stage,        \* how far each fetch is
    key,          \* what it asks for
    reply,        \* what the cluster answered it
    siblings,     \* the files it is about to evict
    answer,       \* what it returned
    mishaps       \* history: writes that ended halfway, listings and removals
                  \* that failed

disk == <<directory, files, temps, orphans>>
vars == <<cluster, disk, stage, key, reply, siblings, answer, mishaps>>

Stages == {"idle", "launched", "asking", "making", "creating", "writing",
           "renaming", "globbing", "evicting", "answered"}

(* The stages of writeDocument and evictSuperseded at which something on   *)
(* disk is not yet as the fetch will leave it.                             *)
WriteStages == {"writing", "renaming", "globbing", "evicting"}

(* documentPath                                                            *)
File(k) == <<Segment[k.group], k.hash>>

Named ==
    [k \in {m \in Keys : m.hash # NoHash /\ \E r \in Revisions : Hash[<<m.group, r>>] = m.hash} |->
        CHOOSE d \in Documents : d[1] = k.group /\ Hash[d] = k.hash]

FilesOf(segment) == {file \in DOMAIN files : file[1] = segment}
Without(names) == [file \in DOMAIN files \ names |-> files[file]]

Init ==
    /\ cluster \in [Groups -> Revisions]
    /\ directory = FALSE
    /\ files = [file \in {} |-> None]
    /\ temps = {}
    /\ orphans = 0
    /\ stage = [f \in Fetches |-> "idle"]
    /\ key = [f \in Fetches |-> None]
    /\ reply = [f \in Fetches |-> None]
    /\ siblings = [f \in Fetches |-> {}]
    /\ answer = [f \in Fetches |-> None]
    /\ mishaps = 0

-----------------------------------------------------------------------------
(* A fetch.                                                                *)

Advance(f, next) == stage' = [stage EXCEPT ![f] = next]

Return(f, body) ==
    /\ Advance(f, "answered")
    /\ answer' = [answer EXCEPT ![f] = body]

(* FetchIndex, always live: a Session learns the hash it will ask a group's *)
(* document by, however much later.                                        *)
FetchIndex(f) ==
    /\ stage[f] = "idle"
    /\ \E g \in Groups :
         key' = [key EXCEPT ![f] = [group |-> g, hash |-> Hash[<<g, cluster[g]>>]]]
    /\ Advance(f, "launched")
    /\ UNCHANGED <<cluster, disk, reply, siblings, answer, mishaps>>

(* Seeded fault: a file that is there is a hit, whatever it holds.         *)
LookUpUnvalidated(f) ==
    /\ stage[f] = "launched"
    /\ IF key[f].hash # NoHash /\ File(key[f]) \in DOMAIN files
       THEN Return(f, files[File(key[f])])
       ELSE Advance(f, "asking") /\ UNCHANGED answer
    /\ UNCHANGED <<cluster, disk, key, reply, siblings, mishaps>>

(* FetchGroupDocument up to the live fetch, with readCachedDocument: no     *)
(* hash bypasses the cache, and an unreadable or corrupt file is a miss.   *)
LookUp(f) ==
    /\ stage[f] = "launched"
    /\ IF /\ key[f].hash # NoHash
          /\ File(key[f]) \in DOMAIN files
          /\ files[File(key[f])] # Corrupt
       THEN Return(f, files[File(key[f])])
       ELSE Advance(f, "asking") /\ UNCHANGED answer
    /\ UNCHANGED <<cluster, disk, key, reply, siblings, mishaps>>

(* What the cluster can answer: a failure of any kind, the document it     *)
(* serves now, or a body some proxy made up.                               *)
LiveReplies(k) ==
    LET document == <<k.group, cluster[k.group]>>
    IN  {Refused, Corrupt}
            \cup (IF HonoursHash /\ Hash[document] # k.hash THEN {} ELSE {document})

(* Seeded fault: the status is not looked at.                              *)
AskLiveAnyStatus(f) ==
    /\ stage[f] = "asking"
    /\ \E body \in LiveReplies(key[f]) :
         /\ reply' = [reply EXCEPT ![f] = body]
         /\ IF key[f].hash = NoHash
            THEN Return(f, body)
            ELSE Advance(f, "making") /\ UNCHANGED answer
    /\ UNCHANGED <<cluster, disk, key, siblings, mishaps>>

(* Client.FetchGroupDocument: any body with status 200 is taken, and it is  *)
(* not compared with the hash that was asked for.                          *)
AskLive(f) ==
    /\ stage[f] = "asking"
    /\ \E body \in LiveReplies(key[f]) :
         /\ reply' = [reply EXCEPT ![f] = body]
         /\ IF body = Refused \/ key[f].hash = NoHash
            THEN Return(f, body)
            ELSE Advance(f, "making") /\ UNCHANGED answer
    /\ UNCHANGED <<cluster, disk, key, siblings, mishaps>>

(* writeDocument: each call may fail, and then the fetch answers all the    *)
(* same.                                                                   *)
MakeDirectory(f) ==
    /\ stage[f] = "making"
    /\ \/ directory' = TRUE /\ Advance(f, "creating") /\ UNCHANGED answer
       \/ Return(f, reply[f]) /\ UNCHANGED directory
    /\ UNCHANGED <<cluster, files, temps, orphans, key, reply, siblings, mishaps>>

(* Seeded fault: the directory is not needed.                              *)
CreateTempAnywhere(f) ==
    /\ stage[f] = "creating"
    /\ \/ temps' = temps \cup {f} /\ Advance(f, "writing") /\ UNCHANGED answer
       \/ Return(f, reply[f]) /\ UNCHANGED temps
    /\ UNCHANGED <<cluster, directory, files, orphans, key, reply, siblings, mishaps>>

CreateTemp(f) ==
    /\ stage[f] = "creating"
    /\ \/ /\ directory
          /\ temps' = temps \cup {f}
          /\ Advance(f, "writing")
          /\ UNCHANGED answer
       \/ Return(f, reply[f]) /\ UNCHANGED temps
    /\ UNCHANGED <<cluster, directory, files, orphans, key, reply, siblings, mishaps>>

(* A write that failed removes its temp file and answers.  That removal     *)
(* may fail too, and nobody looks.                                         *)
DropTemp(f) ==
    /\ Return(f, reply[f])
    /\ temps' = temps \ {f}
    /\ \/ UNCHANGED <<orphans, mishaps>>
       \/ /\ f \in temps
          /\ mishaps < MaxMishaps
          /\ orphans' = orphans + 1
          /\ mishaps' = mishaps + 1

Write(f) ==
    /\ stage[f] = "writing"
    /\ \/ Advance(f, "renaming") /\ UNCHANGED <<temps, orphans, answer, mishaps>>
       \/ DropTemp(f)
    /\ UNCHANGED <<cluster, directory, files, key, reply, siblings>>

(* Seeded fault: a temp file that could not be renamed is left behind.     *)
RenameLeavesTemp(f) ==
    /\ stage[f] = "renaming"
    /\ \/ /\ f \in temps
          /\ files' = [file \in DOMAIN files \cup {File(key[f])} |->
                          IF file = File(key[f]) THEN reply[f] ELSE files[file]]
          /\ Advance(f, "globbing")
          /\ UNCHANGED <<orphans, answer>>
       \/ /\ Return(f, reply[f])
          /\ orphans' = orphans + (IF f \in temps THEN 1 ELSE 0)
          /\ UNCHANGED files
    /\ temps' = temps \ {f}
    /\ UNCHANGED <<cluster, directory, key, reply, siblings, mishaps>>

(* The rename fails where the temp file is gone, or for any other reason.  *)
Rename(f) ==
    /\ stage[f] = "renaming"
    /\ \/ /\ f \in temps
          /\ files' = [file \in DOMAIN files \cup {File(key[f])} |->
                          IF file = File(key[f]) THEN reply[f] ELSE files[file]]
          /\ temps' = temps \ {f}
          /\ Advance(f, "globbing")
          /\ UNCHANGED <<orphans, answer, mishaps>>
       \/ DropTemp(f) /\ UNCHANGED files
    /\ UNCHANGED <<cluster, directory, key, reply, siblings>>

(* evictSuperseded: the siblings are listed, then removed one by one; one   *)
(* may be gone by then, or have been written anew.  The listing fails where *)
(* the directory's own path is no pattern, and then all of them stay.      *)
Glob(f) ==
    /\ stage[f] = "globbing"
    /\ \/ /\ siblings' = [siblings EXCEPT ![f] = FilesOf(Segment[key[f].group]) \ {File(key[f])}]
          /\ Advance(f, "evicting")
          /\ UNCHANGED <<answer, mishaps>>
       \/ /\ mishaps < MaxMishaps
          /\ mishaps' = mishaps + 1
          /\ Return(f, reply[f])
          /\ UNCHANGED siblings
    /\ UNCHANGED <<cluster, disk, key, reply>>

Evict(f) ==
    /\ stage[f] = "evicting"
    /\ \E file \in siblings[f] :
         /\ siblings' = [siblings EXCEPT ![f] = @ \ {file}]
         /\ \/ files' = Without({file}) /\ UNCHANGED mishaps
            \/ /\ file \in DOMAIN files
               /\ mishaps < MaxMishaps
               /\ mishaps' = mishaps + 1
               /\ UNCHANGED files
    /\ UNCHANGED <<cluster, directory, temps, orphans, stage, key, reply, answer>>

FinishEviction(f) ==
    /\ stage[f] = "evicting"
    /\ siblings[f] = {}
    /\ Return(f, reply[f])
    /\ UNCHANGED <<cluster, disk, key, reply, siblings, mishaps>>

-----------------------------------------------------------------------------
(* What happens around it.                                                 *)

(* The answer is taken, or the process ends before there is one: by a      *)
(* crash, or because the user leaves the Session while a fetch is under    *)
(* way.  Its temp file stays.                                              *)
End(f) ==
    /\ stage[f] # "idle"
    /\ IF stage[f] \in WriteStages
       THEN mishaps < MaxMishaps /\ mishaps' = mishaps + 1
       ELSE UNCHANGED mishaps
    /\ temps' = temps \ {f}
    /\ orphans' = orphans + (IF f \in temps THEN 1 ELSE 0)
    /\ Advance(f, "idle")
    /\ key' = [key EXCEPT ![f] = None]
    /\ reply' = [reply EXCEPT ![f] = None]
    /\ siblings' = [siblings EXCEPT ![f] = {}]
    /\ answer' = [answer EXCEPT ![f] = None]
    /\ UNCHANGED <<cluster, directory, files>>

(* The cluster revises a document, or goes back to an earlier one.         *)
Revise ==
    /\ \E g \in Groups, r \in Revisions :
         cluster[g] # r /\ cluster' = [cluster EXCEPT ![g] = r]
    /\ UNCHANGED <<disk, stage, key, reply, siblings, answer, mishaps>>

(* A cached file is truncated or overwritten by something else.            *)
Damage ==
    /\ \E file \in DOMAIN files : files' = [files EXCEPT ![file] = Corrupt]
    /\ UNCHANGED <<cluster, directory, temps, orphans, stage, key, reply, siblings, answer, mishaps>>

(* "deleting the cache directory at any time is always safe"               *)
DeleteDirectory ==
    /\ directory
    /\ directory' = FALSE
    /\ files' = Without(DOMAIN files)
    /\ temps' = {}
    /\ orphans' = 0
    /\ UNCHANGED <<cluster, stage, key, reply, siblings, answer, mishaps>>

Next ==
    \/ \E f \in Fetches :
         \/ FetchIndex(f) \/ LookUp(f) \/ AskLive(f)
         \/ MakeDirectory(f) \/ CreateTemp(f) \/ Write(f) \/ Rename(f)
         \/ Glob(f) \/ Evict(f) \/ FinishEviction(f)
         \/ End(f)
    \/ Revise
    \/ Damage
    \/ DeleteDirectory

Spec == Init /\ [][Next]_vars

-----------------------------------------------------------------------------

(* The names a cached file can have.                                       *)
Names == {File(k) : k \in {m \in Keys : m.hash # NoHash}}

(* Files and temp files exist only in the directory, what a fetch knows    *)
(* fits how far it is, and every variable has its type.                    *)
TypeOK ==
    /\ cluster \in [Groups -> Revisions]
    /\ directory \in BOOLEAN
    /\ DOMAIN files \subseteq Names
    /\ temps \subseteq Fetches
    /\ DOMAIN files # {} \/ temps # {} => directory
    /\ orphans \in Nat /\ mishaps \in Nat
    /\ stage \in [Fetches -> Stages]
    /\ key \in [Fetches -> Keys \cup {None}]
    /\ reply \in [Fetches -> Bodies \cup {Refused, None}]
    /\ siblings \in [Fetches -> SUBSET Names]
    /\ answer \in [Fetches -> Bodies \cup {Refused, None}]
    /\ \A f \in Fetches :
         /\ (key[f] = None) = (stage[f] = "idle")
         /\ (answer[f] # None) = (stage[f] = "answered")
         /\ f \in temps => stage[f] \in {"writing", "renaming"}

(* "validation stays honest": a cached file that reads as a document is the *)
(* document the hash in its name describes, whoever wrote it and whatever   *)
(* interrupted them (FetchGroupDocument, writeDocument).                    *)
HitsAreHonest ==
    \A file \in DOMAIN files : files[file] # Corrupt =>
        /\ files[file] \in Documents
        /\ file = <<Segment[files[file][1]], Hash[files[file]]>>

(* "leaving at most one stale file per group per crash": what is on disk    *)
(* beyond one file per group is a file some fetch is about to evict, or is  *)
(* owed to a write that ended halfway or a listing or removal that failed, *)
(* however the writes and evictions of concurrent Sessions interleave      *)
(* (writeDocument, evictSuperseded).                                       *)
LeftoversAreAccounted ==
    LET groups == {file[1] : file \in DOMAIN files}
        superseded == Cardinality(DOMAIN files) - Cardinality(groups)
    IN  orphans + superseded
            <= mishaps + Cardinality({f \in Fetches : stage[f] \in {"globbing", "evicting"}})

(* The cache keeps the promise the Session has of its Fetcher.             *)
Promise ==
    INSTANCE Fetcher WITH
        asked <- key, reply <- reply, answer <- answer,
        Named <- Named, Keys <- Keys, Bodies <- Bodies,
        Fetches <- Fetches, Refused <- Refused, None <- None

(* A fetch answers what the cluster answered it or the document its hash    *)
(* names; no failure on disk fails it, and no file answers a fetch that the *)
(* cluster refused (FetchGroupDocument).                                   *)
PromiseKept == Promise!Spec

=============================================================================
