------------------------------ MODULE Fetcher ------------------------------
(***************************************************************************)
(* What the Session is promised by its Fetcher (internal/data/client.go,   *)
(* the interface, and cache.go, the doc comment of Cache), with or without *)
(* a disk cache behind it: a fetch answers what the live cluster answered  *)
(* it, or, without asking the cluster, the document its content hash       *)
(* names.  So a cache is a speedup, never a gate and never a fallback: a   *)
(* fetch the cluster refused fails, and no other fetch does.               *)
(***************************************************************************)
CONSTANTS
    Fetches,    \* the fetches that can be under way at once
    Keys,       \* what a fetch asks for: a group-version path and a hash
    Bodies,     \* what a response can carry
    Named,      \* the document each key's content hash names
    Refused,    \* the answer of a fetch that failed
    None        \* no key, no reply, no answer

VARIABLES asked, reply, answer

Init ==
    /\ asked = [f \in Fetches |-> None]
    /\ reply = [f \in Fetches |-> None]
    /\ answer = [f \in Fetches |-> None]

Ask(f) ==
    /\ asked[f] = None
    /\ \E key \in Keys : asked' = [asked EXCEPT ![f] = key]
    /\ UNCHANGED <<reply, answer>>

(* The cluster is asked once.                                              *)
Waits(f) == asked[f] # None /\ reply[f] = None /\ answer[f] = None

Reply(f) ==
    /\ Waits(f)
    /\ \E body \in Bodies \cup {Refused} :
         /\ reply' = [reply EXCEPT ![f] = body]
         /\ answer' \in {answer, [answer EXCEPT ![f] = body]}
    /\ UNCHANGED asked

Answer(f) ==
    /\ answer[f] = None
    /\ \/ reply[f] # None /\ answer' = [answer EXCEPT ![f] = reply[f]]
       \/ /\ Waits(f)
          /\ asked[f] \in DOMAIN Named
          /\ answer' = [answer EXCEPT ![f] = Named[asked[f]]]
    /\ UNCHANGED <<asked, reply>>

(* The answer is taken, or the process ends.                               *)
Leave(f) ==
    /\ asked[f] # None
    /\ asked' = [asked EXCEPT ![f] = None]
    /\ reply' = [reply EXCEPT ![f] = None]
    /\ answer' = [answer EXCEPT ![f] = None]

Next == \E f \in Fetches : Ask(f) \/ Reply(f) \/ Answer(f) \/ Leave(f)

Spec == Init /\ [][Next]_<<asked, reply, answer>>

=============================================================================
