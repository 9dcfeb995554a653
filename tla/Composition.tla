------------------------------ MODULE Composition ------------------------------
(***************************************************************************)
(* What a Session promises its user, whatever the shell, the cluster and   *)
(* the terminal do meanwhile: an abstract specification of Session.tla.    *)
(*                                                                         *)
(* There is one content over at most one Kind.  It changes a position at a *)
(* time, by the user's hand; moves to another version as a whole; and is   *)
(* given up only where it was agreed to be.  A verdict of the cluster is   *)
(* about the content it is shown with, or says that it is not.  At the end *)
(* the content is written out, or nothing is, as asked.                    *)
(***************************************************************************)
CONSTANTS
    Kinds,       \* the browsable Kinds, each at a version
    Versions,    \* the served versions of a Kind, itself included
    Fields,      \* the positions of a content
    Admits,      \* the positions a Kind defines
    Values,      \* what a position can hold
    Null         \* nothing

VARIABLES
    open,        \* the Kind that is composed, or Null
    content,     \* what has been composed
    verdict,     \* the cluster's last verdict, or Null
    agreed,      \* what the user last agreed to lose
    asked,       \* how the user asked to end: "none", "nothingToLose", "emit", "discard"
    written,     \* what was written out, or Null
    ending       \* "none" yet, or how the Session ended: "exited", "interrupted"

vars == <<open, content, verdict, agreed, asked, written, ending>>

Empty == [f \in Fields |-> Null]
Listed(c) == {<<f, c[f]>> : f \in {g \in Fields : c[g] # Null}}

Init ==
    /\ open = Null /\ content = Empty /\ verdict = Null
    /\ agreed = {} /\ asked = "none" /\ written = Null /\ ending = "none"

(* A Kind opens over nothing.                                              *)
Open(k) ==
    /\ ending = "none" /\ open = Null
    /\ open' = k
    /\ UNCHANGED <<content, verdict, agreed, asked, written, ending>>

(* The user's hand: one position, and the verdict is no longer about it.   *)
Edit(f) ==
    /\ ending = "none" /\ asked = "none" /\ open # Null /\ f \in Admits[open]
    /\ \E x \in Values \cup {Null} : content' = [content EXCEPT ![f] = x]
    /\ verdict' \in {Null, IF verdict = Null THEN Null ELSE [verdict EXCEPT !.fresh = FALSE]}
    /\ UNCHANGED <<open, agreed, asked, written, ending>>

(* The cluster's verdict on what is on screen.                             *)
Judge ==
    /\ ending = "none" /\ open # Null
    /\ verdict' = [fresh |-> TRUE, of |-> Listed(content), kind |-> open]
    /\ UNCHANGED <<open, content, agreed, asked, written, ending>>

Agree ==
    /\ ending = "none" /\ asked = "none"
    /\ agreed' \in SUBSET Listed(content)
    /\ UNCHANGED <<open, content, verdict, asked, written, ending>>

(* Another version takes over what it defines; what it does not was agreed *)
(* to be lost.  A switch that is under way may end a Session's last moments.*)
Switch(k) ==
    /\ ending = "none" /\ asked \in {"none", "discard"} /\ open # Null /\ k \in Versions[open]
    /\ open' = k
    /\ content' = [f \in Fields |-> IF f \in Admits[k] THEN content[f] ELSE Null]
    /\ Listed(content) \ Listed(content') \subseteq agreed
    /\ verdict' = Null
    /\ agreed' \in {agreed, {}}
    /\ UNCHANGED <<asked, written, ending>>

(* The content is given up.                                                *)
Leave ==
    /\ ending = "none" /\ asked = "none" /\ open # Null
    /\ Listed(content) \subseteq agreed
    /\ open' = Null /\ content' = Empty /\ verdict' = Null /\ agreed' = {}
    /\ UNCHANGED <<asked, written, ending>>

(* Only an empty content is left without a decision about it.              *)
Ask(how) ==
    /\ ending = "none" /\ asked = "none"
    /\ how = "nothingToLose" => content = Empty
    /\ asked' = how
    /\ UNCHANGED <<open, content, verdict, agreed, written, ending>>

(* The way out that was asked for.                                         *)
Exit ==
    /\ ending = "none" /\ asked # "none"
    /\ ending' = "exited"
    /\ written' = IF asked = "emit" THEN Listed(content) ELSE Null
    /\ UNCHANGED <<open, content, verdict, agreed, asked>>

Interrupt ==
    /\ ending = "none"
    /\ ending' = "interrupted"
    /\ UNCHANGED <<open, content, verdict, agreed, asked, written>>

Next ==
    \/ \E k \in Kinds : Open(k) \/ Switch(k)
    \/ \E f \in Fields : Edit(f)
    \/ Judge \/ Agree \/ Leave \/ Exit \/ Interrupt
    \/ \E how \in {"nothingToLose", "emit", "discard"} : Ask(how)

Spec == Init /\ [][Next]_vars

=============================================================================
