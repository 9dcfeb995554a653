----------------------------- MODULE SessionPromise -----------------------------
(***************************************************************************)
(* Session.tla implements Composition.tla.  The views, the overlays, the   *)
(* commands in flight and the temp files are how; the promise is about the *)
(* Draft, the rendered outcome and the way out.                            *)
(***************************************************************************)
EXTENDS Session

(* The rendered outcome, as a verdict of the cluster.                      *)
Verdict ==
    IF validation = Null THEN Null
    ELSE [fresh |-> ~validation.stale, of |-> validation.of, kind |-> validation.kind]

(* Go's nil is no struct.                                                  *)
ASSUME VerdictAssumption ==
    Null \notin [fresh : BOOLEAN, of : Manifests, kind : Kinds \cup {Null}]

(* A program that has returned from the shell has still to write.          *)
Ending == IF session \in {"exited", "interrupted"} THEN session ELSE "none"

Promise == INSTANCE Composition WITH
    open <- composed,
    content <- draft,
    verdict <- Verdict,
    agreed <- waived,
    asked <- decision,
    written <- stdout,
    ending <- Ending

(* Under any interleaving of keys, answers and failures a Session is an    *)
(* editor of one content that loses nothing unagreed, shows no verdict as   *)
(* one on other content, and writes what was on screen when it was asked    *)
(* to (model.go, compose.go, versionswitch.go, validate.go, root.go).      *)
ComposesAsPromised == Promise!Spec

=============================================================================
