----------------------------- MODULE MCSession -----------------------------
(***************************************************************************)
(* Instances of Session for TLC.  "apps/v1" and "apps/v1beta1" are two     *)
(* served versions of one Kind; "daemon" is another Kind of apps/v1, so    *)
(* its document is the first one's; "apps/v2" and "apps/v3" are versions   *)
(* whose document cannot serve the Kind.                                   *)
(***************************************************************************)
EXTENDS SessionPromise, SessionInvariant, TLC

Served == {"apps/v1", "apps/v1beta1", "apps/v2", "apps/v3"} \cap Kinds
ServedVersions == [k \in Kinds |-> IF k \in Served THEN Served ELSE {k}]
Document == [k \in Kinds |-> IF k = "daemon" THEN "apps/v1" ELSE k]
Faulty ==
    [k \in Kinds |-> CASE k = "apps/v2" -> "noTypeSchema"
                       [] k = "apps/v3" -> "noRoot"
                       [] OTHER -> "none"]

(* Every version but v1beta1 defines every field. *)
Defined == [k \in Kinds |-> IF k = "apps/v1beta1" THEN Fields \ {"spec", "list"} ELSE Fields]

Composed ==
    [f \in Fields |-> CASE f = "spec" -> "blind"
                        [] f = "list" -> "array"
                        [] f = "labels" -> "map"
                        [] OTHER -> "leaf"]

(* The Session has no default namespace and "apps/v1" is namespaced. *)
Namespaced == {"apps/v1"} \cap Kinds
ClusterScoped == {}

Symmetric == Permutations(Slots) \cup Permutations(Values) \cup Permutations(Files)
=============================================================================
