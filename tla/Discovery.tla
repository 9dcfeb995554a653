------------------------------ MODULE Discovery ------------------------------
(***************************************************************************)
(* The browsable Kinds: what is made of the cluster's discovery answer     *)
(* (internal/data/discovery.go), how a deep link's token is resolved       *)
(* against it (resolve.go), and in what order the picker lists it          *)
(* (internal/tui/picker.go).  The module has no variables.                 *)
(*                                                                         *)
(* A resource is what discovery says of one resource type: the group and   *)
(* version of the list it is served in, the ones it states for itself      *)
(* (or Null), its Kind, its plural, its short names, the verbs it serves   *)
(* and whether it is a subresource.  Names are case folded.                *)
(*                                                                         *)
(* An operator whose comment starts with "Seeded fault" is a plausible     *)
(* mistake in the definition after it and part of no behaviour.            *)
(***************************************************************************)
EXTENDS Naturals, Sequences, FiniteSets, SequencesExt, Ordering

CONSTANTS
    Resources,    \* what the cluster serves
    Preferred,    \* the Preferred Version of each group that states one
    Rank,         \* the string order of the groups, versions and Kinds
    Nothing       \* no group, no version, no Kind

ASSUME DiscoveryAssumption ==
    /\ IsFiniteSet(Resources)
    /\ \A r \in Resources : /\ {r.group, r.version, r.kind} \subseteq DOMAIN Rank
                            /\ {r.ownGroup, r.ownVersion} \subseteq DOMAIN Rank \cup {Nothing}
    /\ \A m, n \in DOMAIN Rank : Rank[m] \in Nat /\ (Rank[m] = Rank[n] => m = n)
    /\ DOMAIN Preferred \subseteq DOMAIN Rank

-----------------------------------------------------------------------------
(* The Kind list.                                                          *)

(* What the cluster answers: nothing but an error, or the resources it      *)
(* serves, without those of the group versions whose apiservice is broken, *)
(* which client-go reports in an error of its own beside the rest.         *)
Unanswered == [resources |-> {}, error |-> "other", malformed |-> FALSE]
Answer(broken, malformed) ==
    [resources |-> {r \in Resources : <<r.group, r.version>> \notin broken},
     error |-> IF broken = {} THEN "none" ELSE "groups",
     malformed |-> malformed]

(* isPersistable: composing is meaningful where create and list are served *)
(* and the resource is a Kind of its own.                                  *)
IsPersistable(r) == ~r.subresource /\ {"create", "list"} \subseteq r.verbs

(* A resource that states a group or version of its own goes by that.      *)
BrowsableKind(r) ==
    LET group == IF r.ownGroup = Nothing THEN r.group ELSE r.ownGroup
        version == IF r.ownVersion = Nothing THEN r.version ELSE r.ownVersion
    IN  [group |-> group, version |-> version, kind |-> r.kind, plural |-> r.plural,
         shorts |-> r.shorts,
         preferred |-> group \in DOMAIN Preferred /\ Preferred[group] = version]

KindOrder(a, b) ==
    LexicallyBefore(<<Rank[a.group], Rank[a.version], Rank[a.kind]>>,
                    <<Rank[b.group], Rank[b.version], Rank[b.kind]>>)

(* Seeded fault: an answer beside an error counts as none.                 *)
DiscoveryFailsOnAnyError(answer) == answer.error # "none" \/ answer.malformed

(* The groups that did answer make a Kind list; another error does not, nor *)
(* does a list whose group version does not parse.                         *)
DiscoveryFails(answer) == answer.error = "other" \/ answer.malformed

DiscoverKinds(answer) ==
    InOrder({BrowsableKind(r) : r \in {q \in answer.resources : IsPersistable(q)}}, KindOrder)

Gvk(kind) == <<kind.group, kind.version, kind.kind>>
GroupKind(kind) == <<kind.group, kind.kind>>

(* "GVK identifies the Kind": no two resources to compose have the same.   *)
ASSUME KindAssumption ==
    /\ \A q, r \in Resources :
         /\ IsPersistable(q) /\ IsPersistable(r)
         /\ Gvk(BrowsableKind(q)) = Gvk(BrowsableKind(r))
         => q = r
    /\ \A r \in Resources : BrowsableKind(r) # Nothing

-----------------------------------------------------------------------------
(* The deep link's token.                                                  *)

KindMatchesToken(kind, token) == token \in {kind.kind, kind.plural} \cup kind.shorts

(* Seeded fault: the first match is taken.                                 *)
FirstOf(matched) == Head(matched)

(* The Preferred Version among the matched ones, the first where there is  *)
(* none.                                                                   *)
PreferredVersionOf(matched) ==
    LET preferring == Picked(matched, {n \in DOMAIN matched : matched[n].preferred})
    IN  IF preferring = <<>> THEN Head(matched) ELSE Head(preferring)

(* ResolveKindToken: a Kind, or Nothing where the token is unknown or       *)
(* answers to Kinds of more than one name.                                 *)
ResolveKindToken(kinds, token) ==
    LET matched == Picked(kinds, {n \in DOMAIN kinds : KindMatchesToken(kinds[n], token)})
    IN  IF Cardinality({GroupKind(kind) : kind \in ToSet(matched)}) = 1
        THEN PreferredVersionOf(matched)
        ELSE Nothing

-----------------------------------------------------------------------------
(* The picker's rows.                                                      *)

(* comparePickerRows: by group and Kind, its Preferred Version first.      *)
PickerOrder(a, b) ==
    LET key(k) == <<Rank[k.group], Rank[k.kind], IF k.preferred THEN 0 ELSE 1, Rank[k.version]>>
    IN  LexicallyBefore(key(a), key(b))

PickerRows(kinds) == InOrder(ToSet(kinds), PickerOrder)

=============================================================================
