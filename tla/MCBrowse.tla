------------------------------ MODULE MCBrowse ------------------------------
(* A small cluster for Browse: Deployments of two groups, one of them at   *)
(* three versions of which the second is preferred and the third, stated   *)
(* beside the second, is not described; a Secret; and resources that are   *)
(* no Kinds to browse.  The letters p and o tell the names apart.          *)
EXTENDS Browse

Full == {"create", "list"}
Served(group, v, name, plural, shorts) ==
    [group |-> group, version |-> v, kind |-> name, plural |-> plural, shorts |-> shorts,
     verbs |-> Full, subresource |-> FALSE, ownGroup |-> Nothing, ownVersion |-> Nothing]

Cluster ==
    {Served("apps", "v1", "deployment", "deployments", {"deploy", "depp"}),
     Served("apps", "v2", "deployment", "deployments", {"deploy"}),
     [Served("apps", "v2", "deployment", "deployments", {"deploy"}) EXCEPT !.ownVersion = "v3"],
     Served("ext", "v1", "deployment", "deployments", {}),
     Served("", "v1", "secret", "secrets", {}),
     [Served("", "v1", "binding", "bindings", {}) EXCEPT !.verbs = {"create"}],
     [Served("apps", "v1", "scale", "deployments/scale", {}) EXCEPT !.subresource = TRUE]}

Prefers == ("apps" :> "v2") @@ ("" :> "v1")
StringOrder ==
    ("" :> 0) @@ ("apps" :> 1) @@ ("binding" :> 2) @@ ("deployment" :> 3) @@ ("ext" :> 4)
    @@ ("scale" :> 5) @@ ("secret" :> 6) @@ ("v1" :> 7) @@ ("v2" :> 8) @@ ("v3" :> 9)

(* No link, a link by a short name into an item, by an ambiguous name to a *)
(* path no version has, and by a short name of one version.                *)
Links ==
    {Nothing,
     [token |-> "deploy", path |-> <<"http", "port">>],
     [token |-> "deployment", path |-> <<"nope">>],
     [token |-> "depp", path |-> <<"proto">>]}

Broken == {{}, {<<"apps", "v2">>}, {<<"ext", "v1">>}}

One == <<"apps", "v1", "deployment">>
Two == <<"apps", "v2", "deployment">>
Ports ==
    (<<"http">> :> "array") @@ (<<"http", "[]">> :> "object")
    @@ (<<"http", "[]", "port">> :> "integer")
Described ==
    (One :> ((<<>> :> "object") @@ Ports @@ (<<"proto">> :> "string")))
    @@ (Two :> ((<<>> :> "object") @@ Ports @@ (<<"raw">> :> "raw-YAML")
             @@ (<<"tags">> :> "map") @@ (<<"tags", "{}">> :> "string")))
Composable == {One, Two}
Rules == {<<"http", "[]", "port">>}
NothingRequired == [v \in Composable |-> {}]
FlavorOf == ("web" :> "text") @@ ("80" :> "whole") @@ ("{}" :> "yaml")
AsWritten == [x \in DOMAIN FlavorOf |-> x]
NoEnum == [v \in Composable |-> [s \in {} |-> <<>>]]
NothingRefused == [v \in Composable |-> {}]

FieldOrder == ("http" :> 1) @@ ("port" :> 2) @@ ("proto" :> 3) @@ ("raw" :> 4)
    @@ ("tags" :> 5)
FieldLetters ==
    ("http" :> <<"h", "t", "t", "p">>) @@ ("port" :> <<"p", "o", "r", "t">>)
    @@ ("proto" :> <<"p", "r", "o", "t", "o">>) @@ ("raw" :> <<"r", "a", "w">>)
    @@ ("tags" :> <<"t", "a", "g", "s">>)
VersionLetters ==
    (One :> <<"a", "p", "p", "s", "/", "v", "1">>) @@ (Two :> <<"a", "p", "p", "s", "/", "v", "2">>)
    @@ (<<"apps", "v3", "deployment">> :> <<"a", "p", "p", "s", "/", "v", "3">>)
KindLetters ==
    ("deployment" :> <<"d", "e", "p", "l", "o", "y">>) @@ ("secret" :> <<"s", "e", "c", "r", "e", "t">>)
    @@ ("deploy" :> <<"d", "e", "p", "l", "o", "y">>) @@ ("depp" :> <<"d", "e", "p", "p">>)
    @@ ("binding" :> <<"b", "i">>) @@ ("scale" :> <<"s", "c">>)
=============================================================================
