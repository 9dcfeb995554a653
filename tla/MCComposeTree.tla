--------------------------- MODULE MCComposeTree ---------------------------
(* Two versions of a Kind for ComposeTree.  The first is blind at raw and  *)
(* takes a port from a list of strings; the second describes raw, takes    *)
(* the port in either spelling, asks for a name and meta's owner, and for  *)
(* ports but not for what is in one, and has no tags.                      *)
EXTENDS ComposeTree

Served ==
    [v1 |-> (<<>> :> "object") @@ (<<"name">> :> "string")
            @@ (<<"meta">> :> "object") @@ (<<"meta", "raw">> :> "raw-YAML")
            @@ (<<"meta", "tags">> :> "map") @@ (<<"meta", "tags", "{}">> :> "integer")
            @@ (<<"ports">> :> "array") @@ (<<"ports", "[]">> :> "object")
            @@ (<<"ports", "[]", "port">> :> "string"),
     v2 |-> (<<>> :> "object") @@ (<<"name">> :> "string")
            @@ (<<"meta">> :> "object") @@ (<<"meta", "raw">> :> "string")
            @@ (<<"meta", "owner">> :> "boolean")
            @@ (<<"ports">> :> "array") @@ (<<"ports", "[]">> :> "object")
            @@ (<<"ports", "[]", "port">> :> "int-or-string")]

RequiredBy ==
    [v1 |-> {<<"ports">>, <<"ports", "[]", "port">>},
     v2 |-> {<<"name">>, <<"meta", "owner">>, <<"ports">>}]

(* The digits are there as a number and as a string.                       *)
FlavorOf == ("web" :> "text") @@ ("'80'" :> "text") @@ ("80" :> "whole")
            @@ ("true" :> "bool") @@ ("{}" :> "yaml")
SpellingOf == ("web" :> "web") @@ ("'80'" :> "80") @@ ("80" :> "80")
            @@ ("true" :> "true") @@ ("{}" :> "{}")

Lists == [v1 |-> (<<"ports", "[]", "port">> :> <<"80">>), v2 |-> [s \in {} |-> <<>>]]

(* A name does not start with a digit, and neither does raw.               *)
Patterns == [v1 |-> {<<<<"name">>, "'80'">>},
             v2 |-> {<<<<"name">>, "'80'">>, <<<<"meta", "raw">>, "'80'">>}]

Rules == {<<"ports", "[]", "port">>, <<"meta", "tags", "{}">>}

Gate == {<<FieldSegment("name")>>}
=============================================================================
