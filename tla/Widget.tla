-------------------------------- MODULE Widget --------------------------------
(***************************************************************************)
(* The value widgets of internal/tui/editor.go: which one a leaf gets, what *)
(* it holds when it opens on a filled one, and what it confirms.           *)
(*                                                                         *)
(* A widget holds a text: the buffer of an input, the highlighted value of *)
(* a select list, the spelling of a toggle.  What a text reads as depends  *)
(* on the widget and on the display type, so what was rendered need not    *)
(* read back as what it was.                                               *)
(*                                                                         *)
(* An operator whose comment starts with "Seeded fault" is a plausible     *)
(* mistake in the definition after it and part of no behaviour.            *)
(***************************************************************************)
EXTENDS Report

(* Whether a number is whole shows in its spelling.                        *)
ASSUME WidgetAssumption ==
    \A x, y \in Data : Spelling[x] = Spelling[y] /\ Flavor[x] = "whole" => Flavor[y] # "fraction"

Texts == {Spelling[x] : x \in Data}
Reads(text, flavors) == {x \in Data : Spelling[x] = text /\ Flavor[x] \in flavors}

(* openEditor, widgetFor: a blind leaf has the text area, an enum the       *)
(* select list, any other leaf the widget of its display type.             *)
WidgetFor(v, p) ==
    LET type == TypeAt(v, p) IN
    IF type = "raw-YAML" THEN "rawYAML"
    ELSE IF IsEnumerated(v, p) THEN "select"
    ELSE CASE type = "boolean" -> "toggle"
           [] type \in {"integer", "number"} -> "numeric"
           [] type \in {"string", "int-or-string"} -> "text"
           [] OTHER -> "none"

(* What a user can have a widget hold.                                     *)
Holdable(v, p) ==
    CASE WidgetFor(v, p) = "select" -> Range(EnumAt(v, p))
      [] WidgetFor(v, p) = "none" -> {}
      [] OTHER -> Texts

(* newFieldEditor, openRawYAMLEditor over the value filled at p: a select   *)
(* list that does not offer it starts at its head.                         *)
Opened(v, d, p) ==
    LET spelled == Spelling[d[p].data] IN
    IF WidgetFor(v, p) = "select" /\ spelled \notin Range(EnumAt(v, p))
    THEN Head(EnumAt(v, p))
    ELSE spelled

(* The flavors a text is parsed for, by display type.                      *)
Parsed(type) ==
    CASE type = "boolean" -> {"bool"}
      [] type \in {"integer", "int-or-string"} -> {"whole"}
      [] type = "number" -> {"whole", "fraction"}
      [] type = "raw-YAML" -> {"yaml"}
      [] OTHER -> {}

(* Seeded fault: the text widget confirms its buffer as a string.          *)
ConfirmsText(v, p, text) ==
    IF WidgetFor(v, p) = "text" THEN Reads(text, {"text"}) ELSE Reads(text, Parsed(TypeAt(v, p)))

(* confirmValue, parseNumeric, typedEnumValue: what the widget confirms     *)
(* from its text.  Nothing, where the widget itself rejects; as written,   *)
(* where an input or a select list does not have to parse.                 *)
Confirms(v, p, text) ==
    LET parsed == Reads(text, Parsed(TypeAt(v, p))) IN
    IF parsed = {} /\ WidgetFor(v, p) \in {"text", "select"}
    THEN Reads(text, {"text"})
    ELSE parsed

=============================================================================
