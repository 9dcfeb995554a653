-------------------------------- MODULE Report --------------------------------
(***************************************************************************)
(* From the Status of a rejected dry-run to findings with a Field Path     *)
(* (internal/validate).                                                    *)
(*                                                                         *)
(* A cause spells the field it is about in a grammar of the server's; the  *)
(* findings respell it in the Draft's.  A spelling is a sequence of dots,  *)
(* names and selectors.  The two grammars differ in map keys, which the    *)
(* server does not quote: a key of digits looks like an item's index.      *)
(*                                                                         *)
(* An operator whose comment starts with "Seeded fault" is a plausible     *)
(* mistake in the definition after it and part of no behaviour.            *)
(***************************************************************************)
EXTENDS Draft, Ordering

CONSTANT DigitKeys    \* the map keys of digits only, each the number it spells

ASSUME ReportAssumption == DigitKeys \subseteq Nat

-----------------------------------------------------------------------------
(* The server's spelling, by the field paths of the API machinery.         *)

Dot == [dot |-> TRUE]
Name(text) == [name |-> text]
Digits(number) == [digits |-> number]
Text(key) == [text |-> key]
EmptySelector == [empty |-> TRUE]
Nil == Name("<nil>")

Spelled(segment) ==
    CASE IsField(segment) -> <<Dot, Name(segment.field)>>
      [] IsItem(segment) -> <<Digits(segment.item)>>
      [] IsKey(segment) /\ segment.key \in DigitKeys -> <<Digits(segment.key)>>
      [] OTHER -> <<Text(segment.key)>>

(* A position below the root, whose first segment is a field, has one       *)
(* spelling, which some servers start with a dot.                          *)
CauseFields(p) ==
    LET dotted == FlattenSeq([n \in DOMAIN p |-> Spelled(p[n])])
    IN  {dotted, Tail(dotted)}

(* Causes that name no position.                                           *)
Pathless == {<<>>, <<Dot>>, <<Nil>>, <<Name("name"), Dot>>, <<Name("name"), EmptySelector>>}

-----------------------------------------------------------------------------

IsName(token) == "name" \in DOMAIN token

(* Seeded fault: a leading dot is not expected.                            *)
UntrimmedDots(spelling) == spelling

TrimDots(spelling) ==
    LET start == CHOOSE n \in 1..(Len(spelling) + 1) :
                    /\ n <= Len(spelling) => spelling[n] # Dot
                    /\ \A m \in 1..(n - 1) : spelling[m] = Dot
    IN  SubSeq(spelling, start, Len(spelling))

(* respellCausePath takes it: a name, then names after a dot each, and      *)
(* selectors that hold something.                                          *)
Parses(spelling) ==
    /\ spelling # <<>> /\ IsName(Head(spelling)) /\ Last(spelling) # Dot
    /\ \A n \in 2..Len(spelling) : IsName(spelling[n]) <=> spelling[n - 1] = Dot
    /\ \A n \in DOMAIN spelling : spelling[n] # EmptySelector

(* normalizeFieldPath: the Draft-level path, or the empty one where the     *)
(* spelling names no position.                                             *)
NormalizeFieldPath(spelling) ==
    LET rest == TrimDots(spelling)
        tokens == Picked(rest, {n \in DOMAIN rest : rest[n] # Dot})
        segment(token) ==
            CASE IsName(token) -> FieldSegment(token.name)
              [] "digits" \in DOMAIN token -> IndexSegment(token.digits)
              [] OTHER -> KeySegment(token.text)
    IN  IF rest # <<Nil>> /\ Parses(rest)
        THEN [n \in DOMAIN tokens |-> segment(tokens[n])]
        ELSE <<>>

(* mapCauses: a finding per cause, in order; without causes the message, if *)
(* there is one, is a finding that names no position.                      *)
MapCauses(spellings, message) ==
    IF spellings # <<>>
    THEN [n \in DOMAIN spellings |-> NormalizeFieldPath(spellings[n])]
    ELSE IF message THEN << <<>> >> ELSE <<>>

=============================================================================
