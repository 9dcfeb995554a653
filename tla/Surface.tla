------------------------------- MODULE Surface -------------------------------
(***************************************************************************)
(* The type-to-filter lists of internal/tui: the Kind picker (picker.go),  *)
(* the field search (search.go) and the version list (versionswitch.go).   *)
(* A list is its filter, the index of its highlighted match and the index  *)
(* of the first match on screen, both from zero.  A text is a sequence of  *)
(* letters, case folded.  The module has no variables.                     *)
(*                                                                         *)
(* An operator whose comment starts with "Seeded fault" is a plausible     *)
(* mistake in the definition after it and part of no behaviour.            *)
(***************************************************************************)
EXTENDS Integers, Sequences, FiniteSets, SequencesExt

Smaller(m, n) == IF m < n THEN m ELSE n
Larger(m, n) == IF m > n THEN m ELSE n

(* The number between 0 and last that is nearest to n.                     *)
Clamped(n, last) == Larger(Smaller(n, last), 0)

(* The first letters of the text that spell the filter in order, as far as *)
(* the text has them: their positions.                                     *)
ForwardScan(filter, text) ==
    LET scan[n \in 0..Len(text)] ==
            IF n = 0 THEN <<>>
            ELSE LET found == scan[n - 1] IN
                 IF Len(found) < Len(filter) /\ text[n] = filter[Len(found) + 1]
                 THEN Append(found, n)
                 ELSE found
    IN  scan[Len(text)]

(* fuzzyMatches: every letter of the filter is in the text, in order.      *)
FuzzyMatches(filter, text) == Len(ForwardScan(filter, text)) = Len(filter)

(* Seeded fault: the forward scan's positions are taken as they are.       *)
ForwardOnly(filter, text) == ForwardScan(filter, text)

(* fuzzySubsequence: from the last position back, each letter is pulled as *)
(* far right as its successor allows.                                      *)
MatchedPositions(filter, text) ==
    LET found == ForwardScan(filter, text)
        before(letter, n) ==
            CHOOSE i \in 1..(n - 1) : /\ text[i] = letter
                                      /\ \A j \in (i + 1)..(n - 1) : text[j] # letter
        tight[n \in DOMAIN found] ==
            IF n = Len(found) THEN found[n] ELSE before(filter[n], tight[n + 1])
    IN  [n \in DOMAIN found |-> tight[n]]

Span(positions) == IF positions = <<>> THEN 0 ELSE 1 + Last(positions) - Head(positions)

-----------------------------------------------------------------------------

NewList == [filter |-> <<>>, cursor |-> 0, offset |-> 0]

(* Every change of the filter re-anchors the highlight at the top.         *)
Refiltered(filter) == [NewList EXCEPT !.filter = filter]

(* Seeded fault: the highlight stays where it is.                          *)
TypedInPlace(list, text) == [list EXCEPT !.filter = @ \o text]
Typed(list, text) == Refiltered(list.filter \o text)
Cleared(list) == Refiltered(<<>>)
Erased(list) == IF list.filter = <<>> THEN list ELSE Refiltered(Front(list.filter))

(* The offset that keeps a highlight on screen, given how many of count     *)
(* matches show: no blank rows at the end, then the highlight within.      *)
Scrolled(offset, cursor, count, shown) ==
    LET filled == Smaller(offset, Larger(count - shown, 0)) IN
    CASE cursor < filled -> cursor
      [] cursor >= filled + shown -> cursor - shown + 1
      [] OTHER -> filled

(* How many rows fit below the picker's prompt; before the first resize     *)
(* the terminal's height is zero and the list unbounded.                   *)
PickerRowsShown(count, height) == IF height <= 0 THEN count ELSE height - 1

(* picker.follow                                                           *)
PickerFollow(list, count, height) ==
    LET shown == PickerRowsShown(count, height) IN
    [list EXCEPT !.offset = IF shown <= 0
                            THEN Smaller(@, Larger(count - 1, 0))
                            ELSE Scrolled(@, list.cursor, count, shown)]

(* picker.move                                                             *)
PickerMove(list, delta, count, height) ==
    IF count = 0 THEN list
    ELSE PickerFollow([list EXCEPT !.cursor = Clamped(@ + delta, count - 1)], count, height)

(* fieldSearch.move and versionList.move, their offset left out.           *)
ListMove(list, delta, count) ==
    IF count = 0 THEN list ELSE [list EXCEPT !.cursor = Clamped(@ + delta, count - 1)]

=============================================================================
