----------------------------- MODULE TextConsole -----------------------------
(***************************************************************************)
(* The text console of src/matrix: a buffer of characters, of which print  *)
(* keeps the last MAX_LINES lines.  print breaks a line before the         *)
(* character that would make it as wide as the panel.  It measures from    *)
(* the last break it made itself: a newline in the text does not count.    *)
(***************************************************************************)
EXTENDS Integers, FiniteSets, SequencesExt

CONSTANTS
  Chars,
  NewLine,     \* '\n', one of Chars
  CharWidth,   \* Chars -> what measure_text adds for one, spacing included
  WIDTH,       \* pixels of a line
  MAX_LINES    \* lines of the panel

ASSUME ConsoleAssumption ==
  /\ WIDTH \in Nat
  /\ NewLine \in Chars
  /\ CharWidth \in [Chars -> 1 .. WIDTH - 1]
  /\ MAX_LINES \in Nat \ {0}

LineEnds(text) == {n \in DOMAIN text : text[n] = NewLine}

line_count(text) == Cardinality(LineEnds(text))

(* Mutant: scroll takes characters until none is left, newline or not. *)
ScrolledAway(text) == IF line_count(text) > MAX_LINES THEN <<>> ELSE text

(* scroll: lines go from the front until MAX_LINES are left. *)
Scrolled(text) ==
  LET gone == {n \in LineEnds(text) :
                 Cardinality({m \in LineEnds(text) : m > n}) >= MAX_LINES}
  IN  SubSeq(text, Max({0} \cup gone) + 1, Len(text))

(* Mutant: a line may be as wide as the panel. *)
OverflowsBeyond(width, c) == width + CharWidth[c] > WIDTH

(* width is that of temp_line, c the character that comes next. *)
Overflows(width, c) == width + CharWidth[c] >= WIDTH

Broken(width, c) == IF Overflows(width, c) THEN <<NewLine>> ELSE <<>>

Grown(width, c) == (IF Overflows(width, c) THEN 0 ELSE width) + CharWidth[c]

(* What print makes of the first n characters, and the width of temp_line. *)
Wrapping(text) ==
  LET state[n \in 0 .. Len(text)] ==
        IF n = 0 THEN [text |-> <<>>, width |-> 0]
        ELSE LET sofar == state[n - 1]
                 c     == text[n]
             IN  [text  |-> sofar.text \o Append(Broken(sofar.width, c), c),
                  width |-> Grown(sofar.width, c)]
  IN  state

(* What one call of print adds to the buffer, before it scrolls. *)
Wrapped(message) == Wrapping(Append(message, NewLine))[Len(message) + 1].text

(* A call of print that nothing interrupts. *)
Printed(text, message) == Scrolled(text \o Wrapped(message))

(* The text fills whole lines and none of them is below the panel. *)
FitsPanel(text) ==
  /\ line_count(text) <= MAX_LINES
  /\ text # <<>> => Last(text) = NewLine

(* How far the first n characters reach. *)
Reach(text) ==
  LET sum[n \in 0 .. Len(text)] ==
        IF n = 0 THEN 0 ELSE sum[n - 1] + CharWidth[text[n]]
  IN  sum

(* No stretch between two newlines is wider than that. *)
NoWider(text, width) ==
  \A from, to \in DOMAIN text :
    (\A n \in from .. to : text[n] # NewLine) =>
      Reach(text)[to] - Reach(text)[from - 1] <= width
=============================================================================
