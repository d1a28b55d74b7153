--------------------------- MODULE HeaderQuality ----------------------------
(***************************************************************************)
(* How parse() judges the text of a cell: as the name of a column           *)
(* (scoreHeaderQuality, isNumericOrCurrency, looksLikeColumnName,           *)
(* parse.go:1076-1192, and the two length limits of buildResultWithIndices) *)
(* and as a kind of data (normalizeDataForCaching, parse.go:316-363).       *)
(*                                                                          *)
(* A text is a record of what the code asks of a trimmed, non-empty string. *)
(* Lengths are in bytes, as len() counts them: a Cyrillic letter is two.    *)
(***************************************************************************)
EXTENDS Integers, Sequences

Text ==
    [bytes    : Nat \ {0},  \* len
     words    : Seq(Nat),   \* the lengths of strings.Fields
     number   : BOOLEAN,    \* strconv.ParseFloat takes it
     latin    : BOOLEAN,    \* nothing but Latin letters
     currency : BOOLEAN,    \* contains a currency symbol
     dotted   : BOOLEAN,    \* contains a full stop, a comma or a colon
     affixed  : BOOLEAN,    \* ends in "id", "code" ... or starts with "num" ...
     code     : BOOLEAN]    \* nothing but Latin letters, digits, '-', '_', '.',
                            \* with a letter or a digit among them

-----------------------------------------------------------------------------
\* Three or four Latin letters pass for the code of a currency.
IsNumericOrCurrency(t) ==
    \/ t.number
    \/ t.bytes \in {3, 4} /\ t.latin
    \/ t.currency

LooksLikeColumnName(t) ==
    \/ Len(t.words) = 1 /\ t.bytes \in 2 .. 12
    \/ Len(t.words) = 2 /\ t.words[1] <= 8 /\ t.words[2] <= 8
    \/ t.affixed

LengthScore(n) ==
    CASE n < 3        -> -2
      [] n \in 3..15  -> 3
      [] n \in 16..30 -> 1
      [] n > 30       -> -4

WordScore(k) ==
    CASE k = 1 -> 2
      [] k = 2 -> 1
      [] k > 3 -> -3
      [] k \in {0, 3} -> 0

Worth(applies, points) == IF applies THEN points ELSE 0

\* scoreHeaderQuality
Score(t) ==
    LengthScore(t.bytes) + WordScore(Len(t.words))
        + Worth(IsNumericOrCurrency(t), -5)
        + Worth(t.dotted, -3)
        + Worth(LooksLikeColumnName(t), 3)

MaxScore == 8

\* A header that may give way to a better one of its column.
IsWeak(t) == t.bytes <= 4 \/ IsNumericOrCurrency(t)

\* A text that may fill a gap of the header.
IsShort(t) == t.bytes <= 30

\* A name a column may well have: one word of some length, and neither a number
\* nor a currency nor punctuated.
IsPlainName(t) ==
    /\ Len(t.words) = 1
    /\ t.bytes \in 3 .. 12
    /\ ~IsNumericOrCurrency(t)
    /\ ~t.dotted

-----------------------------------------------------------------------------
\* normalizeDataForCaching, of a text that is not empty.
Pattern(t) ==
    IF t.number THEN "NUMBER"
    ELSE IF t.code /\ t.bytes \in 2 .. 20 THEN "CODE"
    ELSE IF t.bytes <= 10 THEN "SHORT_TEXT"
    ELSE IF t.bytes <= 50 THEN "MEDIUM_TEXT"
    ELSE "LONG_TEXT"
=============================================================================
