----------------------------- MODULE SheetGrid ------------------------------
(***************************************************************************)
(* How parse() reads a sheet: how the grid is filled, where a table starts, *)
(* which rows GPT is shown, which cells become the header and which rows    *)
(* the data, and what of a table goes into the cache keys (parse.go:87-163, *)
(* 366-411, 667-737 and 903-1067).                                          *)
(*                                                                          *)
(* A sheet is what excelize says of it: its rows, which end with their last *)
(* cell, and its merges, each a pair of a reference and the text it shows.  *)
(* A grid is a sequence of rows of one width, a row a sequence of trimmed   *)
(* cells.  Rows are numbered from 1 here and from 0 in the code; NoRow is   *)
(* the code's -1.                                                           *)
(***************************************************************************)
EXTENDS HeaderQuality, FiniteSets, SequencesExt

CONSTANTS
    Cells,          \* trimmed texts of cells
    Blank,          \* the empty one
    TextOf(_),      \* what HeaderQuality asks of a cell that is not blank
    RangeOf(_),     \* the cells a text like "A2:B4" refers to, if it is one
    NoRange,        \* if it is none
    RowText(_),     \* the cells of a row joined by blanks, as GPT sees them
    MinCells,       \* 3: a row with fewer cells does not start a table
    Window,         \* 10: the rows GPT is shown
    SampleSize,     \* 3: the data rows a validation looks at
    KeyRows,        \* 2: the sample rows that go into the legacy key
    KeyCells        \* 3: the cells of them that do

ASSUME CellAssumption ==
    /\ Blank \in Cells
    /\ \A cell \in Cells \ {Blank} : TextOf(cell) \in Text

ASSUME WindowAssumption == Window \in Nat \ {0} /\ MinCells \in Nat

NoRow == 0

\* The numbers in S, in ascending order.
Ascending(S) ==
    CHOOSE s \in [1 .. Cardinality(S) -> S] :
        \A i, j \in DOMAIN s : i < j => s[i] < s[j]

-----------------------------------------------------------------------------
Width(s) == Max({0} \cup {Len(s.rows[r]) : r \in DOMAIN s.rows})

\* The merges that cover a cell: the code parses the text (merge[1]) for the
\* range.
Covering(s, r, c) ==
    {m \in DOMAIN s.merges :
        LET range == RangeOf(s.merges[m].text)
        IN  /\ range # NoRange
            /\ r \in range.top .. range.bottom
            /\ c \in range.left .. range.right}

\* getFilledGrid: rows are padded to one width, and the last merge that covers
\* a cell fills it, with its reference (merge[0]).
FilledGrid(s) ==
    [r \in DOMAIN s.rows |-> [c \in 1 .. Width(s) |->
        IF Covering(s, r, c) # {} THEN s.merges[Max(Covering(s, r, c))].reference
        ELSE IF c \in DOMAIN s.rows[r] THEN s.rows[r][c]
        ELSE Blank]]

IsBlankRow(row) == \A c \in DOMAIN row : row[c] = Blank

\* The first row with at least MinCells cells.
StartRow(g) ==
    LET wide == {r \in DOMAIN g :
                   Cardinality({c \in DOMAIN g[r] : g[r][c] # Blank}) >= MinCells}
    IN  IF wide = {} THEN NoRow ELSE Min(wide)

\* The non-blank rows of the window below the start row, in order: row i of
\* what GPT is shown is row RowIndices(g)[i] of the sheet.
RowIndices(g) ==
    Ascending({r \in StartRow(g) .. Min({StartRow(g) + Window - 1, Len(g)}) :
                 ~IsBlankRow(g[r])})

RowTexts(g) ==
    LET indices == RowIndices(g)
    IN  [i \in DOMAIN indices |-> RowText(g[indices[i]])]

\* The non-blank rows from row r to row s.
RowsBetween(g, r, s) == SelectSeq(SubSeq(g, r, s), LAMBDA row : ~IsBlankRow(row))

RowsFrom(g, r) == RowsBetween(g, r, Len(g))

\* What the early cache check takes for the header, and for sample rows.
HeuristicHeaders(g) == g[StartRow(g)]

HeuristicSampleRows(g) ==
    RowsBetween(g, StartRow(g) + 1, Min({StartRow(g) + SampleSize, Len(g)}))

-----------------------------------------------------------------------------
\* The header of column c, when the header row is h and the data starts at d.
\* A gap is filled from the first short cell below it.
GapFilled(g, h, d, c) ==
    LET fit == {r \in h + 1 .. d - 1 : g[r][c] # Blank /\ IsShort(TextOf(g[r][c]))}
    IN  IF g[h][c] # Blank THEN g[h][c]
        ELSE IF fit = {} THEN Blank
        ELSE g[Min(fit)][c]

CellScore(cell) == Score(TextOf(cell))

HeaderCellOnTie(g, h, d, c) ==
    LET own    == GapFilled(g, h, d, c)
        better == {r \in h .. d - 1 :
                     g[r][c] \notin {Blank, own} /\ CellScore(g[r][c]) >= CellScore(own)}
        best   == {r \in better : \A q \in better : CellScore(g[q][c]) <= CellScore(g[r][c])}
    IN  IF own = Blank \/ ~IsWeak(TextOf(own)) \/ best = {} THEN own
        ELSE g[Max(best)][c]

\* A weak header gives way to the first cell of the best score above its own.
HeaderCell(g, h, d, c) ==
    LET own    == GapFilled(g, h, d, c)
        better == {r \in h .. d - 1 :
                     g[r][c] \notin {Blank, own} /\ CellScore(g[r][c]) > CellScore(own)}
        best   == {r \in better : \A q \in better : CellScore(g[q][c]) <= CellScore(g[r][c])}
    IN  IF own = Blank \/ ~IsWeak(TextOf(own)) \/ best = {} THEN own
        ELSE g[Min(best)][c]

\* The table that GPT's answer describes: the header is read from rows top to
\* from - 1, the data from row from on.
AnalysedTable(g, h, d) ==
    [header |-> [c \in DOMAIN g[h] |-> HeaderCell(g, h, d, c)],
     rows   |-> RowsFrom(g, d),
     top    |-> h,
     from   |-> d]

\* The table without an answer: headerRows is 1 in every call, so the start row
\* is the header.
FallbackTable(g) ==
    [header |-> g[StartRow(g)],
     rows   |-> RowsFrom(g, StartRow(g) + 1),
     top    |-> StartRow(g),
     from   |-> StartRow(g) + 1]

SampleRows(t) == SubSeq(t.rows, 1, Min({SampleSize, Len(t.rows)}))

-----------------------------------------------------------------------------
\* What the legacy key says of the sample rows: the kinds of some cells.
Kinds(sample) ==
    [i \in 1 .. Min({KeyRows, Len(sample)}) |->
        [c \in 1 .. Min({KeyCells, Len(sample[i])}) |->
            IF sample[i][c] = Blank THEN "EMPTY" ELSE Pattern(TextOf(sample[i][c]))]]

LegacyKeyOfSample(header, sample) == [header |-> <<>>, kinds |-> Kinds(sample)]

\* generateTableValidationCacheKey.  The joined cells are kept as sequences:
\* the separators the code puts between them do not occur in cells here.
LegacyKey(header, sample) == [header |-> header, kinds |-> Kinds(sample)]

AdvancedIdRowsOnly(header, row) == [hash |-> <<>>, start |-> row, end |-> row]

\* The identity of a table in the advanced cache: the exact hash of its header
\* and the rows its header spans, which are the same row in every call.
AdvancedId(header, row) == [hash |-> header, start |-> row, end |-> row]
=============================================================================
