--------------------------- MODULE SheetGridProofs ---------------------------
(***************************************************************************)
(* Facts about the tables that can be read from a grid, for grids of any    *)
(* size and any texts: where their rows come from, and which header a       *)
(* column gets.  ExcelParseProofs carries them to what parse() returns.     *)
(***************************************************************************)
EXTENDS SheetGrid, FiniteSetTheorems, SequenceTheorems, WellFoundedInduction, TLAPS

\* A grid of Cells, as FilledGrid makes it.
IsGrid(g) ==
    /\ \E n \in Nat : DOMAIN g = 1 .. n
    /\ \A r, q \in DOMAIN g : DOMAIN g[r] = DOMAIN g[q]
    /\ \A r \in DOMAIN g : \A c \in DOMAIN g[r] : g[r][c] \in Cells

\* The tables parse() can take from g, wherever GPT finds the header: the data
\* lies below it, and it is not above the start row.
Possible(g) ==
    {FallbackTable(g)} \cup
    UNION {{AnalysedTable(g, h, d) : d \in {e \in DOMAIN g : h < e}} :
             h \in {r \in DOMAIN g : StartRow(g) <= r}}

Sheets == [rows : Seq(Seq(Cells)), merges : Seq([reference : Cells, text : Cells])]

-----------------------------------------------------------------------------
LEMMA SmallestNatural1 ==
    ASSUME NEW T \in SUBSET Nat, T # {}
    PROVE  \E x \in T : \A y \in T : x <= y
<1>1. PICK x \in T : \A y \in T : ~(<<y, x>> \in OpToRel(<, Nat))
  BY NatLessThanWellFounded, WFMin
<1>2. \A y \in T : ~(y < x)
  BY <1>1 DEF OpToRel
<1> QED BY <1>2

LEMMA MinOf ==
    ASSUME NEW T \in SUBSET Nat, T # {}
    PROVE  Min(T) \in T /\ \A y \in T : Min(T) <= y
BY SmallestNatural1 DEF Min

LEMMA MaxOf ==
    ASSUME NEW n \in Nat, NEW T \in SUBSET (0 .. n), T # {}
    PROVE  Max(T) \in T
<1> DEFINE U == {n - x : x \in T}
<1>1. U \in SUBSET Nat /\ U # {}
  <2>1. \A x \in T : n - x \in Nat
    OBVIOUS
  <2> QED BY <2>1
<1>2. PICK u \in U : \A v \in U : u <= v
  BY <1>1, SmallestNatural1
<1>3. PICK x \in T : u = n - x
  BY <1>2
<1>4. \A y \in T : x >= y
  <2> SUFFICES ASSUME NEW y \in T PROVE x >= y
    OBVIOUS
  <2>1. u <= n - y
    BY <1>2
  <2> QED BY <1>3, <2>1
<1> QED BY <1>4 DEF Max

LEMMA MinOfTwo ==
    ASSUME NEW a \in Int, NEW b \in Int
    PROVE  Min({a, b}) = IF a <= b THEN a ELSE b
<1>1. \E x \in {a, b} : \A y \in {a, b} : x <= y
  OBVIOUS
<1>2. Min({a, b}) \in {a, b} /\ \A y \in {a, b} : Min({a, b}) <= y
  BY <1>1 DEF Min
<1> QED BY <1>2

-----------------------------------------------------------------------------
Enumerates(s, S) ==
    /\ s \in [1 .. Cardinality(S) -> S]
    /\ \A i, j \in DOMAIN s : i < j => s[i] < s[j]

\* Every set of numbers has an ascending enumeration: take the smallest bound of
\* a set without one, and leave out the bound.
LEMMA AscendingEnumerates ==
    ASSUME NEW n \in Nat, NEW S \in SUBSET (1 .. n)
    PROVE  /\ Cardinality(S) \in Nat
           /\ Enumerates(Ascending(S), S)
<1> DEFINE Bad == {m \in Nat : \E R \in SUBSET (1 .. m) : ~\E s : Enumerates(s, R)}
<1>1. Bad = {}
  <2> SUFFICES ASSUME Bad # {} PROVE FALSE
    OBVIOUS
  <2>1. PICK m \in Bad : \A y \in Bad : m <= y
    BY SmallestNatural1
  <2>2. PICK R \in SUBSET (1 .. m) : ~\E s : Enumerates(s, R)
    BY <2>1
  <2> HIDE DEF Bad
  <2>3. m \in Nat
    BY <2>1 DEF Bad
  <2>4. ASSUME NEW Q \in SUBSET (1 .. m - 1), m # 0 PROVE \E s : Enumerates(s, Q)
    <3>1. m - 1 \in Nat /\ m - 1 \notin Bad
      BY <2>1, <2>3, <2>4
    <3> QED BY <3>1, <2>4 DEF Bad
  <2>5. R # {}
    <3> SUFFICES ASSUME R = {} PROVE FALSE
      OBVIOUS
    <3>1. Cardinality(R) = 0
      BY FS_EmptySet
    <3>2. Enumerates([i \in {} |-> i], R)
      BY <3>1 DEF Enumerates
    <3> QED BY <2>2, <3>2
  <2>6. m \in R
    <3> SUFFICES ASSUME m \notin R PROVE FALSE
      OBVIOUS
    <3>1. \A x \in R : x \in 1 .. m - 1 /\ m # 0
      BY <2>2, <2>3
    <3> QED BY <2>2, <2>4, <2>5, <3>1
  <2> DEFINE Q == R \ {m}
             k == Cardinality(Q)
  <2>7. Q \in SUBSET (1 .. m - 1) /\ m # 0
    BY <2>2, <2>3, <2>6
  <2>8. IsFiniteSet(R)
    <3>1. IsFiniteSet(1 .. m)
      BY <2>3, FS_Interval
    <3> QED BY <2>2, <3>1, FS_Subset
  <2>9. k \in Nat /\ Cardinality(R) = k + 1
    <3>1. /\ IsFiniteSet(Q) /\ Cardinality(R) \in Nat /\ k = Cardinality(R) - 1
      BY <2>6, <2>8, FS_RemoveElement, FS_CardinalityType
    <3>2. k \in Nat
      BY <3>1, FS_CardinalityType
    <3> QED BY <3>1, <3>2
  <2>10. PICK t : Enumerates(t, Q)
    BY <2>4, <2>7
  <2> DEFINE s == [i \in 1 .. k + 1 |-> IF i = k + 1 THEN m ELSE t[i]]
  <2>11. t \in [1 .. k -> Q] /\ \A i, j \in 1 .. k : i < j => t[i] < t[j]
    BY <2>10 DEF Enumerates
  <2> HIDE DEF k
  <2>12. s \in [1 .. k + 1 -> R]
    BY <2>6, <2>9, <2>11
  <2>13. ASSUME NEW i \in 1 .. k + 1, NEW j \in 1 .. k + 1, i < j PROVE s[i] < s[j]
    <3>1. i \in 1 .. k /\ s[i] = t[i] /\ t[i] \in 1 .. m - 1
      BY <2>7, <2>9, <2>11, <2>13
    <3>2. CASE j = k + 1
      BY <2>3, <3>1, <3>2
    <3>3. CASE j # k + 1
      BY <2>9, <2>11, <2>13, <3>1, <3>3
    <3> QED BY <3>2, <3>3
  <2>14. Enumerates(s, R)
    BY <2>9, <2>12, <2>13 DEF Enumerates
  <2> QED BY <2>2, <2>14
<1>2. \E s : Enumerates(s, S)
  BY <1>1
<1>3. Enumerates(Ascending(S), S)
  BY <1>2 DEF Enumerates, Ascending
<1>4. Cardinality(S) \in Nat
  <2>1. IsFiniteSet(1 .. n)
    BY FS_Interval
  <2> QED BY <2>1, FS_Subset, FS_CardinalityType
<1> QED BY <1>3, <1>4

-----------------------------------------------------------------------------
\* However rows end and merges lie, the grid is rectangular and made of cells.
LEMMA FilledIsGrid ==
    ASSUME NEW s \in Sheets
    PROVE  IsGrid(FilledGrid(s))
<1> DEFINE g == FilledGrid(s)
<1>1. /\ s.rows \in Seq(Seq(Cells)) /\ s.merges \in Seq([reference : Cells, text : Cells])
      /\ Len(s.rows) \in Nat /\ DOMAIN s.rows = 1 .. Len(s.rows)
      /\ Len(s.merges) \in Nat /\ DOMAIN s.merges = 1 .. Len(s.merges)
  BY DEF Sheets
<1>2. DOMAIN g = DOMAIN s.rows /\ \A r \in DOMAIN g : DOMAIN g[r] = 1 .. Width(s)
  BY DEF FilledGrid
<1>3. ASSUME NEW r \in DOMAIN g, NEW c \in DOMAIN g[r]
      PROVE  g[r][c] \in Cells
  <2>1. /\ r \in DOMAIN s.rows
        /\ g[r][c] = IF Covering(s, r, c) # {} THEN s.merges[Max(Covering(s, r, c))].reference
                     ELSE IF c \in DOMAIN s.rows[r] THEN s.rows[r][c]
                     ELSE Blank
    BY <1>2, <1>3 DEF FilledGrid
  <2>2. CASE Covering(s, r, c) # {}
    <3>1. Covering(s, r, c) \in SUBSET (0 .. Len(s.merges)) /\ Covering(s, r, c) \subseteq DOMAIN s.merges
      BY <1>1 DEF Covering
    <3>2. Max(Covering(s, r, c)) \in DOMAIN s.merges
      BY <1>1, <2>2, <3>1, MaxOf
    <3>3. s.merges[Max(Covering(s, r, c))] \in [reference : Cells, text : Cells]
      <4> DEFINE m == Max(Covering(s, r, c))
      <4>1. m \in 1 .. Len(s.merges)
        BY <1>1, <3>2
      <4> HIDE DEF m
      <4>2. s.merges[m] \in [reference : Cells, text : Cells]
        BY <1>1, <4>1, ElementOfSeq
      <4> QED BY <4>2 DEF m
    <3> QED BY <2>1, <2>2, <3>3
  <2>3. CASE Covering(s, r, c) = {}
    <3>1. s.rows[r] \in Seq(Cells)
      BY <1>1, <2>1
    <3> QED BY <2>1, <2>3, <3>1, CellAssumption
  <2> QED BY <2>2, <2>3
<1> HIDE DEF g
<1>4. \E n \in Nat : DOMAIN g = 1 .. n
  BY <1>1, <1>2
<1>5. IsGrid(g)
  BY <1>2, <1>3, <1>4 DEF IsGrid
<1> QED BY <1>5 DEF g

LEMMA StartRowInGrid ==
    ASSUME NEW g, IsGrid(g), StartRow(g) # NoRow
    PROVE  StartRow(g) \in DOMAIN g
<1> DEFINE wide == {r \in DOMAIN g :
                      Cardinality({c \in DOMAIN g[r] : g[r][c] # Blank}) >= MinCells}
<1>1. wide # {} /\ StartRow(g) = Min(wide)
  BY DEF StartRow
<1>2. wide \in SUBSET Nat /\ wide \subseteq DOMAIN g
  BY DEF IsGrid
<1> HIDE DEF wide
<1> QED BY <1>1, <1>2, MinOf

\* The rows GPT is shown are rows of the grid from the start row on, in order.
LEMMA RowIndicesInGrid ==
    ASSUME NEW g, IsGrid(g), StartRow(g) # NoRow
    PROVE  LET t == RowIndices(g)
           IN  /\ \E k \in Nat : DOMAIN t = 1 .. k
               /\ \A i \in DOMAIN t : t[i] \in DOMAIN g /\ StartRow(g) <= t[i]
               /\ \A i, j \in DOMAIN t : i < j => t[i] < t[j]
<1> DEFINE last == Min({StartRow(g) + Window - 1, Len(g)})
           S == {r \in StartRow(g) .. last : ~IsBlankRow(g[r])}
           t == RowIndices(g)
<1>1. PICK n \in Nat : DOMAIN g = 1 .. n
  BY DEF IsGrid
<1>2. StartRow(g) \in 1 .. n
  BY <1>1, StartRowInGrid
<1>3. Len(g) = n
  BY <1>1
<1>4. last \in Int /\ last <= n
  <2>1. StartRow(g) + Window - 1 \in Int
    BY <1>2, WindowAssumption
  <2> QED BY <1>3, <2>1, MinOfTwo
<1> HIDE DEF last
<1>5. S \in SUBSET (1 .. n) /\ \A r \in S : StartRow(g) <= r
  BY <1>2, <1>4
<1>6. t = Ascending(S)
  BY DEF RowIndices, last
<1> HIDE DEF S, t
<1>7. Cardinality(S) \in Nat /\ Enumerates(t, S)
  BY <1>5, <1>6, AscendingEnumerates
<1>8. t \in [1 .. Cardinality(S) -> S] /\ \A i, j \in DOMAIN t : i < j => t[i] < t[j]
  BY <1>7 DEF Enumerates
<1>9. \A i \in DOMAIN t : t[i] \in DOMAIN g /\ StartRow(g) <= t[i]
  BY <1>1, <1>5, <1>8
<1> QED BY <1>7, <1>8, <1>9 DEF t

-----------------------------------------------------------------------------
LEMMA LengthScores ==
    ASSUME NEW n \in Nat
    PROVE  /\ LengthScore(n) \in Int /\ LengthScore(n) <= 3
           /\ n \in 3 .. 15 => LengthScore(n) = 3
<1>1. CASE n < 3
  BY <1>1 DEF LengthScore
<1>2. CASE n \in 3 .. 15
  BY <1>2 DEF LengthScore
<1>3. CASE n \in 16 .. 30
  BY <1>3 DEF LengthScore
<1>4. CASE n > 30
  BY <1>4 DEF LengthScore
<1> QED BY <1>1, <1>2, <1>3, <1>4

LEMMA WordScores ==
    ASSUME NEW k \in Nat
    PROVE  /\ WordScore(k) \in Int /\ WordScore(k) <= 2
           /\ k = 1 => WordScore(k) = 2
<1>1. k = 1 \/ k = 2 \/ k > 3 \/ k \in {0, 3}
  OBVIOUS
<1> QED BY <1>1 DEF WordScore

\* No text scores more than a plain name does.
LEMMA ScoreBounds ==
    ASSUME NEW t \in Text
    PROVE  /\ Score(t) \in Int /\ Score(t) <= MaxScore
           /\ IsPlainName(t) => Score(t) = MaxScore
<1>1. t.bytes \in Nat \ {0} /\ Len(t.words) \in Nat
  BY DEF Text
<1>2. /\ LengthScore(t.bytes) \in Int /\ LengthScore(t.bytes) <= 3
      /\ t.bytes \in 3 .. 15 => LengthScore(t.bytes) = 3
  BY <1>1, LengthScores
<1>3. /\ WordScore(Len(t.words)) \in Int /\ WordScore(Len(t.words)) <= 2
      /\ Len(t.words) = 1 => WordScore(Len(t.words)) = 2
  BY <1>1, WordScores
<1>4. /\ Worth(IsNumericOrCurrency(t), -5) \in {-5, 0}
      /\ Worth(t.dotted, -3) \in {-3, 0}
      /\ Worth(LooksLikeColumnName(t), 3) \in {3, 0}
  BY DEF Worth
<1>5. Score(t) \in Int /\ Score(t) <= MaxScore
  BY <1>2, <1>3, <1>4, SMTT(20) DEF Score, MaxScore
<1>6. ASSUME IsPlainName(t) PROVE Score(t) = MaxScore
  <2>1. LengthScore(t.bytes) = 3 /\ WordScore(Len(t.words)) = 2
    BY <1>1, <1>2, <1>3, <1>6 DEF IsPlainName
  <2>2. /\ Worth(IsNumericOrCurrency(t), -5) = 0
        /\ Worth(t.dotted, -3) = 0
        /\ Worth(LooksLikeColumnName(t), 3) = 3
    BY <1>1, <1>6 DEF IsPlainName, LooksLikeColumnName, Worth
  <2> QED BY <2>1, <2>2 DEF Score, MaxScore
<1> QED BY <1>5, <1>6

\* The header of a column is one of its cells between the header row and the
\* data, or blank.
LEMMA HeaderCellFromColumn ==
    ASSUME NEW g, IsGrid(g), NEW h \in DOMAIN g, NEW d \in DOMAIN g, h < d, NEW c \in DOMAIN g[h]
    PROVE  HeaderCell(g, h, d, c) \in {Blank} \cup {g[r][c] : r \in h .. d - 1}
<1>1. h \in Nat /\ d \in Nat /\ h .. d - 1 \in SUBSET Nat /\ h \in h .. d - 1
  BY DEF IsGrid
<1> DEFINE fit == {r \in h + 1 .. d - 1 : g[r][c] # Blank /\ IsShort(TextOf(g[r][c]))}
           own == GapFilled(g, h, d, c)
           better == {r \in h .. d - 1 :
                        g[r][c] \notin {Blank, own} /\ CellScore(g[r][c]) > CellScore(own)}
           best == {r \in better : \A q \in better : CellScore(g[q][c]) <= CellScore(g[r][c])}
<1>2. own \in {Blank} \cup {g[r][c] : r \in h .. d - 1}
  <2>1. own = IF g[h][c] # Blank THEN g[h][c] ELSE IF fit = {} THEN Blank ELSE g[Min(fit)][c]
    BY DEF GapFilled
  <2>2. fit # {} => Min(fit) \in h .. d - 1
    <3>1. fit \in SUBSET Nat /\ fit \subseteq h .. d - 1
      BY <1>1
    <3> HIDE DEF fit
    <3> QED BY <3>1, MinOf
  <2> HIDE DEF fit, own
  <2> QED BY <1>1, <2>1, <2>2
<1>3. best # {} => Min(best) \in h .. d - 1
  <2>1. best \in SUBSET Nat /\ best \subseteq h .. d - 1
    BY <1>1
  <2> HIDE DEF best
  <2> QED BY <2>1, MinOf
<1>4. HeaderCell(g, h, d, c) = IF own = Blank \/ ~IsWeak(TextOf(own)) \/ best = {} THEN own
                               ELSE g[Min(best)][c]
  BY DEF HeaderCell
<1> HIDE DEF own, best
<1> QED BY <1>2, <1>3, <1>4

\* A plain name is never outscored.
LEMMA PlainNameStays ==
    ASSUME NEW g, IsGrid(g), NEW h \in DOMAIN g, NEW d \in DOMAIN g, h < d, NEW c \in DOMAIN g[h],
           g[h][c] # Blank, IsPlainName(TextOf(g[h][c]))
    PROVE  HeaderCell(g, h, d, c) = g[h][c]
<1> DEFINE own == GapFilled(g, h, d, c)
           better == {r \in h .. d - 1 :
                        g[r][c] \notin {Blank, own} /\ CellScore(g[r][c]) > CellScore(own)}
           best == {r \in better : \A q \in better : CellScore(g[q][c]) <= CellScore(g[r][c])}
<1>1. own = g[h][c]
  BY DEF GapFilled
<1>2. PICK n \in Nat : DOMAIN g = 1 .. n
  BY DEF IsGrid
<1>3. \A r \in h .. d - 1 : r \in DOMAIN g /\ c \in DOMAIN g[r] /\ g[r][c] \in Cells
  BY <1>2 DEF IsGrid
<1>4. \A r \in h .. d - 1 : g[r][c] # Blank => TextOf(g[r][c]) \in Text
  BY <1>3, CellAssumption
<1>5. CellScore(own) = MaxScore
  <2>1. h \in h .. d - 1
    BY <1>2
  <2> QED BY <1>1, <1>4, <2>1, ScoreBounds DEF CellScore
<1>6. \A r \in h .. d - 1 : g[r][c] # Blank => /\ CellScore(g[r][c]) \in Int
                                             /\ CellScore(g[r][c]) <= MaxScore
  BY <1>4, ScoreBounds DEF CellScore
<1>7. better = {}
  BY <1>5, <1>6 DEF MaxScore
<1>8. best = {}
  BY <1>7
<1>9. HeaderCell(g, h, d, c) = IF own = Blank \/ ~IsWeak(TextOf(own)) \/ best = {} THEN own
                               ELSE g[Min(best)][c]
  BY DEF HeaderCell
<1> HIDE DEF own, best
<1> QED BY <1>1, <1>8, <1>9

-----------------------------------------------------------------------------
\* What HeaderAboveData and PlainNamesKept ask of a table.
WellRead(g, t) ==
    /\ StartRow(g) <= t.top /\ t.top < t.from
    /\ \A c \in DOMAIN t.header :
          t.header[c] \in {Blank} \cup {g[r][c] : r \in t.top .. t.from - 1}
    /\ \A c \in DOMAIN t.header :
          g[t.top][c] # Blank /\ IsPlainName(TextOf(g[t.top][c])) => t.header[c] = g[t.top][c]

LEMMA PossibleTablesAreWellRead ==
    ASSUME NEW g, IsGrid(g), StartRow(g) # NoRow, NEW t \in Possible(g)
    PROVE  t.top \in DOMAIN g /\ WellRead(g, t)
<1>1. PICK n \in Nat : DOMAIN g = 1 .. n
  BY DEF IsGrid
<1>2. StartRow(g) \in 1 .. n
  BY <1>1, StartRowInGrid
<1>3. CASE t = FallbackTable(g)
  <2>1. t.top = StartRow(g) /\ t.from = StartRow(g) + 1 /\ t.header = g[t.top]
    BY <1>3 DEF FallbackTable
  <2> QED BY <1>1, <1>2, <2>1 DEF WellRead
<1>4. CASE t # FallbackTable(g)
  <2>1. PICK h \in DOMAIN g, d \in DOMAIN g :
           StartRow(g) <= h /\ h < d /\ t = AnalysedTable(g, h, d)
    BY <1>4 DEF Possible
  <2>2. /\ t.top = h /\ t.from = d /\ DOMAIN t.header = DOMAIN g[h]
        /\ \A c \in DOMAIN g[h] : t.header[c] = HeaderCell(g, h, d, c)
    BY <2>1 DEF AnalysedTable
  <2>3. \A c \in DOMAIN t.header : t.header[c] \in {Blank} \cup {g[r][c] : r \in h .. d - 1}
    BY <2>1, <2>2, HeaderCellFromColumn
  <2>4. \A c \in DOMAIN t.header :
          g[h][c] # Blank /\ IsPlainName(TextOf(g[h][c])) => t.header[c] = g[h][c]
    BY <2>1, <2>2, PlainNameStays
  <2> QED BY <1>1, <2>1, <2>2, <2>3, <2>4 DEF WellRead
<1> QED BY <1>3, <1>4
=============================================================================
