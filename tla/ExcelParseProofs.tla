-------------------------- MODULE ExcelParseProofs --------------------------
(***************************************************************************)
(* Proofs about ExcelParse, for any number of goroutines, any workbooks,    *)
(* any answers of GPT and any interleaving.                                 *)
(*                                                                          *)
(* A step of a worker is one of a few moves (Moves): it works on its sheet, *)
(* keeps or drops what it has read, passes over a sheet, or returns.  The   *)
(* invariant says where a worker can be (Placed), what it can have read     *)
(* (Read), that the caches and its answers rest on what GPT said (Backed),  *)
(* and which sheets are decided (Decided).                                  *)
(***************************************************************************)
EXTENDS ExcelParse, SheetGridProofs

\* Where a worker has a table in hand.
Tabled == {"advanced", "legacy", "askVerdict", "saveLegacy", "saveAdvanced"}

Grid(w, s) == Grids[w][s]

\* The table is one that an answer among those given describes, or the fallback.
Transfers(given, g, t) ==
    \/ t = FallbackTable(g)
    \/ \E r \in given :
          /\ r.texts = RowTexts(g)
          /\ RowText(g[t.top]) = r.texts[r.answer.header]
          /\ RowText(g[t.from]) = r.texts[r.answer.data]

Read(given, w, s, t) == t \in Possible(Grid(w, s)) /\ Transfers(given, Grid(w, s), t)

Tables == UNION {UNION {Possible(Grid(w, s)) : s \in Tabular(w)} : w \in Workers}

Shape ==
    /\ pc \in [Workers -> Calls]
    /\ sheet \in [Workers -> Nat]
    /\ DOMAIN table = Workers /\ table = [w \in Workers |-> table[w]]
    /\ DOMAIN answer = Workers /\ answer = [w \in Workers |-> answer[w]]
    /\ results \in [Workers -> Seq([sheet : Nat, table : Tables])]

Placed ==
    \A w \in Workers :
        /\ sheet[w] \in 1 .. Len(Book[w]) + 1
        /\ pc[w] \notin {"next", "done"} => sheet[w] \in Tabular(w)
        /\ pc[w] = "done" => sheet[w] > Len(Book[w])
        /\ pc[w] \in Tabled => Read(readings, w, sheet[w], table[w])
        /\ pc[w] \notin Tabled => table[w] = NoTable

\* What is about to be cached is what GPT has just said.
Answered ==
    \A w \in Workers :
        /\ pc[w] \in {"saveLegacy", "saveAdvanced"} =>
              [subject |-> Subject(w), verdict |-> answer[w]] \in opinions
        /\ pc[w] = "saveAnalysis" =>
              /\ answer[w] \in AnalysisAnswers(Sheet(w).texts)
              /\ [texts |-> Sheet(w).texts, answer |-> answer[w]] \in readings

Backed ==
    /\ \A o \in opinions : o.verdict \in Verdict /\ o.subject.key.header = o.subject.id.hash
    /\ CachedAreOpinions
    /\ \A e \in analyses : [texts |-> e.key, answer |-> e.value] \in readings

KeptSheets(w) == {results[w][i].sheet : i \in DOMAIN results[w]}
GoneSheets(w) == {d.sheet : d \in {x \in dropped : x.worker = w}}

Accounted(w) ==
    /\ KeptSheets(w) \cup GoneSheets(w) = {s \in Tabular(w) : s < sheet[w]}
    /\ KeptSheets(w) \cap GoneSheets(w) = {}
    /\ Len(results[w]) < sheet[w]
    /\ \A i, j \in DOMAIN results[w] :
          i < j => results[w][i].sheet < results[w][j].sheet
    /\ \A i \in DOMAIN results[w] :
          Read(readings, w, results[w][i].sheet, results[w][i].table)

Decided ==
    /\ JustifiedDrops
    /\ \A d \in dropped : d.worker \in Workers /\ d.kind \in {"early", "validated"}
    /\ \A w \in Workers : Accounted(w)

IInv == Shape /\ Placed /\ Answered /\ Backed /\ Decided

-----------------------------------------------------------------------------
\* What is known of every sheet that a table starts in.
LEMMA TabularSheets ==
    ASSUME NEW w \in Workers
    PROVE  /\ Len(Book[w]) \in Nat /\ DOMAIN Book[w] = 1 .. Len(Book[w])
           /\ \A s \in Tabular(w) :
                /\ s \in 1 .. Len(Book[w])
                /\ IsGrid(Grid(w, s)) /\ StartRow(Grid(w, s)) # NoRow
                /\ Readouts[w][s] = Readout(Grid(w, s))
                /\ FallbackTable(Grid(w, s)) \in Possible(Grid(w, s))
<1>1. Book[w] \in Seq(Sheets)
  BY BookAssumption DEF Sheets
<1>2. Len(Book[w]) \in Nat /\ DOMAIN Book[w] = 1 .. Len(Book[w])
  BY <1>1
<1>3. ASSUME NEW s \in Tabular(w)
      PROVE  /\ s \in 1 .. Len(Book[w])
             /\ IsGrid(Grid(w, s)) /\ StartRow(Grid(w, s)) # NoRow
             /\ Readouts[w][s] = Readout(Grid(w, s))
             /\ FallbackTable(Grid(w, s)) \in Possible(Grid(w, s))
  <2>1. s \in 1 .. Len(Book[w]) /\ StartRow(Grid(w, s)) # NoRow
    BY <1>2 DEF Tabular, Grid
  <2>2. Book[w][s] \in Sheets
    BY <1>1, <1>2, <2>1, ElementOfSeq
  <2>3. Grid(w, s) = FilledGrid(Book[w][s])
    BY <1>2, <2>1 DEF Grid, Grids
  <2>4. IsGrid(Grid(w, s))
    BY <2>2, <2>3, FilledIsGrid
  <2>5. Readouts[w][s] = Readout(Grid(w, s))
    BY DEF Readouts, Grid
  <2> QED BY <2>1, <2>4, <2>5 DEF Possible
<1> QED BY <1>2, <1>3

\* Whatever GPT said of these texts, the table is made of rows of this sheet.
LEMMA TableOfIsRead ==
    ASSUME NEW w \in Workers, NEW s \in Tabular(w), NEW a,
           [texts |-> Readouts[w][s].texts, answer |-> a] \in readings
    PROVE  Read(readings, w, s, TableOf(Readouts[w][s], a))
<1> DEFINE g == Grid(w, s)
           t == TableOf(Readout(g), a)
           rows == RowIndices(g)
<1>1. IsGrid(g) /\ StartRow(g) # NoRow /\ Readouts[w][s] = Readout(g)
  BY TabularSheets
<1>2. FallbackTable(g) \in Possible(g)
  BY TabularSheets
<1>3. /\ \E k \in Nat : DOMAIN rows = 1 .. k
      /\ \A i \in DOMAIN rows : rows[i] \in DOMAIN g /\ StartRow(g) <= rows[i]
      /\ \A i, j \in DOMAIN rows : i < j => rows[i] < rows[j]
  BY <1>1, RowIndicesInGrid
<1>4. /\ Readout(g).texts = RowTexts(g) /\ Readout(g).indices = rows
      /\ Readout(g).fallback = FallbackTable(g)
      /\ Readout(g).table = [h \in DOMAIN g |-> [d \in DOMAIN g |-> AnalysedTable(g, h, d)]]
  BY DEF Readout
<1>5. DOMAIN RowTexts(g) = DOMAIN rows /\ \A i \in DOMAIN rows : RowTexts(g)[i] = RowText(g[rows[i]])
  BY DEF RowTexts
<1>6. CASE Usable(a, RowTexts(g))
  <2>1. a.header \in DOMAIN rows /\ a.data \in DOMAIN rows /\ a.header < a.data
    BY <1>3, <1>5, <1>6 DEF Usable
  <2> DEFINE h == rows[a.header]
             d == rows[a.data]
  <2>2. h \in DOMAIN g /\ d \in DOMAIN g /\ StartRow(g) <= h /\ h < d
    BY <1>3, <2>1
  <2>3. t = Readout(g).table[h][d]
    BY <1>4, <1>6 DEF TableOf
  <2> HIDE DEF h, d
  <2>4. t = AnalysedTable(g, h, d)
    BY <1>4, <2>2, <2>3
  <2>5. t \in Possible(g)
    BY <2>2, <2>4 DEF Possible
  <2>6. t.top = h /\ t.from = d
    BY <2>4 DEF AnalysedTable
  <2>7. RowText(g[t.top]) = RowTexts(g)[a.header] /\ RowText(g[t.from]) = RowTexts(g)[a.data]
    BY <1>5, <2>1, <2>6 DEF h, d
  <2>8. [texts |-> RowTexts(g), answer |-> a] \in readings
    BY <1>1, <1>4
  <2>9. Transfers(readings, g, t)
    BY <2>7, <2>8 DEF Transfers
  <2> QED BY <1>1, <2>5, <2>9 DEF Read
<1>7. CASE ~Usable(a, RowTexts(g))
  <2>1. t = FallbackTable(g)
    BY <1>4, <1>7 DEF TableOf
  <2> QED BY <1>1, <1>2, <2>1 DEF Read, Transfers
<1> QED BY <1>6, <1>7

-----------------------------------------------------------------------------
\* The moves of a worker. It asks, is answered, and saves, at one sheet;
Works(w) ==
    /\ UNCHANGED <<sheet, results, dropped>>
    /\ pc[w] # "done" /\ sheet[w] \in Tabular(w)
    /\ pc' = [pc EXCEPT ![w] = pc'[w]] /\ pc'[w] \in Calls \ {"next", "done"}
    /\ table' = [table EXCEPT ![w] = table'[w]]
    /\ answer' = [answer EXCEPT ![w] = answer'[w]]
    /\ pc'[w] \in Tabled => Read(readings, w, sheet[w], table'[w])
    /\ pc'[w] \notin Tabled => table'[w] = NoTable

\* it keeps the table it has read;
Keeps(w) == pc[w] \in Tabled /\ Accept(w)

\* or it leaves the sheet out, for a reason that GPT gave.
Dropping(w, kind, subject) ==
    /\ Drop(w, kind, subject)
    /\ \E o \in opinions :
          Backs(o, [worker |-> w, sheet |-> sheet[w], kind |-> kind, subject |-> subject])

Drops(w) ==
    /\ pc[w] \notin {"next", "done"}
    /\ \E kind \in {"early", "validated"} : \E subject : Dropping(w, kind, subject)

\* It passes over a sheet that it cannot read, or that no table starts in.
Skips(w) ==
    /\ pc[w] = "next"
    /\ sheet[w] <= Len(Book[w])
    /\ sheet[w] \notin Tabular(w)
    /\ NextIteration(w)
    /\ UNCHANGED <<results, caches, history>>

LEMMA SkippingSkips ==
    ASSUME NEW w \in Workers, SkipUnreadable(w) \/ SkipEmpty(w)
    PROVE  Skips(w)
  BY DEF SkipUnreadable, SkipEmpty, Skips, Tabular

Grows == opinions \subseteq opinions' /\ readings \subseteq readings'

\* A verdict found in a cache under what the table is known by is a reason.
LEMMA CachedVerdictBacks ==
    ASSUME Backed, NEW w \in Workers, NEW subject, subject.key.header = subject.id.hash,
           NEW kind, NEW v,
           \/ \E e \in issued : e.id = subject.id /\ e.verdict = v
           \/ \E e \in legacy : e.key = subject.key /\ e.value = v,
           IF kind = "early" THEN SurelyNot(v) ELSE ~Accepts(v)
    PROVE  \E o \in opinions :
              Backs(o, [worker |-> w, sheet |-> sheet[w], kind |-> kind, subject |-> subject])
<1>1. CASE \E e \in issued : e.id = subject.id /\ e.verdict = v
  <2>1. PICK o \in opinions : o.subject.id = subject.id /\ o.verdict = v
    BY <1>1 DEF Backed, CachedAreOpinions
  <2> QED BY <2>1 DEF Backs
<1>2. CASE \E e \in legacy : e.key = subject.key /\ e.value = v
  <2>1. PICK o \in opinions : o.subject.key = subject.key /\ o.verdict = v
    BY <1>2 DEF Backed, CachedAreOpinions
  <2>2. o.subject.id.hash = subject.id.hash
    BY <2>1 DEF Backed
  <2> QED BY <2>1, <2>2 DEF Backs
<1> QED BY <1>1, <1>2

\* Both ways of looking a table up speak of the same header.
LEMMA SubjectsAgree ==
    ASSUME NEW w \in Workers
    PROVE  /\ Subject(w).key.header = Subject(w).id.hash
           /\ sheet[w] \in Tabular(w) => Sheet(w).early.key.header = Sheet(w).early.id.hash
<1>1. Subject(w).key.header = Subject(w).id.hash
  BY DEF Subject, SubjectOf, LegacyKey, AdvancedId
<1>2. ASSUME sheet[w] \in Tabular(w)
      PROVE  Sheet(w).early.key.header = Sheet(w).early.id.hash
  <2>1. Sheet(w) = Readout(Grid(w, sheet[w]))
    BY <1>2, TabularSheets DEF Sheet
  <2> QED BY <2>1 DEF Readout, LegacyKey, AdvancedId
<1> QED BY <1>1, <1>2

LEMMA DecideMoves ==
    ASSUME Backed, NEW w \in Workers, pc[w] \in Tabled, NEW v,
           \/ \E e \in issued : e.id = Subject(w).id /\ e.verdict = v
           \/ \E e \in legacy : e.key = Subject(w).key /\ e.value = v
           \/ [subject |-> Subject(w), verdict |-> v] \in opinions,
           Decide(w, Accepts(v))
    PROVE  Keeps(w) \/ Drops(w)
<1>1. CASE Accepts(v)
  BY <1>1 DEF Decide, Keeps
<1>2. CASE ~Accepts(v)
  <2>1. \E o \in opinions :
          Backs(o, [worker |-> w, sheet |-> sheet[w], kind |-> "validated", subject |-> Subject(w)])
    <3>1. CASE [subject |-> Subject(w), verdict |-> v] \in opinions
      BY <1>2, <3>1 DEF Backs
    <3>2. CASE [subject |-> Subject(w), verdict |-> v] \notin opinions
      BY <1>2, <3>2, SubjectsAgree, CachedVerdictBacks
    <3> QED BY <3>1, <3>2
  <2> QED BY <1>2, <2>1 DEF Decide, Drops, Dropping, Tabled
<1> QED BY <1>1, <1>2

LEMMA EarlyMoves ==
    ASSUME Shape, Placed, Backed, NEW w \in Workers, pc[w] \in {"early", "earlyLegacy"}, NEW v,
           \/ \E e \in issued : e.id = Sheet(w).early.id /\ e.verdict = v
           \/ \E e \in legacy : e.key = Sheet(w).early.key /\ e.value = v,
           SurelyNot(v), Drop(w, "early", Sheet(w).early)
    PROVE  Drops(w)
<1>1. Sheet(w).early.key.header = Sheet(w).early.id.hash
  BY SubjectsAgree DEF Placed
<1>2. \E o \in opinions :
          Backs(o, [worker |-> w, sheet |-> sheet[w], kind |-> "early", subject |-> Sheet(w).early])
  BY <1>1, CachedVerdictBacks
<1> QED BY <1>2 DEF Drops, Dropping

\* The table without an answer can always be read.
LEMMA FallbackIsRead ==
    ASSUME NEW w \in Workers, sheet[w] \in Tabular(w)
    PROVE  Read(readings, w, sheet[w], Sheet(w).fallback)
<1>1. Sheet(w) = Readout(Grid(w, sheet[w]))
  BY TabularSheets DEF Sheet
<1>2. Sheet(w).fallback = FallbackTable(Grid(w, sheet[w]))
  BY <1>1 DEF Readout
<1> QED BY <1>2, TabularSheets DEF Read, Transfers

LEMMA AfterEarlyMoves ==
    ASSUME Shape, Placed, NEW w \in Workers, pc[w] \in {"early", "earlyLegacy"}, AfterEarlyCheck(w)
    PROVE  Works(w)
<1>1. sheet[w] \in Tabular(w) /\ table[w] = NoTable
  BY DEF Placed, Tabled
<1>2. Read(readings, w, sheet[w], Sheet(w).fallback)
  BY <1>1, FallbackIsRead
<1>3. CASE Len(Sheet(w).texts) < 2
  BY <1>1, <1>2, <1>3 DEF AfterEarlyCheck, Validate, Goto, Works, Shape, Calls, Tabled
<1>4. CASE ~(Len(Sheet(w).texts) < 2)
  BY <1>1, <1>4 DEF AfterEarlyCheck, Goto, Works, Shape, Calls, Tabled
<1> QED BY <1>3, <1>4

\* Both at once: an early verdict, and what comes of it.
LEMMA EarlyVerdictMoves ==
    ASSUME Shape, Placed, Backed, NEW w \in Workers, pc[w] \in {"early", "earlyLegacy"}, NEW v,
           \/ \E e \in issued : e.id = Sheet(w).early.id /\ e.verdict = v
           \/ \E e \in legacy : e.key = Sheet(w).early.key /\ e.value = v,
           EarlyVerdict(w, v)
    PROVE  Works(w) \/ Drops(w)
<1>1. CASE SurelyNot(v)
  BY <1>1, EarlyMoves DEF EarlyVerdict
<1>2. CASE ~SurelyNot(v)
  BY <1>2, AfterEarlyMoves DEF EarlyVerdict
<1> QED BY <1>1, <1>2

\* The table of an analysis that GPT has given is what the worker goes on with.
LEMMA ValidateMoves ==
    ASSUME Shape, Placed, NEW w \in Workers, pc[w] \in {"analysis", "askAnalysis", "saveAnalysis"},
           NEW t, Read(readings, w, sheet[w], t), Validate(w, t),
           answer' = answer \/ answer' = [answer EXCEPT ![w] = NoVerdict],
           UNCHANGED <<sheet, results, dropped>>
    PROVE  Works(w)
<1>1. sheet[w] \in Tabular(w)
  BY DEF Placed
<1>2. pc' = [pc EXCEPT ![w] = "advanced"] /\ table' = [table EXCEPT ![w] = t]
  BY DEF Validate, Goto
<1>3. pc'[w] = "advanced" /\ table'[w] = t
  BY <1>2 DEF Shape
<1>4. answer' = [answer EXCEPT ![w] = answer'[w]]
  BY DEF Shape
<1> QED BY <1>1, <1>2, <1>3, <1>4 DEF Works, Calls, Tabled

\* A call that leads to another with the table in hand, or still with none.
LEMMA GotoMoves ==
    ASSUME Shape, Placed, NEW w \in Workers, pc[w] # "done", sheet[w] \in Tabular(w),
           NEW call \in Calls \ {"next", "done"}, pc[w] \in Tabled <=> call \in Tabled,
           Goto(w, call), UNCHANGED <<sheet, table, results, dropped>>,
           answer' = [answer EXCEPT ![w] = answer'[w]]
    PROVE  Works(w)
<1>1. pc' = [pc EXCEPT ![w] = call] /\ pc'[w] = call
  BY DEF Goto, Shape
<1>2. table' = [table EXCEPT ![w] = table'[w]]
  BY DEF Shape
<1>3. call \in Tabled => Read(readings, w, sheet[w], table'[w])
  BY DEF Placed
<1>4. call \notin Tabled => table'[w] = NoTable
  BY DEF Placed
<1> QED BY <1>1, <1>2, <1>3, <1>4 DEF Works

\* Every step is a move, and the histories only grow.
LEMMA Moves ==
    ASSUME IInv, NEW w \in Workers, OwnStep(w) \/ GptStep(w)
    PROVE  \/ Works(w) /\ Grows
           \/ /\ Keeps(w) \/ Drops(w) \/ Skips(w) \/ Return(w)
              /\ UNCHANGED <<opinions, readings>>
<1> USE DEF IInv
<1> DEFINE Moved == \/ Works(w) /\ Grows
                    \/ /\ Keeps(w) \/ Drops(w) \/ Skips(w) \/ Return(w)
                       /\ UNCHANGED <<opinions, readings>>
<1>0. answer = [answer EXCEPT ![w] = answer[w]]
  BY DEF Shape
<1>1. ASSUME Return(w) \/ SkipUnreadable(w) \/ SkipEmpty(w) PROVE Moved
  BY <1>1, SkippingSkips DEF Return, Skips, history
<1>2. ASSUME OpenSheet(w) PROVE Moved
  BY <1>0, <1>2, GotoMoves DEF OpenSheet, history, Calls, Tabled, Grows
<1>3. ASSUME EarlyAdvanced(w) PROVE Moved
  <2>1. pc[w] = "early" /\ UNCHANGED <<opinions, readings>> /\ sheet[w] \in Tabular(w)
    BY <1>3 DEF EarlyAdvanced, Placed
  <2>2. PICK a \in VC!Answers(Sheet(w).early.id) :
          IF a = Miss
            THEN /\ Goto(w, "earlyLegacy")
                 /\ UNCHANGED <<sheet, table, answer, results, dropped>>
            ELSE EarlyVerdict(w, a.verdict)
    BY <1>3 DEF EarlyAdvanced
  <2>3. CASE a = Miss
    BY <1>0, <2>1, <2>2, <2>3, GotoMoves DEF Calls, Tabled, Grows
  <2>4. CASE a # Miss
    <3>1. a \in issued /\ a.id = Sheet(w).early.id
      BY <2>2, <2>4 DEF VC!Answers
    <3>2. EarlyVerdict(w, a.verdict)
      BY <2>2, <2>4
    <3> QED BY <2>1, <3>1, <3>2, EarlyVerdictMoves DEF Grows
  <2> QED BY <2>3, <2>4
<1>4. ASSUME EarlyLegacyHit(w) PROVE Moved
  <2>1. PICK e \in Found(legacy, Sheet(w).early.key) : EarlyVerdict(w, e.value)
    BY <1>4 DEF EarlyLegacyHit
  <2>2. e \in legacy /\ e.key = Sheet(w).early.key
    BY <2>1 DEF Found
  <2>3. pc[w] = "earlyLegacy" /\ UNCHANGED <<opinions, readings>>
    BY <1>4 DEF EarlyLegacyHit
  <2> QED BY <2>1, <2>2, <2>3, EarlyVerdictMoves DEF Grows
<1>5. ASSUME EarlyLegacyMiss(w) PROVE Moved
  BY <1>5, AfterEarlyMoves DEF EarlyLegacyMiss, Grows
<1>6. ASSUME AnalysisHit(w) PROVE Moved
  <2>1. PICK e \in Found(analyses, Sheet(w).texts) : Validate(w, TableOf(Sheet(w), e.value))
    BY <1>6 DEF AnalysisHit
  <2>2. /\ pc[w] = "analysis" /\ sheet[w] \in Tabular(w)
        /\ UNCHANGED <<sheet, answer, results, dropped, opinions, readings>>
    BY <1>6 DEF AnalysisHit, history, Placed
  <2>3. [texts |-> Sheet(w).texts, answer |-> e.value] \in readings
    BY <2>1 DEF Found, Backed
  <2>4. Read(readings, w, sheet[w], TableOf(Sheet(w), e.value))
    BY <2>2, <2>3, TableOfIsRead DEF Sheet
  <2> QED BY <2>1, <2>2, <2>4, ValidateMoves DEF Grows
<1>7. ASSUME AnalysisMiss(w) PROVE Moved
  BY <1>0, <1>7, GotoMoves DEF AnalysisMiss, history, Calls, Tabled, Grows, Placed
<1>8. ASSUME AnalysisAnswered(w) PROVE Moved
  <2>1. /\ pc[w] = "askAnalysis" /\ sheet[w] \in Tabular(w)
        /\ Goto(w, "saveAnalysis") /\ UNCHANGED <<sheet, table, results, opinions, dropped>>
    BY <1>8 DEF AnalysisAnswered, Placed
  <2>2. \E a : answer' = [answer EXCEPT ![w] = a]
    BY <1>8 DEF AnalysisAnswered
  <2>3. answer' = [answer EXCEPT ![w] = answer'[w]]
    BY <2>2 DEF Shape
  <2>4. readings \subseteq readings'
    BY <1>8 DEF AnalysisAnswered
  <2> QED BY <2>1, <2>3, <2>4, GotoMoves DEF Calls, Tabled, Grows
<1>9. ASSUME AnalysisFailed(w) PROVE Moved
  <2>1. /\ pc[w] = "askAnalysis" /\ sheet[w] \in Tabular(w)
        /\ Validate(w, Sheet(w).fallback)
        /\ UNCHANGED <<sheet, answer, results, opinions, readings, dropped>>
    BY <1>9 DEF AnalysisFailed, Placed, history
  <2>2. Read(readings, w, sheet[w], Sheet(w).fallback)
    BY <2>1, FallbackIsRead
  <2> QED BY <2>1, <2>2, ValidateMoves DEF Grows
<1>10. ASSUME SaveAnalysis(w) PROVE Moved
  <2>1. /\ pc[w] = "saveAnalysis" /\ sheet[w] \in Tabular(w)
        /\ Validate(w, TableOf(Sheet(w), answer[w]))
        /\ answer' = [answer EXCEPT ![w] = NoVerdict]
        /\ UNCHANGED <<sheet, results, opinions, readings, dropped>>
    BY <1>10 DEF SaveAnalysis, Placed, history
  <2>2. [texts |-> Sheet(w).texts, answer |-> answer[w]] \in readings
    BY <2>1 DEF Answered
  <2>3. Read(readings, w, sheet[w], TableOf(Sheet(w), answer[w]))
    BY <2>1, <2>2, TableOfIsRead DEF Sheet
  <2> QED BY <2>1, <2>3, ValidateMoves DEF Grows
<1>11. ASSUME LookupAdvanced(w) PROVE Moved
  <2>1. pc[w] = "advanced" /\ UNCHANGED <<opinions, readings>> /\ sheet[w] \in Tabular(w)
    BY <1>11 DEF LookupAdvanced, Placed
  <2>2. PICK a \in VC!Answers(Subject(w).id) :
          IF a = Miss
            THEN /\ Goto(w, "legacy")
                 /\ UNCHANGED <<sheet, table, answer, results, dropped>>
            ELSE Decide(w, Accepts(a.verdict))
    BY <1>11 DEF LookupAdvanced
  <2>3. CASE a = Miss
    BY <1>0, <2>1, <2>2, <2>3, GotoMoves DEF Calls, Tabled, Grows
  <2>4. CASE a # Miss
    <3>1. a \in issued /\ a.id = Subject(w).id
      BY <2>2, <2>4 DEF VC!Answers
    <3>2. Decide(w, Accepts(a.verdict))
      BY <2>2, <2>4
    <3> QED BY <2>1, <3>1, <3>2, DecideMoves DEF Tabled
  <2> QED BY <2>3, <2>4
<1>12. ASSUME LookupLegacyHit(w) PROVE Moved
  <2>1. PICK e \in Found(legacy, Subject(w).key) : Decide(w, Accepts(e.value))
    BY <1>12 DEF LookupLegacyHit
  <2>2. e \in legacy /\ e.key = Subject(w).key
    BY <2>1 DEF Found
  <2>3. pc[w] = "legacy" /\ UNCHANGED <<opinions, readings>>
    BY <1>12 DEF LookupLegacyHit
  <2> QED BY <2>1, <2>2, <2>3, DecideMoves DEF Tabled
<1>13. ASSUME LookupLegacyMiss(w) PROVE Moved
  BY <1>0, <1>13, GotoMoves DEF LookupLegacyMiss, history, Calls, Tabled, Grows, Placed
<1>14. ASSUME VerdictAnswered(w) PROVE Moved
  <2>1. /\ pc[w] = "askVerdict" /\ sheet[w] \in Tabular(w)
        /\ Goto(w, "saveLegacy") /\ UNCHANGED <<sheet, table, results, readings, dropped>>
    BY <1>14 DEF VerdictAnswered, Placed
  <2>2. \E v : answer' = [answer EXCEPT ![w] = v]
    BY <1>14 DEF VerdictAnswered
  <2>3. answer' = [answer EXCEPT ![w] = answer'[w]]
    BY <2>2 DEF Shape
  <2>4. opinions \subseteq opinions'
    BY <1>14 DEF VerdictAnswered
  <2> QED BY <2>1, <2>3, <2>4, GotoMoves DEF Calls, Tabled, Grows
<1>15. ASSUME VerdictFailed(w) PROVE Moved
  BY <1>15 DEF VerdictFailed, Keeps, Tabled
<1>16. ASSUME SaveLegacy(w) PROVE Moved
  BY <1>0, <1>16, GotoMoves DEF SaveLegacy, history, Calls, Tabled, Grows, Placed
<1>17. ASSUME SaveAdvanced(w) PROVE Moved
  <2>1. /\ pc[w] = "saveAdvanced" /\ Decide(w, Accepts(answer[w]))
        /\ UNCHANGED <<opinions, readings>>
    BY <1>17 DEF SaveAdvanced
  <2>2. [subject |-> Subject(w), verdict |-> answer[w]] \in opinions
    BY <2>1 DEF Answered
  <2> QED BY <2>1, <2>2, DecideMoves DEF Tabled
<1> QED
  BY <1>1, <1>2, <1>3, <1>4, <1>5, <1>6, <1>7, <1>8, <1>9, <1>10, <1>11, <1>12, <1>13,
     <1>14, <1>15, <1>16, <1>17 DEF OwnStep, GptStep

-----------------------------------------------------------------------------
\* What was read from one set of answers is read from a larger one.
LEMMA ReadStays ==
    ASSUME NEW A, NEW B, A \subseteq B, NEW w, NEW s, NEW t, Read(A, w, s, t)
    PROVE  Read(B, w, s, t)
  BY DEF Read, Transfers

\* The table in hand is one of the tables that can be read from any sheet.
LEMMA TableInHand ==
    ASSUME Shape, Placed, NEW w \in Workers, pc[w] \in Tabled
    PROVE  /\ sheet[w] \in Tabular(w) /\ sheet[w] \in Nat
           /\ [sheet |-> sheet[w], table |-> table[w]] \in [sheet : Nat, table : Tables]
<1>1. sheet[w] \in Tabular(w) /\ sheet[w] \in Nat
  BY DEF Placed, Tabled, Shape
<1>2. table[w] \in Possible(Grid(w, sheet[w]))
  BY DEF Placed, Read
<1>3. table[w] \in Tables
  BY <1>1, <1>2 DEF Tables
<1> QED BY <1>1, <1>3

\* What a worker that keeps, drops or passes over its sheet goes on with.
LEMMA NextIterationPlaces ==
    ASSUME Shape, Placed, NEW w \in Workers, sheet[w] <= Len(Book[w]), NextIteration(w)
    PROVE  /\ pc' \in [Workers -> Calls] /\ sheet' \in [Workers -> Nat]
           /\ DOMAIN table' = Workers /\ table' = [x \in Workers |-> table'[x]]
           /\ DOMAIN answer' = Workers /\ answer' = [x \in Workers |-> answer'[x]]
           /\ pc'[w] = "next" /\ table'[w] = NoTable /\ sheet'[w] = sheet[w] + 1
           /\ sheet'[w] \in 1 .. Len(Book[w]) + 1
           /\ \A x \in Workers \ {w} :
                 pc'[x] = pc[x] /\ sheet'[x] = sheet[x] /\ table'[x] = table[x] /\ answer'[x] = answer[x]
<1>1. /\ pc' = [pc EXCEPT ![w] = "next"]
      /\ sheet' = [sheet EXCEPT ![w] = @ + 1]
      /\ table' = [table EXCEPT ![w] = NoTable]
      /\ answer' = [answer EXCEPT ![w] = NoVerdict]
  BY DEF NextIteration, Goto
<1>2. pc' \in [Workers -> Calls] /\ pc'[w] = "next" /\ \A x \in Workers \ {w} : pc'[x] = pc[x]
  BY <1>1 DEF Shape, Calls
<1>3. /\ sheet' \in [Workers -> Nat] /\ sheet'[w] = sheet[w] + 1
      /\ \A x \in Workers \ {w} : sheet'[x] = sheet[x]
  BY <1>1 DEF Shape
<1>4. /\ DOMAIN table' = Workers /\ table' = [x \in Workers |-> table'[x]]
      /\ table'[w] = NoTable /\ \A x \in Workers \ {w} : table'[x] = table[x]
  BY <1>1 DEF Shape
<1>5. /\ DOMAIN answer' = Workers /\ answer' = [x \in Workers |-> answer'[x]]
      /\ \A x \in Workers \ {w} : answer'[x] = answer[x]
  BY <1>1 DEF Shape
<1>6. sheet'[w] \in 1 .. Len(Book[w]) + 1
  BY <1>3, TabularSheets DEF Placed
<1> QED BY <1>2, <1>3, <1>4, <1>5, <1>6

\* Where the workers are after a step, in the sheets and in their code.
LEMMA ShapeAndPlaceStay ==
    ASSUME Shape, Placed, NEW w \in Workers, Grows,
           Works(w) \/ Keeps(w) \/ Drops(w) \/ Skips(w) \/ Return(w)
    PROVE  Shape' /\ Placed'
<1>0. readings \subseteq readings'
  BY DEF Grows
<1>1. CASE Works(w)
  <2>1. /\ pc' \in [Workers -> Calls] /\ \A x \in Workers \ {w} : pc'[x] = pc[x]
        /\ pc'[w] \notin {"next", "done"}
    BY <1>1 DEF Works, Shape
  <2>2. /\ DOMAIN table' = Workers /\ table' = [x \in Workers |-> table'[x]]
        /\ \A x \in Workers \ {w} : table'[x] = table[x]
    BY <1>1 DEF Works, Shape
  <2>3. DOMAIN answer' = Workers /\ answer' = [x \in Workers |-> answer'[x]]
    BY <1>1 DEF Works, Shape
  <2>4. sheet' = sheet /\ results' = results /\ sheet[w] \in Tabular(w)
    BY <1>1 DEF Works
  <2>5. Shape'
    BY <2>1, <2>2, <2>3, <2>4 DEF Shape
  <2>6. /\ pc'[w] \in Tabled => Read(readings', w, sheet[w], table'[w])
        /\ pc'[w] \notin Tabled => table'[w] = NoTable
    BY <1>0, <1>1, ReadStays DEF Works
  <2>7. \A x \in Workers : pc[x] \in Tabled => Read(readings', x, sheet[x], table[x])
    BY <1>0, ReadStays DEF Placed
  <2>8. Placed'
    BY <2>1, <2>2, <2>4, <2>6, <2>7 DEF Placed
  <2> QED BY <2>5, <2>8
<1>2. CASE Keeps(w) \/ Drops(w) \/ Skips(w)
  <2>1. NextIteration(w) /\ sheet[w] <= Len(Book[w])
    <3>1. ASSUME Keeps(w) \/ Drops(w)
          PROVE  NextIteration(w) /\ sheet[w] \in Tabular(w)
      BY <3>1 DEF Keeps, Accept, Drops, Dropping, Drop, Placed, Tabled
    <3>2. ASSUME Skips(w)
          PROVE  NextIteration(w) /\ sheet[w] <= Len(Book[w])
      BY <3>2 DEF Skips
    <3> QED BY <1>2, <3>1, <3>2, TabularSheets
  <2>2. results' \in [Workers -> Seq([sheet : Nat, table : Tables])]
    <3>1. CASE Keeps(w)
      <4>1. results' = [results EXCEPT ![w] = Append(@, [sheet |-> sheet[w], table |-> table[w]])]
        BY <3>1 DEF Keeps, Accept
      <4> DEFINE Item == [sheet : Nat, table : Tables]
      <4>2. [sheet |-> sheet[w], table |-> table[w]] \in Item
        BY <3>1, TableInHand DEF Keeps
      <4>3. results \in [Workers -> Seq(Item)]
        BY DEF Shape
      <4> HIDE DEF Item
      <4>4. Append(results[w], [sheet |-> sheet[w], table |-> table[w]]) \in Seq(Item)
        BY <4>2, <4>3
      <4>5. results' \in [Workers -> Seq(Item)]
        BY <4>1, <4>3, <4>4
      <4> QED BY <4>5 DEF Item
    <3>2. CASE Drops(w) \/ Skips(w)
      BY <3>2 DEF Drops, Dropping, Drop, Skips, Shape
    <3> QED BY <1>2, <3>1, <3>2
  <2>3. Shape'
    BY <2>1, <2>2, NextIterationPlaces DEF Shape
  <2>4. \A x \in Workers : pc[x] \in Tabled => Read(readings', x, sheet[x], table[x])
    BY <1>0, ReadStays DEF Placed
  <2>5. Placed'
    BY <2>1, <2>4, NextIterationPlaces DEF Placed, Tabled
  <2> QED BY <2>3, <2>5
<1>3. CASE Return(w)
  <2>1. /\ pc[w] = "next" /\ sheet[w] > Len(Book[w])
        /\ pc' = [pc EXCEPT ![w] = "done"]
        /\ UNCHANGED <<sheet, table, answer, results, readings>>
    BY <1>3 DEF Return, Goto, history
  <2>2. /\ pc' \in [Workers -> Calls] /\ pc'[w] = "done"
        /\ \A x \in Workers \ {w} : pc'[x] = pc[x]
    BY <2>1 DEF Shape, Calls
  <2>3. Shape'
    BY <2>1, <2>2 DEF Shape
  <2>4. Placed'
    BY <2>1, <2>2 DEF Placed, Tabled
  <2> QED BY <2>3, <2>4
<1> QED BY <1>1, <1>2, <1>3

LEMMA OneMore ==
    ASSUME NEW n \in Nat
    PROVE  1 .. n + 1 = (1 .. n) \cup {n + 1}
  OBVIOUS

\* What keeping or dropping a sheet does to the account of the sheets decided.
LEMMA AccountStays ==
    ASSUME IInv, NEW w \in Workers, Grows,
           Works(w) \/ Keeps(w) \/ Drops(w) \/ Skips(w) \/ Return(w),
           NEW x \in Workers
    PROVE  Accounted(x)'
<1> USE DEF IInv
<1>0. /\ Accounted(x) /\ readings \subseteq readings'
      /\ \A i \in DOMAIN results[x] :
            Read(readings', x, results[x][i].sheet, results[x][i].table)
  BY ReadStays DEF Decided, Accounted, Grows
<1>1. ASSUME sheet'[x] = sheet[x], results'[x] = results[x], GoneSheets(x)' = GoneSheets(x)
      PROVE  Accounted(x)'
  BY <1>0, <1>1 DEF Accounted, KeptSheets
<1>2. CASE Works(w) \/ Return(w)
  BY <1>1, <1>2 DEF Works, Return, history, GoneSheets
<1>3. CASE Keeps(w) \/ Drops(w) \/ Skips(w)
  <2>1. NextIteration(w) /\ sheet[w] <= Len(Book[w])
    <3>1. ASSUME Keeps(w) \/ Drops(w)
          PROVE  NextIteration(w) /\ sheet[w] \in Tabular(w)
      BY <3>1 DEF Keeps, Accept, Drops, Dropping, Drop, Placed, Tabled
    <3>2. ASSUME Skips(w)
          PROVE  NextIteration(w) /\ sheet[w] <= Len(Book[w])
      BY <3>2 DEF Skips
    <3> QED BY <1>3, <3>1, <3>2, TabularSheets
  <2>2. CASE x # w
    <3>1. sheet'[x] = sheet[x]
      BY <2>1, <2>2, NextIterationPlaces
    <3>2. results'[x] = results[x]
      BY <1>3, <2>2 DEF Keeps, Accept, Drops, Dropping, Drop, Skips, Shape
    <3>3. GoneSheets(x)' = GoneSheets(x)
      <4>1. CASE Keeps(w) \/ Skips(w)
        BY <4>1 DEF Keeps, Accept, Skips, history, GoneSheets
      <4>2. CASE Drops(w)
        <5>1. \E d : d.worker = w /\ dropped' = dropped \cup {d}
          BY <4>2 DEF Drops, Dropping, Drop
        <5> QED BY <2>2, <5>1 DEF GoneSheets
      <4> QED BY <1>3, <4>1, <4>2
    <3> QED BY <1>1, <3>1, <3>2, <3>3
  <2>3. CASE x = w
    <3>1. sheet'[w] = sheet[w] + 1 /\ sheet[w] \in Nat /\ Tabular(w) \subseteq Nat
      <4>1. sheet'[w] = sheet[w] + 1
        BY <2>1, NextIterationPlaces
      <4>2. Tabular(w) \subseteq Nat
        <5>1. DOMAIN Book[w] \subseteq Nat
          BY TabularSheets
        <5> QED BY <5>1 DEF Tabular
      <4> QED BY <4>1, <4>2 DEF Shape
    <3>2. {s \in Tabular(w) : s < sheet'[w]}
            = {s \in Tabular(w) : s < sheet[w]} \cup (Tabular(w) \cap {sheet[w]})
      BY <3>1
    <3>3. sheet[w] \notin KeptSheets(w) \cup GoneSheets(w)
      BY <1>0, <2>3, <3>1 DEF Accounted
    <3>4. CASE Skips(w)
      <4>1. results' = results /\ dropped' = dropped /\ sheet[w] \notin Tabular(w)
        BY <3>4 DEF Skips, history
      <4>2. KeptSheets(w)' = KeptSheets(w) /\ GoneSheets(w)' = GoneSheets(w)
        BY <4>1 DEF KeptSheets, GoneSheets
      <4>3. Len(results[w]) \in Nat
        BY DEF Shape
      <4> QED BY <1>0, <2>3, <3>1, <3>2, <4>1, <4>2, <4>3 DEF Accounted
    <3>5. CASE Drops(w)
      <4>1. /\ results' = results /\ sheet[w] \in Tabular(w)
            /\ \E d : d.worker = w /\ d.sheet = sheet[w] /\ dropped' = dropped \cup {d}
        BY <3>5 DEF Drops, Dropping, Drop, Placed
      <4>2. KeptSheets(w)' = KeptSheets(w) /\ GoneSheets(w)' = GoneSheets(w) \cup {sheet[w]}
        BY <4>1 DEF KeptSheets, GoneSheets
      <4>3. Len(results[w]) \in Nat
        BY DEF Shape
      <4> QED BY <1>0, <2>3, <3>1, <3>2, <3>3, <4>1, <4>2, <4>3 DEF Accounted
    <3>6. CASE Keeps(w)
      <4> DEFINE item == [sheet |-> sheet[w], table |-> table[w]]
                 n == Len(results[w])
      <4>1. /\ dropped' = dropped /\ pc[w] \in Tabled
            /\ results' = [results EXCEPT ![w] = Append(@, item)]
        BY <3>6 DEF Keeps, Accept
      <4>2. results[w] \in Seq([sheet : Nat, table : Tables])
        BY DEF Shape
      <4>3. results'[w] = Append(results[w], item)
        BY <4>1 DEF Shape
      <4>4. /\ n \in Nat /\ DOMAIN results[w] = 1 .. n
            /\ DOMAIN results'[w] = 1 .. n + 1 /\ Len(results'[w]) = n + 1
            /\ results'[w][n + 1] = item
            /\ \A i \in 1 .. n : results'[w][i] = results[w][i]
        BY <4>2, <4>3
      <4>5. sheet[w] \in Tabular(w)
        BY <4>1, TableInHand
      <4>6. KeptSheets(w)' = KeptSheets(w) \cup {sheet[w]} /\ GoneSheets(w)' = GoneSheets(w)
        <5> HIDE DEF n
        <5>1. KeptSheets(w)' = {results'[w][i].sheet : i \in 1 .. n + 1}
          BY <4>4 DEF KeptSheets
        <5>2. 1 .. n + 1 = (1 .. n) \cup {n + 1}
          BY <4>4, OneMore
        <5>3. \A i \in 1 .. n : results'[w][i].sheet = results[w][i].sheet
          BY <4>4
        <5>4. KeptSheets(w) = {results[w][i].sheet : i \in 1 .. n}
          BY <4>4 DEF KeptSheets
        <5>5. results'[w][n + 1].sheet = sheet[w]
          BY <4>4
        <5>6. KeptSheets(w)' = {results'[w][i].sheet : i \in 1 .. n} \cup {results'[w][n + 1].sheet}
          BY <5>1, <5>2
        <5>7. {results'[w][i].sheet : i \in 1 .. n} = KeptSheets(w)
          BY <5>3, <5>4
        <5>8. GoneSheets(w)' = GoneSheets(w)
          BY <4>1 DEF GoneSheets
        <5> QED BY <5>5, <5>6, <5>7, <5>8
      <4>7. \A i, j \in DOMAIN results'[w] : i < j => results'[w][i].sheet < results'[w][j].sheet
        <5> SUFFICES ASSUME NEW i \in 1 .. n + 1, NEW j \in 1 .. n + 1, i < j
                     PROVE  results'[w][i].sheet < results'[w][j].sheet
          BY <4>4
        <5>1. CASE j \in 1 .. n
          <6> HIDE DEF n, item
          <6>1. i \in 1 .. n
            BY <4>4, <5>1
          <6>2. results[w][i].sheet < results[w][j].sheet
            BY <1>0, <2>3, <4>4, <5>1, <6>1 DEF Accounted
          <6>3. results'[w][i] = results[w][i] /\ results'[w][j] = results[w][j]
            BY <4>4, <5>1, <6>1
          <6> QED BY <6>2, <6>3
        <5>2. CASE j = n + 1
          <6>1. i \in 1 .. n /\ results'[w][i].sheet = results[w][i].sheet
            BY <4>4, <5>2
          <6>2. results[w][i].sheet \in KeptSheets(w)
            BY <4>4, <6>1 DEF KeptSheets
          <6>3. results[w][i].sheet < sheet[w]
            BY <1>0, <2>3, <6>2 DEF Accounted
          <6> QED BY <4>4, <5>2, <6>1, <6>3
        <5> QED BY <4>4, <5>1, <5>2
      <4>8. \A i \in DOMAIN results'[w] :
              Read(readings', w, results'[w][i].sheet, results'[w][i].table)
        <5> SUFFICES ASSUME NEW i \in 1 .. n + 1
                     PROVE  Read(readings', w, results'[w][i].sheet, results'[w][i].table)
          BY <4>4
        <5>1. CASE i \in 1 .. n
          BY <1>0, <2>3, <4>4, <5>1
        <5>2. CASE i = n + 1
          <6>1. Read(readings, w, sheet[w], table[w])
            BY <4>1 DEF Placed
          <6>2. Read(readings', w, sheet[w], table[w])
            BY <1>0, <6>1, ReadStays
          <6> QED BY <4>4, <5>2, <6>2
        <5> QED BY <4>4, <5>1, <5>2
      <4>9. Len(results'[w]) < sheet'[w]
        BY <1>0, <2>3, <3>1, <4>4 DEF Accounted
      <4> QED BY <1>0, <2>3, <3>2, <3>3, <4>5, <4>6, <4>7, <4>8, <4>9 DEF Accounted
    <3> QED BY <1>3, <2>3, <3>4, <3>5, <3>6
  <2> QED BY <2>2, <2>3
<1> QED BY <1>2, <1>3

-----------------------------------------------------------------------------
\* A step of one worker leaves the others where they are.
LEMMA OthersStay ==
    ASSUME IInv, NEW w \in Workers,
           Works(w) \/ Keeps(w) \/ Drops(w) \/ Skips(w) \/ Return(w),
           NEW x \in Workers \ {w}
    PROVE  /\ pc'[x] = pc[x] /\ sheet'[x] = sheet[x]
           /\ table'[x] = table[x] /\ answer'[x] = answer[x]
<1>1. CASE Works(w)
  BY <1>1 DEF IInv, Works, Shape
<1>2. CASE Keeps(w) \/ Drops(w) \/ Skips(w)
  <2>1. NextIteration(w)
    BY <1>2 DEF Keeps, Accept, Drops, Dropping, Drop, Skips
  <2> QED BY <2>1 DEF IInv, Shape, NextIteration, Goto
<1>3. CASE Return(w)
  BY <1>3 DEF IInv, Shape, Return, Goto
<1> QED BY <1>1, <1>2, <1>3

\* Only these steps lead to a step that writes to a cache.
LEMMA BeforeSaving ==
    ASSUME IInv, NEW w \in Workers, OwnStep(w) \/ GptStep(w),
           pc'[w] \in {"saveAnalysis", "saveLegacy", "saveAdvanced"}
    PROVE  AnalysisAnswered(w) \/ VerdictAnswered(w) \/ SaveLegacy(w)
<1> USE DEF IInv
<1>0. \A call \in Calls : Goto(w, call) => pc'[w] = call
  BY DEF Goto, Shape
<1>1. NextIteration(w) => pc'[w] = "next"
  BY <1>0 DEF NextIteration, Calls
<1>2. \A t : Validate(w, t) => pc'[w] = "advanced"
  BY <1>0 DEF Validate, Calls
<1>3. AfterEarlyCheck(w) => pc'[w] \in {"advanced", "analysis"}
  BY <1>0, <1>2 DEF AfterEarlyCheck, Calls
<1>4. \A v : EarlyVerdict(w, v) => pc'[w] \in {"next", "advanced", "analysis"}
  BY <1>1, <1>3 DEF EarlyVerdict, Drop
<1>5. \A b : Decide(w, b) => pc'[w] = "next"
  BY <1>1 DEF Decide, Accept, Drop
<1>6. ~Return(w) /\ ~SkipUnreadable(w) /\ ~SkipEmpty(w) /\ ~OpenSheet(w)
  BY <1>0, <1>1 DEF Return, SkipUnreadable, SkipEmpty, OpenSheet, Calls
<1>7. ~EarlyAdvanced(w) /\ ~EarlyLegacyHit(w) /\ ~EarlyLegacyMiss(w)
  BY <1>0, <1>3, <1>4 DEF EarlyAdvanced, EarlyLegacyHit, EarlyLegacyMiss, Calls
<1>8. ~AnalysisHit(w) /\ ~AnalysisMiss(w) /\ ~SaveAnalysis(w) /\ ~AnalysisFailed(w)
  BY <1>0, <1>2 DEF AnalysisHit, AnalysisMiss, SaveAnalysis, AnalysisFailed, Calls
<1>9. ~LookupAdvanced(w) /\ ~LookupLegacyHit(w) /\ ~LookupLegacyMiss(w)
  BY <1>0, <1>5 DEF LookupAdvanced, LookupLegacyHit, LookupLegacyMiss, Calls
<1>10. ~SaveAdvanced(w) /\ ~VerdictFailed(w)
  BY <1>1, <1>5 DEF SaveAdvanced, VerdictFailed, Accept
<1> QED BY <1>6, <1>7, <1>8, <1>9, <1>10 DEF OwnStep, GptStep

\* Every worker still holds what GPT has just said.
LEMMA AnsweredStays ==
    ASSUME IInv, NEW w \in Workers, OwnStep(w) \/ GptStep(w)
    PROVE  Answered'
<1> USE DEF IInv
<1>1. Works(w) \/ Keeps(w) \/ Drops(w) \/ Skips(w) \/ Return(w)
  BY Moves
<1>2. opinions \subseteq opinions' /\ readings \subseteq readings'
  BY Moves DEF Grows
<1> SUFFICES ASSUME NEW x \in Workers
             PROVE  /\ pc'[x] \in {"saveLegacy", "saveAdvanced"} =>
                          [subject |-> Subject(x)', verdict |-> answer'[x]] \in opinions'
                    /\ pc'[x] = "saveAnalysis" =>
                          /\ answer'[x] \in AnalysisAnswers(Sheet(x)'.texts)
                          /\ [texts |-> Sheet(x)'.texts, answer |-> answer'[x]] \in readings'
  BY DEF Answered
<1>3. CASE x # w
  <2>1. /\ pc'[x] = pc[x] /\ sheet'[x] = sheet[x]
        /\ table'[x] = table[x] /\ answer'[x] = answer[x]
    BY <1>1, <1>3, OthersStay
  <2>2. Subject(x)' = Subject(x) /\ Sheet(x)' = Sheet(x)
    BY <2>1 DEF Subject, Sheet
  <2> QED BY <1>2, <2>1, <2>2 DEF Answered
<1>4. CASE x = w
  <2>1. CASE pc'[w] \notin {"saveAnalysis", "saveLegacy", "saveAdvanced"}
    BY <1>4, <2>1
  <2>2. CASE AnalysisAnswered(w)
    <3>1. PICK a \in AnalysisAnswers(Sheet(w).texts) :
            /\ answer' = [answer EXCEPT ![w] = a]
            /\ readings' = readings \cup {[texts |-> Sheet(w).texts, answer |-> a]}
      BY <2>2 DEF AnalysisAnswered
    <3>2. pc'[w] = "saveAnalysis" /\ answer'[w] = a /\ Sheet(w)' = Sheet(w)
      BY <2>2, <3>1 DEF AnalysisAnswered, Goto, Shape, Sheet
    <3> QED BY <1>4, <3>1, <3>2
  <2>3. CASE VerdictAnswered(w)
    <3>1. PICK v \in Verdict :
            /\ answer' = [answer EXCEPT ![w] = v]
            /\ opinions' = opinions \cup {[subject |-> Subject(w), verdict |-> v]}
      BY <2>3 DEF VerdictAnswered, VerdictsOn
    <3>2. pc'[w] = "saveLegacy" /\ answer'[w] = v /\ Subject(w)' = Subject(w)
      BY <2>3, <3>1 DEF VerdictAnswered, Goto, Shape, Subject
    <3> QED BY <1>4, <3>1, <3>2
  <2>4. CASE SaveLegacy(w)
    <3>1. /\ pc[w] = "saveLegacy" /\ pc'[w] = "saveAdvanced"
          /\ answer' = answer /\ opinions' = opinions /\ Subject(w)' = Subject(w)
      BY <2>4 DEF SaveLegacy, Goto, Shape, Subject, history
    <3> QED BY <1>4, <3>1 DEF Answered
  <2> QED BY <2>1, <2>2, <2>3, <2>4, BeforeSaving
<1> QED BY <1>3, <1>4

\* Only these steps touch a cache or a history.
LEMMA CachesStay ==
    ASSUME NEW w \in Workers, OwnStep(w) \/ GptStep(w)
    PROVE  \/ AnalysisAnswered(w) \/ VerdictAnswered(w)
           \/ SaveAnalysis(w) \/ SaveLegacy(w) \/ SaveAdvanced(w)
           \/ UNCHANGED <<caches, opinions, readings>>
<1>1. ASSUME Return(w) \/ SkipUnreadable(w) \/ SkipEmpty(w) \/ OpenSheet(w)
      PROVE  UNCHANGED <<caches, opinions, readings>>
  BY <1>1 DEF Return, SkipUnreadable, SkipEmpty, OpenSheet, history
<1>2. ASSUME EarlyAdvanced(w) \/ EarlyLegacyHit(w) \/ EarlyLegacyMiss(w)
      PROVE  UNCHANGED <<caches, opinions, readings>>
  BY <1>2 DEF EarlyAdvanced, EarlyLegacyHit, EarlyLegacyMiss
<1>3. ASSUME AnalysisHit(w) \/ AnalysisMiss(w) \/ AnalysisFailed(w)
      PROVE  UNCHANGED <<caches, opinions, readings>>
  BY <1>3 DEF AnalysisHit, AnalysisMiss, AnalysisFailed, history
<1>4. ASSUME LookupAdvanced(w) \/ LookupLegacyHit(w) \/ LookupLegacyMiss(w) \/ VerdictFailed(w)
      PROVE  UNCHANGED <<caches, opinions, readings>>
  BY <1>4 DEF LookupAdvanced, LookupLegacyHit, LookupLegacyMiss, VerdictFailed, history
<1> QED BY <1>1, <1>2, <1>3, <1>4 DEF OwnStep, GptStep

\* The caches still hold nothing that GPT did not say.
LEMMA BackedStays ==
    ASSUME IInv, NEW w \in Workers, OwnStep(w) \/ GptStep(w)
    PROVE  Backed'
<1> USE DEF IInv
<1>1. CASE AnalysisAnswered(w)
  <2>1. readings \subseteq readings' /\ UNCHANGED <<analyses, legacy, issued, opinions>>
    BY <1>1 DEF AnalysisAnswered, caches
  <2> QED BY <2>1 DEF Backed, CachedAreOpinions
<1>2. CASE VerdictAnswered(w)
  <2>1. PICK v \in Verdict : opinions' = opinions \cup {[subject |-> Subject(w), verdict |-> v]}
    BY <1>2 DEF VerdictAnswered, VerdictsOn
  <2>2. UNCHANGED <<analyses, legacy, issued, readings>>
    BY <1>2 DEF VerdictAnswered, caches
  <2>3. \A o \in opinions' : o.verdict \in Verdict /\ o.subject.key.header = o.subject.id.hash
    BY <2>1, SubjectsAgree DEF Backed
  <2> QED BY <2>1, <2>2, <2>3 DEF Backed, CachedAreOpinions
<1>3. CASE SaveAnalysis(w)
  <2>1. pc[w] = "saveAnalysis" /\ UNCHANGED <<legacy, issued, opinions, readings>>
    BY <1>3 DEF SaveAnalysis, history
  <2>2. [texts |-> Sheet(w).texts, answer |-> answer[w]] \in readings
    BY <2>1 DEF Answered
  <2>3. \A e \in analyses' : e \in analyses \/ e = [key |-> Sheet(w).texts, value |-> answer[w]]
    BY <1>3 DEF SaveAnalysis, Put
  <2>4. \A e \in analyses' : [texts |-> e.key, answer |-> e.value] \in readings'
    <3> SUFFICES ASSUME NEW e \in analyses'
                 PROVE  [texts |-> e.key, answer |-> e.value] \in readings
      BY <2>1
    <3>1. CASE e \in analyses
      BY <3>1 DEF Backed
    <3>2. CASE e = [key |-> Sheet(w).texts, value |-> answer[w]]
      <4>1. e.key = Sheet(w).texts /\ e.value = answer[w]
        BY <3>2
      <4> QED BY <2>2, <4>1
    <3> QED BY <2>3, <3>1, <3>2
  <2> QED BY <2>1, <2>4 DEF Backed, CachedAreOpinions
<1>4. CASE SaveLegacy(w)
  <2>1. pc[w] = "saveLegacy" /\ UNCHANGED <<analyses, issued, opinions, readings>>
    BY <1>4 DEF SaveLegacy, history
  <2>2. [subject |-> Subject(w), verdict |-> answer[w]] \in opinions
    BY <2>1 DEF Answered
  <2>3. \A e \in legacy' : e \in legacy \/ e = [key |-> Subject(w).key, value |-> answer[w]]
    BY <1>4 DEF SaveLegacy, Put
  <2>4. \A e \in legacy' : \E o \in opinions' : o.subject.key = e.key /\ o.verdict = e.value
    BY <2>1, <2>2, <2>3 DEF Backed, CachedAreOpinions
  <2> QED BY <2>1, <2>4 DEF Backed, CachedAreOpinions
<1>5. CASE SaveAdvanced(w)
  <2>1. pc[w] = "saveAdvanced" /\ UNCHANGED <<analyses, legacy, opinions, readings>>
    BY <1>5 DEF SaveAdvanced
  <2>2. [subject |-> Subject(w), verdict |-> answer[w]] \in opinions
    BY <2>1 DEF Answered
  <2>3. \A e \in issued' :
          e \in issued \/ (e.id = Subject(w).id /\ e.verdict = answer[w])
    BY <1>5 DEF SaveAdvanced, VC!Record
  <2>4. \A e \in issued' : \E o \in opinions' : o.subject.id = e.id /\ o.verdict = e.verdict
    BY <2>1, <2>2, <2>3 DEF Backed, CachedAreOpinions
  <2> QED BY <2>1, <2>4 DEF Backed, CachedAreOpinions
<1>6. CASE UNCHANGED <<caches, opinions, readings>>
  BY <1>6 DEF Backed, CachedAreOpinions, caches
<1> QED BY <1>1, <1>2, <1>3, <1>4, <1>5, <1>6, CachesStay

\* A drop has its reason when it is made, and keeps it.
LEMMA DropsStayJustified ==
    ASSUME IInv, NEW w \in Workers, Grows,
           Works(w) \/ Keeps(w) \/ Drops(w) \/ Skips(w) \/ Return(w)
    PROVE  /\ JustifiedDrops'
           /\ \A d \in dropped' : d.worker \in Workers /\ d.kind \in {"early", "validated"}
<1> USE DEF IInv
<1>1. opinions \subseteq opinions'
  BY DEF Grows
<1>2. CASE Drops(w)
  <2>1. PICK kind \in {"early", "validated"} : \E subject : Dropping(w, kind, subject)
    BY <1>2 DEF Drops
  <2>2. PICK subject : Dropping(w, kind, subject)
    BY <2>1
  <2> DEFINE new == [worker |-> w, sheet |-> sheet[w], kind |-> kind, subject |-> subject]
  <2>3. dropped' = dropped \cup {new} /\ \E o \in opinions : Backs(o, new)
    BY <2>2 DEF Dropping, Drop
  <2>4. new.worker \in Workers /\ new.kind \in {"early", "validated"}
    BY <2>1
  <2> HIDE DEF new
  <2> QED BY <1>1, <2>3, <2>4 DEF Decided, JustifiedDrops
<1>3. CASE Works(w) \/ Keeps(w) \/ Skips(w) \/ Return(w)
  <2>1. dropped' = dropped
    BY <1>3 DEF Works, Keeps, Accept, Skips, Return, history
  <2> QED BY <1>1, <2>1 DEF Decided, JustifiedDrops
<1> QED BY <1>2, <1>3

LEMMA InvariantStarts == Init => IInv
<1> SUFFICES ASSUME Init PROVE IInv
  OBVIOUS
<1>1. /\ pc = [w \in Workers |-> "next"] /\ sheet = [w \in Workers |-> 1]
      /\ table = [w \in Workers |-> NoTable] /\ answer = [w \in Workers |-> NoVerdict]
      /\ results = [w \in Workers |-> <<>>]
      /\ analyses = {} /\ legacy = {} /\ issued = {}
      /\ opinions = {} /\ readings = {} /\ dropped = {}
  BY DEF Init
<1>2. Shape
  <2>1. results \in [Workers -> Seq([sheet : Nat, table : Tables])]
    BY <1>1
  <2> QED BY <1>1, <2>1 DEF Shape, Calls
<1>3. Placed
  BY <1>1, TabularSheets DEF Placed, Tabled
<1>4. Answered /\ Backed
  BY <1>1 DEF Answered, Backed, CachedAreOpinions
<1>5. Decided
  <2>1. ASSUME NEW w \in Workers PROVE Accounted(w)
    <3>1. sheet[w] = 1 /\ results[w] = <<>> /\ DOMAIN results[w] = {} /\ Len(results[w]) = 0
      BY <1>1
    <3>2. KeptSheets(w) = {} /\ GoneSheets(w) = {}
      BY <1>1, <3>1 DEF KeptSheets, GoneSheets
    <3>3. {s \in Tabular(w) : s < sheet[w]} = {}
      <4>1. \A s \in Tabular(w) : s \in 1 .. Len(Book[w])
        BY TabularSheets
      <4> QED BY <3>1, <4>1, TabularSheets
    <3> QED BY <3>1, <3>2, <3>3 DEF Accounted
  <2> QED BY <1>1, <2>1 DEF Decided, JustifiedDrops
<1> QED BY <1>2, <1>3, <1>4, <1>5 DEF IInv

LEMMA InvariantStays == IInv /\ [Next]_vars => IInv'
<1> SUFFICES ASSUME IInv, [Next]_vars PROVE IInv'
  OBVIOUS
<1>1. CASE Next
  <2>1. PICK w \in Workers : OwnStep(w) \/ GptStep(w)
    BY <1>1 DEF Next
  <2>2. Works(w) \/ Keeps(w) \/ Drops(w) \/ Skips(w) \/ Return(w)
    BY <2>1, Moves
  <2>3. Grows
    BY <2>1, Moves DEF Grows
  <2>4. Shape' /\ Placed'
    BY <2>2, <2>3, ShapeAndPlaceStay DEF IInv
  <2>5. Answered' /\ Backed'
    BY <2>1, AnsweredStays, BackedStays
  <2>6. \A x \in Workers : Accounted(x)'
    BY <2>2, <2>3, AccountStays
  <2>7. Decided'
    BY <2>2, <2>3, <2>6, DropsStayJustified DEF Decided
  <2> QED BY <2>4, <2>5, <2>7 DEF IInv
<1>2. CASE UNCHANGED vars
  <2>1. /\ UNCHANGED <<pc, sheet, table, answer, results, analyses>>
        /\ UNCHANGED <<legacy, issued, opinions, readings, dropped>>
    BY <1>2 DEF vars
  <2>2. Shape' /\ Placed'
    BY <2>1 DEF IInv, Shape, Placed
  <2>3. Answered' /\ Backed'
    BY <2>1 DEF IInv, Answered, Subject, Sheet, Backed, CachedAreOpinions
  <2>4. Decided'
    <3>1. ASSUME NEW w \in Workers PROVE Accounted(w)'
      <4>1. Accounted(w) /\ KeptSheets(w)' = KeptSheets(w) /\ GoneSheets(w)' = GoneSheets(w)
        BY <2>1 DEF IInv, Decided, KeptSheets, GoneSheets
      <4> QED BY <2>1, <4>1 DEF Accounted
    <3> QED BY <2>1, <3>1 DEF IInv, Decided, JustifiedDrops
  <2> QED BY <2>2, <2>3, <2>4 DEF IInv
<1> QED BY <1>1, <1>2

LEMMA InvariantHolds == Spec => []IInv
  BY InvariantStarts, InvariantStays, PTL DEF Spec

-----------------------------------------------------------------------------
\* What the invariant says of a table that parse() will return.
LEMMA ResultsAreRead ==
    ASSUME IInv, NEW w \in Workers, NEW i \in DOMAIN results[w]
    PROVE  LET g == Grids[w][results[w][i].sheet]
               t == results[w][i].table
           IN  WellRead(g, t) /\ Transfers(readings, g, t)
<1> DEFINE s == results[w][i].sheet
           t == results[w][i].table
<1>1. Read(readings, w, s, t) /\ s \in KeptSheets(w)
  BY DEF IInv, Decided, Accounted, KeptSheets
<1>2. s \in Tabular(w)
  BY <1>1 DEF IInv, Decided, Accounted
<1> HIDE DEF s, t
<1>3. IsGrid(Grid(w, s)) /\ StartRow(Grid(w, s)) # NoRow
  BY <1>2, TabularSheets
<1>4. t \in Possible(Grid(w, s)) /\ Transfers(readings, Grid(w, s), t)
  BY <1>1 DEF Read
<1>5. WellRead(Grid(w, s), t)
  BY <1>3, <1>4, PossibleTablesAreWellRead
<1> QED BY <1>4, <1>5 DEF Grid, s, t

LEMMA InvariantGivesTypes == IInv => TypeOK
<1> SUFFICES ASSUME IInv PROVE TypeOK
  OBVIOUS
<1> USE DEF IInv
<1>1. pc \in [Workers -> Calls]
  BY DEF Shape
<1>2. ASSUME NEW w \in Workers
      PROVE  /\ sheet[w] \in 1 .. Len(Book[w]) + 1
             /\ Len(results[w]) < sheet[w]
             /\ pc[w] = "saveAnalysis" => answer[w] \in AnalysisAnswers(Sheet(w).texts)
  BY DEF Placed, Decided, Accounted, Answered
<1>3. ASSUME NEW w \in Workers, table[w] # NoTable
      PROVE  table[w].top \in DOMAIN Grids[w][sheet[w]]
  <2>1. pc[w] \in Tabled
    BY <1>3 DEF Placed
  <2>2. sheet[w] \in Tabular(w) /\ table[w] \in Possible(Grid(w, sheet[w]))
    BY <2>1, TableInHand DEF Placed, Read
  <2>3. IsGrid(Grid(w, sheet[w])) /\ StartRow(Grid(w, sheet[w])) # NoRow
    BY <2>2, TabularSheets
  <2>4. table[w].top \in DOMAIN Grid(w, sheet[w])
    BY <2>2, <2>3, PossibleTablesAreWellRead
  <2> QED BY <2>4 DEF Grid
<1>4. ASSUME NEW w \in Workers, pc[w] \in {"saveLegacy", "saveAdvanced"}
      PROVE  answer[w] \in Verdict
  <2>1. [subject |-> Subject(w), verdict |-> answer[w]] \in opinions
    BY <1>4 DEF Answered
  <2> QED BY <2>1 DEF Backed
<1>5. /\ \A e \in legacy : e.value \in Verdict
      /\ \A e \in issued \cup opinions : e.verdict \in Verdict
  BY DEF Backed, CachedAreOpinions
<1>6. \A d \in dropped : d.worker \in Workers /\ d.kind \in {"early", "validated"}
  BY DEF Decided
<1> QED BY <1>1, <1>2, <1>3, <1>4, <1>5, <1>6 DEF TypeOK

\* Every variable has its type: above all, the rows of a table in hand are rows
\* of the sheet the worker is at, whatever GPT or the analysis cache answered.
THEOREM TypeCorrect == Spec => []TypeOK
  BY InvariantHolds, InvariantGivesTypes, PTL

\* Whatever is left out of the results, GPT had once said so of a table with the
\* same header: no failure, eviction or interleaving drops a table.
THEOREM DropsAreJustified == Spec => []JustifiedDrops
<1>1. IInv => JustifiedDrops
  BY DEF IInv, Decided
<1> QED BY <1>1, InvariantHolds, PTL

\* The validation caches never hold the default of a failed call to GPT.
THEOREM CachesHoldOpinions == Spec => []CachedAreOpinions
<1>1. IInv => CachedAreOpinions
  BY DEF IInv, Backed
<1> QED BY <1>1, InvariantHolds, PTL

\* No row numbers of GPT make parse() return a table whose header does not lie
\* above its data, or has a name from elsewhere.
THEOREM HeadersComeFromAbove == Spec => []HeaderAboveData
<1>1. IInv => HeaderAboveData
  BY ResultsAreRead DEF HeaderAboveData, WellRead
<1> QED BY <1>1, InvariantHolds, PTL

\* The search for a better header never replaces a plain name.
THEOREM PlainNamesStay == Spec => []PlainNamesKept
<1>1. IInv => PlainNamesKept
  BY ResultsAreRead DEF PlainNamesKept, WellRead
<1> QED BY <1>1, InvariantHolds, PTL

\* An analysis that another sheet or goroutine cached is applied to the rows
\* whose texts GPT was shown, wherever they are in this sheet.
THEOREM AnalysesTransfer == Spec => []AnalysisTransfers
<1>1. IInv => AnalysisTransfers
  BY ResultsAreRead DEF AnalysisTransfers, Transfers
<1> QED BY <1>1, InvariantHolds, PTL

\* No sheet with a table is lost, returned twice, or both returned and left out.
THEOREM NoSheetIsLost == Spec => []SheetsAccountedFor
<1>1. IInv => SheetsAccountedFor
  <2> SUFFICES ASSUME IInv, NEW w \in Workers, pc[w] = "done"
               PROVE  /\ KeptSheets(w) \cup GoneSheets(w) = Tabular(w)
                      /\ KeptSheets(w) \cap GoneSheets(w) = {}
                      /\ \A i, j \in DOMAIN results[w] :
                            i < j => results[w][i].sheet < results[w][j].sheet
    BY DEF SheetsAccountedFor, KeptSheets, GoneSheets
  <2>1. sheet[w] > Len(Book[w]) /\ sheet[w] \in Nat
    BY DEF IInv, Placed, Shape
  <2>2. {s \in Tabular(w) : s < sheet[w]} = Tabular(w)
    BY <2>1, TabularSheets
  <2> QED BY <2>2 DEF IInv, Decided, Accounted
<1> QED BY <1>1, InvariantHolds, PTL

-----------------------------------------------------------------------------
\* Each move is a step of Screening.
LEMMA MovesScreen ==
    ASSUME IInv, NEW w \in Workers, OwnStep(w) \/ GptStep(w)
    PROVE  Screens!Next
<1> DEFINE kept == [x \in Workers |-> [i \in DOMAIN results[x] |-> results[x][i].sheet]]
           returned == {x \in Workers : pc[x] = "done"}
<1>1. pc \in [Workers -> Calls] /\ sheet \in [Workers -> Nat]
  BY DEF IInv, Shape
<1>2. CASE Works(w) /\ Grows
  <2>1. UNCHANGED <<sheet, results, dropped>> /\ opinions \subseteq opinions'
    BY <1>2 DEF Works, Grows
  <2>2. returned' = returned
    BY <1>1, <1>2 DEF Works, Calls
  <2>3. kept' = kept
    BY <2>1
  <2>4. Screens!Consult
    BY <2>1, <2>2, <2>3 DEF Screens!Consult
  <2> QED BY <2>4 DEF Screens!Next
<1>3. CASE Return(w) /\ UNCHANGED <<opinions, readings>>
  <2>1. /\ sheet[w] > Len(Book[w]) /\ pc' = [pc EXCEPT ![w] = "done"]
        /\ UNCHANGED <<sheet, results, dropped, opinions>>
    BY <1>3 DEF Return, Goto, history
  <2>2. returned' = returned \cup {w} /\ kept' = kept
    BY <1>1, <2>1
  <2>3. Screens!Return(w)
    BY <2>1, <2>2 DEF Screens!Return
  <2> QED BY <2>3 DEF Screens!Next
<1>4. CASE /\ Keeps(w) \/ Drops(w) \/ Skips(w)
           /\ UNCHANGED <<opinions, readings>>
  <2>1. NextIteration(w) /\ pc[w] # "done" /\ sheet[w] <= Len(Book[w])
    <3>1. ASSUME Keeps(w) \/ Drops(w)
          PROVE  NextIteration(w) /\ pc[w] # "done" /\ sheet[w] \in Tabular(w)
      BY <3>1 DEF IInv, Keeps, Accept, Drops, Dropping, Drop, Placed, Tabled
    <3>2. ASSUME Skips(w)
          PROVE  NextIteration(w) /\ pc[w] # "done" /\ sheet[w] <= Len(Book[w])
      BY <3>2 DEF Skips
    <3> QED BY <1>4, <3>1, <3>2, TabularSheets
  <2>2. sheet' = [sheet EXCEPT ![w] = @ + 1] /\ pc' = [pc EXCEPT ![w] = "next"]
    BY <2>1 DEF NextIteration, Goto
  <2>3. returned' = returned
    BY <1>1, <2>1, <2>2
  <2>4. Screens!GoOn(w)
    BY <1>4, <2>1, <2>2, <2>3 DEF Screens!GoOn
  <2>5. CASE Skips(w)
    <3>1. results' = results /\ dropped' = dropped /\ sheet[w] \notin Tabular(w)
      BY <2>5 DEF Skips, history
    <3>2. kept' = kept
      BY <3>1
    <3>3. Screens!Lose(w) \/ Screens!PassOver(w)
      BY <2>4, <3>1, <3>2 DEF Screens!Lose, Screens!PassOver
    <3> QED BY <3>3 DEF Screens!Next
  <2>6. CASE Drops(w)
    <3>1. PICK kind \in {"early", "validated"} : \E subject : Dropping(w, kind, subject)
      BY <2>6 DEF Drops
    <3>2. PICK subject : Dropping(w, kind, subject)
      BY <3>1
    <3> DEFINE d == [worker |-> w, sheet |-> sheet[w], kind |-> kind, subject |-> subject]
    <3>3. /\ dropped' = dropped \cup {d} /\ results' = results
          /\ \E o \in opinions : Backs(o, d)
      BY <3>2 DEF Dropping, Drop
    <3>4. kept' = kept
      BY <3>3
    <3>5. d.worker = w /\ d.sheet = sheet[w]
      OBVIOUS
    <3> HIDE DEF d
    <3>6. sheet[w] \in Tabular(w)
      BY <2>6 DEF IInv, Placed, Drops
    <3>7. \A o : Backs(o, d) => Screens!Backs(o, d)
      BY DEF Backs, Accepts, SurelyNot, Screens!Backs, Screens!Accepts, Screens!SurelyNot
    <3>8. Screens!LeaveOut(w)
      BY <2>4, <3>3, <3>4, <3>5, <3>6, <3>7 DEF Screens!LeaveOut
    <3> QED BY <3>8 DEF Screens!Next
  <2>7. CASE Keeps(w)
    <3> DEFINE item == [sheet |-> sheet[w], table |-> table[w]]
               n == Len(results[w])
    <3>1. /\ dropped' = dropped /\ pc[w] \in Tabled
          /\ results' = [results EXCEPT ![w] = Append(@, item)]
      BY <2>7 DEF Keeps, Accept
    <3>2. results \in [Workers -> Seq([sheet : Nat, table : Tables])]
      BY DEF IInv, Shape
    <3>3. sheet[w] \in Tabular(w)
      BY <3>1, TableInHand DEF IInv
    <3>4. /\ results'[w] = Append(results[w], item)
          /\ \A x \in Workers \ {w} : results'[x] = results[x]
      BY <3>1, <3>2
    <3>5. /\ n \in Nat /\ DOMAIN results[w] = 1 .. n
          /\ DOMAIN results'[w] = 1 .. n + 1 /\ results'[w][n + 1] = item
          /\ \A i \in 1 .. n : results'[w][i] = results[w][i]
      BY <3>2, <3>4
    <3>6. kept[w] \in Seq(Nat) /\ Len(kept[w]) = n
      <4>1. kept[w] = [i \in 1 .. n |-> results[w][i].sheet]
        BY <3>5
      <4>2. \A i \in 1 .. n : results[w][i].sheet \in Nat
        <5> DEFINE Item == [sheet : Nat, table : Tables]
        <5>1. results[w] \in Seq(Item)
          BY <3>2
        <5>2. \A e \in Item : e.sheet \in Nat
          OBVIOUS
        <5> HIDE DEF Item
        <5>3. \A i \in 1 .. Len(results[w]) : results[w][i] \in Item
          BY <5>1, ElementOfSeq
        <5> QED BY <5>2, <5>3
      <4>3. n \in Nat
        BY <3>5
      <4> HIDE DEF kept, n
      <4>4. kept[w] \in [1 .. n -> Nat]
        BY <4>1, <4>2
      <4>5. kept[w] \in Seq(Nat)
        BY <4>3, <4>4, SeqDef
      <4> QED BY <4>3, <4>4, <4>5
    <3>7. kept'[w] = Append(kept[w], sheet[w])
      <4>1. kept'[w] = [i \in 1 .. n + 1 |-> results'[w][i].sheet]
        BY <3>5
      <4>2. kept[w] = [i \in 1 .. n |-> results[w][i].sheet]
        BY <3>5
      <4>3. item.sheet = sheet[w]
        OBVIOUS
      <4> HIDE DEF kept, n, item
      <4>4. Append(kept[w], sheet[w])
              = [i \in 1 .. n + 1 |-> IF i = n + 1 THEN sheet[w] ELSE kept[w][i]]
        BY <3>5, <3>6
      <4>5. \A i \in 1 .. n + 1 :
              results'[w][i].sheet = IF i = n + 1 THEN sheet[w] ELSE kept[w][i]
        <5> SUFFICES ASSUME NEW i \in 1 .. n + 1
                     PROVE  results'[w][i].sheet = IF i = n + 1 THEN sheet[w] ELSE kept[w][i]
          OBVIOUS
        <5>1. CASE i = n + 1
          BY <3>5, <4>3, <5>1
        <5>2. CASE i # n + 1
          <6>1. i \in 1 .. n
            BY <3>5, <5>2
          <6> QED BY <3>5, <4>2, <5>2, <6>1
        <5> QED BY <5>1, <5>2
      <4> QED BY <4>1, <4>4, <4>5
    <3>8. \A x \in Workers \ {w} : kept'[x] = kept[x]
      BY <3>4
    <3>9. kept' = [kept EXCEPT ![w] = Append(@, sheet[w])]
      <4>1. kept' = [x \in Workers |-> kept'[x]] /\ kept = [x \in Workers |-> kept[x]]
        OBVIOUS
      <4> HIDE DEF kept
      <4> QED BY <3>7, <3>8, <4>1
    <3>10. Screens!Keep(w)
      BY <2>4, <3>1, <3>3, <3>9 DEF Screens!Keep
    <3> QED BY <3>10 DEF Screens!Next
  <2> QED BY <1>4, <2>5, <2>6, <2>7
<1> QED BY <1>2, <1>3, <1>4, Moves

\* parse() implements Screening: its caches, defaults and failures are invisible
\* to a caller that relies on no more than that promise.
THEOREM ParseScreens == Spec => KeepsScreening
<1>1. Init => Screens!Init
  <2> SUFFICES ASSUME Init PROVE Screens!Init
    OBVIOUS
  <2>1. sheet = [w \in Workers |-> 1] /\ dropped = {} /\ opinions = {}
    BY DEF Init
  <2>2. [w \in Workers |-> [i \in DOMAIN results[w] |-> results[w][i].sheet]]
          = [w \in Workers |-> <<>>]
    <3>1. \A w \in Workers : results[w] = <<>>
      BY DEF Init
    <3>2. \A w \in Workers : [i \in DOMAIN results[w] |-> results[w][i].sheet] = <<>>
      BY <3>1
    <3> QED BY <3>2
  <2>3. {w \in Workers : pc[w] = "done"} = {}
    BY DEF Init
  <2> QED BY <2>1, <2>2, <2>3 DEF Screens!Init
<1>2. IInv /\ [Next]_vars => [Screens!Next]_(Screens!vars)
  <2>1. ASSUME IInv, Next PROVE Screens!Next
    BY <2>1, MovesScreen DEF Next
  <2>2. ASSUME UNCHANGED vars PROVE UNCHANGED Screens!vars
    <3>1. UNCHANGED <<pc, sheet, results, opinions, dropped>>
      BY <2>2 DEF vars
    <3> QED BY <3>1 DEF Screens!vars
  <2> QED BY <2>1, <2>2
<1> QED BY <1>1, <1>2, InvariantHolds, PTL DEF Spec, KeepsScreening, Screens!Spec
=============================================================================
