----------------------------- MODULE ExcelParse -----------------------------
(***************************************************************************)
(* parse() (parse.go:648-901) with isProductTableWithBoundaries             *)
(* (parse.go:553-638), run by several goroutines at once.                   *)
(*                                                                          *)
(* Every sheet of a workbook is decided in turn: it is accepted into the    *)
(* results, or left out.  Each Redis command and each GPT call is one step, *)
(* so that other goroutines may act between any two of them.  The advanced  *)
(* cache is the promise of VerdictCache, which AdvancedCache implements;    *)
(* the legacy cache and the analysis cache are plain GET and SET, and any   *)
(* GET may miss (expiry, eviction, failure), any SET may fail.              *)
(*                                                                          *)
(* What GPT may answer is a constant, so that one run explores every answer *)
(* and another the answers of one opinion.                                  *)
(***************************************************************************)
EXTENDS SheetGrid, Opinions

CONSTANTS
    Workers,             \* goroutines, each parsing one workbook
    Book,                \* the sheets of each worker's workbook
    Unreadable,          \* per worker: the sheets that excelize fails to read
    AnalysisAnswers(_),  \* what GPT may say of these row texts
    VerdictAnswers(_, _),   \* what GPT may say of a header and sample rows
    GptMayFail,          \* whether a call may end without a usable answer
    Miss, NoTable, NoVerdict   \* sentinels

ASSUME FailureAssumption == GptMayFail \in BOOLEAN

ASSUME BookAssumption ==
    Book \in [Workers -> Seq([rows   : Seq(Seq(Cells)),
                             merges : Seq([reference : Cells, text : Cells])])]

ASSUME UnreadableAssumption == Unreadable \in [Workers -> SUBSET Nat]

VARIABLES
    pc,        \* per worker: the call it makes next
    sheet,     \* per worker: the sheet it is at
    table,     \* per worker: the table it has read from the sheet
    answer,    \* per worker: the GPT answer it is about to cache
    results,   \* per worker: what parse() will return
    analyses,  \* the analysis cache: [texts, answer] pairs, one per texts
    legacy,    \* the legacy cache: [key, verdict] pairs, one per key
    issued,    \* the advanced cache, as VerdictCache keeps it
    opinions,  \* history: every verdict GPT gave, with what it was about
    readings,  \* history: every analysis GPT gave, with what it was about
    dropped    \* history: per worker, what it left out and where it decided to

vars == <<pc, sheet, table, answer, results, analyses, legacy, issued,
          opinions, readings, dropped>>

caches  == <<analyses, legacy, issued>>
history == <<opinions, readings, dropped>>

\* Time does not pass here: expiry is one of the reasons for a miss.
VC == INSTANCE VerdictCache
        WITH Ids <- {}, Verdicts <- {}, Horizon <- 1, Nothing <- Miss,
             MaxClock <- 0, clock <- 0, served <- Miss

Calls == {"next", "early", "earlyLegacy", "analysis", "askAnalysis",
          "saveAnalysis", "advanced", "legacy", "askVerdict", "saveLegacy",
          "saveAdvanced", "done"}

-----------------------------------------------------------------------------
\* The entries of a plain cache, at most one for a key.
Found(cache, k) == {e \in cache : e.key = k}

Put(cache, k, v) ==
    {e \in cache : e.key # k} \cup {[key |-> k, value |-> v]}

Grids == [w \in Workers |-> [s \in DOMAIN Book[w] |-> FilledGrid(Book[w][s])]]

\* The sheets that can be read and that a table starts in.
Tabular(w) ==
    {s \in DOMAIN Book[w] : s \notin Unreadable[w] /\ StartRow(Grids[w][s]) # NoRow}

\* What parse() makes of a sheet on its own: the rows GPT is shown and their
\* numbers, what the validation caches are asked before the header is known,
\* the table for each header row and start of the data, and the fallback.
Readout(g) ==
    [start    |-> StartRow(g),
     indices  |-> RowIndices(g),
     texts    |-> RowTexts(g),
     early    |-> [id  |-> AdvancedId(HeuristicHeaders(g), StartRow(g)),
                   key |-> LegacyKey(HeuristicHeaders(g), HeuristicSampleRows(g))],
     table    |-> [h \in DOMAIN g |-> [d \in DOMAIN g |-> AnalysedTable(g, h, d)]],
     fallback |-> FallbackTable(g)]

Readouts == [w \in Workers |-> [s \in Tabular(w) |-> Readout(Grids[w][s])]]

\* The same of the sheet that w is at.
Sheet(w) == Readouts[w][sheet[w]]

\* Whether GPT's row numbers can be used: both among the rows it was shown,
\* and the data below the header.
UsableInAnyOrder(a, texts) ==
    a.header \in DOMAIN texts /\ a.data \in DOMAIN texts

Usable(a, texts) ==
    /\ a.header \in DOMAIN texts
    /\ a.data \in DOMAIN texts
    /\ a.data > a.header

TableOfUnmapped(r, a) ==
    IF Usable(a, r.texts)
      THEN r.table[r.start + a.header - 1][r.start + a.data - 1]
      ELSE r.fallback

\* The table to validate, once the analysis is known.
TableOf(r, a) ==
    IF Usable(a, r.texts)
      THEN r.table[r.indices[a.header]][r.indices[a.data]]
      ELSE r.fallback

\* What the two caches know a table by: its header and row, and its legacy key.
SubjectOf(t) ==
    [id  |-> AdvancedId(t.header, t.top),
     key |-> LegacyKey(t.header, SampleRows(t))]

Subject(w) == SubjectOf(table[w])

\* What GPT may say of table t: it is shown the header and the sample rows.
VerdictsOn(t) == Verdict \cap VerdictAnswers(t.header, SampleRows(t))

-----------------------------------------------------------------------------
Init ==
    /\ pc = [w \in Workers |-> "next"]
    /\ sheet = [w \in Workers |-> 1]
    /\ table = [w \in Workers |-> NoTable]
    /\ answer = [w \in Workers |-> NoVerdict]
    /\ results = [w \in Workers |-> <<>>]
    /\ analyses = {} /\ legacy = {} /\ issued = {}
    /\ opinions = {} /\ readings = {} /\ dropped = {}

Goto(w, call) == pc' = [pc EXCEPT ![w] = call]

NextIterationForgetful(w) ==
    /\ Goto(w, "next")
    /\ table' = [table EXCEPT ![w] = NoTable]
    /\ answer' = [answer EXCEPT ![w] = NoVerdict]
    /\ UNCHANGED sheet

\* Done with this sheet: the locals of the loop body are gone.
NextIteration(w) ==
    /\ Goto(w, "next")
    /\ sheet' = [sheet EXCEPT ![w] = @ + 1]
    /\ table' = [table EXCEPT ![w] = NoTable]
    /\ answer' = [answer EXCEPT ![w] = NoVerdict]

Accept(w) ==
    /\ results' = [results EXCEPT ![w] = Append(@, [sheet |-> sheet[w], table |-> table[w]])]
    /\ NextIteration(w)
    /\ UNCHANGED dropped

\* kind is "early" where only the start row was known, and "validated" after
\* the whole analysis; subject is what the verdict was looked up by.
Drop(w, kind, subject) ==
    /\ dropped' = dropped \cup
         {[worker |-> w, sheet |-> sheet[w], kind |-> kind, subject |-> subject]}
    /\ NextIteration(w)
    /\ UNCHANGED results

Decide(w, accepted) ==
    IF accepted THEN Accept(w) ELSE Drop(w, "validated", Subject(w))

\* On to validation with table t.
Validate(w, t) ==
    /\ Goto(w, "advanced")
    /\ table' = [table EXCEPT ![w] = t]

-----------------------------------------------------------------------------
\* The last sheet is behind: parse() returns.
Return(w) ==
    /\ pc[w] = "next"
    /\ sheet[w] > Len(Book[w])
    /\ Goto(w, "done")
    /\ UNCHANGED <<sheet, table, answer, results, caches, history>>

\* getFilledGrid returns an error: the sheet is gone, whatever stands in it.
SkipUnreadable(w) ==
    /\ pc[w] = "next"
    /\ sheet[w] <= Len(Book[w])
    /\ sheet[w] \in Unreadable[w]
    /\ NextIteration(w)
    /\ UNCHANGED <<results, caches, history>>

\* An empty sheet (an empty grid) and one without a start row are passed over.
SkipEmpty(w) ==
    /\ pc[w] = "next"
    /\ sheet[w] <= Len(Book[w])
    /\ sheet[w] \notin Tabular(w) \cup Unreadable[w]
    /\ NextIteration(w)
    /\ UNCHANGED <<results, caches, history>>

OpenSheet(w) ==
    /\ pc[w] = "next"
    /\ sheet[w] <= Len(Book[w])
    /\ sheet[w] \in Tabular(w)
    /\ Goto(w, "early")
    /\ UNCHANGED <<sheet, table, answer, results, caches, history>>

\* No early verdict, or one that does not settle the matter.
AfterEarlyCheck(w) ==
    /\ IF Len(Sheet(w).texts) < 2
         THEN Validate(w, Sheet(w).fallback)
         ELSE Goto(w, "analysis") /\ UNCHANGED table
    /\ UNCHANGED <<sheet, answer, results, dropped>>

\* Only a sure "no" settles it.
EarlyVerdict(w, v) ==
    IF SurelyNot(v) THEN Drop(w, "early", Sheet(w).early) ELSE AfterEarlyCheck(w)

EarlyAdvancedAnyHash(w) ==
    /\ pc[w] = "early"
    /\ \E a \in {e \in issued : e.id.start = Sheet(w).early.id.start} \cup {Miss} :
          IF a = Miss
            THEN /\ Goto(w, "earlyLegacy")
                 /\ UNCHANGED <<sheet, table, answer, results, dropped>>
            ELSE EarlyVerdict(w, a.verdict)
    /\ UNCHANGED <<caches, opinions, readings>>

\* The early check of the advanced cache, with the start row as the header.
EarlyAdvanced(w) ==
    /\ pc[w] = "early"
    /\ \E a \in VC!Answers(Sheet(w).early.id) :
          IF a = Miss
            THEN /\ Goto(w, "earlyLegacy")
                 /\ UNCHANGED <<sheet, table, answer, results, dropped>>
            ELSE EarlyVerdict(w, a.verdict)
    /\ UNCHANGED <<caches, opinions, readings>>

\* The early check of the legacy cache.
EarlyLegacyHit(w) ==
    /\ pc[w] = "earlyLegacy"
    /\ \E e \in Found(legacy, Sheet(w).early.key) : EarlyVerdict(w, e.value)
    /\ UNCHANGED <<caches, opinions, readings>>

EarlyLegacyMiss(w) ==
    /\ pc[w] = "earlyLegacy"
    /\ AfterEarlyCheck(w)
    /\ UNCHANGED <<caches, opinions, readings>>

AnalysisHit(w) ==
    /\ pc[w] = "analysis"
    /\ \E e \in Found(analyses, Sheet(w).texts) :
          Validate(w, TableOf(Sheet(w), e.value))
    /\ UNCHANGED <<sheet, answer, results, caches, history>>

AnalysisMiss(w) ==
    /\ pc[w] = "analysis"
    /\ Goto(w, "askAnalysis")
    /\ UNCHANGED <<sheet, table, answer, results, caches, history>>

\* External: GPT says which rows are the header and the start of the data.
AnalysisAnswered(w) ==
    /\ pc[w] = "askAnalysis"
    /\ LET texts == Sheet(w).texts
       IN  \E a \in AnalysisAnswers(texts) :
             /\ answer' = [answer EXCEPT ![w] = a]
             /\ readings' = readings \cup {[texts |-> texts, answer |-> a]}
    /\ Goto(w, "saveAnalysis")
    /\ UNCHANGED <<sheet, table, results, caches, opinions, dropped>>

\* The call fails, or its answer does not parse: one header row is assumed.
AnalysisFailed(w) ==
    /\ pc[w] = "askAnalysis"
    /\ GptMayFail
    /\ Validate(w, Sheet(w).fallback)
    /\ UNCHANGED <<sheet, answer, results, caches, history>>

\* setCachedHeaderAnalysis comes before the row numbers are checked.
SaveAnalysis(w) ==
    /\ pc[w] = "saveAnalysis"
    /\ \/ analyses' = Put(analyses, Sheet(w).texts, answer[w])
       \/ UNCHANGED analyses
    /\ Validate(w, TableOf(Sheet(w), answer[w]))
    /\ answer' = [answer EXCEPT ![w] = NoVerdict]
    /\ UNCHANGED <<sheet, results, legacy, issued, history>>

\* isProductTableWithBoundaries: the advanced cache,
LookupAdvanced(w) ==
    /\ pc[w] = "advanced"
    /\ \E a \in VC!Answers(Subject(w).id) :
          IF a = Miss
            THEN /\ Goto(w, "legacy")
                 /\ UNCHANGED <<sheet, table, answer, results, dropped>>
            ELSE Decide(w, Accepts(a.verdict))
    /\ UNCHANGED <<caches, opinions, readings>>

\* then the legacy cache,
LookupLegacyHit(w) ==
    /\ pc[w] = "legacy"
    /\ \E e \in Found(legacy, Subject(w).key) : Decide(w, Accepts(e.value))
    /\ UNCHANGED <<caches, opinions, readings>>

LookupLegacyMiss(w) ==
    /\ pc[w] = "legacy"
    /\ Goto(w, "askVerdict")
    /\ UNCHANGED <<sheet, table, answer, results, caches, history>>

\* then GPT (external).
VerdictAnswered(w) ==
    /\ pc[w] = "askVerdict"
    /\ \E v \in VerdictsOn(table[w]) :
          /\ answer' = [answer EXCEPT ![w] = v]
          /\ opinions' = opinions \cup
               {[subject |-> Subject(w), verdict |-> v]}
    /\ Goto(w, "saveLegacy")
    /\ UNCHANGED <<sheet, table, results, caches, readings, dropped>>

VerdictFailedCached(w) ==
    /\ pc[w] = "askVerdict"
    /\ GptMayFail
    /\ answer' = [answer EXCEPT ![w] = [product |-> TRUE, sure |-> TRUE]]
    /\ Goto(w, "saveLegacy")
    /\ UNCHANGED <<sheet, table, results, caches, history>>

VerdictFailedSilent(w) ==
    /\ pc[w] = "askVerdict"
    /\ GptMayFail
    /\ NextIteration(w)
    /\ UNCHANGED <<results, caches, history>>

\* No answer, or none that parses, accepts the table and caches nothing.
VerdictFailed(w) ==
    /\ pc[w] = "askVerdict"
    /\ GptMayFail
    /\ Accept(w)
    /\ UNCHANGED <<caches, opinions, readings>>

SaveLegacy(w) ==
    /\ pc[w] = "saveLegacy"
    /\ \/ legacy' = Put(legacy, Subject(w).key, answer[w])
       \/ UNCHANGED legacy
    /\ Goto(w, "saveAdvanced")
    /\ UNCHANGED <<sheet, table, answer, results, analyses, issued, history>>

SaveAdvanced(w) ==
    /\ pc[w] = "saveAdvanced"
    /\ \/ VC!Record(Subject(w).id, answer[w])
       \/ UNCHANGED issued
    /\ Decide(w, Accepts(answer[w]))
    /\ UNCHANGED <<analyses, legacy, opinions, readings>>

-----------------------------------------------------------------------------
\* The steps that do not wait for GPT: Redis calls have timeouts, calls to GPT
\* are made with context.Background() and none.
OwnStep(w) ==
    \/ Return(w) \/ SkipUnreadable(w) \/ SkipEmpty(w) \/ OpenSheet(w)
    \/ EarlyAdvanced(w) \/ EarlyLegacyHit(w) \/ EarlyLegacyMiss(w)
    \/ AnalysisHit(w) \/ AnalysisMiss(w) \/ SaveAnalysis(w)
    \/ LookupAdvanced(w) \/ LookupLegacyHit(w) \/ LookupLegacyMiss(w)
    \/ SaveLegacy(w) \/ SaveAdvanced(w)

GptStep(w) ==
    \/ AnalysisAnswered(w) \/ AnalysisFailed(w)
    \/ VerdictAnswered(w) \/ VerdictFailed(w)

Next == \E w \in Workers : OwnStep(w) \/ GptStep(w)

Spec == Init /\ [][Next]_vars

FairSpec == Spec /\ \A w \in Workers : WF_vars(OwnStep(w))
-----------------------------------------------------------------------------
TypeOK ==
    /\ pc \in [Workers -> Calls]
    /\ \A w \in Workers :
         /\ sheet[w] \in 1 .. Len(Book[w]) + 1
         /\ table[w] = NoTable \/ table[w].top \in DOMAIN Grids[w][sheet[w]]
         /\ pc[w] \in {"saveLegacy", "saveAdvanced"} => answer[w] \in Verdict
         /\ pc[w] = "saveAnalysis" => answer[w] \in AnalysisAnswers(Sheet(w).texts)
         /\ Len(results[w]) < sheet[w]
    /\ \A e \in legacy : e.value \in Verdict
    /\ \A e \in issued \cup opinions : e.verdict \in Verdict
    /\ \A d \in dropped : d.worker \in Workers /\ d.kind \in {"early", "validated"}

\* A table that was read is left out only on an opinion GPT once gave, on one with
\* the very same header, and in the same rows or with the same kinds of data: no
\* failure, default, eviction or interleaving drops a table (the defaults of
\* parse.go:612 and 637), and an early drop rests on a sure "no" (:699, :716).
JustifiedDrops ==
    \A d \in dropped : \E o \in opinions : Backs(o, d)

\* parse() keeps the promise of Screening to its callers: with all its caches and
\* with every failure it is a pass over the sheets that leaves out only what GPT
\* had already given a reason to when it was left out.
Screens == INSTANCE Screening
             WITH Length    <- [w \in Workers |-> Len(Book[w])],
                  WithTable <- [w \in Workers |-> Tabular(w)],
                  Unreadable <- Unreadable,
                  position  <- sheet,
                  kept      <- [w \in Workers |->
                                  [i \in DOMAIN results[w] |-> results[w][i].sheet]],
                  returned  <- {w \in Workers : pc[w] = "done"}

KeepsScreening == Screens!Spec

\* Both validation caches hold nothing but opinions of GPT: the acceptance that
\* a failed call defaults to is never remembered for the next 30 days.
CachedAreOpinions ==
    /\ \A e \in legacy : \E o \in opinions :
          o.subject.key = e.key /\ o.verdict = e.value
    /\ \A e \in issued : \E o \in opinions :
          o.subject.id = e.id /\ o.verdict = e.verdict

\* In every table returned the header lies above the data, and each of its
\* cells comes from its own column between the header row and the data, even
\* when GPT's row numbers, fresh or from the cache, make no sense (parse.go:850).
HeaderAboveData ==
    \A w \in Workers : \A i \in DOMAIN results[w] :
        LET g == Grids[w][results[w][i].sheet]
            t == results[w][i].table
        IN  /\ StartRow(g) <= t.top /\ t.top < t.from
            /\ \A c \in DOMAIN t.header :
                  t.header[c] \in {Blank} \cup {g[r][c] : r \in t.top .. t.from - 1}

\* A column that is plainly named in its header row keeps that name, whatever
\* stands between the header and the data: the search for a better one
\* (parse.go:999) ends with a cell of a strictly higher score, or with none.
PlainNamesKept ==
    \A w \in Workers : \A i \in DOMAIN results[w] :
        LET g == Grids[w][results[w][i].sheet]
            t == results[w][i].table
        IN  \A c \in DOMAIN t.header :
              g[t.top][c] # Blank /\ IsPlainName(TextOf(g[t.top][c])) =>
                 t.header[c] = g[t.top][c]

\* The rows of a table that is not the fallback are those GPT pointed at when
\* it was shown the same texts, perhaps in another sheet whose blank rows lie
\* elsewhere (rowIndices, parse.go:729 and 854).
AnalysisTransfers ==
    \A w \in Workers : \A i \in DOMAIN results[w] :
        LET g == Grids[w][results[w][i].sheet]
            t == results[w][i].table
        IN  \/ t = FallbackTable(g)
            \/ \E r \in readings :
                  /\ r.texts = RowTexts(g)
                  /\ RowText(g[t.top]) = r.texts[r.answer.header]
                  /\ RowText(g[t.from]) = r.texts[r.answer.data]

\* When parse() returns, every sheet that could be read and has a table in it was
\* decided exactly once: it is among the results, in workbook order, or left out.
SheetsAccountedFor ==
    \A w \in Workers : pc[w] = "done" =>
        LET kept == {results[w][i].sheet : i \in DOMAIN results[w]}
            gone == {d.sheet : d \in {x \in dropped : x.worker = w}}
        IN  /\ kept \cup gone = Tabular(w)
            /\ kept \cap gone = {}
            /\ \A i, j \in DOMAIN results[w] :
                  i < j => results[w][i].sheet < results[w][j].sheet

-----------------------------------------------------------------------------
\* What parse() makes of a sheet without any cache, where GPT always gives the
\* same answer to the same question.
UncachedTable(r) ==
    IF Len(r.texts) < 2
      THEN r.fallback
      ELSE TableOf(r, CHOOSE a \in AnalysisAnswers(r.texts) : TRUE)

Wanted(r) == \A v \in VerdictsOn(UncachedTable(r)) : Accepts(v)

\* Caching and concurrency are invisible: parse() returns the tables it would
\* return alone and without caches.  "This avoids GPT calls for structure
\* analysis when we already know the answer" (parse.go:686).
Transparent ==
    \A w \in Workers : pc[w] = "done" =>
        LET wanted == Ascending({s \in Tabular(w) : Wanted(Readouts[w][s])})
        IN  results[w] = [i \in DOMAIN wanted |->
               [sheet |-> wanted[i], table |-> UncachedTable(Readouts[w][wanted[i]])]]

\* What it rests on.  First: GPT answers, and always gives the same answer to the
\* same question: to the same row texts, the same header and sample rows.
OneOpinion ==
    /\ ~GptMayFail
    /\ \A w \in Workers : \A s \in Tabular(w) :
         LET r == Readouts[w][s]
         IN  /\ \A a, b \in AnalysisAnswers(r.texts) : a = b
             /\ \A u, v \in VerdictsOn(UncachedTable(r)) : u = v

\* The caches take one subject for the other: it has the same identity in the
\* advanced cache, or the same key in the legacy cache.
SameToCaches(a, b) == a.id = b.id \/ a.key = b.key

\* Second: what the caches do not tell apart, GPT does not either.  The advanced
\* cache knows a table by its header and row, the legacy cache by its header and
\* the kinds of some cells, while GPT is shown the data itself (parse.go:576).
ToldApart(r, q) ==
    SameToCaches(SubjectOf(UncachedTable(r)), SubjectOf(UncachedTable(q))) =>
        VerdictsOn(UncachedTable(r)) = VerdictsOn(UncachedTable(q))

KeysSuffice ==
    \A w, x \in Workers : \A s \in Tabular(w), z \in Tabular(x) :
        ToldApart(Readouts[w][s], Readouts[x][z])

\* Third: a start row that the caches take for the header of a table GPT surely
\* does not want stands above no table that it wants: the start row is all the
\* early check goes by.
SettledEarly(r, q) ==
    /\ SameToCaches(r.early, SubjectOf(UncachedTable(q)))
    /\ \E v \in VerdictsOn(UncachedTable(q)) : SurelyNot(v)
    => ~Wanted(r)

Settled ==
    \A w, x \in Workers : \A s \in Tabular(w), z \in Tabular(x) :
        SettledEarly(Readouts[w][s], Readouts[x][z])

\* Every parse() comes to its end or waits for GPT: nothing but a call to GPT
\* can hold it up, and no sheet is looked at for ever.
EndsOrWaitsForGpt ==
    \A w \in Workers : <>[](pc[w] \in {"done", "askAnalysis", "askVerdict"})
=============================================================================
