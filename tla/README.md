# A TLA+ model of the excel parsing service

The service takes a supplier's price list as an Excel workbook (`POST /manual-upload`),
finds the product tables in its sheets, names their columns after product fields and
tells the Laravel application what it learned. Two things make it more than a
pipeline: every decision is bought from GPT and therefore cached in Redis, in three
caches with three keys, and several uploads run at once against the same Redis and the
same Laravel without a lock anywhere.

Paths are relative to `src/internal/`; `parse.go` is
`app/excel-parser/service/parse.go`.

## 1. Inventory

| component | code | state | operations | interacts with |
|---|---|---|---|---|
| advanced validation cache | parse.go 38-47, 132-316 | per first header, a JSON list of verdicts in Redis, TTL 30 days | lookup (GET), store (GET, change in memory, SET) | parse, Redis |
| legacy validation cache | parse.go 94-130, 413-469 | a verdict per header and kinds of data | GET, SET | parse, Redis |
| header analysis cache | parse.go 86-92, 471-530 | an analysis per list of row texts | GET, SET | parse, Redis |
| sheet reading, table building | parse.go 365-411, 667-737, 903-1067 | none | filling merged cells, start row, window, header and rows of a table | parse |
| header quality, data kinds | parse.go 316-363, 1076-1192 | none | classification of strings | table building, legacy key |
| parse, isProductTableWithBoundaries | parse.go 546-901 | the loop over the sheets | decide a sheet | the caches, GPT |
| upload handler | app/excel-parser/transports/http | the mappings read at the start | manualUpload | parse, mapping, Laravel |
| field mapping | app/mapping/general, app/mapping/header | the answers collected so far | MapProductFields, BuildProductFieldsMappingExcept, callModel | GPT, Laravel |
| Laravel client | clients/laravel | none here; mappings and jobs in Laravel | GetProductMappings, CreateProductMappings, MarkJob... | Laravel |
| start-up suite | bootstrap/test-app.go | result files and converted workbooks on disk | runAll, run | parse, LibreOffice, disk |
| start-up, HTTP server | bootstrap/start.go, app.go, transports/http | whether the server is up | Run, MustStart | the suite, fx |
| semantic search | app/semantic-search | none, no caller | search, index | OpenSearch, OpenAI |
| configuration, other transports, tools | config, transports/amqp, transports/grpc, infra, ../cmd | none | constructors | |

What is hard in it:

- **Read-modify-write without a lock.** A store into the advanced cache is two Redis
  commands; anything may happen between them.
- **Fallbacks everywhere.** A failed GET is a miss, a failed SET is ignored, a failed
  analysis falls back to one header row, a failed validation accepts the table. Each is
  reasonable; what they leave behind in the caches for 30 days is the question.
- **Keys coarser than the question.** GPT is shown the header and sample rows; the caches
  know a table by its header and row, or by its header and the kinds of a few cells.
- **Three notions of "the same table"**: exact header hash and rows (advanced), header
  and kinds of data (legacy), texts of the first ten rows (analysis); and an early
  check that uses the first two before the header is known.
- **Two numberings of rows**: GPT's (non-blank rows of the window) and the sheet's.
- **Two comparisons of headers**: in lower case and exactly.
- **Snapshots**: mappings read once per upload, while uploads create new ones.
- **A call that may never return**: GPT is called without a timeout in parse.go, with
  25 seconds in header-mapping.service.go; Laravel with 30 seconds.
- **Work before the server is up**: the suite converts, parses and writes files while
  the application is built. It panics on every error, its files are written in place, and
  the next start trusts any file that has the right name.

What makes each part correct:

- *Advanced cache*: an answer is a verdict once stored for exactly this table, not too
  old; lists stay bounded and hold one verdict per table; a store does not cost another
  table its verdict.
- *parse*: every sheet is decided exactly once; nothing is left out without an opinion
  of GPT; no failure is remembered; tables consist of the rows GPT meant; caches change
  no result, as far as their keys tell apart what GPT would.
- *Table building*: a header cell comes from its own column above the data, and a column
  with a plain name keeps it.
- *Start-up*: a crash costs at most the file it hit, no result is paid for twice without a
  fault, and the server comes up unless something named keeps it from doing so.
- *Upload and mapping*: every unknown header is asked about, no known one; known
  mappings win over all but what the model says unasked; a mapping is written over another one
  only in a race; nothing is used that Laravel did not acknowledge; the upload ends.

The full list of hazards, each at its line with the properties that cover it, is
`hazards` in PROJECT.json.

## 2. Modules

`A <- B` reads: B extends A.

```
VerdictLists  <-  AdvancedCache  <-  MCAdvancedCache
     ^ ^               |   ^--------  AdvancedCacheProofs
     | |               | implements
     | |               v
     | |          VerdictCache
     | |               ^ used by INSTANCE
     | '-- StoreLoops  |              <-  MCStoreLoops, StoreLoopsProofs
     '---- VerdictListsProofs         <-  AdvancedCacheProofs, StoreLoopsProofs
                       |
HeaderQuality <- SheetGrid <- ExcelParse <- MCExcelParse <- MCTransparency
                     ^   Opinions -'  | ^-- ExcelParseProofs <- TransparencyProofs
                     |      ^         | implements
                     |      '------ Screening
                     '- SheetGridProofs  <-  ExcelParseProofs
ManualUpload  <-  MCManualUpload, ManualUploadProofs
     '- implements Learning
Startup       <-  MCStartup, StartupProofs
```

**VerdictCache** is what the parser may rely on when it asks the advanced cache: a miss,
or a verdict stored for exactly that identity less than `Horizon` ago. It promises
neither that a verdict is found again nor that the newest one is.

**VerdictLists** is the list under one key and what a store makes of it in memory:
`Upsert`, `Fresh` and `Trimmed`, in the code's order. The list is a set: its order matters
only for which entries of equal timestamps survive the cut, and `Trimmed` leaves that open.

**AdvancedCache** is the code behind the promise. `redis[k]` is the list under a
primary key with the time of its SET; `work[c]` is what a goroutine holds between the
GET (`BeginStore`, or `BeginStoreBlind` when the GET fails) and the SET (`FinishStore`,
or `AbandonStore` when the SET fails). The clock counts in a unit of its own; `Live` is the
TTL. `issued` and `served` are history variables. The clock is read for the new entry, for
the cleaning and, by Redis, at the SET: the model takes the time between the three as none, so
that the bound of `AgeBound` is meant up to the latency of one store.

**StoreLoops** is the same store one loop iteration at a time, on sequences: the search for
the entry to replace, the cleaning by age, the exchange sort that swaps in place, and the
cut. Its property `KeepsMostRecent` says that what comes out is one of the lists that
`Trimmed(Fresh(Upsert(...)))` allows; it is the link between the code's list and the set.
`NewSurvives` says what the set leaves open: the entry just stored is appended last and moved
up by strict comparisons only, so it may be cut, but only when everything kept ties with it.

**HeaderQuality** is how the code judges the text of a cell, as a header and as a kind of
data. A text is a record of what the code asks of a string: its length in bytes, its words,
whether it is a number, Latin, punctuated, and so on.

**SheetGrid** holds the pure part of parse(): `FilledGrid` pads the rows and fills merged
cells; a grid is a sequence of rows, numbered from 1 (the code counts from 0). `StartRow`,
`RowIndices`, `RowTexts`, `AnalysedTable`, `FallbackTable`, the heuristic header and sample
rows, and the two cache keys. `AnalysedTable` is what the two nested loops of
buildResultWithIndices compute, stated by what is chosen and not by how it is searched.
A merge is the pair of strings that excelize gives for it: the code fills cells with the
first and parses the second for the range, and so does the model.

**Opinions** is a verdict of GPT, when it accepts and when it settles a matter, and when it
is a reason (`Backs`) for leaving a table out.

**ExcelParse** runs `parse()` in several goroutines. `pc[w]` names the next Redis or GPT
call; everything between two such calls is one step. The advanced cache is taken as
`VerdictCache` (`VC!Answers`, `VC!Record`), the other two as sets of pairs from which a
GET may always miss. Time does not pass: expiry is one of the reasons for a miss, which
is allowed in every state. GPT's verdict may depend on all that the prompt carries, the
header and the sample rows (`VerdictsOn`). A sheet that excelize fails to read (`Unreadable`) is passed over like an empty
one, whatever is in it (`SkipUnreadable`). `opinions`, `readings` and `dropped` are history
variables.

**Screening** is what the caller of parse() may rely on: a pass over the sheets in order
that keeps or leaves out each sheet with a table, leaves out only what GPT has already
given a reason to, and loses those it cannot read. It knows no caches, no failed calls and no
analysis. ExcelParse implements it (`KeepsScreening`): `sheet` is its position, the sheets of `results` are what it kept, and
every step that only reads, caches or waits is a stutter.

**ManualUpload** is the request around it: reading the mappings, the loop over the tables
with MapProductFields inlined, and the end of the job. `stored` and `job` are Laravel's.
A call to Laravel that fails may have been carried out. `todo` is the set of candidate
columns not yet asked about, from which batches are cut from the left; `found` and `latest`
are allMappings as the pairs that are posted and as the map that the result is built from.
The model may answer anything: headers it was not asked about, several rows for one header,
fields that do not exist; AskModel takes it all, as the code does (header-mapping.service.go:141).
The history variable `unasked` records which mappings nobody asked for, with their table, so
that the properties can say what holds of all others and how far these reach.

**Learning** is what an upload promises to Laravel: table by table it teaches Laravel
mappings of this table's headers, and those that the model volunteers (`extra`), at most once
and before the table's result, or gives the table up; a result says of no column what Laravel
would not say; the job is closed behind the last table. It knows no snapshots, batches,
questions or precedence. ManualUpload implements it (`KeepsLearning`): an upload has taught when it is about to build the result; reading,
asking and failed attempts that stored nothing are stutters.

**Startup** is the life of the process up to its first request: fx invokes the suite while
it builds the application, and only then runs the hook that calls Listen. `results` and
`books` are the files on disk, each missing, half-written or whole; `converters` are the
LibreOffice processes, which outlive a kill of their parent. `Panic` is the end of the
process as much as `Kill`; `Launch` starts it again. Kills, failed conversions and failed
writes count as `faults`, of which there are at most `MaxFaults`. What fails at every start is
no fault: `flaw` says of a workbook that LibreOffice will never convert it (or is not
installed), or that excelize will never open it.

The **...Proofs** modules hold the theorems (section 4). Each definition that models code is
listed with its lines under `map` in PROJECT.json.

## 3. Runs

| run | shows | bounds |
|---|---|---|
| AdvancedCacheConcurrent | type, one verdict per table, bounded lists, age bound, refinement of VerdictCache | 2 goroutines, 3 tables under one key (two headers, two positions), lists of 2, `MaxAge` 1 and `TTL` 2, clock to 3, 3 stores |
| AdvancedCacheSequential | no collateral loss, no older verdict | 1 goroutine, the same tables, 2 verdicts, no failing GET |
| AdvancedCacheLostUpdate | **violation**: a lost update | 2 goroutines, 2 tables |
| StoreLoops | the loops of a store stay in the list and compute `Trimmed`, and the new entry survives | every list of up to 3 entries over 4 tables and 4 timestamps, a limit of 3, ages to 2 |
| ExcelParseAnyGpt | right rows and headers, plain names kept, every readable sheet decided once, parse() ends or waits for GPT | 1 goroutine, 5 sheets, one of them unreadable, sensible and senseless answers of GPT, failures |
| ExcelParseInterleaved | drops are justified, caches hold opinions only, refinement of Screening | 2 goroutines, 3 sheets, any verdict, reversed row numbers, failures |
| ExcelParseTransparent | caches and interleavings change no result; that this instance meets the hypotheses of the theorem about it | 2 goroutines with 3 and 4 sheets, one opinion |
| ExcelParseSharedBanner | **violation**: an early verdict about another table | 1 goroutine, 2 sheets |
| ManualUpload | the mapping properties, rewrites are races, refinement of Learning, termination | 2 uploads, one of a supplier and one general, 3 tables of 2 to 5 columns, batches of 2, failures, answers of all kinds |
| Startup | losses are faults, nothing paid for twice, the server comes up or something named keeps it | 3 workbooks, 2 of them to convert, up to 2 flawed, 3 faults |
| ManualUploadOtherCase | **violation**: a known header is not mapped | 1 upload, 2 tables |
| ManualUploadUnasked | **violation**: a known header is written again | 1 upload, 2 tables |

Why the bounds are enough. A list of 2 with 3 tables overflows. With `MaxAge`
1, `TTL` 2 and a clock to 3, an entry can be dropped for its age by a store, vanish with its
list, or be renewed by another store and served at the age of 2, the oldest `AgeBound`
allows; without the cleaning it would be served at 3. 3 stores by 2 goroutines
give every order of two read-modify-writes and a third that sees their outcome. One
primary key suffices since nothing relates two keys (the proofs do not depend on it).
A list of 3 with a new entry sorts 4 elements with ties, so that each pass of the exchange
sort swaps and the cut drops one.

The sheets of ExcelParse are chosen so that the interesting meetings happen: `Airy` and
`AiryTwin` share their row texts but not their row numbers, `AiryTwin` and `Single`
share a header at the same row, `TwoLine` has a gap, a weak header cell, a plain one beside
it, and two merges of which one takes effect, `Note` has no table. The cell strings are
classified as the code classifies them. `MinCells`, `Window`,
`KeyCells` are smaller than in the code (2, 4, 2 for 3, 10, 3) and narrow the tables in
proportion; `BatchSize` is 2 for 120, so that tables need two and three batches.

Three faults in the start-up allow a kill while a converter is writing, a second one while
the next start's converter writes the same file, and a failed write of a result; the
workbook without conversion stands between the other two so that it is seen with and
without faults before and behind it. Two flawed workbooks leave one that works, before,
between or behind them.

The transparent run rests on three conditions, which `MCTransparency` has TLC evaluate for
its workbooks. GPT has one opinion (`OneOpinion`): to the same texts, and to the same header and
sample rows, it always says the same. What the caches do not tell apart, GPT does not either
(`KeysSuffice`): of two tables with one header in one row, or one header and one pattern of
data, it says the same, although it sees their data. And a start row that the caches take
for the header of a table GPT surely does not want stands above no table it wants (`Settled`);
the banner run is what happens otherwise. None of the three is something the code ensures.
`AiryTwin` and `MorePens` share a header and its row but not their data, and GPT wants both, so
that a verdict on the one decides over the other; `ConflatedSheets` has TLC confirm that
`AiryTwin` and `Directory`, which GPT would tell apart, fail `KeysSuffice`, and that the banner
sheets fail `Settled`. `TwoLine` is in both workbooks, so that one goroutine finds the verdict of
the other, drops included.

The answers of the model in the upload runs are few but of every kind that the code treats
differently: two rows for one header (an empty field and one outside the list), valid
mappings in the other spelling with a known header added, and none. A supplier's upload and a
general one run against each other: what the general one posts, the other may have read or
not, and may post itself; and the supplier's second table repeats headers of its first. `MCManualUpload` has TLC confirm that the
hypothesis of the conditional theorem can be met, and that its own instances do not meet it.

The two tables of the first upload have a header that the other lacks, without which a
mapping could leak from one to the next unseen by `KeepsLearning`.

Deadlock checking is off where the system comes to rest: when all workbooks are parsed,
uploads ended, loops ended or the server is up, or when the bounded clock and stores are
used up.

**Fairness.** `ExcelParse!FairSpec` assumes weak fairness of each goroutine's own steps:
the Go scheduler runs every runnable goroutine, and go-redis has timeouts on each command.
It assumes nothing of GPT, which is called with `context.Background()`; hence "ends or
waits for GPT". `ManualUpload!FairSpec` assumes weak fairness of each upload: the HTTP
client has a timeout of 30 seconds and the mapping call one of 25. That parse() returns
is assumed there, under the condition just said. `Startup!FairSpec` assumes that the process goes on, that LibreOffice
does not run for ever, and that somebody starts the process again when it is down: the
last two are assumptions about the outside, without which nothing could be said. Nothing is
assumed of GPT, of Listen, of faults or of the workbooks; hence the four ways `ServesOrIsStuck`
ends: serving, without a server after a failed Listen, waiting for GPT, or restarted for ever
because of the first workbook without a result, which is half-converted, not convertible or no
workbook (`Hopeless`).
AdvancedCache has no liveness property: a cache may always miss.

### What the violations show

1. *Lost update* (parse.go:238-304). Two stores under one key; the later SET erases the
   entry of the earlier one. The comments promise "collision resistance". The price is
   another GPT call, and since the next answer may differ, another outcome.
2. *Shared banner* (parse.go:698). A "no" stored for a table whose header is its start row
   also rejects a product table below the same banner, before GPT has looked at it. The
   comment says the check is for "when we already know the answer".
3. *Other case* (mapping.service.go:117). A header known in another case is neither asked
   about nor found, and its column name is missing from the result.
4. *Unasked mapping* (header-mapping.service.go:141). The model names a known header that it was
   not asked about; it is posted with the field the model gave, and called by that field in
   the result. The plan in mapping.service.go:33 is to write only new headers, which are those
   in neither list of existing mappings, and the comment at 67 says that known ones are skipped.

That mappings go stale while an upload runs is no divergence, since "new" is said of the lists
it was given; what it leads to is `OnlyRacesRewrite`.

What no document promises, and the models show all the same: a half-written .xlsx is taken
for a converted one by every later start, which then panics on it (`SpoiltBooks` in
`ServesOrIsStuck`), one workbook that cannot be converted or opened keeps the server from ever
coming up (`Hopeless`), a sheet that cannot be read is missing from the result without a word to
the caller (`SkipUnreadable`), and a half-written result is taken for a finished one (`LostResults`).

## 4. Proofs

Every theorem holds for all values of the constants under the named assumptions of its
module: goroutines, tables, workbooks, uploads, limits, batch sizes, ages, numbers of
faults, and every answer of GPT.

| module | theorem | property |
|---|---|---|
| AdvancedCacheProofs | TypeCorrect | `[]TypeOK` |
| | ListsHaveOneVerdictPerTable | `[]UniqueIdentity` |
| | ListsAreBounded | `[]BoundedLists` |
| | ServedVerdictsAreYoung | `[]AgeBound` |
| | PromiseKept | the refinement `KeepsPromise` |
| | SingleWriterLosesNothing | `NoCollateralLoss`, with one client and no failing GET |
| | SingleWriterNeverGoesBack | `NoOlderVerdict`, with one client and no failing GET |
| StoreLoopsProofs | TypeCorrect | `[]TypeOK` |
| | LoopsComputeTrimmed | `[]KeepsMostRecent` |
| | StoredSurvives | `[]NewSurvives` |
| ExcelParseProofs | TypeCorrect | `[]TypeOK` |
| | DropsAreJustified | `[]JustifiedDrops` |
| | CachesHoldOpinions | `[]CachedAreOpinions` |
| | HeadersComeFromAbove | `[]HeaderAboveData` |
| | PlainNamesStay | `[]PlainNamesKept` |
| | AnalysesTransfer | `[]AnalysisTransfers` |
| | NoSheetIsLost | `[]SheetsAccountedFor` |
| | ParseScreens | the refinement `KeepsScreening` |
| TransparencyProofs | ParseIsTransparent | `[]Transparent`, with `OneOpinion`, `KeysSuffice` and `Settled` |
| ManualUploadProofs | TypeCorrect | `[]TypeOK` |
| | NoCandidateForgotten | `[]EveryCandidateAsked` |
| | KnownIsNotSent | `[]OnlyUnknownSent` |
| | KnownFieldsStay | `[]KnownFieldsKept` |
| | ResultsAreStored | `[]MappedIsStored` |
| | UploadsLearn | the refinement `KeepsLearning` |
| | KnownAreMapped | `[]KnownHeadersAreMapped`, with `OneSpelling` |
| | RewritesAreRaces | `OnlyRacesRewrite` |
| | EveryStepIsCloser | the variant behind `UploadEnds` |
| StartupProofs | TypeCorrect | `[]TypeOK` |
| | EveryLossIsAFault | `[]LossesAreFaults` |
| | NoSecondPayment | `[]PaidForOnce` |

VerdictListsProofs and SheetGridProofs hold lemmas only.

Four properties do not hold of the code as it is, and four runs violate them. For each of them a
theorem says what is left. Three name the cause, without which the property holds: a second
writer (or a failed GET), a start row above a wanted table that is the header of an unwanted one
(together with what else transparency rests on), a header with two spellings. The fourth,
`OnlyNewWritten`, holds of every mapping that was asked for: that is `KnownIsNotSent`, whatever
the model answers.

**The advanced cache.** `IInv` has to say of the list a goroutine carries between GET and
SET what the properties say of the list in Redis: one verdict per table, finite, bounded,
nothing from the future, nothing that was never issued. `UniqueIdentity` is not inductive
without it, since the SET writes what was read long before. For the age, `IInv` relates an
entry to the SET that wrote it: it was at most `MaxAge` old then, and the list lives for
less than `TTL` after it. The refinement maps `Horizon` to
`MaxAge + TTL` and leaves the variables as they are: `FinishStore` implements `Issue`, the
lookups implement `Serve`, and all else stutters. For the two action properties,
`SnapshotIsList` adds that the list in hand has lost nothing
that is still in Redis, which one writer can keep true (expiry and eviction only
remove). With two writers it is false, and `AdvancedCacheLostUpdate` shows the consequence.

**The loops of a store.** One conjunct of `IInv` for each loop: the search has passed no
entry of the new identity, the cleaning has kept exactly the young ones it has passed, and
the sort has the most recent entries in front, in order, with the one at `i` the greatest of
those compared so far. That sequences without repetitions are as long as their sets are
large turns the cut into the bound of `Trimmed`.

**The sheets.** `AscendingEnumerates` shows by the least counterexample that every finite set
of row numbers has an ascending enumeration, so that `RowIndices` is one. `ScoreBounds`: no
text scores more than 8 and every plain name scores 8, hence the strict comparison of
parse.go:1012 never replaces one (`PlainNameStays`). `HeaderCellFromColumn` says where a header
cell can come from.

**parse().** Every action is one of five moves: working on a sheet, keeping, dropping,
passing over, returning. `IInv` says where a worker can be (`Placed`), what it can have read
(`Read`: a table of its sheet, by an answer GPT gave to these texts), that what it is about to
cache is what GPT just said (`Answered`), that both caches hold opinions and the analysis cache
readings (`Backed`), and that the sheets behind it are exactly those kept, dropped or without
a table (`Decided`). `JustifiedDrops` needs `Backed`: a drop on a cached verdict is justified
only because no default was ever cached. The early drop needs in addition that the header in a
legacy key is the hashed header (`o.subject.key.header = o.subject.id.hash`).

**Transparency.** `Transparent` compares parse() with a run that never takes place, one
without caches and with the opinion that a GPT of one opinion must give. `OneOpinion` says
that GPT does not fail and that every question, of row texts or of a header with its sample
rows, has at most one answer; it is what the property is about, for with two answers nothing
could tell a cache from GPT's change of mind. `KeysSuffice` and `Settled` are explained in
section 3. The invariant `OneMind` says that each table in hand or
among the results is the uncached one, whichever answer, cached answer or default it came
from (`TableIsUncached`), that GPT was asked about such tables only, and that nothing wanted
was left out. A verdict found in either cache was therefore given on an uncached table with
the same key, and by `KeysSuffice` is a verdict on this one (`OneVerdict`). The early drop is where
`Settled` is used (`EarlyNoIsRight`): a verdict found under the start row was given on a
table with this header, and then this sheet's table is not wanted either. Since the sheets are decided
once each and in order, the sheets kept are an ascending list of those wanted, and there is
only one (`OneList`, `AscendingIsTheList`).

**Uploads.** `IInv` is a conjunction over the uploads; the lemma `Frame` shows that a step
of one leaves the invariant of another alone, as it can only add to what Laravel stores. The
heart is `AskedSoFar`: in each state of the batch loop the headers asked about are those of
the candidates not left in `todo`, for which `UniqueHeadersKeepNorms` shows that dropping
repeated headers within a batch loses none. Nothing is assumed of the model. `FoundAreNew`
divides its mappings into those of unknown headers and those in `unasked`: an asked mapping can
never meet a known header in the merge, because what is skipped is skipped by its normal form.
`NameOk` says the same of every column of every result, and that whatever goes over a known
field was acknowledged by Laravel.

`UploadsLearn` adds three facts (`Learner`): what was read is still stored, what was found is about
headers of the table at hand, and nothing has happened to the tables of an upload that has not
read the mappings. `KnownAreMapped` adds that all headers stored, known or found are written in
the one way they have (`Spelling`): then the header whose normal form is skipped is the
known one. `RewritesAreRaces` has no hypothesis. It accounts for each row Laravel has
(`Accounts`): it was there at first, and then the upload has read it and skips its header
(`FirstIsKnown`), or somebody posted it; and no table posts before its turn or twice
(`SentInTurn`), so that whoever posted it was another upload or an earlier table.
`EveryStepIsCloser` shows that no step
leaves an upload where it was: it goes to the next table, to a later call for this one, or
leaves fewer columns to ask about (`BatchTakesOne`). That is the part of `UploadEnds` within
the prover's reach.

**Start-up.** `IInv` adds to the properties what the process holds in flight: the workbook in
hand has no result yet, and only the one being written is half-written. The proofs count:
each action adds to the lost files at most what it adds to the faults.

**Only model-checked**: the liveness properties (`EndsOrWaitsForGpt`, `UploadEnds`,
`ServesOrIsStuck`), since liveness under fairness and ENABLED are beyond the
prover; and the four violations. Every safety property that a run checks is a theorem, some
of them under the hypotheses named in the table.

## 5. What could follow

A composition of ManualUpload over Screening, in which tables are what parse() returned
rather than a constant; nothing in the upload depends on how they came about, so it would
enlarge the state more than what is known. The bounds of `Startup` with prefork (section 6),
should it be switched on.

## 6. Not modelled

- *Collisions of MD5*, and of keys whose parts contain the separators `|` and `||`: keys are
  compared by the sequences that are joined. Malformed JSON in Redis is a miss.
- *What excelize makes of a file*: rows and merges are the input.
- *Prefork* (transports/http/http-server.go:70): off unless configured; with it every child would
  run the suite again, beside its siblings.
- *Latency within a store*: the advanced cache takes the time between two readings of the clock
  in one store as none.
- *Confidence scores and example values* of the mapping: nothing is decided by them.
- *MarkJobSuccess, UpdateJobStatus, category and brand mappings*: no caller.
- *Semantic search*: stateless, no caller.
- *Configuration, the other transports, command line tools, migrations, generated docs*:
  constructors and one-call programs without behaviour of their own.
