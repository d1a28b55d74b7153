---------------------------- MODULE ManualUpload ----------------------------
(***************************************************************************)
(* POST /manual-upload (excel-parser-http-handler.go:32): parse the         *)
(* workbook, read the known header mappings from Laravel, map the headers   *)
(* of every table (MapProductFields, mapping.service.go:52), with the model *)
(* asked about the unknown ones in batches (header-mapping.service.go), and *)
(* close the job.  Several uploads run at once against one Laravel.         *)
(*                                                                          *)
(* Parsing is ExcelParse; here it yields the headers of the tables, or an   *)
(* error.  A call to Laravel that fails may still have been carried out.    *)
(***************************************************************************)
EXTENDS Integers, Sequences, FiniteSets

CONSTANTS
    Uploads,          \* requests
    Names,            \* column headers, as they are written
    Tables,           \* per upload: the header of each table parse() returned
    Supplier,         \* per upload: the supplier_id of the request
    Global,           \* no supplier_id: the mappings are general
    Zero,             \* supplier_id 0: sent on, but not looked up
    Norm(_),          \* normalizeHeader: trimmed, in lower case
    BlankNorm,        \* the norm of a blank header
    Fields,           \* the product fields that IsValid knows
    ModelAnswers(_),  \* what the model may answer when asked about a set of headers:
                      \* a list, as pairs of any header and a field
    BatchSize,        \* 120 in the code
    Stored0           \* the mappings Laravel has at first

ASSUME BatchAssumption == BatchSize \in Nat \ {0}

\* parse() yields no table without a header, which header-mapping:98 refuses.
ASSUME TablesAssumption == Tables \in [Uploads -> Seq(Seq(Names) \ {<<>>})]

VARIABLES
    pc,       \* per upload: the call it makes next
    sup,      \* per upload: supMappings, as a function of the header
    gen,      \* per upload: gMappings, as a function of the header
    tab,      \* per upload: the table it is at
    todo,     \* per upload: the candidate columns not yet asked about
    found,    \* per upload: allMappings, as pairs of a header and a field
    latest,   \* per upload: allMappings, as a function: the last one counts
    asked,    \* history: the headers asked about for this table
    unasked,  \* history: the mappings of headers that the model was not asked about
    mapped,   \* history: per upload, the results of MapProductFields
    sent,     \* history: every mapping posted to Laravel, by whom
    stored,   \* external: the mappings in Laravel's database
    job       \* external: the state of the upload's job

vars == <<pc, sup, gen, tab, todo, found, latest, asked, unasked, mapped, sent, stored, job>>
laravel == <<sent, stored, job>>
work    == <<todo, found, latest, asked, unasked>>

None == [h \in {} |-> {}]    \* no mappings at all

\* The mappings f, and g where f has none.
Over(f, g) ==
    [h \in DOMAIN f \cup DOMAIN g |-> IF h \in DOMAIN f THEN f[h] ELSE g[h]]

Header(u) == Tables[u][tab[u]]

HasSupplier(u) == Supplier[u] \notin {Global, Zero}

\* A list of mappings, as pairs, read into a map: of several for one header the
\* last wins, and who wrote the list chose the order.
LastOnes(pairs) ==
    {f \in [{p[1] : p \in pairs} -> {p[2] : p \in pairs}] :
        \A h \in DOMAIN f : <<h, f[h]>> \in pairs}

-----------------------------------------------------------------------------
\* External: the mappings stored for s, as MapProductFields reads the list.
Readings(s) == LastOnes({<<m.header, m.field>> : m \in {n \in stored : n.supplier = s}})

SkipSupplierOnly(u) == {Norm(h) : h \in DOMAIN sup[u]} \ {BlankNorm}

\* The normalised headers that are not mapped anew.
Skip(u) == {Norm(h) : h \in DOMAIN sup[u] \cup DOMAIN gen[u]} \ {BlankNorm}

CandidatesByExactName(u) ==
    {c \in DOMAIN Header(u) : Header(u)[c] \notin DOMAIN sup[u] \cup DOMAIN gen[u]}

\* The columns to ask the model about.
Candidates(u) == {c \in DOMAIN Header(u) : Norm(Header(u)[c]) \notin Skip(u)}

\* The next batch of the candidates cs, from the left, and what is left of them.
Batch(cs) == {c \in cs : Cardinality({d \in cs : d < c}) < BatchSize}

RestDroppingPartial(cs) ==
    IF Cardinality(cs) < 2 * BatchSize THEN {} ELSE cs \ Batch(cs)

Rest(cs) == cs \ Batch(cs)

\* buildInputJSONByIndices: of the columns with one normalised header only the
\* first is asked about, and none without a header.
UniqueHeaders(header, cs) ==
    {header[c] : c \in {d \in cs :
        /\ Norm(header[d]) # BlankNorm
        /\ \A e \in cs : e < d => Norm(header[e]) # Norm(header[d])}}

\* callModel: an empty field becomes "unknown".
Normalised(answer) ==
    {<<p[1], IF p[2] = "" THEN "unknown" ELSE p[2]>> : p \in answer}

\* The mapping of h to f by table t of u.
Given(u, t, h, f) == [upload |-> u, table |-> t, header |-> h, field |-> f]

\* Of the model's mappings, those of headers it was not asked about.
Volunteered(u, hs, pairs) ==
    {Given(u, tab[u], p[1], p[2]) :
        p \in {q \in pairs : Norm(q[1]) \notin {Norm(h) : h \in hs}}}

\* What is known of a header: the supplier's mapping before the general one.
Known(u) == Over(sup[u], gen[u])

FinalMappingGeneralFirst(u) == Over(gen[u], Over(sup[u], latest[u]))

\* The model's mappings go before the known ones.
FinalMapping(u) == Over(latest[u], Known(u))

-----------------------------------------------------------------------------
Init ==
    /\ pc = [u \in Uploads |-> "parse"]
    /\ sup = [u \in Uploads |-> None] /\ gen = [u \in Uploads |-> None]
    /\ tab = [u \in Uploads |-> 1]
    /\ todo = [u \in Uploads |-> {}]
    /\ found = [u \in Uploads |-> {}]
    /\ latest = [u \in Uploads |-> None]
    /\ asked = [u \in Uploads |-> {}] /\ unasked = {}
    /\ mapped = [u \in Uploads |-> {}]
    /\ sent = {}
    /\ stored = Stored0
    /\ job = [u \in Uploads |-> "open"]

Goto(u, call) == pc' = [pc EXCEPT ![u] = call]

\* An early return with an error leaves the job as it is.
Fails(u, call) ==
    /\ pc[u] = call
    /\ Goto(u, "failed")
    /\ UNCHANGED <<sup, gen, tab, work, mapped, laravel>>

Parse(u) ==
    /\ pc[u] = "parse"
    /\ Goto(u, IF HasSupplier(u) THEN "supplier" ELSE "general")
    /\ UNCHANGED <<sup, gen, tab, work, mapped, laravel>>

GetSupplierMappings(u) ==
    /\ pc[u] = "supplier"
    /\ \E f \in Readings(Supplier[u]) : sup' = [sup EXCEPT ![u] = f]
    /\ Goto(u, "general")
    /\ UNCHANGED <<gen, tab, work, mapped, laravel>>

GetGeneralMappings(u) ==
    /\ pc[u] = "general"
    /\ \E f \in Readings(Global) : gen' = [gen EXCEPT ![u] = f]
    /\ Goto(u, "table")
    /\ UNCHANGED <<sup, tab, work, mapped, laravel>>

NextTableForgetful(u) == Goto(u, "table") /\ UNCHANGED tab

\* The loop goes on, whatever MapProductFields returned.
NextTable(u) ==
    /\ Goto(u, "table")
    /\ tab' = [tab EXCEPT ![u] = @ + 1]

StartTableUnreset(u) ==
    /\ pc[u] = "table"
    /\ tab[u] <= Len(Tables[u])
    /\ todo' = [todo EXCEPT ![u] = Candidates(u)]
    /\ latest' = [latest EXCEPT ![u] = None]
    /\ asked' = [asked EXCEPT ![u] = {}]
    /\ Goto(u, IF Candidates(u) = {} THEN "build" ELSE "ask")
    /\ UNCHANGED <<sup, gen, tab, found, unasked, mapped, laravel>>

StartTable(u) ==
    /\ pc[u] = "table"
    /\ tab[u] <= Len(Tables[u])
    /\ todo' = [todo EXCEPT ![u] = Candidates(u)]
    /\ found' = [found EXCEPT ![u] = {}]
    /\ latest' = [latest EXCEPT ![u] = None]
    /\ asked' = [asked EXCEPT ![u] = {}]
    /\ Goto(u, IF Candidates(u) = {} THEN "build" ELSE "ask")
    /\ UNCHANGED <<sup, gen, tab, unasked, mapped, laravel>>

\* One batch; the last one leads to the creation of what was found. Whatever the
\* model answers is taken, asked or not (header-mapping:141).
AskModel(u) ==
    /\ pc[u] = "ask"
    /\ LET hs == UniqueHeaders(Header(u), Batch(todo[u]))
       IN  \E answer \in {Normalised(a) : a \in ModelAnswers(hs)} :
             /\ found' = [found EXCEPT ![u] = @ \cup answer]
             /\ \E f \in LastOnes(answer) : latest' = [latest EXCEPT ![u] = Over(f, @)]
             /\ asked' = [asked EXCEPT ![u] = @ \cup hs]
             /\ unasked' = unasked \cup Volunteered(u, hs, answer)
    /\ todo' = [todo EXCEPT ![u] = Rest(@)]
    /\ Goto(u, IF todo'[u] # {} THEN "ask" ELSE IF found'[u] # {} THEN "create" ELSE "build")
    /\ UNCHANGED <<sup, gen, tab, mapped, laravel>>

\* One failed batch, or a call that takes 25 seconds, discards all of them.
AskModelFails(u) ==
    /\ pc[u] = "ask"
    /\ NextTable(u)
    /\ UNCHANGED <<sup, gen, work, mapped, laravel>>

\* CreateProductMappings reaches Laravel, with the mappings to fields it knows.
Post(u) ==
    LET valid == {p \in found[u] : p[2] \in Fields}
    IN  /\ stored' = stored \cup
             {[supplier |-> Supplier[u], header |-> p[1], field |-> p[2]] : p \in valid}
        /\ sent' = sent \cup
             {[upload |-> u, table |-> tab[u], supplier |-> Supplier[u],
               header |-> p[1], field |-> p[2]] : p \in valid}
        /\ UNCHANGED job

CreateMappings(u) ==
    /\ pc[u] = "create"
    /\ Post(u)
    /\ Goto(u, "build")
    /\ UNCHANGED <<sup, gen, tab, work, mapped>>

CreateMappingsFailsUnnoticed(u) ==
    /\ pc[u] = "create"
    /\ Post(u) \/ UNCHANGED laravel
    /\ Goto(u, "build")
    /\ UNCHANGED <<sup, gen, tab, work, mapped>>

\* It fails, before or after Laravel stored the rows.
CreateMappingsFails(u) ==
    /\ pc[u] = "create"
    /\ Post(u) \/ UNCHANGED laravel
    /\ NextTable(u)
    /\ UNCHANGED <<sup, gen, work, mapped>>

\* The columns whose header has a mapping are called by its field.
BuildResult(u) ==
    /\ pc[u] = "build"
    /\ LET m       == FinalMapping(u)
           columns == {c \in DOMAIN Header(u) : Header(u)[c] \in DOMAIN m}
       IN  mapped' = [mapped EXCEPT ![u] = @ \cup
             {[table |-> tab[u], fields |-> [c \in columns |-> m[Header(u)[c]]]]}]
    /\ NextTable(u)
    /\ UNCHANGED <<sup, gen, work, laravel>>

\* MarkJobFailed "Not implemented yet" is how every upload ends.
MarkJobFailed(u) ==
    /\ pc[u] = "table"
    /\ tab[u] > Len(Tables[u])
    /\ \/ Goto(u, "done") /\ job' = [job EXCEPT ![u] = "failed"]
       \/ Goto(u, "failed") /\ job' = [job EXCEPT ![u] = "failed"]
       \/ Goto(u, "failed") /\ UNCHANGED job
    /\ UNCHANGED <<sup, gen, tab, work, mapped, sent, stored>>

Step(u) ==
    \/ Parse(u) \/ Fails(u, "parse")
    \/ GetSupplierMappings(u) \/ Fails(u, "supplier")
    \/ GetGeneralMappings(u) \/ Fails(u, "general")
    \/ StartTable(u)
    \/ AskModel(u) \/ AskModelFails(u)
    \/ CreateMappings(u) \/ CreateMappingsFails(u)
    \/ BuildResult(u)
    \/ MarkJobFailed(u)

Next == \E u \in Uploads : Step(u)

Spec == Init /\ [][Next]_vars

\* Each call to Laravel returns within 30 seconds, each call to the model within
\* 25; that parse() returns is ExcelParse's EndsOrWaitsForGpt.
FairSpec == Spec /\ \A u \in Uploads : WF_vars(Step(u))

-----------------------------------------------------------------------------
TypeOK ==
    /\ pc \in [Uploads -> {"parse", "supplier", "general", "table", "ask",
                           "create", "build", "done", "failed"}]
    /\ \A u \in Uploads :
         /\ tab[u] \in 1 .. Len(Tables[u]) + 1
         /\ pc[u] = "ask" => todo[u] # {} /\ todo[u] \subseteq DOMAIN Header(u)
         /\ pc[u] = "build" => todo[u] = {}
         /\ \A r \in mapped[u] :
               r.table \in 1 .. tab[u] - 1 /\ DOMAIN r.fields \subseteq DOMAIN Tables[u][r.table]
    /\ \A m \in stored \ Stored0 : m.field \in Fields /\ m.supplier \in {Supplier[u] : u \in Uploads}
    /\ job \in [Uploads -> {"open", "failed"}]

\* When the model's answers are used, every candidate with a header was asked
\* about, by itself or by a column with the same header in another case, however
\* the candidates fell into batches ("by GLOBAL indices", header-mapping:124).
EveryCandidateAsked ==
    \A u \in Uploads : pc[u] \in {"create", "build"} =>
        {Norm(h) : h \in asked[u]} =
            {Norm(Header(u)[c]) : c \in Candidates(u)} \ {BlankNorm}

\* A header that the upload found known, in whatever case (normalizeHeader on both
\* sides, header-mapping:105 and 113), reaches Laravel only where the model named
\* it without having been asked.
OnlyUnknownSent ==
    \A m \in sent : Norm(m.header) \in Skip(m.upload) =>
        Given(m.upload, m.table, m.header, m.field) \in unasked

\* The known mapping of a header is what its column is called in the result, the
\* supplier's before the general one; only a mapping that the model gave unasked,
\* for the same table, takes its place (mapping.service.go:97-107).
KnownFieldsKept ==
    \A u \in Uploads : \A r \in mapped[u] : \A c \in DOMAIN r.fields :
        LET h == Tables[u][r.table][c]
        IN  h \in DOMAIN Known(u) =>
              \/ r.fields[c] = Known(u)[h]
              \/ Given(u, r.table, h, r.fields[c]) \in unasked

\* A result uses no valid mapping that Laravel does not have, be it new or put in
\* the place of a known one: rows are built from the model's answers only after
\* Laravel acknowledged them, so a failed call (mapping.service.go:90) never leaves
\* a field that exists only here.
MappedIsStored ==
    \A u \in Uploads : \A r \in mapped[u] : \A c \in DOMAIN r.fields :
        LET h == Tables[u][r.table][c]
        IN  r.fields[c] \in Fields =>
              \/ h \in DOMAIN Known(u) /\ r.fields[c] = Known(u)[h]
              \/ [supplier |-> Supplier[u], header |-> h, field |-> r.fields[c]] \in stored

\* Every upload comes to an end once its workbook is parsed: no failure of
\* Laravel or the model makes the loops over tables and batches run for ever.
UploadEnds == \A u \in Uploads : <>(pc[u] \in {"done", "failed"})

-----------------------------------------------------------------------------
\* A header that is skipped because it is known ("skip the already known
\* headers (case-insensitively)", header-mapping:93) is mapped in the result.
KnownHeadersAreMapped ==
    \A u \in Uploads : \A r \in mapped[u] : \A c \in DOMAIN Tables[u][r.table] :
        Norm(Tables[u][r.table][c]) \in Skip(u) => c \in DOMAIN r.fields

\* It is, where a header has one spelling: in the tables, in Laravel and from the
\* model.
OneSpelling ==
    LET written == Names \cup {m.header : m \in Stored0}
    IN  /\ \A g, h \in written : Norm(g) = Norm(h) => g = h
        /\ \A hs \in SUBSET Names : \A answer \in ModelAnswers(hs) :
              {p[1] : p \in answer} \subseteq written

\* "Map only the new headers and write them to the laravel DB. New are those that
\* are in neither existingSupplierMappings nor existingGeneralMappings"
\* (mapping.service.go:33): what is written is new to the upload that writes it.
OnlyNewWritten == \A m \in sent : Norm(m.header) \notin Skip(m.upload)

\* The mappings are read once, before the first table, and go stale
\* (excel-parser-http-handler.go:54-75). A header that the model was asked about is
\* written over another mapping of it only in a race: the other one was written
\* meanwhile, by another upload or by an earlier table of this one. For supplier 0,
\* whose own mappings are not looked up, nothing is promised.
OnlyRacesRewrite ==
    [][\A m \in sent' \ sent : \A old \in stored :
          /\ old.supplier \in {m.supplier, Global} \ {Zero}
          /\ Norm(old.header) = Norm(m.header)
          /\ Given(m.upload, m.table, m.header, m.field) \notin unasked
          => \E s \in sent :
                /\ s.supplier = old.supplier /\ s.header = old.header /\ s.field = old.field
                /\ s.upload # m.upload \/ s.table < m.table]_vars

-----------------------------------------------------------------------------
\* A mapping that table t of u may teach Laravel, with extra from the model.
IsLesson(u, t, m, extra) ==
    /\ m.supplier = Supplier[u] /\ m.field \in Fields
    /\ \/ /\ Norm(m.header) # BlankNorm
          /\ \E c \in DOMAIN Tables[u][t] : Norm(m.header) = Norm(Tables[u][t][c])
       \/ Given(u, t, m.header, m.field) \in extra

\* Each valid field of the result r is one that Laravel, which has rows, would give
\* the column's header, for the supplier or for all.
Truthful(u, r, rows) ==
    \A c \in DOMAIN r.fields : c \in DOMAIN Tables[u][r.table] /\
        (r.fields[c] \in Fields =>
            \E m \in rows : /\ m.supplier \in {Supplier[u], Global}
                            /\ m.header = Tables[u][r.table][c]
                            /\ m.field = r.fields[c])

\* An upload has taught when the table at hand has nothing left to post.
Learns == INSTANCE Learning
    WITH position <- tab,
         taught   <- {u \in Uploads : pc[u] = "build"},
         ended    <- {u \in Uploads : pc[u] \in {"done", "failed"}},
         results  <- mapped,
         extra    <- unasked,
         Length   <- [u \in Uploads |-> Len(Tables[u])]

\* An upload deals with Laravel as Learning says: a table teaches it at most once,
\* before its result, only about its own headers and what the model added about it,
\* results come in the order of the tables and say nothing that Laravel would not,
\* the job is closed behind the last table (excel-parser-http-handler.go:72,
\* mapping.service.go:70).
KeepsLearning == Learns!Spec
=============================================================================
