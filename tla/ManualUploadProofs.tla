------------------------- MODULE ManualUploadProofs -------------------------
(***************************************************************************)
(* Proofs about ManualUpload, for any uploads, tables, stored mappings,     *)
(* batch size and answers of the model, in any interleaving.                *)
(*                                                                          *)
(* The invariant is a conjunction over the uploads: a step of one leaves    *)
(* the others as they are (Frame), and can only add to what Laravel stores. *)
(***************************************************************************)
EXTENDS ManualUpload, SequenceTheorems, FiniteSetTheorems, WellFoundedInduction, TLAPS

Calls == {"parse", "supplier", "general", "table", "ask", "create", "build", "done", "failed"}

Settled(u) == pc[u] \notin {"parse", "supplier", "general"}
Working(u) == pc[u] \in {"ask", "create", "build"}

\* A header that the upload may ask about and post.
Unknown(u, h) == Norm(h) \notin Skip(u) \cup {BlankNorm}

Norms(u, cs) == {Norm(Header(u)[c]) : c \in cs} \ {BlankNorm}

Shape ==
    /\ pc \in [Uploads -> Calls] /\ job \in [Uploads -> {"open", "failed"}]
    /\ DOMAIN sup = Uploads /\ DOMAIN gen = Uploads /\ DOMAIN tab = Uploads
    /\ DOMAIN todo = Uploads /\ DOMAIN found = Uploads /\ DOMAIN latest = Uploads
    /\ DOMAIN asked = Uploads /\ DOMAIN mapped = Uploads

Placed(u) ==
    /\ tab[u] \in 1 .. Len(Tables[u]) + 1
    /\ Working(u) => tab[u] <= Len(Tables[u])
    /\ pc[u] = "ask" => todo[u] # {} /\ todo[u] \subseteq Candidates(u)
    /\ pc[u] \in {"create", "build"} => todo[u] = {}

\* What was asked about so far is what is not left to do.
AskedSoFar(u) ==
    Working(u) => {Norm(h) : h \in asked[u]} = Norms(u, Candidates(u) \ todo[u])

\* The model gave this mapping without having been asked about the header.
Extra(u, t, h, f) == Given(u, t, h, f) \in unasked

\* The model's mappings are about unknown headers, or extra, and stored before they
\* count.
FoundAreNew(u) ==
    Working(u) =>
        /\ \A p \in found[u] : Unknown(u, p[1]) \/ Extra(u, tab[u], p[1], p[2])
        /\ \A h \in DOMAIN latest[u] : <<h, latest[u][h]>> \in found[u]
        /\ pc[u] = "build" =>
             \A p \in found[u] : p[2] \in Fields =>
                [supplier |-> Supplier[u], header |-> p[1], field |-> p[2]] \in stored

SentAreNew(u) ==
    \A m \in sent : m.upload = u =>
        Settled(u) /\ (Norm(m.header) \notin Skip(u) \/ Extra(u, m.table, m.header, m.field))

\* The field f that table t calls the header h by is the known one; or Laravel has
\* it, and it is extra if another one is known.
NameOk(u, t, h, f) ==
    \/ h \in DOMAIN Known(u) /\ f = Known(u)[h]
    \/ /\ h \in DOMAIN Known(u) => Extra(u, t, h, f)
       /\ f \in Fields => [supplier |-> Supplier[u], header |-> h, field |-> f] \in stored

FieldOk(u, r, c) == NameOk(u, r.table, Tables[u][r.table][c], r.fields[c])

ResultsKept(u) ==
    \A r \in mapped[u] :
        /\ Settled(u)
        /\ r.table \in 1 .. tab[u] - 1
        /\ DOMAIN r.fields \subseteq DOMAIN Tables[u][r.table]
        /\ \A c \in DOMAIN r.fields : FieldOk(u, r, c)

UploadInv(u) ==
    Placed(u) /\ AskedSoFar(u) /\ FoundAreNew(u) /\ SentAreNew(u) /\ ResultsKept(u)

StoredOk ==
    \A m \in stored \ Stored0 : m.field \in Fields /\ m.supplier \in {Supplier[u] : u \in Uploads}

IInv ==
    /\ Shape
    /\ \A u \in Uploads : UploadInv(u)
    /\ \A m \in sent : m.upload \in Uploads
    /\ StoredOk

-----------------------------------------------------------------------------
LEMMA LeftmostColumn ==
    ASSUME NEW T \in SUBSET Nat, T # {}
    PROVE  \E x \in T : \A y \in T : x <= y
<1>1. PICK x \in T : \A y \in T : ~(<<y, x>> \in OpToRel(<, Nat))
  BY NatLessThanWellFounded, WFMin
<1>2. \A y \in T : ~(y < x)
  BY <1>1 DEF OpToRel
<1> QED BY <1>2

\* Leaving out the columns that repeat a header loses no header.
LEMMA UniqueHeadersKeepNorms ==
    ASSUME NEW header, NEW cs \in SUBSET Nat
    PROVE  {Norm(h) : h \in UniqueHeaders(header, cs)}
             = {Norm(header[c]) : c \in cs} \ {BlankNorm}
<1>1. ASSUME NEW c \in cs, Norm(header[c]) # BlankNorm
      PROVE  \E h \in UniqueHeaders(header, cs) : Norm(h) = Norm(header[c])
  <2> DEFINE same == {d \in cs : Norm(header[d]) = Norm(header[c])}
  <2>1. PICK d \in same : \A e \in same : d <= e
    BY LeftmostColumn
  <2>2. \A e \in cs : e < d => Norm(header[e]) # Norm(header[d])
    BY <2>1
  <2>3. header[d] \in UniqueHeaders(header, cs)
    BY <1>1, <2>1, <2>2 DEF UniqueHeaders
  <2> QED BY <2>1, <2>3
<1>2. \A h \in UniqueHeaders(header, cs) :
        Norm(h) # BlankNorm /\ \E c \in cs : Norm(h) = Norm(header[c])
  BY DEF UniqueHeaders
<1> QED BY <1>1, <1>2

\* The headers of the table an upload is at.
LEMMA HeadersOfTable ==
    ASSUME NEW u \in Uploads, NEW t \in 1 .. Len(Tables[u])
    PROVE  /\ DOMAIN Tables[u][t] \subseteq Nat
           /\ \A c \in DOMAIN Tables[u][t] : Tables[u][t][c] \in Names
<1>1. Tables[u] \in Seq(Seq(Names) \ {<<>>})
  BY TablesAssumption
<1>2. Tables[u][t] \in Seq(Names) \ {<<>>}
  BY <1>1, ElementOfSeq
<1> QED BY <1>2

LEMMA TableCount ==
    ASSUME NEW u \in Uploads
    PROVE  Len(Tables[u]) \in Nat
<1>1. Tables[u] \in Seq(Seq(Names) \ {<<>>})
  BY TablesAssumption
<1> QED BY <1>1

-----------------------------------------------------------------------------
\* What a step of u leaves alone.
Frame(u) ==
    /\ Shape'
    /\ \A x \in Uploads \ {u} :
         /\ pc'[x] = pc[x] /\ sup'[x] = sup[x] /\ gen'[x] = gen[x] /\ tab'[x] = tab[x]
         /\ todo'[x] = todo[x] /\ found'[x] = found[x] /\ latest'[x] = latest[x]
         /\ asked'[x] = asked[x] /\ mapped'[x] = mapped[x]
    /\ stored \subseteq stored' /\ unasked \subseteq unasked'
    /\ \A m \in sent' \ sent : m.upload = u

LEMMA PostFrame ==
    ASSUME NEW u \in Uploads, Post(u)
    PROVE  /\ stored \subseteq stored' /\ job' = job
           /\ \A m \in sent' \ sent : m.upload = u
  BY DEF Post

LEMMA StepFrame ==
    ASSUME Shape, NEW u \in Uploads, Step(u)
    PROVE  Frame(u)
<1> USE DEF Shape, Calls, Frame
<1>1. CASE Parse(u) \/ Fails(u, "parse") \/ Fails(u, "supplier") \/ Fails(u, "general")
  BY <1>1 DEF Parse, Fails, Goto, work, laravel
<1>2. CASE GetSupplierMappings(u)
  BY <1>2 DEF GetSupplierMappings, Goto, work, laravel
<1>3. CASE GetGeneralMappings(u)
  BY <1>3 DEF GetGeneralMappings, Goto, work, laravel
<1>4. CASE StartTable(u)
  BY <1>4 DEF StartTable, Goto, laravel
<1>5. CASE AskModel(u)
  <2>1. /\ UNCHANGED <<sup, gen, tab, mapped, laravel>>
        /\ todo' = [todo EXCEPT ![u] = Rest(@)]
        /\ \E call \in Calls : pc' = [pc EXCEPT ![u] = call]
    BY <1>5 DEF AskModel, Goto
  <2>2. PICK hs, answer, f :
          /\ found' = [found EXCEPT ![u] = @ \cup answer]
          /\ latest' = [latest EXCEPT ![u] = Over(f, @)]
          /\ asked' = [asked EXCEPT ![u] = @ \cup hs]
          /\ unasked' = unasked \cup Volunteered(u, hs, answer)
    BY <1>5 DEF AskModel
  <2> QED BY <2>1, <2>2 DEF laravel
<1>6. CASE AskModelFails(u)
  BY <1>6 DEF AskModelFails, NextTable, Goto, work, laravel
<1>7. CASE CreateMappings(u)
  BY <1>7, PostFrame DEF CreateMappings, Goto, work
<1>8. CASE CreateMappingsFails(u)
  BY <1>8, PostFrame DEF CreateMappingsFails, NextTable, Goto, work, laravel
<1>9. CASE BuildResult(u)
  <2>1. /\ UNCHANGED <<sup, gen, work, laravel>> /\ NextTable(u)
        /\ \E new : mapped' = [mapped EXCEPT ![u] = @ \cup new]
    BY <1>9 DEF BuildResult
  <2> QED BY <2>1 DEF NextTable, Goto, work, laravel
<1>10. CASE MarkJobFailed(u)
  BY <1>10 DEF MarkJobFailed, Goto, work
<1> QED
  BY <1>1, <1>2, <1>3, <1>4, <1>5, <1>6, <1>7, <1>8, <1>9, <1>10 DEF Step

\* The other uploads keep their part of the invariant.
LEMMA OthersStay ==
    ASSUME IInv, NEW u \in Uploads, Frame(u), NEW x \in Uploads \ {u}
    PROVE  UploadInv(x)'
<1>1. /\ pc'[x] = pc[x] /\ sup'[x] = sup[x] /\ gen'[x] = gen[x] /\ tab'[x] = tab[x]
      /\ todo'[x] = todo[x] /\ found'[x] = found[x] /\ latest'[x] = latest[x]
      /\ asked'[x] = asked[x] /\ mapped'[x] = mapped[x]
  BY DEF Frame
<1>2. /\ stored \subseteq stored' /\ \A m \in sent' : m.upload = x => m \in sent
      /\ \A t, h, f : Extra(x, t, h, f) => Extra(x, t, h, f)'
  BY DEF Frame, Extra
<1>3. /\ Header(x)' = Header(x) /\ Skip(x)' = Skip(x) /\ Known(x)' = Known(x)
      /\ Settled(x)' = Settled(x) /\ Working(x)' = Working(x)
  BY <1>1 DEF Header, Skip, Known, Settled, Working
<1>4. Candidates(x)' = Candidates(x)
  BY <1>3 DEF Candidates
<1>5. Norms(x, Candidates(x) \ todo[x])' = Norms(x, Candidates(x) \ todo[x])
  BY <1>1, <1>3, <1>4 DEF Norms
<1>6. Placed(x)' /\ AskedSoFar(x)'
  BY <1>1, <1>3, <1>4, <1>5 DEF IInv, UploadInv, Placed, AskedSoFar
<1>7. FoundAreNew(x)'
  BY <1>1, <1>2, <1>3 DEF IInv, UploadInv, FoundAreNew, Unknown
<1>8. SentAreNew(x)'
  BY <1>2, <1>3 DEF IInv, UploadInv, SentAreNew
<1>9. ResultsKept(x)'
  <2> SUFFICES ASSUME NEW r \in mapped[x], NEW c \in DOMAIN r.fields
               PROVE  FieldOk(x, r, c)'
    BY <1>1, <1>3 DEF IInv, UploadInv, ResultsKept
  <2>1. FieldOk(x, r, c)
    BY DEF IInv, UploadInv, ResultsKept
  <2> QED BY <1>2, <1>3, <2>1 DEF FieldOk, NameOk
<1> QED BY <1>6, <1>7, <1>8, <1>9 DEF UploadInv

-----------------------------------------------------------------------------
\* The results so far stay right, as the known mappings do not change under them.
LEMMA ResultsStay ==
    ASSUME IInv, NEW u \in Uploads, Frame(u), mapped'[u] = mapped[u],
           sup'[u] = sup[u], gen'[u] = gen[u], tab'[u] \in {tab[u], tab[u] + 1},
           pc'[u] \notin {"parse", "supplier", "general"}
    PROVE  ResultsKept(u)'
<1>1. /\ tab[u] \in Nat /\ Known(u)' = Known(u) /\ Settled(u)' /\ stored \subseteq stored'
      /\ \A t, h, f : Extra(u, t, h, f) => Extra(u, t, h, f)'
  BY TableCount DEF IInv, UploadInv, Placed, Known, Settled, Frame, Extra
<1>2. ASSUME NEW r \in mapped[u]
      PROVE  /\ r.table \in 1 .. tab'[u] - 1
             /\ DOMAIN r.fields \subseteq DOMAIN Tables[u][r.table]
             /\ \A c \in DOMAIN r.fields : FieldOk(u, r, c)'
  <2>1. /\ r.table \in 1 .. tab[u] - 1
        /\ DOMAIN r.fields \subseteq DOMAIN Tables[u][r.table]
        /\ \A c \in DOMAIN r.fields : FieldOk(u, r, c)
    BY DEF IInv, UploadInv, ResultsKept
  <2>2. r.table \in 1 .. tab'[u] - 1
    BY <1>1, <2>1
  <2>3. ASSUME NEW c \in DOMAIN r.fields PROVE FieldOk(u, r, c)'
    <3>1. FieldOk(u, r, c)
      BY <2>1
    <3> QED BY <1>1, <3>1 DEF FieldOk, NameOk
  <2> QED BY <2>1, <2>2, <2>3
<1> QED BY <1>1, <1>2 DEF ResultsKept

\* Only what was found is posted.
LEMMA SentStaysNew ==
    ASSUME IInv, NEW u \in Uploads, sup'[u] = sup[u], gen'[u] = gen[u], Frame(u),
           pc'[u] \notin {"parse", "supplier", "general"},
           (Working(u) /\ Post(u)) \/ sent' = sent
    PROVE  SentAreNew(u)'
<1>1. /\ Skip(u)' = Skip(u) /\ Settled(u)'
      /\ \A t, h, f : Extra(u, t, h, f) => Extra(u, t, h, f)'
  BY DEF Skip, Settled, Frame, Extra
<1>2. \A m \in sent : m.upload = u =>
        Norm(m.header) \notin Skip(u) \/ Extra(u, m.table, m.header, m.field)
  BY DEF IInv, UploadInv, SentAreNew
<1>3. CASE Working(u) /\ Post(u)
  <2>1. \A p \in found[u] : Norm(p[1]) \notin Skip(u) \/ Extra(u, tab[u], p[1], p[2])
    BY <1>3 DEF IInv, UploadInv, FoundAreNew, Unknown
  <2>2. \A m \in sent' : m \in sent \/
          \E p \in found[u] : m.header = p[1] /\ m.field = p[2] /\ m.table = tab[u]
    BY <1>3 DEF Post
  <2> QED BY <1>1, <1>2, <2>1, <2>2 DEF SentAreNew
<1>4. CASE sent' = sent
  BY <1>1, <1>2, <1>4 DEF SentAreNew
<1> QED BY <1>3, <1>4

\* Before the mappings are read, nothing is sent and there is no result.
LEMMA ReadingKeeps ==
    ASSUME IInv, NEW u \in Uploads, ~Settled(u), Frame(u),
           tab'[u] = tab[u], mapped'[u] = mapped[u], sent' = sent,
           pc'[u] \notin {"ask", "create", "build"}
    PROVE  UploadInv(u)'
<1>1. mapped[u] = {} /\ \A m \in sent : m.upload # u
  BY DEF IInv, UploadInv, ResultsKept, SentAreNew
<1>2. SentAreNew(u)' /\ ResultsKept(u)'
  BY <1>1 DEF SentAreNew, ResultsKept
<1>3. Placed(u)'
  BY DEF IInv, UploadInv, Placed, Working
<1>4. AskedSoFar(u)' /\ FoundAreNew(u)'
  BY DEF AskedSoFar, FoundAreNew, Working
<1> QED BY <1>2, <1>3, <1>4 DEF UploadInv

\* Going on without a result, after a failure or at the end.
LEMMA GivingUpKeeps ==
    ASSUME IInv, NEW u \in Uploads, Settled(u), Frame(u),
           sup'[u] = sup[u], gen'[u] = gen[u], mapped'[u] = mapped[u],
           (Working(u) /\ Post(u)) \/ sent' = sent,
           pc'[u] \in {"table", "done", "failed"},
           (tab'[u] = tab[u]) \/ (Working(u) /\ tab'[u] = tab[u] + 1)
    PROVE  UploadInv(u)'
<1>1. SentAreNew(u)' /\ ResultsKept(u)'
  BY SentStaysNew, ResultsStay
<1>2. Placed(u)'
  BY TableCount DEF IInv, UploadInv, Placed, Working
<1>3. AskedSoFar(u)' /\ FoundAreNew(u)'
  BY DEF AskedSoFar, FoundAreNew, Working
<1> QED BY <1>1, <1>2, <1>3 DEF UploadInv

LEMMA StartTableKeeps ==
    ASSUME IInv, NEW u \in Uploads, Frame(u), StartTable(u)
    PROVE  UploadInv(u)'
<1> USE DEF IInv, Shape
<1>1. /\ pc[u] = "table" /\ tab[u] <= Len(Tables[u])
      /\ UNCHANGED <<sup, gen, tab, mapped, sent, stored>>
      /\ todo'[u] = Candidates(u) /\ found'[u] = {} /\ latest'[u] = None /\ asked'[u] = {}
      /\ pc'[u] = IF Candidates(u) = {} THEN "build" ELSE "ask"
  BY DEF StartTable, Goto, laravel
<1>2. SentAreNew(u)' /\ ResultsKept(u)'
  BY <1>1, SentStaysNew, ResultsStay
<1>3. Candidates(u)' = Candidates(u)
  BY <1>1 DEF Candidates, Header, Skip
<1>4. Placed(u)'
  BY <1>1, <1>3 DEF UploadInv, Placed, Working
<1>5. AskedSoFar(u)'
  BY <1>1, <1>3 DEF AskedSoFar, Norms
<1>6. DOMAIN None = {}
  BY DEF None
<1>7. FoundAreNew(u)'
  BY <1>1, <1>6 DEF FoundAreNew
<1> QED BY <1>2, <1>4, <1>5, <1>7 DEF UploadInv

LEMMA AskModelKeeps ==
    ASSUME IInv, NEW u \in Uploads, Frame(u), AskModel(u)
    PROVE  UploadInv(u)'
<1> USE DEF IInv, Shape
<1> DEFINE batch == Batch(todo[u])
           hs == UniqueHeaders(Header(u), batch)
<1>1. /\ pc[u] = "ask"
      /\ UNCHANGED <<sup, gen, tab, mapped, sent, stored>>
      /\ todo'[u] = Rest(todo[u])
      /\ pc'[u] = IF todo'[u] # {} THEN "ask" ELSE IF found'[u] # {} THEN "create" ELSE "build"
  BY DEF AskModel, Goto, laravel
<1>2. PICK answer \in {Normalised(a) : a \in ModelAnswers(hs)} :
        /\ found'[u] = found[u] \cup answer
        /\ \E f \in LastOnes(answer) : latest'[u] = Over(f, latest[u])
        /\ asked'[u] = asked[u] \cup hs
        /\ unasked' = unasked \cup Volunteered(u, hs, answer)
  BY DEF AskModel
<1>3. todo[u] \subseteq Candidates(u) /\ tab[u] \in 1 .. Len(Tables[u]) /\ Len(Tables[u]) \in Nat
  BY <1>1, TableCount DEF UploadInv, Placed, Working
<1>4. /\ batch \subseteq todo[u] /\ todo'[u] = todo[u] \ batch
      /\ batch \subseteq Nat /\ \A c \in batch : Header(u)[c] \in Names
  BY <1>1, <1>3, HeadersOfTable DEF Batch, Rest, Candidates, Header
<1>5. {Norm(h) : h \in hs} = Norms(u, batch)
  BY <1>4, UniqueHeadersKeepNorms DEF Norms
<1>6. hs \in SUBSET Names
  BY <1>4 DEF UniqueHeaders
<1> HIDE DEF batch, hs
<1>7. /\ Candidates(u)' = Candidates(u) /\ Skip(u)' = Skip(u) /\ Header(u)' = Header(u)
  BY <1>1 DEF Candidates, Header, Skip
<1>8. Placed(u)'
  BY <1>1, <1>3, <1>4, <1>7 DEF Placed, Working
<1>9. AskedSoFar(u)'
  <2>1. {Norm(h) : h \in asked[u]} = Norms(u, Candidates(u) \ todo[u])
    BY <1>1 DEF UploadInv, AskedSoFar, Working
  <2>2. {Norm(h) : h \in asked'[u]} = {Norm(h) : h \in asked[u]} \cup {Norm(h) : h \in hs}
    BY <1>2
  <2>3. Candidates(u) \ todo'[u] = (Candidates(u) \ todo[u]) \cup batch
    BY <1>3, <1>4
  <2>4. Norms(u, Candidates(u) \ todo'[u])
          = Norms(u, Candidates(u) \ todo[u]) \cup Norms(u, batch)
    BY <2>3 DEF Norms
  <2>5. Norms(u, Candidates(u) \ todo[u])' = Norms(u, Candidates(u) \ todo'[u])
    BY <1>7 DEF Norms
  <2> QED BY <1>5, <2>1, <2>2, <2>4, <2>5 DEF AskedSoFar
<1>10. FoundAreNew(u)'
  <2>1. \A n \in Norms(u, batch) : n \notin Skip(u) \cup {BlankNorm}
    BY <1>3, <1>4 DEF Norms, Candidates
  <2>2. ASSUME NEW p \in answer PROVE Unknown(u, p[1]) \/ Extra(u, tab[u], p[1], p[2])'
    <3>1. CASE Norm(p[1]) \in {Norm(h) : h \in hs}
      BY <1>5, <2>1, <3>1 DEF Unknown
    <3>2. CASE Norm(p[1]) \notin {Norm(h) : h \in hs}
      <4>1. Given(u, tab[u], p[1], p[2]) \in Volunteered(u, hs, answer)
        BY <3>2 DEF Volunteered
      <4> QED BY <1>1, <1>2, <4>1 DEF Extra
    <3> QED BY <3>1, <3>2
  <2>3. ASSUME NEW p \in found[u] PROVE Unknown(u, p[1]) \/ Extra(u, tab[u], p[1], p[2])'
    <3>1. Unknown(u, p[1]) \/ Extra(u, tab[u], p[1], p[2])
      BY <1>1 DEF UploadInv, FoundAreNew, Working
    <3> QED BY <1>1, <1>2, <3>1 DEF Extra
  <2>6. \A p \in found'[u] : (Unknown(u, p[1]) \/ Extra(u, tab[u], p[1], p[2]))'
    BY <1>2, <1>7, <2>2, <2>3 DEF Unknown
  <2>7. \A h \in DOMAIN latest'[u] : <<h, latest'[u][h]>> \in found'[u]
    <3>1. \A h \in DOMAIN latest[u] : <<h, latest[u][h]>> \in found[u]
      BY <1>1 DEF UploadInv, FoundAreNew, Working
    <3>2. PICK f \in LastOnes(answer) : latest'[u] = Over(f, latest[u])
      BY <1>2
    <3>3. \A h \in DOMAIN f : <<h, f[h]>> \in answer
      BY DEF LastOnes
    <3>4. latest'[u] = [h \in (DOMAIN f) \cup (DOMAIN latest[u]) |->
                          IF h \in DOMAIN f THEN f[h] ELSE latest[u][h]]
      BY <3>2 DEF Over
    <3> QED BY <1>2, <3>1, <3>3, <3>4
  <2>8. pc'[u] = "build" => found'[u] = {}
    BY <1>1
  <2> QED BY <2>6, <2>7, <2>8 DEF FoundAreNew
<1>11. SentAreNew(u)' /\ ResultsKept(u)'
  BY <1>1, SentStaysNew, ResultsStay
<1> QED BY <1>8, <1>9, <1>10, <1>11 DEF UploadInv

LEMMA CreateMappingsKeeps ==
    ASSUME IInv, NEW u \in Uploads, Frame(u), CreateMappings(u)
    PROVE  UploadInv(u)'
<1> USE DEF IInv, Shape
<1>1. /\ pc[u] = "create" /\ pc'[u] = "build" /\ Post(u) /\ Working(u)
      /\ UNCHANGED <<sup, gen, tab, todo, found, latest, asked, unasked, mapped>>
  BY DEF CreateMappings, Goto, work, Working
<1>2. /\ Candidates(u)' = Candidates(u) /\ Skip(u)' = Skip(u) /\ Header(u)' = Header(u)
  BY <1>1 DEF Candidates, Header, Skip
<1>3. Placed(u)'
  BY <1>1, <1>2 DEF UploadInv, Placed, Working
<1>4. AskedSoFar(u)'
  BY <1>1, <1>2 DEF UploadInv, AskedSoFar, Norms, Working
<1>5. FoundAreNew(u)'
  <2>1. \A p \in found[u] : p[2] \in Fields =>
          [supplier |-> Supplier[u], header |-> p[1], field |-> p[2]] \in stored'
    BY <1>1 DEF Post
  <2> QED BY <1>1, <1>2, <2>1 DEF UploadInv, FoundAreNew, Unknown, Extra
<1>6. SentAreNew(u)' /\ ResultsKept(u)'
  BY <1>1, SentStaysNew, ResultsStay
<1> QED BY <1>3, <1>4, <1>5, <1>6 DEF UploadInv

\* What the final mapping says of a header of the table.
LEMMA FinalMappingIsOk ==
    ASSUME IInv, NEW u \in Uploads, pc[u] = "build", NEW h \in DOMAIN FinalMapping(u)
    PROVE  NameOk(u, tab[u], h, FinalMapping(u)[h])
<1> USE DEF IInv
<1>1. /\ \A p \in found[u] : Unknown(u, p[1]) \/ Extra(u, tab[u], p[1], p[2])
      /\ \A g \in DOMAIN latest[u] : <<g, latest[u][g]>> \in found[u]
      /\ \A p \in found[u] : p[2] \in Fields =>
            [supplier |-> Supplier[u], header |-> p[1], field |-> p[2]] \in stored
  BY DEF UploadInv, FoundAreNew, Working
<1>2. DOMAIN Known(u) = DOMAIN sup[u] \cup DOMAIN gen[u]
  BY DEF Known, Over
<1>3. /\ DOMAIN FinalMapping(u) = DOMAIN latest[u] \cup DOMAIN Known(u)
      /\ h \in DOMAIN latest[u] => FinalMapping(u)[h] = latest[u][h]
      /\ h \in DOMAIN Known(u) /\ h \notin DOMAIN latest[u] => FinalMapping(u)[h] = Known(u)[h]
  BY DEF FinalMapping, Known, Over
<1>4. CASE h \in DOMAIN latest[u]
  <2> DEFINE f == latest[u][h]
  <2>1. <<h, f>> \in found[u] /\ FinalMapping(u)[h] = f
    BY <1>1, <1>3, <1>4
  <2>2. Unknown(u, h) \/ Extra(u, tab[u], h, f)
    BY <1>1, <2>1
  <2>3. Unknown(u, h) => h \notin DOMAIN Known(u)
    BY <1>2 DEF Unknown, Skip
  <2>4. f \in Fields => [supplier |-> Supplier[u], header |-> h, field |-> f] \in stored
    BY <1>1, <2>1
  <2> QED BY <2>1, <2>2, <2>3, <2>4 DEF NameOk
<1>5. CASE h \notin DOMAIN latest[u]
  BY <1>3, <1>5 DEF NameOk
<1> QED BY <1>4, <1>5

LEMMA BuildResultKeeps ==
    ASSUME IInv, NEW u \in Uploads, Frame(u), BuildResult(u)
    PROVE  UploadInv(u)'
<1> USE DEF IInv, Shape
<1> DEFINE m == FinalMapping(u)
           columns == {c \in DOMAIN Header(u) : Header(u)[c] \in DOMAIN m}
<1>0. PICK result : result = [table |-> tab[u], fields |-> [c \in columns |-> m[Header(u)[c]]]]
  OBVIOUS
<1>1. /\ pc[u] = "build" /\ pc'[u] = "table" /\ tab'[u] = tab[u] + 1
      /\ UNCHANGED <<sup, gen, sent, stored, unasked>>
      /\ mapped'[u] = mapped[u] \cup {result}
  <2>1. tab' = [tab EXCEPT ![u] = @ + 1] /\ pc' = [pc EXCEPT ![u] = "table"]
    BY DEF BuildResult, NextTable, Goto
  <2>2. mapped' = [mapped EXCEPT ![u] = @ \cup {result}]
    BY <1>0 DEF BuildResult
  <2> QED BY <2>1, <2>2 DEF BuildResult, laravel, work
<1>2. tab[u] \in 1 .. Len(Tables[u]) /\ Len(Tables[u]) \in Nat
  BY <1>1, TableCount DEF UploadInv, Placed, Working
<1>3. SentAreNew(u)'
  BY <1>1, SentStaysNew
<1>4. Placed(u)'
  BY <1>1, <1>2 DEF Placed, Working
<1>5. AskedSoFar(u)' /\ FoundAreNew(u)'
  BY <1>1 DEF AskedSoFar, FoundAreNew, Working
<1>6. ResultsKept(u)'
  <2>1. Known(u)' = Known(u) /\ Settled(u)'
    BY <1>1 DEF Known, Settled
  <2>2. ASSUME NEW r \in mapped[u]
        PROVE  /\ r.table \in 1 .. tab'[u] - 1
               /\ DOMAIN r.fields \subseteq DOMAIN Tables[u][r.table]
               /\ \A c \in DOMAIN r.fields : FieldOk(u, r, c)'
    <3>1. /\ r.table \in 1 .. tab[u] - 1
          /\ DOMAIN r.fields \subseteq DOMAIN Tables[u][r.table]
          /\ \A c \in DOMAIN r.fields : FieldOk(u, r, c)
      BY DEF UploadInv, ResultsKept
    <3>2. \A c \in DOMAIN r.fields : FieldOk(u, r, c)'
      BY <1>1, <2>1, <3>1 DEF FieldOk, NameOk, Extra
    <3> QED BY <1>1, <1>2, <3>1, <3>2
  <2>3. /\ result.table \in 1 .. tab'[u] - 1
        /\ DOMAIN result.fields \subseteq DOMAIN Tables[u][result.table]
        /\ \A c \in DOMAIN result.fields : FieldOk(u, result, c)'
    <3>1. result.table \in 1 .. tab'[u] - 1
      BY <1>0, <1>1, <1>2
    <3>2. DOMAIN result.fields = columns /\ Tables[u][result.table] = Header(u)
      BY <1>0 DEF Header
    <3>3. ASSUME NEW c \in columns PROVE FieldOk(u, result, c)'
      <4>1. result.fields[c] = m[Header(u)[c]] /\ Header(u)[c] \in DOMAIN m
        BY <1>0
      <4> HIDE DEF m, columns
      <4>2. NameOk(u, tab[u], Header(u)[c], m[Header(u)[c]])
        BY <1>1, <4>1, FinalMappingIsOk DEF m
      <4>3. FieldOk(u, result, c)
        BY <1>0, <3>2, <4>1, <4>2 DEF FieldOk
      <4> QED BY <1>1, <2>1, <4>3 DEF FieldOk, NameOk, Extra
    <3> QED BY <3>1, <3>2, <3>3
  <2> QED BY <1>1, <2>1, <2>2, <2>3 DEF ResultsKept
<1> QED BY <1>3, <1>4, <1>5, <1>6 DEF UploadInv

-----------------------------------------------------------------------------
LEMMA OwnInvariantStays ==
    ASSUME IInv, NEW u \in Uploads, Step(u), Frame(u)
    PROVE  UploadInv(u)'
<1> USE DEF IInv, Shape
<1>1. CASE Parse(u) \/ Fails(u, "parse") \/ Fails(u, "supplier") \/ Fails(u, "general")
  BY <1>1, ReadingKeeps DEF Parse, Fails, Goto, Settled, work, laravel
<1>2. CASE GetSupplierMappings(u)
  BY <1>2, ReadingKeeps DEF GetSupplierMappings, Goto, Settled, work, laravel
<1>3. CASE GetGeneralMappings(u)
  BY <1>3, ReadingKeeps DEF GetGeneralMappings, Goto, Settled, work, laravel
<1>4. CASE StartTable(u) \/ AskModel(u) \/ CreateMappings(u) \/ BuildResult(u)
  BY <1>4, StartTableKeeps, AskModelKeeps, CreateMappingsKeeps, BuildResultKeeps
<1>5. CASE AskModelFails(u)
  BY <1>5, GivingUpKeeps DEF AskModelFails, NextTable, Goto, Settled, Working, work, laravel
<1>6. CASE CreateMappingsFails(u)
  BY <1>6, GivingUpKeeps DEF CreateMappingsFails, NextTable, Goto, Settled, Working, work, laravel
<1>7. CASE MarkJobFailed(u)
  BY <1>7, GivingUpKeeps DEF MarkJobFailed, Goto, Settled, Working
<1> QED BY <1>1, <1>2, <1>3, <1>4, <1>5, <1>6, <1>7 DEF Step

\* What Laravel has beyond the start was posted, and names a field it knows.
LEMMA StoredStaysOk ==
    ASSUME IInv, NEW u \in Uploads, Step(u)
    PROVE  StoredOk'
<1>1. Post(u) \/ stored' = stored
  BY DEF Step, Parse, Fails, GetSupplierMappings, GetGeneralMappings, StartTable, AskModel,
         AskModelFails, CreateMappings, CreateMappingsFails, BuildResult, MarkJobFailed, laravel
<1>2. CASE stored' = stored
  BY <1>2 DEF IInv, StoredOk
<1>3. CASE Post(u)
  <2>1. \A m \in stored' : m \in stored \/ (m.field \in Fields /\ m.supplier = Supplier[u])
    BY <1>3 DEF Post
  <2> QED BY <2>1 DEF IInv, StoredOk
<1> QED BY <1>1, <1>2, <1>3

LEMMA InvariantStarts == Init => IInv
<1> SUFFICES ASSUME Init PROVE IInv
  OBVIOUS
<1>1. Shape
  BY DEF Init, Shape, Calls
<1>2. ASSUME NEW u \in Uploads PROVE UploadInv(u)
  <2>1. /\ pc[u] = "parse" /\ tab[u] = 1 /\ mapped[u] = {} /\ sent = {}
    BY DEF Init
  <2> QED BY <2>1, TableCount DEF UploadInv, Placed, AskedSoFar, FoundAreNew, SentAreNew,
                                  ResultsKept, Working
<1> QED BY <1>1, <1>2 DEF Init, IInv, StoredOk

LEMMA InvariantStays == IInv /\ [Next]_vars => IInv'
<1> SUFFICES ASSUME IInv, [Next]_vars PROVE IInv'
  OBVIOUS
<1>1. CASE Next
  <2>1. PICK u \in Uploads : Step(u)
    BY <1>1 DEF Next
  <2>2. Frame(u)
    BY <2>1, StepFrame DEF IInv
  <2>3. \A x \in Uploads : UploadInv(x)'
    BY <2>1, <2>2, OwnInvariantStays, OthersStay
  <2>4. \A m \in sent' : m.upload \in Uploads
    BY <2>2 DEF Frame, IInv
  <2> QED BY <2>1, <2>2, <2>3, <2>4, StoredStaysOk DEF IInv, Frame
<1>2. CASE UNCHANGED vars
  <2>1. /\ UNCHANGED <<pc, sup, gen, tab, todo, found, latest, asked, unasked, mapped>>
        /\ UNCHANGED <<sent, stored, job>>
    BY <1>2 DEF vars
  <2>2. ASSUME NEW u \in Uploads PROVE UploadInv(u)'
    <3>1. /\ Header(u)' = Header(u) /\ Skip(u)' = Skip(u) /\ Known(u)' = Known(u)
          /\ Settled(u)' = Settled(u) /\ Working(u)' = Working(u)
      BY <2>1 DEF Header, Skip, Known, Settled, Working
    <3>2. Candidates(u)' = Candidates(u)
      BY <3>1 DEF Candidates
    <3>3. Placed(u)' /\ AskedSoFar(u)'
      BY <2>1, <3>1, <3>2 DEF IInv, UploadInv, Placed, AskedSoFar, Norms
    <3>4. FoundAreNew(u)' /\ SentAreNew(u)'
      BY <2>1, <3>1 DEF IInv, UploadInv, FoundAreNew, Unknown, Extra, SentAreNew
    <3>5. ResultsKept(u)'
      BY <2>1, <3>1 DEF IInv, UploadInv, ResultsKept, FieldOk, NameOk, Extra
    <3> QED BY <3>3, <3>4, <3>5 DEF UploadInv
  <2> QED BY <2>1, <2>2 DEF IInv, Shape, StoredOk
<1> QED BY <1>1, <1>2

LEMMA InvariantHolds == Spec => []IInv
  BY InvariantStarts, InvariantStays, PTL DEF Spec

-----------------------------------------------------------------------------
\* Every variable has its type; Laravel gains only mappings to known fields.
THEOREM TypeCorrect == Spec => []TypeOK
<1>1. IInv => TypeOK
  <2> SUFFICES ASSUME IInv PROVE TypeOK
    OBVIOUS
  <2>1. ASSUME NEW u \in Uploads
        PROVE  /\ tab[u] \in 1 .. Len(Tables[u]) + 1
               /\ pc[u] = "ask" => todo[u] # {} /\ todo[u] \subseteq DOMAIN Header(u)
               /\ pc[u] = "build" => todo[u] = {}
               /\ \A r \in mapped[u] :
                     r.table \in 1 .. tab[u] - 1 /\ DOMAIN r.fields \subseteq DOMAIN Tables[u][r.table]
    <3>1. UploadInv(u)
      BY DEF IInv
    <3> QED BY <3>1 DEF UploadInv, Placed, ResultsKept, Candidates
  <2> QED BY <2>1 DEF IInv, Shape, Calls, StoredOk, TypeOK
<1> QED BY <1>1, InvariantHolds, PTL

\* However the candidates fall into batches, and whatever columns repeat a
\* header, none is forgotten when the answers are used.
THEOREM NoCandidateForgotten == Spec => []EveryCandidateAsked
<1>1. IInv => EveryCandidateAsked
  <2> SUFFICES ASSUME IInv, NEW u \in Uploads, pc[u] \in {"create", "build"}
               PROVE  {Norm(h) : h \in asked[u]}
                        = {Norm(Header(u)[c]) : c \in Candidates(u)} \ {BlankNorm}
    BY DEF EveryCandidateAsked
  <2>1. todo[u] = {} /\ {Norm(h) : h \in asked[u]} = Norms(u, Candidates(u) \ todo[u])
    BY DEF IInv, UploadInv, Placed, AskedSoFar, Working
  <2> QED BY <2>1 DEF Norms
<1> QED BY <1>1, InvariantHolds, PTL

\* Whatever the model answers, a header that the upload found known, in whatever
\* case, is posted only if the model named it unasked.
THEOREM KnownIsNotSent == Spec => []OnlyUnknownSent
<1>1. IInv => OnlyUnknownSent
  BY DEF IInv, UploadInv, SentAreNew, Extra, OnlyUnknownSent
<1> QED BY <1>1, InvariantHolds, PTL

\* Whatever the model answers, a known mapping gives way in a result only to one that
\* the model gave unasked for that table.
THEOREM KnownFieldsStay == Spec => []KnownFieldsKept
<1>1. IInv => KnownFieldsKept
  BY DEF IInv, UploadInv, ResultsKept, FieldOk, NameOk, Extra, KnownFieldsKept
<1> QED BY <1>1, InvariantHolds, PTL

\* A failed call to Laravel leaves no field in a result that Laravel lacks, not even
\* in the place of a known one.
THEOREM ResultsAreStored == Spec => []MappedIsStored
<1>1. IInv => MappedIsStored
  BY DEF IInv, UploadInv, ResultsKept, FieldOk, NameOk, MappedIsStored
<1> QED BY <1>1, InvariantHolds, PTL
-----------------------------------------------------------------------------
(***************************************************************************)
(* What a step may change, for the two properties that hold only of some    *)
(* tables and headers: mappings are read once, posted only from "create",   *)
(* and found only by asking.                                                *)
(***************************************************************************)
LEMMA ReadingsDomain ==
    ASSUME NEW s, NEW f \in Readings(s)
    PROVE  DOMAIN f = {m.header : m \in {n \in stored : n.supplier = s}}
<1> DEFINE rows  == {n \in stored : n.supplier = s}
           pairs == {<<m.header, m.field>> : m \in rows}
<1>1. {p[1] : p \in pairs} = {m.header : m \in rows}
  <2> HIDE DEF rows
  <2>1. ASSUME NEW p \in pairs PROVE p[1] \in {m.header : m \in rows}
    OBVIOUS
  <2>2. ASSUME NEW m \in rows PROVE m.header \in {p[1] : p \in pairs}
    <3>1. <<m.header, m.field>> \in pairs /\ <<m.header, m.field>>[1] = m.header
      OBVIOUS
    <3> QED BY <3>1
  <2> QED BY <2>1, <2>2
<1>2. DOMAIN f = {p[1] : p \in pairs}
  BY DEF Readings, LastOnes
<1> QED BY <1>1, <1>2

LEMMA KnownStays ==
    ASSUME Shape, NEW u \in Uploads, Step(u), Settled(u)
    PROVE  sup'[u] = sup[u] /\ gen'[u] = gen[u] /\ Settled(u)'
<1> USE DEF Shape, Settled, Goto
<1>1. sup'[u] = sup[u] /\ gen'[u] = gen[u]
  BY DEF Step, Parse, Fails, GetSupplierMappings, GetGeneralMappings, StartTable, AskModel,
         AskModelFails, CreateMappings, CreateMappingsFails, BuildResult, MarkJobFailed
<1>2. \E call \in {"table", "ask", "create", "build", "done", "failed"} :
        pc' = [pc EXCEPT ![u] = call]
  BY DEF Step, Parse, Fails, GetSupplierMappings, GetGeneralMappings, StartTable, AskModel,
         AskModelFails, CreateMappings, CreateMappingsFails, BuildResult, MarkJobFailed, NextTable
<1> QED BY <1>1, <1>2

\* What u knows after it has read the mappings: all that was stored for it.
LEMMA KnownIsRead ==
    ASSUME Shape, NEW u \in Uploads, Step(u)
    PROVE  \/ sup'[u] = sup[u] /\ gen'[u] = gen[u]
           \/ /\ pc[u] = "supplier" /\ pc'[u] = "general" /\ gen'[u] = gen[u]
              /\ DOMAIN sup'[u] = {m.header : m \in {n \in stored : n.supplier = Supplier[u]}}
           \/ /\ pc[u] = "general" /\ pc'[u] = "table" /\ sup'[u] = sup[u]
              /\ DOMAIN gen'[u] = {m.header : m \in {n \in stored : n.supplier = Global}}
<1> USE DEF Shape
<1>1. CASE GetSupplierMappings(u)
  <2>1. PICK f \in Readings(Supplier[u]) : sup' = [sup EXCEPT ![u] = f]
    BY <1>1 DEF GetSupplierMappings
  <2>2. DOMAIN f = {m.header : m \in {n \in stored : n.supplier = Supplier[u]}}
    BY ReadingsDomain
  <2>3. sup'[u] = f
    BY <2>1
  <2>4. pc[u] = "supplier" /\ pc'[u] = "general" /\ gen'[u] = gen[u]
    BY <1>1 DEF GetSupplierMappings, Goto
  <2> QED BY <2>2, <2>3, <2>4
<1>2. CASE GetGeneralMappings(u)
  <2>1. PICK f \in Readings(Global) : gen' = [gen EXCEPT ![u] = f]
    BY <1>2 DEF GetGeneralMappings
  <2>2. DOMAIN f = {m.header : m \in {n \in stored : n.supplier = Global}}
    BY ReadingsDomain
  <2>3. gen'[u] = f
    BY <2>1
  <2>4. pc[u] = "general" /\ pc'[u] = "table" /\ sup'[u] = sup[u]
    BY <1>2 DEF GetGeneralMappings, Goto
  <2> QED BY <2>2, <2>3, <2>4
<1>3. CASE ~GetSupplierMappings(u) /\ ~GetGeneralMappings(u)
  BY <1>3 DEF Step, Parse, Fails, StartTable, AskModel, AskModelFails, CreateMappings,
              CreateMappingsFails, BuildResult, MarkJobFailed
<1> QED BY <1>1, <1>2, <1>3

LEMMA OnlyCreatePosts ==
    ASSUME Shape, NEW u \in Uploads, Step(u)
    PROVE  \/ UNCHANGED <<stored, sent>>
           \/ /\ Post(u) /\ pc[u] = "create"
              /\ \/ pc'[u] = "build" /\ tab'[u] = tab[u]
                 \/ pc'[u] = "table" /\ tab'[u] = tab[u] + 1
<1>1. CASE CreateMappings(u)
  BY <1>1 DEF CreateMappings, Goto, Shape
<1>2. CASE CreateMappingsFails(u)
  BY <1>2 DEF CreateMappingsFails, NextTable, Goto, Shape, laravel
<1>3. CASE ~CreateMappings(u) /\ ~CreateMappingsFails(u)
  BY <1>3 DEF Step, Parse, Fails, GetSupplierMappings, GetGeneralMappings, StartTable, AskModel,
         AskModelFails, BuildResult, MarkJobFailed, laravel
<1> QED BY <1>1, <1>2, <1>3

\* What the model is asked about are headers of the table.
LEMMA AskedAreHeaders ==
    ASSUME IInv, NEW u \in Uploads, pc[u] = "ask"
    PROVE  LET hs == UniqueHeaders(Header(u), Batch(todo[u]))
           IN  /\ hs \in SUBSET Names
               /\ \A h \in hs : \E c \in DOMAIN Header(u) : h = Header(u)[c]
<1>1. /\ tab[u] \in 1 .. Len(Tables[u]) + 1 /\ tab[u] <= Len(Tables[u])
      /\ todo[u] \subseteq Candidates(u)
  BY DEF IInv, UploadInv, Placed, Working
<1>2. \A c \in DOMAIN Header(u) : Header(u)[c] \in Names
  BY <1>1, TableCount, HeadersOfTable DEF Header
<1>3. Batch(todo[u]) \subseteq DOMAIN Header(u)
  BY <1>1 DEF Batch, Candidates
<1> QED BY <1>2, <1>3 DEF UniqueHeaders

LEMMA FoundIsAnswered ==
    ASSUME IInv, NEW u \in Uploads, Step(u), Working(u)', NEW p \in found'[u]
    PROVE  /\ Working(u) /\ tab'[u] = tab[u]
           /\ \/ p \in found[u]
              \/ /\ pc[u] = "ask"
                 /\ LET hs == UniqueHeaders(Header(u), Batch(todo[u]))
                    IN  /\ \E a \in ModelAnswers(hs) : \E q \in a : p[1] = q[1]
                        /\ Norm(p[1]) \in {Norm(h) : h \in hs} \/ Extra(u, tab[u], p[1], p[2])'
<1> USE DEF IInv, Shape
<1>1. CASE StartTable(u)
  BY <1>1 DEF StartTable
<1>2. CASE AskModel(u)
  <2> DEFINE hs == UniqueHeaders(Header(u), Batch(todo[u]))
  <2>0. PICK answer \in {Normalised(a) : a \in ModelAnswers(hs)} :
          /\ found' = [found EXCEPT ![u] = @ \cup answer]
          /\ unasked' = unasked \cup Volunteered(u, hs, answer)
    BY <1>2 DEF AskModel
  <2>1. PICK a \in ModelAnswers(hs) : answer = Normalised(a)
    BY <2>0
  <2>2. pc[u] = "ask" /\ tab'[u] = tab[u]
    BY <1>2 DEF AskModel
  <2>3. p \in found[u] \/ p \in Normalised(a)
    BY <2>0, <2>1
  <2> HIDE DEF hs
  <2>4. ASSUME p \in Normalised(a)
        PROVE  /\ \E q \in a : p[1] = q[1]
               /\ Norm(p[1]) \in {Norm(h) : h \in hs} \/ Extra(u, tab[u], p[1], p[2])'
    <3>0. PICK q \in a : p = <<q[1], IF q[2] = "" THEN "unknown" ELSE q[2]>>
      BY <2>4 DEF Normalised
    <3>1. p[1] = q[1]
      BY <3>0
    <3>2. CASE Norm(p[1]) \notin {Norm(h) : h \in hs}
      <4>1. Given(u, tab[u], p[1], p[2]) \in Volunteered(u, hs, Normalised(a))
        BY <2>4, <3>2 DEF Volunteered
      <4> QED BY <2>0, <2>1, <2>2, <3>1, <4>1 DEF Extra
    <3> QED BY <3>1, <3>2
  <2> QED BY <2>2, <2>3, <2>4 DEF Working, hs
<1>3. CASE CreateMappings(u)
  BY <1>3 DEF CreateMappings, work, Working
<1>4. CASE ~StartTable(u) /\ ~AskModel(u) /\ ~CreateMappings(u)
  <2>1. \E call \in {"supplier", "general", "table", "done", "failed"} :
          pc' = [pc EXCEPT ![u] = call]
    BY <1>4 DEF Step, Parse, Fails, GetSupplierMappings, GetGeneralMappings, AskModelFails,
                CreateMappingsFails, BuildResult, MarkJobFailed, NextTable, Goto
  <2> QED BY <2>1 DEF Working
<1> QED BY <1>1, <1>2, <1>3, <1>4

\* A result calls every column whose header was known by its field.
LEMMA ResultsCoverKnown ==
    ASSUME IInv, NEW u \in Uploads, Step(u), NEW r \in mapped'[u]
    PROVE  \/ r \in mapped[u]
           \/ /\ pc[u] = "build" /\ r.table = tab[u]
              /\ \A c \in DOMAIN Header(u) :
                    Header(u)[c] \in DOMAIN Known(u) => c \in DOMAIN r.fields
<1> USE DEF IInv, Shape
<1>1. CASE BuildResult(u)
  <2> DEFINE m == FinalMapping(u)
             columns == {c \in DOMAIN Header(u) : Header(u)[c] \in DOMAIN m}
  <2>1. mapped' = [mapped EXCEPT ![u] = @ \cup
           {[table |-> tab[u], fields |-> [c \in columns |-> m[Header(u)[c]]]]}]
    BY <1>1 DEF BuildResult
  <2>2. DOMAIN Known(u) \subseteq DOMAIN m
    BY DEF FinalMapping, Over
  <2> HIDE DEF m
  <2>3. r \in mapped[u] \/ r = [table |-> tab[u], fields |-> [c \in columns |-> m[Header(u)[c]]]]
    BY <2>1
  <2>4. pc[u] = "build"
    BY <1>1 DEF BuildResult
  <2> QED BY <2>2, <2>3, <2>4
<1>2. CASE ~BuildResult(u)
  BY <1>2 DEF Step, Parse, Fails, GetSupplierMappings, GetGeneralMappings, StartTable, AskModel,
         AskModelFails, CreateMappings, CreateMappingsFails, MarkJobFailed
<1> QED BY <1>1, <1>2

-----------------------------------------------------------------------------
(***************************************************************************)
(* Where a header has one spelling, a known header is mapped: the header    *)
(* whose norm is skipped is then the very one that is known, and the result *)
(* looks headers up as they are spelled.                                    *)
(***************************************************************************)
Written == Names \cup {m.header : m \in Stored0}

\* What u knows and has found is written as headers are, and its results call
\* by its field every column whose header it knows as it is spelled.
SpelledAs(u) ==
    /\ DOMAIN Known(u) \subseteq Written
    /\ Working(u) => \A p \in found[u] : p[1] \in Written
    /\ \A r \in mapped[u] : \A c \in DOMAIN Tables[u][r.table] :
          Tables[u][r.table][c] \in DOMAIN Known(u) => c \in DOMAIN r.fields

Spelling ==
    /\ \A m \in stored : m.header \in Written
    /\ \A u \in Uploads : SpelledAs(u)

LEMMA KnownDomain ==
    ASSUME NEW u
    PROVE  DOMAIN Known(u) = DOMAIN sup[u] \cup DOMAIN gen[u]
  BY DEF Known, Over

LEMMA StoredStaysWritten ==
    ASSUME IInv, Spelling, NEW u \in Uploads, Step(u)
    PROVE  \A m \in stored' : m.header \in Written
<1>1. CASE UNCHANGED <<stored, sent>>
  BY <1>1 DEF Spelling
<1>2. CASE Post(u) /\ pc[u] = "create"
  <2>1. \A p \in found[u] : p[1] \in Written
    BY <1>2 DEF Spelling, SpelledAs, Working
  <2>2. \A m \in stored' : m \in stored \/ \E p \in found[u] : m.header = p[1]
    BY <1>2 DEF Post
  <2> QED BY <2>1, <2>2 DEF Spelling
<1> QED BY <1>1, <1>2, OnlyCreatePosts DEF IInv

LEMMA OwnSpellingStays ==
    ASSUME OneSpelling, IInv, Spelling, NEW u \in Uploads, Step(u), Frame(u)
    PROVE  SpelledAs(u)'
<1>1. SpelledAs(u) /\ Shape /\ UploadInv(u)
  BY DEF Spelling, IInv
<1>2. \A p \in found'[u] : Working(u)' => p[1] \in Written
  <2> SUFFICES ASSUME Working(u)', NEW p \in found'[u] PROVE p[1] \in Written
    OBVIOUS
  <2>1. CASE p \in found[u]
    BY <1>1, <2>1, FoundIsAnswered DEF SpelledAs
  <2>2. CASE p \notin found[u]
    <3>1. \E a \in ModelAnswers(UniqueHeaders(Header(u), Batch(todo[u]))) :
             \E q \in a : p[1] = q[1]
      BY <2>2, FoundIsAnswered
    <3>2. UniqueHeaders(Header(u), Batch(todo[u])) \in SUBSET Names
      BY <2>2, FoundIsAnswered, AskedAreHeaders
    <3> QED BY <3>1, <3>2 DEF OneSpelling, Written
  <2> QED BY <2>1, <2>2
<1>3. CASE Settled(u)
  <2>1. Known(u)' = Known(u)
    BY <1>1, <1>3, KnownStays DEF Known
  <2>2. \A r \in mapped'[u] : \A c \in DOMAIN Tables[u][r.table] :
          Tables[u][r.table][c] \in DOMAIN Known(u) => c \in DOMAIN r.fields
    BY <1>1, ResultsCoverKnown DEF SpelledAs, Header
  <2> QED BY <1>1, <1>2, <2>1, <2>2 DEF SpelledAs
<1>4. CASE ~Settled(u)
  <2>1. mapped'[u] = {}
    BY <1>1, <1>4, ResultsCoverKnown DEF UploadInv, ResultsKept, Settled
  <2>2. DOMAIN sup'[u] \cup DOMAIN gen'[u] \subseteq Written
    <3>1. DOMAIN sup[u] \subseteq Written /\ DOMAIN gen[u] \subseteq Written
      BY <1>1, KnownDomain DEF SpelledAs
    <3>2. \A s : {m.header : m \in {n \in stored : n.supplier = s}} \subseteq Written
      BY DEF Spelling
    <3> QED BY <1>1, <3>1, <3>2, KnownIsRead
  <2>3. DOMAIN Known(u)' \subseteq Written
    BY <2>2 DEF Known, Over
  <2> QED BY <1>2, <2>1, <2>3 DEF SpelledAs
<1> QED BY <1>3, <1>4

LEMMA OthersSpellingStays ==
    ASSUME Spelling, NEW u \in Uploads, Frame(u), NEW x \in Uploads \ {u}
    PROVE  SpelledAs(x)'
<1>1. /\ pc'[x] = pc[x] /\ sup'[x] = sup[x] /\ gen'[x] = gen[x]
      /\ found'[x] = found[x] /\ mapped'[x] = mapped[x]
  BY DEF Frame
<1> QED BY <1>1 DEF Spelling, SpelledAs, Known, Working

LEMMA SpellingStarts == Init => Spelling
<1> SUFFICES ASSUME Init PROVE Spelling
  OBVIOUS
<1>1. \A m \in stored : m.header \in Written
  BY DEF Init, Written
<1>2. ASSUME NEW u \in Uploads PROVE SpelledAs(u)
  <2>1. pc[u] = "parse" /\ sup[u] = None /\ gen[u] = None /\ mapped[u] = {}
    BY DEF Init
  <2>2. DOMAIN Known(u) = {}
    BY <2>1, KnownDomain DEF None
  <2> QED BY <2>1, <2>2 DEF SpelledAs, Working
<1> QED BY <1>1, <1>2 DEF Spelling

LEMMA SpellingStays ==
    ASSUME OneSpelling
    PROVE  IInv /\ Spelling /\ [Next]_vars => Spelling'
<1> SUFFICES ASSUME IInv, Spelling, [Next]_vars PROVE Spelling'
  OBVIOUS
<1>1. CASE Next
  <2>1. PICK u \in Uploads : Step(u)
    BY <1>1 DEF Next
  <2>2. Frame(u)
    BY <2>1, StepFrame DEF IInv
  <2>3. \A x \in Uploads : SpelledAs(x)'
    BY <2>1, <2>2, OwnSpellingStays, OthersSpellingStays
  <2> QED BY <2>1, <2>3, StoredStaysWritten DEF Spelling
<1>2. CASE UNCHANGED vars
  BY <1>2 DEF vars, Spelling, SpelledAs, Known, Working
<1> QED BY <1>1, <1>2

LEMMA SkippedIsKnown ==
    ASSUME OneSpelling, IInv, Spelling
    PROVE  KnownHeadersAreMapped
<1> SUFFICES ASSUME NEW u \in Uploads, NEW r \in mapped[u], NEW c \in DOMAIN Tables[u][r.table],
                    Norm(Tables[u][r.table][c]) \in Skip(u)
             PROVE  c \in DOMAIN r.fields
  BY DEF KnownHeadersAreMapped
<1> DEFINE h == Tables[u][r.table][c]
<1>1. PICK g \in DOMAIN Known(u) : Norm(g) = Norm(h)
  BY KnownDomain DEF Skip
<1>2. tab[u] \in 1 .. Len(Tables[u]) + 1 /\ r.table \in 1 .. tab[u] - 1
  BY DEF IInv, UploadInv, Placed, ResultsKept
<1>3. r.table \in 1 .. Len(Tables[u])
  BY <1>2, TableCount
<1>4. h \in Written
  BY <1>3, HeadersOfTable DEF Written
<1>5. g \in Written
  BY <1>1 DEF Spelling, SpelledAs
<1>6. g = h
  BY <1>1, <1>4, <1>5 DEF OneSpelling, Written
<1> QED BY <1>1, <1>6 DEF Spelling, SpelledAs

\* A known header is never skipped without being mapped, where each header has
\* one spelling: that it has several is all that is wrong in the run that finds
\* the property violated.
THEOREM KnownAreMapped ==
    ASSUME OneSpelling
    PROVE  Spec => []KnownHeadersAreMapped
<1>1. Init => Spelling
  BY SpellingStarts
<1>2. IInv /\ Spelling /\ [Next]_vars => Spelling'
  BY SpellingStays
<1>3. IInv /\ Spelling => KnownHeadersAreMapped
  BY SkippedIsKnown
<1> QED BY <1>1, <1>2, <1>3, InvariantHolds, PTL DEF Spec

-----------------------------------------------------------------------------
(***************************************************************************)
(* Who writes a header again that was there has missed it in a race: what   *)
(* was stored at first the upload has read, and what was stored since some  *)
(* table has posted, which is not the one at hand.                          *)
(***************************************************************************)
Mapping(u) == pc[u] \in {"table", "ask", "create", "build"}

\* What was stored at first is known, once it has been looked up.
FirstIsKnown(u) ==
    /\ pc[u] = "general" \/ Mapping(u) => Supplier[u] \in {Global, Zero} \/
         \A m \in Stored0 : m.supplier = Supplier[u] => m.header \in DOMAIN sup[u]
    /\ Mapping(u) => \A m \in Stored0 : m.supplier = Global => m.header \in DOMAIN gen[u]

\* No table posts before its turn, nor twice.
SentInTurn(u) ==
    \A m \in sent : m.upload = u =>
        /\ m.table \in Nat
        /\ m.table < tab[u] \/ (m.table = tab[u] /\ pc[u] = "build")

\* The posted mapping s is the row m of Laravel.
IsRow(s, m) == s.supplier = m.supplier /\ s.header = m.header /\ s.field = m.field

Accounts ==
    /\ Stored0 \subseteq stored
    /\ \A m \in stored : m \in Stored0 \/ \E s \in sent : IsRow(s, m)
    /\ \A u \in Uploads : FirstIsKnown(u) /\ SentInTurn(u)

LEMMA TableAtHand ==
    ASSUME IInv, NEW u \in Uploads
    PROVE  /\ tab[u] \in Nat
           /\ Working(u) => tab[u] \in DOMAIN Tables[u]
<1>1. Tables[u] \in Seq(Seq(Names) \ {<<>>})
  BY TablesAssumption
<1>2. DOMAIN Tables[u] = 1 .. Len(Tables[u]) /\ Len(Tables[u]) \in Nat
  BY <1>1
<1> QED BY <1>2 DEF IInv, UploadInv, Placed

LEMMA RowsStayAccounted ==
    ASSUME IInv, Accounts, NEW u \in Uploads, Step(u)
    PROVE  /\ (Stored0 \subseteq stored)'
           /\ (\A m \in stored : m \in Stored0 \/ \E s \in sent : IsRow(s, m))'
<1>1. CASE UNCHANGED <<stored, sent>>
  BY <1>1 DEF Accounts
<1>2. CASE Post(u)
  <2>1. stored \subseteq stored' /\ sent \subseteq sent'
    BY <1>2 DEF Post
  <2>2. ASSUME NEW m \in stored' \ stored PROVE \E s \in sent' : IsRow(s, m)
    <3>1. PICK p \in found[u] : p[2] \in Fields /\
            m = [supplier |-> Supplier[u], header |-> p[1], field |-> p[2]]
      BY <1>2, <2>2 DEF Post
    <3> DEFINE s == [upload |-> u, table |-> tab[u], supplier |-> Supplier[u],
                     header |-> p[1], field |-> p[2]]
    <3>2. s \in sent'
      BY <1>2, <3>1 DEF Post
    <3> QED BY <3>1, <3>2 DEF IsRow
  <2> QED BY <2>1, <2>2 DEF Accounts
<1> QED BY <1>1, <1>2, OnlyCreatePosts DEF IInv

LEMMA FirstStaysKnown ==
    ASSUME IInv, Accounts, NEW u \in Uploads, Step(u)
    PROVE  FirstIsKnown(u)'
<1> USE DEF IInv, Shape
<1>1. Stored0 \subseteq stored /\ FirstIsKnown(u)
  BY DEF Accounts
<1>2. CASE GetSupplierMappings(u)
  <2>1. /\ pc'[u] = "general"
        /\ DOMAIN sup'[u] = {m.header : m \in {n \in stored : n.supplier = Supplier[u]}}
    <3>1. pc[u] = "supplier" /\ pc'[u] = "general" /\ gen'[u] = gen[u]
      BY <1>2 DEF GetSupplierMappings, Goto
    <3>2. PICK f \in Readings(Supplier[u]) : sup'[u] = f
      BY <1>2 DEF GetSupplierMappings
    <3>3. DOMAIN f = {m.header : m \in {n \in stored : n.supplier = Supplier[u]}}
      BY ReadingsDomain
    <3> QED BY <3>1, <3>2, <3>3
  <2> QED BY <1>1, <2>1 DEF FirstIsKnown, Mapping
<1>3. CASE GetGeneralMappings(u)
  <2>1. /\ pc[u] = "general" /\ pc'[u] = "table" /\ sup'[u] = sup[u]
        /\ DOMAIN gen'[u] = {m.header : m \in {n \in stored : n.supplier = Global}}
    <3>1. pc[u] = "general" /\ pc'[u] = "table" /\ sup'[u] = sup[u]
      BY <1>3 DEF GetGeneralMappings, Goto
    <3>2. PICK f \in Readings(Global) : gen'[u] = f
      BY <1>3 DEF GetGeneralMappings
    <3>3. DOMAIN f = {m.header : m \in {n \in stored : n.supplier = Global}}
      BY ReadingsDomain
    <3> QED BY <3>1, <3>2, <3>3
  <2> QED BY <1>1, <2>1 DEF FirstIsKnown, Mapping
<1>4. CASE Parse(u)
  BY <1>1, <1>4 DEF Parse, Goto, HasSupplier, FirstIsKnown, Mapping
<1>5. CASE ~GetSupplierMappings(u) /\ ~GetGeneralMappings(u) /\ ~Parse(u)
  <2>1. sup'[u] = sup[u] /\ gen'[u] = gen[u]
    BY <1>5 DEF Step, Fails, StartTable, AskModel, AskModelFails, CreateMappings,
                CreateMappingsFails, BuildResult, MarkJobFailed
  <2>2. pc'[u] # "general" /\ (Mapping(u)' => Mapping(u))
    BY <1>5 DEF Step, Fails, StartTable, AskModel, AskModelFails, CreateMappings,
                CreateMappingsFails, BuildResult, MarkJobFailed, NextTable, Goto, Mapping
  <2> QED BY <1>1, <2>1, <2>2 DEF FirstIsKnown
<1> QED BY <1>2, <1>3, <1>4, <1>5

LEMMA OwnTurnsStay ==
    ASSUME IInv, Accounts, NEW u \in Uploads, Step(u)
    PROVE  SentInTurn(u)'
<1>1. SentInTurn(u) /\ tab[u] \in Nat /\ Shape
  BY TableAtHand DEF Accounts, IInv
<1>2. CASE UNCHANGED <<stored, sent>>
  <2>1. \/ tab'[u] = tab[u] /\ pc[u] # "build"
        \/ tab'[u] = tab[u] + 1
    BY <1>1 DEF Shape, Step, Parse, Fails, GetSupplierMappings, GetGeneralMappings, StartTable,
           AskModel, AskModelFails, CreateMappings, CreateMappingsFails, BuildResult,
           MarkJobFailed, NextTable
  <2>2. ASSUME NEW m \in sent, m.upload = u PROVE m.table \in Nat /\ m.table < tab'[u]
    <3>1. m.table \in Nat /\ (m.table < tab[u] \/ (m.table = tab[u] /\ pc[u] = "build"))
      BY <1>1, <2>2 DEF SentInTurn
    <3>2. CASE m.table = tab[u]
      BY <1>1, <2>1, <3>1, <3>2
    <3>3. CASE m.table # tab[u]
      BY <1>1, <2>1, <3>1, <3>3
    <3> QED BY <3>2, <3>3
  <2> QED BY <1>2, <2>2 DEF SentInTurn
<1>3. CASE /\ Post(u) /\ pc[u] = "create"
           /\ \/ pc'[u] = "build" /\ tab'[u] = tab[u]
              \/ pc'[u] = "table" /\ tab'[u] = tab[u] + 1
  <2>1. \A m \in sent' : m \in sent \/ m.table = tab[u]
    BY <1>3 DEF Post
  <2>2. \A m \in sent : m.upload = u => m.table \in Nat /\ m.table < tab[u]
    BY <1>1, <1>3 DEF SentInTurn
  <2> SUFFICES ASSUME NEW m \in sent', m.upload = u
               PROVE  /\ m.table \in Nat
                      /\ m.table < tab'[u] \/ (m.table = tab'[u] /\ pc'[u] = "build")
    BY DEF SentInTurn
  <2>3. CASE m.table = tab[u]
    BY <1>1, <1>3, <2>3
  <2>4. CASE m.table # tab[u] /\ pc'[u] = "build"
    BY <1>3, <2>1, <2>2, <2>4
  <2>5. CASE m.table # tab[u] /\ pc'[u] = "table"
    <3>1. m.table \in Nat /\ m.table < tab[u] /\ tab'[u] = tab[u] + 1
      BY <1>3, <2>1, <2>2, <2>5
    <3> QED BY <1>1, <3>1
  <2> QED BY <1>3, <2>3, <2>4, <2>5
<1> QED BY <1>2, <1>3, OnlyCreatePosts DEF IInv

LEMMA OthersAccountsStay ==
    ASSUME Accounts, NEW u \in Uploads, Frame(u), NEW x \in Uploads \ {u}
    PROVE  FirstIsKnown(x)' /\ SentInTurn(x)'
<1>1. pc'[x] = pc[x] /\ sup'[x] = sup[x] /\ gen'[x] = gen[x] /\ tab'[x] = tab[x]
  BY DEF Frame
<1>2. \A m \in sent' : m.upload = x => m \in sent
  BY DEF Frame
<1> QED BY <1>1, <1>2 DEF Accounts, FirstIsKnown, SentInTurn, Mapping

LEMMA AccountsStart == Init => Accounts
<1> SUFFICES ASSUME Init PROVE Accounts
  OBVIOUS
<1>1. ASSUME NEW u \in Uploads PROVE FirstIsKnown(u) /\ SentInTurn(u)
  BY DEF Init, FirstIsKnown, SentInTurn, Mapping
<1> QED BY <1>1 DEF Init, Accounts

LEMMA AccountsStay == IInv /\ Accounts /\ [Next]_vars => Accounts'
<1> SUFFICES ASSUME IInv, Accounts, [Next]_vars PROVE Accounts'
  OBVIOUS
<1>1. CASE Next
  <2>1. PICK u \in Uploads : Step(u)
    BY <1>1 DEF Next
  <2>2. Frame(u)
    BY <2>1, StepFrame DEF IInv
  <2>3. \A x \in Uploads : FirstIsKnown(x)' /\ SentInTurn(x)'
    BY <2>1, <2>2, FirstStaysKnown, OwnTurnsStay, OthersAccountsStay
  <2> QED BY <2>1, <2>3, RowsStayAccounted DEF Accounts
<1>2. CASE UNCHANGED vars
  BY <1>2 DEF vars, Accounts, FirstIsKnown, SentInTurn, Mapping
<1> QED BY <1>1, <1>2

\* What is posted over a row that is there, unless it is extra, was posted in a race.
LEMMA RewritesRace ==
    ASSUME IInv, Accounts, NEW u \in Uploads, pc[u] = "create", NEW p \in found[u],
           ~Extra(u, tab[u], p[1], p[2]),
           NEW old \in stored, old.supplier \in {Supplier[u], Global} \ {Zero},
           Norm(old.header) = Norm(p[1])
    PROVE  \E s \in sent : IsRow(s, old) /\ (s.upload # u \/ s.table < tab[u])
<1>1. Norm(p[1]) \notin Skip(u) /\ Norm(p[1]) # BlankNorm
  BY DEF IInv, UploadInv, FoundAreNew, Unknown, Working
<1>2. old \notin Stored0
  <2> SUFFICES ASSUME old \in Stored0 PROVE FALSE
    OBVIOUS
  <2>1. FirstIsKnown(u) /\ Mapping(u)
    BY DEF Accounts, Mapping
  <2>2. old.header \in DOMAIN sup[u] \cup DOMAIN gen[u]
    BY <2>1 DEF FirstIsKnown
  <2> QED BY <1>1, <2>2 DEF Skip
<1>3. PICK s \in sent : IsRow(s, old)
  BY <1>2 DEF Accounts
<1>4. s.upload = u => s.table < tab[u]
  BY DEF Accounts, SentInTurn
<1> QED BY <1>3, <1>4

\* In any interleaving of any uploads, whatever fails: where a header is written that
\* Laravel had already, the model was not asked about it, or another table wrote it
\* after this upload had read what was there, or the supplier is 0.
THEOREM RewritesAreRaces == Spec => OnlyRacesRewrite
<1> DEFINE Races ==
      \A m \in sent' \ sent : \A old \in stored :
          /\ old.supplier \in {m.supplier, Global} \ {Zero}
          /\ Norm(old.header) = Norm(m.header)
          /\ Given(m.upload, m.table, m.header, m.field) \notin unasked
          => \E s \in sent :
                /\ s.supplier = old.supplier /\ s.header = old.header /\ s.field = old.field
                /\ s.upload # m.upload \/ s.table < m.table
<1>1. IInv /\ Accounts /\ [Next]_vars => [Races]_vars
  <2> SUFFICES ASSUME IInv, Accounts, Next, NEW m \in sent' \ sent, NEW old \in stored,
                      old.supplier \in {m.supplier, Global} \ {Zero},
                      Norm(old.header) = Norm(m.header),
                      Given(m.upload, m.table, m.header, m.field) \notin unasked
               PROVE  \E s \in sent :
                         /\ s.supplier = old.supplier /\ s.header = old.header
                         /\ s.field = old.field
                         /\ s.upload # m.upload \/ s.table < m.table
    BY DEF Races
  <2>1. PICK u \in Uploads : Step(u)
    BY DEF Next
  <2>2. Post(u) /\ pc[u] = "create"
    BY <2>1, OnlyCreatePosts DEF IInv
  <2>3. PICK p \in found[u] :
          m = [upload |-> u, table |-> tab[u], supplier |-> Supplier[u],
               header |-> p[1], field |-> p[2]]
    BY <2>2 DEF Post
  <2>4. /\ m.upload = u /\ m.table = tab[u] /\ m.supplier = Supplier[u]
        /\ m.header = p[1] /\ m.field = p[2]
    BY <2>3
  <2>5. ~Extra(u, tab[u], p[1], p[2])
    BY <2>4 DEF Extra
  <2>6. \E s \in sent : IsRow(s, old) /\ (s.upload # u \/ s.table < tab[u])
    BY <2>2, <2>4, <2>5, RewritesRace
  <2> QED BY <2>4, <2>6 DEF IsRow
<1>2. Spec => [][Races]_vars
  BY <1>1, AccountsStart, AccountsStay, InvariantHolds, PTL DEF Spec
<1> QED BY <1>2 DEF OnlyRacesRewrite, Races

-----------------------------------------------------------------------------
(***************************************************************************)
(* ManualUpload implements Learning: reading, asking and starting a table   *)
(* are stutters until the table has nothing left to post.                   *)
(***************************************************************************)
\* What was found is about headers of the table at hand, or extra.
FoundHere(u) ==
    Working(u) => \A p \in found[u] :
        \/ Extra(u, tab[u], p[1], p[2])
        \/ \E c \in DOMAIN Header(u) : Norm(p[1]) = Norm(Header(u)[c])

\* Laravel has f, which was read for s.
Has(f, s) ==
    \A h \in DOMAIN f : \E m \in stored : m.supplier = s /\ m.header = h /\ m.field = f[h]

Learner(u) ==
    /\ FoundHere(u)
    /\ Has(sup[u], Supplier[u]) /\ Has(gen[u], Global)
    /\ ~Settled(u) => tab[u] = 1

Learners == \A u \in Uploads : Learner(u)

LEMMA FoundStaysHere ==
    ASSUME IInv, NEW u \in Uploads, FoundHere(u), Step(u), Frame(u)
    PROVE  FoundHere(u)'
<1> SUFFICES ASSUME Working(u)', NEW p \in found'[u], ~Extra(u, tab[u], p[1], p[2])'
             PROVE  (\E c \in DOMAIN Header(u) : Norm(p[1]) = Norm(Header(u)[c]))'
  BY DEF FoundHere
<1>1. Working(u) /\ tab'[u] = tab[u]
  BY FoundIsAnswered
<1>2. Header(u)' = Header(u)
  BY <1>1 DEF Header
<1>3. CASE p \in found[u]
  <2>1. ~Extra(u, tab[u], p[1], p[2])
    BY <1>1 DEF Frame, Extra
  <2> QED BY <1>1, <1>2, <1>3, <2>1 DEF FoundHere
<1>4. CASE p \notin found[u]
  <2> DEFINE hs == UniqueHeaders(Header(u), Batch(todo[u]))
  <2>1. pc[u] = "ask" /\ Norm(p[1]) \in {Norm(h) : h \in hs}
    <3>1. Extra(u, tab[u], p[1], p[2])' => FALSE
      OBVIOUS
    <3> QED BY <1>4, <3>1, FoundIsAnswered
  <2>2. \A h \in hs : \E c \in DOMAIN Header(u) : h = Header(u)[c]
    BY <2>1, AskedAreHeaders
  <2> HIDE DEF hs
  <2> QED BY <1>2, <2>1, <2>2
<1> QED BY <1>3, <1>4

LEMMA ReadingsAreHad ==
    ASSUME NEW s, NEW f \in Readings(s)
    PROVE  Has(f, s)
<1>1. \A h \in DOMAIN f : <<h, f[h]>> \in {<<m.header, m.field>> : m \in {n \in stored : n.supplier = s}}
  BY DEF Readings, LastOnes
<1> QED BY <1>1 DEF Has

LEMMA OwnLearnerStays ==
    ASSUME IInv, Learners, NEW u \in Uploads, Step(u), Frame(u)
    PROVE  Learner(u)'
<1> USE DEF IInv, Shape
<1>1. FoundHere(u)'
  BY FoundStaysHere DEF Learners, Learner
<1>2. \A f, s : Has(f, s) => Has(f, s)'
  BY DEF Frame, Has
<1>3. Has(sup[u], Supplier[u])' /\ Has(gen[u], Global)'
  <2>1. Has(sup[u], Supplier[u]) /\ Has(gen[u], Global)
    BY DEF Learners, Learner
  <2>2. CASE GetSupplierMappings(u)
    <3>1. PICK f \in Readings(Supplier[u]) : sup'[u] = f
      BY <2>2 DEF GetSupplierMappings
    <3>2. Has(f, Supplier[u])
      BY ReadingsAreHad
    <3>3. gen'[u] = gen[u] /\ stored' = stored
      BY <2>2 DEF GetSupplierMappings, laravel
    <3> QED BY <2>1, <3>1, <3>2, <3>3 DEF Has
  <2>3. CASE GetGeneralMappings(u)
    <3>1. PICK f \in Readings(Global) : gen'[u] = f
      BY <2>3 DEF GetGeneralMappings
    <3>2. Has(f, Global)
      BY ReadingsAreHad
    <3>3. sup'[u] = sup[u] /\ stored' = stored
      BY <2>3 DEF GetGeneralMappings, laravel
    <3> QED BY <2>1, <3>1, <3>2, <3>3 DEF Has
  <2>4. CASE ~GetSupplierMappings(u) /\ ~GetGeneralMappings(u)
    <3>1. sup'[u] = sup[u] /\ gen'[u] = gen[u]
      BY <2>4 DEF Step, Parse, Fails, StartTable, AskModel, AskModelFails, CreateMappings,
                  CreateMappingsFails, BuildResult, MarkJobFailed
    <3>2. stored \subseteq stored'
      BY DEF Frame
    <3> QED BY <2>1, <3>1, <3>2 DEF Has
  <2> QED BY <2>2, <2>3, <2>4
<1>4. ~Settled(u)' => tab'[u] = 1
  <2>1. CASE Settled(u)
    BY <2>1, KnownStays
  <2>2. CASE ~Settled(u)
    <3>1. tab'[u] = tab[u]
      BY <2>2 DEF Settled, Step, Parse, Fails, GetSupplierMappings, GetGeneralMappings, StartTable,
            AskModel, AskModelFails, CreateMappings, CreateMappingsFails, BuildResult, MarkJobFailed
    <3> QED BY <2>2, <3>1 DEF Learners, Learner
  <2> QED BY <2>1, <2>2
<1> QED BY <1>1, <1>3, <1>4 DEF Learner

LEMMA OthersLearnerStays ==
    ASSUME Learners, NEW u \in Uploads, Frame(u), NEW x \in Uploads \ {u}
    PROVE  Learner(x)'
<1>1. /\ pc'[x] = pc[x] /\ sup'[x] = sup[x] /\ gen'[x] = gen[x] /\ tab'[x] = tab[x]
      /\ found'[x] = found[x] /\ stored \subseteq stored' /\ unasked \subseteq unasked'
  BY DEF Frame
<1>2. Learner(x)
  BY DEF Learners
<1> QED BY <1>1, <1>2 DEF Learner, FoundHere, Extra, Has, Settled, Working, Header

LEMMA LearnersStay == IInv /\ Learners /\ [Next]_vars => Learners'
<1> SUFFICES ASSUME IInv, Learners, [Next]_vars PROVE Learners'
  OBVIOUS
<1>1. CASE Next
  <2>1. PICK u \in Uploads : Step(u)
    BY <1>1 DEF Next
  <2>2. Frame(u)
    BY <2>1, StepFrame DEF IInv
  <2> QED BY <2>1, <2>2, OwnLearnerStays, OthersLearnerStays DEF Learners
<1>2. CASE UNCHANGED vars
  BY <1>2 DEF vars, Learners, Learner, FoundHere, Extra, Has, Settled, Working, Header
<1> QED BY <1>1, <1>2

LEMMA LearnersStart == Init => Learners
<1> SUFFICES ASSUME Init, NEW u \in Uploads PROVE Learner(u)
  BY DEF Learners
<1>1. pc[u] = "parse" /\ sup[u] = None /\ gen[u] = None /\ tab[u] = 1
  BY DEF Init
<1>2. DOMAIN None = {}
  BY DEF None
<1> QED BY <1>1, <1>2 DEF Learner, FoundHere, Has, Working

-----------------------------------------------------------------------------
Taught == {u \in Uploads : pc[u] = "build"}
Ended  == {u \in Uploads : pc[u] \in {"done", "failed"}}

LEMMA TaughtAndEnded ==
    ASSUME Shape, NEW u \in Uploads, NEW call, pc' = [pc EXCEPT ![u] = call]
    PROVE  /\ Taught' = IF call = "build" THEN Taught \cup {u} ELSE Taught \ {u}
           /\ Ended' = IF call \in {"done", "failed"} THEN Ended \cup {u} ELSE Ended \ {u}
  BY DEF Shape, Taught, Ended

LEMMA PostTeaches ==
    ASSUME IInv, NEW u \in Uploads, FoundHere(u), pc[u] = "create", Post(u)
    PROVE  stored \subseteq stored' /\ \A m \in stored' \ stored : IsLesson(u, tab[u], m, unasked)
<1>1. stored \subseteq stored'
  BY DEF Post
<1>2. ASSUME NEW m \in stored' \ stored PROVE IsLesson(u, tab[u], m, unasked)
  <2>1. PICK p \in found[u] :
          m.supplier = Supplier[u] /\ m.header = p[1] /\ m.field = p[2] /\ m.field \in Fields
    BY <1>2 DEF Post
  <2>2. CASE Extra(u, tab[u], p[1], p[2])
    BY <2>1, <2>2 DEF IsLesson, Extra
  <2>3. CASE ~Extra(u, tab[u], p[1], p[2])
    <3>1. \E c \in DOMAIN Header(u) : Norm(p[1]) = Norm(Header(u)[c])
      BY <2>3 DEF FoundHere, Working
    <3>2. Norm(p[1]) # BlankNorm
      BY <2>3 DEF IInv, UploadInv, FoundAreNew, Working, Unknown
    <3> QED BY <2>1, <3>1, <3>2 DEF IsLesson, Header
  <2> QED BY <2>2, <2>3
<1> QED BY <1>1, <1>2

\* What the final mapping says of a header, Laravel says of it.
LEMMA FinalMappingIsHad ==
    ASSUME IInv, NEW u \in Uploads, Learner(u), pc[u] = "build",
           NEW h \in DOMAIN FinalMapping(u), FinalMapping(u)[h] \in Fields
    PROVE  \E m \in stored : /\ m.supplier \in {Supplier[u], Global}
                             /\ m.header = h /\ m.field = FinalMapping(u)[h]
<1> DEFINE f == FinalMapping(u)[h]
<1>1. NameOk(u, tab[u], h, f)
  BY FinalMappingIsOk
<1>2. CASE h \in DOMAIN Known(u) /\ f = Known(u)[h]
  <2>1. \/ h \in DOMAIN sup[u] /\ Known(u)[h] = sup[u][h]
        \/ h \in DOMAIN gen[u] /\ Known(u)[h] = gen[u][h]
    BY <1>2 DEF Known, Over
  <2> QED BY <1>2, <2>1 DEF Learner, Has
<1>3. CASE [supplier |-> Supplier[u], header |-> h, field |-> f] \in stored
  <2> DEFINE m == [supplier |-> Supplier[u], header |-> h, field |-> f]
  <2>1. m \in stored /\ m.supplier = Supplier[u] /\ m.header = h /\ m.field = f
    BY <1>3
  <2> QED BY <2>1
<1> QED BY <1>1, <1>2, <1>3 DEF NameOk

LEMMA BuildResultAnswers ==
    ASSUME IInv, NEW u \in Uploads, Learner(u), BuildResult(u)
    PROVE  \E r \in mapped'[u] : /\ r.table = tab[u] /\ Truthful(u, r, stored)
                                 /\ mapped' = [mapped EXCEPT ![u] = @ \cup {r}]
<1> DEFINE m == FinalMapping(u)
           columns == {c \in DOMAIN Header(u) : Header(u)[c] \in DOMAIN m}
<1>1. PICK r : r = [table |-> tab[u], fields |-> [c \in columns |-> m[Header(u)[c]]]]
  OBVIOUS
<1>2. pc[u] = "build" /\ mapped' = [mapped EXCEPT ![u] = @ \cup {r}]
  BY <1>1 DEF BuildResult
<1>3. r \in mapped'[u]
  BY <1>2 DEF IInv, Shape
<1>4. r.table = tab[u] /\ DOMAIN r.fields = columns
  BY <1>1
<1>5. ASSUME NEW c \in columns
      PROVE  /\ c \in DOMAIN Tables[u][tab[u]]
             /\ r.fields[c] \in Fields =>
                  \E row \in stored : /\ row.supplier \in {Supplier[u], Global}
                                      /\ row.header = Tables[u][tab[u]][c]
                                      /\ row.field = r.fields[c]
  <2>1. Header(u)[c] \in DOMAIN m /\ r.fields[c] = m[Header(u)[c]]
    BY <1>1
  <2>2. Header(u)[c] = Tables[u][tab[u]][c] /\ c \in DOMAIN Tables[u][tab[u]]
    BY DEF Header
  <2> HIDE DEF columns
  <2> QED BY <1>2, <2>1, <2>2, FinalMappingIsHad
<1>6. Truthful(u, r, stored)
  <2> HIDE DEF columns
  <2> QED BY <1>4, <1>5 DEF Truthful
<1> QED BY <1>2, <1>3, <1>4, <1>6

LEMMA StepLearns ==
    ASSUME IInv, Learners, NEW u \in Uploads, Step(u)
    PROVE  Learns!Next \/ UNCHANGED Learns!vars
<1> DEFINE Still == UNCHANGED <<Taught, Ended, tab, mapped, unasked, stored, job>>
<1>1. Shape /\ Learner(u) /\ Placed(u) /\ tab[u] \in Nat /\ Len(Tables[u]) \in Nat
  BY TableAtHand, TableCount DEF IInv, UploadInv, Learners
<1>2. Still => UNCHANGED Learns!vars
  BY DEF Learns!vars, Taught, Ended
\* Every step goes to one call.
<1>3. ASSUME NEW call, Goto(u, call)
      PROVE  /\ Taught' = IF call = "build" THEN Taught \cup {u} ELSE Taught \ {u}
             /\ Ended' = IF call \in {"done", "failed"} THEN Ended \cup {u} ELSE Ended \ {u}
  BY <1>1, <1>3, TaughtAndEnded DEF Goto
<1>4. /\ u \in Taught <=> pc[u] = "build"
      /\ u \in Ended <=> pc[u] \in {"done", "failed"}
  BY DEF Taught, Ended
<1>4a. ASSUME NEW call \in {"supplier", "general", "table", "ask", "create"}, Goto(u, call),
              pc[u] \in {"parse", "supplier", "general", "table", "ask", "create"}
       PROVE  Taught' = Taught /\ Ended' = Ended /\ u \notin Ended \cup Taught
  <2>1. u \notin Taught /\ u \notin Ended
    BY <1>4, <1>4a
  <2>2. Taught' = Taught \ {u} /\ Ended' = Ended \ {u}
    BY <1>3, <1>4a
  <2> QED BY <2>1, <2>2
<1>5. Learns!AtTable(u) <=> u \notin Ended /\ tab[u] <= Len(Tables[u])
  BY DEF Learns!AtTable, Ended
<1>6. ASSUME Parse(u) \/ GetSupplierMappings(u) \/ GetGeneralMappings(u)
      PROVE  Still
  <2>1. PICK call \in {"supplier", "general", "table"} : Goto(u, call)
    BY <1>6 DEF Parse, GetSupplierMappings, GetGeneralMappings
  <2>2. pc[u] \in {"parse", "supplier", "general"} /\ UNCHANGED <<tab, mapped, unasked, stored, job>>
    BY <1>6 DEF Parse, GetSupplierMappings, GetGeneralMappings, laravel, work
  <2> QED BY <1>4a, <2>1, <2>2
<1>7. ASSUME Fails(u, "parse") \/ Fails(u, "supplier") \/ Fails(u, "general")
      PROVE  Learns!EndEarly(u)
  <2>1. /\ pc[u] \in {"parse", "supplier", "general"} /\ Goto(u, "failed")
        /\ UNCHANGED <<tab, mapped, unasked, stored, job>>
    BY <1>7 DEF Fails, laravel, work
  <2>2. tab[u] = 1
    BY <1>1, <2>1 DEF Learner, Settled
  <2>3. Taught' = Taught /\ Ended' = Ended \cup {u} /\ u \notin Ended \cup Taught
    BY <1>3, <1>4, <2>1
  <2> QED BY <2>1, <2>2, <2>3 DEF Learns!EndEarly, Taught, Ended
\* The table at hand has nothing to teach, or no more than it has posted.
<1>8. ASSUME pc[u] \in {"table", "ask", "create"}, tab[u] <= Len(Tables[u]), Goto(u, "build"),
             UNCHANGED <<tab, mapped, unasked, job>>, stored \subseteq stored',
             \A m \in stored' \ stored : IsLesson(u, tab[u], m, unasked)
      PROVE  Learns!Teach(u)
  <2>1. Taught' = Taught \cup {u} /\ Ended' = Ended /\ u \notin Ended \cup Taught
    BY <1>3, <1>4, <1>8
  <2>2. Learns!Learn(u)
    BY <1>5, <1>8, <2>1 DEF Learns!Learn, Taught, Ended
  <2> QED BY <1>8, <2>1, <2>2 DEF Learns!Teach, Taught
<1>9. ASSUME pc[u] \in {"ask", "create"}, NextTable(u),
             UNCHANGED <<mapped, unasked, job>>, stored \subseteq stored',
             \A m \in stored' \ stored : IsLesson(u, tab[u], m, unasked)
      PROVE  Learns!GiveUp(u)
  <2>1. Goto(u, "table") /\ tab' = [tab EXCEPT ![u] = @ + 1]
    BY <1>9 DEF NextTable
  <2>2. Taught' = Taught /\ Ended' = Ended /\ u \notin Ended \cup Taught
    BY <1>4a, <1>9, <2>1
  <2>3. tab[u] <= Len(Tables[u])
    BY <1>1, <1>9 DEF Placed, Working
  <2>4. Learns!Learn(u)
    BY <1>5, <1>9, <2>2, <2>3 DEF Learns!Learn, Taught, Ended
  <2>5. Learns!Advance(u)
    BY <2>1 DEF Learns!Advance
  <2> QED BY <2>2, <2>4, <2>5 DEF Learns!GiveUp, Taught
<1>10. ASSUME StartTable(u) PROVE Learns!Teach(u) \/ Still
  <2>1. /\ pc[u] = "table" /\ tab[u] <= Len(Tables[u]) /\ (Goto(u, "build") \/ Goto(u, "ask"))
        /\ UNCHANGED <<tab, mapped, unasked, stored, job>>
    BY <1>10 DEF StartTable, laravel
  <2>2. CASE Goto(u, "build")
    BY <1>8, <2>1, <2>2
  <2>3. CASE Goto(u, "ask")
    BY <1>4a, <2>1, <2>3
  <2> QED BY <2>1, <2>2, <2>3
\* Where the model was asked in vain, nothing was volunteered either.
<1>11. ASSUME AskModel(u) PROVE Learns!Teach(u) \/ Learns!Volunteer(u)
  <2> DEFINE hs == UniqueHeaders(Header(u), Batch(todo[u]))
  <2>1. /\ pc[u] = "ask" /\ UNCHANGED <<tab, mapped, stored, job>>
        /\ Goto(u, IF todo'[u] # {} THEN "ask" ELSE IF found'[u] # {} THEN "create" ELSE "build")
    BY <1>11 DEF AskModel, laravel
  <2>2. PICK answer \in {Normalised(a) : a \in ModelAnswers(hs)} :
          /\ found' = [found EXCEPT ![u] = @ \cup answer]
          /\ unasked' = unasked \cup Volunteered(u, hs, answer)
    BY <1>11 DEF AskModel
  <2> HIDE DEF hs
  <2>3. tab[u] <= Len(Tables[u])
    BY <1>1, <2>1 DEF Placed, Working
  <2>4. CASE Goto(u, "build")
    <3>1. pc'[u] = "build"
      BY <1>1, <2>4 DEF Shape, Goto
    <3>2. pc'[u] = IF todo'[u] # {} THEN "ask" ELSE IF found'[u] # {} THEN "create" ELSE "build"
      BY <1>1, <2>1 DEF Shape, Goto
    <3>3. found'[u] = {} /\ found'[u] = found[u] \cup answer
      BY <1>1, <2>2, <3>1, <3>2 DEF Shape
    <3>4. unasked' = unasked
      BY <2>2, <3>3 DEF Volunteered
    <3> QED BY <1>8, <2>1, <2>3, <2>4, <3>4
  <2>5. CASE Goto(u, "ask") \/ Goto(u, "create")
    <3>1. Taught' = Taught /\ Ended' = Ended /\ u \notin Ended \cup Taught
      BY <1>4a, <2>1, <2>5
    <3>2. Learns!AtTable(u)
      BY <1>5, <2>3, <3>1
    <3>3. unasked \subseteq unasked' /\ \A m \in unasked' \ unasked : m.upload = u /\ m.table = tab[u]
      BY <2>2 DEF Volunteered, Given
    <3> QED BY <2>1, <3>1, <3>2, <3>3 DEF Learns!Volunteer, Taught, Ended
  <2> QED BY <2>1, <2>4, <2>5
<1>12. ASSUME AskModelFails(u) PROVE Learns!GiveUp(u)
  BY <1>9, <1>12 DEF AskModelFails, laravel, work
<1>13. ASSUME CreateMappings(u) PROVE Learns!Teach(u)
  <2>1. pc[u] = "create" /\ Post(u) /\ Goto(u, "build") /\ UNCHANGED <<tab, mapped, unasked>>
    BY <1>13 DEF CreateMappings, work
  <2>2. /\ job' = job /\ stored \subseteq stored'
        /\ \A m \in stored' \ stored : IsLesson(u, tab[u], m, unasked)
    BY <1>1, <2>1, PostTeaches, PostFrame DEF Learner
  <2> QED BY <1>1, <1>8, <2>1, <2>2 DEF Placed, Working
<1>14. ASSUME CreateMappingsFails(u) PROVE Learns!GiveUp(u)
  <2>1. /\ pc[u] = "create" /\ (Post(u) \/ UNCHANGED <<stored, job>>) /\ NextTable(u)
        /\ UNCHANGED <<mapped, unasked>>
    BY <1>14 DEF CreateMappingsFails, laravel, work
  <2>2. /\ job' = job /\ stored \subseteq stored'
        /\ \A m \in stored' \ stored : IsLesson(u, tab[u], m, unasked)
    BY <1>1, <2>1, PostTeaches, PostFrame DEF Learner
  <2> QED BY <1>9, <2>1, <2>2
<1>15. ASSUME BuildResult(u) PROVE Learns!Answer(u)
  <2>1. /\ pc[u] = "build" /\ Goto(u, "table") /\ tab' = [tab EXCEPT ![u] = @ + 1]
        /\ UNCHANGED <<unasked, stored, job>>
    BY <1>15 DEF BuildResult, NextTable, laravel, work
  <2>2. Taught' = Taught \ {u} /\ Ended' = Ended /\ u \in Taught /\ u \notin Ended
    BY <1>3, <1>4, <2>1
  <2>3. Learns!AtTable(u)
    BY <1>1, <1>5, <2>1, <2>2 DEF Placed, Working
  <2>4. Learns!Advance(u)
    BY <2>1 DEF Learns!Advance
  <2> QED BY <1>1, <1>15, <2>1, <2>2, <2>3, <2>4, BuildResultAnswers DEF Learns!Answer, Taught, Ended
<1>16. ASSUME MarkJobFailed(u) PROVE Learns!Close(u)
  <2>1. /\ pc[u] = "table" /\ tab[u] > Len(Tables[u]) /\ (Goto(u, "done") \/ Goto(u, "failed"))
        /\ job' \in {job, [job EXCEPT ![u] = "failed"]}
        /\ UNCHANGED <<tab, mapped, unasked, stored>>
    BY <1>16 DEF MarkJobFailed, work
  <2>2. Taught' = Taught /\ Ended' = Ended \cup {u} /\ u \notin Ended
    BY <1>3, <1>4, <2>1
  <2> QED BY <2>1, <2>2 DEF Learns!Close, Taught, Ended
<1>17. \/ Still \/ Learns!Volunteer(u) \/ Learns!Teach(u) \/ Learns!GiveUp(u)
       \/ Learns!Answer(u) \/ Learns!Close(u) \/ Learns!EndEarly(u)
  <2> HIDE DEF Still
  <2> QED BY <1>6, <1>7, <1>10, <1>11, <1>12, <1>13, <1>14, <1>15, <1>16 DEF Step
<1> QED
  <2> HIDE DEF Still
  <2> QED BY <1>2, <1>17 DEF Learns!Next

\* An upload teaches Laravel once for each table, and no more than it learned,
\* before it answers for the table, whatever fails on the way.
THEOREM UploadsLearn == Spec => KeepsLearning
<1>1. Init => Learns!Init
  <2> SUFFICES ASSUME Init PROVE Learns!Init
    OBVIOUS
  <2>1. {u \in Uploads : pc[u] = "build"} = {} /\ {u \in Uploads : pc[u] \in {"done", "failed"}} = {}
    BY DEF Init
  <2> QED BY <2>1 DEF Init, Learns!Init
<1>2. IInv /\ Learners /\ [Next]_vars => [Learns!Next]_(Learns!vars)
  <2>1. ASSUME IInv, Learners, Next PROVE Learns!Next \/ UNCHANGED Learns!vars
    BY <2>1, StepLearns DEF Next
  <2>2. ASSUME UNCHANGED vars PROVE UNCHANGED Learns!vars
    BY <2>2 DEF vars, Learns!vars
  <2> QED BY <2>1, <2>2
<1> QED BY <1>1, <1>2, LearnersStart, LearnersStay, InvariantHolds, PTL
        DEF Spec, KeepsLearning, Learns!Spec

-----------------------------------------------------------------------------
(***************************************************************************)
(* What UploadEnds rests on besides fairness: the loops over tables and     *)
(* batches have a variant.                                                  *)
(***************************************************************************)
\* The calls in the order in which one table meets them.
Stage == [parse |-> 1, supplier |-> 2, general |-> 3, table |-> 4,
          ask |-> 5, create |-> 6, build |-> 7, done |-> 8, failed |-> 8]

\* The upload moves on to the next table, of which there are finitely many, or to a
\* later call for this one, or leaves fewer columns to ask about.
Closer(u) ==
    \/ tab'[u] = tab[u] + 1 /\ tab[u] <= Len(Tables[u])
    \/ /\ tab'[u] = tab[u]
       /\ \/ Stage[pc'[u]] > Stage[pc[u]]
          \/ pc'[u] = pc[u] /\ todo'[u] \subseteq todo[u] /\ todo'[u] # todo[u]

\* However small the batches, each takes a column.
LEMMA BatchTakesOne ==
    ASSUME NEW cs \in SUBSET Nat, cs # {}
    PROVE  Batch(cs) # {}
<1>1. PICK c \in cs : \A d \in cs : c <= d
  BY LeftmostColumn
<1> DEFINE before == {d \in cs : d < c}
<1>2. before = {}
  <2> SUFFICES ASSUME NEW d \in cs, d < c PROVE FALSE
    OBVIOUS
  <2>1. c \in Nat /\ d \in Nat /\ c <= d
    BY <1>1
  <2> QED BY <2>1
<1>3. Cardinality({}) = 0
  BY FS_EmptySet
<1>4. Cardinality(before) < BatchSize
  <2> HIDE DEF before
  <2> QED BY <1>2, <1>3, BatchAssumption
<1>5. c \in Batch(cs)
  BY <1>4 DEF Batch
<1> QED BY <1>5

LEMMA StepIsCloser ==
    ASSUME IInv, NEW u \in Uploads, Step(u)
    PROVE  Closer(u)
<1>1. Shape /\ Placed(u) /\ tab[u] \in Nat /\ Len(Tables[u]) \in Nat
  BY TableAtHand, TableCount DEF IInv, UploadInv
<1>2. ASSUME NEW call, Goto(u, call) PROVE pc'[u] = call
  BY <1>1, <1>2 DEF Shape, Goto
<1>3. ASSUME Working(u), NextTable(u) PROVE Closer(u)
  BY <1>1, <1>3 DEF Shape, Placed, NextTable, Closer
<1>4. CASE Parse(u) \/ Fails(u, "parse")
  <2>1. pc[u] = "parse" /\ tab' = tab /\ \E call \in {"supplier", "general", "failed"} : Goto(u, call)
    BY <1>4 DEF Parse, Fails
  <2>2. pc'[u] \in {"supplier", "general", "failed"}
    BY <1>2, <2>1
  <2> QED BY <2>1, <2>2 DEF Closer, Stage
<1>5. CASE GetSupplierMappings(u) \/ Fails(u, "supplier")
  BY <1>2, <1>5 DEF GetSupplierMappings, Fails, Closer, Stage
<1>6. CASE GetGeneralMappings(u) \/ Fails(u, "general")
  BY <1>2, <1>6 DEF GetGeneralMappings, Fails, Closer, Stage
<1>7. CASE StartTable(u)
  <2>1. pc[u] = "table" /\ tab' = tab /\ \E call \in {"ask", "build"} : Goto(u, call)
    BY <1>7 DEF StartTable
  <2>2. pc'[u] \in {"ask", "build"}
    BY <1>2, <2>1
  <2> QED BY <2>1, <2>2 DEF Closer, Stage
<1>8. CASE AskModel(u)
  <2>1. /\ pc[u] = "ask" /\ (Goto(u, "ask") \/ Goto(u, "create") \/ Goto(u, "build"))
        /\ tab' = tab /\ todo' = [todo EXCEPT ![u] = Rest(@)]
    BY <1>8 DEF AskModel
  <2>2. tab[u] \in 1 .. Len(Tables[u]) /\ todo[u] # {} /\ todo[u] \subseteq DOMAIN Header(u)
    BY <1>1, <2>1 DEF Placed, Working, Candidates
  <2>3. Batch(todo[u]) # {} /\ Batch(todo[u]) \subseteq todo[u]
    BY <2>2, HeadersOfTable, BatchTakesOne DEF Header, Batch
  <2>4. todo'[u] = todo[u] \ Batch(todo[u])
    BY <1>1, <2>1 DEF Shape, Rest
  <2>5. todo'[u] \subseteq todo[u] /\ todo'[u] # todo[u]
    BY <2>3, <2>4
  <2>6. pc'[u] \in {"ask", "create", "build"}
    BY <1>2, <2>1
  <2> QED BY <2>1, <2>5, <2>6 DEF Closer, Stage
<1>9. CASE AskModelFails(u)
  BY <1>3, <1>9 DEF AskModelFails, Working
<1>10. CASE CreateMappings(u)
  BY <1>2, <1>10 DEF CreateMappings, Closer, Stage
<1>11. CASE CreateMappingsFails(u)
  BY <1>3, <1>11 DEF CreateMappingsFails, Working
<1>12. CASE BuildResult(u)
  BY <1>3, <1>12 DEF BuildResult, Working
<1>13. CASE MarkJobFailed(u)
  BY <1>2, <1>13 DEF MarkJobFailed, Closer, Stage
<1> QED BY <1>4, <1>5, <1>6, <1>7, <1>8, <1>9, <1>10, <1>11, <1>12, <1>13 DEF Step

\* No step of an upload, failed or not, leaves it where it was.
THEOREM EveryStepIsCloser == Spec => [][\A u \in Uploads : Step(u) => Closer(u)]_vars
<1> DEFINE Advances == \A u \in Uploads : Step(u) => Closer(u)
<1>1. IInv /\ [Next]_vars => [Advances]_vars
  BY StepIsCloser
<1>2. Spec => [][Advances]_vars
  BY <1>1, InvariantHolds, PTL DEF Spec
<1> QED BY <1>2
=============================================================================
