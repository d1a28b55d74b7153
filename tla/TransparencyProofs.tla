------------------------- MODULE TransparencyProofs -------------------------
(***************************************************************************)
(* Proof that the caches and the other goroutines are invisible to parse(): *)
(* where GPT answers a question always alike (OneOpinion), does not tell    *)
(* apart what the caches do not (KeysSuffice), and wants nothing that       *)
(* starts like what it does not want (Settled), what parse() returns is     *)
(* what it would return alone and without caches (Transparent).             *)
(*                                                                          *)
(* OneMind is the invariant behind it: every worker and every history holds *)
(* what an uncached run would have come to.  A verdict that was given about *)
(* what the caches take for this table is then a verdict on it              *)
(* (OneVerdict), so that a sheet is kept exactly if it is wanted; and since *)
(* the sheets are decided once each and in order (ExcelParseProofs), the    *)
(* results are the ascending enumeration of the wanted sheets, of which     *)
(* there is only one.                                                       *)
(***************************************************************************)
EXTENDS ExcelParseProofs

\* What an uncached run makes of sheet s of w's workbook.
Uncached(w, s) == UncachedTable(Readouts[w][s])
IsWanted(w, s) == Wanted(Readouts[w][s])

Analysing == {"analysis", "askAnalysis", "saveAnalysis"}

\* Worker w has in hand what an uncached run would have.
AloneAt(w) ==
    /\ pc[w] \in Tabled => table[w] = Uncached(w, sheet[w])
    /\ pc[w] \in Analysing => ~(Len(Sheet(w).texts) < 2)

\* GPT was asked about nothing but the tables of uncached runs.
Consulted ==
    /\ \A r \in readings : r.answer \in AnalysisAnswers(r.texts)
    /\ \A o \in opinions : \E x \in Workers : \E z \in Tabular(x) :
          /\ o.subject = SubjectOf(Uncached(x, z))
          /\ o.verdict \in VerdictsOn(Uncached(x, z))

\* What is left out is not wanted, what is kept is, and is the uncached table.
LeftOut ==
    \A d \in dropped : d.sheet \in Tabular(d.worker) /\ ~IsWanted(d.worker, d.sheet)

KeptAlone(w) ==
    \A i \in DOMAIN results[w] :
        LET s == results[w][i].sheet
        IN  results[w][i].table = Uncached(w, s) /\ IsWanted(w, s)

OneMind ==
    /\ \A w \in Workers : AloneAt(w) /\ KeptAlone(w)
    /\ Consulted
    /\ LeftOut

-----------------------------------------------------------------------------
\* s lists the elements of S, all n of them, in ascending order.
Lists(s, n, S) ==
    /\ s \in [1 .. n -> S]
    /\ \A i, j \in 1 .. n : i < j => s[i] < s[j]
    /\ \A e \in S : \E i \in 1 .. n : s[i] = e

\* Where two lists of a set first differ, neither can have the smaller element:
\* the other would have no place for it.
LEMMA NoFirstDifference ==
    ASSUME NEW n \in Nat, NEW S \in SUBSET Nat, NEW s, NEW u, Lists(s, n, S), Lists(u, n, S),
           NEW k \in 1 .. n, \A j \in 1 .. n : j < k => s[j] = u[j]
    PROVE  ~(s[k] < u[k])
<1> SUFFICES ASSUME s[k] < u[k] PROVE FALSE
  OBVIOUS
<1>1. s[k] \in S /\ s[k] \in Nat /\ u[k] \in Nat
  BY DEF Lists
<1>2. PICK j \in 1 .. n : u[j] = s[k]
  BY <1>1 DEF Lists
<1>3. CASE j < k
  <2>1. s[j] = s[k] /\ s[j] < s[k]
    BY <1>2, <1>3 DEF Lists
  <2> QED BY <1>1, <2>1
<1>4. CASE j = k
  BY <1>1, <1>2, <1>4
<1>5. CASE k < j
  <2>1. u[k] < u[j]
    BY <1>5 DEF Lists
  <2> QED BY <1>1, <1>2, <2>1
<1>6. j < k \/ j = k \/ k < j
  OBVIOUS
<1> QED BY <1>3, <1>4, <1>5, <1>6

\* So there is only one list.
LEMMA OneList ==
    ASSUME NEW n \in Nat, NEW S \in SUBSET Nat, NEW s, NEW u, Lists(s, n, S), Lists(u, n, S)
    PROVE  s = u
<1> DEFINE D == {k \in 1 .. n : s[k] # u[k]}
<1>1. D = {}
  <2> SUFFICES ASSUME D # {} PROVE FALSE
    OBVIOUS
  <2>1. D \in SUBSET Nat
    OBVIOUS
  <2>2. PICK k \in D : \A j \in D : k <= j
    BY <2>1, SmallestNatural1
  <2>3. k \in 1 .. n /\ s[k] # u[k]
    BY <2>2
  <2>4. \A j \in 1 .. n : j < k => s[j] = u[j]
    BY <2>2
  <2>5. ~(s[k] < u[k])
    BY <2>3, <2>4, NoFirstDifference
  <2>6. ~(u[k] < s[k])
    BY <2>3, <2>4, NoFirstDifference
  <2>7. s[k] \in Nat /\ u[k] \in Nat
    BY <2>3 DEF Lists
  <2> QED BY <2>3, <2>5, <2>6, <2>7
<1> QED BY <1>1 DEF Lists

\* Ascending functions tell their places apart.
LEMMA AscendingIsInjective ==
    ASSUME NEW n \in Nat, NEW S \in SUBSET Nat, NEW s \in [1 .. n -> S],
           \A i, j \in 1 .. n : i < j => s[i] < s[j]
    PROVE  s \in Injection(1 .. n, S)
<1>1. ASSUME NEW i \in 1 .. n, NEW j \in 1 .. n, s[i] = s[j], i # j PROVE FALSE
  <2>1. i \in Int /\ j \in Int
    OBVIOUS
  <2>2. s[i] < s[j] \/ s[j] < s[i]
    BY <1>1, <2>1
  <2>3. s[i] \in Nat /\ s[j] \in Nat
    OBVIOUS
  <2> QED BY <1>1, <2>2, <2>3
<1> QED BY <1>1 DEF Injection, IsInjective

\* Ascending(S) is that list.
LEMMA AscendingIsTheList ==
    ASSUME NEW m \in Nat, NEW S \in SUBSET (1 .. m), NEW n \in Nat, NEW s, Lists(s, n, S)
    PROVE  Ascending(S) = s
<1> DEFINE c == Cardinality(S)
           u == Ascending(S)
<1>1. c \in Nat /\ u \in [1 .. c -> S] /\ \A i, j \in 1 .. c : i < j => u[i] < u[j]
  BY AscendingEnumerates DEF Enumerates
<1>2. IsFiniteSet(S) /\ S \in SUBSET Nat
  <2>1. IsFiniteSet(1 .. m)
    BY FS_Interval
  <2>2. IsFiniteSet(S)
    BY <2>1, FS_Subset
  <2> QED BY <2>2
<1>3. \A k \in Nat : Cardinality(1 .. k) = k
  <2> TAKE k \in Nat
  <2>1. Cardinality(1 .. k) = IF 1 > k THEN 0 ELSE k - 1 + 1
    BY FS_Interval
  <2> QED BY <2>1
<1> HIDE DEF u
<1>4. s \in Injection(1 .. n, S) /\ s \in Surjection(1 .. n, S)
  BY <1>2, AscendingIsInjective DEF Lists, Surjection
<1>5. n = c
  <2>1. Cardinality(1 .. n) = Cardinality(S)
    BY <1>2, <1>4, FS_Injection
  <2> QED BY <1>3, <2>1
<1> HIDE DEF c
<1>6. u \in Injection(1 .. c, S)
  BY <1>1, <1>2, AscendingIsInjective
<1>7. u \in Surjection(1 .. c, S)
  <2>1. Cardinality(1 .. c) = Cardinality(S)
    BY <1>1, <1>3 DEF c
  <2> QED BY <1>2, <1>6, <2>1, FS_Injection
<1>8. Lists(u, n, S)
  BY <1>1, <1>5, <1>7 DEF Lists, Surjection
<1>9. u = s
  BY <1>2, <1>8, OneList
<1> QED BY <1>9 DEF u

-----------------------------------------------------------------------------
\* Whichever answer or default a table rests on, it is the uncached one.
LEMMA TableIsUncached ==
    ASSUME OneOpinion, NEW w \in Workers, NEW s \in Tabular(w)
    PROVE  /\ Len(Readouts[w][s].texts) < 2 => Readouts[w][s].fallback = Uncached(w, s)
           /\ ~(Len(Readouts[w][s].texts) < 2) =>
                 \A a \in AnalysisAnswers(Readouts[w][s].texts) :
                    TableOf(Readouts[w][s], a) = Uncached(w, s)
<1> DEFINE r == Readouts[w][s]
           A == AnalysisAnswers(r.texts)
<1>1. \A a, b \in A : a = b
  BY DEF OneOpinion
<1>2. ASSUME NEW a \in A PROVE (CHOOSE b \in A : TRUE) = a
  <2>1. (CHOOSE b \in A : TRUE) \in A
    BY <1>2
  <2> QED BY <1>1, <1>2, <2>1
<1>3. Uncached(w, s) =
        IF Len(r.texts) < 2 THEN r.fallback ELSE TableOf(r, CHOOSE b \in A : TRUE)
  BY DEF Uncached, UncachedTable
<1> HIDE DEF r, A
<1> QED BY <1>2, <1>3 DEF r, A

\* What GPT said of what the caches take for this table is what it says of it.
LEMMA OneVerdict ==
    ASSUME OneOpinion, KeysSuffice, Consulted, NEW o \in opinions,
           NEW w \in Workers, NEW s \in Tabular(w),
           SameToCaches(o.subject, SubjectOf(Uncached(w, s)))
    PROVE  IsWanted(w, s) <=> Accepts(o.verdict)
<1>0. PICK x \in Workers : \E z \in Tabular(x) :
         /\ o.subject = SubjectOf(Uncached(x, z))
         /\ o.verdict \in VerdictsOn(Uncached(x, z))
  BY DEF Consulted
<1>1. PICK z \in Tabular(x) :
         /\ o.subject = SubjectOf(Uncached(x, z))
         /\ o.verdict \in VerdictsOn(Uncached(x, z))
  BY <1>0
<1>2. SameToCaches(SubjectOf(Uncached(w, s)), SubjectOf(Uncached(x, z)))
  BY <1>1 DEF SameToCaches
<1>3. o.verdict \in VerdictsOn(Uncached(w, s))
  <2>1. ToldApart(Readouts[w][s], Readouts[x][z])
    BY DEF KeysSuffice
  <2>2. VerdictsOn(Uncached(w, s)) = VerdictsOn(Uncached(x, z))
    BY <1>2, <2>1 DEF ToldApart, Uncached
  <2> QED BY <1>1, <2>2
<1>4. \A v \in VerdictsOn(Uncached(w, s)) : v = o.verdict
  BY <1>3 DEF OneOpinion, Uncached
<1>5. IsWanted(w, s) <=> \A v \in VerdictsOn(Uncached(w, s)) : Accepts(v)
  BY DEF IsWanted, Wanted, Uncached
<1> QED BY <1>3, <1>4, <1>5

\* GPT once gave verdict v on what the caches take for the same subject.
SaidOf(subject, v) ==
    \E o \in opinions :
        /\ o.verdict = v
        /\ o.subject.id = subject.id \/ o.subject.key = subject.key

LEMMA CachedIsSaid ==
    ASSUME Backed, NEW subject, NEW v,
           \/ \E e \in issued : e.id = subject.id /\ e.verdict = v
           \/ \E e \in legacy : e.key = subject.key /\ e.value = v
           \/ [subject |-> subject, verdict |-> v] \in opinions
    PROVE  SaidOf(subject, v)
<1>1. CASE [subject |-> subject, verdict |-> v] \in opinions
  BY <1>1 DEF SaidOf
<1>2. CASE \/ \E e \in issued : e.id = subject.id /\ e.verdict = v
           \/ \E e \in legacy : e.key = subject.key /\ e.value = v
  BY <1>2 DEF SaidOf, Backed, CachedAreOpinions
<1> QED BY <1>1, <1>2

\* A verdict on the table in hand, from GPT or a cache, says if it is wanted.
LEMMA VerdictDecides ==
    ASSUME IInv, OneMind, OneOpinion, KeysSuffice, NEW w \in Workers, pc[w] \in Tabled,
           NEW v, SaidOf(Subject(w), v)
    PROVE  IsWanted(w, sheet[w]) <=> Accepts(v)
<1>1. PICK o \in opinions : o.verdict = v /\ SameToCaches(o.subject, Subject(w))
  BY DEF SaidOf, SameToCaches
<1>2. sheet[w] \in Tabular(w) /\ table[w] = Uncached(w, sheet[w])
  BY TableInHand DEF IInv, OneMind, AloneAt
<1>3. SameToCaches(o.subject, SubjectOf(Uncached(w, sheet[w])))
  BY <1>1, <1>2 DEF Subject
<1> QED BY <1>1, <1>2, <1>3, OneVerdict DEF OneMind

\* A sure "no" on what starts like the sheet is one on the table in it.
LEMMA EarlyNoIsRight ==
    ASSUME OneMind, Settled, NEW w \in Workers, sheet[w] \in Tabular(w),
           NEW v, SaidOf(Sheet(w).early, v), SurelyNot(v)
    PROVE  ~IsWanted(w, sheet[w])
<1>1. PICK o \in opinions : o.verdict = v /\ SameToCaches(o.subject, Sheet(w).early)
  BY DEF SaidOf, SameToCaches
<1>2. PICK x \in Workers : \E z \in Tabular(x) :
         /\ o.subject = SubjectOf(Uncached(x, z))
         /\ o.verdict \in VerdictsOn(Uncached(x, z))
  BY DEF OneMind, Consulted
<1>3. PICK z \in Tabular(x) :
         /\ o.subject = SubjectOf(Uncached(x, z))
         /\ o.verdict \in VerdictsOn(Uncached(x, z))
  BY <1>2
<1>4. SettledEarly(Readouts[w][sheet[w]], Readouts[x][z])
  BY DEF Settled
<1>5. SameToCaches(Readouts[w][sheet[w]].early, SubjectOf(Uncached(x, z)))
  BY <1>1, <1>3 DEF SameToCaches, Sheet
<1>6. \E u \in VerdictsOn(Uncached(x, z)) : SurelyNot(u)
  BY <1>1, <1>3
<1> QED BY <1>4, <1>5, <1>6 DEF SettledEarly, IsWanted, Uncached

-----------------------------------------------------------------------------
\* The moves of a worker, once more: it goes on with what it would have alone,
GoesOn(w) ==
    /\ UNCHANGED <<sheet, results, dropped>>
    /\ sheet[w] \in Tabular(w)
    /\ AloneAt(w)'

\* keeps what is wanted,
KeepsWanted(w) == Keeps(w) /\ IsWanted(w, sheet[w])

\* or drops what is not.
DropsUnwanted(w) ==
    /\ sheet[w] \in Tabular(w) /\ ~IsWanted(w, sheet[w])
    /\ \E kind : \E subject : Drop(w, kind, subject)

LEMMA GotoGoesOn ==
    ASSUME IInv, OneMind, NEW w \in Workers, sheet[w] \in Tabular(w), NEW call \in Calls,
           call \in Tabled => pc[w] \in Tabled,
           call \in Analysing => ~(Len(Sheet(w).texts) < 2),
           Goto(w, call), UNCHANGED <<sheet, table, results, dropped>>
    PROVE  GoesOn(w)
<1>1. pc'[w] = call
  BY DEF Goto, IInv, Shape
<1>2. Sheet(w)' = Sheet(w)
  BY DEF Sheet
<1>3. pc'[w] \in Tabled => table'[w] = Uncached(w, sheet'[w])
  BY <1>1 DEF OneMind, AloneAt
<1>4. pc'[w] \in Analysing => ~(Len(Sheet(w)'.texts) < 2)
  BY <1>1, <1>2
<1> QED BY <1>3, <1>4 DEF GoesOn, AloneAt, Uncached

LEMMA ValidateGoesOn ==
    ASSUME IInv, NEW w \in Workers, sheet[w] \in Tabular(w),
           NEW t, t = Uncached(w, sheet[w]), Validate(w, t), UNCHANGED <<sheet, results, dropped>>
    PROVE  GoesOn(w)
<1>1. pc'[w] = "advanced" /\ table'[w] = t
  BY DEF Validate, Goto, IInv, Shape, Calls
<1> QED BY <1>1 DEF GoesOn, AloneAt, Uncached, Analysing

LEMMA AfterEarlyGoesOn ==
    ASSUME IInv, OneMind, OneOpinion, NEW w \in Workers, sheet[w] \in Tabular(w), AfterEarlyCheck(w)
    PROVE  GoesOn(w)
<1>1. UNCHANGED <<sheet, results, dropped>>
  BY DEF AfterEarlyCheck
<1>2. CASE Len(Sheet(w).texts) < 2
  <2>1. Validate(w, Sheet(w).fallback)
    BY <1>2 DEF AfterEarlyCheck
  <2>2. Sheet(w).fallback = Uncached(w, sheet[w])
    BY <1>2, TableIsUncached DEF Sheet
  <2> QED BY <1>1, <2>1, <2>2, ValidateGoesOn
<1>3. CASE ~(Len(Sheet(w).texts) < 2)
  <2>1. Goto(w, "analysis") /\ UNCHANGED table
    BY <1>3 DEF AfterEarlyCheck
  <2> QED BY <1>1, <1>3, <2>1, GotoGoesOn DEF Calls, Tabled
<1> QED BY <1>2, <1>3

\* What an early verdict from a cache leads to.
LEMMA EarlyVerdictIsRight ==
    ASSUME IInv, OneMind, OneOpinion, KeysSuffice, Settled, NEW w \in Workers, sheet[w] \in Tabular(w), NEW v,
           \/ \E e \in issued : e.id = Sheet(w).early.id /\ e.verdict = v
           \/ \E e \in legacy : e.key = Sheet(w).early.key /\ e.value = v,
           EarlyVerdict(w, v)
    PROVE  GoesOn(w) \/ DropsUnwanted(w)
<1>1. CASE SurelyNot(v)
  <2>1. SaidOf(Sheet(w).early, v)
    BY CachedIsSaid DEF IInv
  <2>2. ~IsWanted(w, sheet[w])
    BY <1>1, <2>1, EarlyNoIsRight
  <2>3. Drop(w, "early", Sheet(w).early)
    BY <1>1 DEF EarlyVerdict
  <2> QED BY <2>2, <2>3 DEF DropsUnwanted
<1>2. CASE ~SurelyNot(v)
  BY <1>2, AfterEarlyGoesOn DEF EarlyVerdict
<1> QED BY <1>1, <1>2

\* What a verdict on the table in hand leads to.
LEMMA DecisionIsRight ==
    ASSUME IInv, OneMind, OneOpinion, KeysSuffice, NEW w \in Workers, pc[w] \in Tabled,
           NEW v,
           \/ \E e \in issued : e.id = Subject(w).id /\ e.verdict = v
           \/ \E e \in legacy : e.key = Subject(w).key /\ e.value = v
           \/ [subject |-> Subject(w), verdict |-> v] \in opinions,
           Decide(w, Accepts(v))
    PROVE  KeepsWanted(w) \/ DropsUnwanted(w)
<1>1. SaidOf(Subject(w), v)
  BY CachedIsSaid DEF IInv
<1>2. IsWanted(w, sheet[w]) <=> Accepts(v)
  BY <1>1, VerdictDecides
<1>3. sheet[w] \in Tabular(w)
  BY TableInHand DEF IInv
<1> QED BY <1>2, <1>3 DEF Decide, KeepsWanted, DropsUnwanted, Keeps

\* Every step is one of these moves.
LEMMA MovesAlone ==
    ASSUME IInv, OneMind, OneOpinion, KeysSuffice, Settled, NEW w \in Workers, OwnStep(w) \/ GptStep(w)
    PROVE  GoesOn(w) \/ KeepsWanted(w) \/ DropsUnwanted(w) \/ Skips(w) \/ Return(w)
<1> DEFINE Moved == GoesOn(w) \/ KeepsWanted(w) \/ DropsUnwanted(w) \/ Skips(w) \/ Return(w)
<1>a. pc[w] \notin {"next", "done"} => sheet[w] \in Tabular(w)
  BY DEF IInv, Placed
<1>b. pc[w] \in Analysing => ~(Len(Sheet(w).texts) < 2)
  BY DEF OneMind, AloneAt
<1>c. ASSUME sheet[w] \in Tabular(w), pc[w] \in Analysing,
             NEW a, [texts |-> Sheet(w).texts, answer |-> a] \in readings
      PROVE  TableOf(Sheet(w), a) = Uncached(w, sheet[w])
  <2>1. a \in AnalysisAnswers(Sheet(w).texts)
    BY <1>c DEF OneMind, Consulted
  <2> QED BY <1>b, <1>c, <2>1, TableIsUncached DEF Sheet
<1>1. ASSUME OpenSheet(w) PROVE Moved
  BY <1>1, GotoGoesOn DEF OpenSheet, history, Calls, Tabled, Analysing
<1>2. ASSUME EarlyAdvanced(w) PROVE Moved
  <2>1. pc[w] = "early" /\ sheet[w] \in Tabular(w)
    BY <1>2, <1>a DEF EarlyAdvanced
  <2>2. PICK a \in VC!Answers(Sheet(w).early.id) :
          IF a = Miss
            THEN /\ Goto(w, "earlyLegacy")
                 /\ UNCHANGED <<sheet, table, answer, results, dropped>>
            ELSE EarlyVerdict(w, a.verdict)
    BY <1>2 DEF EarlyAdvanced
  <2>3. CASE a = Miss
    BY <2>1, <2>2, <2>3, GotoGoesOn DEF Calls, Tabled, Analysing
  <2>4. CASE a # Miss
    <3>1. a \in issued /\ a.id = Sheet(w).early.id
      BY <2>2, <2>4 DEF VC!Answers
    <3>2. EarlyVerdict(w, a.verdict)
      BY <2>2, <2>4
    <3> QED BY <2>1, <3>1, <3>2, EarlyVerdictIsRight
  <2> QED BY <2>3, <2>4
<1>3. ASSUME EarlyLegacyHit(w) PROVE Moved
  <2>1. PICK e \in Found(legacy, Sheet(w).early.key) : EarlyVerdict(w, e.value)
    BY <1>3 DEF EarlyLegacyHit
  <2>2. e \in legacy /\ e.key = Sheet(w).early.key
    BY <2>1 DEF Found
  <2>3. sheet[w] \in Tabular(w)
    BY <1>3, <1>a DEF EarlyLegacyHit
  <2> QED BY <2>1, <2>2, <2>3, EarlyVerdictIsRight
<1>4. ASSUME EarlyLegacyMiss(w) PROVE Moved
  BY <1>4, <1>a, AfterEarlyGoesOn DEF EarlyLegacyMiss
<1>5. ASSUME AnalysisHit(w) PROVE Moved
  <2>1. PICK e \in Found(analyses, Sheet(w).texts) : Validate(w, TableOf(Sheet(w), e.value))
    BY <1>5 DEF AnalysisHit
  <2>2. /\ pc[w] = "analysis" /\ sheet[w] \in Tabular(w)
        /\ UNCHANGED <<sheet, results, dropped>>
    BY <1>5, <1>a DEF AnalysisHit, history
  <2>3. [texts |-> Sheet(w).texts, answer |-> e.value] \in readings
    BY <2>1 DEF Found, IInv, Backed
  <2>4. TableOf(Sheet(w), e.value) = Uncached(w, sheet[w])
    BY <1>c, <2>2, <2>3 DEF Analysing
  <2> QED BY <2>1, <2>2, <2>4, ValidateGoesOn
<1>6. ASSUME AnalysisMiss(w) PROVE Moved
  BY <1>6, <1>a, <1>b, GotoGoesOn DEF AnalysisMiss, history, Calls, Tabled, Analysing
<1>7. ASSUME AnalysisAnswered(w) PROVE Moved
  BY <1>7, <1>a, <1>b, GotoGoesOn DEF AnalysisAnswered, Calls, Tabled, Analysing
<1>8. ASSUME AnalysisFailed(w) \/ VerdictFailed(w) PROVE FALSE
  BY <1>8 DEF AnalysisFailed, VerdictFailed, OneOpinion
<1>9. ASSUME SaveAnalysis(w) PROVE Moved
  <2>1. /\ pc[w] = "saveAnalysis" /\ sheet[w] \in Tabular(w)
        /\ Validate(w, TableOf(Sheet(w), answer[w]))
        /\ UNCHANGED <<sheet, results, dropped>>
    BY <1>9, <1>a DEF SaveAnalysis, history
  <2>2. [texts |-> Sheet(w).texts, answer |-> answer[w]] \in readings
    BY <2>1 DEF IInv, Answered
  <2>3. TableOf(Sheet(w), answer[w]) = Uncached(w, sheet[w])
    BY <1>c, <2>1, <2>2 DEF Analysing
  <2> QED BY <2>1, <2>3, ValidateGoesOn
<1>10. ASSUME LookupAdvanced(w) PROVE Moved
  <2>1. pc[w] = "advanced" /\ sheet[w] \in Tabular(w)
    BY <1>10, <1>a DEF LookupAdvanced
  <2>2. PICK a \in VC!Answers(Subject(w).id) :
          IF a = Miss
            THEN /\ Goto(w, "legacy")
                 /\ UNCHANGED <<sheet, table, answer, results, dropped>>
            ELSE Decide(w, Accepts(a.verdict))
    BY <1>10 DEF LookupAdvanced
  <2>3. CASE a = Miss
    BY <2>1, <2>2, <2>3, GotoGoesOn DEF Calls, Tabled, Analysing
  <2>4. CASE a # Miss
    <3>1. a \in issued /\ a.id = Subject(w).id
      BY <2>2, <2>4 DEF VC!Answers
    <3>2. Decide(w, Accepts(a.verdict))
      BY <2>2, <2>4
    <3> QED BY <2>1, <3>1, <3>2, DecisionIsRight DEF Tabled
  <2> QED BY <2>3, <2>4
<1>11. ASSUME LookupLegacyHit(w) PROVE Moved
  <2>1. PICK e \in Found(legacy, Subject(w).key) : Decide(w, Accepts(e.value))
    BY <1>11 DEF LookupLegacyHit
  <2>2. e \in legacy /\ e.key = Subject(w).key
    BY <2>1 DEF Found
  <2>3. pc[w] = "legacy"
    BY <1>11 DEF LookupLegacyHit
  <2> QED BY <2>1, <2>2, <2>3, DecisionIsRight DEF Tabled
<1>12. ASSUME LookupLegacyMiss(w) PROVE Moved
  BY <1>12, <1>a, GotoGoesOn DEF LookupLegacyMiss, history, Calls, Tabled, Analysing
<1>13. ASSUME VerdictAnswered(w) PROVE Moved
  BY <1>13, <1>a, GotoGoesOn DEF VerdictAnswered, Calls, Tabled, Analysing
<1>14. ASSUME SaveLegacy(w) PROVE Moved
  BY <1>14, <1>a, GotoGoesOn DEF SaveLegacy, history, Calls, Tabled, Analysing
<1>15. ASSUME SaveAdvanced(w) PROVE Moved
  <2>1. pc[w] = "saveAdvanced" /\ Decide(w, Accepts(answer[w]))
    BY <1>15 DEF SaveAdvanced
  <2>2. [subject |-> Subject(w), verdict |-> answer[w]] \in opinions
    BY <2>1 DEF IInv, Answered
  <2> QED BY <2>1, <2>2, DecisionIsRight DEF Tabled
<1>16. ASSUME SkipUnreadable(w) \/ SkipEmpty(w) PROVE Moved
  BY <1>16, SkippingSkips
<1>17. ASSUME Return(w) PROVE Moved
  BY <1>17
<1> HIDE DEF Moved
<1> QED
  BY <1>1, <1>2, <1>3, <1>4, <1>5, <1>6, <1>7, <1>8, <1>9, <1>10, <1>11, <1>12, <1>13,
     <1>14, <1>15, <1>16, <1>17 DEF OwnStep, GptStep, Moved

-----------------------------------------------------------------------------
LEMMA ConsultedStays ==
    ASSUME IInv, OneMind, NEW w \in Workers, OwnStep(w) \/ GptStep(w)
    PROVE  Consulted'
<1>0. Consulted
  BY DEF OneMind
<1>1. CASE AnalysisAnswered(w)
  <2>1. PICK a \in AnalysisAnswers(Sheet(w).texts) :
          readings' = readings \cup {[texts |-> Sheet(w).texts, answer |-> a]}
    BY <1>1 DEF AnalysisAnswered
  <2>2. opinions' = opinions
    BY <1>1 DEF AnalysisAnswered
  <2> QED BY <1>0, <2>1, <2>2 DEF Consulted
<1>2. CASE VerdictAnswered(w)
  <2>1. PICK v \in VerdictsOn(table[w]) :
          opinions' = opinions \cup {[subject |-> Subject(w), verdict |-> v]}
    BY <1>2 DEF VerdictAnswered
  <2>2. pc[w] \in Tabled /\ readings' = readings
    BY <1>2 DEF VerdictAnswered, Tabled
  <2>3. sheet[w] \in Tabular(w) /\ table[w] = Uncached(w, sheet[w])
    BY <2>2, TableInHand DEF IInv, OneMind, AloneAt
  <2> DEFINE new == [subject |-> Subject(w), verdict |-> v]
  <2>4. /\ new.subject = SubjectOf(Uncached(w, sheet[w]))
        /\ new.verdict \in VerdictsOn(Uncached(w, sheet[w]))
    BY <2>3 DEF Subject
  <2>5. opinions' = opinions \cup {new}
    BY <2>1
  <2> HIDE DEF new
  <2>6. ASSUME NEW o \in opinions'
        PROVE  \E x \in Workers : \E z \in Tabular(x) :
                  /\ o.subject = SubjectOf(Uncached(x, z))
                  /\ o.verdict \in VerdictsOn(Uncached(x, z))
    <3>1. CASE o \in opinions
      BY <1>0, <3>1 DEF Consulted
    <3>2. CASE o = new
      BY <2>3, <2>4, <3>2
    <3> QED BY <2>5, <3>1, <3>2
  <2>7. (\A r \in readings : r.answer \in AnalysisAnswers(r.texts))'
    BY <1>0, <2>2 DEF Consulted
  <2> QED BY <2>6, <2>7 DEF Consulted, Uncached
<1>3. CASE UNCHANGED <<opinions, readings>>
  BY <1>0, <1>3 DEF Consulted, Uncached
<1>4. ASSUME SaveAnalysis(w) \/ SaveLegacy(w) \/ SaveAdvanced(w)
      PROVE  UNCHANGED <<opinions, readings>>
  BY <1>4 DEF SaveAnalysis, SaveLegacy, SaveAdvanced, history
<1> QED BY <1>1, <1>2, <1>3, <1>4, CachesStay

LEMMA AloneStays ==
    ASSUME IInv, OneMind, NEW w \in Workers, OwnStep(w) \/ GptStep(w),
           GoesOn(w) \/ KeepsWanted(w) \/ DropsUnwanted(w) \/ Skips(w) \/ Return(w),
           NEW x \in Workers
    PROVE  AloneAt(x)'
<1>1. CASE x # w
  <2>1. /\ pc'[x] = pc[x] /\ sheet'[x] = sheet[x] /\ table'[x] = table[x]
    BY <1>1, Moves, OthersStay
  <2>2. Sheet(x)' = Sheet(x)
    BY <2>1 DEF Sheet
  <2> QED BY <2>1, <2>2 DEF OneMind, AloneAt, Uncached
<1>2. CASE x = w /\ GoesOn(w)
  BY <1>2 DEF GoesOn
<1>3. CASE x = w /\ ~GoesOn(w)
  <2>1. NextIteration(w) \/ Return(w)
    BY <1>3 DEF KeepsWanted, Keeps, Accept, DropsUnwanted, Drop, Skips
  <2>2. pc'[w] \in {"next", "done"}
    BY <2>1 DEF NextIteration, Return, Goto, IInv, Shape
  <2> QED BY <1>3, <2>2 DEF AloneAt, Tabled, Analysing
<1> QED BY <1>1, <1>2, <1>3

LEMMA KeptStays ==
    ASSUME IInv, OneMind, NEW w \in Workers,
           GoesOn(w) \/ KeepsWanted(w) \/ DropsUnwanted(w) \/ Skips(w) \/ Return(w),
           NEW x \in Workers
    PROVE  KeptAlone(x)'
<1>0. KeptAlone(x)
  BY DEF OneMind
<1>1. ASSUME results'[x] = results[x] PROVE KeptAlone(x)'
  BY <1>0, <1>1 DEF KeptAlone, Uncached, IsWanted
<1>2. CASE GoesOn(w) \/ DropsUnwanted(w) \/ Skips(w) \/ Return(w)
  <2>1. results' = results
    BY <1>2 DEF GoesOn, DropsUnwanted, Drop, Skips, Return
  <2> QED BY <1>1, <2>1
<1>3. CASE KeepsWanted(w)
  <2> DEFINE item == [sheet |-> sheet[w], table |-> table[w]]
             n == Len(results[w])
  <2>1. results' = [results EXCEPT ![w] = Append(@, item)] /\ pc[w] \in Tabled
    BY <1>3 DEF KeepsWanted, Keeps, Accept
  <2>2. results \in [Workers -> Seq([sheet : Nat, table : Tables])]
    BY DEF IInv, Shape
  <2>3. CASE x # w
    BY <1>1, <2>1, <2>2, <2>3
  <2>4. CASE x = w
    <3>1. results[w] \in Seq([sheet : Nat, table : Tables]) /\ results'[w] = Append(results[w], item)
      BY <2>1, <2>2
    <3>2. /\ n \in Nat /\ DOMAIN results[w] = 1 .. n
          /\ DOMAIN results'[w] = 1 .. n + 1 /\ results'[w][n + 1] = item
          /\ \A i \in 1 .. n : results'[w][i] = results[w][i]
      BY <3>1
    <3>3. item.table = Uncached(w, item.sheet) /\ IsWanted(w, item.sheet)
      <4>1. table[w] = Uncached(w, sheet[w]) /\ IsWanted(w, sheet[w])
        BY <1>3, <2>1 DEF KeepsWanted, OneMind, AloneAt
      <4> QED BY <4>1
    <3> HIDE DEF item, n
    <3>4. ASSUME NEW i \in DOMAIN results'[w]
          PROVE  /\ results'[w][i].table = Uncached(w, results'[w][i].sheet)
                 /\ IsWanted(w, results'[w][i].sheet)
      <4>1. CASE i \in 1 .. n
        BY <1>0, <2>4, <3>2, <4>1 DEF KeptAlone
      <4>2. CASE i = n + 1
        BY <3>2, <3>3, <4>2
      <4>3. i \in 1 .. n \/ i = n + 1
        BY <3>2
      <4> QED BY <4>1, <4>2, <4>3
    <3> QED BY <2>4, <3>4 DEF KeptAlone, Uncached, IsWanted
  <2> QED BY <2>3, <2>4
<1> QED BY <1>2, <1>3

LEMMA LeftOutStays ==
    ASSUME IInv, OneMind, NEW w \in Workers,
           GoesOn(w) \/ KeepsWanted(w) \/ DropsUnwanted(w) \/ Skips(w) \/ Return(w)
    PROVE  LeftOut'
<1>0. LeftOut
  BY DEF OneMind
<1>1. CASE GoesOn(w) \/ KeepsWanted(w) \/ Skips(w) \/ Return(w)
  <2>1. dropped' = dropped
    BY <1>1 DEF GoesOn, KeepsWanted, Keeps, Accept, Skips, Return, history
  <2> QED BY <1>0, <2>1 DEF LeftOut, IsWanted
<1>2. CASE DropsUnwanted(w)
  <2>1. PICK kind, subject : Drop(w, kind, subject)
    BY <1>2 DEF DropsUnwanted
  <2> DEFINE new == [worker |-> w, sheet |-> sheet[w], kind |-> kind, subject |-> subject]
  <2>2. dropped' = dropped \cup {new}
    BY <2>1 DEF Drop
  <2>3. new.sheet \in Tabular(new.worker) /\ ~IsWanted(new.worker, new.sheet)
    BY <1>2 DEF DropsUnwanted
  <2> HIDE DEF new
  <2>4. \A d \in dropped' : d.sheet \in Tabular(d.worker) /\ ~IsWanted(d.worker, d.sheet)
    BY <1>0, <2>2, <2>3 DEF LeftOut
  <2> QED BY <2>4 DEF LeftOut, IsWanted
<1> QED BY <1>1, <1>2

LEMMA OneMindStarts == Init => OneMind
<1> SUFFICES ASSUME Init PROVE OneMind
  OBVIOUS
<1>1. \A w \in Workers : pc[w] = "next" /\ DOMAIN results[w] = {}
  BY DEF Init
<1>2. opinions = {} /\ readings = {} /\ dropped = {}
  BY DEF Init
<1>3. \A w \in Workers : AloneAt(w) /\ KeptAlone(w)
  BY <1>1 DEF AloneAt, KeptAlone, Tabled, Analysing
<1> QED BY <1>2, <1>3 DEF OneMind, Consulted, LeftOut

LEMMA OneMindStays ==
    ASSUME OneOpinion, KeysSuffice, Settled
    PROVE  IInv /\ OneMind /\ [Next]_vars => OneMind'
<1> SUFFICES ASSUME IInv, OneMind, [Next]_vars PROVE OneMind'
  OBVIOUS
<1>1. CASE Next
  <2>1. PICK w \in Workers : OwnStep(w) \/ GptStep(w)
    BY <1>1 DEF Next
  <2>2. GoesOn(w) \/ KeepsWanted(w) \/ DropsUnwanted(w) \/ Skips(w) \/ Return(w)
    BY <2>1, MovesAlone
  <2>3. \A x \in Workers : AloneAt(x)'
    BY <2>1, <2>2, AloneStays
  <2>4. \A x \in Workers : KeptAlone(x)'
    BY <2>2, KeptStays
  <2>5. Consulted' /\ LeftOut'
    BY <2>1, <2>2, ConsultedStays, LeftOutStays
  <2> QED BY <2>3, <2>4, <2>5 DEF OneMind
<1>2. CASE UNCHANGED vars
  <2>1. UNCHANGED <<pc, sheet, table, results, opinions, readings, dropped>>
    BY <1>2 DEF vars
  <2>2. \A w \in Workers : AloneAt(w)' /\ KeptAlone(w)'
    BY <2>1 DEF OneMind, AloneAt, KeptAlone, Sheet, Uncached, IsWanted
  <2>3. Consulted' /\ LeftOut'
    BY <2>1 DEF OneMind, Consulted, LeftOut, Uncached, IsWanted
  <2> QED BY <2>2, <2>3 DEF OneMind
<1> QED BY <1>1, <1>2

-----------------------------------------------------------------------------
\* When parse() returns, the sheets it has kept are the wanted ones.
LEMMA KeptAreWanted ==
    ASSUME IInv, OneMind, NEW w \in Workers, pc[w] = "done"
    PROVE  KeptSheets(w) = {s \in Tabular(w) : Wanted(Readouts[w][s])}
<1>1. KeptSheets(w) \cup GoneSheets(w) = Tabular(w)
  <2>1. sheet[w] > Len(Book[w]) /\ sheet[w] \in Nat
    BY DEF IInv, Placed, Shape
  <2>2. {s \in Tabular(w) : s < sheet[w]} = Tabular(w)
    BY <2>1, TabularSheets
  <2> QED BY <2>2 DEF IInv, Decided, Accounted
<1>2. \A s \in KeptSheets(w) : Wanted(Readouts[w][s])
  BY DEF OneMind, KeptAlone, KeptSheets, IsWanted
<1>3. \A s \in GoneSheets(w) : ~Wanted(Readouts[w][s])
  BY DEF OneMind, LeftOut, GoneSheets, IsWanted
<1> QED BY <1>1, <1>2, <1>3

LEMMA OneMindIsTransparent == IInv /\ OneMind => Transparent
<1> SUFFICES ASSUME IInv, OneMind, NEW w \in Workers, pc[w] = "done"
             PROVE  LET wanted == Ascending({s \in Tabular(w) : Wanted(Readouts[w][s])})
                    IN  results[w] = [i \in DOMAIN wanted |->
                           [sheet |-> wanted[i],
                            table |-> UncachedTable(Readouts[w][wanted[i]])]]
  BY DEF Transparent
<1> DEFINE S == {s \in Tabular(w) : Wanted(Readouts[w][s])}
           n == Len(results[w])
           kept == [i \in 1 .. n |-> results[w][i].sheet]
           Item == [sheet : Nat, table : Tables]
<1>1. results[w] \in Seq(Item)
  BY DEF IInv, Shape
<1> HIDE DEF Item
<1>2. n \in Nat /\ DOMAIN results[w] = 1 .. n /\ results[w] = [i \in 1 .. n |-> results[w][i]]
  BY <1>1
<1>3. \A i \in 1 .. n : results[w][i] \in Item
  BY <1>1, ElementOfSeq
<1>4. Lists(kept, n, S)
  <2>1. KeptSheets(w) = S
    BY KeptAreWanted
  <2>2. KeptSheets(w) = {kept[i] : i \in 1 .. n}
    BY <1>2 DEF KeptSheets
  <2>3. \A i, j \in 1 .. n : i < j => kept[i] < kept[j]
    BY <1>2 DEF IInv, Decided, Accounted
  <2> HIDE DEF S, n
  <2>4. kept \in [1 .. n -> S]
    BY <2>1, <2>2
  <2> QED BY <2>1, <2>2, <2>3, <2>4 DEF Lists
<1>5. Ascending(S) = kept
  <2>1. Len(Book[w]) \in Nat /\ S \in SUBSET (1 .. Len(Book[w]))
    BY TabularSheets
  <2> HIDE DEF S, n, kept
  <2> QED BY <1>2, <1>4, <2>1, AscendingIsTheList
<1>6. ASSUME NEW i \in 1 .. n
      PROVE  results[w][i] = [sheet |-> kept[i], table |-> UncachedTable(Readouts[w][kept[i]])]
  <2>1. results[w][i].table = UncachedTable(Readouts[w][kept[i]])
    BY <1>2, <1>6 DEF OneMind, KeptAlone, Uncached
  <2>2. results[w][i] = [sheet |-> results[w][i].sheet, table |-> results[w][i].table]
    BY <1>3, <1>6 DEF Item
  <2> QED BY <2>1, <2>2
<1>7. DOMAIN kept = 1 .. n
  OBVIOUS
<1> HIDE DEF S, n, kept
<1> QED BY <1>2, <1>5, <1>6, <1>7 DEF S

\* Caching and concurrency are invisible: with however many goroutines, whatever
\* the caches hold, forget or fail to store, parse() returns the tables it would
\* return alone and without caches (parse.go:686), as long as GPT answers a question
\* always alike and the keys of the caches tell apart what GPT tells apart from
\* the data it is shown: those of the validation, and the early ones.
THEOREM ParseIsTransparent ==
    ASSUME OneOpinion, KeysSuffice, Settled
    PROVE  Spec => []Transparent
<1>1. Init => OneMind
  BY OneMindStarts
<1>2. IInv /\ OneMind /\ [Next]_vars => OneMind'
  BY OneMindStays
<1>3. IInv /\ OneMind => Transparent
  BY OneMindIsTransparent
<1> QED BY <1>1, <1>2, <1>3, InvariantHolds, PTL DEF Spec
=============================================================================
