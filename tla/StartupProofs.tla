---------------------------- MODULE StartupProofs ----------------------------
(***************************************************************************)
(* Proofs about Startup, for any suite of workbooks and any number of       *)
(* faults.  The counts are inductive once it is known that a workbook the   *)
(* process works on had no result when it began (InFlight).                 *)
(***************************************************************************)
EXTENDS Startup, FiniteSetTheorems, TLAPS

\* The process only works on what had no result.
InFlight ==
    /\ pc \in {"convert", "read", "parse", "write"} => results[Current] = "none"
    /\ pc = "writing" => results[Current] = "partial"

IInv == TypeOK /\ InFlight /\ LossesAreFaults /\ PaidForOnce

Complete == {f \in Files : results[f] = "whole"}

\* What a converter may do.
ConverterRuns(c) ==
    ConverterRefuses(c) \/ ConverterOpens(c) \/ ConverterEnds(c) \/ ConverterFails(c)

-----------------------------------------------------------------------------
LEMMA FilesFinite == IsFiniteSet(Files)
<1>1. Len(Suite) \in Nat /\ Suite \in [1 .. Len(Suite) -> Files]
  BY SuiteAssumption
<1>2. Suite \in Surjection(1 .. Len(Suite), Files)
  BY <1>1, SuiteAssumption DEF Surjection
<1>3. IsFiniteSet(1 .. Len(Suite))
  BY <1>1, FS_Interval
<1> QED BY <1>2, <1>3, FS_Surjection

\* What the process has in hand is a workbook of the suite.
LEMMA CurrentIsFile == ASSUME TypeOK, at <= Len(Suite) PROVE Current \in Files
<1>1. at \in 1 .. Len(Suite)
  BY SuiteAssumption DEF TypeOK
<1> QED BY <1>1, SuiteAssumption DEF Current

LEMMA LossesFinite ==
    ASSUME TypeOK
    PROVE  /\ LostResults \subseteq Files /\ SpoiltBooks \subseteq Files
           /\ IsFiniteSet(LostResults) /\ IsFiniteSet(SpoiltBooks)
           /\ Cardinality(LostResults) \in Nat /\ Cardinality(SpoiltBooks) \in Nat
<1>1. LostResults \subseteq Files
  <2>1. \A k \in 1 .. at - 1 : Suite[k] \in Files
    BY SuiteAssumption DEF TypeOK
  <2> QED BY <2>1 DEF LostResults
<1>2. SpoiltBooks \subseteq Files
  BY SuiteAssumption DEF SpoiltBooks
<1> QED BY <1>1, <1>2, FilesFinite, FS_Subset, FS_CardinalityType

\* Sets that do not grow need no fault,
LEMMA NothingLost ==
    ASSUME NEW L, NEW M, NEW S, NEW T, NEW n \in Nat, NEW m \in Nat,
           IsFiniteSet(L), IsFiniteSet(S), M \subseteq L, T \subseteq S, n <= m,
           Cardinality(L) + Cardinality(S) <= n
    PROVE  Cardinality(M) + Cardinality(T) <= m
<1>1. /\ Cardinality(L) \in Nat /\ Cardinality(S) \in Nat
      /\ Cardinality(M) \in Nat /\ Cardinality(T) \in Nat
      /\ Cardinality(M) <= Cardinality(L) /\ Cardinality(T) <= Cardinality(S)
  BY FS_Subset, FS_CardinalityType
<1> QED BY <1>1

\* and one more element in one of them needs one.
LEMMA OneLost ==
    ASSUME NEW L, NEW M, NEW S, NEW T, NEW x, NEW n \in Nat,
           IsFiniteSet(L), IsFiniteSet(S), M \subseteq L \cup {x}, T \subseteq S,
           Cardinality(L) + Cardinality(S) <= n
    PROVE  Cardinality(M) + Cardinality(T) <= n + 1
<1>1. /\ IsFiniteSet(L \cup {x}) /\ Cardinality(L) \in Nat
      /\ Cardinality(L \cup {x}) <= Cardinality(L) + 1
      /\ Cardinality(L \cup {x}) \in Nat
  <2>1. IsFiniteSet(L \cup {x}) /\ Cardinality(L) \in Nat
    BY FS_AddElement, FS_CardinalityType
  <2>2. Cardinality(L \cup {x}) = IF x \in L THEN Cardinality(L) ELSE Cardinality(L) + 1
    BY FS_AddElement
  <2> QED BY <2>1, <2>2
<1>2. /\ Cardinality(S) \in Nat /\ Cardinality(M) \in Nat /\ Cardinality(T) \in Nat
      /\ Cardinality(M) <= Cardinality(L \cup {x}) /\ Cardinality(T) <= Cardinality(S)
  BY <1>1, FS_Subset, FS_CardinalityType
<1> QED BY <1>1, <1>2

-----------------------------------------------------------------------------
LEMMA InitEstablishes == Init => IInv
<1> SUFFICES ASSUME Init PROVE IInv
  OBVIOUS
<1>1. TypeOK
  <2>1. flaw \in [Files -> Flaws]
    BY DEF Init
  <2>2. books \in [Files -> FileStates] /\ \A f \in Files \ Xls : books[f] = "whole"
    BY SuiteAssumption DEF Init, FileStates
  <2>3. at = 1 /\ Len(Suite) \in Nat
    BY SuiteAssumption DEF Init
  <2> QED BY <2>1, <2>2, <2>3, BoundsAssumption DEF Init, TypeOK, FileStates
<1>2. InFlight
  BY DEF Init, InFlight
<1>3. LostResults = {} /\ SpoiltBooks = {}
  <2>1. at = 1 /\ \A f \in Files : results[f] = "none"
    BY DEF Init
  <2>2. \A f \in Xls : books[f] # "partial"
    BY SuiteAssumption DEF Init
  <2> QED BY <2>1, <2>2 DEF LostResults, SpoiltBooks
<1>4. LossesAreFaults
  BY <1>3, FS_EmptySet DEF Init, LossesAreFaults
<1>5. Complete = {}
  BY DEF Init, Complete
<1>6. PaidForOnce
  BY <1>5, FS_EmptySet DEF Init, PaidForOnce, Complete
<1> QED BY <1>1, <1>2, <1>4, <1>6 DEF IInv

LEMMA TypePreserved == ASSUME TypeOK, Next PROVE TypeOK'
<1> USE SuiteAssumption, BoundsAssumption DEF TypeOK, disk, counts
<1>1. Len(Suite) \in Nat
  OBVIOUS
<1>2. CASE Launch
  BY <1>1, <1>2 DEF Launch, FileStates
<1>3. CASE Skip
  BY <1>1, <1>3, SMTT(20) DEF Skip, NextFile
<1>4. CASE StartConverter
  <2>1. at \in 1 .. Len(Suite) /\ Current \in Xls /\ kills \in 0 .. MaxFaults
    BY <1>1, <1>4 DEF StartConverter, NeedsConversion
  <2>2. [file |-> Current, phase |-> "loading", parent |-> kills] \in Converters
    BY <2>1 DEF Converters
  <2> QED BY <1>1, <1>4, <2>1, <2>2 DEF StartConverter
<1>5. CASE NoConversion
  BY <1>1, <1>5 DEF NoConversion
<1>6. CASE Read
  <2>1. books[Current] \in FileStates
    <3>1. Current \in Files
      BY <1>6, CurrentIsFile DEF Read
    <3> QED BY <3>1
  <2> QED BY <1>1, <1>6, <2>1 DEF Read, Panic, FileStates
<1>7. CASE ParseRejects
  BY <1>1, <1>7 DEF ParseRejects, Panic
<1>8. CASE ParseReturns
  BY <1>1, <1>8, SMTT(20) DEF ParseReturns
<1>9. CASE WriteOpens
  BY <1>1, <1>9 DEF WriteOpens, FileStates
<1>10. CASE WriteEnds
  <2>1. results' \in [Files -> FileStates]
    BY <1>10 DEF WriteEnds, FileStates
  <2>2. at' \in 1 .. Len(Suite) + 1 /\ pc' = "suite"
    BY <1>1, <1>10 DEF WriteEnds, NextFile
  <2> QED BY <1>1, <1>10, <2>1, <2>2 DEF WriteEnds
<1>11. CASE Run \/ Listen \/ ListenFails
  BY <1>1, <1>11 DEF Run, Listen, ListenFails
<1>12. CASE Kill
  BY <1>1, <1>12 DEF Kill
<1>13. CASE WriteFails
  BY <1>1, <1>13, SMTT(20) DEF WriteFails, NextFile
<1>17. ASSUME NEW c \in converters, ConverterRefuses(c) PROVE TypeOK'
  <2>1. pc' = pc \/ (pc = "convert" /\ pc' \in {"read", "down"})
    BY <1>17 DEF ConverterRefuses, Awaited
  <2>2. /\ UNCHANGED <<flaw, results, books, at, content, kills, faults, paid>>
        /\ converters' \subseteq Converters
    BY <1>17 DEF ConverterRefuses
  <2> QED BY <1>1, <2>1, <2>2
<1>14. ASSUME NEW c \in converters, ConverterOpens(c) PROVE TypeOK'
  <2>1. c \in Converters /\ [c EXCEPT !.phase = "writing"] \in Converters
    BY DEF Converters
  <2>2. books' \in [Files -> FileStates] /\ \A f \in Files \ Xls : books'[f] = "whole"
    BY <1>14, <2>1 DEF ConverterOpens, FileStates, Converters
  <2> QED BY <1>1, <1>14, <2>1, <2>2 DEF ConverterOpens
<1>15. ASSUME NEW c \in converters, ConverterEnds(c) PROVE TypeOK'
  <2>1. c \in Converters
    OBVIOUS
  <2>2. books' \in [Files -> FileStates] /\ \A f \in Files \ Xls : books'[f] = "whole"
    BY <1>15, <2>1 DEF ConverterEnds, FileStates, Converters
  <2>3. pc' = pc \/ (pc = "convert" /\ pc' = "read")
    BY <1>15 DEF ConverterEnds, Awaited
  <2> QED BY <1>1, <1>15, <2>2, <2>3 DEF ConverterEnds
<1>16. ASSUME NEW c \in converters, ConverterFails(c) PROVE TypeOK'
  <2>1. pc' = pc \/ (pc = "convert" /\ pc' \in {"read", "down"})
    BY <1>16 DEF ConverterFails, Awaited
  <2> QED BY <1>1, <1>16, <2>1, SMTT(20) DEF ConverterFails
<1> QED
  BY <1>2, <1>3, <1>4, <1>5, <1>6, <1>7, <1>8, <1>9, <1>10, <1>11, <1>12,
     <1>13, <1>14, <1>15, <1>16, <1>17 DEF Next, ProcessStep, ConverterStep, Fault

LEMMA InFlightPreserved == ASSUME TypeOK, InFlight, Next PROVE InFlight'
<1> USE DEF InFlight, disk, counts
<1>1. CASE Launch \/ Kill \/ Run \/ Listen \/ ListenFails
  BY <1>1 DEF Launch, Kill, Run, Listen, ListenFails
<1>2. CASE Skip \/ WriteEnds \/ WriteFails
  BY <1>2 DEF Skip, WriteEnds, WriteFails, NextFile
<1>3. CASE StartConverter \/ NoConversion
  <2>1. results[Current] = "none"
    BY <1>3 DEF StartConverter, NoConversion, Finished
  <2> QED BY <1>3, <2>1 DEF StartConverter, NoConversion, Current
<1>4. CASE Read \/ ParseRejects \/ ParseReturns
  BY <1>4 DEF Read, ParseRejects, ParseReturns, Panic, Current
<1>5. CASE WriteOpens
  <2>1. Current \in Files
    BY <1>5, CurrentIsFile DEF WriteOpens, TypeOK
  <2> QED BY <1>5, <2>1 DEF WriteOpens, Current, TypeOK
<1>6. ASSUME NEW c \in converters, ConverterRuns(c)
      PROVE  InFlight'
  <2>1. pc' = pc \/ (pc = "convert" /\ pc' \in {"read", "down"})
    BY <1>6 DEF ConverterRuns, ConverterRefuses, ConverterOpens, ConverterEnds, ConverterFails, Awaited
  <2>2. UNCHANGED <<results, at>>
    BY <1>6 DEF ConverterRuns, ConverterRefuses, ConverterOpens, ConverterEnds, ConverterFails
  <2> QED BY <2>1, <2>2 DEF Current
<1> QED
  BY <1>1, <1>2, <1>3, <1>4, <1>5, <1>6 DEF Next, ProcessStep, ConverterStep, Fault, ConverterRuns

\* The losses grow by a fault at most, and only by the workbook it hits.
LEMMA LossesPreserved ==
    ASSUME TypeOK, InFlight, LossesAreFaults, Next PROVE LossesAreFaults'
<1> DEFINE L == LostResults
           S == SpoiltBooks
           M == LostResults'
           T == SpoiltBooks'
<1>1. /\ IsFiniteSet(L) /\ IsFiniteSet(S)
      /\ faults \in Nat /\ faults' \in Nat
      /\ Cardinality(L) + Cardinality(S) <= faults
  BY LossesFinite, TypePreserved, BoundsAssumption DEF LossesAreFaults, TypeOK
<1>2. SUFFICES Cardinality(M) + Cardinality(T) <= faults'
  BY DEF LossesAreFaults
<1>3. ASSUME M \subseteq L, T \subseteq S, faults' = faults
      PROVE  Cardinality(M) + Cardinality(T) <= faults'
  <2> HIDE DEF L, M, S, T
  <2> QED BY <1>1, <1>3, NothingLost
<1>4. ASSUME NEW x, M \subseteq L \cup {x}, T \subseteq S, faults' = faults + 1
      PROVE  Cardinality(M) + Cardinality(T) <= faults'
  <2> HIDE DEF L, M, S, T
  <2> QED BY <1>1, <1>4, OneLost
<1>5. ASSUME NEW x, T \subseteq S \cup {x}, M \subseteq L, faults' = faults + 1
      PROVE  Cardinality(M) + Cardinality(T) <= faults'
  <2> HIDE DEF L, M, S, T
  <2>1. Cardinality(T) + Cardinality(M) <= faults'
    <3>1. IsFiniteSet(T) /\ IsFiniteSet(M) 
      BY <1>1, <1>5, FS_AddElement, FS_Subset
    <3>2. /\ Cardinality(S) \in Nat /\ Cardinality(L) \in Nat
      BY <1>1, FS_CardinalityType
    <3>3. Cardinality(S) + Cardinality(L) <= faults
      BY <1>1, <3>2
    <3> QED BY <1>1, <1>5, <3>3, OneLost
  <2>2. Cardinality(T) \in Nat /\ Cardinality(M) \in Nat
    BY <1>1, <1>5, FS_AddElement, FS_Subset, FS_CardinalityType
  <2> QED BY <2>1, <2>2
<1> USE DEF disk, counts
\* Steps that leave the files alone and move on, if at all, past a result.
<1>6. ASSUME UNCHANGED <<results, books, converters, faults>>, pc # "writing", pc' # "writing",
             at' = at \/ at' = 1 \/ (at' = at + 1 /\ results[Suite[at]] # "none")
      PROVE  Cardinality(M) + Cardinality(T) <= faults'
  <2>1. T \subseteq S
    BY <1>6 DEF SpoiltBooks, Written
  <2>2. 1 .. at' - 1 \subseteq (1 .. at - 1) \cup (IF at' = at + 1 THEN {at} ELSE {})
    BY <1>6 DEF TypeOK
  <2>3. M \subseteq L
    BY <1>6, <2>2 DEF LostResults, InHand
  <2> QED BY <1>3, <1>6, <2>1, <2>3
<1>7. CASE Launch \/ Skip \/ NoConversion \/ Read \/ ParseRejects \/ ParseReturns \/ Run
           \/ Listen \/ ListenFails
  BY <1>6, <1>7 DEF Launch, Skip, NoConversion, Read, ParseRejects, ParseReturns, Run, Listen,
     ListenFails, Panic, NextFile, Finished, Current
<1>8. CASE StartConverter
  <2>1. M \subseteq L
    BY <1>8 DEF StartConverter, LostResults, InHand
  <2>2. T \subseteq S
    BY <1>8 DEF StartConverter, SpoiltBooks, Written
  <2> QED BY <1>3, <1>8, <2>1, <2>2 DEF StartConverter
<1>9. CASE WriteOpens
  <2>1. Current \in Files /\ Current' = Current
    BY <1>9, CurrentIsFile DEF WriteOpens, TypeOK, Current
  <2>2. M \subseteq L
    BY <1>9, <2>1 DEF WriteOpens, LostResults, InHand, TypeOK
  <2>3. T \subseteq S
    BY <1>9 DEF WriteOpens, SpoiltBooks, Written
  <2> QED BY <1>3, <1>9, <2>2, <2>3 DEF WriteOpens
<1>10. CASE WriteEnds
  <2>1. Current \in Files /\ results' = [results EXCEPT ![Current] = "whole"]
    BY <1>10, CurrentIsFile DEF WriteEnds, TypeOK
  <2>2. /\ at' = at + 1 /\ pc' = "suite" /\ pc = "writing" /\ at \in Nat \ {0}
        /\ Current = Suite[at]
    BY <1>10 DEF WriteEnds, NextFile, Current, TypeOK
  <2>3. 1 .. at' - 1 = (1 .. at - 1) \cup {at}
    BY <2>2
  <2>4. M \subseteq L
    BY <2>1, <2>2, <2>3 DEF LostResults, InHand, TypeOK
  <2>5. T \subseteq S
    BY <1>10 DEF WriteEnds, SpoiltBooks, Written
  <2> QED BY <1>3, <1>10, <2>4, <2>5 DEF WriteEnds
<1>11. CASE WriteFails
  <2>1. /\ at' = at + 1 /\ pc' = "suite" /\ at \in Nat \ {0} /\ Current = Suite[at]
        /\ results' = results
    BY <1>11 DEF WriteFails, NextFile, Current, TypeOK
  <2>2. 1 .. at' - 1 = (1 .. at - 1) \cup {at}
    BY <2>1
  <2>3. M \subseteq L \cup {Current}
    BY <2>1, <2>2 DEF LostResults, InHand
  <2>4. T \subseteq S
    BY <1>11 DEF WriteFails, SpoiltBooks, Written
  <2> QED BY <1>4, <1>11, <2>3, <2>4 DEF WriteFails
<1>12. CASE Kill
  <2>1. M \subseteq L \cup {Current}
    BY <1>12 DEF Kill, LostResults, InHand
  <2>2. T \subseteq S
    BY <1>12 DEF Kill, SpoiltBooks, Written
  <2> QED BY <1>4, <1>12, <2>1, <2>2 DEF Kill
<1>13. ASSUME NEW c \in converters, ConverterRuns(c)
       PROVE  Cardinality(M) + Cardinality(T) <= faults'
  <2>1. /\ pc' = "writing" <=> pc = "writing"
        /\ UNCHANGED <<results, at>>
    BY <1>13 DEF ConverterRuns, ConverterRefuses, ConverterOpens, ConverterEnds, ConverterFails, Awaited
  <2>2. M \subseteq L
    BY <2>1 DEF LostResults, InHand, Current
  <2>3. CASE ConverterOpens(c)
    <3>1. c \in Converters /\ books' = [books EXCEPT ![c.file] = "partial"]
      BY <2>3 DEF ConverterOpens, TypeOK
    <3>2. [c EXCEPT !.phase = "writing"] \in converters'
      BY <2>3 DEF ConverterOpens
    <3>3. T \subseteq S
      <4> SUFFICES ASSUME NEW f \in T PROVE f \in S
        OBVIOUS
      <4>1. f \in Xls /\ books'[f] = "partial" /\ ~Written(f)'
        BY DEF SpoiltBooks
      <4>2. f # c.file
        BY <3>1, <3>2, <4>1 DEF Written, Converters
      <4>3. books'[f] = books[f]
        BY <3>1, <4>1, <4>2, SuiteAssumption DEF TypeOK
      <4>4. ~Written(f)
        BY <2>3, <4>1, <4>2 DEF ConverterOpens, Written
      <4> QED BY <4>1, <4>3, <4>4 DEF SpoiltBooks
    <3> QED BY <1>3, <2>2, <2>3, <3>3 DEF ConverterOpens
  <2>4. CASE ConverterEnds(c)
    <3>1. T \subseteq S
      <4> SUFFICES ASSUME NEW f \in T PROVE f \in S
        OBVIOUS
      <4>1. f \in Xls /\ books'[f] = "partial" /\ ~Written(f)'
        BY DEF SpoiltBooks
      <4>2. books' = [books EXCEPT ![c.file] =
                        IF \E d \in converters' : d.file = c.file /\ d.phase = "writing"
                          THEN "partial" ELSE "whole"]
        BY <2>4 DEF ConverterEnds
      <4>3. f \in DOMAIN books
        BY <4>1, SuiteAssumption DEF TypeOK
      <4>4. f # c.file
        BY <4>1, <4>2, <4>3 DEF Written
      <4>5. books[f] = "partial"
        BY <4>1, <4>2, <4>3, <4>4
      <4>6. ~Written(f)
        BY <2>4, <4>1, <4>4 DEF ConverterEnds, Written
      <4> QED BY <4>1, <4>5, <4>6 DEF SpoiltBooks
    <3> QED BY <1>3, <2>2, <2>4, <3>1 DEF ConverterEnds
  <2>5. CASE ConverterFails(c)
    <3>1. T \subseteq S \cup {c.file}
      BY <2>5 DEF ConverterFails, SpoiltBooks, Written, TypeOK
    <3> QED BY <1>5, <2>2, <2>5, <3>1 DEF ConverterFails
  <2>6. CASE ConverterRefuses(c)
    <3>1. T \subseteq S
      BY <2>6 DEF ConverterRefuses, SpoiltBooks, Written, TypeOK
    <3> QED BY <1>3, <2>2, <2>6, <3>1 DEF ConverterRefuses
  <2> QED BY <1>13, <2>3, <2>4, <2>5, <2>6 DEF ConverterRuns
<1> QED
  BY <1>7, <1>8, <1>9, <1>10, <1>11, <1>12, <1>13 DEF Next, ProcessStep, ConverterStep, Fault, ConverterRuns

LEMMA PaymentPreserved ==
    ASSUME TypeOK, InFlight, PaidForOnce, Next PROVE PaidForOnce'
<1> DEFINE inHand == IF pc \in {"write", "writing"} THEN 1 ELSE 0
<1> USE DEF disk, counts
<1>1. /\ IsFiniteSet(Complete) /\ Cardinality(Complete) \in Nat
      /\ faults \in Nat /\ paid \in Nat
      /\ paid <= Cardinality(Complete) + faults + inHand
  <2>1. IsFiniteSet(Complete)
    BY FilesFinite, FS_Subset DEF Complete
  <2> QED BY <2>1, FS_CardinalityType, BoundsAssumption DEF PaidForOnce, TypeOK, Complete
<1>2. SUFFICES paid' <= Cardinality(Complete') + faults' +
                         (IF pc' \in {"write", "writing"} THEN 1 ELSE 0)
  BY DEF PaidForOnce, Complete
<1>3. CASE Launch \/ Skip \/ StartConverter \/ NoConversion \/ Read \/ ParseRejects \/ Run
           \/ Listen \/ ListenFails \/ Kill \/ WriteFails \/ ParseReturns
  <2>1. Complete' = Complete
    BY <1>3 DEF Launch, Skip, StartConverter, NoConversion, Read, ParseRejects, Run, Listen,
       ListenFails, Kill, WriteFails, ParseReturns, Complete
  <2>2. \/ UNCHANGED <<faults, paid>> /\ pc \notin {"write", "writing"}
        \/ faults' = faults + 1 /\ paid' = paid
        \/ paid' = paid + 1 /\ faults' = faults /\ pc = "parse" /\ pc' = "write"
    BY <1>3 DEF Launch, Skip, StartConverter, NoConversion, Read, ParseRejects, Run, Listen,
       ListenFails, Kill, WriteFails, ParseReturns
  <2> QED BY <1>1, <2>1, <2>2
<1>4. CASE WriteOpens
  <2>1. Complete' = Complete
    BY <1>4 DEF WriteOpens, InFlight, Complete, TypeOK
  <2> QED BY <1>1, <1>4, <2>1 DEF WriteOpens
<1>5. CASE WriteEnds
  <2>1. Current \in Files /\ Current \notin Complete
    BY <1>5, CurrentIsFile DEF WriteEnds, InFlight, Complete, TypeOK
  <2>2. Complete' = Complete \cup {Current}
    BY <1>5, <2>1 DEF WriteEnds, Complete, TypeOK
  <2>3. Cardinality(Complete') = Cardinality(Complete) + 1
    BY <1>1, <2>1, <2>2, FS_AddElement
  <2> QED BY <1>1, <1>5, <2>3 DEF WriteEnds, NextFile
<1>6. ASSUME NEW c \in converters, ConverterRuns(c)
      PROVE  paid' <= Cardinality(Complete') + faults' +
                         (IF pc' \in {"write", "writing"} THEN 1 ELSE 0)
  <2>1. Complete' = Complete
    BY <1>6 DEF ConverterRuns, ConverterRefuses, ConverterOpens, ConverterEnds, ConverterFails, Complete
  <2>2. /\ paid' = paid /\ faults' \in {faults, faults + 1}
        /\ pc' \in {"write", "writing"} <=> pc \in {"write", "writing"}
    BY <1>6 DEF ConverterRuns, ConverterRefuses, ConverterOpens, ConverterEnds, ConverterFails, Awaited
  <2> QED BY <1>1, <2>1, <2>2
<1> QED
  BY <1>3, <1>4, <1>5, <1>6 DEF Next, ProcessStep, ConverterStep, Fault, ConverterRuns

LEMMA StepPreserves == IInv /\ [Next]_vars => IInv'
<1>1. ASSUME IInv, Next PROVE IInv'
  BY <1>1, TypePreserved, InFlightPreserved, LossesPreserved, PaymentPreserved DEF IInv
<1>2. ASSUME IInv, UNCHANGED vars PROVE IInv'
  BY <1>2 DEF IInv, vars, disk, counts, TypeOK, InFlight, LossesAreFaults, PaidForOnce,
     LostResults, SpoiltBooks, InHand, Written, Current
<1> QED BY <1>1, <1>2

LEMMA InvariantHolds == Spec => []IInv
BY InitEstablishes, StepPreserves, PTL DEF Spec

-----------------------------------------------------------------------------
\* Type correctness (test-app.go), for any suite and any number of faults.
THEOREM TypeCorrect == Spec => []TypeOK
<1>1. IInv => TypeOK
  BY DEF IInv
<1> QED BY <1>1, InvariantHolds, PTL

\* However many faults there are, they cost at most one file each (test-app.go:30-64).
THEOREM EveryLossIsAFault == Spec => []LossesAreFaults
<1>1. IInv => LossesAreFaults
  BY DEF IInv
<1> QED BY <1>1, InvariantHolds, PTL

\* However often it is restarted, the suite pays for a workbook again only after a
\* fault (test-app.go:30).
THEOREM NoSecondPayment == Spec => []PaidForOnce
<1>1. IInv => PaidForOnce
  BY DEF IInv
<1> QED BY <1>1, InvariantHolds, PTL
=============================================================================
