------------------------------- MODULE Startup -------------------------------
(***************************************************************************)
(* What the process does before it answers its first request (start.go,     *)
(* app.go:22-24, test-app.go): fx calls TestApp while the application is    *)
(* built, and TestApp converts and parses the workbooks of the repository   *)
(* and writes a result for each, unless there is one already.  A panic in   *)
(* it ends the process; only after the last workbook fx runs the hooks that *)
(* start the HTTP server (http-server.go:66-79).                            *)
(*                                                                          *)
(* The files outlive the process, and so does a LibreOffice that is         *)
(* converting when the process is killed: exec.Command does not tie the     *)
(* child to the parent.  Both files are written in place, so that each may  *)
(* be found half-written.  Restarting is somebody else's: external.         *)
(***************************************************************************)
EXTENDS Integers, Sequences, FiniteSets

CONSTANTS
    Files,      \* the workbooks that runAll names
    Suite,      \* in its order
    Xls,        \* those that have to be converted to .xlsx first
    MaxFlawed,  \* bound: workbooks that fail at every start
    MaxFaults   \* bound: kills, failed conversions, failed writes

ASSUME SuiteAssumption ==
    /\ Suite \in Seq(Files)
    /\ \A f \in Files : \E k \in 1 .. Len(Suite) : Suite[k] = f
    /\ \A k, l \in 1 .. Len(Suite) : Suite[k] = Suite[l] => k = l
    /\ Xls \subseteq Files

ASSUME BoundsAssumption == MaxFlawed \in Nat /\ MaxFaults \in Nat

VARIABLES
    flaw,       \* what is wrong with every workbook, once and for all
    results,    \* ./dest/test/<name>.json of every workbook, on disk
    books,      \* its .xlsx, on disk
    converters, \* the LibreOffice processes
    pc,         \* where the process is; "down" when there is none
    at,         \* the workbook it is at, a position of Suite
    content,    \* what ReadFile returned
    kills,      \* how often the process has been killed
    faults,     \* how many faults there have been, kills among them
    paid        \* how many workbooks have been parsed, with the help of GPT

disk == <<results, books>>
counts == <<kills, faults, paid>>
vars == <<flaw, disk, converters, pc, at, content, counts>>

\* A file is missing, half-written, or as it should be.
FileStates == {"none", "partial", "whole"}

\* LibreOffice cannot convert it (or is not there), or excelize cannot open it: the
\* same at every start, and no fault of the run.
Flaws == {"none", "convert", "parse"}

\* A converter belongs to the process that has seen as many kills as its parent.
Converters ==
    [file : Xls, phase : {"loading", "writing"}, parent : 0 .. MaxFaults]

Current == Suite[at]

Init ==
    /\ flaw \in {w \in [Files -> Flaws] :
                  /\ \A f \in Files \ Xls : w[f] # "convert"
                  /\ Cardinality({f \in Files : w[f] # "none"}) <= MaxFlawed}
    /\ results = [f \in Files |-> "none"]
    /\ books \in {b \in [Files -> {"none", "whole"}] : \A f \in Files \ Xls : b[f] = "whole"}
    /\ converters = {}
    /\ pc = "down"
    /\ at = 1
    /\ content = "none"
    /\ kills = 0 /\ faults = 0 /\ paid = 0

-----------------------------------------------------------------------------
\* Somebody starts the process.
Launch ==
    /\ pc = "down"
    /\ pc' = "suite"
    /\ at' = 1
    /\ content' = "none"
    /\ UNCHANGED <<flaw, disk, converters, counts>>

\* The process is killed, or the machine's memory is full; its converter goes on.
Kill ==
    /\ pc # "down"
    /\ faults < MaxFaults
    /\ pc' = "down"
    /\ kills' = kills + 1
    /\ faults' = faults + 1
    /\ UNCHANGED <<flaw, disk, converters, at, content, paid>>

Panic ==
    /\ pc' = "down"
    /\ UNCHANGED at

NextFileForgetful ==
    /\ pc' = "suite"
    /\ at' = at

NextFile ==
    /\ pc' = "suite"
    /\ at' = at + 1

FinishedNever(f) == FALSE

\* os.Stat: it asks for a file of that name, not for what is in it.
Finished(f) == results[f] # "none"

Skip ==
    /\ pc = "suite"
    /\ at <= Len(Suite)
    /\ Finished(Current)
    /\ NextFile
    /\ UNCHANGED <<flaw, disk, converters, content, counts>>

NeedsConversion(f) == f \in Xls /\ books[f] = "none"

StartConverter ==
    /\ pc = "suite"
    /\ at <= Len(Suite)
    /\ ~Finished(Current)
    /\ NeedsConversion(Current)
    /\ converters' = converters \cup
         {[file |-> Current, phase |-> "loading", parent |-> kills]}
    /\ pc' = "convert"
    /\ UNCHANGED <<flaw, disk, at, content, counts>>

NoConversion ==
    /\ pc = "suite"
    /\ at <= Len(Suite)
    /\ ~Finished(Current)
    /\ ~NeedsConversion(Current)
    /\ pc' = "read"
    /\ UNCHANGED <<flaw, disk, converters, at, content, counts>>

\* The process that started c still waits for it, in cmd.Run.
Awaited(c) == pc = "convert" /\ c.parent = kills

\* LibreOffice gives up, and its exit status may say so or not.
ConverterRefuses(c) ==
    /\ c.phase = "loading"
    /\ flaw[c.file] = "convert"
    /\ converters' = converters \ {c}
    /\ IF Awaited(c) THEN pc' \in {"read", "down"} ELSE pc' = pc
    /\ UNCHANGED <<flaw, disk, at, content, counts>>

ConverterOpens(c) ==
    /\ c.phase = "loading"
    /\ flaw[c.file] # "convert"
    /\ converters' = (converters \ {c}) \cup {[c EXCEPT !.phase = "writing"]}
    /\ books' = [books EXCEPT ![c.file] = "partial"]
    /\ UNCHANGED <<flaw, results, pc, at, content, counts>>

Written(f) == \E c \in converters : c.file = f /\ c.phase = "writing"

ConverterEnds(c) ==
    /\ c.phase = "writing"
    /\ converters' = converters \ {c}
    /\ books' = [books EXCEPT ![c.file] =
                   IF \E d \in converters' : d.file = c.file /\ d.phase = "writing"
                     THEN "partial" ELSE "whole"]
    /\ pc' = IF Awaited(c) THEN "read" ELSE pc
    /\ UNCHANGED <<flaw, results, at, content, counts>>

\* It ends for once before its file is complete: it is killed, or the disk is full.
ConverterFails(c) ==
    /\ faults < MaxFaults
    /\ converters' = converters \ {c}
    /\ faults' = faults + 1
    /\ IF Awaited(c) THEN pc' \in {"read", "down"} ELSE pc' = pc
    /\ UNCHANGED <<flaw, disk, at, content, kills, paid>>

ReadUnchecked ==
    /\ pc = "read"
    /\ content' = books[Current]
    /\ pc' = "parse"
    /\ UNCHANGED <<flaw, disk, converters, at, counts>>

Read ==
    /\ pc = "read"
    /\ content' = books[Current]
    /\ IF books[Current] = "none" THEN Panic ELSE pc' = "parse" /\ UNCHANGED at
    /\ UNCHANGED <<flaw, disk, converters, counts>>

Openable == content = "whole" /\ flaw[Current] # "parse"

ParseRejectsSkipping ==
    /\ pc = "parse"
    /\ ~Openable
    /\ NextFile
    /\ UNCHANGED <<flaw, disk, converters, content, counts>>

\* Half a workbook is no zip archive, and a whole one may be no workbook that
\* excelize knows: OpenReader fails, before GPT is asked anything.
ParseRejects ==
    /\ pc = "parse"
    /\ ~Openable
    /\ Panic
    /\ UNCHANGED <<flaw, disk, converters, content, counts>>

\* parse() returns, once GPT has answered its questions.
ParseReturns ==
    /\ pc = "parse"
    /\ Openable
    /\ pc' = "write"
    /\ paid' = paid + 1
    /\ UNCHANGED <<flaw, disk, converters, at, content, kills, faults>>

\* os.WriteFile opens the file, emptying it,
WriteOpens ==
    /\ pc = "write"
    /\ results' = [results EXCEPT ![Current] = "partial"]
    /\ pc' = "writing"
    /\ UNCHANGED <<flaw, books, converters, at, content, counts>>

\* and writes.
WriteEnds ==
    /\ pc = "writing"
    /\ results' = [results EXCEPT ![Current] = "whole"]
    /\ NextFile
    /\ UNCHANGED <<flaw, books, converters, content, counts>>

\* It fails to open the file, or to write all of it; nobody looks at its error.
WriteFails ==
    /\ pc \in {"write", "writing"}
    /\ faults < MaxFaults
    /\ faults' = faults + 1
    /\ NextFile
    /\ UNCHANGED <<flaw, disk, converters, content, kills, paid>>

\* The application is built; app.Run runs the hooks.
Run ==
    /\ pc = "suite"
    /\ at > Len(Suite)
    /\ pc' = "starting"
    /\ UNCHANGED <<flaw, disk, converters, at, content, counts>>

Listen ==
    /\ pc = "starting"
    /\ pc' = "serving"
    /\ UNCHANGED <<flaw, disk, converters, at, content, counts>>

\* Listen fails in its goroutine: the process logs it and lives on without a server.
ListenFails ==
    /\ pc = "starting"
    /\ pc' = "deaf"
    /\ UNCHANGED <<flaw, disk, converters, at, content, counts>>

\* What the process does of itself; parse() depends on GPT.
ProcessStep ==
    \/ Skip \/ StartConverter \/ NoConversion \/ Read \/ ParseRejects
    \/ WriteOpens \/ WriteEnds \/ Run \/ Listen

ConverterStep ==
    \E c \in converters : ConverterRefuses(c) \/ ConverterOpens(c) \/ ConverterEnds(c)

Fault ==
    \/ Kill \/ WriteFails \/ ListenFails
    \/ \E c \in converters : ConverterFails(c)

Next == Launch \/ ProcessStep \/ ParseReturns \/ ConverterStep \/ Fault

Spec == Init /\ [][Next]_vars

\* Somebody restarts the process whenever it is down, and LibreOffice ends; GPT
\* need not answer.
FairSpec ==
    Spec /\ WF_vars(Launch) /\ WF_vars(ProcessStep) /\ WF_vars(ConverterStep)

-----------------------------------------------------------------------------
TypeOK ==
    /\ flaw \in [Files -> Flaws]
    /\ results \in [Files -> FileStates]
    /\ books \in [Files -> FileStates]
    /\ \A f \in Files \ Xls : books[f] = "whole"
    /\ converters \subseteq Converters
    /\ pc \in {"down", "suite", "convert", "read", "parse", "write", "writing",
               "starting", "serving", "deaf"}
    /\ at \in 1 .. Len(Suite) + 1
    /\ pc \in {"convert", "read", "parse", "write", "writing"} => at <= Len(Suite)
    /\ content \in FileStates
    /\ pc = "parse" => content # "none"
    /\ faults \in 0 .. MaxFaults
    /\ kills \in 0 .. faults
    /\ paid \in Nat

InHand(f) == pc = "writing" /\ f = Current

\* Results that are spoilt, or missing although the process is past the workbook.
LostResults ==
    {f \in Files : results[f] = "partial" /\ ~InHand(f)} \cup
    {Suite[k] : k \in {l \in 1 .. at - 1 : results[Suite[l]] = "none"}}

\* Workbooks that are half-written and will stay so (test-app.go:41).
SpoiltBooks == {f \in Xls : books[f] = "partial" /\ ~Written(f)}

\* Every workbook or result that is lost is lost to a fault of its own: however
\* often the process is restarted and whatever runs beside it, an accident never
\* costs a second file, and a server that is up has a result for all others
\* (test-app.go:30-64).
LossesAreFaults == Cardinality(LostResults) + Cardinality(SpoiltBooks) <= faults

\* A workbook is parsed, and GPT paid for it, a second time only when a fault has
\* lost what the first time gave (test-app.go:30).
PaidForOnce ==
    paid <= Cardinality({f \in Files : results[f] = "whole"}) + faults
              + (IF pc \in {"write", "writing"} THEN 1 ELSE 0)

\* Why the workbook at k ends every start in a panic: half of its .xlsx passes for
\* the whole (test-app.go:41), or it can never be converted (:43) or parsed (:57).
Hopeless(k) ==
    \/ Suite[k] \in SpoiltBooks
    \/ flaw[Suite[k]] = "convert" /\ books[Suite[k]] = "none"
    \/ flaw[Suite[k]] = "parse"

\* Then the process never gets past it, and has done all that comes before.
StuckAt(k) ==
    /\ at <= k
    /\ ~Finished(Suite[k]) /\ Hopeless(k)
    /\ \A l \in 1 .. k - 1 : Finished(Suite[l])

\* In the end the server is up, unless GPT keeps parse() waiting, Listen has
\* failed, or the process is restarted for ever because of one hopeless workbook,
\* with a result for every workbook before it.
ServesOrIsStuck ==
    \/ <>[](pc = "serving")
    \/ <>[](pc = "deaf")
    \/ <>[](pc = "parse" /\ Openable)
    \/ \E k \in 1 .. Len(Suite) : <>[]StuckAt(k)
=============================================================================
