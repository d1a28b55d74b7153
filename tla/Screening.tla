----------------------------- MODULE Screening ------------------------------
(***************************************************************************)
(* What the caller of parse() may rely on (excel-parser.interface.go,       *)
(* parse.go:648): it goes through the sheets of a workbook in order, keeps  *)
(* a table of each sheet that has one or leaves it out, and leaves out only *)
(* what GPT, at some time, gave it a reason to.  How it learns of GPT's     *)
(* opinions, and which caches it asks, is left open: ExcelParse shows.      *)
(***************************************************************************)
EXTENDS Integers, Sequences, Opinions

CONSTANTS
    Workers,    \* goroutines, each parsing one workbook
    Length,     \* per worker: the number of its workbook's sheets
    WithTable,  \* per worker: the sheets it can read that a table starts in
    Unreadable  \* per worker: the sheets it cannot read

VARIABLES
    position,   \* per worker: the sheet it is at
    kept,       \* per worker: the sheets whose tables parse() will return
    dropped,    \* what was left out, and as what
    opinions,   \* what GPT has said so far
    returned    \* the workers whose parse() has returned

vars == <<position, kept, dropped, opinions, returned>>

Init ==
    /\ position = [w \in Workers |-> 1]
    /\ kept = [w \in Workers |-> <<>>]
    /\ dropped = {}
    /\ opinions = {}
    /\ returned = {}

\* GPT is asked, and says something.
Consult ==
    /\ opinions \subseteq opinions'
    /\ UNCHANGED <<position, kept, dropped, returned>>

GoOn(w) ==
    /\ position[w] <= Length[w]
    /\ position' = [position EXCEPT ![w] = @ + 1]
    /\ UNCHANGED <<opinions, returned>>

\* A sheet that cannot be read is gone without a reason from GPT.
Lose(w) ==
    /\ position[w] \in Unreadable[w]
    /\ GoOn(w)
    /\ UNCHANGED <<kept, dropped>>

PassOver(w) ==
    /\ position[w] \notin WithTable[w] \cup Unreadable[w]
    /\ GoOn(w)
    /\ UNCHANGED <<kept, dropped>>

Keep(w) ==
    /\ position[w] \in WithTable[w]
    /\ GoOn(w)
    /\ kept' = [kept EXCEPT ![w] = Append(@, position[w])]
    /\ UNCHANGED dropped

LeaveOut(w) ==
    /\ position[w] \in WithTable[w]
    /\ GoOn(w)
    /\ \E d \in dropped' :
         /\ d.worker = w /\ d.sheet = position[w]
         /\ \E o \in opinions : Backs(o, d)
         /\ dropped' = dropped \cup {d}
    /\ UNCHANGED kept

Return(w) ==
    /\ position[w] > Length[w]
    /\ returned' = returned \cup {w}
    /\ UNCHANGED <<position, kept, dropped, opinions>>

Next ==
    \/ Consult
    \/ \E w \in Workers :
          Lose(w) \/ PassOver(w) \/ Keep(w) \/ LeaveOut(w) \/ Return(w)

Spec == Init /\ [][Next]_vars
=============================================================================
