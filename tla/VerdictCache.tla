---------------------------- MODULE VerdictCache ----------------------------
(***************************************************************************)
(* What isProductTableWithBoundaries (parse.go:547) may rely on when it     *)
(* asks the collision-resistant validation cache about a table: the answer  *)
(* is a miss, or a verdict that some client stored for exactly that table   *)
(* identity less than Horizon time units ago.  Nothing is promised about a  *)
(* stored verdict being found again: the cache may forget at any time, and  *)
(* it may answer with an older verdict after a newer one was stored.        *)
(*                                                                          *)
(* AdvancedCache shows that the Redis lists of the code keep this promise;  *)
(* ExcelParse composes the parser with the promise instead of the lists.    *)
(***************************************************************************)
EXTENDS Integers

CONSTANTS
    Ids,        \* table identities: header hash and header boundaries
    Verdicts,   \* what GPT may say of a table
    Horizon,    \* no verdict of this age or older is ever served
    Miss,       \* "not found"
    Nothing,    \* nobody has asked yet
    MaxClock    \* bound of the model: the clock stops here

VARIABLES
    clock,      \* the wall clock, in the unit of the cache's ages
    issued,     \* history: every verdict that was ever stored, with its time
    served      \* history: the last question and its answer

vars == <<clock, issued, served>>

Entry == [id : Ids, verdict : Verdicts, ts : Nat]

\* The answers a lookup of id may get in the current state.
Answers(id) ==
    {Miss} \cup {e \in issued : e.id = id /\ clock - e.ts < Horizon}

Init ==
    /\ clock = 0
    /\ issued = {}
    /\ served = Nothing

Tick ==
    /\ clock < MaxClock
    /\ clock' = clock + 1
    /\ UNCHANGED <<issued, served>>

Record(id, v) == issued' = issued \cup {[id |-> id, verdict |-> v, ts |-> clock]}

Issue(id, v) ==
    /\ Record(id, v)
    /\ UNCHANGED <<clock, served>>

Serve(id) ==
    /\ \E a \in Answers(id) : served' = [asked |-> id, answer |-> a]
    /\ UNCHANGED <<clock, issued>>

Next ==
    \/ Tick
    \/ \E id \in Ids, v \in Verdicts : Issue(id, v)
    \/ \E id \in Ids : Serve(id)

Spec == Init /\ [][Next]_vars
=============================================================================
