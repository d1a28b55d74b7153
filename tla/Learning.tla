------------------------------ MODULE Learning ------------------------------
(***************************************************************************)
(* What POST /manual-upload promises to Laravel, whose mappings it reads    *)
(* and adds to (excel-parser-http-handler.go:32, mapping.service.go:52): it *)
(* goes through the tables of a workbook in order, teaches Laravel once per *)
(* table, then names the columns by what Laravel knows, or gives the table  *)
(* up; and it closes the job behind the last table.  How it learns what a   *)
(* header means is left open: ManualUpload shows.                           *)
(***************************************************************************)
EXTENDS Integers

CONSTANTS
    Uploads,               \* requests
    Length,                \* per upload: the number of its tables
    IsLesson(_, _, _, _),  \* what a table of an upload may teach, given the extra
    Truthful(_, _, _),     \* whether a result of an upload agrees with Laravel
    Stored0                \* the mappings Laravel has at first

VARIABLES
    position,   \* per upload: the table it is at
    taught,     \* the uploads whose table at hand Laravel has learned from
    ended,      \* the uploads that have ended
    results,    \* per upload: the results so far
    extra,      \* the mappings the model gave unasked, with the upload and table
    stored,     \* the mappings in Laravel's database
    job         \* the state of each upload's job

vars == <<position, taught, ended, results, extra, stored, job>>

Init ==
    /\ position = [u \in Uploads |-> 1]
    /\ taught = {} /\ ended = {}
    /\ results = [u \in Uploads |-> {}]
    /\ extra = {}
    /\ stored = Stored0
    /\ job = [u \in Uploads |-> "open"]

AtTable(u) == u \notin ended /\ position[u] <= Length[u]

Advance(u) == position' = [position EXCEPT ![u] = @ + 1]

\* The model names headers that it was not asked about.
Volunteer(u) ==
    /\ AtTable(u) /\ u \notin taught
    /\ extra \subseteq extra'
    /\ \A m \in extra' \ extra : m.upload = u /\ m.table = position[u]
    /\ UNCHANGED <<position, taught, ended, results, stored, job>>

Learn(u) ==
    /\ AtTable(u) /\ u \notin taught
    /\ stored \subseteq stored'
    /\ \A m \in stored' \ stored : IsLesson(u, position[u], m, extra)
    /\ UNCHANGED <<ended, results, extra, job>>

\* Laravel acknowledges what it learned, if anything.
Teach(u) ==
    /\ Learn(u)
    /\ taught' = taught \cup {u}
    /\ UNCHANGED position

\* The table has no result, whether Laravel learned from it or not.
GiveUp(u) ==
    /\ Learn(u)
    /\ Advance(u)
    /\ UNCHANGED taught

Answer(u) ==
    /\ AtTable(u) /\ u \in taught
    /\ \E r \in results'[u] :
         /\ r.table = position[u] /\ Truthful(u, r, stored)
         /\ results' = [results EXCEPT ![u] = @ \cup {r}]
    /\ taught' = taught \ {u}
    /\ Advance(u)
    /\ UNCHANGED <<ended, extra, stored, job>>

Close(u) ==
    /\ u \notin ended /\ position[u] > Length[u]
    /\ ended' = ended \cup {u}
    /\ job' \in {job, [job EXCEPT ![u] = "failed"]}
    /\ UNCHANGED <<position, taught, results, extra, stored>>

\* An error before the first table.
EndEarly(u) ==
    /\ u \notin ended \cup taught /\ position[u] = 1
    /\ ended' = ended \cup {u}
    /\ UNCHANGED <<position, taught, results, extra, stored, job>>

Next ==
    \E u \in Uploads :
        \/ Volunteer(u) \/ Teach(u) \/ GiveUp(u) \/ Answer(u)
        \/ Close(u) \/ EndEarly(u)

Spec == Init /\ [][Next]_vars
=============================================================================
