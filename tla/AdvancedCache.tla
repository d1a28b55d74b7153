--------------------------- MODULE AdvancedCache ----------------------------
(***************************************************************************)
(* The "advanced" validation cache of the excel parser: one Redis key per   *)
(* first header, holding the JSON list of the verdicts of all tables whose  *)
(* header starts like that (getAdvancedCachedTableValidation and            *)
(* setAdvancedCachedTableValidation, parse.go:165-316).                     *)
(*                                                                          *)
(* A lookup is one GET.  A store is a GET, a change of the list in the      *)
(* memory of the goroutine, and a SET of the whole list: nothing locks the  *)
(* key in between, so the two Redis commands are two steps here.            *)
(*                                                                          *)
(* What happens to the list in memory is VerdictLists.                      *)
(***************************************************************************)
EXTENDS VerdictLists

CONSTANTS
    Clients,      \* goroutines that parse workbooks
    Keys,         \* primary keys: hashes of the first non-blank header
    PrimaryKey,   \* the primary key of a header hash
    TTL,          \* 30 days in the code
    GetMayFail,   \* whether the GET of a store may fail
    Idle, NoKey, Miss, Nothing,   \* sentinels
    MaxClock, MaxStores           \* bounds of the model

ASSUME KeyAssumption == PrimaryKey \in [Hashes -> Keys]

ASSUME BoundsAssumption ==
    /\ TTL \in Nat
    /\ MaxClock \in Nat /\ MaxStores \in Nat
    /\ GetMayFail \in BOOLEAN

VARIABLES
    clock,    \* the wall clock
    redis,    \* the lists, with the time of the SET that wrote them
    work,     \* per client: the store it is in the middle of
    issued,   \* history: the verdicts that were stored
    served    \* history: the last question and its answer

vars == <<clock, redis, work, issued, served>>

List  == [entries : SUBSET Entry, setAt : Nat]
Store == [id : Ids, verdict : Verdicts, entries : SUBSET Entry]

ASSUME SentinelAssumption ==
    /\ Idle \notin Store
    /\ NoKey \notin List
    /\ Miss \notin Entry

-----------------------------------------------------------------------------
KeyOf(id) == PrimaryKey[id.hash]

\* What is left of a list at time now: Redis drops it TTL after the SET.
Live(l, now) ==
    IF l # NoKey /\ now - l.setAt < TTL THEN l.entries ELSE {}

\* What a GET of the key returns.
Stored(k) == Live(redis[k], clock)

NewEntryBackdated(w) == [id |-> w.id, verdict |-> w.verdict, ts |-> clock - 1]

\* The entry that store w adds.
NewEntry(w) == [id |-> w.id, verdict |-> w.verdict, ts |-> clock]

-----------------------------------------------------------------------------
Init ==
    /\ clock = 0
    /\ redis = [k \in Keys |-> NoKey]
    /\ work = [c \in Clients |-> Idle]
    /\ issued = {}
    /\ served = Nothing

Tick ==
    /\ clock < MaxClock
    /\ clock' = clock + 1
    /\ UNCHANGED <<redis, work, issued, served>>

Answer(c, id, a) ==
    /\ work[c] = Idle
    /\ served' = [asked |-> id, answer |-> a]
    /\ UNCHANGED <<clock, redis, work, issued>>

\* getAdvancedCachedTableValidation finds an entry.
LookupHit(c, id) ==
    \E e \in Stored(KeyOf(id)) : Matches(e, id) /\ Answer(c, id, e)

\* It finds none, or the GET or the decoding fails: both are a miss.
LookupMiss(c, id) == Answer(c, id, Miss)

\* The first half of setAdvancedCachedTableValidation: GET the list.
BeginStore(c, id, v) ==
    /\ work[c] = Idle
    /\ work' = [work EXCEPT ![c] =
                  [id |-> id, verdict |-> v, entries |-> Stored(KeyOf(id))]]
    /\ UNCHANGED <<clock, redis, issued, served>>

\* The GET fails: the code goes on with an empty list.
BeginStoreBlind(c, id, v) ==
    /\ GetMayFail
    /\ work[c] = Idle
    /\ work' = [work EXCEPT ![c] =
                  [id |-> id, verdict |-> v, entries |-> {}]]
    /\ UNCHANGED <<clock, redis, issued, served>>

\* The second half: add the entry, clean the list, SET it. The clock is read for
\* the entry (parse.go:253) and for the cleaning (276), and counts again from the SET
\* (304): the time between the three is taken as none.
FinishStore(c) ==
    /\ work[c] # Idle
    /\ Cardinality(issued) < MaxStores
    /\ LET w == work[c]
           e == NewEntry(w)
       IN  /\ \E kept \in Trimmed(Fresh(Upsert(w.entries, e), clock)) :
                 redis' = [redis EXCEPT ![KeyOf(w.id)] =
                             [entries |-> kept, setAt |-> clock]]
           /\ issued' = issued \cup {e}
    /\ work' = [work EXCEPT ![c] = Idle]
    /\ UNCHANGED <<clock, served>>

\* The SET fails, or the process dies between the two commands.
AbandonStore(c) ==
    /\ work[c] # Idle
    /\ work' = [work EXCEPT ![c] = Idle]
    /\ UNCHANGED <<clock, redis, issued, served>>

\* External: Redis evicts a key under memory pressure, or restarts empty.
Evict(k) ==
    /\ redis[k] # NoKey
    /\ redis' = [redis EXCEPT ![k] = NoKey]
    /\ UNCHANGED <<clock, work, issued, served>>

ClientStep(c) ==
    \/ \E id \in Ids : LookupHit(c, id) \/ LookupMiss(c, id)
    \/ \E id \in Ids, v \in Verdicts :
          BeginStore(c, id, v) \/ BeginStoreBlind(c, id, v)
    \/ FinishStore(c)
    \/ AbandonStore(c)

Next ==
    \/ Tick
    \/ \E c \in Clients : ClientStep(c)
    \/ \E k \in Keys : Evict(k)

Spec == Init /\ [][Next]_vars

-----------------------------------------------------------------------------
TypeOK ==
    /\ clock \in Nat
    /\ redis \in [Keys -> List \cup {NoKey}]
    /\ work \in [Clients -> Store \cup {Idle}]
    /\ issued \subseteq Entry
    /\ served \in [asked : Ids, answer : Entry \cup {Miss}] \cup {Nothing}

\* A list never holds two verdicts for the same table, whatever the clients
\* interleave: the lookup loop (parse.go:194) stops at the first match, and a
\* second one would be a verdict that no later store could replace.
UniqueIdentity ==
    \A k \in Keys : redis[k] # NoKey => OnePerIdentity(redis[k].entries)

\* A list never outgrows the limit of 50 (parse.go:273), whatever snapshots the
\* writers started from.
BoundedLists ==
    \A k \in Keys : redis[k] # NoKey => Cardinality(redis[k].entries) <= MaxEntries

\* Every SET renews the TTL of the whole list and only the SET drops old
\* entries, so an entry may be served after 45 days; it is never served after
\* 45 + 30 days (parse.go:274 and 304).
AgeBound ==
    \A k \in Keys : \A e \in Stored(k) : clock - e.ts < MaxAge + TTL

\* A store displaces the verdict of another table only if that verdict is too
\* old, or the list is full of entries that are at least as recent.  This is
\* the collision resistance the comments promise (parse.go:38 and 224).
NoCollateralLoss ==
    [][\A c \in Clients : FinishStore(c) =>
          LET k == KeyOf(work[c].id)
          IN  \A e \in Stored(k) \ redis'[k].entries :
                 \/ e.id = work[c].id
                 \/ clock - e.ts > MaxAge
                 \/ /\ Cardinality(redis'[k].entries) = MaxEntries
                    /\ \A x \in redis'[k].entries : x.ts >= e.ts]_vars

\* The verdict a reader finds for a table never goes back to an older one that
\* a later store had replaced ("Update existing", parse.go:262).
NoOlderVerdict ==
    [][\A k \in Keys : redis[k] # NoKey /\ redis'[k] # NoKey =>
          \A e \in redis[k].entries, f \in redis'[k].entries :
             e.id = f.id => e.ts <= f.ts]_vars

VC == INSTANCE VerdictCache WITH Horizon <- MaxAge + TTL

\* The lists keep the promise of VerdictCache to every reader.
KeepsPromise == VC!Spec
=============================================================================
