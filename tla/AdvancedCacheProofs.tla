------------------------ MODULE AdvancedCacheProofs -------------------------
(***************************************************************************)
(* Proofs about AdvancedCache, for any number of clients, keys, identities  *)
(* and any limits.  The inductive invariant adds to the properties of the   *)
(* lists the same facts about the snapshots the clients hold between GET    *)
(* and SET, because the next SET makes a snapshot the list.                 *)
(***************************************************************************)
EXTENDS AdvancedCache, VerdictListsProofs

\* What holds of the entries of a list of key k, and of a snapshot of it, when
\* the verdicts in iss were issued and the time is now.
Sound(S, k, iss, now) ==
    /\ OnePerIdentity(S)
    /\ \A e \in S : e \in iss /\ KeyOf(e.id) = k /\ e.ts <= now

SoundList(l, k, iss, now) ==
    /\ Sound(l.entries, k, iss, now)
    /\ Cardinality(l.entries) <= MaxEntries
    /\ l.setAt <= now
    /\ \A e \in l.entries : l.setAt - e.ts <= MaxAge

SoundLists ==
    \A k \in Keys : redis[k] # NoKey => SoundList(redis[k], k, issued, clock)

SoundWork ==
    \A c \in Clients : work[c] # Idle =>
        Sound(work[c].entries, KeyOf(work[c].id), issued, clock)

IInv == TypeOK /\ SoundLists /\ SoundWork

-----------------------------------------------------------------------------
LEMMA KeyOfType == ASSUME NEW id \in Ids PROVE KeyOf(id) \in Keys
  BY IdsAssumption, KeyAssumption DEF KeyOf

-----------------------------------------------------------------------------
\* Soundness survives the passing of time and the issuing of verdicts.
LEMMA SoundGrows ==
    ASSUME NEW S \in SUBSET Entry, NEW k, NEW iss1, NEW iss2 \in SUBSET Entry,
           NEW now1 \in Nat, NEW now2 \in Nat,
           Sound(S, k, iss1, now1), iss1 \subseteq iss2, now1 <= now2
    PROVE  Sound(S, k, iss2, now2)
  BY DEF Sound, Entry

LEMMA InitEstablishes == Init => IInv
  BY SentinelAssumption DEF Init, IInv, TypeOK, SoundLists, SoundWork

\* A step that leaves lists and snapshots alone, or only drops some of them.
LEMMA NothingNew ==
    ASSUME IInv, TypeOK', issued' = issued, clock <= clock',
           \A k \in Keys : redis'[k] # NoKey => redis'[k] = redis[k],
           \A c \in Clients : work'[c] # Idle => work'[c] = work[c]
    PROVE  IInv'
<1>1. clock \in Nat /\ clock' \in Nat /\ issued' \in SUBSET Entry
  BY DEF IInv, TypeOK
<1>2. SoundLists'
  <2> SUFFICES ASSUME NEW k \in Keys, redis'[k] # NoKey
               PROVE  SoundList(redis'[k], k, issued', clock')
    BY DEF SoundLists
  <2>1. redis'[k] = redis[k] /\ redis[k] \in List
    BY DEF IInv, TypeOK
  <2>2. SoundList(redis[k], k, issued, clock)
    BY <2>1 DEF IInv, SoundLists
  <2>3. Sound(redis[k].entries, k, issued', clock')
    BY <1>1, <2>1, <2>2, SoundGrows DEF SoundList, List
  <2> QED BY <1>1, <2>1, <2>2, <2>3 DEF SoundList, List
<1>3. SoundWork'
  <2> SUFFICES ASSUME NEW c \in Clients, work'[c] # Idle
               PROVE  Sound(work'[c].entries, KeyOf(work'[c].id), issued', clock')
    BY DEF SoundWork, KeyOf
  <2>1. work'[c] = work[c] /\ work[c] \in Store
    BY DEF IInv, TypeOK
  <2>2. Sound(work[c].entries, KeyOf(work[c].id), issued, clock)
    BY <2>1 DEF IInv, SoundWork
  <2> QED BY <1>1, <2>1, <2>2, SoundGrows DEF Store
<1> QED BY <1>2, <1>3 DEF IInv

LEMMA TickPreserves ==
    ASSUME IInv, Tick
    PROVE  IInv'
<1>1. clock \in Nat /\ clock' = clock + 1 /\ UNCHANGED <<redis, work, issued, served>>
  BY DEF IInv, Tick, TypeOK
<1>2. TypeOK'
  BY <1>1 DEF IInv, TypeOK
<1> QED BY <1>1, <1>2, NothingNew

LEMMA AnswerPreserves ==
    ASSUME IInv, NEW c \in Clients, NEW id \in Ids,
           LookupHit(c, id) \/ LookupMiss(c, id)
    PROVE  IInv'
<1>1. KeyOf(id) \in Keys
  BY KeyOfType
<1>2. PICK a \in Entry \cup {Miss} : Answer(c, id, a)
  <2>1. CASE LookupHit(c, id)
    BY <1>1, <2>1 DEF LookupHit, IInv, TypeOK, List, Stored, Live
  <2>2. CASE LookupMiss(c, id)
    BY <2>2 DEF LookupMiss
  <2> QED BY <2>1, <2>2
<1>3. UNCHANGED <<clock, redis, work, issued>>
  BY <1>2 DEF Answer
<1>4. TypeOK'
  BY <1>2 DEF Answer, IInv, TypeOK
<1>5. clock <= clock'
  BY <1>3 DEF IInv, TypeOK
<1> QED BY <1>3, <1>4, <1>5, NothingNew

\* What a GET returns, and may become a snapshot, is sound.
LEMMA StoredIsSound ==
    ASSUME IInv, NEW k \in Keys
    PROVE  Stored(k) \in SUBSET Entry /\ Sound(Stored(k), k, issued, clock)
  BY DEF IInv, Stored, Live, Sound, SoundList, SoundLists, OnePerIdentity, TypeOK, List

LEMMA BeginPreserves ==
    ASSUME IInv, NEW c \in Clients, NEW id \in Ids, NEW v \in Verdicts,
           BeginStore(c, id, v) \/ BeginStoreBlind(c, id, v)
    PROVE  IInv'
<1>1. KeyOf(id) \in Keys
  BY KeyOfType
<1>2. PICK S \in SUBSET Entry :
        /\ Sound(S, KeyOf(id), issued, clock)
        /\ work' = [work EXCEPT ![c] = [id |-> id, verdict |-> v, entries |-> S]]
  <2>1. CASE BeginStore(c, id, v)
    BY <1>1, <2>1, StoredIsSound DEF BeginStore
  <2>2. CASE BeginStoreBlind(c, id, v)
    <3>1. Sound({}, KeyOf(id), issued, clock)
      BY DEF Sound, OnePerIdentity
    <3> QED BY <2>2, <3>1 DEF BeginStoreBlind
  <2> QED BY <2>1, <2>2
<1>3. UNCHANGED <<clock, redis, issued, served>>
  BY DEF BeginStore, BeginStoreBlind
<1>4. work \in [Clients -> Store \cup {Idle}]
  BY DEF IInv, TypeOK
<1>5. [id |-> id, verdict |-> v, entries |-> S] \in Store
  BY DEF Store
<1>6. TypeOK'
  BY <1>2, <1>3, <1>4, <1>5 DEF IInv, TypeOK
<1>7. SoundLists'
  BY <1>3 DEF IInv, SoundLists
<1>8. SoundWork'
  <2> SUFFICES ASSUME NEW d \in Clients, work'[d] # Idle
               PROVE  Sound(work'[d].entries, KeyOf(work'[d].id), issued, clock)
    BY <1>3 DEF SoundWork, KeyOf
  <2>1. CASE d = c
    BY <1>2, <1>4, <2>1
  <2>2. CASE d # c
    BY <1>2, <1>4, <2>2 DEF IInv, SoundWork
  <2> QED BY <2>1, <2>2
<1> QED BY <1>6, <1>7, <1>8 DEF IInv

\* The list that a store writes.
LEMMA FinishWrites ==
    ASSUME IInv, NEW c \in Clients, FinishStore(c)
    PROVE  \E kept \in SUBSET Entry :
             /\ kept \in Trimmed(Fresh(Upsert(work[c].entries, NewEntry(work[c])), clock))
             /\ kept \subseteq work[c].entries \cup {NewEntry(work[c])}
             /\ OnePerIdentity(kept)
             /\ Cardinality(kept) <= MaxEntries
             /\ \A e \in kept : clock - e.ts <= MaxAge
             /\ redis' = [redis EXCEPT ![KeyOf(work[c].id)] =
                            [entries |-> kept, setAt |-> clock]]
<1>1. work[c] \in Store /\ work[c] # Idle /\ clock \in Nat
  BY DEF IInv, TypeOK, FinishStore
<1>2. NewEntry(work[c]) \in Entry
  BY <1>1 DEF NewEntry, Entry, Store
<1>3. work[c].entries \in SUBSET Entry /\ OnePerIdentity(work[c].entries)
  BY <1>1 DEF IInv, SoundWork, Sound, Store
<1> DEFINE up == Upsert(work[c].entries, NewEntry(work[c]))
<1>4. OnePerIdentity(up) /\ up \subseteq work[c].entries \cup {NewEntry(work[c])}
  BY <1>2, <1>3, UpsertUnique
<1>5. PICK kept \in Trimmed(Fresh(up, clock)) :
         redis' = [redis EXCEPT ![KeyOf(work[c].id)] = [entries |-> kept, setAt |-> clock]]
  BY DEF FinishStore, NewEntry
<1> HIDE DEF up
<1>6. kept \subseteq Fresh(up, clock) /\ Cardinality(kept) <= MaxEntries
  BY TrimmedShrinks
<1>7. kept \subseteq up /\ \A e \in kept : clock - e.ts <= MaxAge
  BY <1>6 DEF Fresh
<1>8. OnePerIdentity(kept)
  BY <1>4, <1>7 DEF OnePerIdentity
<1>9. kept \subseteq work[c].entries \cup {NewEntry(work[c])} /\ kept \in SUBSET Entry
  BY <1>2, <1>3, <1>4, <1>7
<1> QED BY <1>5, <1>6, <1>7, <1>8, <1>9 DEF up

LEMMA FinishPreserves ==
    ASSUME IInv, NEW c \in Clients, FinishStore(c)
    PROVE  IInv'
<1>1. PICK kept \in SUBSET Entry :
         /\ kept \subseteq work[c].entries \cup {NewEntry(work[c])}
         /\ OnePerIdentity(kept)
         /\ Cardinality(kept) <= MaxEntries
         /\ \A e \in kept : clock - e.ts <= MaxAge
         /\ redis' = [redis EXCEPT ![KeyOf(work[c].id)] =
                        [entries |-> kept, setAt |-> clock]]
  BY FinishWrites
<1> DEFINE key == KeyOf(work[c].id)
           new == [entries |-> kept, setAt |-> clock]
<1>2. /\ work[c] \in Store /\ work[c] # Idle /\ clock \in Nat
      /\ clock' = clock /\ served' = served
      /\ issued' = issued \cup {NewEntry(work[c])}
      /\ work' = [work EXCEPT ![c] = Idle]
  BY DEF IInv, TypeOK, FinishStore, NewEntry
<1>3. key \in Keys
  BY <1>2, KeyOfType DEF Store
<1>4. NewEntry(work[c]) \in Entry /\ NewEntry(work[c]).ts = clock /\ NewEntry(work[c]).id = work[c].id
  BY <1>2 DEF NewEntry, Entry, Store
<1>5. TypeOK'
  <2>1. new \in List
    BY <1>2 DEF List
  <2> QED BY <1>1, <1>2, <1>3, <1>4, <2>1 DEF IInv, TypeOK
<1>6. SoundList(new, key, issued', clock)
  <2>1. \A e \in work[c].entries : e \in issued /\ KeyOf(e.id) = key /\ e.ts <= clock
    BY <1>2 DEF IInv, SoundWork, Sound
  <2>2. \A e \in kept : e \in issued' /\ KeyOf(e.id) = key /\ e.ts <= clock
    BY <1>1, <1>2, <1>4, <2>1
  <2> QED BY <1>1, <1>2, <2>2 DEF SoundList, Sound
<1>7. issued' \in SUBSET Entry /\ redis \in [Keys -> List \cup {NoKey}]
  BY <1>5 DEF IInv, TypeOK
<1>8. SoundLists'
  <2> SUFFICES ASSUME NEW k \in Keys, redis'[k] # NoKey
               PROVE  SoundList(redis'[k], k, issued', clock)
    BY <1>2 DEF SoundLists
  <2>1. CASE k = key
    <3>1. redis'[k] = new
      BY <1>1, <1>3, <1>7, <2>1
    <3> QED BY <1>6, <2>1, <3>1
  <2>2. CASE k # key
    <3>1. redis'[k] = redis[k] /\ redis[k] \in List
      BY <1>1, <1>7, <2>2
    <3>2. SoundList(redis[k], k, issued, clock)
      BY <3>1 DEF IInv, SoundLists
    <3>3. Sound(redis[k].entries, k, issued', clock)
      BY <1>2, <1>7, <3>1, <3>2, SoundGrows DEF SoundList, List
    <3> QED BY <3>1, <3>2, <3>3 DEF SoundList
  <2> QED BY <2>1, <2>2
<1>9. SoundWork'
  <2> SUFFICES ASSUME NEW d \in Clients, work'[d] # Idle
               PROVE  Sound(work'[d].entries, KeyOf(work'[d].id), issued', clock)
    BY <1>2 DEF SoundWork, KeyOf
  <2>1. work'[d] = work[d] /\ work[d] \in Store
    BY <1>2 DEF IInv, TypeOK
  <2>2. Sound(work[d].entries, KeyOf(work[d].id), issued, clock)
    BY <2>1 DEF IInv, SoundWork
  <2> QED BY <1>2, <1>7, <2>1, <2>2, SoundGrows DEF Store
<1> QED BY <1>5, <1>8, <1>9 DEF IInv

LEMMA AbandonPreserves ==
    ASSUME IInv, NEW c \in Clients, AbandonStore(c)
    PROVE  IInv'
<1>1. work' = [work EXCEPT ![c] = Idle] /\ UNCHANGED <<clock, redis, issued, served>>
  BY DEF AbandonStore
<1>2. TypeOK' /\ clock <= clock'
  BY <1>1 DEF IInv, TypeOK
<1>3. \A d \in Clients : work'[d] # Idle => work'[d] = work[d]
  BY <1>1 DEF IInv, TypeOK
<1> QED BY <1>1, <1>2, <1>3, NothingNew

LEMMA EvictPreserves ==
    ASSUME IInv, NEW k \in Keys, Evict(k)
    PROVE  IInv'
<1>1. redis' = [redis EXCEPT ![k] = NoKey] /\ UNCHANGED <<clock, work, issued, served>>
  BY DEF Evict
<1>2. TypeOK' /\ clock <= clock'
  BY <1>1 DEF IInv, TypeOK
<1>3. \A j \in Keys : redis'[j] # NoKey => redis'[j] = redis[j]
  BY <1>1 DEF IInv, TypeOK
<1> QED BY <1>1, <1>2, <1>3, NothingNew
-----------------------------------------------------------------------------
\* The lists and the snapshots stay sound, whatever the clients interleave.
THEOREM Invariance == Spec => []IInv
<1>1. IInv /\ [Next]_vars => IInv'
  <2> SUFFICES ASSUME IInv, [Next]_vars PROVE IInv'
    OBVIOUS
  <2>1. CASE Tick
    BY <2>1, TickPreserves
  <2>2. ASSUME NEW c \in Clients, ClientStep(c) PROVE IInv'
    <3>1. CASE \E id \in Ids : LookupHit(c, id) \/ LookupMiss(c, id)
      BY <3>1, AnswerPreserves
    <3>2. CASE \E id \in Ids, v \in Verdicts :
                 BeginStore(c, id, v) \/ BeginStoreBlind(c, id, v)
      BY <3>2, BeginPreserves
    <3>3. CASE FinishStore(c)
      BY <3>3, FinishPreserves
    <3>4. CASE AbandonStore(c)
      BY <3>4, AbandonPreserves
    <3> QED BY <2>2, <3>1, <3>2, <3>3, <3>4 DEF ClientStep
  <2>3. CASE \E k \in Keys : Evict(k)
    BY <2>3, EvictPreserves
  <2>4. CASE UNCHANGED vars
    <3>1. UNCHANGED <<clock, redis, work, issued, served>>
      BY <2>4 DEF vars
    <3>2. TypeOK' /\ clock <= clock'
      BY <3>1 DEF IInv, TypeOK
    <3> QED BY <3>1, <3>2, NothingNew
  <2> QED BY <2>1, <2>2, <2>3, <2>4 DEF Next
<1> QED BY <1>1, InitEstablishes, PTL DEF Spec

\* Every variable keeps its type: in particular a list is only ever a set of
\* entries, and a snapshot belongs to a table that some client asked about.
THEOREM TypeCorrect == Spec => []TypeOK
<1>1. IInv => TypeOK
  BY DEF IInv
<1> QED BY <1>1, Invariance, PTL

\* No interleaving of clients puts two verdicts for one table into a list
\* (the first-match loop of parse.go:194 cannot be shadowed by an old one).
THEOREM ListsHaveOneVerdictPerTable == Spec => []UniqueIdentity
<1>1. IInv => UniqueIdentity
  BY DEF IInv, UniqueIdentity, SoundLists, SoundList, Sound
<1> QED BY <1>1, Invariance, PTL

\* Lists are bounded by MaxEntries, 50 in the code (parse.go:273).
THEOREM ListsAreBounded == Spec => []BoundedLists
<1>1. IInv => BoundedLists
  BY DEF IInv, BoundedLists, SoundLists, SoundList
<1> QED BY <1>1, Invariance, PTL

\* What a GET returns is younger than MaxAge + TTL: 75 days, not the 45 days
\* of the clean-up alone nor the 30 days of the TTL alone.
LEMMA ServedIsYoung ==
    ASSUME IInv, NEW k \in Keys, NEW e \in Stored(k)
    PROVE  clock - e.ts < MaxAge + TTL
<1>1. redis[k] # NoKey /\ clock - redis[k].setAt < TTL /\ e \in redis[k].entries
  BY DEF Stored, Live
<1>2. redis[k] \in List /\ clock \in Nat /\ e \in Entry
  BY <1>1 DEF IInv, TypeOK, List
<1>3. redis[k].setAt - e.ts <= MaxAge
  BY <1>1 DEF IInv, SoundLists, SoundList
<1>4. redis[k].setAt \in Nat /\ e.ts \in Nat /\ MaxAge \in Nat /\ TTL \in Nat
  BY <1>2, BoundsAssumption, LimitsAssumption DEF List, Entry
<1> QED BY <1>1, <1>2, <1>3, <1>4

THEOREM ServedVerdictsAreYoung == Spec => []AgeBound
<1>1. IInv => AgeBound
  BY ServedIsYoung DEF AgeBound
<1> QED BY <1>1, Invariance, PTL

-----------------------------------------------------------------------------
\* Each step of a client is a step of the promise, or invisible to it: a
\* lookup is a Serve, the SET of a store is an Issue, the rest changes nothing
\* a reader can tell.
LEMMA ClientStepKeepsPromise ==
    ASSUME IInv, NEW c \in Clients, ClientStep(c)
    PROVE  [VC!Next]_(VC!vars)
<1>1. ASSUME NEW id \in Ids, LookupHit(c, id) PROVE VC!Serve(id)
  <2>1. PICK e \in Stored(KeyOf(id)) : Matches(e, id) /\ Answer(c, id, e)
    BY <1>1 DEF LookupHit
  <2>2. KeyOf(id) \in Keys
    BY KeyOfType
  <2>3. e \in Entry /\ e \in issued
    BY <2>2, StoredIsSound DEF Sound
  <2>4. e.id = id
    BY <2>1, <2>3, MatchesIsEquality
  <2>5. clock - e.ts < MaxAge + TTL
    BY <2>2, ServedIsYoung
  <2> QED BY <2>1, <2>3, <2>4, <2>5 DEF VC!Serve, VC!Answers, Answer
<1>2. ASSUME NEW id \in Ids, LookupMiss(c, id) PROVE VC!Serve(id)
  BY <1>2 DEF LookupMiss, Answer, VC!Serve, VC!Answers
<1>3. ASSUME FinishStore(c) PROVE \E id \in Ids, v \in Verdicts : VC!Issue(id, v)
  <2>1. work[c] \in Store
    BY <1>3 DEF IInv, TypeOK, FinishStore
  <2>2. VC!Issue(work[c].id, work[c].verdict)
    BY <1>3 DEF FinishStore, NewEntry, VC!Issue, VC!Record
  <2> QED BY <2>1, <2>2 DEF Store
<1>4. ASSUME NEW id \in Ids, NEW v \in Verdicts,
             BeginStore(c, id, v) \/ BeginStoreBlind(c, id, v)
      PROVE  UNCHANGED VC!vars
  BY <1>4 DEF BeginStore, BeginStoreBlind, VC!vars
<1>5. ASSUME AbandonStore(c) PROVE UNCHANGED VC!vars
  BY <1>5 DEF AbandonStore, VC!vars
<1> QED BY <1>1, <1>2, <1>3, <1>4, <1>5 DEF ClientStep, VC!Next

\* The Redis lists, with any number of goroutines and any failures of GET and
\* SET, implement the promise: a reader is told only what was stored for
\* exactly the table it asks about, and nothing too old.
THEOREM PromiseKept == Spec => KeepsPromise
<1>1. Init => VC!Init
  BY DEF Init, VC!Init
<1>2. IInv /\ [Next]_vars => [VC!Next]_(VC!vars)
  <2> SUFFICES ASSUME IInv, [Next]_vars PROVE [VC!Next]_(VC!vars)
    OBVIOUS
  <2>1. CASE Tick
    BY <2>1 DEF Tick, VC!Tick, VC!Next
  <2>2. CASE \E c \in Clients : ClientStep(c)
    BY <2>2, ClientStepKeepsPromise
  <2>3. CASE \E k \in Keys : Evict(k)
    BY <2>3 DEF Evict, VC!vars
  <2>4. CASE UNCHANGED vars
    BY <2>4 DEF vars, VC!vars
  <2> QED BY <2>1, <2>2, <2>3, <2>4 DEF Next
<1> QED BY <1>1, <1>2, Invariance, PTL DEF Spec, KeepsPromise, VC!Spec
-----------------------------------------------------------------------------
(***************************************************************************)
(* Where one goroutine is the only writer and its GETs succeed, its         *)
(* snapshot stays the list it is about to replace, up to expiry and         *)
(* eviction.  This is what concurrency and failed GETs take away.           *)
(***************************************************************************)
SnapshotIsList ==
    \A c \in Clients : work[c] # Idle =>
        LET k == KeyOf(work[c].id)
        IN  /\ Stored(k) \subseteq work[c].entries
            /\ redis[k] # NoKey => work[c].entries \subseteq redis[k].entries

SingleWriter == GetMayFail = FALSE /\ \A c, d \in Clients : c = d

LEMMA LiveShrinks ==
    ASSUME NEW l \in List \cup {NoKey}, NEW m, m # NoKey => m = l,
           NEW now1 \in Nat, NEW now2 \in Nat, now1 <= now2
    PROVE  Live(m, now2) \subseteq Live(l, now1)
<1>1. TTL \in Nat
  BY BoundsAssumption, LimitsAssumption
<1>2. ASSUME m # NoKey, now2 - m.setAt < TTL
      PROVE  l # NoKey /\ now1 - l.setAt < TTL
  <2>1. m = l /\ l.setAt \in Nat
    BY <1>2 DEF List
  <2> QED BY <1>1, <1>2, <2>1
<1> QED BY <1>2 DEF Live

LEMMA SnapshotPreserved ==
    ASSUME SingleWriter, IInv, IInv', SnapshotIsList, [Next]_vars
    PROVE  SnapshotIsList'
<1> SUFFICES ASSUME NEW c \in Clients, work'[c] # Idle
             PROVE  LET k == KeyOf(work'[c].id)
                    IN  /\ Live(redis'[k], clock') \subseteq work'[c].entries
                        /\ redis'[k] # NoKey => work'[c].entries \subseteq redis'[k].entries
  BY DEF SnapshotIsList, KeyOf, Stored, Live
<1> DEFINE k == KeyOf(work'[c].id)
           Goal == /\ Live(redis'[k], clock') \subseteq work'[c].entries
                   /\ redis'[k] # NoKey => work'[c].entries \subseteq redis'[k].entries
<1>1. k \in Keys /\ clock \in Nat /\ clock' \in Nat
  BY KeyOfType DEF IInv, TypeOK, Store
<1>2. ASSUME work'[c] = work[c], clock <= clock',
             redis'[k] # NoKey => redis'[k] = redis[k]
      PROVE  Goal
  <2>1. work[c] # Idle /\ k = KeyOf(work[c].id)
    BY <1>2
  <2>2. Live(redis[k], clock) \subseteq work[c].entries
        /\ (redis[k] # NoKey => work[c].entries \subseteq redis[k].entries)
    BY <2>1 DEF SnapshotIsList, Stored
  <2> HIDE DEF k
  <2>3. redis[k] \in List \cup {NoKey}
    BY <1>1 DEF IInv, TypeOK
  <2>4. Live(redis'[k], clock') \subseteq Live(redis[k], clock)
    BY <1>1, <1>2, <2>3, LiveShrinks
  <2> QED BY <1>2, <2>2, <2>4
<1>3. CASE Tick
  <2>1. work' = work /\ redis' = redis /\ clock <= clock'
    BY <1>3 DEF Tick, IInv, TypeOK
  <2> QED BY <1>2, <2>1
<1>4. ASSUME NEW d \in Clients, ClientStep(d)
      PROVE  Goal
  <2>0. d = c /\ clock' = clock /\ clock <= clock'
    BY <1>4 DEF SingleWriter, ClientStep, LookupHit, LookupMiss, Answer, BeginStore,
                BeginStoreBlind, FinishStore, AbandonStore, IInv, TypeOK
  <2>1. CASE \E id \in Ids : LookupHit(d, id) \/ LookupMiss(d, id)
    <3>1. work' = work /\ redis' = redis
      BY <2>1 DEF LookupHit, LookupMiss, Answer
    <3> QED BY <1>2, <2>0, <3>1
  <2>2. ASSUME NEW id \in Ids, NEW v \in Verdicts,
               BeginStore(d, id, v) \/ BeginStoreBlind(d, id, v)
        PROVE  Goal
    <3>1. BeginStore(c, id, v)
      BY <2>0, <2>2 DEF SingleWriter, BeginStoreBlind
    <3>2. work'[c] = [id |-> id, verdict |-> v, entries |-> Stored(KeyOf(id))]
          /\ redis' = redis /\ clock' = clock
      BY <3>1 DEF BeginStore, IInv, TypeOK
    <3>3. k = KeyOf(id) /\ work'[c].entries = Live(redis[k], clock)
      BY <3>2 DEF Stored
    <3> HIDE DEF k
    <3> QED BY <3>2, <3>3 DEF Live
  <2>3. CASE FinishStore(d) \/ AbandonStore(d)
    BY <2>0, <2>3 DEF FinishStore, AbandonStore, IInv, TypeOK
  <2> QED BY <1>4, <2>1, <2>2, <2>3 DEF ClientStep
<1>5. CASE \E j \in Keys : Evict(j)
  <2>1. work' = work /\ clock <= clock' /\ (redis'[k] # NoKey => redis'[k] = redis[k])
    BY <1>1, <1>5 DEF Evict, IInv, TypeOK
  <2> QED BY <1>2, <2>1
<1>6. CASE UNCHANGED vars
  <2>1. work' = work /\ redis' = redis /\ clock <= clock'
    BY <1>6 DEF vars, IInv, TypeOK
  <2> QED BY <1>2, <2>1
<1> QED BY <1>3, <1>4, <1>5, <1>6 DEF Next

LEMMA SingleWriterInvariance ==
    ASSUME SingleWriter
    PROVE  Spec => [](IInv /\ SnapshotIsList)
<1>1. Init => SnapshotIsList
  BY DEF Init, SnapshotIsList
<1>2. IInv /\ IInv' /\ SnapshotIsList /\ [Next]_vars => SnapshotIsList'
  BY SnapshotPreserved
<1> QED BY <1>1, <1>2, Invariance, PTL DEF Spec

\* A store that completes drops another table's verdict only for its age or
\* from a full list (the collision resistance of parse.go:38 and 224), provided
\* nobody else writes.
THEOREM SingleWriterLosesNothing ==
    ASSUME SingleWriter
    PROVE  Spec => NoCollateralLoss
<1> DEFINE Loses(c) ==
      LET k == KeyOf(work[c].id)
      IN  \A e \in Stored(k) \ redis'[k].entries :
             \/ e.id = work[c].id
             \/ clock - e.ts > MaxAge
             \/ /\ Cardinality(redis'[k].entries) = MaxEntries
                /\ \A x \in redis'[k].entries : x.ts >= e.ts
<1>1. ASSUME IInv, SnapshotIsList, NEW c \in Clients, FinishStore(c) PROVE Loses(c)
  <2> DEFINE k == KeyOf(work[c].id)
             up == Upsert(work[c].entries, NewEntry(work[c]))
  <2>1. work[c] \in Store /\ work[c] # Idle /\ clock \in Nat
    BY <1>1 DEF IInv, TypeOK, FinishStore
  <2>2. PICK kept \in SUBSET Entry :
          /\ kept \in Trimmed(Fresh(up, clock))
          /\ redis' = [redis EXCEPT ![k] = [entries |-> kept, setAt |-> clock]]
    BY <1>1, FinishWrites
  <2>3. k \in Keys
    BY <2>1, KeyOfType DEF Store
  <2>4. redis'[k].entries = kept
    <3>1. redis'[k] = [entries |-> kept, setAt |-> clock]
      BY <1>1, <2>2, <2>3 DEF IInv, TypeOK
    <3> QED BY <3>1
  <2>5. /\ NewEntry(work[c]) \in Entry /\ NewEntry(work[c]).id = work[c].id
        /\ work[c].entries \in SUBSET Entry /\ OnePerIdentity(work[c].entries)
    BY <1>1, <2>1 DEF NewEntry, Entry, Store, IInv, SoundWork, Sound
  <2>6. \A x \in work[c].entries : x.id # work[c].id => x \in up
    BY <2>5, UpsertUnique
  <2>7. Stored(k) \subseteq work[c].entries
    BY <1>1, <2>1 DEF SnapshotIsList
  <2>8. \A y \in Fresh(up, clock) \ kept :
          /\ Cardinality(kept) = MaxEntries
          /\ \A x \in kept : x.ts >= y.ts
    BY <2>2, TrimmedShrinks
  <2> HIDE DEF up, k
  <2>9. \A e \in Stored(k) \ kept : e.id # work[c].id /\ ~(clock - e.ts > MaxAge) =>
          e \in Fresh(up, clock)
    <3>1. \A e \in Stored(k) : e.ts \in Nat
      BY <2>5, <2>7 DEF Entry
    <3> QED BY <2>1, <2>6, <2>7, <3>1, BoundsAssumption, LimitsAssumption DEF Fresh
  <2>10. \A e \in Stored(k) \ kept :
            \/ e.id = work[c].id
            \/ clock - e.ts > MaxAge
            \/ /\ Cardinality(kept) = MaxEntries
               /\ \A x \in kept : x.ts >= e.ts
    BY <2>8, <2>9
  <2> QED BY <2>4, <2>10 DEF k
<1>2. IInv /\ SnapshotIsList /\ [Next]_vars =>
        [\A c \in Clients : FinishStore(c) => Loses(c)]_vars
  BY <1>1
<1> QED BY <1>2, SingleWriterInvariance, PTL DEF Spec, NoCollateralLoss
\* Nor does the verdict of a table ever go back to an older one
\* ("Update existing", parse.go:262), provided nobody else writes.
THEOREM SingleWriterNeverGoesBack ==
    ASSUME SingleWriter
    PROVE  Spec => NoOlderVerdict
<1> DEFINE Forward(k) ==
      \A e \in redis[k].entries, f \in redis'[k].entries :
         e.id = f.id => e.ts <= f.ts
<1>1. ASSUME IInv, SnapshotIsList, [Next]_vars,
             NEW k \in Keys, redis[k] # NoKey, redis'[k] # NoKey
      PROVE  Forward(k)
  <2>1. /\ redis \in [Keys -> List \cup {NoKey}] /\ clock \in Nat
        /\ redis[k].entries \in SUBSET Entry
        /\ OnePerIdentity(redis[k].entries)
        /\ \A e \in redis[k].entries : e.ts <= clock
    BY <1>1 DEF IInv, TypeOK, List, SoundLists, SoundList, Sound
  <2>2. CASE redis'[k] = redis[k]
    BY <2>1, <2>2 DEF OnePerIdentity, Entry
  <2>3. ASSUME NEW c \in Clients, FinishStore(c), KeyOf(work[c].id) = k PROVE Forward(k)
    <3>1. PICK kept \in SUBSET Entry :
            /\ kept \subseteq work[c].entries \cup {NewEntry(work[c])}
            /\ redis' = [redis EXCEPT ![k] = [entries |-> kept, setAt |-> clock]]
      BY <1>1, <2>3, FinishWrites
    <3>2. redis'[k].entries = kept
      <4>1. redis'[k] = [entries |-> kept, setAt |-> clock]
        BY <2>1, <3>1
      <4> QED BY <4>1
    <3>3. work[c].entries \subseteq redis[k].entries
      BY <1>1, <2>3 DEF SnapshotIsList, FinishStore
    <3>4. \A f \in kept : f \in redis[k].entries \/ f.ts = clock
      BY <3>1, <3>3 DEF NewEntry
    <3> QED BY <2>1, <3>2, <3>4 DEF OnePerIdentity, Entry
  <2>4. redis'[k] = redis[k] \/ \E c \in Clients : FinishStore(c) /\ KeyOf(work[c].id) = k
    <3>1. ASSUME NEW c \in Clients, FinishStore(c), KeyOf(work[c].id) # k
          PROVE  redis'[k] = redis[k]
      BY <2>1, <3>1 DEF FinishStore
    <3>2. ASSUME NEW j \in Keys, Evict(j) PROVE redis'[k] = redis[k]
      BY <1>1, <2>1, <3>2 DEF Evict
    <3> QED BY <1>1, <3>1, <3>2 DEF Next, ClientStep, Tick, LookupHit, LookupMiss, Answer,
                BeginStore, BeginStoreBlind, AbandonStore, vars
  <2> QED BY <2>2, <2>3, <2>4
<1>2. IInv /\ SnapshotIsList /\ [Next]_vars =>
        [\A k \in Keys : redis[k] # NoKey /\ redis'[k] # NoKey => Forward(k)]_vars
  BY <1>1
<1> QED BY <1>2, SingleWriterInvariance, PTL DEF Spec, NoOlderVerdict
=============================================================================
