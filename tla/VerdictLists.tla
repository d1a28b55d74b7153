---------------------------- MODULE VerdictLists ----------------------------
(***************************************************************************)
(* The list of verdicts under one key of the advanced cache, and what a     *)
(* store makes of it in memory between its two Redis commands: replace or   *)
(* append, drop the old entries, cut to the limit (parse.go:256-295).       *)
(*                                                                          *)
(* The list is a set here: its order is never observed, except that it      *)
(* decides which of several entries with the same timestamp survive the cut,*)
(* and that choice is left open (Trimmed).  StoreLoops has the loops.       *)
(***************************************************************************)
EXTENDS Integers, FiniteSets

CONSTANTS
    Ids,          \* table identities: [hash, start, end]
    Verdicts,     \* what GPT may say of a table
    Hashes,       \* exact hashes of header rows
    MaxEntries,   \* 50 in the code
    MaxAge        \* 45 days in the code

ASSUME IdsAssumption == Ids \subseteq [hash : Hashes, start : Nat, end : Nat]

ASSUME LimitsAssumption == MaxEntries \in Nat /\ MaxAge \in Nat

Entry == [id : Ids, verdict : Verdicts, ts : Nat]

MatchesIgnoringBounds(e, id) == e.id.hash = id.hash

Matches(e, id) ==
    /\ e.id.hash = id.hash
    /\ e.id.start = id.start
    /\ e.id.end = id.end

UpsertAppendOnly(S, e) == S \cup {e}

\* Replace the first entry of the same identity, or append.
Upsert(S, e) ==
    LET same == {x \in S : Matches(x, e.id)}
    IN  IF same = {}
          THEN S \cup {e}
          ELSE (S \ {CHOOSE x \in same : TRUE}) \cup {e}

FreshKeepsAll(S, now) == S

Fresh(S, now) == {x \in S : now - x.ts <= MaxAge}

TrimmedNever(S) == {S}

TrimmedOldest(S) ==
    IF Cardinality(S) <= MaxEntries
      THEN {S}
      ELSE {K \in SUBSET S :
              /\ Cardinality(K) = MaxEntries
              /\ \A x \in K, y \in S \ K : x.ts <= y.ts}

\* Sorted by descending timestamp and cut to MaxEntries.
Trimmed(S) ==
    IF Cardinality(S) <= MaxEntries
      THEN {S}
      ELSE {K \in SUBSET S :
              /\ Cardinality(K) = MaxEntries
              /\ \A x \in K, y \in S \ K : x.ts >= y.ts}

\* No two entries of S speak of the same table.
OnePerIdentity(S) == \A x, y \in S : x.id = y.id => x = y
=============================================================================
