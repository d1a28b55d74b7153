------------------------- MODULE VerdictListsProofs -------------------------
(***************************************************************************)
(* What Upsert and Trimmed preserve: the lemmas that the proofs about the   *)
(* Redis lists and about the loops of a store share.                        *)
(***************************************************************************)
EXTENDS VerdictLists, TLAPS

\* The three fields the code compares identify the table.
LEMMA MatchesIsEquality ==
    ASSUME NEW e \in Entry, NEW id \in Ids
    PROVE  Matches(e, id) <=> e.id = id
<1>1. e.id \in [hash : Hashes, start : Nat, end : Nat]
      /\ id \in [hash : Hashes, start : Nat, end : Nat]
  BY IdsAssumption DEF Entry
<1> QED BY <1>1 DEF Matches

\* Upsert leaves exactly one entry of the new entry's identity: the new one.
LEMMA UpsertUnique ==
    ASSUME NEW S \in SUBSET Entry, NEW e \in Entry, OnePerIdentity(S)
    PROVE  /\ OnePerIdentity(Upsert(S, e))
           /\ e \in Upsert(S, e)
           /\ Upsert(S, e) \subseteq S \cup {e}
           /\ \A x \in S : x.id # e.id => x \in Upsert(S, e)
<1> DEFINE same == {x \in S : Matches(x, e.id)}
<1>0. e.id \in Ids
  BY DEF Entry
<1>1. same = {x \in S : x.id = e.id}
  BY <1>0, MatchesIsEquality
<1>2. CASE same = {}
  <2>1. Upsert(S, e) = S \cup {e}
    BY <1>2 DEF Upsert
  <2> QED BY <2>1, <1>1, <1>2 DEF OnePerIdentity
<1>3. CASE same # {}
  <2> DEFINE old == CHOOSE x \in same : TRUE
  <2>1. old \in same
    BY <1>3
  <2>2. Upsert(S, e) = (S \ {old}) \cup {e}
    BY <1>3 DEF Upsert
  <2>3. same = {old}
    BY <2>1, <1>1 DEF OnePerIdentity
  <2> HIDE DEF old, same
  <2>4. \A x \in S : x.id = e.id => x = old
    BY <2>3, <1>1
  <2>5. old.id = e.id
    BY <2>1, <1>1
  <2> QED BY <2>2, <2>4, <2>5 DEF OnePerIdentity
<1> QED BY <1>2, <1>3

\* Cleaning only drops entries, and leaves at most MaxEntries of them.
LEMMA TrimmedShrinks ==
    ASSUME NEW S, NEW K \in Trimmed(S)
    PROVE  /\ K \subseteq S
           /\ Cardinality(K) <= MaxEntries
           /\ \A y \in S \ K : /\ Cardinality(K) = MaxEntries
                               /\ \A x \in K : x.ts >= y.ts
<1>1. MaxEntries \in Nat
  BY LimitsAssumption
<1>2. CASE Cardinality(S) <= MaxEntries
  BY <1>2 DEF Trimmed
<1>3. CASE ~(Cardinality(S) <= MaxEntries)
  <2>1. K \in SUBSET S /\ Cardinality(K) = MaxEntries
        /\ \A x \in K, y \in S \ K : x.ts >= y.ts
    BY <1>3 DEF Trimmed
  <2> QED BY <2>1, <1>1
<1> QED BY <1>2, <1>3
=============================================================================
