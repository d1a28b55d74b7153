-------------------------- MODULE StoreLoopsProofs --------------------------
(***************************************************************************)
(* Proofs about StoreLoops, for lists of any length and any limit: the      *)
(* loops compute what VerdictLists says.  The invariant follows the loops:  *)
(* what the search has passed over, what the cleaning has kept, and, in the *)
(* exchange sort, that the positions before i are in their final order and  *)
(* position i holds the maximum of those up to j - 1.                       *)
(***************************************************************************)
EXTENDS StoreLoops, VerdictListsProofs, SequenceTheorems, FiniteSetTheorems

UniqueIn(s) == \A p, q \in DOMAIN s : s[p].id = s[q].id => p = q

\* The entries that are not too old once the new one is in.
Recent == Fresh(Upsert(ToSet(given), new), Now)

GivenInv == UniqueIn(given)

UpsertInv ==
    pc = "upsert" =>
        /\ list = given /\ cleaned = <<>>
        /\ \A p \in 1 .. i - 1 : ~Matches(list[p], new.id)

ListInv ==
    pc # "upsert" => UniqueIn(list) /\ ToSet(list) = Upsert(ToSet(given), new)

CleanInv ==
    pc = "clean" =>
        /\ UniqueIn(cleaned)
        /\ Len(cleaned) <= i - 1
        /\ ToSet(cleaned) = Fresh({list[p] : p \in 1 .. i - 1}, Now)

SortInv ==
    pc = "sort" =>
        /\ UniqueIn(cleaned)
        /\ ToSet(cleaned) = Recent
        /\ Len(cleaned) > MaxEntries /\ Len(cleaned) <= Len(list)
        /\ i <= Len(cleaned) /\ i < j
        /\ \A p \in 1 .. i - 1 : \A q \in p + 1 .. Len(cleaned) :
              cleaned[p].ts >= cleaned[q].ts
        /\ i < Len(cleaned) => j <= Len(cleaned) + 1
        /\ \A q \in i + 1 .. j - 1 :
              q <= Len(cleaned) => cleaned[i].ts >= cleaned[q].ts

IInv ==
    /\ TypeOK /\ GivenInv /\ UpsertInv /\ ListInv /\ CleanInv /\ SortInv
    /\ KeepsMostRecent

-----------------------------------------------------------------------------
\* A sequence that names no table twice is as long as its set is large.
LEMMA CardOfUnique ==
    ASSUME NEW s \in Seq(Entry), UniqueIn(s)
    PROVE  IsFiniteSet(ToSet(s)) /\ Cardinality(ToSet(s)) = Len(s)
<1>1. Len(s) \in Nat /\ s \in [1 .. Len(s) -> ToSet(s)] /\ DOMAIN s = 1 .. Len(s)
  BY DEF ToSet
<1>2. s \in Surjection(1 .. Len(s), ToSet(s))
  BY <1>1 DEF Surjection, ToSet
<1>3. s \in Injection(1 .. Len(s), ToSet(s))
  BY <1>1 DEF Injection, IsInjective, UniqueIn
<1>4. IsFiniteSet(1 .. Len(s)) /\ Cardinality(1 .. Len(s)) = Len(s)
  <2> DEFINE k == Len(s)
  <2>1. k \in Nat
    BY <1>1
  <2> HIDE DEF k
  <2>2. IsFiniteSet(1 .. k) /\ Cardinality(1 .. k) = IF 1 > k THEN 0 ELSE k - 1 + 1
    BY <2>1, FS_Interval
  <2>3. Cardinality(1 .. k) = k
    BY <2>1, <2>2
  <2> QED BY <2>2, <2>3 DEF k
<1> QED BY <1>2, <1>3, <1>4, FS_Surjection

\* Matching the new entry is having its identity.
LEMMA MatchesNew ==
    ASSUME new \in Entry
    PROVE  \A e \in Entry : Matches(e, new.id) <=> e.id = new.id
<1>1. new.id \in Ids
  BY DEF Entry
<1> QED BY <1>1, MatchesIsEquality

LEMMA InitEstablishes == Init => IInv
<1> SUFFICES ASSUME Init PROVE IInv
  OBVIOUS
<1>1. Past \subseteq Entry
  BY NowAssumption DEF Past, Entry
<1>2. given \in Seq(Entry) /\ UniqueIn(given)
  BY <1>1, LimitsAssumption DEF Init, Lists, UniqueIn
<1>3. new \in Entry
  BY <1>1 DEF Init
<1> QED
  BY <1>2, <1>3 DEF Init, IInv, TypeOK, GivenInv, UpsertInv, ListInv,
     CleanInv, SortInv, KeepsMostRecent

LEMMA SearchPreserves == ASSUME IInv, Search PROVE IInv'
<1> USE DEF IInv, Search
<1>1. TypeOK'
  BY DEF TypeOK
<1>2. UpsertInv'
  BY DEF UpsertInv, TypeOK
<1> QED
  BY <1>1, <1>2 DEF GivenInv, ListInv, CleanInv, SortInv, KeepsMostRecent

\* Replacing the match, or appending when there is none, is Upsert.
LEMMA ReplacePreserves == ASSUME IInv, Replace PROVE IInv'
<1> USE DEF IInv, Replace
<1>1. /\ given \in Seq(Entry) /\ new \in Entry /\ list = given /\ UniqueIn(given)
      /\ i \in 1 .. Len(given) /\ cleaned = <<>>
  BY DEF TypeOK, UpsertInv, GivenInv
<1>2. list' = [given EXCEPT ![i] = new] /\ list' \in Seq(Entry) /\ Len(list') = Len(given)
  BY <1>1, ExceptSeq
<1>3. given[i].id = new.id
  BY <1>1, MatchesNew
<1>4. \A p \in 1 .. Len(given) : p # i => given[p].id # new.id
  BY <1>1, <1>3 DEF UniqueIn
<1>5. UniqueIn(list')
  BY <1>1, <1>2, <1>4 DEF UniqueIn
<1>6. ToSet(list') = Upsert(ToSet(given), new)
  <2> DEFINE same == {x \in ToSet(given) : Matches(x, new.id)}
  <2>1. ToSet(given) \subseteq Entry
    BY <1>1 DEF ToSet
  <2>2. same = {given[i]}
    BY <1>1, <1>3, <1>4, <2>1, MatchesNew DEF ToSet
  <2>3. Upsert(ToSet(given), new) = (ToSet(given) \ {given[i]}) \cup {new}
    <3>1. (CHOOSE x \in same : TRUE) = given[i]
      BY <2>2
    <3> QED BY <2>2, <3>1 DEF Upsert
  <2>4. ToSet(list') = {list'[p] : p \in 1 .. Len(given)}
    BY <1>2 DEF ToSet
  <2>5. ToSet(given) = {given[p] : p \in 1 .. Len(given)}
    BY <1>1 DEF ToSet
  <2>6. \A p \in 1 .. Len(given) : list'[p] = IF p = i THEN new ELSE given[p]
    BY <1>1, <1>2
  <2>7. \A p \in 1 .. Len(given) : p # i => given[p] # given[i]
    BY <1>3, <1>4
  <2> HIDE DEF same
  <2>8. new \in ToSet(list')
    BY <1>1, <2>4, <2>6
  <2>9. ToSet(list') \subseteq (ToSet(given) \ {given[i]}) \cup {new}
    <3> SUFFICES ASSUME NEW x \in ToSet(list'), x # new
                 PROVE  x \in ToSet(given) /\ x # given[i]
      OBVIOUS
    <3>1. PICK p \in 1 .. Len(given) : x = list'[p]
      BY <2>4
    <3>2. p # i /\ x = given[p]
      BY <2>6, <3>1
    <3> QED BY <2>5, <2>7, <3>2
  <2>10. (ToSet(given) \ {given[i]}) \subseteq ToSet(list')
    <3> SUFFICES ASSUME NEW x \in ToSet(given), x # given[i] PROVE x \in ToSet(list')
      OBVIOUS
    <3>1. PICK p \in 1 .. Len(given) : x = given[p]
      BY <2>5
    <3>2. list'[p] = x
      BY <2>6, <3>1
    <3> QED BY <2>4, <3>2
  <2> QED BY <2>3, <2>8, <2>9, <2>10
<1>7. TypeOK'
  BY <1>1, <1>2 DEF TypeOK
<1>8. CleanInv'
  BY <1>1 DEF CleanInv, UniqueIn, ToSet, Fresh
<1> QED
  BY <1>5, <1>6, <1>7, <1>8 DEF GivenInv, UpsertInv, ListInv, SortInv, KeepsMostRecent

LEMMA AppendPreserves == ASSUME IInv, AppendNew PROVE IInv'
<1> USE DEF IInv, AppendNew
<1>1. /\ given \in Seq(Entry) /\ new \in Entry /\ list = given /\ UniqueIn(given)
      /\ cleaned = <<>> /\ i = Len(given) + 1
  BY DEF TypeOK, UpsertInv, GivenInv
<1>2. /\ list' \in Seq(Entry) /\ Len(list') = Len(given) + 1
      /\ \A p \in 1 .. Len(given) + 1 :
            list'[p] = IF p = Len(given) + 1 THEN new ELSE given[p]
  BY <1>1
<1>3. \A p \in 1 .. Len(given) : given[p] \in Entry /\ given[p].id # new.id
  BY <1>1, MatchesNew DEF UpsertInv
<1>4. UniqueIn(list')
  BY <1>1, <1>2, <1>3 DEF UniqueIn
<1>5. ToSet(list') = Upsert(ToSet(given), new)
  <2>1. {x \in ToSet(given) : Matches(x, new.id)} = {}
    BY <1>1, <1>3, MatchesNew DEF ToSet
  <2>2. Upsert(ToSet(given), new) = ToSet(given) \cup {new}
    BY <2>1 DEF Upsert
  <2>3. ToSet(list') = {list'[p] : p \in 1 .. Len(given) + 1}
    BY <1>2 DEF ToSet
  <2>4. ToSet(given) = {given[p] : p \in 1 .. Len(given)}
    BY <1>1 DEF ToSet
  <2> QED BY <1>1, <1>2, <2>2, <2>3, <2>4
<1>6. TypeOK'
  BY <1>1, <1>2 DEF TypeOK
<1>7. CleanInv'
  BY <1>1 DEF CleanInv, UniqueIn, ToSet, Fresh
<1> QED
  BY <1>4, <1>5, <1>6, <1>7 DEF GivenInv, UpsertInv, ListInv, SortInv, KeepsMostRecent

\* An iteration of the cleaning adds the entry it looks at, unless it is old.
LEMMA CleanPreserves == ASSUME IInv, Clean PROVE IInv'
<1> USE DEF IInv, Clean
<1>1. /\ list \in Seq(Entry) /\ cleaned \in Seq(Entry) /\ i \in 1 .. Len(list)
      /\ UniqueIn(list) /\ UniqueIn(cleaned) /\ Len(cleaned) <= i - 1
      /\ ToSet(cleaned) = Fresh({list[p] : p \in 1 .. i - 1}, Now)
  BY DEF TypeOK, ListInv, CleanInv
<1>2. {list[p] : p \in 1 .. i} = {list[p] : p \in 1 .. i - 1} \cup {list[i]}
  BY <1>1
<1>3. TypeOK'
  BY <1>1 DEF TypeOK
<1>4. CleanInv'
  <2>1. CASE Now - list[i].ts <= MaxAge
    <3>1. /\ cleaned' \in Seq(Entry) /\ Len(cleaned') = Len(cleaned) + 1
          /\ \A p \in 1 .. Len(cleaned) + 1 :
                cleaned'[p] = IF p = Len(cleaned) + 1 THEN list[i] ELSE cleaned[p]
      BY <1>1, <2>1
    <3>2. ToSet(cleaned') = ToSet(cleaned) \cup {list[i]}
      <4>1. ToSet(cleaned') = {cleaned'[p] : p \in 1 .. Len(cleaned) + 1}
        BY <3>1 DEF ToSet
      <4>2. ToSet(cleaned) = {cleaned[p] : p \in 1 .. Len(cleaned)}
        BY <1>1 DEF ToSet
      <4> QED BY <1>1, <3>1, <4>1, <4>2
    <3>3. \A p \in 1 .. Len(cleaned) : cleaned[p].id # list[i].id
      <4> SUFFICES ASSUME NEW p \in 1 .. Len(cleaned) PROVE cleaned[p].id # list[i].id
        OBVIOUS
      <4>1. cleaned[p] \in ToSet(cleaned)
        BY <1>1 DEF ToSet
      <4>2. PICK q \in 1 .. i - 1 : cleaned[p] = list[q]
        BY <1>1, <4>1 DEF Fresh
      <4> QED BY <1>1, <4>2 DEF UniqueIn
    <3>4. UniqueIn(cleaned')
      BY <1>1, <3>1, <3>3 DEF UniqueIn
    <3>5. ToSet(cleaned') = Fresh({list[p] : p \in 1 .. i' - 1}, Now)
      <4>1. i' - 1 = i
        BY <1>1
      <4> QED BY <1>1, <1>2, <2>1, <3>2, <4>1 DEF Fresh
    <3> QED BY <1>1, <3>1, <3>4, <3>5 DEF CleanInv
  <2>2. CASE ~(Now - list[i].ts <= MaxAge)
    <3>1. cleaned' = cleaned
      BY <2>2
    <3>2. ToSet(cleaned) = Fresh({list[p] : p \in 1 .. i' - 1}, Now)
      <4>1. i' - 1 = i
        BY <1>1
      <4> QED BY <1>1, <1>2, <2>2, <4>1 DEF Fresh
    <3> QED BY <1>1, <3>1, <3>2 DEF CleanInv
  <2> QED BY <2>1, <2>2
<1> QED
  BY <1>3, <1>4 DEF GivenInv, UpsertInv, ListInv, SortInv, KeepsMostRecent

LEMMA CleanedPreserves == ASSUME IInv, Cleaned PROVE IInv'
<1> USE DEF IInv, Cleaned
<1>0. /\ list \in Seq(Entry) /\ cleaned \in Seq(Entry) /\ i = Len(list) + 1
      /\ Len(list) \in Nat /\ i - 1 = Len(list)
  BY DEF TypeOK
<1>1. /\ UniqueIn(cleaned) /\ Len(cleaned) <= Len(list)
      /\ ToSet(list) = Upsert(ToSet(given), new)
      /\ ToSet(cleaned) = Fresh({list[p] : p \in 1 .. Len(list)}, Now)
  BY <1>0 DEF ListInv, CleanInv
<1>2. ToSet(cleaned) = Recent
  BY <1>1 DEF ToSet, Recent
<1>3. CASE Len(cleaned) > MaxEntries
  <2>1. pc' = "sort" /\ i' = 1 /\ j' = 2 /\ Len(cleaned) \in Nat /\ Len(cleaned) > 0
    BY <1>0, <1>1, <1>3, LimitsAssumption
  <2>2. TypeOK'
    BY <1>0, <1>1, <2>1 DEF TypeOK
  <2>3. SortInv'
    BY <1>0, <1>1, <1>2, <1>3, <2>1 DEF SortInv, Recent
  <2> QED
    BY <2>1, <2>2, <2>3 DEF GivenInv, UpsertInv, ListInv, CleanInv, KeepsMostRecent
<1>4. CASE ~(Len(cleaned) > MaxEntries)
  <2>1. pc' = "done" /\ UNCHANGED <<i, j>>
    BY <1>4
  <2>2. TypeOK'
    BY <2>1 DEF TypeOK
  <2>3. Cardinality(Recent) <= MaxEntries
    BY <1>0, <1>1, <1>2, <1>4, CardOfUnique, LimitsAssumption
  <2>4. KeepsMostRecent'
    BY <1>0, <1>1, <1>2, <2>1, <2>3 DEF KeepsMostRecent, Trimmed, Recent, UniqueIn
  <2> QED
    BY <2>1, <2>2, <2>4 DEF GivenInv, UpsertInv, ListInv, CleanInv, SortInv
<1> QED BY <1>3, <1>4

\* A swap rearranges a list and does nothing else to it.
LEMMA SwapRearranges ==
    ASSUME NEW s \in Seq(Entry), NEW p \in 1 .. Len(s), NEW q \in 1 .. Len(s),
           p # q, UniqueIn(s), NEW t, t = Swapped(s, p, q)
    PROVE  /\ t \in Seq(Entry) /\ Len(t) = Len(s)
           /\ \A x \in 1 .. Len(s) :
                 t[x] = IF x = p THEN s[q] ELSE IF x = q THEN s[p] ELSE s[x]
           /\ UniqueIn(t)
           /\ ToSet(t) = ToSet(s)
<1>1. t = [[s EXCEPT ![p] = s[q]] EXCEPT ![q] = s[p]]
  BY DEF Swapped
<1>2. /\ [s EXCEPT ![p] = s[q]] \in Seq(Entry)
      /\ Len([s EXCEPT ![p] = s[q]]) = Len(s)
      /\ \A x \in 1 .. Len(s) : [s EXCEPT ![p] = s[q]][x] = IF x = p THEN s[q] ELSE s[x]
  BY ExceptSeq, ElementOfSeq
<1>3. /\ t \in Seq(Entry) /\ Len(t) = Len(s)
      /\ \A x \in 1 .. Len(s) :
            t[x] = IF x = p THEN s[q] ELSE IF x = q THEN s[p] ELSE s[x]
  BY <1>1, <1>2, ExceptSeq, ElementOfSeq
<1>4. DOMAIN t = 1 .. Len(s) /\ DOMAIN s = 1 .. Len(s)
  BY <1>3
<1>5. UniqueIn(t)
  BY <1>3, <1>4 DEF UniqueIn
<1>6. ToSet(t) \subseteq ToSet(s)
  BY <1>3, <1>4 DEF ToSet
<1>7. ToSet(s) \subseteq ToSet(t)
  <2> SUFFICES ASSUME NEW x \in 1 .. Len(s) PROVE \E y \in 1 .. Len(s) : t[y] = s[x]
    BY <1>4 DEF ToSet
  <2>1. CASE x = p
    BY <1>3, <2>1
  <2>2. CASE x = q
    BY <1>3, <2>2
  <2>3. CASE x # p /\ x # q
    BY <1>3, <2>3
  <2> QED BY <2>1, <2>2, <2>3
<1> QED BY <1>3, <1>5, <1>6, <1>7

\* A comparison moves the larger of two entries to position i; both come from
\* behind the positions that are final.
LEMMA ComparePreserves == ASSUME IInv, Compare PROVE IInv'
<1> USE DEF IInv, Compare
<1> DEFINE n == Len(cleaned)
<1>1. /\ cleaned \in Seq(Entry) /\ n \in Nat /\ UniqueIn(cleaned)
      /\ ToSet(cleaned) = Recent /\ n > MaxEntries /\ n <= Len(list) /\ Len(list) \in Nat
      /\ i \in 1 .. n - 1 /\ j \in i + 1 .. n /\ j' = j + 1
  BY DEF TypeOK, SortInv
<1>2. /\ \A p \in 1 .. i - 1 : \A q \in p + 1 .. n : cleaned[p].ts >= cleaned[q].ts
      /\ \A q \in i + 1 .. j - 1 : cleaned[i].ts >= cleaned[q].ts
  BY <1>1 DEF SortInv
<1>3. \A p \in 1 .. n : cleaned[p].ts \in Nat
  <2>1. \A p \in 1 .. n : cleaned[p] \in Entry
    BY <1>1, ElementOfSeq
  <2> QED BY <2>1 DEF Entry
<1>4. /\ cleaned' \in Seq(Entry) /\ Len(cleaned') = n /\ UniqueIn(cleaned')
      /\ ToSet(cleaned') = Recent
      /\ \A p \in 1 .. i - 1 : \A q \in p + 1 .. n : cleaned'[p].ts >= cleaned'[q].ts
      /\ \A q \in i + 1 .. j : cleaned'[i].ts >= cleaned'[q].ts
  <2>1. CASE cleaned[i].ts < cleaned[j].ts
    <3>1. cleaned' = Swapped(cleaned, i, j)
      BY <2>1
    <3>2. /\ cleaned' \in Seq(Entry) /\ Len(cleaned') = n /\ UniqueIn(cleaned')
          /\ ToSet(cleaned') = Recent
          /\ \A x \in 1 .. n : cleaned'[x] =
                IF x = i THEN cleaned[j] ELSE IF x = j THEN cleaned[i] ELSE cleaned[x]
      <4>1. i \in 1 .. Len(cleaned) /\ j \in 1 .. Len(cleaned) /\ i # j
        BY <1>1
      <4> HIDE DEF IInv, Compare
      <4>2. cleaned \in Seq(Entry) /\ UniqueIn(cleaned)
        BY <1>1
      <4>3. \A t : t = Swapped(cleaned, i, j) =>
              /\ t \in Seq(Entry) /\ Len(t) = Len(cleaned)
              /\ \A x \in 1 .. Len(cleaned) :
                    t[x] = IF x = i THEN cleaned[j] ELSE IF x = j THEN cleaned[i] ELSE cleaned[x]
              /\ UniqueIn(t) /\ ToSet(t) = ToSet(cleaned)
        BY <4>1, <4>2, SwapRearranges
      <4> QED BY <1>1, <3>1, <4>3
    <3> HIDE DEF n
    <3>3. ASSUME NEW p \in 1 .. i - 1, NEW q \in p + 1 .. n
          PROVE  cleaned'[p].ts >= cleaned'[q].ts
      <4>1. /\ p \in 1 .. n /\ p # i /\ p # j /\ q \in 1 .. n
            /\ i \in p + 1 .. n /\ j \in p + 1 .. n
        BY <1>1, <3>3
      <4>2. cleaned'[p] = cleaned[p]
        BY <3>2, <4>1
      <4>3. cleaned'[q] \in {cleaned[q], cleaned[i], cleaned[j]}
        BY <3>2, <4>1
      <4> QED BY <1>2, <4>1, <4>2, <4>3
    <3>4. ASSUME NEW q \in i + 1 .. j
          PROVE  cleaned'[i].ts >= cleaned'[q].ts
      <4>1. /\ i \in 1 .. n /\ q \in 1 .. n /\ q # i /\ j \in 1 .. n /\ j # i
        BY <1>1, <3>4
      <4>2. cleaned'[i] = cleaned[j]
        BY <3>2, <4>1
      <4>3. CASE q = j
        BY <1>3, <2>1, <3>2, <4>1, <4>2, <4>3
      <4>4. CASE q # j
        <5>1. q \in i + 1 .. j - 1 /\ cleaned'[q] = cleaned[q]
          BY <1>1, <3>2, <4>1, <4>4
        <5>2. cleaned[i].ts >= cleaned[q].ts
          BY <1>2, <5>1
        <5> QED BY <1>3, <2>1, <4>1, <4>2, <5>1, <5>2
      <4> QED BY <4>3, <4>4
    <3> QED BY <3>2, <3>3, <3>4
  <2>2. CASE ~(cleaned[i].ts < cleaned[j].ts)
    <3>1. cleaned' = cleaned
      BY <2>2
    <3>2. ASSUME NEW q \in i + 1 .. j
          PROVE  cleaned[i].ts >= cleaned[q].ts
      <4>1. q = j \/ q \in i + 1 .. j - 1
        BY <1>1, <3>2
      <4>2. CASE q = j
        BY <1>1, <1>3, <2>2, <4>2
      <4>3. CASE q \in i + 1 .. j - 1
        BY <1>1, <1>2, <1>3, <4>3
      <4> QED BY <4>1, <4>2, <4>3
    <3> QED BY <1>1, <1>2, <3>1, <3>2
  <2> QED BY <2>1, <2>2
<1> HIDE DEF n
<1>5. TypeOK'
  BY <1>1, <1>4 DEF TypeOK
<1>6. SortInv'
  <2>1. Recent' = Recent
    BY DEF Recent
  <2> QED BY <1>1, <1>4, <2>1 DEF SortInv
<1> QED
  BY <1>5, <1>6 DEF GivenInv, UpsertInv, ListInv, CleanInv, KeepsMostRecent

\* When j has passed the end, position i is final too.
LEMMA NextPassPreserves == ASSUME IInv, NextPass PROVE IInv'
<1> USE DEF IInv, NextPass
<1>1. /\ cleaned \in Seq(Entry) /\ Len(cleaned) \in Nat
      /\ Len(cleaned) <= Len(list) /\ Len(list) \in Nat
      /\ i \in 1 .. Len(cleaned) - 1 /\ j = Len(cleaned) + 1
      /\ i' = i + 1 /\ j' = i + 2
  BY DEF TypeOK, SortInv
<1>2. TypeOK'
  BY <1>1 DEF TypeOK
<1>3. \A p \in 1 .. i : \A q \in p + 1 .. Len(cleaned) : cleaned[p].ts >= cleaned[q].ts
  <2> SUFFICES ASSUME NEW p \in 1 .. i, NEW q \in p + 1 .. Len(cleaned)
               PROVE  cleaned[p].ts >= cleaned[q].ts
    OBVIOUS
  <2>1. CASE p = i
    BY <1>1, <2>1 DEF SortInv
  <2>2. CASE p # i
    BY <1>1, <2>2 DEF SortInv
  <2> QED BY <2>1, <2>2
<1>4. SortInv'
  <2>1. Recent' = Recent
    BY DEF Recent
  <2>2. i' - 1 = i /\ i' + 1 > j' - 1
    BY <1>1
  <2> QED BY <1>1, <1>3, <2>1, <2>2 DEF SortInv
<1> QED
  BY <1>2, <1>4 DEF GivenInv, UpsertInv, ListInv, CleanInv, KeepsMostRecent

\* The cut keeps the first MaxEntries of a sorted list.
LEMMA CutPreserves == ASSUME IInv, Cut PROVE IInv'
<1> USE DEF IInv, Cut
<1> DEFINE n == Len(cleaned)
<1>1. /\ cleaned \in Seq(Entry) /\ n \in Nat /\ UniqueIn(cleaned)
      /\ ToSet(cleaned) = Recent /\ n > MaxEntries /\ MaxEntries \in Nat
      /\ i = n /\ DOMAIN cleaned = 1 .. n
  BY LimitsAssumption DEF TypeOK, SortInv
<1>2. \A p \in 1 .. n : \A q \in p + 1 .. n : cleaned[p].ts >= cleaned[q].ts
  <2> SUFFICES ASSUME NEW p \in 1 .. n, NEW q \in p + 1 .. n
               PROVE  cleaned[p].ts >= cleaned[q].ts
    OBVIOUS
  <2>1. p \in 1 .. i - 1
    BY <1>1
  <2> QED BY <2>1 DEF SortInv
<1>3. /\ cleaned' \in Seq(Entry) /\ Len(cleaned') = MaxEntries
      /\ \A p \in 1 .. MaxEntries : cleaned'[p] = cleaned[p]
  <2>1. \A p \in 1 .. MaxEntries : cleaned[p] \in Entry
    BY <1>1
  <2>2. cleaned' = SubSeq(cleaned, 1, MaxEntries)
    OBVIOUS
  <2> HIDE DEF n
  <2> QED BY <1>1, <2>1, <2>2, SubSeqProperties
<1> HIDE DEF n
<1>4. DOMAIN cleaned' = 1 .. MaxEntries
  BY <1>1, <1>3
<1>5. UniqueIn(cleaned')
  BY <1>1, <1>3, <1>4 DEF UniqueIn
<1>6. ToSet(cleaned') \subseteq Recent /\ Cardinality(ToSet(cleaned')) = MaxEntries
  <2>1. Cardinality(ToSet(cleaned')) = MaxEntries
    BY <1>3, <1>5, CardOfUnique
  <2>2. ToSet(cleaned') \subseteq ToSet(cleaned)
    BY <1>1, <1>3, <1>4 DEF ToSet
  <2> QED BY <1>1, <2>1, <2>2
<1>7. ASSUME NEW x \in ToSet(cleaned'), NEW y \in Recent \ ToSet(cleaned')
      PROVE  x.ts >= y.ts
  <2>1. PICK p \in 1 .. MaxEntries : x = cleaned[p]
    BY <1>3, <1>4, <1>7 DEF ToSet
  <2>2. PICK q \in 1 .. n : y = cleaned[q]
    BY <1>1, <1>7 DEF ToSet
  <2>3. q \notin 1 .. MaxEntries
    BY <1>3, <1>4, <1>7, <2>2 DEF ToSet
  <2>4. p \in 1 .. n /\ q \in p + 1 .. n
    BY <1>1, <2>1, <2>2, <2>3
  <2> QED BY <1>2, <2>1, <2>2, <2>4
<1>8. Cardinality(Recent) = n
  BY <1>1, CardOfUnique DEF n
<1>9. ToSet(cleaned') \in Trimmed(Recent)
  BY <1>1, <1>6, <1>7, <1>8 DEF Trimmed
<1>10. KeepsMostRecent'
  BY <1>5, <1>9 DEF KeepsMostRecent, Recent, UniqueIn
<1>11. TypeOK'
  BY <1>3 DEF TypeOK
<1> QED
  BY <1>10, <1>11 DEF GivenInv, UpsertInv, ListInv, CleanInv, SortInv

-----------------------------------------------------------------------------
LEMMA StepPreserves == IInv /\ [Next]_vars => IInv'
<1> SUFFICES ASSUME IInv, [Next]_vars PROVE IInv'
  OBVIOUS
<1>1. CASE UNCHANGED vars
  BY <1>1 DEF vars, IInv, TypeOK, GivenInv, UpsertInv, ListInv, CleanInv, SortInv,
     Recent, KeepsMostRecent
<1> QED
  BY <1>1, SearchPreserves, ReplacePreserves, AppendPreserves, CleanPreserves,
     CleanedPreserves, ComparePreserves, NextPassPreserves, CutPreserves DEF Next

LEMMA InvariantHolds == Spec => []IInv
  BY InitEstablishes, StepPreserves, PTL DEF Spec

\* The loop variables stay within the lists they index, for lists of any length.
THEOREM TypeCorrect == Spec => []TypeOK
<1>1. IInv => TypeOK
  BY DEF IInv
<1> QED BY <1>1, InvariantHolds, PTL

\* Whatever list was read and whatever the limits: the loops leave exactly what
\* AdvancedCache takes a store to leave (parse.go:256-295).
THEOREM LoopsComputeTrimmed == Spec => []KeepsMostRecent
<1>1. IInv => KeepsMostRecent
  BY DEF IInv
<1> QED BY <1>1, InvariantHolds, PTL

-----------------------------------------------------------------------------
\* Nothing that was read is newer than the entry to store.
NewIsNewest == new.ts = Now /\ \A p \in DOMAIN given : given[p].ts <= Now

LEMMA NewIsNewestHolds == Spec => []NewIsNewest
<1>1. Init => NewIsNewest
  <2> SUFFICES ASSUME Init PROVE NewIsNewest
    OBVIOUS
  <2>1. PICK n \in 0 .. MaxEntries : given \in [1 .. n -> Past]
    BY DEF Init, Lists
  <2>2. \A e \in Past : e.ts <= Now
    BY NowAssumption DEF Past
  <2>3. \A p \in DOMAIN given : given[p] \in Past
    BY <2>1
  <2> QED BY <2>2, <2>3 DEF NewIsNewest, Init
<1>2. NewIsNewest /\ [Next]_vars => NewIsNewest'
  <2> SUFFICES ASSUME NewIsNewest, [Next]_vars PROVE NewIsNewest'
    OBVIOUS
  <2>1. UNCHANGED <<given, new>>
    BY DEF Next, Search, Replace, AppendNew, Clean, Cleaned, Compare, NextPass, Cut, vars
  <2> QED BY <2>1 DEF NewIsNewest
<1> QED BY <1>1, <1>2, PTL DEF Spec

\* The new entry is among those that are not too old, and none of them is newer.
LEMMA NewIsRecent ==
    ASSUME TypeOK, NewIsNewest
    PROVE  /\ new \in Recent
           /\ \A e \in Recent : e.ts \in Nat /\ e.ts <= new.ts
<1>1. new \in Upsert(ToSet(given), new) /\ Upsert(ToSet(given), new) \subseteq ToSet(given) \cup {new}
  BY DEF Upsert
<1>2. new.ts = Now /\ Now \in Nat /\ MaxAge \in Nat
  BY NowAssumption, LimitsAssumption DEF NewIsNewest
<1>3. \A e \in ToSet(given) : e \in Entry /\ e.ts <= Now
  BY ElementOfSeq DEF ToSet, NewIsNewest, TypeOK
<1>4. \A e \in Entry : e.ts \in Nat
  BY DEF Entry
<1>5. new \in Recent
  BY <1>1, <1>2 DEF Recent, Fresh
<1>6. Recent \subseteq ToSet(given) \cup {new}
  BY <1>1 DEF Recent, Fresh
<1> QED BY <1>2, <1>3, <1>4, <1>5, <1>6

\* For lists of any length and any limit: a store loses its own entry to the cut
\* only where every entry that is kept is of this very second (parse.go:289).
THEOREM StoredSurvives == Spec => []NewSurvives
<1>1. IInv /\ NewIsNewest => NewSurvives
  <2> SUFFICES ASSUME IInv, NewIsNewest, pc = "done", new \notin ToSet(cleaned)
               PROVE  Len(cleaned) = MaxEntries /\ \A p \in DOMAIN cleaned : cleaned[p].ts = Now
    BY DEF NewSurvives
  <2> DEFINE K == ToSet(cleaned)
  <2>1. K \in Trimmed(Recent) /\ UniqueIn(cleaned) /\ cleaned \in Seq(Entry)
    BY DEF IInv, KeepsMostRecent, Recent, UniqueIn, TypeOK
  <2>2. new \in Recent /\ \A e \in Recent : e.ts \in Nat /\ e.ts <= new.ts
    BY NewIsRecent DEF IInv
  <2>3. K \subseteq Recent /\ Cardinality(K) = MaxEntries /\ \A e \in K : e.ts >= new.ts
    BY <2>1, <2>2 DEF Trimmed
  <2>4. \A e \in K : e.ts = Now
    BY <2>2, <2>3 DEF NewIsNewest
  <2>5. Len(cleaned) = MaxEntries
    BY <2>1, <2>3, CardOfUnique
  <2> QED BY <2>4, <2>5 DEF ToSet
<1> QED BY <1>1, InvariantHolds, NewIsNewestHolds, PTL
=============================================================================
