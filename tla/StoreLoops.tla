----------------------------- MODULE StoreLoops -----------------------------
(***************************************************************************)
(* The loops by which a store changes the list it read from Redis           *)
(* (setAdvancedCachedTableValidation, parse.go:256-295), one iteration a    *)
(* step: the search for the entry to replace, the cleaning by age, and, if  *)
(* there are still too many, an exchange sort by descending timestamp and   *)
(* the cut.  VerdictLists says what AdvancedCache takes them to compute.    *)
(*                                                                          *)
(* Indices are those of sequences, from 1.                                  *)
(***************************************************************************)
EXTENDS VerdictLists, SequencesExt

CONSTANT Now    \* the time of the store

ASSUME NowAssumption == Now \in Nat

VARIABLES
    given,      \* the list that was read, as it was
    new,        \* the entry to store
    pc,         \* the loop it is in
    list,       \* cacheEntries
    cleaned,    \* cleanedEntries
    i, j        \* the loop variables

vars == <<given, new, pc, list, cleaned, i, j>>

Past == [id : Ids, verdict : Verdicts, ts : 0 .. Now]

\* What can be in Redis: one entry per table, within the limit, and nothing from
\* the future, in any order (AdvancedCache's UniqueIdentity and BoundedLists).
Lists ==
    {s \in UNION {[1 .. n -> Past] : n \in 0 .. MaxEntries} :
        \A p, q \in DOMAIN s : s[p].id = s[q].id => p = q}

Init ==
    /\ given \in Lists
    /\ new \in {e \in Past : e.ts = Now}
    /\ pc = "upsert"
    /\ list = given
    /\ cleaned = <<>>
    /\ i = 1 /\ j = 1

-----------------------------------------------------------------------------
\* The search for an entry of the same identity,
Search ==
    /\ pc = "upsert"
    /\ i <= Len(list)
    /\ ~Matches(list[i], new.id)
    /\ i' = i + 1
    /\ UNCHANGED <<given, new, pc, list, cleaned, j>>

\* which is replaced (the loop ends with the first),
Replace ==
    /\ pc = "upsert"
    /\ i <= Len(list)
    /\ Matches(list[i], new.id)
    /\ list' = [list EXCEPT ![i] = new]
    /\ pc' = "clean"
    /\ i' = 1
    /\ UNCHANGED <<given, new, cleaned, j>>

\* or else the new one is appended.
AppendNew ==
    /\ pc = "upsert"
    /\ i > Len(list)
    /\ list' = Append(list, new)
    /\ pc' = "clean"
    /\ i' = 1
    /\ UNCHANGED <<given, new, cleaned, j>>

\* Entries that are not too old are kept.
Clean ==
    /\ pc = "clean"
    /\ i <= Len(list)
    /\ cleaned' = IF Now - list[i].ts <= MaxAge THEN Append(cleaned, list[i]) ELSE cleaned
    /\ i' = i + 1
    /\ UNCHANGED <<given, new, pc, list, j>>

CleanedUnsorted ==
    /\ pc = "clean"
    /\ i > Len(list)
    /\ cleaned' = SubSeq(cleaned, 1, Min({MaxEntries, Len(cleaned)}))
    /\ pc' = "done"
    /\ UNCHANGED <<given, new, list, i, j>>

\* Only if there are too many of them they are sorted.
Cleaned ==
    /\ pc = "clean"
    /\ i > Len(list)
    /\ IF Len(cleaned) > MaxEntries
         THEN pc' = "sort" /\ i' = 1 /\ j' = 2
         ELSE pc' = "done" /\ UNCHANGED <<i, j>>
    /\ UNCHANGED <<given, new, list, cleaned>>

Swapped(s, p, q) == [s EXCEPT ![p] = s[q], ![q] = s[p]]

CompareAscending ==
    /\ pc = "sort"
    /\ i < Len(cleaned)
    /\ j <= Len(cleaned)
    /\ cleaned' = IF cleaned[i].ts > cleaned[j].ts THEN Swapped(cleaned, i, j) ELSE cleaned
    /\ j' = j + 1
    /\ UNCHANGED <<given, new, pc, list, i>>

\* One comparison of the exchange sort.
Compare ==
    /\ pc = "sort"
    /\ i < Len(cleaned)
    /\ j <= Len(cleaned)
    /\ cleaned' = IF cleaned[i].ts < cleaned[j].ts THEN Swapped(cleaned, i, j) ELSE cleaned
    /\ j' = j + 1
    /\ UNCHANGED <<given, new, pc, list, i>>

NextPassSkipping ==
    /\ pc = "sort"
    /\ i < Len(cleaned)
    /\ j > Len(cleaned)
    /\ i' = i + 1
    /\ j' = i + 3
    /\ UNCHANGED <<given, new, pc, list, cleaned>>

NextPass ==
    /\ pc = "sort"
    /\ i < Len(cleaned)
    /\ j > Len(cleaned)
    /\ i' = i + 1
    /\ j' = i + 2
    /\ UNCHANGED <<given, new, pc, list, cleaned>>

\* The most recent MaxEntries are kept.
Cut ==
    /\ pc = "sort"
    /\ i >= Len(cleaned)
    /\ cleaned' = SubSeq(cleaned, 1, MaxEntries)
    /\ pc' = "done"
    /\ UNCHANGED <<given, new, list, i, j>>

Next ==
    \/ Search \/ Replace \/ AppendNew
    \/ Clean \/ Cleaned
    \/ Compare \/ NextPass \/ Cut

Spec == Init /\ [][Next]_vars

-----------------------------------------------------------------------------
TypeOK ==
    /\ given \in Seq(Entry)
    /\ new \in Entry
    /\ pc \in {"upsert", "clean", "sort", "done"}
    /\ list \in Seq(Entry)
    /\ cleaned \in Seq(Entry)
    /\ i \in 1 .. Len(list) + 1
    /\ j \in 1 .. Len(list) + 1

\* The loops compute what AdvancedCache takes them to: the list they leave holds
\* exactly the entries that replacing, cleaning and cutting to the most recent
\* may leave, each once (parse.go:291 sorts in place while it compares, and :294
\* cuts whatever the sort put last).
KeepsMostRecent ==
    pc = "done" =>
        /\ ToSet(cleaned) \in Trimmed(Fresh(Upsert(ToSet(given), new), Now))
        /\ \A p, q \in DOMAIN cleaned : cleaned[p].id = cleaned[q].id => p = q

\* A store does not lose its own entry to the cut, although it appends it last and
\* the sort swaps on a strictly lower timestamp only (parse.go:289): only a list
\* full of other entries of this very second can push it out.
NewSurvives ==
    pc = "done" =>
        \/ new \in ToSet(cleaned)
        \/ Len(cleaned) = MaxEntries /\ \A p \in DOMAIN cleaned : cleaned[p].ts = Now
=============================================================================
