---------------------------- MODULE MCStoreLoops ----------------------------
(***************************************************************************)
(* An instance of StoreLoops for TLC: every list of at most three entries   *)
(* and a store of one more, or of one of the same tables.                   *)
(***************************************************************************)
EXTENDS StoreLoops

MCHashes == {"ha", "hb"}

\* Two headers at two positions.
MCIds == {[hash |-> h, start |-> s, end |-> s] : h \in MCHashes, s \in {0, 2}}
=============================================================================
