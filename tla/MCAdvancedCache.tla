-------------------------- MODULE MCAdvancedCache ---------------------------
(***************************************************************************)
(* Instances of AdvancedCache for TLC.  "ha" and "hb" are two header rows   *)
(* with the same first header, so they share the list of key "k1".          *)
(***************************************************************************)
EXTENDS AdvancedCache, TLC

CONSTANTS c1, c2

MCClientsOne == {c1}
MCClientsTwo == {c1, c2}
MCHashes     == {"ha", "hb"}
MCKeys       == {"k1"}
MCPrimaryKey == [h \in MCHashes |-> "k1"]

Id(h, s, t) == [hash |-> h, start |-> s, end |-> t]

\* Two tables that differ in the header, and two that differ in the boundaries.
MCIds == {Id("ha", 0, 0), Id("hb", 0, 0), Id("ha", 2, 2)}

MCIdsPair == {Id("ha", 0, 0), Id("hb", 0, 0)}

MCSymmetry == Permutations(MCClientsTwo)
=============================================================================
