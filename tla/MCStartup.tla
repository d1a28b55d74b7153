------------------------------ MODULE MCStartup ------------------------------
(***************************************************************************)
(* An instance of Startup for TLC: a workbook that needs no conversion      *)
(* between two that do.                                                     *)
(***************************************************************************)
EXTENDS Startup

MCSuite == <<"comportal", "erc", "fdcom">>
MCXls == {"comportal", "fdcom"}
MCFiles == {"comportal", "erc", "fdcom"}
=============================================================================
