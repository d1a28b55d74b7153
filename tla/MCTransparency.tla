--------------------------- MODULE MCTransparency ---------------------------
(***************************************************************************)
(* The instance of MCExcelParse in which parse() is Transparent, with what  *)
(* TransparencyProofs assumes of it, and two pairs of sheets that do not    *)
(* meet it: TLC evaluates the assumptions.                                  *)
(***************************************************************************)
EXTENDS MCExcelParse

ASSUME SettledInstance == OneOpinion /\ KeysSuffice /\ Settled

ReadoutOf(content) == Readout(FilledGrid(content))

\* A price list and a directory with one header in one row are one table to the
\* caches, and two to GPT; so are a banner and the header of the contacts below it.
ASSUME ConflatedSheets ==
    /\ ToldApart(ReadoutOf(AiryTwin), ReadoutOf(MorePens))
    /\ ~ToldApart(ReadoutOf(AiryTwin), ReadoutOf(Directory))
    /\ ~SettledEarly(ReadoutOf(Bannered), ReadoutOf(Contacts))
=============================================================================
