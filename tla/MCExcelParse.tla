---------------------------- MODULE MCExcelParse ----------------------------
(***************************************************************************)
(* Instances of ExcelParse for TLC.  Cells are the strings below; a table   *)
(* is two or three columns wide, a row of two cells starts one (MinCells),  *)
(* and GPT is shown four rows (Window).                                     *)
(***************************************************************************)
EXTENDS ExcelParse

CONSTANTS w1, w2

MCWorkersOne == {w1}
MCWorkersTwo == {w1, w2}

\* Long is longer than 30 bytes.
Long == "Catalogue of the trading house Vega"

\* One word of Latin letters, n bytes long.
Word(n) ==
    [bytes |-> n, words |-> <<n>>, number |-> FALSE, latin |-> TRUE,
     currency |-> FALSE, dotted |-> FALSE, affixed |-> FALSE, code |-> TRUE]

MCCells ==
    {"", "Article", "Price", "Stock", "list", "note", "Code", "Lot1", "Art", "pen",
     "tel", "7", "9", "A3:A4", "B4:B4", "B4:B5", Long}

\* The properties of these cells.
MCTextOf(cell) ==
    CASE cell = "Article" -> Word(7)
      [] cell \in {"Price", "Stock"} -> Word(5)
      [] cell \in {"list", "note"} -> Word(4)
      [] cell = "Code" -> [Word(4) EXCEPT !.affixed = TRUE]
      [] cell = "Lot1" -> [Word(4) EXCEPT !.latin = FALSE]
      [] cell \in {"Art", "pen", "tel"} -> Word(3)
      [] cell \in {"7", "9"} -> [Word(1) EXCEPT !.number = TRUE, !.latin = FALSE]
      [] cell \in {"A3:A4", "B4:B4", "B4:B5"} -> [Word(5) EXCEPT !.latin = FALSE, !.dotted = TRUE, !.code = FALSE]
      [] cell = Long -> [Word(35) EXCEPT !.words = <<9, 2, 3, 7, 5, 4>>,
                                         !.latin = FALSE, !.code = FALSE]

MCRangeOf(text) ==
    IF text = "B4:B4" THEN [top |-> 4, bottom |-> 4, left |-> 2, right |-> 2] ELSE NoRange

MCRowText(row)  == <<"joined", row>>

Empty  == <<>>
Banner == <<Long, Long>>
Names  == <<"Code", "Price">>
Pens   == <<"pen", "7">>
Phones == <<"tel", "9">>
Title  == <<"Stock", "list">>

Unmerged(rows) == [rows |-> rows, merges |-> <<>>]

\* A price list with blank rows in it, and the same one without them.
Airy == Unmerged(<<Empty, Title, Empty, Names, Pens>>)
AiryTwin == Unmerged(<<Title, Names, Pens>>)
\* A header over two rows, with a gap, a weak cell and a plain one, and data
\* with two merges: the second shows a text that happens to be a range.
TwoLine ==
    [rows   |-> <<<<"Art", "Lot1", "Price">>, <<"Article", "Stock">>, Pens, <<"", "B4:B4">>>>,
     merges |-> <<[reference |-> "A3:A4", text |-> "pen"],
                  [reference |-> "B4:B5", text |-> "B4:B4"]>>]
\* A price list under a banner, and a list of contacts under the same banner.
Bannered == Unmerged(<<Banner, Names, Pens>>)
Contacts == Unmerged(<<Banner, Phones>>)
\* More pens below the same header in the same row, and a directory below it.
MorePens  == Unmerged(<<Title, Names, Pens, Pens>>)
Directory == Unmerged(<<Title, Names, Phones>>)
\* A single row, and a sheet without a table.
Single == Unmerged(<<Names>>)
Note == Unmerged(<<<<"note">>>>)

\* The third sheet cannot be read, though there is a table in it.
MCBookLong == [w \in MCWorkersOne |-> <<Airy, Note, Single, AiryTwin, TwoLine>>]
MCThird == [w \in MCWorkersOne |-> {3}]

MCNoneOfOne == [w \in MCWorkersOne |-> {}]
MCNoneOfTwo == [w \in MCWorkersTwo |-> {}]

\* Two workbooks whose tables meet in the analysis cache and the legacy cache,
\* and, the header being in row 1 of both, AiryTwin and Single in the advanced.
MCBookPair == [w \in MCWorkersTwo |->
    IF w = w1 THEN <<Airy>> ELSE <<AiryTwin, Single>>]

\* The same table in both books, which GPT does not want; two that differ in their
\* data only, and that GPT wants; and no two that share their start row but not
\* their header.
MCBookSettled == [w \in MCWorkersTwo |->
    IF w = w1 THEN <<Bannered, Airy, TwoLine>> ELSE <<AiryTwin, Note, MorePens, TwoLine>>]

\* These two do share it: the contacts leave a verdict on the banner.
MCBookBanner == [w \in MCWorkersOne |-> <<Contacts, Bannered>>]

\* What GPT may say of the rows: sensible answers, and a reversed one.
MCAnyAnalysis(texts) ==
    {[header |-> 1, data |-> 2], [header |-> 2, data |-> 3],
     [header |-> 1, data |-> 3], [header |-> 2, data |-> 1]}

\* Fewer, with one that is out of range for Airy and AiryTwin.
MCWildAnalysis(texts) ==
    {[header |-> 1, data |-> 3], [header |-> 2, data |-> 1], [header |-> 2, data |-> 4]}

MCAnyVerdict(header, rows) ==
    {[product |-> TRUE, sure |-> TRUE], [product |-> FALSE, sure |-> TRUE],
     [product |-> FALSE, sure |-> FALSE]}

MCYesOrNo(header, rows) ==
    {[product |-> TRUE, sure |-> TRUE], [product |-> FALSE, sure |-> TRUE]}

\* A GPT that answers a question always alike: "Code" and "Price" make a header,
\* the data starts below it, and such a table without phones lists products.
MCOneAnalysis(texts) ==
    LET names == {i \in DOMAIN texts : texts[i] = MCRowText(Names)}
        h     == IF names = {} THEN 1 ELSE Min(names)
    IN  {[header |-> h, data |-> h + 1]}

MCOneVerdict(header, rows) ==
    {[product |-> header = Names /\ \A i \in DOMAIN rows : rows[i] # Phones,
      sure    |-> TRUE]}
=============================================================================
