--------------------------- MODULE MCManualUpload ---------------------------
(***************************************************************************)
(* Instances of ManualUpload for TLC.  "Price" and "price" are one header   *)
(* to normalizeHeader and two to the final lookup; "" is a blank header.    *)
(***************************************************************************)
EXTENDS ManualUpload

CONSTANTS u1, u2

MCUploadsOne == {u1}
MCUploadsTwo == {u1, u2}

MCNames == {"price", "Price", "Code", "code", "size", ""}

MCNorm(h) == CASE h = "Price" -> "price" [] h = "Code" -> "code" [] OTHER -> h

MCFields == {"price", "sku", "unknown"}

\* u2 has no supplier: what it posts, u1 may read or overtake.
MCSupplier    == [u \in MCUploadsTwo |-> IF u = u1 THEN "acme" ELSE Global]
MCSupplierOne == [u \in MCUploadsOne |-> Zero]

MCTables == [u \in MCUploadsTwo |->
    IF u = u1 THEN <<<<"price", "Code", "", "size", "Price">>, <<"code", "", "Code">>>>
              ELSE <<<<"price", "Code">>>>]

MCTablesOne == [u \in MCUploadsOne |-> <<<<"Price", "size">>, <<"size">>>>]

MCStored == {[supplier |-> "acme", header |-> "price", field |-> "price"],
             [supplier |-> Global, header |-> "price", field |-> "unknown"]}

\* The model gives all it is asked about two rows, of which one has no field and one
\* a field that IsValid does not know; or maps it in lower case, and a known header
\* besides; or answers nothing.
MCModelAnswers(hs) ==
    {hs \X {"", "odd"}, ({MCNorm(h) : h \in hs} \cup {"price"}) \X {"sku"}, {}}

\* Tables with one spelling of each header.
Plain == INSTANCE ManualUpload WITH
    Uploads <- MCUploadsOne, Supplier <- MCSupplierOne,
    Names <- {"price", "size", ""}, Tables <- [u \in MCUploadsOne |-> <<<<"price", "">>, <<"size">>>>]

\* The hypothesis of KnownAreMapped can be met, and the instances here do not meet it.
ASSUME Hypotheses == Plain!OneSpelling /\ ~OneSpelling
=============================================================================
