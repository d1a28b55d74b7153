------------------------------ MODULE Opinions ------------------------------
(***************************************************************************)
(* What GPT says of a table, and what parse() makes of it (parse.go:32-36,  *)
(* 633 and 718).                                                            *)
(***************************************************************************)

\* sure is a confidence of 7 or more.
Verdict == [product : BOOLEAN, sure : BOOLEAN]

Accepts(v) == v.product /\ v.sure
SurelyNot(v) == ~v.product /\ v.sure

\* Opinion o, on the table that o.subject describes, is a reason to leave out
\* what d describes: a table with the very same header, and in the same rows or
\* with the same kinds of data.
Backs(o, d) ==
    /\ o.subject.id.hash = d.subject.id.hash
    /\ o.subject.id = d.subject.id \/ o.subject.key = d.subject.key
    /\ IF d.kind = "early" THEN SurelyNot(o.verdict) ELSE ~Accepts(o.verdict)
=============================================================================
