-------------------------- MODULE MCSnapshotFetch --------------------------
(* Codes are reused: three purchases and a sale share code 1.  The first     *)
(* request shows some of them, and the ERP names up to three documents.      *)
EXTENDS SnapshotFetch

Row(block, id, code, date, amount, of_delivery) ==
  [block |-> block, source_id |-> id, code |-> code, date |-> date,
   amount |-> amount, of_delivery |-> of_delivery]
Known(block, code, date, amount) ==
  [block |-> block, code |-> code, date |-> date, amount |-> amount]

P1 == Row("purchases", "p1", 1, 1, 10, FALSE)
P2 == Row("purchases", "p2", 1, 2, 20, FALSE)
P3 == Row("purchases", "p3", 2, 1, 10, FALSE)
S1 == Row("sales", "s1", 1, 1, 10, FALSE)
S2 == Row("sales", "s2", 2, 2, 20, TRUE)

MCContents == {{P1, P2, S2}, {P1, P3, S1}, {P2, P3, S2}, {P1, P2, P3}}

\* p2 becomes part of the delivery, p1 changes its amount, p3 is entered.
MCEditedRows == {[P2 EXCEPT !.of_delivery = TRUE], [P1 EXCEPT !.amount = 20], P3}

K1 == Known("purchases", 1, 1, 10)
K2 == Known("purchases", 1, 2, 10)   \* its amount is that of p1
K3 == Known("purchases", 2, 1, 10)
K4 == Known("sales", 1, NoDate, 10)
K5 == Known("sales", 2, 1, 20)

MCKnownDocuments ==
  {<<K1, K2, K3>>, <<K3, K4, K1>>, <<K5, K2, K1>>, <<K2, K2>>,
   <<Known("purchases", NoCode, 1, 10), Known("none", 1, 1, 10), K3>>}
=============================================================================
