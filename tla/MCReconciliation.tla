-------------------------- MODULE MCReconciliation --------------------------
(* Small readings of both sides and of the balances.                         *)
EXTENDS Reconciliation, MCDocuments

Sale(code, number, date, n, contract) == Doc("sale", code, number, date, RUB(n), contract)
Part(n, operation) == OfOperation(Sale("c", "", 1, n, "k1"), operation)

\* Rows that are aggregated and coalesced.
Spread ==
  {Part(1, 1), Part(1, 2), Part(2, 1),
   [Part(2, 2) EXCEPT !.vat = "20"],
   [Part(3, 2) EXCEPT !.contract = "k2"],
   Doc("payment", "c", "", 1, RUB(1), "k1"),
   Doc("payment", "c", "", 1, RUB(2), "k2"),
   Doc("customer_invoice", "", "n", 2, USD(1), "k1"),
   Doc("closing_document", "", "n", 2, RUB(1), "k1")}

Headers ==
  {Sale("c", "", 1, 2, "k1"),
   Sale("c", "", 1, 3, "k1"),
   WithLines(Sale("c", "", 1, 3, "k1"), <<LineOf("1", 1, "k1"), LineOf("2", 2, "k1")>>),
   WithLines([Sale("c", "", 1, 2, "k1") EXCEPT !.source_id = "t"],
             <<LineOf("1", 1, "k1")>>),
   Doc("payment", "c", "", 1, RUB(3), "k2")}

\* Rows that compete for documents and lines.
Rows ==
  {Sale("c", "", 1, 2, "k1"),
   Part(1, 1),
   OfOperation(Sale("", "", 1, 1, "k1"), 2),
   OfOperation(Sale("c", "m", 2, 3, ""), 3),
   Sale("", "n", 1, 3, "k2"),
   [Sale("", "", 1, 2, "k1") EXCEPT !.operation = 4],
   [Doc("customer_invoice", "", "", 0, RUB(2), "k1") EXCEPT !.operation = 4],
   [Doc("customer_invoice", "", "", 0, RUB(2), "k1") EXCEPT !.operation = 4, !.related = TRUE],
   [Doc("payment", "p", "", 1, RUB(1), "k1") EXCEPT !.operation = 1]}

Docs ==
  {[Sale("c", "n", 1, 3, "k1") EXCEPT !.source_id = "a"],
   [Sale("c", "n", 1, 3, "k2") EXCEPT !.source_id = "b"],
   WithLines([Sale("c", "n", 1, 3, "k2") EXCEPT !.source_id = "d"],
             <<LineOf("1", 1, "k1"), LineOf("2", 2, "")>>),
   WithLines(Sale("x", "", 1, 2, ""), <<LineOf("1", 1, ""), LineOf("2", 1, "k1")>>),
   WithLines(Sale("c", "", 1, 4, "k2"), <<LineOf("1", 1, ""), LineOf("2", 1, "")>>),
   WithAllocations(Doc("payment", "p", "", 1, RUB(1), "k2"), <<AllocationOf("", 1, "k1")>>),
   WithAllocations(Doc("payment", "p", "", 1, RUB(2), "k2"), <<AllocationOf("", 1, "k2")>>),
   Sale("z", "", 1, 0, "k1")}

\* Every pair of rows, and every triple of the rows that compete for one code.
Competing == {r \in Rows : r.kind = "sale" /\ (r.code = "c" \/ r.operation = 2)}

MCReadings ==
  SeqsUpTo(Spread, 3) \X SeqsUpTo(Headers, 2)
  \cup (SeqsUpTo(Rows, 2) \cup [1..3 -> Competing]) \X SeqsUpTo(Docs, 2)

Balance(contract, closing, currency) ==
  [contract |-> contract, closing |-> closing, currency |-> currency]

MCSettlements ==
  {[codes |-> {"k1"}, erp |-> 1, onec |-> <<Balance("k1", 1, "RUB"), Balance("k2", 1, "RUB")>>],
   [codes |-> {"k1"}, erp |-> 0, onec |-> <<Balance("k1", 1, "RUB"), Balance("k1", 2, "USD")>>],
   [codes |-> {"k1"}, erp |-> 1, onec |-> <<Balance("k2", 1, "RUB")>>],
   [codes |-> {}, erp |-> 2, onec |-> <<Balance("k1", 1, "RUB"), Balance("k2", 1, "RUB")>>]}

\* A line that its document also lists as an allocation.
LineAndAllocation ==
  WithAllocations(WithLines(Sale("c", "", 1, 3, "k2"), <<LineOf("1", 1, "")>>),
                  <<AllocationOf("1", 1, "k1")>>)

MCAllocatedReadings ==
  SeqsUpTo({Part(1, 1), Part(1, 2), Sale("c", "", 2, 3, "k1")}, 3) \X {<<LineAndAllocation>>}
=============================================================================
