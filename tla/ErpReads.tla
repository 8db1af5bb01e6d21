------------------------------ MODULE ErpReads ------------------------------
\* MariaDbErpReadRepository: what it makes of the answers to the queries of
\* ErpDatabase. A read takes its answers from queries that ran one after
\* another, each on a connection of its own, so that every operator here takes
\* the answers as arguments and never the database:
\*
\*   ops       OperationRows, for the deliveries of the read
\*   amounts   Amounts, the rows of the operations
\*   links     InvoiceLinks, operations that have an invoice
\*   closings  ClosingRows     payments   PaymentRows     invoices  InvoiceRows
\*
\* A document is a record; "via" tells apart two documents that the code lists
\* twice with the same fields.
EXTENDS ErpDatabase

RUB == "RUB"

\* What people type where a code is missing.
NoCodes == {NoText, "_", "-", "0", "b/n"}
MeaningfulCode(code) == IF code \in NoCodes THEN NoText ELSE code

Paid(amounts, id) == SumFunction([o \in ById(amounts, id) |-> o.paid])
Realised(amounts, id) == SumFunction([o \in ById(amounts, id) |-> o.realiz])

\* Operations that realise nothing: they exist for their invoice alone.
InvoiceOnly(amounts) == {o.id : o \in {x \in amounts : x.realiz = 0}}

KindOf(vozm) == CASE vozm = 1 -> "reimbursable" [] vozm = 2 -> "non_reimbursable"
                  [] OTHER -> "unknown"

-----------------------------------------------------------------------------
(* Closing documents                                                         *)

\* Mutant: an aggregate hides the documents of every kind.
PreferAggregatesOfAnyKind(rows) ==
  LET keys == {r.oper : r \in {x \in rows : x.aggregate}}
  IN {r \in rows : r.aggregate \/ r.oper \notin keys}

PreferAggregateRows(rows) ==
  LET keys == {<<r.oper, r.kind>> : r \in {x \in rows : x.aggregate}}
  IN {r \in rows : r.aggregate \/ <<r.oper, r.kind>> \notin keys}

-----------------------------------------------------------------------------
(* Calculations of a delivery: every operation of it counts once             *)

OperationsOf(ops, specId) == {r \in ops : r.spec.id = specId}

\* An operation of unknown kind is the company's own expense only when all its
\* sales are on the buyer's contract.
CountsAsOther(r, closings) ==
  LET codes == {c.contract : c \in {x \in closings : x.oper = r.oper.id
                                      /\ x.kind = "sale" /\ x.contract # NoText}}
  IN \/ r.oper.vozm = 2
     \/ r.oper.vozm # 1 /\ r.spec.buyer # NoText /\ codes = {r.spec.buyer}

\* Mutant: an operation of unknown kind counts nowhere.
CalculationOfKnown(ops, amounts, closings, specId) ==
  LET rows == OperationsOf(ops, specId)
      realised(k) == SumFunction([id \in {r.oper.id : r \in {x \in rows : x.oper.vozm = k}}
                                    |-> Realised(amounts, id)])
      paid == SumFunction([id \in {r.oper.id : r \in rows} |-> Paid(amounts, id)])
  IN [payments |-> paid, reimbursable |-> realised(1), other |-> realised(2),
      balance |-> paid - realised(1) - realised(2)]

Calculation(ops, amounts, closings, specId) ==
  LET rows == OperationsOf(ops, specId)
      realised(rs) == SumFunction([id \in {r.oper.id : r \in rs} |-> Realised(amounts, id)])
      other == {r \in rows : CountsAsOther(r, closings)}
      paid == SumFunction([id \in {r.oper.id : r \in rows} |-> Paid(amounts, id)])
  IN [payments |-> paid,
      reimbursable |-> realised(rows \ other), other |-> realised(other),
      balance |-> paid - realised(rows \ other) - realised(other)]

-----------------------------------------------------------------------------
(* Documents of a delivery                                                   *)

Document(r, kind, amount, contract) ==
  [spec |-> r.spec.id, kind |-> kind, code |-> NoText, number |-> NoText, date |-> 0,
   amount |-> amount, cur |-> RUB, contract |-> contract, source |-> 0,
   oper |-> r.oper.id, related |-> {}, vat |-> r.oper.nds,
   vozm |-> KindOf(r.oper.vozm), deleted |-> FALSE, via |-> <<r.via.id>>]

\* The contract of a document that stands for one the ERP does not have.
ExpectedContract(r) ==
  IF r.oper.vozm = 2 THEN r.spec.buyer
  ELSE FirstOf(<<r.spec.committent, r.spec.buyer>>, NoText)

ClosingContract(r, c) ==
  CASE c.kind = "purchase" -> c.contract
    [] c.kind # "purchase" /\ r.oper.vozm = 2 -> r.spec.buyer
    [] OTHER -> FirstOf(<<c.contract, r.spec.committent, r.spec.buyer>>, NoText)

ClosingDocument(r, c) ==
  [Document(r, c.kind, c.amount, ClosingContract(r, c)) EXCEPT
     !.code = MeaningfulCode(c.code), !.number = c.number, !.date = c.date,
     !.source = c.source, !.deleted = c.deleted, !.via = <<r.via.id, c.akt, c.via>>]

\* The documents that close an operation, or one in their place when there is
\* none although the operation has realised something.
ClosingDocuments(r, amounts, closings) ==
  LET own == {c \in closings : c.oper = r.oper.id}
      sum == Realised(amounts, r.oper.id)
  IN IF own # {} THEN {ClosingDocument(r, c) : c \in own}
     ELSE IF sum = 0 THEN {}
     ELSE {Document(r, "sale", sum, ExpectedContract(r))}

\* Mutant: the invoices of all the deliveries of the read are candidates.
CandidatesOfAnyDelivery(r, amounts, invoices) ==
  LET found == {i \in invoices :
                  /\ i.oper # r.oper.id /\ i.oper \in InvoiceOnly(amounts)
                  /\ i.amount = Realised(amounts, r.oper.id)
                  /\ i.cur = RUB /\ i.source > 0}
  IN IF Cardinality(found) = 1 THEN found ELSE {}

\* One invoice of the delivery, on another operation that realises nothing, of
\* just this sum: a sign that the operation is invoiced after all.
InvoiceCandidates(r, amounts, invoices) ==
  LET found == {i \in invoices :
                  /\ i.spec = r.spec.id /\ i.oper # r.oper.id
                  /\ i.oper \in InvoiceOnly(amounts)
                  /\ i.amount = Realised(amounts, r.oper.id)
                  /\ i.cur = RUB /\ i.source > 0}
  IN IF Cardinality(found) = 1 THEN found ELSE {}

\* An operation that realised something and that no invoice names.
MissingInvoice(r, amounts, links, invoices) ==
  LET sum == Realised(amounts, r.oper.id)
  IN IF sum = 0 \/ r.oper.id \in links THEN {}
     ELSE {[Document(r, "customer_invoice", sum, ExpectedContract(r)) EXCEPT
              !.related = {i.oper : i \in InvoiceCandidates(r, amounts, invoices)}]}

\* The payments of an operation, or one in their place when the ERP counts it
\* as paid and has no allocation.
PaymentDocuments(r, amounts, payments) ==
  LET own == {p \in payments : p.oper = r.oper.id}
      blank == [Document(r, "payment", Paid(amounts, r.oper.id), r.spec.buyer)
                  EXCEPT !.vat = 0, !.vozm = NoText]
  IN IF Paid(amounts, r.oper.id) = 0 THEN {}
     ELSE IF own = {} THEN {blank}
     ELSE {[blank EXCEPT !.code = MeaningfulCode(p.code), !.number = p.number,
              !.date = p.date, !.amount = p.amount, !.cur = p.cur, !.source = p.source,
              !.via = <<r.via.id, p.source>>] : p \in own}

DeliveryInvoices(invoices, specId) ==
  {[i EXCEPT !.code = MeaningfulCode(@)] : i \in {x \in invoices : x.spec = specId}}

Documents(ops, amounts, links, invoices, closings, payments, specId) ==
  DeliveryInvoices(invoices, specId) \cup
  UNION {ClosingDocuments(r, amounts, closings)
           \cup MissingInvoice(r, amounts, links, invoices)
           \cup PaymentDocuments(r, amounts, payments) :
         r \in OperationsOf(ops, specId)}

-----------------------------------------------------------------------------
(* A read in which nothing changed between its queries, as a reference       *)

ReadAtOnce(db, specIds, specId) ==
  LET ops == OperationRows(db, specIds)
      ids == {r.oper.id : r \in ops}
      amounts == Amounts(db, ids)
      closings == PreferAggregateRows(ClosingRows(db, ids))
  IN [documents |-> Documents(ops, amounts, InvoiceLinks(db, ids),
                              InvoiceRows(db, specIds), closings,
                              PaymentRows(db, ids), specId),
      calculation |-> Calculation(ops, amounts, closings, specId)]

-----------------------------------------------------------------------------
(* document_exists_globally                                                  *)

ExistsGlobally(db, kind, code, date) ==
  /\ code # NoText /\ date # 0
  /\ CASE kind = "payment" -> PaymentExists(db, code, date)
       [] kind = "customer_invoice" -> InvoiceExists(db, code, date)
       [] kind \in {"sale", "purchase"} -> ClosingExists(db, code, date, kind)
       [] OTHER -> FALSE
=============================================================================
