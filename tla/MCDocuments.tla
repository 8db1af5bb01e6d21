----------------------------- MODULE MCDocuments -----------------------------
(* Small documents for the models: builders, and the values they are made    *)
(* from.  One code, one number, two dates, two contracts, a few amounts.     *)
EXTENDS Documents

RUB(n) == [value |-> n, currency |-> "RUB"]
USD(n) == [value |-> n, currency |-> "USD"]

Blank ==
  [kind |-> "sale", code |-> "", number |-> "", incoming |-> "", date |-> 0,
   amount |-> RUB(0), contract |-> "", vat |-> "", source_id |-> "",
   operation |-> 0, parent |-> 0, related |-> FALSE,
   lines |-> << >>, allocations |-> << >>]

Doc(kind, code, number, date, amount, contract) ==
  [Blank EXCEPT !.kind = kind, !.code = code, !.number = number, !.date = date,
                !.amount = amount, !.contract = contract]

\* The same document seen as part of an operation of the delivery.
OfOperation(d, operation) ==
  [d EXCEPT !.operation = operation, !.source_id = "s"]

WithLines(d, lines) == [d EXCEPT !.lines = lines]
WithAllocations(d, allocations) == [d EXCEPT !.allocations = allocations]

LineOf(id, n, contract) ==
  [id |-> id, amount |-> RUB(n), contract |-> contract, vat |-> ""]
AllocationOf(line, n, contract) ==
  [line |-> line, amount |-> RUB(n), contract |-> contract]

SeqsUpTo(S, n) == UNION {[1..k -> S] : k \in 0..n}
=============================================================================
