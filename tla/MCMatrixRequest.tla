-------------------------- MODULE MCMatrixRequest --------------------------
EXTENDS MatrixRequest

\* Two deliveries of one contract. Operations 11-13 belong to the first, 21-22
\* to the second; 12 is attached to the first by a category.
Oper(id, spec, vozm, paid, realiz) ==
  [id |-> id, parenttype |-> 2, spec |-> spec, parent |-> 0, vozm |-> vozm,
   nds |-> 1, paid |-> paid, realiz |-> realiz]
Attached(o) == [o EXCEPT !.parenttype = 4, !.spec = 0]

Schet(id, spec, maininv, oper, sum) ==
  [id |-> id, dogtype |-> 2, spec |-> spec, type |-> 1, maininv |-> maininv,
   status |-> 0, sum |-> sum, val |-> RUB, code |-> "", num |-> "n", dt |-> 1,
   oper |-> oper, vozm |-> 0, nds |-> 1]

Akt(id, oper, type, mainakt, sum, code) ==
  [id |-> id, oper |-> oper, type |-> type, mainakt |-> mainakt, status |-> 0,
   sum |-> sum, code |-> code, num |-> "n", dt |-> 1, dt1c |-> 0, dog |-> 1]

Erp ==
  [specs |-> {[id |-> 1, dog |-> 1, num |-> "a", names |-> {"one"}, buyer |-> "B1",
               committent |-> "C1", dt |-> 5, handover |-> 3],
              [id |-> 2, dog |-> 1, num |-> "b", names |-> {"two"}, buyer |-> "B2",
               committent |-> "", dt |-> 4, handover |-> 0]},
   dogs |-> {[id |-> 1, client |-> 1, code |-> "C1", rank |-> 1,
              names |-> {"base"}]},
   clients |-> {[id |-> 1, rank |-> 1, names |-> {"firm"}]},
   opers |-> {Oper(11, 1, 1, 3, 4), Attached(Oper(12, 1, 0, 2, 2)),
              Oper(13, 1, 2, 0, 0), Oper(21, 2, 2, 2, 1), Oper(22, 2, 1, 0, 0)},
   categs |-> {[id |-> 1, oper |-> 12, spec |-> 1]},
   \* 1 is the aggregate of 2 and 3; 4 names operation 12 once more
   schets |-> {Schet(1, 1, 0, 0, 6), Schet(2, 1, 1, 11, 4), Schet(3, 1, 1, 12, 2),
               Schet(4, 1, 0, 12, 2), [Schet(5, 2, 0, 22, 1) EXCEPT !.code = "I"],
               Schet(8, 1, 0, 13, 1)},
   schetOpers |-> {},
   \* 32 is a part of the aggregate 31, 33 an act besides, 34 a purchase
   akts |-> {[Akt(31, 0, 1, 0, 4, "A") EXCEPT !.dt1c = 2],
             Akt(32, 11, 1, 31, 4, ""), Akt(33, 11, 1, 0, 1, "s"), Akt(34, 11, 7, 0, 1, "p"),
             Akt(35, 0, 1, 0, 2, "l")},
   aktOpers |-> {[id |-> 1, akt |-> 35, oper |-> 12, sum |-> 2]},
   acchist |-> {[id |-> 51, code |-> "P", num |-> "n", ppdt |-> 2, dt1c |-> 3, val |-> RUB],
                [id |-> 52, code |-> "Q", num |-> "n", ppdt |-> 2, dt1c |-> 0, val |-> RUB]},
   allocs |-> {[id |-> 1, hist |-> 51, oper |-> 11, sum |-> 2],
               [id |-> 2, hist |-> 52, oper |-> 11, sum |-> 1],
               [id |-> 3, hist |-> 52, oper |-> 12, sum |-> 2]}]

\* What people do in it: an invoice for operation 21 is issued ...
Invoiced == [Erp EXCEPT !.schets = @ \cup {Schet(6, 2, 0, 21, 1)}]
\* ... a payment is moved from one operation to another ...
Moved == [Erp EXCEPT !.allocs = {IF a.id = 3 THEN [a EXCEPT !.oper = 21] ELSE a : a \in @},
                     !.opers = {CASE o.id = 12 -> [o EXCEPT !.paid = 0]
                                  [] o.id = 21 -> [o EXCEPT !.paid = 4]
                                  [] OTHER -> o : o \in @}]
\* ... operation 12 is attached twice, and more is allocated than counts as paid.
Doubled == [Erp EXCEPT !.categs = @ \cup {[id |-> 2, oper |-> 12, spec |-> 1]},
                       !.allocs = @ \cup {[id |-> 4, hist |-> 51, oper |-> 12, sum |-> 1]}]
\* ... the invoice of operation 22 is one of the other delivery, a delivery
\* without a contract has an operation of unknown kind, and the act 37 of
\* operation 21 is part of an aggregate that has a date in 1C and no code.
Crossed == [Erp EXCEPT !.schets = @ \cup {Schet(7, 1, 0, 22, 2)},
                       !.akts = @ \cup {[Akt(36, 0, 1, 0, 1, "") EXCEPT !.dt1c = 2],
                                        Akt(37, 21, 1, 36, 1, "")},
                       !.specs = {[s EXCEPT !.buyer = IF s.id = 2 THEN "" ELSE @] : s \in @},
                       !.opers = @ \cup {Oper(23, 2, 0, 0, 2)}]

MCSettings == {c \in [require_token : BOOLEAN, secret_configured : BOOLEAN] :
                 c.require_token => c.secret_configured}

MCHistories == <<<<Erp, Invoiced>>, <<Erp, Moved>>, <<Doubled>>, <<Crossed>>>>

ASSUME NothingBelowZeroHere == NothingRefunded

AnyDelivery == [spec |-> NotGiven, client |-> NotGiven, dog |-> NotGiven,
                from |-> NotGiven, to |-> NotGiven,
                handoverFrom |-> NotGiven, handoverTo |-> NotGiven]
Ask1 == [xlsx |-> FALSE, all |-> FALSE, includeTotal |-> TRUE, limit |-> 2,
         offset |-> 0, filter |-> AnyDelivery]

MCRequests ==
  {Ask1, [Ask1 EXCEPT !.xlsx = TRUE, !.all = TRUE, !.limit = 1],
   [Ask1 EXCEPT !.limit = 1, !.includeTotal = FALSE],
   [Ask1 EXCEPT !.offset = 1],
   [Ask1 EXCEPT !.filter = [AnyDelivery EXCEPT !.spec = 2]],
   [Ask1 EXCEPT !.filter = [AnyDelivery EXCEPT !.handoverFrom = 2, !.client = 1]],
   [Ask1 EXCEPT !.filter = [AnyDelivery EXCEPT !.handoverFrom = 2, !.handoverTo = 1]]}

Words == [what |-> "deliveries", text |-> "firm", id |-> NotGiven, long |-> TRUE,
          filter |-> AnyDelivery]
MCSearches ==
  {Words, [Words EXCEPT !.what = "clients"], [Words EXCEPT !.long = FALSE],
   [Words EXCEPT !.what = "contracts", !.text = "base"], [Words EXCEPT !.id = 2],
   [Words EXCEPT !.what = "specifications"]}
=============================================================================
