------------------------- MODULE MCPrototypeServer -------------------------
EXTENDS PrototypeServer, TLC

\* What a record of 1C has unless something else is said of it.
OneC == [kind |-> "sale_act", code |-> {"k1"}, number |-> {}, date |-> 1, sum |-> 10,
         invoice |-> {}, spec |-> "", base |-> "", contract |-> "", text |-> {}]
Line == [code |-> {"k1"}, date |-> 1, sum |-> 10, spec |-> "", base |-> "", text |-> {},
         file |-> "lines", row |-> 1]
NoSide == [spec |-> "", base |-> "", text |-> {}, amount |-> 0, account |-> "62"]
Ours == [NoSide EXCEPT !.spec = "s1", !.base = "c1", !.account = "76"]
Movement == [code |-> {"k1"}, date |-> 1, debit |-> Ours, credit |-> NoSide]
Moved(side, amount) ==
  IF side = "debit" THEN [Movement EXCEPT !.debit.amount = amount]
  ELSE [Movement EXCEPT !.debit = NoSide, !.credit = [Ours EXCEPT !.amount = amount]]

\* And what one of the ERP has.
NoMain == [id |-> 0, code |-> {}, number |-> {}, date |-> 0, sum |-> NoSum]
Act == [doc |-> 1, code |-> {"k1"}, number |-> {}, date |-> 1, sum |-> 10, detail |-> 0,
        detailSum |-> 0, main |-> NoMain, other |-> FALSE, oper |-> 1, dog |-> "c1",
        invoice |-> {}]
Payment == [id |-> 1, code |-> {"k1"}, number |-> {}, date |-> 1, full |-> 10,
            classified |-> 10, incoming |-> TRUE, dog |-> "c1", invoice |-> {}]
Invoice == [code |-> {"k1"}, number |-> {}, date |-> 1, sum |-> 10, invoice |-> {"n1"},
            dog |-> "c1"]
Delivery == [spec |-> "s1", base |-> "c1", own |-> "c1/s1", codes |-> {"b1"}]
Snap(invoices, payments, acts) ==
  [delivery |-> Delivery, contracts |-> {"c1/s1"},
   invoices |-> invoices, payments |-> payments, acts |-> acts]

\* Acts: two rows of one document, one of them of a main document, and an act
\* without a code beside one that is not reimbursed.
Acts ==
  {<<Act>>,
   <<[Act EXCEPT !.sum = 4], [Act EXCEPT !.doc = 2, !.sum = 6]>>,
   <<[Act EXCEPT !.detail = 1, !.detailSum = 4], [Act EXCEPT !.detail = 2, !.detailSum = 6],
     [Act EXCEPT !.detail = 1, !.detailSum = 4]>>,
   <<[Act EXCEPT !.code = {}, !.sum = 3,
        !.main = [id |-> 9, code |-> {"k1"}, number |-> {"k2"}, date |-> 2, sum |-> 10]],
     [Act EXCEPT !.doc = 2]>>,
   <<[Act EXCEPT !.other = TRUE], [Act EXCEPT !.doc = 2, !.other = TRUE, !.code = {}],
     [Act EXCEPT !.doc = 3, !.date = 2]>>,
   <<Act, [Act EXCEPT !.doc = 2, !.code = {"k1", "k2"}, !.sum = 7]>>}

Payments ==
  {<<Payment>>,
   <<[Payment EXCEPT !.classified = 4]>>,
   <<[Payment EXCEPT !.classified = 4], [Payment EXCEPT !.classified = 3]>>,
   <<[Payment EXCEPT !.classified = NoSum], [Payment EXCEPT !.id = 2, !.invoice = {"n1"}]>>,
   <<[Payment EXCEPT !.incoming = FALSE], [Payment EXCEPT !.id = 2, !.code = {}]>>}

Twos(S) == {<<a, b>> : a \in S, b \in S} \cup {<<a>> : a \in S}

ActDocs == {OneC, [OneC EXCEPT !.sum = 7], [OneC EXCEPT !.kind = "purchase_act", !.base = "c2"],
            [OneC EXCEPT !.code = {}, !.number = {"k1"}], [OneC EXCEPT !.date = 2],
            [OneC EXCEPT !.kind = "contract", !.code = {}, !.base = "c1"],
            [OneC EXCEPT !.code = {"k2"}, !.spec = "s2", !.text = {"c1/s1"}],
            [OneC EXCEPT !.code = {"k2"}, !.spec = "s1", !.base = "c1"]}
Receipt == [OneC EXCEPT !.kind = "bank_receipt"]
PaymentDocs == {Receipt, [Receipt EXCEPT !.sum = 4], [Receipt EXCEPT !.invoice = {"n1"}],
                [Receipt EXCEPT !.contract = "c2"], [Receipt EXCEPT !.code = {"k2"}]}
InvoiceDocs == {[OneC EXCEPT !.kind = "invoice"], [OneC EXCEPT !.kind = "invoice", !.sum = 7]}

\* A document of the same key beside one of the same number and another date.
Mixed == <<[OneC EXCEPT !.sum = 7], [OneC EXCEPT !.date = 2, !.spec = "s1", !.base = "c1"]>>

Movements == {<<>>, <<Moved("debit", 10)>>, <<Moved("credit", 4)>>,
              <<Moved("debit", 6), Moved("debit", 4), Moved("credit", 9)>>,
              <<Moved("debit", 3), Moved("credit", 10)>>,
              <<[Moved("debit", 10) EXCEPT !.debit.spec = "", !.debit.text = {"c1/s1"}]>>,
              <<[Moved("debit", 10) EXCEPT !.credit = Ours]>>}

Answer(docs, movements, lines) == [docs |-> docs, movements |-> movements, lines |-> lines]

\* One client at its ease, or many at work at a time.
Quiet == [syncs |-> {"p"}, clients |-> {"a"}, jobs |-> 1, clock |-> 0]
Syncing == [Quiet EXCEPT !.syncs = {"p", "q"}]
Crowded == [Quiet EXCEPT !.clients = {"a", "b"}, !.jobs = 3]
Lasting == [Quiet EXCEPT !.jobs = 3, !.clock = 2]

OfRest(snap, docs, movements) ==
  Quiet @@ [snap |-> snap, source |-> "rest", files |-> <<>>,
   answers |-> {Answer(d, m, <<>>) : d \in docs, m \in movements}
                 \cup {Answer(<<>>, <<>>, <<Line>>)}]

\* Lines: of one file or of two, of the delivery, of another or of none.
Lines == {<<Line>>, <<[Line EXCEPT !.sum = 7], Line>>,
          <<[Line EXCEPT !.spec = "s1", !.base = "c1", !.sum = 4],
            [Line EXCEPT !.row = 2, !.sum = 6, !.spec = "s1"]>>,
          <<[Line EXCEPT !.spec = "s2"], [Line EXCEPT !.row = 2]>>,
          <<Line, [Line EXCEPT !.file = "services"], [Line EXCEPT !.row = 2, !.sum = 7]>>}

File(docs, movements, lines, modified) ==
  [docs |-> docs, movements |-> movements, lines |-> lines, modified |-> modified,
   size |-> 5, namedAsLines |-> lines # <<>>,
   kind |-> IF lines # <<>> THEN "purchase_act_line_details" ELSE "sales"]

OfTables(snap, files) == Quiet @@ [snap |-> snap, source |-> "postgres", files |-> files, answers |-> {}]

TwoActs(sum) == <<Act, [Act EXCEPT !.doc = 2, !.code = {"k1", "k2"}, !.sum = sum]>>

\* Lines whose codes share a key with the code of an act, but not with each
\* other.
ActsOfKeys == <<[Act EXCEPT !.code = {"k1", "k2"}], [Act EXCEPT !.doc = 2, !.code = {"k2"}, !.sum = 6]>>
LinesOfKeys == <<[Line EXCEPT !.spec = "s1", !.base = "c1", !.sum = 4],
                 [Line EXCEPT !.spec = "s1", !.base = "c1", !.sum = 6, !.row = 2, !.code = {"k2"}]>>

MCScenarios ==
  {OfRest(Snap(<<>>, <<>>, a), Twos(ActDocs), {<<>>}) : a \in Acts}
  \cup {OfRest(Snap(<<>>, <<>>, a), {<<>>, Mixed}, Movements) : a \in Acts}
  \cup {OfRest(Snap(<<>>, p, <<>>), Twos(PaymentDocs) \cup {<<>>}, Movements) : p \in Payments}
  \cup {OfRest(Snap(<<Invoice, [Invoice EXCEPT !.code = {}]>>, <<>>, <<>>), Twos(InvoiceDocs), {<<>>})}
  \cup {OfTables(Snap(<<>>, <<>>, TwoActs(sum)), <<<<File(d, <<>>, l, 1)>>>>) :
          d \in {<<>>, <<[OneC EXCEPT !.sum = 5]>>}, l \in Lines, sum \in {7, 10}}
  \cup {OfTables(Snap(<<>>, <<>>, ActsOfKeys), <<<<File(<<>>, <<>>, LinesOfKeys, 1)>>>>)}

\* The folder changes while it is copied.
MCChanging ==
  {Syncing @@ OfTables(Snap(<<>>, <<>>, <<Act>>),
     <<<<File(<<OneC>>, <<>>, <<>>, 1), File(<<>>, <<Movement>>, <<>>, 2),
         [File(<<OneC>>, <<>>, <<>>, 2) EXCEPT !.size = 6]>>,
       <<[File(<<>>, <<>>, <<Line>>, 1) EXCEPT !.kind = "unknown"], File(<<>>, <<>>, <<Line>>, 3)>>>>)}

\* Many jobs.
MCCrowd ==
  {load @@ [OfRest(Snap(<<>>, <<>>, <<Act>>), {}, {}) EXCEPT !.answers =
              {Answer(<<OneC>>, <<>>, <<>>)}] : load \in {Crowded, Lasting}}

MCAll == MCScenarios \cup MCChanging \cup MCCrowd
=============================================================================
