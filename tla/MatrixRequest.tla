--------------------------- MODULE MatrixRequest ---------------------------
\* One request for the matrix of deliveries, GET /api/reconciliation/matrix or
\* matrix.xlsx, as interfaces/http/api.py serves it while people work in the
\* ERP: who it is served for (HttpSession), nine queries that each run on a
\* connection of their own in autocommit mode (ErpDatabase), what the repository
\* makes of their answers (ErpReads), the rows of the matrix and the workbook.
EXTENDS ErpReads, HttpSession

CONSTANTS
  Histories,   \* what becomes of the ERP: a sequence of histories, of which one
               \* is that of a behaviour, each a sequence of databases
  Requests,    \* the requests: xlsx, all, includeTotal, limit, offset, filter
  Searches,    \* the searches: what, text, id (digits), long enough, filter
  PageCap,     \* the largest page (500 in the code)
  ExportCap    \* the largest export (2000 in the code)

ASSUME HistoriesAssumption ==
  \A h \in DOMAIN Histories :
    /\ Len(Histories[h]) \in Nat \ {0}
    /\ \A n \in 1..Len(Histories[h]) :
         IsDatabase(Histories[h][n]) /\ ColumnsAreNumbers(Histories[h][n])

ASSUME RequestsAssumption ==
  /\ PageCap \in Nat \ {0} /\ ExportCap \in Nat \ {0}
  /\ \A q \in Requests : q.limit \in Int /\ q.offset \in Int

VARIABLES
  hist, now,   \* the ERP: which history it has and the moment in it
  pc,          \* the query that comes next, or "idle"
  req,         \* the request in service
  got,         \* what its queries have answered
  rows,        \* the rows of the matrix made so far
  reply        \* the last answer of the service

requestVars == <<req, got, rows, reply>>
vars == <<sessionVars, hist, now, pc, requestVars>>

db == Histories[hist][now]
Ids == {got.list[i].id : i \in DOMAIN got.list}
OperIds == {r.oper.id : r \in got.ops}

Nothing == [began |-> 0]
NoReply == [status |-> 0]
Failed(status) == [status |-> status]

Init ==
  /\ InitSession
  /\ hist \in DOMAIN Histories /\ now = 1
  /\ pc = "idle" /\ req = Nothing
  /\ got = Nothing /\ rows = <<>> /\ reply = NoReply

-----------------------------------------------------------------------------
(* The matrix                                                                *)

\* payments_by_operation: what the payment documents bring to an operation.
PaidTo(docs, operId) ==
  SumFunction([d \in {x \in docs : x.kind = "payment" /\ x.oper = operId} |-> d.amount])

PaidOperations(docs) == {d.oper : d \in {x \in docs : x.kind = "payment"}} \ {0}

Named(invoice) == ({invoice.oper} \cup invoice.related) \ {0}

\* Mutant: the operations that a row has taken stay on offer.
TakenAgain(docs, invoices, i) == Named(invoices[i]) \cap PaidOperations(docs)

\* The operations whose payments the row of the i-th invoice shows: those of
\* its own that no row before it has shown.
TakenBy(docs, invoices, i) ==
  {o \in Named(invoices[i]) \cap PaidOperations(docs) :
     \A j \in 1..(i - 1) : o \notin Named(invoices[j])}

InvoiceCell(docs, invoices, i) ==
  LET taken == TakenBy(docs, invoices, i)
  IN [amount |-> invoices[i].amount, oper |-> invoices[i].oper, opers |-> taken,
      paid |-> SumFunction([o \in taken |-> PaidTo(docs, o)])]

\* The order in which a delivery's invoices are listed: those of the ERP come
\* first, in the order the database likes, and then those that are missing.
Orders(docs) ==
  LET invoices == {d \in docs : d.kind = "customer_invoice"}
      real == {d \in invoices : d.source # 0}
  IN {p[1] \o p[2] : p \in SetToSeqs(real) \X SetToSeqs(invoices \ real)}

\* Labels of the closing documents, each once: code, or else number, and date.
Labels(docs) ==
  {<<FirstOf(<<d.code, d.number>>, NoText), d.date>> :
     d \in {x \in docs : x.kind = "sale" /\ FirstOf(<<x.code, x.number>>, NoText) # NoText}}

MatrixRow(specId, docs, calculation, invoices) ==
  [spec |-> specId,
   invoiceSum |-> SumFunction([i \in ToSet(invoices) |-> i.amount]),
   payments |-> calculation.payments, reimbursable |-> calculation.reimbursable,
   other |-> calculation.other, balance |-> calculation.balance,
   invoices |-> [i \in DOMAIN invoices |-> InvoiceCell(docs, invoices, i)],
   labels |-> Labels(docs), documents |-> docs]

MatrixSummary(rs) ==
  [deliveries |-> Len(rs),
   invoices |-> SumFunction([i \in DOMAIN rs |-> rs[i].invoiceSum]),
   payments |-> SumFunction([i \in DOMAIN rs |-> rs[i].payments]),
   reimbursable |-> SumFunction([i \in DOMAIN rs |-> rs[i].reimbursable]),
   other |-> SumFunction([i \in DOMAIN rs |-> rs[i].other]),
   balance |-> SumFunction([i \in DOMAIN rs |-> rs[i].balance]),
   debts |-> Cardinality({i \in DOMAIN rs : rs[i].balance < 0}),
   overpayments |-> Cardinality({i \in DOMAIN rs : rs[i].balance > 0})]

-----------------------------------------------------------------------------
(* The workbook                                                              *)

\* Blank stands for an empty cell; a payment that no invoice took has a line of
\* its own below the invoices, and only what is left over above zero.
Blank == [given |-> FALSE, value |-> 0]
Cell(n) == [given |-> TRUE, value |-> n]

PaidInLines(lines) == SumFunction([i \in DOMAIN lines |-> lines[i].paid.value])

\* Mutant: what invoices took beyond the payments is made up for.
WithCompensation(lines, row) ==
  LET left == row.payments - PaidInLines(lines)
  IN IF left # 0 THEN Append(lines, [amount |-> Blank, paid |-> Cell(left)])
     ELSE lines

WithUnassignedPayment(lines, row) ==
  LET left == row.payments - PaidInLines(lines)
  IN IF left > 0 THEN Append(lines, [amount |-> Blank, paid |-> Cell(left)])
     ELSE lines

InvoiceLines(row) ==
  LET line(c) == [amount |-> Cell(c.amount),
                  paid |-> IF c.opers = {} THEN Blank ELSE Cell(c.paid)]
      lines == IF row.invoices = <<>>
               THEN <<[amount |-> Cell(row.invoiceSum), paid |-> Blank]>>
               ELSE [i \in DOMAIN row.invoices |-> line(row.invoices[i])]
  IN WithUnassignedPayment(lines, row)

\* A block of lines for every delivery, its other cells merged over the block.
Workbook(rs) == [blocks |-> [i \in DOMAIN rs |-> InvoiceLines(rs[i])],
                 totals |-> MatrixSummary(rs)]

-----------------------------------------------------------------------------
(* One request                                                               *)

Answer(r) ==
  reply' = r /\ pc' = "idle" /\ req' = Nothing /\ got' = Nothing /\ rows' = <<>>

Others == UNCHANGED <<sessionVars, hist, now>>

BadRequest(q) ==
  q.filter.handoverFrom > q.filter.handoverTo /\ q.filter.handoverTo # NotGiven

Receive ==
  /\ pc = "idle"
  /\ \E q \in Requests, h \in Headers :
       CASE RequestContext(h) = Refused -> Answer(Failed(401))
         [] RequestContext(h) # Refused /\ BadRequest(q) -> Answer(Failed(400))
         [] OTHER -> /\ pc' = "count" /\ req' = q
                     /\ got' = [began |-> now, headers |-> h]
                     /\ reply' = NoReply /\ UNCHANGED rows
  /\ Others

\* A query that answers: its answer is kept under a name and the next one runs.
Ask(query, name, answer, next) ==
  /\ pc = query
  /\ got' = [n \in DOMAIN got \cup {name} |-> IF n = name THEN answer ELSE got[n]]
  /\ pc' = next
  /\ UNCHANGED <<req, rows, reply>> /\ Others

Count == Ask("count", "total", CountDeliveries(db, req.filter),
             IF req.includeTotal /\ req.filter.spec = NotGiven THEN "totals" ELSE "list")

Totals == Ask("totals", "totals", MatrixTotalSummary(db, req.filter), "list")

\* An export asks for as many as were counted.
Limit ==
  LET given == Max({1, Min({req.limit, IF req.all THEN ExportCap ELSE PageCap})})
  IN IF req.all
     THEN Max({1, Min({IF got.total = 0 THEN given ELSE got.total, ExportCap})})
     ELSE given

Offset == IF req.all THEN 0 ELSE req.offset

List ==
  LET found == ListDeliveries(db, req.filter, Limit, Offset)
  IN Ask("list", "list", found, IF found = <<>> THEN "reply" ELSE "invoices")

Invoices == Ask("invoices", "invoices", InvoiceRows(db, Ids), "operations")

Operations ==
  LET found == OperationRows(db, Ids)
  IN Ask("operations", "ops", found, "amounts")

AmountsOf == Ask("amounts", "amounts", Amounts(db, OperIds), "links")
Links == Ask("links", "links", InvoiceLinks(db, OperIds), "closings")
Closings == Ask("closings", "closings",
                PreferAggregateRows(ClosingRows(db, OperIds)), "payments")
Payments == Ask("payments", "payments", PaymentRows(db, OperIds), "rows")

DocumentsOf(specId) == Documents(got.ops, got.amounts, got.links, got.invoices,
                                 got.closings, got.payments, specId)

\* The next row of the matrix.
MakeRow ==
  /\ pc = "rows"
  /\ LET id == got.list[Len(rows) + 1].id
         docs == DocumentsOf(id)
     IN \E order \in Orders(docs) :
          rows' = Append(rows, MatrixRow(id, docs,
                    Calculation(got.ops, got.amounts, got.closings, id), order))
  /\ pc' = IF Len(rows') = Len(got.list) THEN "reply" ELSE "rows"
  /\ UNCHANGED <<req, got, reply>> /\ Others

HasMore == Offset + Len(rows) < got.total

Page200 ==
  [status |-> 200, req |-> req, items |-> rows, total |-> got.total,
   hasMore |-> HasMore,
   summary |-> MatrixSummary(rows),
   totals |-> CASE req.includeTotal /\ req.filter.spec = NotGiven -> got.totals
                [] req.includeTotal /\ req.filter.spec # NotGiven -> MatrixSummary(rows)
                [] OTHER -> Nothing,
   limited |-> req.all /\ got.total > Limit,
   workbook |-> IF req.xlsx THEN Workbook(rows) ELSE Nothing,
   at |-> now, unedited |-> got.began = now]

\* A workbook is made of the page after one more look at the headers.
Finish ==
  /\ pc = "reply"
  /\ Answer(IF req.xlsx /\ RequestContext(got.headers) = Refused THEN Failed(401) ELSE Page200)
  /\ Others

\* A query that fails - the database is away, or too slow - fails the request.
QueryFails ==
  /\ pc \notin {"idle", "rows", "reply"}
  /\ Answer(Failed(503))
  /\ Others

\* The searches behind the filters of the page and the plain list of deliveries:
\* one query each, and none for a text that is too short. Digits are looked up
\* as an identifier.
SearchLimit == 30
DefaultPage == 50

Found(q) ==
  CASE ~ q.long -> <<>>
    [] q.long /\ q.what = "clients" -> SearchClients(db, q.text, SearchLimit)
    [] q.long /\ q.what = "contracts" ->
         SearchContracts(db, q.filter.client, q.text, SearchLimit)
    [] q.long /\ q.what = "deliveries" /\ q.id # NotGiven ->
         SetToSeq(SearchDeliveryById(db, q.filter, q.id))
    [] q.long /\ q.what = "deliveries" /\ q.id = NotGiven ->
         SearchDeliveries(db, q.filter, q.text, SearchLimit)
    [] OTHER -> ListDeliveries(db, q.filter, DefaultPage, 0)

Search ==
  /\ pc = "idle"
  /\ \E q \in Searches, h \in Headers :
       Answer(IF RequestContext(h) = Refused THEN Failed(401)
              ELSE [status |-> 200, context |-> RequestContext(h), found |-> Found(q)])
  /\ Others

-----------------------------------------------------------------------------
(* Around the request                                                        *)

\* Somebody works in the ERP.
Edit == now < Len(Histories[hist]) /\ now' = now + 1 /\ UNCHANGED <<sessionVars, hist, pc, requestVars>>

SessionStep ==
  /\ Tick \/ \E u \in Users : Launch(u) \/ Deactivate(u)
  /\ UNCHANGED <<hist, now, pc, requestVars>>

\* The process stops and starts anew: its request is gone.
Restart ==
  /\ secret < MaxRestarts /\ secret' = NewSecret
  /\ Answer(NoReply)
  /\ UNCHANGED <<config, clock, leftAt, session, hist, now>>

Next ==
  \/ Receive \/ Count \/ Totals \/ List \/ Invoices \/ Operations \/ AmountsOf
  \/ Links \/ Closings \/ Payments \/ MakeRow \/ Finish \/ QueryFails
  \/ Search \/ Edit \/ SessionStep \/ Restart

Spec == Init /\ [][Next]_vars

-----------------------------------------------------------------------------
(* Properties                                                                *)

Answered == reply.status = 200 /\ "items" \in DOMAIN reply
Untouched == Answered /\ reply.unedited
Rows == IF Answered THEN ToSet(reply.items) ELSE {}
ErpThen == Histories[hist][reply.at]

\* The payment of an operation is shown against one invoice of a delivery and
\* no other, however the database orders the invoices, although an operation
\* may be named by an invoice of its own and by a child of an aggregate.
PaymentShownOnce ==
  \A r \in Rows : \A i, j \in DOMAIN r.invoices :
    i # j => r.invoices[i].opers \cap r.invoices[j].opers = {}

\* Where nothing is paid or allocated below zero - the tables do not keep anyone
\* from it - ...
NoneNegative(erp) == /\ \A o \in erp.opers : o.paid \in Nat
                     /\ \A a \in erp.allocs : a.sum \in Nat

NothingRefunded ==
  \A h \in DOMAIN Histories : \A n \in 1..Len(Histories[h]) : NoneNegative(Histories[h][n])

\* ... every payment of an operation is allocated in full and no operation is
\* listed twice for a delivery ...
AllocatedInFull(erp) ==
  \A o \in erp.opers : LET own == {a \in erp.allocs : a.oper = o.id} IN
    own = {} \/ o.paid = SumFunction([a \in own |-> a.sum])
AttachedOnce(erp) ==
  \A o \in erp.opers : \A c, d \in erp.categs :
    c.oper = o.id /\ d.oper = o.id /\ c # d => o.parenttype = 4 /\ c.spec # d.spec

\* ... the column of payments of the workbook adds up to what the delivery was
\* paid, with one line for what no invoice took; and never does a line show a
\* sum below zero.
PaidColumnAddsUp ==
  Answered /\ reply.req.xlsx =>
    \A i \in DOMAIN reply.items :
      LET lines == reply.workbook.blocks[i]
      IN /\ \A k \in DOMAIN lines : lines[k].paid.value >= 0
         /\ reply.unedited /\ AllocatedInFull(ErpThen) /\ AttachedOnce(ErpThen) =>
              PaidInLines(lines) = reply.items[i].payments

\* The totals of all deliveries, which SQL adds up, are those of the page,
\* which Python adds up operation by operation, when the page holds all of
\* them - unless an operation of unknown kind belongs to a delivery without a
\* contract of the buyer, which only one of the two counts.
KindsClear(erp) ==
  \A r \in OperationRows(erp, {s.id : s \in erp.specs}) :
    r.oper.vozm \in {1, 2} \/ r.oper.realiz = 0 \/ r.spec.buyer # NoText

TotalsAgree ==
  Untouched /\ reply.totals # Nothing /\ Len(reply.items) = reply.total
    /\ AttachedOnce(ErpThen) /\ KindsClear(ErpThen) =>
    \A field \in {"deliveries", "payments", "balance", "debts", "overpayments"} :
      reply.totals[field] = reply.summary[field]

\* A delivery has on a page of many the documents and the sums that it has when
\* it is read alone for a reconciliation, as long as the invoices of each
\* delivery are issued for operations of its own.
InvoicesAtHome(erp) ==
  \A i \in InvoiceRows(erp, {s.id : s \in erp.specs}) :
    \A r \in OperationRows(erp, {s.id : s \in erp.specs}) :
      r.oper.id = i.oper => r.spec.id = i.spec

SameAsAlone ==
  Untouched /\ InvoicesAtHome(ErpThen) =>
    \A r \in Rows : LET alone == ReadAtOnce(ErpThen, {r.spec}, r.spec) IN
      /\ r.documents = alone.documents
      /\ [f \in DOMAIN alone.calculation |-> r[f]] = alone.calculation

\* An act that closes an operation of a delivery is shown for it, unless an
\* aggregate of the same kind stands for the operation.
ActsShown ==
  Untouched =>
    \A r \in Rows :
      LET opers == {x.oper.id : x \in OperationRows(ErpThen, {r.spec})}
      IN \A c \in ClosingRows(ErpThen, opers) :
           \E d \in r.documents : /\ d.oper = c.oper /\ d.kind = c.kind
                                 /\ d.source # 0
                                 /\ \/ d.via[2] = c.akt
                                    \/ \E a \in ErpThen.akts :
                                         a.id = d.via[2] /\ a.mainakt = d.source

\* A document that the ERP lists for a delivery is found by the global search
\* under the code and the date it is listed with, so that its counterpart in 1C
\* is never called absent from the ERP. Where the two ask for different columns
\* it may not be: a payment dated otherwise in 1C than in its order, a part of
\* an aggregate that has a code or a date in 1C of its own, and an aggregate
\* without a code, which is listed under its number.
SameColumns(d) ==
  /\ d.kind = "payment" => \A h \in ById(ErpThen.acchist, d.source) : h.ppdt = d.date
  /\ d.kind \in {"sale", "purchase"} =>
       \A a \in ErpThen.akts :
         a.id = d.via[2] /\ a.mainakt # 0 =>
           a.code = NoText /\ a.dt1c = 0 /\ MainAkt(ErpThen, a).code # NoText

ListedIsFound ==
  Untouched =>
    \A r \in Rows : \A d \in r.documents :
      d.code # NoText /\ d.date # 0 /\ ~ d.deleted /\ SameColumns(d) =>
        ExistsGlobally(ErpThen, d.kind, d.code, d.date)

\* Nothing that is served under a session - a page of the matrix when its
\* request is taken in, a workbook also when it is handed out, a search - is
\* served later than a session lasts after the ERP shut its user out: every
\* session was launched before, and no request prolongs one. Of requests that
\* carry no session it says nothing: they are served on a token that nobody
\* verifies, or on none, for as long as they come.
ServedMatrix == pc = "idle" /\ pc' = "count"
ServedWorkbook == pc = "reply" /\ pc' = "idle" /\ req.xlsx /\ reply'.status = 200
ServedSearch == pc = "idle" /\ pc' = "idle" /\ reply' # reply /\ "found" \in DOMAIN reply'

\* The context in which the step serves.
ServedAs ==
  CASE ServedMatrix -> RequestContext(got'.headers)
    [] ServedWorkbook -> RequestContext(got.headers)
    [] ServedSearch -> reply'.context
    [] OTHER -> Refused

ShutOutInTime ==
  [][ServedAs.auth_source = "recon_session" =>
       clock <= leftAt[ServedAs.user] + Ttl]_vars
=============================================================================
