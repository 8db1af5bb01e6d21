---------------------------- MODULE ErpDatabase ----------------------------
\* The queries of infrastructure/erp_mariadb/queries.py as functions of the
\* tables of the ERP. A database is a record with one set of rows per table,
\* every row with the columns that the queries read:
\*
\*   specs   veda_specs            id, dog, num, buyer, committent, dt, handover
\*   dogs    veda_dogs             id, client, code, rank
\*   clients veda_clients          id, rank
\*           all three with names: the texts that LIKE finds in them; rank is
\*           the place of a name in the order of names
\*   opers   veda_spec_invoices    id, parenttype, spec, parent, vozm, nds,
\*                                 and what the stored functions get_paidsum
\*                                 and get_realizsum answer for it: paid, realiz
\*   categs  veda_categs           id, oper, spec   (types 24 and 5)
\*   schets  veda_schets           id, dogtype, spec, type, maininv, status,
\*                                 sum, val, code, num, dt, oper, vozm, nds
\*   schetOpers, aktOpers          the ..._details_opers tables joined with
\*                                 their details: id, oper, schet | akt, sum
\*   akts    veda_akts             id, oper, type, mainakt, status, sum, code,
\*                                 num, dt, dt1c, dog
\*   acchist veda_acchist          id, code, num, ppdt, dt1c, val
\*   allocs  veda_acchist_docs     id, hist, oper, sum   (doctype 3)
\*
\* A missing or NULL value is 0, or "" in a column of codes. A row of a join is
\* a record of the rows it joins, so that a join that repeats a row repeats it
\* here as well, as SQL does.
EXTENDS Integers, Sequences, FiniteSets, FiniteSetsExt, SequencesExt, Functions

NoText == ""      \* a text or code that is empty or NULL
NotGiven == -1    \* a filter that is not given (NULL)

FirstOf(values, none) ==
  LET given == {i \in DOMAIN values : values[i] # none}
  IN IF given = {} THEN none ELSE values[Min(given)]

ById(rows, id) == {r \in rows : r.id = id}

\* A table with f_id for its primary key, which counts up from 1.
Keyed(rows) ==
  /\ IsFiniteSet(rows)
  /\ \A r \in rows : r.id \in Nat \ {0} /\ \A s \in rows : r.id = s.id => r = s

IsDatabase(db) ==
  /\ Keyed(db.specs) /\ Keyed(db.dogs) /\ Keyed(db.clients) /\ Keyed(db.opers)
  /\ Keyed(db.categs) /\ Keyed(db.schets) /\ Keyed(db.schetOpers) /\ Keyed(db.akts)
  /\ Keyed(db.aktOpers) /\ Keyed(db.acchist) /\ Keyed(db.allocs)

\* A delivery has a date or none (0), and sums are in the smallest unit of
\* their currency.
ColumnsAreNumbers(db) ==
  /\ \A s \in db.specs : s.dt \in Nat
  /\ \A o \in db.opers : o.paid \in Int /\ o.realiz \in Int

-----------------------------------------------------------------------------
(* Deliveries                                                                *)

\* The WHERE clause that the list, the count, the totals and the searches of
\* deliveries share. A date that is NULL meets no bound.
Within(date, from, to) ==
  /\ from # NotGiven => date # 0 /\ date >= from
  /\ to # NotGiven => date # 0 /\ date <= to

Selected(db, f) ==
  {s \in db.specs : \E d \in ById(db.dogs, s.dog) :
      /\ f.spec \in {NotGiven, s.id}
      /\ f.client \in {NotGiven, d.client}
      /\ f.dog \in {NotGiven, d.id}
      /\ Within(s.dt, f.from, f.to)
      /\ Within(s.handover, f.handoverFrom, f.handoverTo)}

CountDeliveries(db, f) == Cardinality(Selected(db, f))

\* ORDER BY: a row has its place after all that come before it.
InOrder(rows, before(_, _)) ==
  [i \in 1..Cardinality(rows) |->
     CHOOSE r \in rows : Cardinality({s \in rows : before(s, r)}) = i - 1]

\* ORDER BY s.f_dt DESC, s.f_id DESC LIMIT limit OFFSET offset
Page(rows, limit, offset) ==
  SubSeq(rows, offset + 1, Min({offset + limit, Len(rows)}))

Newer(a, b) == a.dt > b.dt \/ (a.dt = b.dt /\ a.id > b.id)

ListDeliveries(db, f, limit, offset) ==
  Page(InOrder(Selected(db, f), Newer), limit, Max({0, offset}))

\* Digits are looked up as the identifier of a delivery, any other text in its
\* names; deliveries that have it for a number come first.
SearchDeliveryById(db, f, id) == Selected(db, [f EXCEPT !.spec = id])

SearchDeliveries(db, f, text, limit) ==
  LET found == {s \in Selected(db, [f EXCEPT !.spec = NotGiven]) :
                  text \in s.names \cup UNION {d.names \cup
                    UNION {c.names : c \in ById(db.clients, d.client)} :
                    d \in ById(db.dogs, s.dog)}}
      first(a, b) == \/ a.num = text /\ b.num # text
                     \/ (a.num = text) = (b.num = text) /\ Newer(a, b)
  IN Page(InOrder(found, first), limit, 0)

Earlier(a, b) == a.rank < b.rank

SearchClients(db, text, limit) ==
  Page(InOrder({c \in db.clients : text \in c.names}, Earlier), limit, 0)

SearchContracts(db, client, text, limit) ==
  Page(InOrder({d \in db.dogs : /\ client \in {NotGiven, d.client}
                                     /\ text \in d.names}, Earlier), limit, 0)

-----------------------------------------------------------------------------
(* Operations of deliveries                                                  *)

NoCateg == [id |-> 0, oper |-> 0, spec |-> 0]

\* An operation belongs to its own delivery (parent type 2) or to those that
\* its category rows name (4); the LEFT JOIN repeats it for every such row.
OperationRows(db, specIds) ==
  LET attached(o) == LET cs == {c \in db.categs : c.oper = o.id}
                     IN IF cs = {} THEN {NoCateg} ELSE cs
  IN {r \in [oper : db.opers, spec : {s \in db.specs : s.id \in specIds},
             via : db.categs \cup {NoCateg}] :
        /\ r.via \in attached(r.oper)
        /\ \/ r.oper.parenttype = 2 /\ r.spec.id = r.oper.spec
           \/ r.oper.parenttype = 4 /\ r.spec.id = r.via.spec}

\* get_paidsum and get_realizsum of the operations
Amounts(db, operIds) == {o \in db.opers : o.id \in operIds}

-----------------------------------------------------------------------------
(* Customer invoices                                                         *)

IsCustomerInvoice(s) == s.type = 1 /\ s.dogtype = 2 /\ s.maininv = 0

Children(db, s) ==
  {c \in db.schets : c.maininv = s.id /\ c.type = 1 /\ c.status # 9}

InvoiceVat(db, s) ==
  LET rates == {c.nds : c \in Children(db, s)}
  IN CASE rates = {} -> s.nds
       [] Cardinality(rates) = 1 -> CHOOSE r \in rates : TRUE
       [] OTHER -> 0

InvoiceRow(db, spec, s) ==
  [spec |-> spec.id, kind |-> "customer_invoice", code |-> s.code,
   number |-> s.num, date |-> s.dt, amount |-> s.sum, cur |-> s.val,
   contract |-> IF s.vozm = 1 THEN FirstOf(<<spec.committent, spec.buyer>>, NoText)
                ELSE spec.buyer,
   source |-> s.id, oper |-> s.oper, related |-> {c.oper : c \in Children(db, s)},
   vat |-> InvoiceVat(db, s), vozm |-> NoText, deleted |-> s.status = 9, via |-> <<>>]

InvoiceRows(db, specIds) ==
  {InvoiceRow(db, p[1], p[2]) : p \in
     {q \in db.specs \X db.schets : /\ q[1].id \in specIds /\ q[2].spec = q[1].id
                                    /\ IsCustomerInvoice(q[2])}}

\* Operations that some invoice of type 1 names, itself or in a line.
InvoiceLinks(db, operIds) ==
  LET live == {s \in db.schets : s.type = 1 /\ s.status # 9}
  IN operIds \cap ({s.oper : s \in live} \cup
       {l.oper : l \in {m \in db.schetOpers : \E s \in live : s.id = m.schet}})

-----------------------------------------------------------------------------
(* Closing documents                                                         *)

PurchaseTypes == {7, 23, 24, 25}

AktKind(a) == IF a.type \in PurchaseTypes THEN "purchase" ELSE "sale"

NoAkt == [id |-> 0, code |-> NoText, num |-> NoText, dt |-> 0, dt1c |-> 0, status |-> 0]

\* The aggregate that an act is part of (LEFT JOIN on f_mainakt).
MainAkt(db, a) ==
  IF a.mainakt # 0 /\ ById(db.akts, a.mainakt) # {}
  THEN CHOOSE m \in db.akts : m.id = a.mainakt ELSE NoAkt

ContractCode(db, dogId) ==
  IF ById(db.dogs, dogId) = {} THEN NoText
  ELSE (CHOOSE d \in db.dogs : d.id = dogId).code

ClosingRow(db, operId, a, sum, via) ==
  LET main == MainAkt(db, a)
  IN [oper |-> operId, kind |-> AktKind(a),
      code |-> FirstOf(<<main.code, a.code,
                         IF main.dt1c # 0 THEN main.num ELSE NoText>>, NoText),
      number |-> FirstOf(<<main.num, a.num>>, NoText),
      date |-> FirstOf(<<main.dt1c, a.dt1c, main.dt, a.dt>>, 0),
      amount |-> sum, source |-> FirstOf(<<main.id, a.id>>, 0),
      contract |-> ContractCode(db, a.dog), aggregate |-> main.id # 0,
      deleted |-> a.status = 9 \/ main.status = 9, akt |-> a.id, via |-> via]

\* An act closes the operation it names and those that its lines name.
ClosingRows(db, operIds) ==
  {ClosingRow(db, a.oper, a, a.sum, 0) :
      a \in {b \in db.akts : b.oper \in operIds \ {0}}}
  \cup
  {ClosingRow(db, p[1].oper, p[2], p[1].sum, p[1].id) :
      p \in {q \in db.aktOpers \X db.akts : /\ q[2].id = q[1].akt
                                            /\ q[1].oper \in operIds
                                            /\ q[2].oper # q[1].oper}}

-----------------------------------------------------------------------------
(* Payments                                                                  *)

PaymentDate(h) == FirstOf(<<h.dt1c, h.ppdt>>, 0)

\* GROUP BY operation and payment: what the payment allocates to it in all.
PaymentRows(db, operIds) ==
  {[oper |-> p[1], code |-> p[2].code, number |-> p[2].num,
    date |-> PaymentDate(p[2]), cur |-> p[2].val, source |-> p[2].id,
    amount |-> SumFunction([a \in {x \in db.allocs : x.hist = p[2].id /\ x.oper = p[1]}
                              |-> a.sum])] :
      p \in {q \in operIds \X db.acchist :
               \E a \in db.allocs : a.hist = q[2].id /\ a.oper = q[1]}}

-----------------------------------------------------------------------------
(* The search of one document in the whole ERP                               *)

PaymentExists(db, code, date) ==
  \E h \in db.acchist : h.code = code /\ h.ppdt = date

InvoiceExists(db, code, date) ==
  \E s \in db.schets : s.code = code /\ s.dt = date /\ s.status # 9

\* Mutant: an act is looked for by the date of the ERP.
ClosingExistsByOwnDate(db, code, date, kind) ==
  \E a \in db.akts : LET main == MainAkt(db, a) IN
    /\ FirstOf(<<a.code, main.code>>, NoText) = code
    /\ FirstOf(<<main.dt, a.dt>>, 0) = date
    /\ a.status # 9
    /\ AktKind(a) = kind

ClosingExists(db, code, date, kind) ==
  \E a \in db.akts : LET main == MainAkt(db, a) IN
    /\ FirstOf(<<a.code, main.code>>, NoText) = code
    /\ FirstOf(<<a.dt1c, main.dt1c, main.dt, a.dt>>, 0) = date
    /\ a.status # 9
    /\ AktKind(a) = kind

-----------------------------------------------------------------------------
(* The totals of all the deliveries of a filter                              *)

InvoiceTotal(db, specId) ==
  SumFunction([s \in {x \in db.schets : x.spec = specId /\ IsCustomerInvoice(x)}
                 |-> s.sum])

PaymentTotal(db, specId) ==
  SumFunction([r \in OperationRows(db, {specId}) |-> r.oper.paid])

\* The contract of an operation: that of the act with the least contract id
\* among those that name it, or the codes of the delivery.
OperationContract(db, r) ==
  LET dogs == {a.dog : a \in {b \in db.akts : b.oper = r.oper.id}}
      own == IF dogs = {} THEN NoText ELSE ContractCode(db, Min(dogs))
  IN FirstOf(<<own, r.spec.committent, r.spec.buyer>>, NoText)

\* An operation of unknown kind is shared out by its contract, and counts
\* nowhere when the delivery has no contract of the buyer.
Expenses(db, specId, reimbursable) ==
  LET counted == {r \in OperationRows(db, {specId}) :
                    \/ r.oper.vozm = IF reimbursable THEN 1 ELSE 2
                    \/ /\ r.oper.vozm \notin {1, 2}
                       /\ r.spec.buyer # NoText
                       /\ (OperationContract(db, r) # r.spec.buyer) = reimbursable}
  IN SumFunction([r \in counted |-> r.oper.realiz])

MatrixTotalSummary(db, f) ==
  LET ids == {s.id : s \in Selected(db, f)}
      balance(id) == PaymentTotal(db, id) - Expenses(db, id, TRUE)
                                          - Expenses(db, id, FALSE)
  IN [deliveries |-> Cardinality(ids),
      invoices |-> SumFunction([id \in ids |-> InvoiceTotal(db, id)]),
      payments |-> SumFunction([id \in ids |-> PaymentTotal(db, id)]),
      reimbursable |-> SumFunction([id \in ids |-> Expenses(db, id, TRUE)]),
      other |-> SumFunction([id \in ids |-> Expenses(db, id, FALSE)]),
      balance |-> SumFunction([id \in ids |-> balance(id)]),
      debts |-> Cardinality({id \in ids : balance(id) < 0}),
      overpayments |-> Cardinality({id \in ids : balance(id) > 0})]
=============================================================================
