------------------------ MODULE PrototypeComparison ------------------------
\* How the prototype server compares a delivery of the ERP with the sources of
\* 1C (compare_onec_docs_with_erp_snapshot): the rows of the ERP are gathered
\* into items, every item looks for its document by code and date, acts also
\* for lines of documents and movements of accounts, and what no item found is
\* listed after them.
EXTENDS PrototypeSources

-----------------------------------------------------------------------------
(* The items of the ERP                                                      *)

\* act_group_key: the rows that one document of 1C stands for. An act that is
\* not reimbursed ("other") is grouped even without a code.
GroupKey(a) ==
  LET code == IF a.main.code # {} THEN a.main.code ELSE a.code
      date == IF a.main.date # 0 THEN a.main.date ELSE a.date
      key(by, c, id, d) == [by |-> by, code |-> c, id |-> id, date |-> d]
  IN CASE a.other -> key("upd", code, IF code = {} THEN a.main.id ELSE 0, date)
       [] ~ a.other /\ code # {} /\ date # 0 -> key("code", code, 0, date)
       [] ~ a.other /\ (code = {} \/ date = 0) /\ a.doc # 0 -> key("doc", {}, a.doc, 0)
       [] OTHER -> key("row", {}, a.oper, date)

\* The sum of a group is that of its main documents; without any, every detail
\* counts once, and every document once that has no details.
AddRow(t, a) ==
  LET fresh == a.doc = 0 \/ a.doc \notin t.docs
      detailed == a.detail # 0
      plus == CASE detailed /\ a.detail \in t.details -> 0
                [] detailed /\ a.detail \notin t.details /\ a.detailSum # 0 -> a.detailSum
                [] detailed /\ a.detail \notin t.details /\ a.detailSum = 0 ->
                     IF a.doc # 0 /\ fresh THEN a.sum ELSE 0
                [] ~ detailed -> IF fresh THEN a.sum ELSE 0
  IN [sum |-> t.sum + plus,
      docs |-> t.docs \cup ({a.doc} \ {0}), details |-> t.details \cup ({a.detail} \ {0})]

ActItem(rows) ==
  LET first == rows[1]
      added == FoldLeft(AddRow, [sum |-> 0, docs |-> {}, details |-> {}], rows)
      mains == {m \in {r.main : r \in Elements(rows)} : m.id # 0 /\ m.sum # NoSum}
  IN [kind |-> "act",
      code |-> IF first.main.code # {} THEN first.main.code ELSE first.code,
      date |-> IF first.main.date # 0 THEN first.main.date ELSE first.date,
      sum |-> IF mains # {} THEN MapThenSumSet(LAMBDA m : m.sum, mains) ELSE added.sum,
      full |-> NoSum, invoice |-> first.invoice, other |-> first.other,
      dogs |-> {r.dog : r \in Elements(rows)} \ {""}]

\* A sequence by the keys of its members: the members of a key in their order,
\* the keys in that of their first members.
Classes(keys, seq) ==
  LET order == Ascending({i \in DOMAIN seq : \A j \in 1..(i - 1) : keys[j] # keys[i]})
  IN [k \in DOMAIN order |-> At(seq, {i \in DOMAIN seq : keys[i] = keys[order[k]]})]

Item(kind, row, sum) ==
  [kind |-> kind, code |-> row.code, date |-> row.date, sum |-> sum, full |-> NoSum,
   invoice |-> row.invoice, other |-> FALSE, dogs |-> {row.dog} \ {""}]

\* aggregate_act_compare_items, without the acts that have no code beside an
\* act of their date that has one.
ActItems(acts) ==
  LET groups == Classes([i \in DOMAIN acts |-> GroupKey(acts[i])], acts)
      items == [k \in DOMAIN groups |-> ActItem(groups[k])]
      codedDates == {i.date : i \in {x \in Elements(items) : x.code # {} /\ x.other}}
      doubled(i) == i.code = {} /\ i.other /\ i.date \in codedDates
  IN At(items, {k \in DOMAIN items : ~ doubled(items[k])})

\* The parts of one incoming payment that are classified for the delivery.
PaymentItem(parts) ==
  LET first == parts[1]
      given(p) == IF p.classified = NoSum THEN 0 ELSE p.classified
      sum == (IF first.classified = NoSum THEN first.full ELSE 0)
               + FoldLeft(LAMBDA t, p : t + given(p), 0, parts)
  IN [Item("payment", first, sum) EXCEPT !.full = first.full]

PaymentItems(payments) ==
  LET incoming == At(payments, {k \in DOMAIN payments : payments[k].incoming})
      groups == Classes([i \in DOMAIN incoming |-> incoming[i].id], incoming)
  IN [k \in DOMAIN groups |-> PaymentItem(groups[k])]

InvoiceItems(invoices) ==
  LET sent == At(invoices, {k \in DOMAIN invoices :
                              invoices[k].code # {} \/ invoices[k].invoice = {}})
  IN [k \in DOMAIN sent |-> Item("invoice", sent[k], sent[k].sum)]

Items(snap) ==
  InvoiceItems(snap.invoices) \o PaymentItems(snap.payments) \o ActItems(snap.acts)

HasPrimaryKey(item) == item.code # {} /\ item.date # 0

-----------------------------------------------------------------------------
(* Documents                                                                 *)

SameKey(item, doc) ==
  /\ doc.kind \in OneCKinds(item.kind)
  /\ item.code \cap doc.code # {}
  /\ item.date # 0 /\ doc.date = item.date

\* money_equal: a sum that is missing equals none.
MoneyEqual(a, b) == a # NoSum /\ b # NoSum /\ a = b

AmountAgrees(item, doc) ==
  MoneyEqual(item.sum, doc.sum) \/ (item.kind = "payment" /\ MoneyEqual(item.full, doc.sum))

InvoicesMeet(item, doc) == item.invoice \cap doc.invoice # {}
ContractsOf(doc) == {{doc.base}, {doc.contract}} \ {{""}}
ContractsMeet(item, doc) == item.dogs \in ContractsOf(doc)

\* score_onec_candidate, for documents of the same key; others are out.
Score(item, doc) ==
  180 + 15 + (IF item.kind # "invoice" /\ InvoicesMeet(item, doc) THEN 70 ELSE 0)
    + (IF ContractsMeet(item, doc) THEN 35 ELSE 0)
    + (IF AmountAgrees(item, doc) THEN 25 ELSE 0)

Mismatch(item, doc) ==
  {f \in {"sum", "contract", "invoice"} :
     CASE f = "sum" -> ~ AmountAgrees(item, doc) /\ NoSum \notin {item.sum, doc.sum}
       [] f = "contract" -> /\ item.dogs # {} /\ ContractsOf(doc) # {}
                            /\ ~ ContractsMeet(item, doc)
       [] f = "invoice" -> /\ item.kind # "invoice" /\ item.invoice # {} /\ doc.invoice # {}
                           /\ ~ InvoicesMeet(item, doc)}

\* Mutant: a document of another sum is no candidate.
BestOfSum(item, docs, used) ==
  LET c == {i \in DOMAIN docs \ used : SameKey(item, docs[i]) /\ AmountAgrees(item, docs[i])}
  IN IF c = {} THEN 0 ELSE Min(c)

\* The document with the best score, the first of equals, or 0.
Best(item, docs, used) ==
  LET c == {i \in DOMAIN docs \ used : SameKey(item, docs[i])}
      top == {i \in c : \A j \in c : Score(item, docs[j]) <= Score(item, docs[i])}
  IN IF c = {} THEN 0 ELSE Min(top)

\* Mutant: whatever is dated otherwise is related as well.
RelatedOfAnyDate(item, docs) ==
  {i \in DOMAIN docs : /\ item.kind # "invoice" /\ docs[i].kind \in OneCKinds(item.kind)
                       /\ item.code \cap (docs[i].code \cup docs[i].number) # {}}

\* mark_related_onec_docs_used: the documents that an item stands for when it
\* was found by lines or movements.
Related(item, docs) ==
  {i \in DOMAIN docs : /\ item.kind # "invoice" /\ docs[i].kind \in OneCKinds(item.kind)
                       /\ docs[i].date \in {0, item.date}
                       /\ item.code \cap (docs[i].code \cup docs[i].number) # {}}

-----------------------------------------------------------------------------
(* Lines of documents and movements of accounts                              *)

NotApart(a, b) == a = 0 \/ b = 0 \/ a = b
Differ(a, b) == a # "" /\ b # "" /\ a # b
Given(sum) == IF sum = NoSum THEN 0 ELSE sum

LineOfAct(item, line) ==
  item.kind = "act" /\ NotApart(item.date, line.date) /\ item.code \cap line.code # {}

\* Of the lines that name no delivery the first of the right sum, or else all.
LooseLines(item, lines, loose) ==
  LET exact == {i \in loose : lines[i].sum = item.sum}
  IN IF exact = {} THEN loose ELSE {Min(exact)}

Taken(refs, sum, mismatch) == [refs |-> refs, sum |-> sum, mismatch |-> mismatch]

IfDiffers(sum, item) == IF sum = item.sum THEN {} ELSE {"sum"}

\* find_document_line_match: the unused lines of the act that name the delivery,
\* or else those that name none.
LineMatch(item, lines, used, delivery) ==
  LET mine == {i \in DOMAIN lines \ used : LineOfAct(item, lines[i])}
      named(i) == lines[i].spec # "" \/ lines[i].base # ""
      strict == {i \in mine : /\ named(i)
                              /\ ~ Differ(delivery.spec, lines[i].spec)
                              /\ ~ Differ(delivery.base, lines[i].base)}
      total(taken) == MapThenSumSet(LAMBDA i : Given(lines[i].sum), taken)
      match(taken, aside) == Taken(taken, total(taken), IfDiffers(total(taken), item) \cup aside)
  IN IF strict # {} THEN match(strict, {})
     ELSE match(LooseLines(item, lines, {i \in mine : ~ named(i)}), {"contract"})

\* Mutant: the lines of an act stay in the search.
MarkedNone(item, taken, lines) == {}

\* mark_document_lines_used goes by the numbers of the rows, in whatever file,
\* and takes a line without a code for one of any document.
Marked(item, taken, lines) ==
  LET first == lines[Min(taken)]
      date == IF first.date # 0 THEN first.date ELSE item.date
      code == IF first.code # {} THEN first.code ELSE item.code
  IN {i \in DOMAIN lines : /\ lines[i].row \in {lines[k].row : k \in taken}
                           /\ NotApart(date, lines[i].date)
                           /\ code = {} \/ lines[i].code = {} \/ lines[i].code \cap code # {}}

OfDelivery(side, delivery) ==
  /\ delivery.spec # ""
  /\ \/ side.spec = delivery.spec /\ delivery.base \in {"", side.base}
     \/ delivery.own # "" /\ delivery.own \in side.text

OtherSide(s) == IF s = "debit" THEN "credit" ELSE "debit"

Usable(item, m, s, delivery) ==
  item.kind = "act" =>
    /\ ~ OfDelivery(m[OtherSide(s)], delivery)
    /\ m.debit.account # "" /\ m.credit.account # "" => m.debit.account # m.credit.account

MovementsOn(s, item, movements, delivery) ==
  {i \in DOMAIN movements : LET m == movements[i] IN
     /\ item.code \cap m.code # {} /\ NotApart(item.date, m.date)
     /\ OfDelivery(m[s], delivery) /\ Usable(item, m, s, delivery)
     /\ m[s].amount # 0}

Distance(a, b) == IF a < b THEN b - a ELSE a - b

\* The debit if its total is the sum, or else the credit if its total is, or
\* else what comes nearest. (For a sum of zero an empty side will do, and
\* nothing is found.)
NearestSide(item, debit, credit) ==
  LET off(side) == Distance(side.sum, item.sum)
      nearer == debit.refs # {} /\ off(debit) <= off(credit)
  IN IF off(debit) = 0 \/ (off(credit) # 0 /\ (nearer \/ credit.refs = {}))
     THEN debit ELSE credit

SideMatch(item, s, movements, on) ==
  LET total == MapThenSumSet(LAMBDA i : movements[i][s].amount, on)
  IN Taken(on, total, IfDiffers(total, item))

\* find_account_movement_document_match
MovementMatch(item, movements, delivery) ==
  LET side(s) == SideMatch(item, s, movements,
                           IF item.kind = "invoice" THEN {}
                           ELSE MovementsOn(s, item, movements, delivery))
  IN NearestSide(item, side("debit"), side("credit"))

-----------------------------------------------------------------------------
(* The report                                                                *)

Row(status, item, by, refs, sum, mismatch) ==
  [status |-> status, item |-> item, by |-> by, refs |-> refs, sum |-> sum,
   mismatch |-> mismatch]

Judged(item, by, found) ==
  Row(IF found.mismatch = {} THEN "match" ELSE "fields_mismatch", item, by,
      found.refs, found.sum, found.mismatch)

Unfound(status, item) == Row(status, item, "nothing", {}, 0, {})

IsPartial(item) == item.kind = "payment" /\ item.full # NoSum /\ item.full # item.sum

AddsUp(found) == found.refs # {} /\ "sum" \notin found.mismatch

Result(row, docs, lines) == [row |-> row, docs |-> docs, lines |-> lines]

\* When the lines or the movements make up the sum, the documents they stand
\* for are used, and the lines too.
ByLines(item, line, related, marked, docs) ==
  Result(Judged(item, "lines", line),
         IF AddsUp(line) THEN docs \cup related ELSE {}, IF AddsUp(line) THEN marked ELSE {})

ByMovements(item, move, related, docs) ==
  Result(Judged(item, "movements", move), IF AddsUp(move) THEN docs \cup related ELSE {}, {})

DocumentMatch(item, best, docs) ==
  Taken({best}, docs[best].sum, Mismatch(item, docs[best]))

\* What becomes of one item when best is its document (0 for none), line and
\* move are what lines and movements say of it: the row of the report, and what
\* it takes out of the search.
Decided(item, best, docs, line, move, related, marked) ==
  LET disputed == best # 0 /\ item.kind = "act" /\ "sum" \in Mismatch(item, docs[best])
      ofLines == \/ best = 0 /\ line.refs # {}
                 \/ disputed /\ AddsUp(line)
      ofMovements == \/ IsPartial(item) /\ AddsUp(move)
                     \/ ~ ofLines /\ best = 0 /\ move.refs # {}
                     \/ ~ ofLines /\ disputed /\ AddsUp(move)
      alone == IF best = 0 \/ IsPartial(item) THEN {} ELSE {best}
      unfound(status) == Result(Unfound(status, item), {}, {})
  IN IF ~ HasPrimaryKey(item) THEN unfound("not_comparable")
     ELSE IF ofMovements THEN ByMovements(item, move, related, alone)
     ELSE IF ofLines THEN ByLines(item, line, related, marked, alone)
     ELSE IF best = 0 THEN unfound("not_found_in_1c")
     ELSE Result(Judged(item, "document", DocumentMatch(item, best, docs)), {best}, {})

Outcome(item, src, used, usedLines, delivery) ==
  LET line == LineMatch(item, src.lines, usedLines, delivery)
  IN Decided(item, Best(item, src.docs, used), src.docs, line,
             MovementMatch(item, src.movements, delivery),
             Related(item, src.docs), Marked(item, line.refs, src.lines))

Advanced(t, r) ==
  [used |-> t.used \cup r.docs, usedLines |-> t.usedLines \cup r.lines,
   rows |-> Append(t.rows, r.row)]

\* The documents that are left follow what became of the items.
Report(snap, src, done) ==
  LET rest == Ascending({i \in DOMAIN src.docs \ done.used : src.docs[i].kind # "contract"})
      alone(i) == Row("not_found_in_erp", [kind |-> "none"], "document", {i},
                      src.docs[i].sum, {})
  IN [snap |-> snap, src |-> src, rows |-> done.rows \o [k \in DOMAIN rest |-> alone(rest[k])]]

\* The first k items are decided one after another.
NoneDone == [used |-> {}, usedLines |-> {}, rows |-> <<>>]

Compared(snap, src) ==
  LET items == Items(snap)
      next(t, item) == Advanced(t, Outcome(item, src, t.used, t.usedLines, snap.delivery))
      done[k \in 0..Len(items)] ==
        IF k = 0 THEN NoneDone ELSE next(done[k - 1], items[k])
  IN Report(snap, src, done[Len(items)])
=============================================================================
