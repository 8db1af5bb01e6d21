-------------------------- MODULE DocumentGrouping --------------------------
(* The two steps that turn what was read into what is matched: rows of one   *)
(* document are aggregated on either side, and ERP rows are combined when 1C *)
(* stores their total as one header.                                         *)
EXTENDS Documents, FiniteSets, FiniteSetsExt, SequencesExt

\* The k-th of the places in S, and the members of s at them, in their order.
Nth(S, k) == CHOOSE i \in S : Cardinality({j \in S : j < i}) = k - 1
Members(s, S) == [k \in 1..Cardinality(S) |-> s[Nth(S, k)]]

\* Mutant: equal amounts are taken for one amount.
TotalOfDistinct(s) == SumSet({s[k].amount.value : k \in DOMAIN s})

Total(s) == SumFunction([k \in DOMAIN s |-> s[k].amount.value])

All(s, Same(_)) == \A k \in DOMAIN s : Same(s[k]) = Same(s[1])

-----------------------------------------------------------------------------
(* aggregate_documents                                                       *)

NoKey == << >>

DocumentId(d) == IF d.code # "" THEN d.code ELSE d.number

\* Mutant: payments are kept apart by contract, like the other kinds.
AggregationKeyByContract(d) ==
  IF DocumentId(d) = ""
  THEN NoKey
  ELSE <<d.kind, DocumentId(d), d.source_id, d.contract, d.amount.currency, d.date>>

AggregationKey(d) ==
  LET common == <<d.kind, DocumentId(d), d.source_id, d.contract, d.amount.currency>>
  IN  CASE DocumentId(d) = "" -> NoKey
        [] DocumentId(d) # "" /\ d.kind = "payment" ->
             <<d.kind, DocumentId(d), d.source_id, d.amount.currency, d.date>>
        [] DocumentId(d) # "" /\ d.kind \in {"sale", "purchase"} ->
             common \o <<d.date, d.vat, d.operation, d.parent>>
        [] DocumentId(d) # "" /\ d.kind = "customer_invoice" ->
             common \o <<d.date, d.number>>
        [] DocumentId(d) # "" /\ d.kind \in {"closing_document", "account_movement"} ->
             common \o <<d.date, d.vat>>

\* One document for the rows of s.  Its source_id is that of the first row: the
\* code joins those of all rows, but later steps ask only whether it is empty.
Merged(s, contract, vat) ==
  [s[1] EXCEPT !.amount.value = Total(s),
               !.contract = contract, !.vat = vat, !.operation = 0,
               !.related = \E k \in DOMAIN s : s[k].related,
               !.lines = FlattenSeq([k \in DOMAIN s |-> s[k].lines]),
               !.allocations = FlattenSeq([k \in DOMAIN s |-> s[k].allocations])]

Aggregated(s) ==
  IF Len(s) = 1
  THEN s[1]
  ELSE Merged(s, IF All(s, LAMBDA d : d.contract) THEN s[1].contract ELSE "",
                 IF All(s, LAMBDA d : d.vat) THEN s[1].vat ELSE "")

\* Places of s with the key of place i.
Group(s, Key(_), i) == {j \in DOMAIN s : Key(s[j]) = Key(s[i])}

AggregateDocuments(s) ==
  LET plain   == {i \in DOMAIN s : AggregationKey(s[i]) = NoKey}
      leaders == {i \in DOMAIN s \ plain : i = Min(Group(s, AggregationKey, i))}
  IN  Members(s, plain) \o
      [k \in 1..Cardinality(leaders) |->
         Aggregated(Members(s, Group(s, AggregationKey, Nth(leaders, k))))]

-----------------------------------------------------------------------------
(* _coalesce_erp_rows_for_onec_headers                                       *)

HeaderTotalKey(d) ==
  IF d.kind \in {"sale", "purchase"} /\ d.code # "" /\ d.date # 0
  THEN <<d.kind, d.code, d.date, d.contract, d.amount.currency>>
  ELSE NoKey

HowMany(s, amount) == Cardinality({k \in DOMAIN s : s[k].amount = amount})

DetailAmountsCoverRows(s, d) ==
  \A k \in DOMAIN s : HowMany(s, s[k].amount) <=
                      HowMany(d.lines, s[k].amount) + HowMany(d.allocations, s[k].amount)

CombineDocuments(s) == Merged(s, s[1].contract, s[1].vat)

\* The rows with the header key of place i become one row.
Coalesces(rows, docs, i) ==
  LET group   == Members(rows, Group(rows, HeaderTotalKey, i))
      headers == {j \in DOMAIN docs : HeaderTotalKey(docs[j]) = HeaderTotalKey(rows[i])}
  IN  /\ HeaderTotalKey(rows[i]) # NoKey
      /\ Len(group) >= 2
      /\ \E j \in headers : /\ headers = {j}
                            /\ Total(group) = docs[j].amount.value
                            /\ ~DetailAmountsCoverRows(group, docs[j])

CoalesceRows(rows, docs) ==
  LET kept == {i \in DOMAIN rows : \/ ~Coalesces(rows, docs, i)
                                   \/ i = Min(Group(rows, HeaderTotalKey, i))}
  IN  [k \in 1..Cardinality(kept) |->
         LET i == Nth(kept, k) IN
         IF Coalesces(rows, docs, i)
         THEN CombineDocuments(Members(rows, Group(rows, HeaderTotalKey, i)))
         ELSE rows[i]]
=============================================================================
