------------------------ MODULE DocumentPreparation ------------------------
(* The preparation of both sides before they are matched, in the order in    *)
(* which ReconcileDelivery.execute and match_documents perform it.           *)
EXTENDS DocumentGrouping

CONSTANT Readings  \* what may be read: pairs of ERP rows and 1C documents

ASSUME ReadingsAssumption == Readings \subseteq Seq(Document) \X Seq(Document)

VARIABLES
  erp,   \* the ERP rows
  onec,  \* the 1C documents
  phase  \* the part of the program that comes next

preparationVars == <<erp, onec, phase>>

InitPreparation ==
  /\ \E reading \in Readings : erp = reading[1] /\ onec = reading[2]
  /\ phase = "aggregate_erp"

AggregateErp ==
  /\ phase = "aggregate_erp"
  /\ erp' = AggregateDocuments(erp)
  /\ phase' = "aggregate_1c"
  /\ UNCHANGED onec

AggregateOneC ==
  /\ phase = "aggregate_1c"
  /\ onec' = AggregateDocuments(onec)
  /\ phase' = "coalesce"
  /\ UNCHANGED erp

Coalesce ==
  /\ phase = "coalesce"
  /\ erp' = CoalesceRows(erp, onec)
  /\ phase' = "match"
  /\ UNCHANGED onec

Prepare == AggregateErp \/ AggregateOneC \/ Coalesce

-----------------------------------------------------------------------------
KindTotal(s, kind, currency) ==
  SumFunction([k \in {n \in DOMAIN s : s[n].kind = kind /\ s[n].amount.currency = currency}
                 |-> s[k].amount.value])

AllLines(s) == FlattenSeq([k \in DOMAIN s |-> s[k].lines])

\* No step of the preparation loses or doubles money: the rows of every kind
\* and currency keep their total, and every line stays under
\* some document, although rows disappear into others (aggregate_documents,
\* _combine_documents).
MoneyConserved ==
  [][\A kind \in Kinds, currency \in {d.amount.currency : d \in Range(erp \o onec)} :
       /\ KindTotal(erp', kind, currency) = KindTotal(erp, kind, currency)
       /\ KindTotal(onec', kind, currency) = KindTotal(onec, kind, currency)
       /\ \A amount \in {l.amount : l \in Range(AllLines(erp \o onec))} :
            /\ HowMany(AllLines(erp'), amount) = HowMany(AllLines(erp), amount)
            /\ HowMany(AllLines(onec'), amount) = HowMany(AllLines(onec), amount)]_<<erp, onec>>

\* One physical payment, however many operations and contracts ERP spread it
\* over, is one document on either side when matching starts (comment of
\* _aggregation_key, README.md:132).
OnePaymentOneDocument ==
  phase = "match" =>
    \A s \in {erp, onec} : \A i, j \in DOMAIN s :
      /\ s[i].kind = "payment" /\ s[j].kind = "payment"
      /\ DocumentId(s[i]) # "" /\ DocumentId(s[i]) = DocumentId(s[j])
      /\ s[i].source_id = s[j].source_id /\ s[i].date = s[j].date
      /\ s[i].amount.currency = s[j].amount.currency
      => i = j
=============================================================================
