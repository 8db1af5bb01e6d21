--------------------------- MODULE Reconciliation ---------------------------
(* One run of ReconcileDelivery.execute from what was read to what the user  *)
(* is shown: the preparation, the matching and the classification of the     *)
(* documents, the comparison of the balances, and the workbook with the      *)
(* result (reconciliation_run_xlsx).                                         *)
EXTENDS DocumentMatching

CONSTANT Settlements  \* what may be read of the balances: codes, the codes of the
                      \* delivery's contracts; erp, its balance in the ERP, in
                      \* roubles; onec, the closing balances of contracts in 1C

VARIABLES
  settlement,  \* what was read of the balances
  comparison,  \* the BalanceComparison, or NotChecked
  book         \* the workbook

vars == <<preparationVars, matchingVars, settlement, comparison, book>>

NotChecked == [status |-> "not_checked"]
Unread == [unread |-> TRUE]
Unwritten == [result |-> "none"]

Init ==
  /\ InitPreparation /\ InitMatching
  /\ settlement = Unread /\ comparison = NotChecked /\ book = Unwritten

-----------------------------------------------------------------------------
(* compare_balances                                                          *)

RelevantBalances(s) ==
  {i \in DOMAIN s.onec : s.codes # {} => s.onec[i].contract \in s.codes}

\* The ERP's balance is in roubles; other currencies are passed over.
DirectBalance(s) ==
  SumFunction([i \in {j \in RelevantBalances(s) : s.onec[j].currency = "RUB"}
                 |-> s.onec[i].closing])

\* Mutant: the contract of the part is not looked at.
AdjustsOnAnyContract(issue, codes) ==
  /\ issue.erp # 0 /\ issue.onec # 0 /\ erp[issue.erp].operation # 0
  /\ issue.status \in {"match", "contract_mismatch", "date_mismatch",
                       "number_mismatch", "vat_mismatch"}
  /\ issue.basis \in {"document_line", "payment_allocation"}
  /\ issue.amount.currency = "RUB"

\* A part of a document of another contract that was found to be an operation
\* of the delivery.
Adjusts(issue, codes) ==
  /\ issue.erp # 0 /\ issue.onec # 0 /\ erp[issue.erp].operation # 0
  /\ issue.status \in {"match", "contract_mismatch", "date_mismatch",
                       "number_mismatch", "vat_mismatch"}
  /\ issue.basis \in {"document_line", "payment_allocation"}
  /\ issue.contract \notin codes /\ issue.amount.currency = "RUB"

AdjustingIssues(codes, kind) ==
  {k \in DOMAIN issues : Adjusts(issues[k], codes) /\ erp[issues[k].erp].kind = kind}

ShownMoney(S) == SumFunction([k \in S |-> issues[k].amount.value])

AllocatedExternalAdjustment(codes) ==
  ShownMoney(AdjustingIssues(codes, "payment")) - ShownMoney(AdjustingIssues(codes, "sale"))

Comparable == \A k \in DOMAIN issues : issues[k].status # "missing_erp_closing_document"

Comparison(s) ==
  LET sum == DirectBalance(s) + AllocatedExternalAdjustment(s.codes)
  IN IF RelevantBalances(s) = {} THEN NotChecked
     ELSE [erp |-> s.erp, onec |-> sum, comparable |-> Comparable,
           status |-> CASE ~Comparable -> "not_comparable"
                        [] Comparable /\ s.erp = sum -> "match"
                        [] Comparable /\ s.erp # sum -> "amount_mismatch"]

\* (The balances were read with the documents; only now are they looked at.)
CompareBalances ==
  /\ phase = "balance"
  /\ \E s \in Settlements : settlement' = s /\ comparison' = Comparison(s)
  /\ phase' = "report"
  /\ UNCHANGED <<erp, onec, matchingVars, book>>

-----------------------------------------------------------------------------
(* What is said of the run                                                   *)

Matched(k) == issues[k].status = "match"

\* ReconciliationRun.matched and .balance_status, sent with the run
RunMatched ==
  (\A k \in DOMAIN issues : Matched(k)) /\ comparison.status \in {"match", "not_checked"}

\* _run_summary_text says of the balances: a comparison that was not made has
\* neither a status nor a difference.
BalanceText ==
  CASE comparison.status = "not_comparable" -> "cannot be compared"
    [] comparison.status = "match" -> "agree"
    [] OTHER -> "differ"

\* Mutant: the balances are only told of.
ResultOfDocuments(problems) ==
  IF problems # <<>> THEN "to be examined" ELSE "passed"

\* _run_result_label
RunResultLabel(problems) ==
  IF problems # <<>> \/ comparison.status \notin {"match", "not_checked"}
  THEN "to be examined" ELSE "passed"

\* The rows of a sheet: the places in S of issues, in the order of the issues.
Sheet(S) == [n \in 1..Cardinality(S) |-> Nth(S, n)]

\* The four sheets: the summary, what is to be examined, what matched, and
\* everything.
WriteWorkbook ==
  /\ phase = "report"
  /\ LET problems == Sheet({k \in DOMAIN issues : ~Matched(k)})
     IN book' = [result |-> RunResultLabel(problems), balance |-> BalanceText,
                 review |-> problems,
                 matched |-> Sheet({k \in DOMAIN issues : Matched(k)}),
                 technical |-> Sheet(DOMAIN issues)]
  /\ phase' = "done"
  /\ UNCHANGED <<erp, onec, matchingVars, settlement, comparison>>

Next ==
  \/ (Prepare /\ UNCHANGED <<matchingVars, settlement, comparison, book>>)
  \/ (Match /\ UNCHANGED <<settlement, comparison, book>>)
  \/ CompareBalances
  \/ WriteWorkbook

Spec == Init /\ [][Next]_vars

-----------------------------------------------------------------------------
(* Properties                                                                *)

\* The contracts whose balances are added up.
AddedContracts(s) == {s.onec[j].contract : j \in RelevantBalances(s)}

\* What 1C stores inside document i under contracts that are not the delivery's;
\* if its contracts have codes, none of these was added up either.
ExternalParts(i, s) ==
  {x \in Details(onec[i]) :
     LET contract == IF x.contract = "" THEN onec[i].contract ELSE x.contract
     IN  /\ contract \notin s.codes
         /\ s.codes # {} => contract \notin AddedContracts(s)}

LinesIdentified(d) == \A k \in DOMAIN d.lines : d.lines[k].id # ""

\* Every amount by which the balance is adjusted is that of a part of a 1C
\* document, a part of its own, whatever rows share the document; and for a
\* delivery whose contracts have codes in 1C it is one under a contract whose
\* balance was not added up already, so that no rouble enters the comparison
\* twice (_allocated_external_adjustment over the issues of match_documents).
\* Lines without an identifier are not marked as used by match_documents.  For a
\* delivery without codes the code adds up every balance, and a part that was
\* matched adjusts the sum whether its contract was added up or not.
AdjustmentCountedOnce ==
  phase = "report" =>
    \A i \in {j \in DOMAIN onec : LinesIdentified(onec[j])} :
      \E part \in Injection({k \in DOMAIN issues : issues[k].onec = i
                                /\ Adjusts(issues[k], settlement.codes)},
                            ExternalParts(i, settlement)) :
        \A k \in DOMAIN part : part[k].amount = issues[k].amount

\* Every row of the kind was compared with a document as a whole.
ComparedWhole(kind) ==
  \A k \in Places \cap DOMAIN issues :
    erp[k].kind = kind => issues[k].basis \in WholeBases

\* The workbook says that the check was passed exactly for a run that the
\* service calls matched. Then every document of 1C was compared with a row,
\* balances that were compared agree, and where rows were not compared with
\* parts of documents both sides hold the same money, currency by currency: no
\* two rows have passed on one document (_run_result_label against
\* ReconciliationRun.matched, match_documents).
PassedAddsUp ==
  phase = "done" =>
    /\ (book.result = "passed") = RunMatched
    /\ book.result = "passed" =>
         /\ DOMAIN onec = {issues[k].onec : k \in DOMAIN issues}
         /\ RelevantBalances(settlement) # {} =>
              settlement.erp = DirectBalance(settlement)
                                 + AllocatedExternalAdjustment(settlement.codes)
         /\ \A d \in Range(erp \o onec) :
              ComparedWhole(d.kind) =>
                KindTotal(erp, d.kind, d.amount.currency)
                  = KindTotal(onec, d.kind, d.amount.currency)
=============================================================================
