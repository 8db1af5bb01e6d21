-------------------------- MODULE DocumentMatching --------------------------
(* match_documents and the classification that follows it: the ERP rows of a *)
(* delivery are taken one by one, in order, and each consumes 1C documents   *)
(* or lines of 1C documents; what no row consumed is reported from the 1C    *)
(* side.  The outcome depends on the order of the rows, because each search  *)
(* sees only what the earlier rows left.                                     *)
EXTENDS DocumentPreparation

VARIABLES
  pos,      \* the position of the loop that the phase names
  matched,  \* matched_onec_indexes
  used,     \* used_detail_resources
  issues    \* the issues in report order

matchingVars == <<pos, matched, used, issues>>

\* An issue has a status, the places erp and onec of the documents in their
\* sequences, 0 for None, a confidence, the basis and the detail of the match,
\* and the amount and the contract of the part of 1C that it shows.

-----------------------------------------------------------------------------
(* An ERP row that stands for a missing document has nothing to look up.     *)

StandsForMissingDocument(e) ==
  /\ e.operation # 0
  /\ e.source_id = "" /\ e.code = "" /\ e.number = ""
  /\ e.amount.value # 0

PreconditionStatus(e) ==
  CASE ~StandsForMissingDocument(e)  -> ""
    [] StandsForMissingDocument(e) /\ e.kind = "customer_invoice" /\ e.related
                                     -> "erp_invoice_link_missing"
    [] StandsForMissingDocument(e) /\ e.kind = "customer_invoice" /\ ~e.related
                                     -> "missing_erp_invoice"
    [] StandsForMissingDocument(e) /\ e.kind = "sale"
                                     -> "missing_erp_closing_document"
    [] OTHER                         -> ""

-----------------------------------------------------------------------------
(* The search for the header of a 1C document.                               *)

\* Mutant: the code alone is not tried.
SearchKeysDated == <<"code_date", "strong">>

SearchKeys == <<"code_date", "strong", "code_only">>

\* Documents e and d carry the same pairing key of the named sort.
SameKey(sort, e, d) ==
  /\ e.kind = d.kind
  /\ CASE sort = "code_date" -> /\ e.code # "" /\ e.code = d.code
                                /\ e.date # 0 /\ e.date = d.date
       [] sort = "strong"    -> /\ e.number # "" /\ e.number = d.number
                                /\ e.date # 0 /\ e.date = d.date
                                /\ e.amount = d.amount
       [] sort = "code_only" -> /\ e.code # "" /\ e.code = d.code
                                /\ e.amount = d.amount

\* Mutant: a document that an earlier row took is offered again.
FreeOrTaken(sort, e) == {i \in DOMAIN onec : SameKey(sort, e, onec[i])}

Free(sort, e) == {i \in DOMAIN onec \ matched : SameKey(sort, e, onec[i])}

\* The sorts of key under which a free document is found; the first decides.
Hits(e) == {k \in DOMAIN SearchKeys : Free(SearchKeys[k], e) # {}}
HitKey(e) == SearchKeys[CHOOSE k \in Hits(e) : \A j \in Hits(e) : k <= j]

SameContract(e, S) ==
  {i \in S : e.contract # "" /\ onec[i].contract = e.contract}

Candidates(e) ==
  IF Hits(e) = {}
  THEN {}
  ELSE LET found == Free(HitKey(e), e)
           close == SameContract(e, found)
       IN  IF Cardinality(found) > 1 /\ close # {} THEN close ELSE found

Confidence(e) ==
  LET found == Free(HitKey(e), e)
  IN  CASE Cardinality(found) <= 1 -> HitKey(e)
        [] Cardinality(found) > 1 /\ SameContract(e, found) # {}
                                   -> IF HitKey(e) = "code_date" THEN "exact" ELSE "strong"
        [] Cardinality(found) > 1 /\ SameContract(e, found) = {}
                                   -> "ambiguous"

-----------------------------------------------------------------------------
(* The part of a 1C document that a row is compared with.                    *)

DetailMatch(d, basis, id, ambiguous) ==
  [document |-> d, basis |-> basis, id |-> id, ambiguous |-> ambiguous]

\* What 1C stores under a header: its allocations and its lines.
Details(d) ==
  {[slot |-> <<"allocation", k>>, amount |-> d.allocations[k].amount,
    contract |-> d.allocations[k].contract, id |-> d.allocations[k].line,
    basis |-> IF d.kind = "payment" THEN "payment_allocation"
                                    ELSE "document_allocation"]
      : k \in DOMAIN d.allocations}
  \cup
  {[slot |-> <<"line", k>>, amount |-> d.lines[k].amount,
    contract |-> d.lines[k].contract, id |-> d.lines[k].id,
    basis |-> "document_line"]
      : k \in DOMAIN d.lines}

DetailVatRate(d, id) ==
  LET named == {k \in DOMAIN d.lines : d.lines[k].id = id}
  IN  IF named # {} /\ d.lines[Min(named)].vat # ""
      THEN d.lines[Min(named)].vat
      ELSE d.vat

Projected(d, x) ==
  [d EXCEPT !.amount = x.amount,
            !.contract = IF x.contract # "" THEN x.contract ELSE d.contract,
            !.vat = DetailVatRate(d, x.id)]

AllocatedTo(d, contract) ==
  \E k \in DOMAIN d.allocations : d.allocations[k].contract = contract

\* The code lists the allocations before the lines.
FirstBasis(S) ==
  LET listed == {x \in S : x.slot[1] = "allocation"}
  IN  (CHOOSE x \in IF listed # {} THEN listed ELSE S : TRUE).basis

ProjectMatchingDetail(e, d) ==
  LET exact == {x \in Details(d) : x.amount = e.amount}
      close == {x \in exact : e.contract # "" /\ x.contract = e.contract}
      best  == IF close # {} THEN close ELSE exact
  IN  CASE /\ e.amount = d.amount
           /\ d.kind = "payment" /\ e.contract # "" /\ AllocatedTo(d, e.contract) ->
             DetailMatch([d EXCEPT !.contract = e.contract],
                         "payment_header_allocations", "", FALSE)
        [] /\ e.amount = d.amount
           /\ ~(d.kind = "payment" /\ e.contract # "" /\ AllocatedTo(d, e.contract)) ->
             DetailMatch(d, "document_header", "", FALSE)
        [] e.amount # d.amount /\ exact = {} ->
             DetailMatch(d, "document_header", "", FALSE)
        [] e.amount # d.amount /\ Cardinality(best) = 1 ->
             LET x == CHOOSE y \in best : TRUE
             IN  DetailMatch(Projected(d, x), x.basis, x.id, FALSE)
        [] OTHER -> DetailMatch(d, FirstBasis(best), "", TRUE)

\* What a comparison with document d at place i takes away from later rows.
Consumed(i, d, m) ==
  CASE m.id # ""                                   -> {<<i, m.basis, m.id>>}
    [] m.id = "" /\ m.basis = "document_header"    ->
         {<<i, "document_line", d.lines[k].id>> : k \in DOMAIN d.lines}
    [] m.id = "" /\ m.basis # "document_header"    -> {}

-----------------------------------------------------------------------------
(* The fallback: a free line of any 1C document of the same kind and date.   *)

LineContract(c) ==
  LET d == onec[c[1]] IN
  IF d.lines[c[2]].contract # "" THEN d.lines[c[2]].contract ELSE d.contract

FreeLines(e) ==
  {c \in UNION {{i} \X DOMAIN onec[i].lines : i \in DOMAIN onec} :
     LET d == onec[c[1]] IN
     /\ e.kind \in {"sale", "purchase"}
     /\ d.kind = e.kind /\ d.date = e.date
     /\ e.code # "" => d.code = e.code
     /\ <<c[1], "document_line", d.lines[c[2]].id>> \notin used
     /\ d.lines[c[2]].amount = e.amount}

\* Mutant: only lines of the row's own contract are considered.
LineCandidatesOfContract(e) ==
  {c \in FreeLines(e) : LineContract(c) = e.contract}

LineCandidates(e) ==
  LET close == {c \in FreeLines(e) : e.contract # "" /\ LineContract(c) = e.contract}
  IN  IF close # {} THEN close ELSE FreeLines(e)

LineMatch(c) ==
  LET d == onec[c[1]]
      l == d.lines[c[2]]
  IN  DetailMatch([d EXCEPT !.amount = l.amount, !.contract = LineContract(c),
                            !.vat = IF l.vat # "" THEN l.vat ELSE d.vat],
                  "document_line", l.id, FALSE)

-----------------------------------------------------------------------------
\* A contract is context for the choice of a candidate and never a mismatch.
CompareMatchedDetail(e, m) ==
  CompareDocuments(e, IF Both(e.contract, m.document.contract)
                      THEN [m.document EXCEPT !.contract = e.contract]
                      ELSE m.document)

\* The fallback takes the identifiers of the row from the document it found.
WithIdentifiersOf(e, d) ==
  [e EXCEPT !.code = d.code, !.number = d.number, !.incoming = d.incoming]

InitMatching == pos = 1 /\ matched = {} /\ used = {} /\ issues = << >>

\* The row whose turn it is, and the report that closes its turn.
Row == erp[pos]

NoDocument == [amount |-> [value |-> 0, currency |-> ""], contract |-> ""]

IssueOf(status, e, i, confidence, basis, detail, d) ==
  [status |-> status, erp |-> e, onec |-> i, confidence |-> confidence,
   basis |-> basis, detail |-> detail, amount |-> d.amount, contract |-> d.contract]

Report(status, i, confidence, basis, detail, d) ==
  /\ issues' = Append(issues, IssueOf(status, pos, i, confidence, basis, detail, d))
  /\ pos' = pos + 1
  /\ UNCHANGED <<erp, onec, phase>>

AtRow == phase = "match" /\ pos \in DOMAIN erp
Searched == AtRow /\ PreconditionStatus(Row) = ""

ReportMissingErpDocument ==
  /\ AtRow
  /\ PreconditionStatus(Row) # ""
  /\ Report(PreconditionStatus(Row), 0, "", "", "", NoDocument)
  /\ UNCHANGED <<matched, used>>

ReportNotFound ==
  /\ Searched
  /\ Candidates(Row) = {} /\ LineCandidates(Row) = {}
  /\ Report(IF Row.code # "" THEN "not_found_in_1c" ELSE "erp_code1c_missing",
            0, "", "", "", NoDocument)
  /\ UNCHANGED <<matched, used>>

ReportAmbiguousLine ==
  /\ Searched
  /\ Candidates(Row) = {} /\ Cardinality(LineCandidates(Row)) > 1
  /\ Report("ambiguous_match", 0, "ambiguous", "document_line", "", NoDocument)
  /\ UNCHANGED <<matched, used>>

MatchLine ==
  /\ Searched
  /\ Candidates(Row) = {}
  /\ \E c \in LineCandidates(Row) :
       /\ LineCandidates(Row) = {c}
       /\ LET m == LineMatch(c) IN
          /\ Report(CompareMatchedDetail(WithIdentifiersOf(Row, onec[c[1]]), m),
                    c[1], "detail", m.basis, m.id, m.document)
          /\ used' = used \cup {<<c[1], m.basis, m.id>>}
       /\ matched' = matched \cup {c[1]}

ReportDuplicates ==
  /\ Searched
  /\ Cardinality(Candidates(Row)) > 1
  /\ matched' = matched \cup Candidates(Row)
  /\ Report(IF Confidence(Row) \in {"exact", "strong"} THEN "duplicate_in_1c"
                                                       ELSE "ambiguous_match",
            Min(Candidates(Row)), Confidence(Row), "", "", onec[Min(Candidates(Row))])
  /\ UNCHANGED used

ReportAmbiguousDetail ==
  /\ Searched
  /\ \E i \in Candidates(Row) :
       LET m == ProjectMatchingDetail(Row, onec[i]) IN
       /\ Candidates(Row) = {i}
       /\ m.ambiguous
       /\ matched' = matched \cup {i}
       /\ Report("ambiguous_match", i, "ambiguous", m.basis, "", onec[i])
  /\ UNCHANGED used

MatchDocument ==
  /\ Searched
  /\ \E i \in Candidates(Row) :
       LET m == ProjectMatchingDetail(Row, onec[i]) IN
       /\ Candidates(Row) = {i}
       /\ ~m.ambiguous
       /\ matched' = matched \cup {i}
       /\ used' = used \cup Consumed(i, onec[i], m)
       /\ Report(CompareMatchedDetail(Row, m), i, Confidence(Row), m.basis, m.id, m.document)

EndOfRows ==
  /\ phase = "match" /\ pos \notin DOMAIN erp
  /\ phase' = "unlinked" /\ pos' = 1
  /\ UNCHANGED <<erp, onec, matched, used, issues>>

-----------------------------------------------------------------------------
(* The 1C documents that no row consumed.                                    *)

Unlinked == IssueOf("not_linked_to_delivery_in_erp", 0, pos, "", "", "", onec[pos])

\* Mutant: matched documents are not left out.
ReportAllDocuments ==
  /\ phase = "unlinked" /\ pos \in DOMAIN onec
  /\ issues' = Append(issues, Unlinked)
  /\ pos' = pos + 1
  /\ UNCHANGED <<erp, onec, phase, matched, used>>

ReportUnlinked ==
  /\ phase = "unlinked" /\ pos \in DOMAIN onec
  /\ issues' = IF pos \in matched
               THEN issues
               ELSE Append(issues, Unlinked)
  /\ pos' = pos + 1
  /\ UNCHANGED <<erp, onec, phase, matched, used>>

EndOfDocuments ==
  /\ phase = "unlinked" /\ pos \notin DOMAIN onec
  /\ phase' = "classify" /\ pos' = 1
  /\ UNCHANGED <<erp, onec, matched, used, issues>>

(* _classify_global_erp_presence: document_exists_globally asks the ERP      *)
(* database, whose answer is not determined here.                            *)

ClassifiedStatus(issue, existsGlobally) ==
  CASE issue.status # "not_linked_to_delivery_in_erp"  -> issue.status
    [] /\ issue.status = "not_linked_to_delivery_in_erp"
       /\ onec[issue.onec].amount.value = 0            -> "not_comparable"
    [] /\ issue.status = "not_linked_to_delivery_in_erp"
       /\ onec[issue.onec].amount.value # 0            ->
         IF existsGlobally THEN issue.status ELSE "not_found_in_erp"

ClassifyIssue ==
  /\ phase = "classify" /\ pos \in DOMAIN issues
  /\ \E existsGlobally \in BOOLEAN :
       issues' = [issues EXCEPT ![pos].status =
                    ClassifiedStatus(issues[pos], existsGlobally)]
  /\ pos' = pos + 1
  /\ UNCHANGED <<erp, onec, phase, matched, used>>

EndOfIssues ==
  /\ phase = "classify" /\ pos \notin DOMAIN issues
  /\ phase' = "balance"
  /\ UNCHANGED <<erp, onec, pos, matched, used, issues>>

Match ==
  \/ ReportMissingErpDocument \/ ReportNotFound \/ ReportAmbiguousLine
  \/ MatchLine \/ ReportDuplicates \/ ReportAmbiguousDetail \/ MatchDocument
  \/ EndOfRows \/ ReportUnlinked \/ EndOfDocuments \/ ClassifyIssue \/ EndOfIssues

-----------------------------------------------------------------------------
Places == 1..Len(erp)

\* Every row that reached its turn has exactly one issue, the one at its own
\* place, and every 1C document has at most one issue of the 1C side, which it
\* has exactly when no row consumed it: no row and no free document drops out
\* of the report and none is reported from both sides.
EveryDocumentAccountedFor ==
  /\ \A k \in DOMAIN issues : issues[k].erp = (IF k \in Places THEN k ELSE 0)
  /\ phase = "match" => Len(issues) = pos - 1
  /\ \A j, k \in DOMAIN issues \ Places :
       issues[j].onec = issues[k].onec => j = k
  /\ {issues[k].onec : k \in DOMAIN issues \ Places} =
       CASE phase = "unlinked"               -> (1..(pos - 1)) \ matched
         [] phase \in {"classify", "balance", "report", "done"}
                                             -> DOMAIN onec \ matched
         [] OTHER                            -> {}

\* An issue that compares a row with a 1C document or a part of one.
Compares(k) ==
  issues[k].onec # 0 /\ issues[k].basis # "" /\ issues[k].confidence # "ambiguous"

\* The comparisons with a document as it stands, not with a part of it.
WholeBases == {"document_header", "payment_header_allocations"}

\* Nothing of 1C is compared twice: two rows compared with the same document
\* are compared with different parts of it, and neither with the whole.
\* (matched_onec_indexes and used_detail_resources exist for this.)  Lines
\* without an identifier and parts of different bases are not distinguished
\* by used_detail_resources and are left out.
NothingComparedTwice ==
  \A j, k \in Places \cap DOMAIN issues :
    /\ j # k
    /\ Compares(j) /\ Compares(k)
    /\ issues[j].onec = issues[k].onec
    => /\ issues[j].basis \notin WholeBases /\ issues[k].basis \notin WholeBases
       /\ issues[j].basis = issues[k].basis /\ issues[j].detail # ""
            => issues[j].detail # issues[k].detail

\* Two distinct rows are matched to distinct lines of 1C (the tests
\* test_unlinked_erp_sale_rows_match_distinct_1c_document_lines and
\* test_two_erp_rows_with_same_aggregate_code_match_distinct_1c_lines).  The
\* code registers a line reached through an allocation under another basis and
\* offers the same line again.
DistinctRowsDistinctLines ==
  \A j, k \in Places \cap DOMAIN issues :
    /\ j # k
    /\ Compares(j) /\ Compares(k)
    /\ issues[j].detail # ""
    /\ issues[j].onec = issues[k].onec
    => issues[j].detail # issues[k].detail

\* Row k was looked up in 1C.
LookedUp(k) ==
  issues[k].status \notin {"missing_erp_invoice", "erp_invoice_link_missing",
                           "missing_erp_closing_document"}

\* A document that stayed free cannot be the document of a row: had the row
\* been able to take it, the row would have; the exception is the choice by
\* contract between several documents of one code and date.
NoMissedPair ==
  \A k \in Places \cap DOMAIN issues, i \in DOMAIN onec \ matched :
    LookedUp(k) =>
      /\ SameKey("code_date", erp[k], onec[i]) =>
           /\ issues[k].onec # 0
           /\ erp[k].contract # "" /\ onec[i].contract # erp[k].contract
           /\ onec[issues[k].onec].contract = erp[k].contract
      /\ issues[k].onec = 0 =>
           ~SameKey("strong", erp[k], onec[i]) /\ ~SameKey("code_only", erp[k], onec[i])

\* A row that is reported absent left no line behind that it could be compared
\* with: a free line of its kind, date and amount means it was looked at.
NoMissedLine ==
  \A k \in Places \cap DOMAIN issues :
    /\ issues[k].status \in {"not_found_in_1c", "erp_code1c_missing"}
    => FreeLines(erp[k]) = {}

\* The documents and the parts of them with which issue k may agree.
PartsOf(i, basis, detail) ==
  IF basis \in WholeBases
  THEN {onec[i].amount}
  ELSE {x.amount : x \in {y \in Details(onec[i]) : y.id = detail /\ y.basis = basis}}

\* "Match" is never said of different money, kind or date: the row's amount is
\* exactly the amount of the named part of the named document (compare after
\* the projections of _project_matching_detail and _find_unlinked_detail_match).
MatchIsExact ==
  \A k \in Places \cap DOMAIN issues :
    issues[k].status = "match" =>
      LET e == erp[k]
          d == onec[issues[k].onec]
      IN  /\ e.kind = d.kind
          /\ e.amount \in PartsOf(issues[k].onec, issues[k].basis, issues[k].detail)
          /\ e.date # 0 /\ d.date # 0 => e.date = d.date
          /\ Both(e.code, d.code) => e.code = d.code
=============================================================================
