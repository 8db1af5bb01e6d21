------------------------ MODULE ReconciliationProofs ------------------------
(* The report of a run accounts for every row and every document once, the   *)
(* greedy choice of documents and lines compares nothing twice and misses    *)
(* nothing, what is reported as a match matches, one payment stays one       *)
(* document, nothing adjusts the balance twice, and a run that passed is one *)
(* where everything was matched, for any rows, documents, lines and balances.*)
EXTENDS Reconciliation, SequenceTheorems, Sums

-----------------------------------------------------------------------------
(* Sequences, and the preparation that leaves sequences behind.              *)

LEMMA ListIsSequence ==
  ASSUME NEW n \in Nat, NEW f, f = [k \in 1..n |-> f[k]]
  PROVE  Sequence(f)
<1>1. f \in Seq({f[k] : k \in 1..n})
  OBVIOUS
<1> QED  BY <1>1 DEF Sequence

LEMMA PlacesAreFinite ==
  ASSUME NEW s, Sequence(s), NEW S \in SUBSET DOMAIN s
  PROVE  Cardinality(S) \in Nat
BY SequenceHas, FS_Subset, FS_CardinalityType

LEMMA MembersAre ==
  ASSUME NEW s, Sequence(s), NEW S \in SUBSET DOMAIN s
  PROVE  Sequence(Members(s, S))
<1> DEFINE n == Cardinality(S)
           f == Members(s, S)
<1>1. n \in Nat
  BY PlacesAreFinite
<1>2. f = [k \in 1..n |-> f[k]]
  BY DEF Members
<1> QED  BY <1>1, <1>2, ListIsSequence

LEMMA AggregatedAre ==
  ASSUME NEW s, Sequence(s)
  PROVE  Sequence(AggregateDocuments(s))
<1> DEFINE plain == {i \in DOMAIN s : AggregationKey(s[i]) = NoKey}
           leaders == {i \in DOMAIN s \ plain :
                         i = Min({j \in DOMAIN s : AggregationKey(s[j]) = AggregationKey(s[i])})}
           n == Cardinality(leaders)
           one == Members(s, plain)
           two == [k \in 1..n |-> Aggregated(Members(s,
                     {j \in DOMAIN s : AggregationKey(s[j]) = AggregationKey(s[Nth(leaders, k)])}))]
<1>1. AggregateDocuments(s) = one \o two
  BY DEF AggregateDocuments, Group
<1>2. Sequence(one)
  BY MembersAre
<1>3. n \in Nat
  BY PlacesAreFinite
<1>4. two = [k \in 1..n |-> two[k]]
  OBVIOUS
<1> HIDE DEF one, two, n
<1>5. Sequence(two)
  BY <1>3, <1>4, ListIsSequence
<1>6. PICK A : one \in Seq(A)
  BY <1>2 DEF Sequence
<1>7. PICK B : two \in Seq(B)
  BY <1>5 DEF Sequence
<1>8. one \in Seq(A \cup B) /\ two \in Seq(A \cup B)
  BY <1>6, <1>7
<1>9. one \o two \in Seq(A \cup B)
  BY <1>8
<1> QED  BY <1>1, <1>9 DEF Sequence

LEMMA CoalescedAre ==
  ASSUME NEW rows, NEW docs, Sequence(rows)
  PROVE  Sequence(CoalesceRows(rows, docs))
<1> DEFINE group(i) == {j \in DOMAIN rows : HeaderTotalKey(rows[j]) = HeaderTotalKey(rows[i])}
           kept == {i \in DOMAIN rows : ~Coalesces(rows, docs, i) \/ i = Min(group(i))}
           n == Cardinality(kept)
           f == CoalesceRows(rows, docs)
<1>1. n \in Nat
  BY PlacesAreFinite
<1>2. f = [k \in 1..n |-> f[k]]
  BY DEF CoalesceRows, Group
<1> HIDE DEF n, f
<1>3. Sequence(f)
  BY <1>1, <1>2, ListIsSequence
<1> QED  BY <1>3 DEF f

-----------------------------------------------------------------------------
(* The invariant, in three parts: the report so far accounts for rows and    *)
(* documents; what a row was compared with is remembered as taken; and what  *)
(* is still free is nothing that an earlier row asked for.                   *)

Preparing == {"aggregate_erp", "aggregate_1c", "coalesce"}
Later == {"unlinked", "classify", "balance", "report", "done"}

IsIssue(x) ==
  x = [status |-> x.status, erp |-> x.erp, onec |-> x.onec, confidence |-> x.confidence,
       basis |-> x.basis, detail |-> x.detail, amount |-> x.amount, contract |-> x.contract]

OneCSide == DOMAIN issues \ Places
OneCReported == {issues[k].onec : k \in OneCSide}

SidesInv ==
  /\ phase \in Preparing \cup {"match"} \cup Later
  /\ Sequence(erp) /\ Sequence(onec) /\ Sequence(issues) /\ pos \in Nat
  /\ \A k \in DOMAIN issues : IsIssue(issues[k])
  /\ \A k \in DOMAIN issues : issues[k].erp = (IF k \in Places THEN k ELSE 0)
  /\ phase \in Preparing => Len(issues) = 0 /\ pos = 1
  /\ phase = "match" => pos \in 1..(Len(erp) + 1) /\ Len(issues) = pos - 1
  /\ phase \in Later => Len(erp) <= Len(issues)
  /\ phase = "unlinked" => pos \in 1..(Len(onec) + 1) /\ OneCReported = (1..(pos - 1)) \ matched
  /\ phase \in Later \ {"unlinked"} => OneCReported = DOMAIN onec \ matched
  /\ \A j, k \in OneCSide : issues[j].onec = issues[k].onec => j = k

ComparesAs(x) == x.onec # 0 /\ x.basis # "" /\ x.confidence # "ambiguous"

TakenFor(x) ==
  ComparesAs(x) =>
    /\ x.onec \in matched
    /\ x.basis = "document_header" =>
         \A n \in DOMAIN onec[x.onec].lines :
           <<x.onec, "document_line", onec[x.onec].lines[n].id>> \in used
    /\ x.basis = "payment_header_allocations" => onec[x.onec].kind = "payment"
    /\ x.detail # "" => <<x.onec, x.basis, x.detail>> \in used

Apart(x, y) ==
  ComparesAs(x) /\ ComparesAs(y) /\ x.onec = y.onec =>
    /\ x.basis \notin WholeBases /\ y.basis \notin WholeBases
    /\ x.basis = y.basis /\ x.detail # "" => x.detail # y.detail

RowsReported == Places \cap DOMAIN issues

TakenInv ==
  /\ \A k \in RowsReported : TakenFor(issues[k])
  /\ \A j, k \in RowsReported : j # k => Apart(issues[j], issues[k])

NotLookedUp == {"missing_erp_invoice", "erp_invoice_link_missing", "missing_erp_closing_document"}
NotFound == {"not_found_in_1c", "erp_code1c_missing"}

\* Row e, reported as x, asked for every document that is free.
Sought(x, e) ==
  x.status \notin NotLookedUp =>
    \A i \in DOMAIN onec \ matched :
      /\ SameKey("code_date", e, onec[i]) =>
           /\ x.onec # 0
           /\ e.contract # "" /\ onec[i].contract # e.contract
           /\ onec[x.onec].contract = e.contract
      /\ x.onec = 0 => ~ SameKey("strong", e, onec[i]) /\ ~ SameKey("code_only", e, onec[i])

LinesSought(x, e) == x.status \in NotFound => FreeLines(e) = {}

SoughtInv ==
  \A k \in RowsReported : Sought(issues[k], erp[k]) /\ LinesSought(issues[k], erp[k])

ReportInv == SidesInv /\ TakenInv /\ SoughtInv

-----------------------------------------------------------------------------
(* The search.                                                               *)

LEMMA SearchKeysAre ==
  /\ DOMAIN SearchKeys = 1..3
  /\ SearchKeys[1] = "code_date" /\ SearchKeys[2] = "strong" /\ SearchKeys[3] = "code_only"
BY DEF SearchKeys

\* The first sort of key that finds anything decides.
LEMMA HitDecides ==
  ASSUME NEW e, Hits(e) # {}
  PROVE  Free(HitKey(e), e) # {} /\ (1 \in Hits(e) => HitKey(e) = "code_date")
<1>1. Hits(e) \in SUBSET (1..3)
  BY SearchKeysAre DEF Hits
<1>2. \E k \in Hits(e) : \A j \in Hits(e) : k <= j
  BY <1>1, LeastNumber
<1>3. PICK k \in Hits(e) : HitKey(e) = SearchKeys[k] /\ \A j \in Hits(e) : k <= j
  BY <1>2 DEF HitKey
<1>4. Free(SearchKeys[k], e) # {}
  BY DEF Hits
<1>5. 1 \in Hits(e) => k = 1
  BY <1>1, <1>3
<1> QED  BY <1>3, <1>4, <1>5, SearchKeysAre

LEMMA FreeIsHit ==
  ASSUME NEW e, NEW i \in DOMAIN onec \ matched, NEW k \in 1..3, SameKey(SearchKeys[k], e, onec[i])
  PROVE  i \in Free(SearchKeys[k], e) /\ k \in Hits(e)
BY SearchKeysAre DEF Free, Hits

LEMMA NoCandidates ==
  ASSUME NEW e, Candidates(e) = {}, NEW i \in DOMAIN onec \ matched
  PROVE  /\ ~ SameKey("code_date", e, onec[i])
         /\ ~ SameKey("strong", e, onec[i]) /\ ~ SameKey("code_only", e, onec[i])
<1>1. Hits(e) = {}
  BY HitDecides DEF Candidates
<1>2. \A k \in 1..3 : ~ SameKey(SearchKeys[k], e, onec[i])
  BY <1>1, FreeIsHit
<1> QED  BY <1>2, SearchKeysAre

\* A document that was free and is no candidate goes by another contract.
LEMMA CandidatesAre ==
  ASSUME NEW e, NEW c \in Candidates(e)
  PROVE  /\ c \in DOMAIN onec \ matched
         /\ \A i \in (DOMAIN onec \ matched) \ Candidates(e) :
              SameKey("code_date", e, onec[i]) =>
                /\ e.contract # "" /\ onec[i].contract # e.contract
                /\ onec[c].contract = e.contract
<1> DEFINE found == Free(HitKey(e), e)
           close == SameContract(e, found)
<1>1. /\ Hits(e) # {}
      /\ Candidates(e) = IF Cardinality(found) > 1 /\ close # {} THEN close ELSE found
  BY DEF Candidates
<1>2. /\ found \subseteq DOMAIN onec \ matched /\ close \subseteq found
      /\ \A i \in found : i \in close <=> e.contract # "" /\ onec[i].contract = e.contract
  BY DEF Free, SameContract
<1>3. ASSUME NEW i \in (DOMAIN onec \ matched) \ Candidates(e), SameKey("code_date", e, onec[i])
      PROVE  i \in found
  <2>1. 1 \in Hits(e) /\ i \in Free("code_date", e)
    BY <1>3, SearchKeysAre, FreeIsHit
  <2> QED  BY <1>1, <2>1, HitDecides
<1> HIDE DEF found, close
<1>4. c \in DOMAIN onec \ matched
  BY <1>1, <1>2
<1>5. ASSUME NEW i \in (DOMAIN onec \ matched) \ Candidates(e), SameKey("code_date", e, onec[i])
      PROVE  /\ e.contract # "" /\ onec[i].contract # e.contract
             /\ onec[c].contract = e.contract
  <2>1. i \in found
    BY <1>3, <1>5
  <2>2. Candidates(e) = close
    BY <1>1, <1>5, <2>1
  <2> QED  BY <1>2, <1>5, <2>1, <2>2
<1> QED  BY <1>4, <1>5

\* A document that is the only candidate was not ambiguous.
LEMMA OneIsClear ==
  ASSUME NEW e, NEW i, Candidates(e) = {i}
  PROVE  Confidence(e) # "ambiguous"
<1> DEFINE found == Free(HitKey(e), e)
           close == SameContract(e, found)
<1>1. Hits(e) # {} /\ {i} = IF Cardinality(found) > 1 /\ close # {} THEN close ELSE found
  BY DEF Candidates
<1>2. HitKey(e) # "ambiguous"
  <2>1. Hits(e) \in SUBSET (1..3)
    BY SearchKeysAre DEF Hits
  <2>2. PICK k \in Hits(e) : HitKey(e) = SearchKeys[k]
    BY <1>1, <2>1, LeastNumber DEF HitKey
  <2> QED  BY <2>1, <2>2, SearchKeysAre
<1>3. Cardinality({i}) = 1
  BY FS_Singleton
<1>4. Confidence(e) = CASE Cardinality(found) <= 1 -> HitKey(e)
        [] Cardinality(found) > 1 /\ close # {}
                                   -> IF HitKey(e) = "code_date" THEN "exact" ELSE "strong"
        [] Cardinality(found) > 1 /\ close = {}
                                   -> "ambiguous"
  BY DEF Confidence
<1> HIDE DEF found, close
<1>5. CASE Cardinality(found) > 1 /\ close # {}
  BY <1>4, <1>5
<1>6. CASE ~ (Cardinality(found) > 1 /\ close # {})
  <2>1. Cardinality(found) = 1
    BY <1>1, <1>3, <1>6
  <2> QED  BY <1>2, <1>4, <2>1
<1> QED  BY <1>5, <1>6

LEMMA FreeLinesShrink ==
  ASSUME NEW e, UNCHANGED onec, used \subseteq used', FreeLines(e) = {}
  PROVE  FreeLines(e)' = {}
<1>1. ASSUME NEW c \in FreeLines(e)' PROVE c \in FreeLines(e)
  BY <1>1 DEF FreeLines
<1> QED  BY <1>1

-----------------------------------------------------------------------------
(* What a comparison says is never said of a row that was not compared.      *)

LEMMA ComparisonSays ==
  ASSUME NEW e, NEW d
  PROVE  CompareDocuments(e, d) \notin NotLookedUp \cup NotFound
<1> DEFINE fields == MismatchFields(e, d)
           p(k) == STATUS_PRIORITY[k]
<1>1. /\ p(1) = <<"amount", "amount_mismatch">> /\ p(2) = <<"currency", "amount_mismatch">>
      /\ p(3) = <<"contract_code1c", "contract_mismatch">>
      /\ p(4) = <<"contract_context", "contract_context_missing">>
      /\ p(5) = <<"date", "date_mismatch">> /\ p(6) = <<"code1c", "number_mismatch">>
      /\ p(7) = <<"number", "number_mismatch">> /\ p(8) = <<"vat_rate", "vat_mismatch">>
  BY DEF STATUS_PRIORITY
<1>2. fields \subseteq {p(k)[1] : k \in 1..8}
  <2>1. fields \subseteq {"code1c", "number", "date", "currency", "amount",
                          "contract_code1c", "contract_context", "vat_rate"}
    BY DEF MismatchFields
  <2> HIDE DEF fields, p
  <2>2. /\ p(1)[1] = "amount" /\ p(2)[1] = "currency" /\ p(3)[1] = "contract_code1c"
        /\ p(4)[1] = "contract_context" /\ p(5)[1] = "date" /\ p(6)[1] = "code1c"
        /\ p(7)[1] = "number" /\ p(8)[1] = "vat_rate"
    BY <1>1
  <2> QED  BY <2>1, <2>2
<1>3. \A k \in 1..8 : p(k)[2] \notin NotLookedUp \cup NotFound
  <2> HIDE DEF p
  <2>1. \A k \in 1..8 : p(k)[2] \in {"amount_mismatch", "contract_mismatch", "contract_context_missing",
                                     "date_mismatch", "number_mismatch", "vat_mismatch"}
    BY <1>1
  <2> QED  BY <2>1 DEF NotLookedUp, NotFound
<1>4. CASE fields = {}
  BY <1>4 DEF CompareDocuments, StatusOf, NotLookedUp, NotFound
<1>5. CASE fields # {}
  <2> DEFINE S == {k \in 1..8 : p(k)[1] \in fields}
  <2>1. S # {} /\ S \in SUBSET Nat
    BY <1>2, <1>5
  <2>2. PICK k \in S : \A j \in S : k <= j
    BY <2>1, LeastNumber
  <2>3. k \in 1..8 /\ Decides(k, fields)
    BY <2>2 DEF Decides
  <2> HIDE DEF S, fields
  <2>4. PICK n \in 1..8 : StatusOf(fields) = p(n)[2]
    BY <1>5, <2>3 DEF StatusOf
  <2> QED  BY <1>3, <2>4 DEF CompareDocuments, fields
<1> QED  BY <1>4, <1>5

LEMMA DetailComparisonSays ==
  ASSUME NEW e, NEW m
  PROVE  CompareMatchedDetail(e, m) \notin NotLookedUp \cup NotFound
BY ComparisonSays DEF CompareMatchedDetail

-----------------------------------------------------------------------------
(* A row that is reported.                                                   *)

LEMMA PlacesAre ==
  ASSUME SidesInv
  PROVE  /\ Len(erp) \in Nat /\ Places = 1..Len(erp) /\ DOMAIN erp = Places
         /\ Len(onec) \in Nat /\ DOMAIN onec = 1..Len(onec)
         /\ Len(issues) \in Nat /\ DOMAIN issues = 1..Len(issues)
BY SequenceHas DEF SidesInv, Places

LEMMA RowReported ==
  ASSUME ReportInv, AtRow, NEW x, IsIssue(x), x.erp = pos,
         issues' = Append(issues, x), pos' = pos + 1, UNCHANGED <<erp, onec, phase>>,
         matched \subseteq matched', used \subseteq used',
         TakenFor(x)', \A k \in RowsReported : Apart(x, issues[k]),
         NEW e, e = Row, Sought(x, e)', LinesSought(x, e)'
  PROVE  ReportInv'
<1>1. /\ Len(erp) \in Nat /\ Places = 1..Len(erp) /\ DOMAIN erp = Places
      /\ Len(issues) \in Nat /\ DOMAIN issues = 1..Len(issues)
      /\ Places' = Places
  BY PlacesAre DEF ReportInv, Places
<1>2. /\ phase = "match" /\ phase' = "match" /\ pos \in Places /\ Len(issues) = pos - 1
  BY <1>1 DEF ReportInv, SidesInv, AtRow
<1>3. Sequence(issues)
  BY DEF ReportInv, SidesInv
<1>4. /\ Sequence(issues') /\ Len(issues') = Len(issues) + 1 /\ issues'[Len(issues) + 1] = x
      /\ \A k \in DOMAIN issues : issues'[k] = issues[k]
  <2>1. PICK t : t = issues'
    OBVIOUS
  <2>2. t = Append(issues, x)
    BY <2>1
  <2>3. Sequence(t)
    BY ONLY <1>3, <2>2, AppendDoes
  <2>4. Len(t) = Len(issues) + 1
    BY ONLY <1>3, <2>2, AppendDoes
  <2>5. t[Len(issues) + 1] = x
    BY ONLY <1>3, <2>2, AppendDoes
  <2>6. \A k \in DOMAIN issues : t[k] = issues[k]
    BY ONLY <1>3, <2>2, AppendDoes
  <2> QED  BY <2>1, <2>3, <2>4, <2>5, <2>6
<1>5. DOMAIN issues' = 1..pos /\ DOMAIN issues = 1..(pos - 1) /\ Len(issues') = pos /\ issues'[pos] = x
  BY <1>1, <1>2, <1>4, SequenceHas
<1>6. \A k \in DOMAIN issues' : k = pos \/ (k \in DOMAIN issues /\ issues'[k] = issues[k])
  BY <1>1, <1>2, <1>4, <1>5
<1>7. RowsReported = 1..(pos - 1) /\ RowsReported' = 1..pos
  BY <1>1, <1>2, <1>5 DEF RowsReported
<1>8. SidesInv'
  <2>1. \A k \in DOMAIN issues' : IsIssue(issues'[k])
    BY <1>5, <1>6 DEF ReportInv, SidesInv
  <2>2. \A k \in DOMAIN issues' : issues'[k].erp = (IF k \in Places THEN k ELSE 0)
    BY <1>2, <1>5, <1>6 DEF ReportInv, SidesInv
  <2>3. OneCSide' = {}
    BY <1>1, <1>2, <1>5 DEF OneCSide
  <2>4. pos' \in 1..(Len(erp) + 1) /\ pos' \in Nat
    BY <1>1, <1>2
  <2>5. "match" \notin Preparing /\ "match" \notin Later
    BY DEF Preparing, Later
  <2> QED
    BY <1>1, <1>2, <1>4, <1>5, <2>1, <2>2, <2>3, <2>4, <2>5 DEF ReportInv, SidesInv
<1>9. TakenInv'
  <2>1. ASSUME NEW k \in RowsReported' PROVE TakenFor(issues[k])'
    <3>1. CASE k = pos
      BY <1>5, <3>1 DEF TakenFor
    <3>2. CASE k # pos
      <4>1. k \in RowsReported /\ issues'[k] = issues[k]
        BY <1>1, <1>2, <1>6, <1>7, <3>2
      <4>2. TakenFor(issues[k])
        BY <4>1 DEF ReportInv, TakenInv
      <4> QED  BY <4>1, <4>2 DEF TakenFor
    <3> QED  BY <3>1, <3>2
  <2>2. ASSUME NEW j \in RowsReported', NEW k \in RowsReported', j # k
        PROVE  Apart(issues'[j], issues'[k])
    <3>1. CASE j = pos
      <4>1. k \in RowsReported /\ issues'[k] = issues[k]
        BY <1>1, <1>2, <1>6, <1>7, <2>2, <3>1
      <4> QED  BY <1>5, <3>1, <4>1
    <3>2. CASE k = pos
      <4>1. j \in RowsReported /\ issues'[j] = issues[j]
        BY <1>1, <1>2, <1>6, <1>7, <2>2, <3>2
      <4>2. Apart(x, issues[j])
        BY <4>1
      <4> QED  BY <1>5, <3>2, <4>1, <4>2 DEF Apart
    <3>3. CASE j # pos /\ k # pos
      <4>1. /\ j \in RowsReported /\ issues'[j] = issues[j]
            /\ k \in RowsReported /\ issues'[k] = issues[k]
        BY <1>1, <1>2, <1>6, <1>7, <3>3
      <4> QED  BY <2>2, <4>1 DEF ReportInv, TakenInv
    <3> QED  BY <3>1, <3>2, <3>3
  <2> QED  BY <2>1, <2>2 DEF TakenInv
<1>10. SoughtInv'
  <2>1. ASSUME NEW k \in RowsReported'
        PROVE  Sought(issues[k], erp[k])' /\ LinesSought(issues[k], erp[k])'
    <3>1. CASE k = pos
      <4>1. issues'[k] = x /\ erp'[k] = e
        BY <1>5, <3>1 DEF Row
      <4> QED  BY <4>1 DEF Sought, LinesSought
    <3>2. CASE k # pos
      <4>1. k \in RowsReported /\ issues'[k] = issues[k] /\ erp'[k] = erp[k]
        BY <1>1, <1>2, <1>6, <1>7, <3>2
      <4>2. Sought(issues[k], erp[k]) /\ LinesSought(issues[k], erp[k])
        BY <4>1 DEF ReportInv, SoughtInv
      <4>3. PICK y, r : y = issues[k] /\ r = erp[k]
        OBVIOUS
      <4>4. Sought(y, r)'
        BY <4>2, <4>3 DEF Sought
      <4>5. LinesSought(y, r)'
        BY <4>2, <4>3, FreeLinesShrink DEF LinesSought
      <4>6. issues'[k] = y /\ erp'[k] = r
        BY <4>1, <4>3
      <4> QED  BY <4>4, <4>5, <4>6 DEF Sought, LinesSought
    <3> QED  BY <3>1, <3>2
  <2> QED  BY <2>1 DEF SoughtInv
<1> QED  BY <1>8, <1>9, <1>10 DEF ReportInv

-----------------------------------------------------------------------------
(* The ways in which the turn of a row ends.                                 *)

LEMMA NotCompared ==
  ASSUME NEW x, ~ ComparesAs(x)
  PROVE  TakenFor(x)' /\ \A k \in RowsReported : Apart(x, issues[k])
BY DEF TakenFor, Apart

LEMMA StatusesApart ==
  /\ NotLookedUp \cap NotFound = {}
  /\ "ambiguous_match" \notin NotLookedUp \cup NotFound
  /\ "duplicate_in_1c" \notin NotLookedUp \cup NotFound
BY DEF NotLookedUp, NotFound

LEMMA PreconditionSays ==
  ASSUME NEW e, PreconditionStatus(e) # ""
  PROVE  PreconditionStatus(e) \in NotLookedUp
BY DEF PreconditionStatus, NotLookedUp

LEMMA MissingErpDocumentKeeps ==
  ASSUME ReportInv, ReportMissingErpDocument
  PROVE  ReportInv'
<1>1. PICK e : e = Row
  OBVIOUS
<1>2. PICK x : x = IssueOf(PreconditionStatus(Row), pos, 0, "", "", "", NoDocument)
  OBVIOUS
<1>3. /\ AtRow /\ issues' = Append(issues, x) /\ pos' = pos + 1 /\ UNCHANGED <<erp, onec, phase>>
      /\ matched \subseteq matched' /\ used \subseteq used'
  BY <1>2 DEF ReportMissingErpDocument, Report
<1>4. IsIssue(x) /\ x.erp = pos /\ x.onec = 0 /\ x.status = PreconditionStatus(Row)
  BY <1>2 DEF IssueOf, IsIssue
<1>5. x.status \in NotLookedUp
  BY <1>4, PreconditionSays DEF ReportMissingErpDocument
<1>6. ~ ComparesAs(x)
  BY <1>4 DEF ComparesAs
<1>7. Sought(x, e)' /\ LinesSought(x, e)'
  BY <1>5, StatusesApart DEF Sought, LinesSought
<1> QED  BY <1>1, <1>3, <1>4, <1>6, <1>7, NotCompared, RowReported

\* No document that is free has a key of row e.
LEMMA NothingSought ==
  ASSUME NEW e, Candidates(e) = {}, matched \subseteq matched', UNCHANGED onec, NEW x
  PROVE  Sought(x, e)'
<1>1. ASSUME NEW i \in DOMAIN onec' \ matched'
      PROVE  /\ ~ SameKey("code_date", e, onec'[i])
             /\ ~ SameKey("strong", e, onec'[i]) /\ ~ SameKey("code_only", e, onec'[i])
  <2>1. i \in DOMAIN onec \ matched /\ onec'[i] = onec[i]
    BY <1>1
  <2> QED  BY <2>1, NoCandidates
<1> QED  BY <1>1 DEF Sought

LEMMA NotFoundKeeps ==
  ASSUME ReportInv, ReportNotFound
  PROVE  ReportInv'
<1>1. PICK e : e = Row
  OBVIOUS
<1>2. PICK x : x = IssueOf(IF Row.code # "" THEN "not_found_in_1c" ELSE "erp_code1c_missing",
                           pos, 0, "", "", "", NoDocument)
  OBVIOUS
<1>3. /\ AtRow /\ issues' = Append(issues, x) /\ pos' = pos + 1 /\ UNCHANGED <<erp, onec, phase>>
      /\ matched \subseteq matched' /\ used \subseteq used' /\ UNCHANGED used
  BY <1>2 DEF ReportNotFound, Searched, Report
<1>4. IsIssue(x) /\ x.erp = pos /\ x.onec = 0
  BY <1>2 DEF IssueOf, IsIssue
<1>5. Candidates(e) = {} /\ FreeLines(e) = {}
  BY <1>1 DEF ReportNotFound, LineCandidates
<1>6. ~ ComparesAs(x)
  BY <1>4 DEF ComparesAs
<1>7. Sought(x, e)'
  BY <1>3, <1>5, NothingSought
<1>8. LinesSought(x, e)'
  BY <1>3, <1>5, FreeLinesShrink DEF LinesSought
<1> QED  BY <1>1, <1>3, <1>4, <1>6, <1>7, <1>8, NotCompared, RowReported

LEMMA AmbiguousLineKeeps ==
  ASSUME ReportInv, ReportAmbiguousLine
  PROVE  ReportInv'
<1>1. PICK e : e = Row
  OBVIOUS
<1>2. PICK x : x = IssueOf("ambiguous_match", pos, 0, "ambiguous", "document_line", "", NoDocument)
  OBVIOUS
<1>3. /\ AtRow /\ issues' = Append(issues, x) /\ pos' = pos + 1 /\ UNCHANGED <<erp, onec, phase>>
      /\ matched \subseteq matched' /\ used \subseteq used' /\ Candidates(e) = {}
  BY <1>1, <1>2 DEF ReportAmbiguousLine, Searched, Report
<1>4. IsIssue(x) /\ x.erp = pos /\ x.onec = 0 /\ x.status = "ambiguous_match"
  BY <1>2 DEF IssueOf, IsIssue
<1>5. ~ ComparesAs(x)
  BY <1>4 DEF ComparesAs
<1>6. Sought(x, e)' /\ LinesSought(x, e)'
  BY <1>3, <1>4, NothingSought, StatusesApart DEF LinesSought
<1> QED  BY <1>1, <1>3, <1>4, <1>5, <1>6, NotCompared, RowReported

\* A line that is free was not compared with any row, nor was its document.
LEMMA LineKeeps ==
  ASSUME ReportInv, MatchLine
  PROVE  ReportInv'
<1>1. PICK e : e = Row
  OBVIOUS
<1>2. PICK c \in LineCandidates(Row) :
        LET m == LineMatch(c) IN
        /\ Report(CompareMatchedDetail(WithIdentifiersOf(Row, onec[c[1]]), m),
                  c[1], "detail", m.basis, m.id, m.document)
        /\ used' = used \cup {<<c[1], m.basis, m.id>>}
        /\ matched' = matched \cup {c[1]}
  BY DEF MatchLine
<1>3. PICK m : m = LineMatch(c)
  OBVIOUS
<1>4. PICK x : x = IssueOf(CompareMatchedDetail(WithIdentifiersOf(Row, onec[c[1]]), m), pos,
                           c[1], "detail", m.basis, m.id, m.document)
  OBVIOUS
<1>5. /\ AtRow /\ issues' = Append(issues, x) /\ pos' = pos + 1 /\ UNCHANGED <<erp, onec, phase>>
      /\ used' = used \cup {<<c[1], m.basis, m.id>>} /\ matched' = matched \cup {c[1]}
      /\ Candidates(e) = {}
  BY <1>1, <1>2, <1>3, <1>4 DEF MatchLine, Searched, Report
<1>6. /\ IsIssue(x) /\ x.erp = pos /\ x.onec = c[1] /\ x.basis = m.basis /\ x.detail = m.id
      /\ x.status = CompareMatchedDetail(WithIdentifiersOf(Row, onec[c[1]]), m)
  BY <1>4 DEF IssueOf, IsIssue
<1>7. x.status \notin NotLookedUp \cup NotFound
  BY <1>6, DetailComparisonSays
<1>8. m.basis = "document_line" /\ m.id = onec[c[1]].lines[c[2]].id
  BY <1>3 DEF LineMatch, DetailMatch
<1>9. /\ c[2] \in DOMAIN onec[c[1]].lines /\ onec[c[1]].kind # "payment"
      /\ <<c[1], "document_line", onec[c[1]].lines[c[2]].id>> \notin used
  <2>1. c \in FreeLines(Row)
    BY <1>2 DEF LineCandidates
  <2>2. c \in UNION {{i} \X DOMAIN onec[i].lines : i \in DOMAIN onec}
    BY <2>1 DEF FreeLines
  <2>3. c[2] \in DOMAIN onec[c[1]].lines
    BY <2>2
  <2> QED  BY <2>1, <2>3 DEF FreeLines
<1>10. TakenFor(x)'
  BY <1>5, <1>6, <1>8 DEF TakenFor
<1>11. ASSUME NEW k \in RowsReported PROVE Apart(x, issues[k])
  <2>1. TakenFor(issues[k])
    BY DEF ReportInv, TakenInv
  <2>2. PICK y : y = issues[k]
    OBVIOUS
  <2>3. ASSUME ComparesAs(x), ComparesAs(y), x.onec = y.onec
        PROVE  /\ y.basis \notin WholeBases
               /\ y.basis = "document_line" /\ y.detail # "" => y.detail # m.id
    BY <1>6, <1>8, <1>9, <2>1, <2>2, <2>3 DEF TakenFor, WholeBases
  <2> QED  BY <1>6, <1>8, <2>2, <2>3 DEF Apart, WholeBases
<1>12. Sought(x, e)' /\ LinesSought(x, e)'
  BY <1>5, <1>7, NothingSought DEF LinesSought
<1> QED  BY <1>1, <1>5, <1>6, <1>10, <1>11, <1>12, RowReported

\* A row that takes its candidates leaves only documents of other contracts.
LEMMA FoundSought ==
  ASSUME SidesInv, NEW e, NEW c \in Candidates(e), Candidates(e) \subseteq matched',
         matched \subseteq matched', UNCHANGED onec, NEW x, x.onec = c
  PROVE  Sought(x, e)'
<1>1. c \in DOMAIN onec /\ c # 0
  <2>1. c \in DOMAIN onec
    BY CandidatesAre
  <2>2. DOMAIN onec = 1..Len(onec) /\ Len(onec) \in Nat
    BY PlacesAre
  <2> QED  BY <2>1, <2>2
<1>2. ASSUME NEW i \in DOMAIN onec' \ matched', SameKey("code_date", e, onec'[i])
      PROVE  /\ e.contract # "" /\ onec'[i].contract # e.contract
             /\ onec'[c].contract = e.contract
  <2>1. i \in (DOMAIN onec \ matched) \ Candidates(e) /\ SameKey("code_date", e, onec[i])
    BY <1>2
  <2> QED  BY <2>1, CandidatesAre
<1> QED  BY <1>1, <1>2 DEF Sought

LEMMA EmptyHasNone == Cardinality({}) = 0
BY FS_EmptySet

LEMMA LeastCandidate ==
  ASSUME SidesInv, NEW e, Candidates(e) # {}
  PROVE  Min(Candidates(e)) \in Candidates(e)
<1>1. Candidates(e) \in SUBSET Nat
  <2>1. \A c \in Candidates(e) : c \in DOMAIN onec
    BY CandidatesAre
  <2>2. DOMAIN onec = 1..Len(onec) /\ Len(onec) \in Nat
    BY PlacesAre
  <2> QED  BY <2>1, <2>2
<1>2. \E c \in Candidates(e) : \A i \in Candidates(e) : c <= i
  BY <1>1, LeastNumber
<1> QED  BY <1>2 DEF Min

LEMMA DuplicatesKeep ==
  ASSUME ReportInv, ReportDuplicates
  PROVE  ReportInv'
<1>1. PICK e : e = Row
  OBVIOUS
<1>2. PICK x : x = IssueOf(IF Confidence(Row) \in {"exact", "strong"} THEN "duplicate_in_1c"
                                                                     ELSE "ambiguous_match",
                           pos, Min(Candidates(Row)), Confidence(Row), "", "",
                           onec[Min(Candidates(Row))])
  OBVIOUS
<1>3. /\ AtRow /\ issues' = Append(issues, x) /\ pos' = pos + 1 /\ UNCHANGED <<erp, onec, phase>>
      /\ matched' = matched \cup Candidates(e) /\ used \subseteq used'
      /\ Cardinality(Candidates(e)) > 1
  BY <1>1, <1>2 DEF ReportDuplicates, Searched, Report
<1>4. /\ IsIssue(x) /\ x.erp = pos /\ x.onec = Min(Candidates(Row)) /\ x.basis = ""
      /\ x.status \in {"duplicate_in_1c", "ambiguous_match"}
  BY <1>2 DEF IssueOf, IsIssue
<1>5. PICK c \in Candidates(e) : x.onec = c
  <2>1. Candidates(e) # {}
    <3>1. ASSUME Candidates(e) = {} PROVE FALSE
      <4>1. Cardinality(Candidates(e)) = 0
        BY <3>1, EmptyHasNone
      <4>2. Cardinality(Candidates(e)) > 1
        BY <1>3
      <4> QED  BY ONLY <4>1, <4>2
    <3> QED  BY <3>1
  <2>2. Min(Candidates(e)) \in Candidates(e)
    BY <2>1, LeastCandidate DEF ReportInv
  <2> QED  BY <1>1, <1>4, <2>2
<1>6. ~ ComparesAs(x)
  BY <1>4 DEF ComparesAs
<1>7. Sought(x, e)'
  BY <1>3, <1>5, FoundSought DEF ReportInv
<1>8. LinesSought(x, e)'
  BY <1>4, StatusesApart DEF LinesSought
<1> QED  BY <1>1, <1>3, <1>4, <1>6, <1>7, <1>8, NotCompared, RowReported

LEMMA AmbiguousDetailKeeps ==
  ASSUME ReportInv, ReportAmbiguousDetail
  PROVE  ReportInv'
<1>1. PICK e : e = Row
  OBVIOUS
<1>2. PICK i \in Candidates(Row) :
        LET m == ProjectMatchingDetail(Row, onec[i]) IN
        /\ Candidates(Row) = {i}
        /\ matched' = matched \cup {i}
        /\ Report("ambiguous_match", i, "ambiguous", m.basis, "", onec[i])
  BY DEF ReportAmbiguousDetail
<1>3. PICK m : m = ProjectMatchingDetail(Row, onec[i])
  OBVIOUS
<1>4. PICK x : x = IssueOf("ambiguous_match", pos, i, "ambiguous", m.basis, "", onec[i])
  OBVIOUS
<1>5. /\ AtRow /\ issues' = Append(issues, x) /\ pos' = pos + 1 /\ UNCHANGED <<erp, onec, phase>>
      /\ matched' = matched \cup {i} /\ Candidates(e) = {i} /\ used \subseteq used'
  BY <1>1, <1>2, <1>3, <1>4 DEF ReportAmbiguousDetail, Searched, Report
<1>6. /\ IsIssue(x) /\ x.erp = pos /\ x.onec = i /\ x.confidence = "ambiguous"
      /\ x.status = "ambiguous_match"
  BY <1>4 DEF IssueOf, IsIssue
<1>7. ~ ComparesAs(x)
  BY <1>6 DEF ComparesAs
<1>8. Sought(x, e)'
  BY <1>5, <1>6, FoundSought DEF ReportInv
<1>9. LinesSought(x, e)'
  BY <1>6, StatusesApart DEF LinesSought
<1> QED  BY <1>1, <1>5, <1>6, <1>7, <1>8, <1>9, NotCompared, RowReported

\* A whole document has no part of its own to name.
LEMMA HeaderHasNoId ==
  ASSUME NEW e, NEW d, NEW m, m = ProjectMatchingDetail(e, d)
  PROVE  /\ m.basis = "document_header" => m.id = ""
         /\ m.basis = "payment_header_allocations" => d.kind = "payment"
<1> DEFINE exact == {x \in Details(d) : x.amount = e.amount}
           close == {x \in exact : e.contract # "" /\ x.contract = e.contract}
           best  == IF close # {} THEN close ELSE exact
           one   == CHOOSE y \in best : TRUE
<1>1. \A x \in Details(d) : x.basis \notin WholeBases
  BY DEF Details, WholeBases
<1>2. best # {} => one.basis \notin WholeBases /\ FirstBasis(best) \notin WholeBases
  <2> HIDE DEF best
  <2>1. SUFFICES ASSUME best # {}
                 PROVE  one.basis \notin WholeBases /\ FirstBasis(best) \notin WholeBases
    OBVIOUS
  <2>2. one \in best
    BY <2>1
  <2>3. best \subseteq Details(d)
    BY DEF best, close, exact
  <2>4. PICK y \in best : FirstBasis(best) = y.basis
    <3> DEFINE listed == {x \in best : x.slot[1] = "allocation"}
    <3>1. CASE listed # {}
      <4>1. FirstBasis(best) = (CHOOSE x \in listed : TRUE).basis
        BY <3>1 DEF FirstBasis
      <4>2. (CHOOSE x \in listed : TRUE) \in listed
        BY <3>1
      <4> QED  BY <4>1, <4>2
    <3>2. CASE listed = {}
      <4>1. FirstBasis(best) = one.basis
        BY <3>2 DEF FirstBasis
      <4> QED  BY <2>2, <4>1
    <3> QED  BY <3>1, <3>2
  <2> QED  BY <1>1, <2>2, <2>3, <2>4
<1>3. Cardinality(best) = 1 => best # {}
  <2> HIDE DEF best
  <2> QED  BY EmptyHasNone
<1>4. e.amount # d.amount /\ exact # {} => best # {}
  OBVIOUS
<1>5. \/ m.id = "" /\ m.basis = "payment_header_allocations" /\ d.kind = "payment"
      \/ m.id = "" /\ m.basis = "document_header"
      \/ m.id = "" /\ m.basis = FirstBasis(best) /\ best # {}
      \/ Cardinality(best) = 1 /\ m.basis = one.basis
  <2> DEFINE p == Projected(d, one)
             f == FirstBasis(best)
             a == AllocatedTo(d, e.contract)
             h == [d EXCEPT !.contract = e.contract]
  <2>1. m = CASE /\ e.amount = d.amount
                 /\ d.kind = "payment" /\ e.contract # "" /\ a ->
                   DetailMatch(h, "payment_header_allocations", "", FALSE)
              [] /\ e.amount = d.amount
                 /\ ~(d.kind = "payment" /\ e.contract # "" /\ a) ->
                   DetailMatch(d, "document_header", "", FALSE)
              [] e.amount # d.amount /\ exact = {} ->
                   DetailMatch(d, "document_header", "", FALSE)
              [] e.amount # d.amount /\ Cardinality(best) = 1 ->
                   DetailMatch(p, one.basis, one.id, FALSE)
              [] OTHER -> DetailMatch(d, f, "", TRUE)
    BY DEF ProjectMatchingDetail
  <2> HIDE DEF p, f, a, h, best, exact, one
  <2>2. \/ m = DetailMatch(h, "payment_header_allocations", "", FALSE) /\ d.kind = "payment"
        \/ m = DetailMatch(d, "document_header", "", FALSE)
        \/ Cardinality(best) = 1 /\ m = DetailMatch(p, one.basis, one.id, FALSE)
        \/ m = DetailMatch(d, f, "", TRUE) /\ e.amount # d.amount /\ exact # {}
    BY <2>1
  <2>3. PICK blank : blank = ""
    OBVIOUS
  <2>4. \/ m = DetailMatch(h, "payment_header_allocations", blank, FALSE) /\ d.kind = "payment"
        \/ m = DetailMatch(d, "document_header", blank, FALSE)
        \/ Cardinality(best) = 1 /\ m = DetailMatch(p, one.basis, one.id, FALSE)
        \/ m = DetailMatch(d, f, blank, TRUE) /\ best # {}
    BY <1>4, <2>2, <2>3
  <2>5. \/ m.id = blank /\ m.basis = "payment_header_allocations" /\ d.kind = "payment"
        \/ m.id = blank /\ m.basis = "document_header"
        \/ m.id = blank /\ m.basis = f /\ best # {}
        \/ Cardinality(best) = 1 /\ m.basis = one.basis
    <3>1. ASSUME m = DetailMatch(h, "payment_header_allocations", blank, FALSE)
          PROVE  m.id = blank /\ m.basis = "payment_header_allocations"
      BY ONLY <3>1 DEF DetailMatch
    <3>2. ASSUME m = DetailMatch(d, "document_header", blank, FALSE)
          PROVE  m.id = blank /\ m.basis = "document_header"
      BY ONLY <3>2 DEF DetailMatch
    <3>3. ASSUME m = DetailMatch(p, one.basis, one.id, FALSE) PROVE m.basis = one.basis
      BY ONLY <3>3 DEF DetailMatch
    <3>4. ASSUME m = DetailMatch(d, f, blank, TRUE) PROVE m.id = blank /\ m.basis = f
      BY ONLY <3>4 DEF DetailMatch
    <3> QED  BY ONLY <2>4, <3>1, <3>2, <3>3, <3>4
  <2> QED  BY <2>3, <2>5 DEF f
<1>6. Cardinality(best) = 1 => one.basis # "document_header" /\ one.basis # "payment_header_allocations"
  BY <1>2, <1>3 DEF WholeBases
<1>7. best # {} => FirstBasis(best) # "payment_header_allocations"
  BY <1>2 DEF WholeBases
<1> HIDE DEF best, one
<1> QED  BY <1>5, <1>6, <1>7

LEMMA DocumentKeeps ==
  ASSUME ReportInv, MatchDocument
  PROVE  ReportInv'
<1>1. PICK e : e = Row
  OBVIOUS
<1>2. PICK i \in Candidates(Row) :
        LET m == ProjectMatchingDetail(Row, onec[i]) IN
        /\ Candidates(Row) = {i}
        /\ matched' = matched \cup {i}
        /\ used' = used \cup Consumed(i, onec[i], m)
        /\ Report(CompareMatchedDetail(Row, m), i, Confidence(Row), m.basis, m.id, m.document)
  BY DEF MatchDocument
<1>3. PICK m : m = ProjectMatchingDetail(Row, onec[i])
  OBVIOUS
<1>4. PICK x : x = IssueOf(CompareMatchedDetail(Row, m), pos, i, Confidence(Row), m.basis, m.id,
                           m.document)
  OBVIOUS
<1>5. /\ AtRow /\ issues' = Append(issues, x) /\ pos' = pos + 1 /\ UNCHANGED <<erp, onec, phase>>
      /\ matched' = matched \cup {i} /\ Candidates(e) = {i}
      /\ used' = used \cup Consumed(i, onec[i], m)
  BY <1>1, <1>2, <1>3, <1>4 DEF MatchDocument, Searched, Report
<1>6. /\ IsIssue(x) /\ x.erp = pos /\ x.onec = i /\ x.basis = m.basis /\ x.detail = m.id
      /\ x.status = CompareMatchedDetail(Row, m)
  BY <1>4 DEF IssueOf, IsIssue
<1>7. x.status \notin NotLookedUp \cup NotFound
  BY <1>6, DetailComparisonSays
<1>8. TakenFor(x)'
  <2>1. i \in matched'
    BY <1>5
  <2>2. m.basis = "document_header" =>
          \A n \in DOMAIN onec[i].lines : <<i, "document_line", onec[i].lines[n].id>> \in used'
    <3>1. ASSUME m.basis = "document_header", NEW n \in DOMAIN onec[i].lines
          PROVE  <<i, "document_line", onec[i].lines[n].id>> \in used'
      <4>1. m.id = ""
        BY <1>3, <3>1, HeaderHasNoId
      <4>2. <<i, "document_line", onec[i].lines[n].id>> \in Consumed(i, onec[i], m)
        BY <3>1, <4>1 DEF Consumed
      <4> QED  BY <1>5, <4>2
    <3> QED  BY <3>1
  <2>3. m.id # "" => <<i, m.basis, m.id>> \in used'
    BY <1>5 DEF Consumed
  <2>4. m.basis = "payment_header_allocations" => onec'[i].kind = "payment"
    BY <1>3, <1>5, HeaderHasNoId
  <2> QED  BY <1>5, <1>6, <2>1, <2>2, <2>3, <2>4 DEF TakenFor
<1>9. ASSUME NEW k \in RowsReported PROVE Apart(x, issues[k])
  <2>1. TakenFor(issues[k])
    BY DEF ReportInv, TakenInv
  <2>2. i \notin matched
    BY <1>2, CandidatesAre
  <2> QED  BY <1>6, <2>1, <2>2 DEF Apart, TakenFor
<1>10. Sought(x, e)'
  BY <1>5, <1>6, FoundSought DEF ReportInv
<1>11. LinesSought(x, e)'
  BY <1>7 DEF LinesSought
<1> QED  BY <1>1, <1>5, <1>6, <1>8, <1>9, <1>10, <1>11, RowReported

-----------------------------------------------------------------------------
(* The steps before the first row and after the last.                        *)

LEMMA NothingReported ==
  ASSUME Sequence(erp'), Sequence(onec'), Sequence(issues'), Len(issues') = 0, pos' = 1,
         phase' \in Preparing \cup {"match"}
  PROVE  ReportInv'
<1>1. DOMAIN issues' = {}
  BY SequenceHas
<1>2. OneCSide' = {} /\ RowsReported' = {}
  BY <1>1 DEF OneCSide, RowsReported
<1>3. Len(erp') \in Nat
  BY SequenceHas
<1>4. phase' \notin Later
  BY DEF Preparing, Later
<1>5. SidesInv'
  <2>1. pos' \in Nat /\ pos' \in 1..(Len(erp') + 1) /\ Len(issues') = pos' - 1
    BY <1>3
  <2>2. /\ \A k \in DOMAIN issues' : IsIssue(issues'[k])
        /\ \A k \in DOMAIN issues' : issues'[k].erp = (IF k \in Places' THEN k ELSE 0)
    BY <1>1
  <2>3. phase' # "unlinked"
    BY <1>4 DEF Later
  <2> QED  BY <1>2, <1>4, <2>1, <2>2, <2>3 DEF SidesInv
<1> QED  BY <1>2, <1>5 DEF ReportInv, TakenInv, SoughtInv

LEMMA PrepareKeeps ==
  ASSUME ReportInv, Prepare, UNCHANGED matchingVars
  PROVE  ReportInv'
<1>1. /\ phase \in Preparing /\ phase' \in Preparing \cup {"match"}
      /\ UNCHANGED <<issues, pos>>
  BY DEF Prepare, AggregateErp, AggregateOneC, Coalesce, Preparing, matchingVars
<1>2. Sequence(erp) /\ Sequence(onec) /\ Sequence(issues) /\ Len(issues) = 0 /\ pos = 1
  BY <1>1 DEF ReportInv, SidesInv
<1>3. Sequence(erp')
  BY <1>2, AggregatedAre, CoalescedAre DEF Prepare, AggregateErp, AggregateOneC, Coalesce
<1>4. Sequence(onec')
  BY <1>2, AggregatedAre DEF Prepare, AggregateErp, AggregateOneC, Coalesce
<1>5. Sequence(issues') /\ Len(issues') = 0 /\ pos' = 1
  BY <1>1, <1>2
<1> QED  BY <1>1, <1>3, <1>4, <1>5, NothingReported

\* What was reported of the rows stays true while nothing is taken.
LEMMA RowsStay ==
  ASSUME TakenInv, SoughtInv, UNCHANGED <<erp, onec, matched, used>>,
         \A k \in RowsReported' : k \in RowsReported /\ issues'[k] = issues[k]
  PROVE  TakenInv' /\ SoughtInv'
<1>1. TakenInv'
  <2>1. ASSUME NEW k \in RowsReported' PROVE TakenFor(issues[k])'
    BY <2>1 DEF TakenInv, TakenFor
  <2>2. ASSUME NEW j \in RowsReported', NEW k \in RowsReported', j # k
        PROVE  Apart(issues'[j], issues'[k])
    BY <2>2 DEF TakenInv
  <2> QED  BY <2>1, <2>2 DEF TakenInv
<1>2. SoughtInv'
  <2>1. ASSUME NEW k \in RowsReported'
        PROVE  Sought(issues[k], erp[k])' /\ LinesSought(issues[k], erp[k])'
    <3>1. Sought(issues[k], erp[k]) /\ LinesSought(issues[k], erp[k])
      BY DEF SoughtInv
    <3>2. PICK y, r : y = issues[k] /\ r = erp[k]
      OBVIOUS
    <3>3. Sought(y, r)'
      BY <3>1, <3>2 DEF Sought
    <3>4. LinesSought(y, r)'
      BY <3>1, <3>2, FreeLinesShrink DEF LinesSought
    <3>5. issues'[k] = y /\ erp'[k] = r
      BY <3>2
    <3> QED  BY <3>3, <3>4, <3>5 DEF Sought, LinesSought
  <2> QED  BY <2>1 DEF SoughtInv
<1> QED  BY <1>1, <1>2

\* A step that only passes on to another part of the program.
LEMMA PassedOn ==
  ASSUME ReportInv, UNCHANGED <<erp, onec, matched, used, issues>>,
         phase' \in Later, Len(erp) <= Len(issues), pos' \in Nat,
         phase' = "unlinked" => pos' \in 1..(Len(onec) + 1) /\ OneCReported = (1..(pos' - 1)) \ matched,
         phase' # "unlinked" => OneCReported = DOMAIN onec \ matched
  PROVE  ReportInv'
<1>1. Places' = Places /\ OneCSide' = OneCSide /\ OneCReported' = OneCReported
  BY DEF Places, OneCSide, OneCReported
<1>2. RowsReported' = RowsReported
  BY <1>1 DEF RowsReported
<1>3. TakenInv' /\ SoughtInv'
  BY <1>2, RowsStay DEF ReportInv
<1>4. phase' \notin Preparing \cup {"match"}
  BY DEF Later, Preparing
<1>5. SidesInv'
  BY <1>1, <1>4 DEF ReportInv, SidesInv
<1> QED  BY <1>3, <1>5 DEF ReportInv

LEMMA EndOfRowsKeeps ==
  ASSUME ReportInv, EndOfRows
  PROVE  ReportInv'
<1>1. /\ DOMAIN erp = Places /\ Places = 1..Len(erp) /\ Len(erp) \in Nat /\ Len(onec) \in Nat
      /\ DOMAIN issues = 1..Len(issues)
  BY PlacesAre DEF ReportInv
<1>2. pos \in 1..(Len(erp) + 1) /\ Len(issues) = pos - 1 /\ pos \notin DOMAIN erp
  BY DEF ReportInv, SidesInv, EndOfRows
<1>3. Len(issues) = Len(erp)
  BY <1>1, <1>2
<1>4. OneCSide = {} /\ OneCReported = {}
  BY <1>1, <1>3 DEF OneCSide, OneCReported
<1>5. /\ UNCHANGED <<erp, onec, matched, used, issues>> /\ phase' = "unlinked" /\ pos' = 1
      /\ phase' \in Later
  BY DEF EndOfRows, Later
<1>6. pos' \in Nat /\ pos' \in 1..(Len(onec) + 1) /\ OneCReported = (1..(pos' - 1)) \ matched
  BY <1>1, <1>4, <1>5
<1> QED  BY <1>1, <1>3, <1>5, <1>6, PassedOn

LEMMA EndOfDocumentsKeeps ==
  ASSUME ReportInv, EndOfDocuments
  PROVE  ReportInv'
<1>1. DOMAIN onec = 1..Len(onec) /\ Len(onec) \in Nat
  BY PlacesAre DEF ReportInv
<1>2. phase = "unlinked" /\ "unlinked" \in Later /\ "classify" \in Later
  BY DEF EndOfDocuments, Later
<1>3. /\ pos \in 1..(Len(onec) + 1) /\ OneCReported = (1..(pos - 1)) \ matched
      /\ Len(erp) <= Len(issues)
  BY <1>2 DEF ReportInv, SidesInv
<1>4. pos \notin DOMAIN onec
  BY DEF EndOfDocuments
<1>5. OneCReported = DOMAIN onec \ matched
  BY <1>1, <1>3, <1>4
<1>6. /\ UNCHANGED <<erp, onec, matched, used, issues>> /\ phase' = "classify" /\ pos' = 1
      /\ phase' # "unlinked"
  BY DEF EndOfDocuments
<1> QED  BY <1>2, <1>3, <1>5, <1>6, PassedOn

LEMMA LaterPartsKeep ==
  ASSUME ReportInv, UNCHANGED <<erp, onec, pos, matched, used, issues>>,
         phase \in Later \ {"unlinked"}, phase' \in Later \ {"unlinked"}
  PROVE  ReportInv'
<1>1. Len(erp) <= Len(issues) /\ OneCReported = DOMAIN onec \ matched /\ pos \in Nat
  BY DEF ReportInv, SidesInv
<1> QED  BY <1>1, PassedOn

LEMMA UnlinkedKeeps ==
  ASSUME ReportInv, ReportUnlinked
  PROVE  ReportInv'
<1>1. /\ DOMAIN erp = Places /\ Places = 1..Len(erp) /\ Len(erp) \in Nat
      /\ DOMAIN onec = 1..Len(onec) /\ Len(onec) \in Nat
      /\ DOMAIN issues = 1..Len(issues) /\ Len(issues) \in Nat
  BY PlacesAre DEF ReportInv
<1>2. /\ phase = "unlinked" /\ phase' = "unlinked" /\ pos \in DOMAIN onec /\ pos' = pos + 1
      /\ UNCHANGED <<erp, onec, matched, used>>
  BY DEF ReportUnlinked
<1>3. "unlinked" \in Later /\ "unlinked" \notin Preparing
  BY DEF Later, Preparing
<1>4. OneCReported = (1..(pos - 1)) \ matched /\ Len(erp) <= Len(issues) /\ Sequence(issues)
  BY <1>2, <1>3 DEF ReportInv, SidesInv
<1>5. pos' \in 1..(Len(onec) + 1) /\ pos' \in Nat /\ 1..(pos' - 1) = (1..(pos - 1)) \cup {pos}
  BY <1>1, <1>2
<1>6. Places' = Places
  BY <1>2 DEF Places
<1>7. CASE pos \in matched
  <2>1. UNCHANGED issues
    BY <1>7 DEF ReportUnlinked
  <2>2. OneCReported = (1..(pos' - 1)) \ matched
    BY <1>4, <1>5, <1>7
  <2> QED  BY <1>2, <1>3, <1>4, <1>5, <2>1, <2>2, PassedOn
<1>8. CASE pos \notin matched
  <2>1. PICK x : x = Unlinked
    OBVIOUS
  <2>2. IsIssue(x) /\ x.erp = 0 /\ x.onec = pos
    BY <2>1 DEF Unlinked, IssueOf, IsIssue
  <2>3. PICK n : n = Len(issues) + 1
    OBVIOUS
  <2>4. /\ Sequence(issues') /\ Len(issues') = n /\ issues'[n] = x
        /\ \A k \in DOMAIN issues : issues'[k] = issues[k]
    <3>1. PICK t : t = issues'
      OBVIOUS
    <3>2. t = Append(issues, x)
      BY <1>8, <2>1, <3>1 DEF ReportUnlinked
    <3>3. Sequence(t)
      BY ONLY <1>4, <3>2, AppendDoes
    <3>4. Len(t) = n
      BY ONLY <1>4, <2>3, <3>2, AppendDoes
    <3>5. t[n] = x
      BY ONLY <1>4, <2>3, <3>2, AppendDoes
    <3>6. \A k \in DOMAIN issues : t[k] = issues[k]
      BY ONLY <1>4, <3>2, AppendDoes
    <3> QED  BY <3>1, <3>3, <3>4, <3>5, <3>6
  <2>5. DOMAIN issues' = DOMAIN issues \cup {n} /\ n \notin DOMAIN issues /\ n \notin Places
    <3>1. DOMAIN issues' = 1..n
      BY <2>4, SequenceHas
    <3> QED  BY <1>1, <1>4, <2>3, <3>1
  <2>6. OneCSide' = OneCSide \cup {n} /\ n \notin OneCSide /\ OneCSide \subseteq DOMAIN issues
    BY <1>6, <2>5 DEF OneCSide
  <2>7. \A k \in RowsReported' : k \in RowsReported /\ issues'[k] = issues[k]
    BY <1>6, <2>4, <2>5 DEF RowsReported
  <2>8. TakenInv' /\ SoughtInv'
    BY <1>2, <2>7, RowsStay DEF ReportInv
  <2>9. OneCReported' = (1..(pos' - 1)) \ matched'
    <3>1. OneCReported' = OneCReported \cup {pos}
      BY <2>2, <2>4, <2>6 DEF OneCReported
    <3> QED  BY <1>2, <1>4, <1>5, <1>8, <3>1
  <2>10. \A j, k \in OneCSide' : issues'[j].onec = issues'[k].onec => j = k
    <3>1. \A k \in OneCSide : issues'[k] = issues[k] /\ issues[k].onec \in 1..(pos - 1)
      BY <1>4, <2>4, <2>6 DEF OneCReported
    <3>2. \A k \in OneCSide : issues[k].onec # pos
      BY <1>1, <1>2, <3>1
    <3>3. \A j, k \in OneCSide : issues[j].onec = issues[k].onec => j = k
      BY DEF ReportInv, SidesInv
    <3> QED  BY <2>2, <2>4, <2>6, <3>1, <3>2, <3>3
  <2>11. \A k \in DOMAIN issues' : /\ IsIssue(issues'[k])
                                   /\ issues'[k].erp = (IF k \in Places' THEN k ELSE 0)
    <3>1. \A k \in DOMAIN issues : /\ IsIssue(issues[k])
                                   /\ issues[k].erp = (IF k \in Places THEN k ELSE 0)
      BY DEF ReportInv, SidesInv
    <3> QED  BY <1>6, <2>2, <2>4, <2>5, <3>1
  <2>12. Len(erp') <= Len(issues')
    BY <1>1, <1>2, <1>4, <2>3, <2>4
  <2>13. Sequence(erp') /\ Sequence(onec')
    BY <1>2 DEF ReportInv, SidesInv
  <2>14. SidesInv'
    BY <1>2, <1>3, <1>5, <2>4, <2>9, <2>10, <2>11, <2>12, <2>13 DEF SidesInv
  <2> QED  BY <2>8, <2>14 DEF ReportInv
<1> QED  BY <1>7, <1>8

LEMMA ClassifiedSays ==
  ASSUME NEW x, NEW known, ClassifiedStatus(x, known) # x.status
  PROVE  /\ x.status \notin NotLookedUp
         /\ ClassifiedStatus(x, known) \notin NotFound
<1>1. x.status = "not_linked_to_delivery_in_erp"
  BY DEF ClassifiedStatus
<1>2. ClassifiedStatus(x, known) \in {"not_linked_to_delivery_in_erp", "not_comparable", "not_found_in_erp"}
  BY <1>1 DEF ClassifiedStatus
<1> QED  BY <1>1, <1>2 DEF NotLookedUp, NotFound

\* Only the status of an issue is classified, and never one that a row was
\* given for what it did not find.
LEMMA ClassifyKeeps ==
  ASSUME ReportInv, ClassifyIssue
  PROVE  ReportInv'
<1>1. /\ Places = 1..Len(erp) /\ Len(erp) \in Nat
      /\ DOMAIN issues = 1..Len(issues) /\ Len(issues) \in Nat
  BY PlacesAre DEF ReportInv
<1>2. /\ phase = "classify" /\ phase' = "classify" /\ pos \in DOMAIN issues /\ pos' = pos + 1
      /\ UNCHANGED <<erp, onec, matched, used>>
  BY DEF ClassifyIssue
<1>3. "classify" \in Later /\ "classify" \notin Preparing
  BY DEF Later, Preparing
<1>4. /\ Sequence(erp) /\ Sequence(onec) /\ Sequence(issues) /\ pos \in Nat /\ Len(erp) <= Len(issues)
      /\ \A k \in DOMAIN issues : IsIssue(issues[k])
      /\ \A k \in DOMAIN issues : issues[k].erp = (IF k \in Places THEN k ELSE 0)
      /\ OneCReported = DOMAIN onec \ matched
      /\ \A j, k \in OneCSide : issues[j].onec = issues[k].onec => j = k
  BY <1>2, <1>3 DEF ReportInv, SidesInv
<1>5. PICK known : issues' = [issues EXCEPT ![pos].status = ClassifiedStatus(issues[pos], known)]
  BY DEF ClassifyIssue
<1>6. DOMAIN issues' = DOMAIN issues
  BY <1>5
<1>7. Sequence(issues') /\ Len(issues') = Len(issues)
  <2>1. PICK t, n : t = issues' /\ n = Len(issues)
    OBVIOUS
  <2>2. n \in Nat /\ t = [k \in 1..n |-> t[k]]
    BY <1>1, <1>5, <2>1
  <2>3. Sequence(t)
    BY ONLY <2>2, ListIsSequence
  <2>4. Len(t) \in Nat /\ DOMAIN t = 1..Len(t) /\ DOMAIN t = 1..n
    BY ONLY <2>2, <2>3, SequenceHas
  <2> QED  BY <2>1, <2>2, <2>3, <2>4
<1>8. ASSUME NEW k \in DOMAIN issues
      PROVE  /\ IsIssue(issues'[k])
             /\ issues'[k].erp = issues[k].erp /\ issues'[k].onec = issues[k].onec
             /\ issues'[k].basis = issues[k].basis /\ issues'[k].detail = issues[k].detail
             /\ issues'[k].confidence = issues[k].confidence
             /\ issues'[k].status # issues[k].status =>
                  issues[k].status \notin NotLookedUp /\ issues'[k].status \notin NotFound
  <2>1. CASE k # pos
    BY <1>4, <1>5, <2>1
  <2>2. CASE k = pos
    <3>1. PICK y, x, z : y = issues'[k] /\ x = issues[k] /\ z = ClassifiedStatus(issues[pos], known)
      OBVIOUS
    <3>2. y = [x EXCEPT !.status = z]
      BY <1>5, <2>2, <3>1
    <3>3. IsIssue(x)
      BY <1>4, <3>1
    <3>4. IsIssue(y) /\ y.status = z /\ y.erp = x.erp /\ y.onec = x.onec /\ y.basis = x.basis
          /\ y.detail = x.detail /\ y.confidence = x.confidence
      BY ONLY <3>2, <3>3 DEF IsIssue
    <3>5. z = ClassifiedStatus(x, known)
      BY <2>2, <3>1
    <3>6. z # x.status => x.status \notin NotLookedUp /\ z \notin NotFound
      BY ONLY <3>5, ClassifiedSays
    <3> QED  BY <3>1, <3>4, <3>6
  <2> QED  BY <2>1, <2>2
<1>9. /\ Places' = Places /\ OneCSide' = OneCSide /\ RowsReported' = RowsReported
      /\ RowsReported \subseteq DOMAIN issues /\ OneCSide \subseteq DOMAIN issues
  BY <1>2, <1>6 DEF Places, OneCSide, RowsReported
<1>10. SidesInv'
  <2>1. OneCReported' = DOMAIN onec' \ matched'
    BY <1>2, <1>4, <1>8, <1>9 DEF OneCReported
  <2>2. \A j, k \in OneCSide' : issues'[j].onec = issues'[k].onec => j = k
    BY <1>4, <1>8, <1>9
  <2>3. \A k \in DOMAIN issues' : /\ IsIssue(issues'[k])
                                  /\ issues'[k].erp = (IF k \in Places' THEN k ELSE 0)
    BY <1>4, <1>6, <1>8, <1>9
  <2>4. Sequence(erp') /\ Sequence(onec') /\ pos' \in Nat /\ Len(erp') <= Len(issues')
    BY <1>2, <1>4, <1>7
  <2> QED  BY <1>2, <1>3, <1>7, <2>1, <2>2, <2>3, <2>4 DEF SidesInv
<1>11. TakenInv'
  <2>1. ASSUME NEW k \in RowsReported' PROVE TakenFor(issues[k])'
    <3>1. TakenFor(issues[k])
      BY <1>9 DEF ReportInv, TakenInv
    <3> QED  BY <1>2, <1>8, <1>9, <3>1 DEF TakenFor, ComparesAs
  <2>2. ASSUME NEW j \in RowsReported', NEW k \in RowsReported', j # k
        PROVE  Apart(issues'[j], issues'[k])
    <3>1. Apart(issues[j], issues[k])
      BY <1>9, <2>2 DEF ReportInv, TakenInv
    <3> QED  BY <1>8, <1>9, <3>1 DEF Apart, ComparesAs
  <2> QED  BY <2>1, <2>2 DEF TakenInv
<1>12. SoughtInv'
  <2>1. ASSUME NEW k \in RowsReported'
        PROVE  Sought(issues[k], erp[k])' /\ LinesSought(issues[k], erp[k])'
    <3>1. PICK x, y, r : x = issues[k] /\ y = issues'[k] /\ r = erp[k]
      OBVIOUS
    <3>2. /\ y.onec = x.onec
          /\ y.status # x.status => x.status \notin NotLookedUp /\ y.status \notin NotFound
      BY <1>8, <1>9, <3>1
    <3>3. Sought(x, r) /\ LinesSought(x, r)
      BY <1>9, <3>1 DEF ReportInv, SoughtInv
    <3>4. Sought(y, r)'
      BY <1>2, <3>2, <3>3 DEF Sought
    <3>5. LinesSought(y, r)'
      BY <1>2, <3>2, <3>3, FreeLinesShrink DEF LinesSought
    <3>6. erp'[k] = r
      BY <1>2, <3>1
    <3> QED  BY <3>1, <3>4, <3>5, <3>6 DEF Sought, LinesSought
  <2> QED  BY <2>1 DEF SoughtInv
<1> QED  BY <1>10, <1>11, <1>12 DEF ReportInv

-----------------------------------------------------------------------------
(* The run.                                                                  *)

LEMMA InitReports == Init => ReportInv
<1> SUFFICES ASSUME Init PROVE ReportInv
  OBVIOUS
<1>1. Sequence(erp) /\ Sequence(onec)
  <2>1. PICK reading \in Readings : erp = reading[1] /\ onec = reading[2]
    BY DEF Init, InitPreparation
  <2>2. reading[1] \in Seq(Document) /\ reading[2] \in Seq(Document)
    BY <2>1, ReadingsAssumption
  <2> QED  BY <2>1, <2>2 DEF Sequence
<1>2. /\ phase = "aggregate_erp" /\ phase \in Preparing /\ phase \notin Later /\ pos = 1
      /\ issues = << >> /\ Len(issues) = 0
  BY DEF Init, InitPreparation, InitMatching, Preparing, Later
<1>3. Sequence(issues)
  <2>1. issues \in Seq({})
    BY <1>2
  <2> QED  BY <2>1 DEF Sequence
<1>4. DOMAIN issues = {}
  BY <1>2
<1>5. OneCSide = {} /\ RowsReported = {}
  BY <1>4 DEF OneCSide, RowsReported
<1>6. SidesInv
  <2>1. phase # "match" /\ phase # "unlinked"
    BY <1>2
  <2> QED  BY <1>1, <1>2, <1>3, <1>4, <1>5, <2>1 DEF SidesInv
<1> QED  BY <1>5, <1>6 DEF ReportInv, TakenInv, SoughtInv

LEMMA NextReports == ReportInv /\ [Next]_vars => ReportInv'
<1> SUFFICES ASSUME ReportInv, [Next]_vars PROVE ReportInv'
  OBVIOUS
<1>1. CASE Prepare /\ UNCHANGED <<matchingVars, settlement, comparison, book>>
  BY <1>1, PrepareKeeps
<1>2. CASE Match
  <2>1. CASE ReportMissingErpDocument
    BY <2>1, MissingErpDocumentKeeps
  <2>2. CASE ReportNotFound
    BY <2>2, NotFoundKeeps
  <2>3. CASE ReportAmbiguousLine
    BY <2>3, AmbiguousLineKeeps
  <2>4. CASE MatchLine
    BY <2>4, LineKeeps
  <2>5. CASE ReportDuplicates
    BY <2>5, DuplicatesKeep
  <2>6. CASE ReportAmbiguousDetail
    BY <2>6, AmbiguousDetailKeeps
  <2>7. CASE MatchDocument
    BY <2>7, DocumentKeeps
  <2>8. CASE EndOfRows
    BY <2>8, EndOfRowsKeeps
  <2>9. CASE ReportUnlinked
    BY <2>9, UnlinkedKeeps
  <2>10. CASE EndOfDocuments
    BY <2>10, EndOfDocumentsKeeps
  <2>11. CASE ClassifyIssue
    BY <2>11, ClassifyKeeps
  <2>12. CASE EndOfIssues
    BY <2>12, LaterPartsKeep DEF EndOfIssues, Later
  <2> QED
    BY <1>2, <2>1, <2>2, <2>3, <2>4, <2>5, <2>6, <2>7, <2>8, <2>9, <2>10, <2>11, <2>12 DEF Match
<1>3. CASE CompareBalances
  BY <1>3, LaterPartsKeep DEF CompareBalances, Later, matchingVars
<1>4. CASE WriteWorkbook
  BY <1>4, LaterPartsKeep DEF WriteWorkbook, Later, matchingVars
<1>5. CASE UNCHANGED vars
  <2>1. UNCHANGED <<erp, onec, phase, pos, matched, used, issues>>
    BY <1>5 DEF vars, preparationVars, matchingVars
  <2>2. Places' = Places /\ OneCSide' = OneCSide /\ OneCReported' = OneCReported
    BY <2>1 DEF Places, OneCSide, OneCReported
  <2>3. RowsReported' = RowsReported
    BY <2>1, <2>2 DEF RowsReported
  <2>4. TakenInv' /\ SoughtInv'
    BY <2>1, <2>3, RowsStay DEF ReportInv
  <2>5. SidesInv'
    BY <2>1, <2>2 DEF ReportInv, SidesInv
  <2> QED  BY <2>4, <2>5 DEF ReportInv
<1> QED  BY <1>1, <1>2, <1>3, <1>4, <1>5 DEF Next

\* The report accounts for rows and documents, remembers what it took and left
\* nothing that a row asked for, whatever was read (match_documents).
THEOREM ReportInvHolds == Spec => []ReportInv
BY InitReports, NextReports, PTL DEF Spec

\* No row and no document drops out of the report and none is reported from
\* both sides, for any rows and documents (match_documents, _unmatched_onec).
THEOREM AllAccountedFor == Spec => []EveryDocumentAccountedFor
<1>1. ReportInv => EveryDocumentAccountedFor
  <2> SUFFICES ASSUME ReportInv PROVE EveryDocumentAccountedFor
    OBVIOUS
  <2>1. DOMAIN issues = 1..Len(issues) /\ Places = 1..Len(erp) /\ Len(erp) \in Nat
    BY PlacesAre DEF ReportInv
  <2>2. phase \in Preparing \cup {"match"} => OneCReported = {}
    <3>1. CASE phase \in Preparing
      <4>1. DOMAIN issues = {}
        BY <2>1, <3>1 DEF ReportInv, SidesInv
      <4> QED  BY <4>1 DEF OneCReported, OneCSide
    <3>2. CASE phase = "match"
      <4>1. Len(issues) = pos - 1 /\ pos \in 1..(Len(erp) + 1)
        BY <3>2 DEF ReportInv, SidesInv
      <4>2. OneCSide = {}
        BY <2>1, <4>1 DEF OneCSide
      <4> QED  BY <4>2 DEF OneCReported
    <3> QED  BY <3>1, <3>2
  <2>3. /\ \A k \in DOMAIN issues : issues[k].erp = (IF k \in Places THEN k ELSE 0)
        /\ phase = "match" => Len(issues) = pos - 1
        /\ phase = "unlinked" => OneCReported = (1..(pos - 1)) \ matched
        /\ phase \in Later \ {"unlinked"} => OneCReported = DOMAIN onec \ matched
        /\ \A j, k \in OneCSide : issues[j].onec = issues[k].onec => j = k
        /\ phase \in Preparing \cup {"match"} \cup Later
    BY DEF ReportInv, SidesInv
  <2>4. OneCReported = CASE phase = "unlinked" -> (1..(pos - 1)) \ matched
                         [] phase \in {"classify", "balance", "report", "done"}
                                                -> DOMAIN onec \ matched
                         [] OTHER               -> {}
    <3>1. CASE phase = "unlinked"
      BY <2>3, <3>1
    <3>2. CASE phase \in {"classify", "balance", "report", "done"}
      BY <2>3, <3>2 DEF Later
    <3>3. CASE phase \in Preparing \cup {"match"}
      BY <2>2, <3>3 DEF Preparing
    <3> QED  BY <2>3, <3>1, <3>2, <3>3 DEF Later
  <2> QED  BY <2>3, <2>4 DEF EveryDocumentAccountedFor, OneCReported, OneCSide
<1> QED  BY <1>1, ReportInvHolds, PTL

\* Of two rows compared with one document of 1C neither is compared with the
\* whole of it, and two that are compared with lines, or with allocations, that
\* have identifiers are compared with different ones, for any rows and documents
\* (matched_onec_indexes, used_detail_resources). A line and an allocation may be
\* the same part of the document: see DistinctRowsDistinctLines.
THEOREM ComparedOnce == Spec => []NothingComparedTwice
<1>1. ReportInv => NothingComparedTwice
  BY DEF ReportInv, TakenInv, RowsReported, Apart, ComparesAs, NothingComparedTwice, Compares
<1> QED  BY <1>1, ReportInvHolds, PTL

\* A document that stayed free is the document of no row that was looked up,
\* for any rows and documents (_candidate_indexes).
THEOREM NoPairMissed == Spec => []NoMissedPair
<1>1. ReportInv => NoMissedPair
  BY DEF ReportInv, SoughtInv, Sought, RowsReported, NotLookedUp, NoMissedPair, LookedUp
<1> QED  BY <1>1, ReportInvHolds, PTL

\* A row that is reported absent left no free line that it could be compared
\* with, for any rows and documents (_find_unlinked_detail_match).
THEOREM NoLineMissed == Spec => []NoMissedLine
<1>1. ReportInv => NoMissedLine
  BY DEF ReportInv, SoughtInv, LinesSought, RowsReported, NotFound, NoMissedLine
<1> QED  BY <1>1, ReportInvHolds, PTL

-----------------------------------------------------------------------------
(* What a comparison that says match has compared.                           *)

LEMMA StatusesNamed ==
  /\ STATUS_PRIORITY[1] = <<"amount", "amount_mismatch">>
  /\ STATUS_PRIORITY[2] = <<"currency", "amount_mismatch">>
  /\ STATUS_PRIORITY[3] = <<"contract_code1c", "contract_mismatch">>
  /\ STATUS_PRIORITY[4] = <<"contract_context", "contract_context_missing">>
  /\ STATUS_PRIORITY[5] = <<"date", "date_mismatch">>
  /\ STATUS_PRIORITY[6] = <<"code1c", "number_mismatch">>
  /\ STATUS_PRIORITY[7] = <<"number", "number_mismatch">>
  /\ STATUS_PRIORITY[8] = <<"vat_rate", "vat_mismatch">>
BY DEF STATUS_PRIORITY

\* Documents without a mismatch agree about code, date and money.
LEMMA MismatchDenied ==
  ASSUME NEW e, NEW d, MismatchFields(e, d) = {}
  PROVE  /\ ~ (Both(e.code, d.code) /\ e.code # d.code)
         /\ ~ (e.date # 0 /\ d.date # 0 /\ e.date # d.date)
         /\ e.amount.currency = d.amount.currency
         /\ e.amount.value = d.amount.value
<1>1. "code1c" \notin MismatchFields(e, d)
  OBVIOUS
<1>2. "date" \notin MismatchFields(e, d)
  OBVIOUS
<1>3. "currency" \notin MismatchFields(e, d)
  OBVIOUS
<1>4. "amount" \notin MismatchFields(e, d)
  OBVIOUS
<1>5. ~ (Both(e.code, d.code) /\ e.code # d.code)
  BY <1>1 DEF MismatchFields
<1>6. ~ (e.date # 0 /\ d.date # 0 /\ e.date # d.date)
  BY <1>2 DEF MismatchFields
<1>7. e.amount.currency = d.amount.currency
  BY <1>3 DEF MismatchFields
<1>8. e.amount.value = d.amount.value
  BY <1>4, <1>7 DEF MismatchFields
<1> QED  BY <1>5, <1>6, <1>7, <1>8

\* Every mismatch has a status of its own, and none of them is match.
LEMMA MatchMeansEqual ==
  ASSUME NEW e, NEW d, CompareDocuments(e, d) = "match"
  PROVE  MismatchFields(e, d) = {}
<1> SUFFICES ASSUME MismatchFields(e, d) # {} PROVE CompareDocuments(e, d) # "match"
  OBVIOUS
<1> DEFINE fields == MismatchFields(e, d)
           p(k) == STATUS_PRIORITY[k]
<1>1. fields \subseteq {"code1c", "number", "date", "currency", "amount",
                        "contract_code1c", "contract_context", "vat_rate"}
  BY DEF MismatchFields
<1> HIDE DEF fields, p
<1>2. /\ p(1)[1] = "amount" /\ p(2)[1] = "currency" /\ p(3)[1] = "contract_code1c"
      /\ p(4)[1] = "contract_context" /\ p(5)[1] = "date" /\ p(6)[1] = "code1c"
      /\ p(7)[1] = "number" /\ p(8)[1] = "vat_rate"
  BY StatusesNamed DEF p
<1>3. \A k \in 1..8 : p(k)[2] # "match"
  <2>1. \A k \in 1..8 : p(k)[2] \in {"amount_mismatch", "contract_mismatch", "contract_context_missing",
                                     "date_mismatch", "number_mismatch", "vat_mismatch"}
    BY StatusesNamed DEF p
  <2> QED  BY <2>1
<1> DEFINE S == {k \in 1..8 : p(k)[1] \in fields}
<1>4. S # {} /\ S \in SUBSET Nat
  BY <1>1, <1>2 DEF fields
<1>5. PICK k \in S : \A j \in S : k <= j
  BY <1>4, LeastNumber
<1>6. k \in 1..8 /\ Decides(k, fields)
  BY <1>5 DEF Decides, p
<1> HIDE DEF S
<1>7. PICK n \in 1..8 : StatusOf(fields) = p(n)[2]
  BY <1>6 DEF StatusOf, p, fields
<1> QED  BY <1>3, <1>7 DEF CompareDocuments, fields

-----------------------------------------------------------------------------
IsMoney(m) == m = [value |-> m.value, currency |-> m.currency]

HasFields(d) ==
  d = [kind |-> d.kind, code |-> d.code, number |-> d.number, incoming |-> d.incoming,
       date |-> d.date, amount |-> d.amount, contract |-> d.contract, vat |-> d.vat,
       source_id |-> d.source_id, operation |-> d.operation, parent |-> d.parent,
       related |-> d.related, lines |-> d.lines, allocations |-> d.allocations]

IsDocument(d) == HasFields(d) /\ IsMoney(d.amount)

LEMMA DocumentsAreDocuments ==
  ASSUME NEW d \in Document
  PROVE  IsDocument(d)
<1>1. d.amount \in Money
  BY DEF Document
<1>2. IsMoney(d.amount)
  BY <1>1 DEF Money, IsMoney
<1> QED  BY <1>2 DEF Document, IsDocument, HasFields

LEMMA SameMoney ==
  ASSUME NEW m, NEW n, IsMoney(m), IsMoney(n), m.value = n.value, m.currency = n.currency
  PROVE  m = n
BY DEF IsMoney

\* The contract of a part: its own, or that of its document.
HeldFor(x, d) == IF x.contract = "" THEN d.contract ELSE x.contract

LEMMA PartMeant ==
  ASSUME NEW e, NEW d, IsDocument(d), NEW m, m = ProjectMatchingDetail(e, d), ~ m.ambiguous
  PROVE  /\ HasFields(m.document)
         /\ m.document.date = d.date /\ m.document.code = d.code
         /\ \/ /\ m.basis \in WholeBases
               /\ m.document.amount = d.amount
            \/ \E x \in Details(d) :
                 /\ x.amount = e.amount /\ x.id = m.id /\ x.basis = m.basis
                 /\ m.document.amount = x.amount /\ m.document.contract = HeldFor(x, d)
<1> DEFINE exact == {x \in Details(d) : x.amount = e.amount}
           close == {x \in exact : e.contract # "" /\ x.contract = e.contract}
           best  == IF close # {} THEN close ELSE exact
           one   == CHOOSE y \in best : TRUE
           p == Projected(d, one)
           f == FirstBasis(best)
           a == AllocatedTo(d, e.contract)
           h == [d EXCEPT !.contract = e.contract]
<1>1. m = CASE /\ e.amount = d.amount
               /\ d.kind = "payment" /\ e.contract # "" /\ a ->
                 DetailMatch(h, "payment_header_allocations", "", FALSE)
            [] /\ e.amount = d.amount
               /\ ~(d.kind = "payment" /\ e.contract # "" /\ a) ->
                 DetailMatch(d, "document_header", "", FALSE)
            [] e.amount # d.amount /\ exact = {} ->
                 DetailMatch(d, "document_header", "", FALSE)
            [] e.amount # d.amount /\ Cardinality(best) = 1 ->
                 DetailMatch(p, one.basis, one.id, FALSE)
            [] OTHER -> DetailMatch(d, f, "", TRUE)
  BY DEF ProjectMatchingDetail
<1>2. Cardinality(best) = 1 => one \in exact
  <2>1. best \subseteq exact
    BY DEF best, close
  <2> HIDE DEF best
  <2>2. Cardinality(best) = 1 => best # {}
    BY EmptyHasNone
  <2>3. Cardinality(best) = 1 => one \in best
    BY <2>2
  <2> QED  BY <2>1, <2>3
<1>3. /\ h.date = d.date /\ h.code = d.code /\ h.amount = d.amount
      /\ p.date = d.date /\ p.code = d.code
      /\ p.amount = one.amount /\ p.contract = HeldFor(one, d)
      /\ HasFields(d) /\ HasFields(h) /\ HasFields(p)
  <2>1. PICK v, w, u : /\ p = [d EXCEPT !.amount = v, !.contract = w, !.vat = u]
                       /\ v = one.amount /\ w = HeldFor(one, d)
    <3> HIDE DEF one
    <3>1. PICK x, u, v, w : x = one /\ u = DetailVatRate(d, x.id) /\ v = x.amount
                            /\ w = HeldFor(x, d)
      OBVIOUS
    <3>2. (IF x.contract # "" THEN x.contract ELSE d.contract) = w
      BY <3>1 DEF HeldFor
    <3>3. p = [d EXCEPT !.amount = v, !.contract = w, !.vat = u]
      BY <3>1, <3>2 DEF Projected
    <3> QED  BY <3>1, <3>3
  <2>2. h.date = d.date /\ h.code = d.code /\ h.amount = d.amount /\ HasFields(h)
    BY DEF IsDocument, HasFields
  <2> HIDE DEF p
  <2>3. p.date = d.date /\ p.code = d.code /\ p.amount = v /\ p.contract = w /\ HasFields(p)
    BY <2>1 DEF IsDocument, HasFields
  <2> QED  BY <2>1, <2>2, <2>3 DEF IsDocument
<1>4. \A x \in exact : x \in Details(d) /\ x.amount = e.amount
  BY DEF exact
<1> HIDE DEF p, f, a, h, best, exact, one
<1>5. PICK blank : blank = ""
  OBVIOUS
<1>6. \/ m = DetailMatch(h, "payment_header_allocations", blank, FALSE)
      \/ m = DetailMatch(d, "document_header", blank, FALSE)
      \/ Cardinality(best) = 1 /\ m = DetailMatch(p, one.basis, one.id, FALSE)
      \/ m = DetailMatch(d, f, blank, TRUE)
  BY <1>1, <1>5
<1>7. CASE m = DetailMatch(h, "payment_header_allocations", blank, FALSE)
  <2>1. m.document = h /\ m.basis = "payment_header_allocations"
    BY ONLY <1>7 DEF DetailMatch
  <2> QED  BY <1>3, <2>1 DEF WholeBases
<1>8. CASE m = DetailMatch(d, "document_header", blank, FALSE)
  <2>1. m.document = d /\ m.basis = "document_header"
    BY ONLY <1>8 DEF DetailMatch
  <2> QED  BY <1>3, <2>1 DEF WholeBases
<1>9. CASE Cardinality(best) = 1 /\ m = DetailMatch(p, one.basis, one.id, FALSE)
  <2>1. m.document = p /\ m.basis = one.basis /\ m.id = one.id
    BY ONLY <1>9 DEF DetailMatch
  <2>2. one \in Details(d) /\ one.amount = e.amount
    BY <1>2, <1>4, <1>9
  <2> QED  BY <1>3, <2>1, <2>2
<1>10. CASE m = DetailMatch(d, f, blank, TRUE)
  <2>1. m.ambiguous = TRUE
    BY ONLY <1>10 DEF DetailMatch
  <2> QED  BY <2>1
<1> QED  BY <1>6, <1>7, <1>8, <1>9, <1>10

\* A comparison that matches compares equal money, and dates and codes that do
\* not contradict each other, whatever contract is put into the document.
LEMMA DetailMatchMeans ==
  ASSUME NEW e, NEW m, HasFields(m.document), CompareMatchedDetail(e, m) = "match"
  PROVE  /\ ~ (Both(e.code, m.document.code) /\ e.code # m.document.code)
         /\ ~ (e.date # 0 /\ m.document.date # 0 /\ e.date # m.document.date)
         /\ e.amount.currency = m.document.amount.currency
         /\ e.amount.value = m.document.amount.value
<1>1. PICK d : d = IF Both(e.contract, m.document.contract)
                   THEN [m.document EXCEPT !.contract = e.contract]
                   ELSE m.document
  OBVIOUS
<1>2. d.code = m.document.code /\ d.date = m.document.date /\ d.amount = m.document.amount
  BY <1>1 DEF HasFields
<1>3. CompareDocuments(e, d) = "match"
  BY <1>1 DEF CompareMatchedDetail
<1>4. MismatchFields(e, d) = {}
  BY <1>3, MatchMeansEqual
<1> QED  BY <1>2, <1>4, MismatchDenied

-----------------------------------------------------------------------------
(* What a row was matched with is what the row says.                         *)

\* The issue x of row e is a match only of what row e says.
Exact(x, e) ==
  x.status = "match" =>
    /\ x.onec \in DOMAIN onec /\ x.confidence # "ambiguous"
    /\ e.kind = onec[x.onec].kind
    /\ e.amount \in PartsOf(x.onec, x.basis, x.detail)
    /\ e.date # 0 /\ onec[x.onec].date # 0 => e.date = onec[x.onec].date
    /\ Both(e.code, onec[x.onec].code) => e.code = onec[x.onec].code

ExactInv == \A k \in RowsReported : Exact(issues[k], erp[k])

Shaped(s) == \A k \in DOMAIN s : IsDocument(s[k])

ShapedInv == Shaped(erp) /\ Shaped(onec)

LEMMA DocumentMatchedExactly ==
  ASSUME ReportInv, ShapedInv, MatchDocument
  PROVE  Exact(issues'[pos], Row)
<1>1. PICK i \in Candidates(Row) :
        LET m == ProjectMatchingDetail(Row, onec[i]) IN
        /\ Candidates(Row) = {i}
        /\ ~ m.ambiguous
        /\ Report(CompareMatchedDetail(Row, m), i, Confidence(Row), m.basis, m.id, m.document)
  BY DEF MatchDocument
<1>2. PICK m, x, e, d : /\ m = ProjectMatchingDetail(Row, onec[i]) /\ e = Row /\ d = onec[i]
                        /\ x = IssueOf(CompareMatchedDetail(Row, m), pos, i, Confidence(Row),
                                       m.basis, m.id, m.document)
  OBVIOUS
<1>3. issues'[pos] = x
  <2>1. issues' = Append(issues, x)
    BY <1>1, <1>2 DEF Report
  <2>2. Sequence(issues) /\ Len(issues) = pos - 1 /\ pos \in Nat
    BY DEF ReportInv, SidesInv, MatchDocument, Searched, AtRow
  <2>3. PICK t : t = issues'
    OBVIOUS
  <2>4. t[Len(issues) + 1] = x
    BY ONLY <2>1, <2>2, <2>3, AppendDoes
  <2> QED  BY <2>2, <2>3, <2>4
<1>4. /\ x.status = CompareMatchedDetail(e, m) /\ x.confidence = Confidence(Row)
      /\ x.onec = i /\ x.basis = m.basis /\ x.detail = m.id
  BY <1>2 DEF IssueOf
<1>5. i \in DOMAIN onec /\ e.kind = d.kind
  <2>1. i \in Free(HitKey(Row), Row)
    BY DEF Candidates, SameContract
  <2> QED  BY <1>2, <2>1 DEF Free, SameKey
<1>6. IsDocument(e) /\ IsDocument(d)
  BY <1>2, <1>5 DEF ShapedInv, Shaped, Row, MatchDocument, Searched, AtRow
<1>7. ASSUME x.status = "match"
      PROVE  /\ e.amount \in PartsOf(i, m.basis, m.id)
             /\ (e.date # 0 /\ d.date # 0 => e.date = d.date)
             /\ (Both(e.code, d.code) => e.code = d.code)
  <2>1. /\ HasFields(m.document)
        /\ m.document.date = d.date /\ m.document.code = d.code
        /\ \/ /\ m.basis \in WholeBases
              /\ m.document.amount = d.amount
           \/ \E y \in Details(d) : y.amount = e.amount /\ y.id = m.id /\ y.basis = m.basis
    <3>1. PICK b : b = onec[i] /\ m = ProjectMatchingDetail(e, b)
      BY <1>2
    <3> QED  BY <1>1, <1>2, <1>6, <3>1, PartMeant
  <2>2. CompareMatchedDetail(e, m) = "match"
    BY <1>4, <1>7
  <2>3. /\ ~ (Both(e.code, d.code) /\ e.code # d.code)
        /\ ~ (e.date # 0 /\ d.date # 0 /\ e.date # d.date)
        /\ e.amount.currency = m.document.amount.currency
        /\ e.amount.value = m.document.amount.value
    BY <2>1, <2>2, DetailMatchMeans
  <2>4. CASE m.basis \in WholeBases
             /\ m.document.amount = d.amount
    <3>1. e.amount = d.amount
      BY <1>6, <2>3, <2>4, SameMoney DEF IsDocument
    <3> QED  BY <1>2, <2>3, <2>4, <3>1 DEF PartsOf
  <2>5. CASE \E y \in Details(d) : y.amount = e.amount /\ y.id = m.id /\ y.basis = m.basis
    <3>1. \A y \in Details(d) : y.basis \notin WholeBases
      BY DEF Details, WholeBases
    <3> QED  BY <1>2, <2>3, <2>5, <3>1 DEF PartsOf
  <2> QED  BY <2>1, <2>4, <2>5
<1> QED  BY <1>1, <1>2, <1>3, <1>4, <1>5, <1>7, OneIsClear DEF Exact

LEMMA LineMatchedExactly ==
  ASSUME ReportInv, ShapedInv, MatchLine
  PROVE  Exact(issues'[pos], Row)
<1>1. PICK c \in LineCandidates(Row) :
        LET m == LineMatch(c) IN
        Report(CompareMatchedDetail(WithIdentifiersOf(Row, onec[c[1]]), m),
               c[1], "detail", m.basis, m.id, m.document)
  BY DEF MatchLine
<1>2. PICK m, x, e, d : /\ m = LineMatch(c) /\ e = Row /\ d = onec[c[1]]
                        /\ x = IssueOf(CompareMatchedDetail(WithIdentifiersOf(Row, onec[c[1]]), m),
                                       pos, c[1], "detail", m.basis, m.id, m.document)
  OBVIOUS
<1>3. issues'[pos] = x
  <2>1. issues' = Append(issues, x)
    BY <1>1, <1>2 DEF Report
  <2>2. Sequence(issues) /\ Len(issues) = pos - 1 /\ pos \in Nat
    BY DEF ReportInv, SidesInv, MatchLine, Searched, AtRow
  <2>3. PICK t : t = issues'
    OBVIOUS
  <2>4. t[Len(issues) + 1] = x
    BY ONLY <2>1, <2>2, <2>3, AppendDoes
  <2> QED  BY <2>2, <2>3, <2>4
<1>4. x.onec = c[1] /\ x.basis = m.basis /\ x.detail = m.id /\ x.confidence = "detail"
  BY <1>2 DEF IssueOf
<1>5. /\ c[1] \in DOMAIN onec /\ c[2] \in DOMAIN d.lines
      /\ e.kind = d.kind /\ e.date = d.date /\ (e.code # "" => d.code = e.code)
      /\ d.lines[c[2]].amount = e.amount
  <2>1. c \in FreeLines(Row)
    BY DEF LineCandidates
  <2>2. c \in UNION {{i} \X DOMAIN onec[i].lines : i \in DOMAIN onec}
    BY <2>1 DEF FreeLines
  <2>3. c[1] \in DOMAIN onec /\ c[2] \in DOMAIN onec[c[1]].lines
    BY <2>2
  <2> QED  BY <1>2, <2>1, <2>3 DEF FreeLines
<1>6. m.basis = "document_line" /\ m.id = d.lines[c[2]].id
  BY <1>2 DEF LineMatch, DetailMatch
<1>7. e.amount \in PartsOf(c[1], m.basis, m.id)
  <2>1. \E y \in Details(d) : y.amount = e.amount /\ y.id = m.id /\ y.basis = m.basis
    <3>1. PICK y : y = [slot |-> <<"line", c[2]>>, amount |-> d.lines[c[2]].amount,
                        contract |-> d.lines[c[2]].contract, id |-> d.lines[c[2]].id,
                        basis |-> "document_line"]
      OBVIOUS
    <3>2. y \in {[slot |-> <<"line", k>>, amount |-> d.lines[k].amount,
                  contract |-> d.lines[k].contract, id |-> d.lines[k].id,
                  basis |-> "document_line"] : k \in DOMAIN d.lines}
      BY <1>5, <3>1
    <3>3. y \in Details(d)
      BY <3>2 DEF Details
    <3>4. y.amount = d.lines[c[2]].amount /\ y.id = d.lines[c[2]].id /\ y.basis = "document_line"
      BY ONLY <3>1
    <3> QED  BY <1>5, <1>6, <3>3, <3>4
  <2> QED  BY <1>2, <1>6, <2>1 DEF PartsOf, WholeBases
<1>8. Both(e.code, d.code) => e.code = d.code
  BY <1>5 DEF Both
<1> QED  BY <1>2, <1>3, <1>4, <1>5, <1>7, <1>8 DEF Exact

-----------------------------------------------------------------------------
(* The documents that are compared are whole, and a payment is one of them.  *)

\* The places of a finite set, in their order: there is a k-th, and only one k
\* has it.
LEMMA NthExists ==
  ASSUME NEW S \in SUBSET Nat, IsFiniteSet(S), NEW n \in 1..Cardinality(S)
  PROVE  \E i \in S : Cardinality({j \in S : j < i}) = n - 1
<1> DEFINE below(i) == {j \in S : j < i}
           Bad == {k \in 1..Cardinality(S) : \A i \in S : Cardinality(below(i)) # k - 1}
<1> SUFFICES Bad = {}
  OBVIOUS
<1>1. Cardinality(S) \in Nat
  BY FS_CardinalityType
<1>2. SUFFICES ASSUME Bad # {} PROVE FALSE
  OBVIOUS
<1>3. Bad \in SUBSET Nat
  BY <1>1
<1>4. PICK k \in Bad : \A j \in Bad : k <= j
  BY <1>2, <1>3, LeastNumber
<1>5. k \in 1..Cardinality(S) /\ \A i \in S : Cardinality(below(i)) # k - 1
  BY DEF Bad
<1>6. CASE k = 1
  <2>1. S # {}
    <3>1. SUFFICES ASSUME S = {} PROVE FALSE
      OBVIOUS
    <3>2. Cardinality(S) = 0
      BY <3>1, FS_EmptySet
    <3> QED  BY <1>5, <1>6, <3>2
  <2>2. PICK i \in S : \A j \in S : i <= j
    BY <2>1, LeastNumber
  <2>3. below(i) = {}
    <3>1. \A j \in S : j \in Nat /\ i \in Nat
      OBVIOUS
    <3>2. \A j \in S : ~ (j < i)
      BY ONLY <2>2, <3>1
    <3> QED  BY <3>2
  <2>4. Cardinality(below(i)) = 0
    BY <2>3, FS_EmptySet
  <2> QED  BY <1>5, <1>6, <2>4
<1>7. CASE k # 1
  <2>1. k - 1 \in 1..Cardinality(S) /\ k - 1 \notin Bad
    BY <1>1, <1>4, <1>5, <1>7
  <2>2. PICK i \in S : Cardinality(below(i)) = (k - 1) - 1
    BY <2>1
  <2>3. IsFiniteSet(below(i)) /\ i \notin below(i)
    BY FS_Subset
  <2> DEFINE T == below(i) \cup {i}
  <2>4. IsFiniteSet(T) /\ Cardinality(T) = k - 1
    <3>1. Cardinality(T) = Cardinality(below(i)) + 1
      BY <2>3, FS_AddElement
    <3>2. IsFiniteSet(T)
      BY <2>3, FS_AddElement
    <3> QED  BY <1>1, <1>5, <2>2, <3>1, <3>2
  <2>5. S \ T # {}
    <3>1. SUFFICES ASSUME S = T PROVE FALSE
      BY DEF T
    <3> HIDE DEF T
    <3> QED  BY <1>1, <1>5, <2>4, <3>1
  <2>6. PICK r \in S \ T : \A j \in S \ T : r <= j
    BY <2>5, LeastNumber
  <2>7. below(r) = T
    <3>1. \A j \in S : j \in Nat /\ i \in Nat /\ r \in Nat
      BY <2>6
    <3>2. \A j \in S : j \in T <=> (j < i \/ j = i)
      OBVIOUS
    <3>3. \A j \in S : j < r <=> j \in T
      BY ONLY <2>6, <3>1, <3>2
    <3>4. T \subseteq S
      OBVIOUS
    <3> HIDE DEF T
    <3> QED  BY <3>3, <3>4
  <2> QED  BY <1>5, <2>4, <2>6, <2>7
<1> QED  BY <1>6, <1>7

LEMMA NthIs ==
  ASSUME NEW S \in SUBSET Nat, IsFiniteSet(S), NEW k \in 1..Cardinality(S)
  PROVE  Nth(S, k) \in S /\ Cardinality({j \in S : j < Nth(S, k)}) = k - 1
BY NthExists DEF Nth

LEMMA NthDistinct ==
  ASSUME NEW S \in SUBSET Nat, IsFiniteSet(S),
         NEW j \in 1..Cardinality(S), NEW k \in 1..Cardinality(S), Nth(S, j) = Nth(S, k)
  PROVE  j = k
<1>1. Cardinality(S) \in Nat
  BY FS_CardinalityType
<1>2. PICK c, i : i = Nth(S, k) /\ c = Cardinality({m \in S : m < i})
  OBVIOUS
<1>3. c = j - 1
  BY <1>2, NthIs
<1>4. c = k - 1
  BY <1>2, NthIs
<1> QED  BY <1>1, <1>3, <1>4

LEMMA NthPlace ==
  ASSUME NEW s, Sequence(s), NEW S \in SUBSET DOMAIN s
  PROVE  /\ S \in SUBSET Nat /\ IsFiniteSet(S) /\ Cardinality(S) \in Nat
         /\ \A k \in 1..Cardinality(S) : Nth(S, k) \in S
<1>1. S \in SUBSET Nat /\ IsFiniteSet(S)
  BY SequenceHas, FS_Subset
<1> QED  BY <1>1, NthIs, FS_CardinalityType

\* The first member of a group is a member of it.
LEMMA FirstMember ==
  ASSUME NEW s, Sequence(s), NEW S \in SUBSET DOMAIN s, S # {}
  PROVE  \E f \in S : Members(s, S)[1] = s[f]
<1>1. Cardinality(S) \in Nat /\ Cardinality(S) # 0
  <2>1. IsFiniteSet(S) /\ Cardinality(S) \in Nat
    BY NthPlace
  <2> QED  BY <2>1, FS_EmptySet
<1>2. 1 \in 1..Cardinality(S)
  BY <1>1
<1> QED  BY <1>2, NthPlace DEF Members

-----------------------------------------------------------------------------
\* Document d has the identity of row e.
StandsFor(d, e) ==
  /\ IsDocument(d)
  /\ d.kind = e.kind /\ d.code = e.code /\ d.number = e.number
  /\ d.source_id = e.source_id /\ d.date = e.date /\ d.amount.currency = e.amount.currency

LEMMA MergedStands ==
  ASSUME NEW s, NEW contract, NEW vat, IsDocument(s[1])
  PROVE  StandsFor(Merged(s, contract, vat), s[1])
<1> DEFINE d == s[1]
           m == Merged(s, contract, vat)
           total == Total(s)
           related == \E k \in DOMAIN s : s[k].related
           lines == FlattenSeq([k \in DOMAIN s |-> s[k].lines])
           allocations == FlattenSeq([k \in DOMAIN s |-> s[k].allocations])
<1>1. m = [d EXCEPT !.amount.value = total,
                    !.contract = contract, !.vat = vat, !.operation = 0,
                    !.related = related, !.lines = lines, !.allocations = allocations]
  BY DEF Merged
<1>2. HasFields(d) /\ IsMoney(d.amount)
  BY DEF IsDocument
<1> HIDE DEF d, m, total, related, lines, allocations
<1>3. m.amount = [d.amount EXCEPT !.value = total]
  BY ONLY <1>1, <1>2 DEF HasFields
<1>4. /\ HasFields(m)
      /\ m.kind = d.kind /\ m.code = d.code /\ m.number = d.number
      /\ m.source_id = d.source_id /\ m.date = d.date
  BY ONLY <1>1, <1>2 DEF HasFields
<1>5. IsMoney(m.amount) /\ m.amount.currency = d.amount.currency
  BY ONLY <1>2, <1>3 DEF IsMoney
<1> QED  BY <1>4, <1>5 DEF StandsFor, IsDocument, d, m

LEMMA AggregatedStands ==
  ASSUME NEW s, Sequence(s), Shaped(s), NEW S \in SUBSET DOMAIN s, S # {}
  PROVE  \E f \in S : StandsFor(Aggregated(Members(s, S)), s[f])
<1>1. PICK f \in S : Members(s, S)[1] = s[f]
  BY FirstMember
<1>2. PICK t : t = Members(s, S)
  OBVIOUS
<1>3. IsDocument(t[1])
  BY <1>1, <1>2 DEF Shaped
<1>4. StandsFor(Aggregated(t), t[1])
  <2>1. CASE Len(t) = 1
    BY <1>3, <2>1 DEF Aggregated, StandsFor
  <2>2. CASE Len(t) # 1
    <3>1. PICK contract, vat : Aggregated(t) = Merged(t, contract, vat)
      BY <2>2 DEF Aggregated
    <3> QED  BY <1>3, <3>1, MergedStands
  <2> QED  BY <2>1, <2>2
<1> QED  BY <1>1, <1>2, <1>4

OnePayment(s) ==
  \A i, j \in DOMAIN s :
    /\ s[i].kind = "payment" /\ s[j].kind = "payment"
    /\ DocumentId(s[i]) # "" /\ DocumentId(s[i]) = DocumentId(s[j])
    /\ s[i].source_id = s[j].source_id /\ s[i].date = s[j].date
    /\ s[i].amount.currency = s[j].amount.currency
    => i = j

LEMMA PaymentHasKey ==
  ASSUME NEW d, d.kind = "payment", DocumentId(d) # ""
  PROVE  /\ AggregationKey(d) = <<d.kind, DocumentId(d), d.source_id, d.amount.currency, d.date>>
         /\ AggregationKey(d) # NoKey
<1>1. AggregationKey(d) = <<d.kind, DocumentId(d), d.source_id, d.amount.currency, d.date>>
  BY DEF AggregationKey
<1>2. PICK a, b, c, x, y : AggregationKey(d) = <<a, b, c, x, y>>
  BY <1>1
<1>3. <<a, b, c, x, y>> # NoKey
  BY DEF NoKey
<1> QED  BY <1>1, <1>2, <1>3

LEMMA SameIdentitySameKey ==
  ASSUME NEW d, NEW e, StandsFor(d, e), d.kind = "payment", DocumentId(d) # ""
  PROVE  /\ AggregationKey(e) = <<d.kind, DocumentId(d), d.source_id, d.amount.currency, d.date>>
         /\ AggregationKey(e) # NoKey
<1>1. e.kind = "payment" /\ DocumentId(e) = DocumentId(d)
  BY DEF StandsFor, DocumentId
<1>2. AggregationKey(e) = <<e.kind, DocumentId(e), e.source_id, e.amount.currency, e.date>>
  BY <1>1, PaymentHasKey
<1>3. AggregationKey(e) # NoKey
  BY <1>1, PaymentHasKey
<1> QED  BY <1>1, <1>2, <1>3 DEF StandsFor

LEMMA AggregationMeets ==
  ASSUME NEW s, Sequence(s), Shaped(s)
  PROVE  Shaped(AggregateDocuments(s)) /\ OnePayment(AggregateDocuments(s))
<1> DEFINE group(i) == {j \in DOMAIN s : AggregationKey(s[j]) = AggregationKey(s[i])}
           plain == {i \in DOMAIN s : AggregationKey(s[i]) = NoKey}
           leaders == {i \in DOMAIN s \ plain : i = Min(group(i))}
           n == Cardinality(plain)
           m == Cardinality(leaders)
           one == Members(s, plain)
           two == [k \in 1..m |-> Aggregated(Members(s, group(Nth(leaders, k))))]
           all == AggregateDocuments(s)
<1>1. all = one \o two
  BY DEF AggregateDocuments, Group
<1>2. /\ plain \in SUBSET DOMAIN s /\ n \in Nat /\ \A k \in 1..n : Nth(plain, k) \in plain
      /\ leaders \in SUBSET DOMAIN s /\ leaders \in SUBSET Nat /\ IsFiniteSet(leaders)
      /\ m \in Nat /\ \A k \in 1..m : Nth(leaders, k) \in leaders
  BY NthPlace
<1>3. \A k \in 1..n : one[k] = s[Nth(plain, k)]
  BY DEF Members
<1>4. \A k \in 1..m : two[k] = Aggregated(Members(s, group(Nth(leaders, k))))
  OBVIOUS
<1>5. DOMAIN one = 1..n /\ DOMAIN two = 1..m
  BY DEF Members
<1>6. one = [k \in 1..n |-> one[k]] /\ two = [k \in 1..m |-> two[k]]
  BY DEF Members
<1>7. \A i \in plain : AggregationKey(s[i]) = NoKey
  OBVIOUS
<1>8. \A i \in leaders : i \in DOMAIN s /\ i = Min(group(i))
  OBVIOUS
<1>9. \A i \in DOMAIN s : i \in group(i) /\ group(i) \in SUBSET DOMAIN s
  OBVIOUS
<1>10. \A i \in DOMAIN s : \A j \in group(i) : AggregationKey(s[j]) = AggregationKey(s[i])
  OBVIOUS
<1>11. \A i, j \in DOMAIN s : AggregationKey(s[j]) = AggregationKey(s[i]) => group(i) = group(j)
  OBVIOUS
<1> HIDE DEF group, plain, leaders, n, m, one, two, all
<1>12. /\ DOMAIN all = 1..(n + m)
       /\ \A k \in 1..(n + m) : all[k] = IF k <= n THEN one[k] ELSE two[k - n]
  <2>1. Sequence(one) /\ Sequence(two)
    BY <1>2, <1>6, ListIsSequence
  <2>2. PICK A : one \in Seq(A)
    BY <2>1 DEF Sequence
  <2>3. PICK B : two \in Seq(B)
    BY <2>1 DEF Sequence
  <2>4. one \in Seq(A \cup B) /\ two \in Seq(A \cup B)
    BY <2>2, <2>3
  <2>5. Len(one) = n /\ Len(two) = m
    BY <1>2, <1>5, <2>1, SequenceHas
  <2>6. PICK t : t = one \o two
    OBVIOUS
  <2>7. /\ t \in Seq(A \cup B) /\ Len(t) = n + m
        /\ \A k \in 1..(n + m) : t[k] = IF k <= n THEN one[k] ELSE two[k - n]
    BY <2>4, <2>5, <2>6, ConcatProperties
  <2>8. DOMAIN t = 1..(n + m)
    BY <2>7
  <2> QED  BY <1>1, <2>6, <2>7, <2>8
<1>13. ASSUME NEW k \in DOMAIN all, k <= n
       PROVE  \E i \in DOMAIN s : all[k] = s[i] /\ AggregationKey(s[i]) = NoKey
  <2>1. k \in 1..n
    BY <1>2, <1>12, <1>13
  <2>2. Nth(plain, k) \in plain
    BY <1>2, <2>1
  <2>3. all[k] = s[Nth(plain, k)]
    BY <1>3, <1>12, <1>13, <2>1
  <2> QED  BY <1>2, <1>7, <2>2, <2>3
<1>14. ASSUME NEW k \in DOMAIN all, ~ (k <= n)
       PROVE  /\ k - n \in 1..m /\ Nth(leaders, k - n) \in leaders
              /\ \E f \in group(Nth(leaders, k - n)) : StandsFor(all[k], s[f])
  <2>1. k - n \in 1..m
    BY <1>2, <1>12, <1>14
  <2>2. PICK i : i = Nth(leaders, k - n)
    OBVIOUS
  <2>3. i \in leaders
    BY <1>2, <2>1, <2>2
  <2>4. all[k] = Aggregated(Members(s, group(i)))
    BY <1>4, <1>12, <1>14, <2>1, <2>2
  <2>5. i \in group(i) /\ group(i) \in SUBSET DOMAIN s
    BY <1>8, <1>9, <2>3
  <2>6. \E f \in group(i) : StandsFor(Aggregated(Members(s, group(i))), s[f])
    BY <2>5, AggregatedStands
  <2> QED  BY <2>1, <2>2, <2>3, <2>4, <2>6
<1>15. Shaped(all)
  <2>1. ASSUME NEW k \in DOMAIN all PROVE IsDocument(all[k])
    <3>1. CASE k <= n
      BY <1>13, <3>1 DEF Shaped
    <3>2. CASE ~ (k <= n)
      BY <1>14, <3>2 DEF StandsFor
    <3> QED  BY <3>1, <3>2
  <2> QED  BY <2>1 DEF Shaped
\* A payment of the result stands for the rows of one key.
<1>16. ASSUME NEW k \in DOMAIN all, all[k].kind = "payment", DocumentId(all[k]) # ""
       PROVE  /\ k - n \in 1..m
              /\ Nth(leaders, k - n) \in leaders
              /\ AggregationKey(s[Nth(leaders, k - n)])
                   = <<all[k].kind, DocumentId(all[k]), all[k].source_id,
                       all[k].amount.currency, all[k].date>>
  <2>1. ~ (k <= n)
    BY <1>13, <1>16, PaymentHasKey
  <2>2. k - n \in 1..m /\ Nth(leaders, k - n) \in leaders
    BY <1>14, <2>1
  <2>3. PICK f \in group(Nth(leaders, k - n)) : StandsFor(all[k], s[f])
    BY <1>14, <2>1
  <2>4. AggregationKey(s[f]) = <<all[k].kind, DocumentId(all[k]), all[k].source_id,
                                 all[k].amount.currency, all[k].date>>
    BY <1>16, <2>3, SameIdentitySameKey
  <2>5. AggregationKey(s[f]) = AggregationKey(s[Nth(leaders, k - n)])
    BY <1>8, <1>10, <2>2, <2>3
  <2> QED  BY <2>2, <2>4, <2>5
<1>17. OnePayment(all)
  <2>1. SUFFICES ASSUME NEW i \in DOMAIN all, NEW j \in DOMAIN all,
                        all[i].kind = "payment", all[j].kind = "payment",
                        DocumentId(all[i]) # "", DocumentId(all[i]) = DocumentId(all[j]),
                        all[i].source_id = all[j].source_id, all[i].date = all[j].date,
                        all[i].amount.currency = all[j].amount.currency
                 PROVE  i = j
    BY DEF OnePayment
  <2>2. DocumentId(all[j]) # ""
    BY <2>1
  <2>3. PICK a, b : a = Nth(leaders, i - n) /\ b = Nth(leaders, j - n)
    OBVIOUS
  <2>4. AggregationKey(s[a]) = AggregationKey(s[b])
    <3>1. AggregationKey(s[a]) = <<all[i].kind, DocumentId(all[i]), all[i].source_id,
                                   all[i].amount.currency, all[i].date>>
      BY <1>16, <2>1, <2>3
    <3>2. AggregationKey(s[b]) = <<all[j].kind, DocumentId(all[j]), all[j].source_id,
                                   all[j].amount.currency, all[j].date>>
      BY <1>16, <2>1, <2>2, <2>3
    <3> QED  BY <2>1, <3>1, <3>2
  <2>5. a \in leaders /\ b \in leaders /\ i - n \in 1..m /\ j - n \in 1..m
    BY <1>16, <2>1, <2>2, <2>3
  <2>6. group(a) = group(b)
    BY <1>8, <1>11, <2>4, <2>5
  <2>7. a = b
    BY <1>8, <2>5, <2>6
  <2>8. i - n = j - n
    BY <1>2, <2>3, <2>5, <2>7, NthDistinct DEF m
  <2>9. i \in Int /\ j \in Int
    BY <1>2, <1>12
  <2> QED  BY <1>2, <2>8, <2>9
<1> QED  BY <1>15, <1>17 DEF all

LEMMA CombinationMeets ==
  ASSUME NEW rows, NEW docs, Sequence(rows), Shaped(rows)
  PROVE  /\ Shaped(CoalesceRows(rows, docs))
         /\ OnePayment(rows) => OnePayment(CoalesceRows(rows, docs))
<1> DEFINE group(i) == {j \in DOMAIN rows : HeaderTotalKey(rows[j]) = HeaderTotalKey(rows[i])}
           kept == {i \in DOMAIN rows : ~Coalesces(rows, docs, i) \/ i = Min(group(i))}
           n == Cardinality(kept)
           all == CoalesceRows(rows, docs)
<1>1. /\ DOMAIN all = 1..n
      /\ \A k \in 1..n :
           all[k] = IF Coalesces(rows, docs, Nth(kept, k))
                    THEN CombineDocuments(Members(rows, group(Nth(kept, k))))
                    ELSE rows[Nth(kept, k)]
  BY DEF CoalesceRows, Group
<1>2. /\ kept \in SUBSET DOMAIN rows /\ kept \in SUBSET Nat /\ IsFiniteSet(kept)
      /\ n \in Nat /\ \A k \in 1..n : Nth(kept, k) \in kept
  BY NthPlace
<1>3. \A i \in DOMAIN rows : i \in group(i) /\ group(i) \in SUBSET DOMAIN rows
  OBVIOUS
<1>4. \A i \in DOMAIN rows : \A j \in group(i) : HeaderTotalKey(rows[j]) = HeaderTotalKey(rows[i])
  OBVIOUS
<1> HIDE DEF group, kept, n, all
<1>5. ASSUME NEW k \in DOMAIN all
      PROVE  /\ Nth(kept, k) \in DOMAIN rows
             /\ IsDocument(all[k])
             /\ all[k].kind = "payment" => all[k] = rows[Nth(kept, k)]
  <2>1. PICK i : i = Nth(kept, k)
    OBVIOUS
  <2>2. i \in DOMAIN rows
    BY <1>1, <1>2, <2>1
  <2>3. CASE ~ Coalesces(rows, docs, i)
    <3>1. all[k] = rows[i]
      BY <1>1, <2>1, <2>3
    <3> QED  BY <2>1, <2>2, <3>1 DEF Shaped
  <2>4. CASE Coalesces(rows, docs, i)
    <3>1. PICK f \in group(i) : Members(rows, group(i))[1] = rows[f]
      BY <1>3, <2>2, FirstMember
    <3>2. IsDocument(rows[f])
      BY <1>3, <2>2, <3>1 DEF Shaped
    <3>3. StandsFor(all[k], rows[f])
      <4>1. PICK t : t = Members(rows, group(i))
        OBVIOUS
      <4>2. all[k] = CombineDocuments(t)
        BY <1>1, <2>1, <2>4, <4>1
      <4>3. t[1] = rows[f]
        BY <3>1, <4>1
      <4> QED  BY <3>2, <4>2, <4>3, MergedStands DEF CombineDocuments
    <3>4. HeaderTotalKey(rows[f]) # NoKey
      BY <1>4, <2>2, <2>4 DEF Coalesces
    <3>5. rows[f].kind # "payment"
      <4>1. rows[f].kind \in {"sale", "purchase"}
        BY <3>4 DEF HeaderTotalKey
      <4> QED  BY <4>1
    <3> QED  BY <2>1, <2>2, <3>3, <3>5 DEF StandsFor
  <2> QED  BY <2>3, <2>4
<1>6. Shaped(all)
  BY <1>5 DEF Shaped
<1>7. ASSUME OnePayment(rows) PROVE OnePayment(all)
  <2>1. SUFFICES ASSUME NEW i \in DOMAIN all, NEW j \in DOMAIN all,
                        all[i].kind = "payment", all[j].kind = "payment",
                        DocumentId(all[i]) # "", DocumentId(all[i]) = DocumentId(all[j]),
                        all[i].source_id = all[j].source_id, all[i].date = all[j].date,
                        all[i].amount.currency = all[j].amount.currency
                 PROVE  i = j
    BY DEF OnePayment
  <2>2. PICK a, b : a = Nth(kept, i) /\ b = Nth(kept, j)
    OBVIOUS
  <2>3. /\ a \in DOMAIN rows /\ b \in DOMAIN rows
        /\ all[i] = rows[a] /\ all[j] = rows[b]
    BY <1>5, <2>1, <2>2
  <2>4. a = b
    BY <1>7, <2>1, <2>3 DEF OnePayment
  <2>5. i \in 1..n /\ j \in 1..n
    BY <1>1
  <2> QED  BY <1>2, <2>2, <2>4, <2>5, NthDistinct DEF n
<1> QED  BY <1>6, <1>7 DEF all

-----------------------------------------------------------------------------
(* The invariant of the matches.                                             *)

\* After its side was aggregated, a payment is one document of that side.
PaymentsInv ==
  /\ phase # "aggregate_erp" => OnePayment(erp)
  /\ phase \notin {"aggregate_erp", "aggregate_1c"} => OnePayment(onec)

MatchInv == ReportInv /\ ShapedInv /\ PaymentsInv /\ ExactInv

LEMMA InitMatches == Init => MatchInv
<1> SUFFICES ASSUME Init PROVE MatchInv
  OBVIOUS
<1>1. ReportInv
  BY InitReports
<1>2. ShapedInv
  <2>1. PICK reading \in Readings : erp = reading[1] /\ onec = reading[2]
    BY DEF Init, InitPreparation
  <2>2. reading[1] \in Seq(Document) /\ reading[2] \in Seq(Document)
    BY <2>1, ReadingsAssumption
  <2>3. \A k \in DOMAIN erp : erp[k] \in Document
    BY <2>1, <2>2
  <2>4. \A k \in DOMAIN onec : onec[k] \in Document
    BY <2>1, <2>2
  <2> QED  BY <2>3, <2>4, DocumentsAreDocuments DEF ShapedInv, Shaped
<1>3. PaymentsInv
  BY DEF PaymentsInv, Init, InitPreparation
<1>4. ExactInv
  <2>1. DOMAIN issues = {}
    BY DEF Init, InitMatching
  <2> QED  BY <2>1 DEF ExactInv, RowsReported
<1> QED  BY <1>1, <1>2, <1>3, <1>4 DEF MatchInv

LEMMA PreparationMatches ==
  ASSUME MatchInv, Prepare, UNCHANGED matchingVars
  PROVE  ShapedInv' /\ PaymentsInv' /\ ExactInv'
<1>1. Sequence(erp) /\ Sequence(onec) /\ Shaped(erp) /\ Shaped(onec)
  BY DEF MatchInv, ReportInv, SidesInv, ShapedInv, Shaped
<1>2. ExactInv'
  <2>1. Len(issues) = 0 /\ Sequence(issues) /\ UNCHANGED issues
    BY DEF MatchInv, ReportInv, SidesInv, Prepare, AggregateErp, AggregateOneC, Coalesce,
           Preparing, matchingVars
  <2>2. DOMAIN issues' = {}
    BY <2>1, SequenceHas
  <2> QED  BY <2>2 DEF ExactInv, RowsReported
<1>3. CASE AggregateErp
  <2>1. Shaped(erp') /\ OnePayment(erp')
    BY <1>1, <1>3, AggregationMeets DEF AggregateErp
  <2>2. UNCHANGED onec /\ phase' = "aggregate_1c"
    BY <1>3 DEF AggregateErp
  <2>3. ShapedInv'
    BY <1>1, <2>1, <2>2 DEF ShapedInv, Shaped
  <2>4. PaymentsInv'
    BY <2>1, <2>2 DEF PaymentsInv, OnePayment
  <2> QED  BY <1>2, <2>3, <2>4
<1>4. CASE AggregateOneC
  <2>1. Shaped(onec') /\ OnePayment(onec')
    BY <1>1, <1>4, AggregationMeets DEF AggregateOneC
  <2>2. UNCHANGED erp /\ phase = "aggregate_1c" /\ phase' = "coalesce"
    BY <1>4 DEF AggregateOneC
  <2>3. OnePayment(erp)
    BY <2>2 DEF MatchInv, PaymentsInv
  <2>4. ShapedInv'
    BY <1>1, <2>1, <2>2 DEF ShapedInv, Shaped
  <2>5. PaymentsInv'
    BY <2>1, <2>2, <2>3 DEF PaymentsInv, OnePayment
  <2> QED  BY <1>2, <2>4, <2>5
<1>5. CASE Coalesce
  <2>1. UNCHANGED onec /\ phase = "coalesce" /\ phase' = "match" /\ erp' = CoalesceRows(erp, onec)
    BY <1>5 DEF Coalesce
  <2>2. OnePayment(erp) /\ OnePayment(onec)
    BY <2>1 DEF MatchInv, PaymentsInv
  <2>3. Shaped(erp') /\ OnePayment(erp')
    BY <1>1, <2>1, <2>2, CombinationMeets
  <2>4. ShapedInv'
    BY <1>1, <2>1, <2>3 DEF ShapedInv, Shaped
  <2>5. PaymentsInv'
    BY <2>1, <2>2, <2>3 DEF PaymentsInv, OnePayment
  <2> QED  BY <1>2, <2>4, <2>5
<1> QED  BY <1>3, <1>4, <1>5 DEF Prepare

LEMMA DocumentsStay ==
  ASSUME MatchInv, UNCHANGED <<erp, onec>>, phase \notin Preparing
  PROVE  ShapedInv' /\ (phase' \notin Preparing => PaymentsInv')
<1>1. OnePayment(erp) /\ OnePayment(onec)
  BY DEF MatchInv, PaymentsInv, Preparing
<1> QED  BY <1>1 DEF MatchInv, ShapedInv, Shaped, PaymentsInv, OnePayment, Preparing

\* A row that is reported joins those that were reported before.
LEMMA RowJoins ==
  ASSUME ReportInv, ExactInv, AtRow, NEW x, issues' = Append(issues, x),
         UNCHANGED <<erp, onec>>, Exact(x, Row)
  PROVE  ExactInv'
<1>1. /\ Sequence(issues) /\ Len(issues) = pos - 1 /\ pos \in DOMAIN erp
      /\ DOMAIN issues = 1..Len(issues) /\ Len(issues) \in Nat /\ Places = DOMAIN erp
      /\ pos \in Nat
  BY PlacesAre DEF ReportInv, SidesInv, AtRow
<1>2. PICK t : t = issues'
  OBVIOUS
<1>3. Sequence(t) /\ Len(t) = Len(issues) + 1 /\ t[Len(issues) + 1] = x
  BY ONLY <1>1, <1>2, AppendDoes, issues' = Append(issues, x)
<1>4. \A k \in DOMAIN issues : t[k] = issues[k]
  BY ONLY <1>1, <1>2, AppendDoes, issues' = Append(issues, x)
<1>5. DOMAIN t = 1..pos /\ t[pos] = x /\ DOMAIN issues = 1..(pos - 1)
  BY <1>1, <1>3, SequenceHas
<1>6. Places' = Places
  BY DEF Places
<1>7. ASSUME NEW k \in RowsReported' PROVE Exact(issues[k], erp[k])'
  <2>1. k \in Places /\ k \in 1..pos
    BY <1>2, <1>5, <1>6, <1>7 DEF RowsReported
  <2>2. CASE k = pos
    BY <1>2, <1>5, <2>2 DEF Exact, Row, PartsOf
  <2>3. CASE k # pos
    <3>1. k \in RowsReported /\ t[k] = issues[k]
      BY <1>1, <1>4, <1>5, <2>1, <2>3 DEF RowsReported
    <3>2. Exact(issues[k], erp[k])
      BY <3>1 DEF ExactInv
    <3> QED  BY <1>2, <3>1, <3>2 DEF Exact, PartsOf
  <2> QED  BY <2>2, <2>3
<1> QED  BY <1>7 DEF ExactInv

\* Rows whose issues keep what they say of documents, and are not turned into
\* matches, stay exact.
LEMMA RowsStayExact ==
  ASSUME ExactInv, UNCHANGED <<erp, onec>>,
         \A k \in RowsReported' :
           /\ k \in RowsReported
           /\ issues'[k].status = "match" =>
                /\ issues[k].status = "match" /\ issues'[k].onec = issues[k].onec
                /\ issues'[k].basis = issues[k].basis /\ issues'[k].detail = issues[k].detail
                /\ issues'[k].confidence = issues[k].confidence
  PROVE  ExactInv'
<1>1. ASSUME NEW k \in RowsReported', issues'[k].status = "match"
      PROVE  /\ Exact(issues[k], erp[k]) /\ issues[k].status = "match"
             /\ issues'[k].onec = issues[k].onec /\ issues'[k].basis = issues[k].basis
             /\ issues'[k].detail = issues[k].detail
             /\ issues'[k].confidence = issues[k].confidence /\ erp'[k] = erp[k]
  <2>1. /\ k \in RowsReported /\ issues[k].status = "match" /\ issues'[k].onec = issues[k].onec
        /\ issues'[k].basis = issues[k].basis /\ issues'[k].detail = issues[k].detail
        /\ issues'[k].confidence = issues[k].confidence
    BY <1>1
  <2>2. Exact(issues[k], erp[k])
    BY <2>1 DEF ExactInv
  <2> QED  BY <2>1, <2>2
<1>2. ASSUME NEW k \in RowsReported' PROVE Exact(issues[k], erp[k])'
  <2>1. PICK x, y, e : x = issues[k] /\ y = issues'[k] /\ e = erp'[k]
    OBVIOUS
  <2>2. y.status = "match" => /\ Exact(x, e) /\ x.status = "match"
                              /\ y.onec = x.onec /\ y.basis = x.basis /\ y.detail = x.detail
                              /\ y.confidence = x.confidence
    BY <1>1, <1>2, <2>1
  <2>3. Exact(y, e)'
    BY <2>2 DEF Exact, PartsOf
  <2> QED  BY <2>1, <2>3 DEF Exact
<1> QED  BY <1>2 DEF ExactInv

LEMMA AppendedIs ==
  ASSUME ReportInv, AtRow, NEW x, issues' = Append(issues, x)
  PROVE  issues'[pos] = x
<1>1. Sequence(issues) /\ Len(issues) = pos - 1 /\ pos \in Nat
  BY DEF ReportInv, SidesInv, AtRow
<1>2. PICK t : t = issues'
  OBVIOUS
<1>3. t[Len(issues) + 1] = x
  BY ONLY <1>1, <1>2, AppendDoes, issues' = Append(issues, x)
<1> QED  BY <1>1, <1>2, <1>3

\* The matching only reads the documents.
LEMMA MatchingReads ==
  ASSUME Match
  PROVE  UNCHANGED <<erp, onec>> /\ phase \notin Preparing /\ phase' \notin Preparing
BY DEF Match, ReportMissingErpDocument, ReportNotFound, ReportAmbiguousLine, MatchLine,
       ReportDuplicates, ReportAmbiguousDetail, MatchDocument, EndOfRows, ReportUnlinked,
       EndOfDocuments, ClassifyIssue, EndOfIssues, Report, Searched, AtRow, Preparing

LEMMA MatchingMatches ==
  ASSUME MatchInv, Match
  PROVE  ShapedInv' /\ PaymentsInv' /\ ExactInv'
<1>1. UNCHANGED <<erp, onec>> /\ phase \notin Preparing /\ phase' \notin Preparing
  BY MatchingReads
<1>2. ReportInv /\ ExactInv /\ ShapedInv
  BY DEF MatchInv
<1>3. ASSUME AtRow, NEW x, issues' = Append(issues, x), x.status # "match"
      PROVE  ExactInv'
  <2>1. Exact(x, Row)
    BY <1>3 DEF Exact
  <2> QED  BY <1>1, <1>2, <1>3, <2>1, RowJoins
<1>4. ExactInv'
  <2>1. CASE ReportMissingErpDocument
    <3>1. PICK x : x = IssueOf(PreconditionStatus(Row), pos, 0, "", "", "", NoDocument)
      OBVIOUS
    <3>2. AtRow /\ issues' = Append(issues, x)
      BY <2>1, <3>1 DEF ReportMissingErpDocument, Report
    <3>3. x.status = PreconditionStatus(Row)
      BY <3>1 DEF IssueOf
    <3>4. x.status # "match"
      <4>1. x.status \in NotLookedUp
        BY <2>1, <3>3, PreconditionSays DEF ReportMissingErpDocument
      <4> QED  BY <4>1 DEF NotLookedUp
    <3> QED  BY <1>3, <3>2, <3>4
  <2>2. CASE ReportNotFound
    <3>1. PICK status, x : /\ status = (IF Row.code # "" THEN "not_found_in_1c"
                                                         ELSE "erp_code1c_missing")
                           /\ x = IssueOf(status, pos, 0, "", "", "", NoDocument)
      OBVIOUS
    <3>2. AtRow /\ issues' = Append(issues, x)
      BY <2>2, <3>1 DEF ReportNotFound, Searched, Report
    <3>3. x.status = status
      BY <3>1 DEF IssueOf
    <3>4. status # "match"
      BY <3>1
    <3> QED  BY <1>3, <3>2, <3>3, <3>4
  <2>3. CASE ReportAmbiguousLine
    <3>1. PICK x : x = IssueOf("ambiguous_match", pos, 0, "ambiguous", "document_line", "",
                               NoDocument)
      OBVIOUS
    <3>2. AtRow /\ issues' = Append(issues, x)
      BY <2>3, <3>1 DEF ReportAmbiguousLine, Searched, Report
    <3>3. x.status = "ambiguous_match"
      BY <3>1 DEF IssueOf
    <3> QED  BY <1>3, <3>2, <3>3
  <2>4. CASE MatchLine
    <3>1. PICK x : issues' = Append(issues, x)
      BY <2>4 DEF MatchLine, Report
    <3>2. AtRow
      BY <2>4 DEF MatchLine, Searched
    <3>3. Exact(x, Row)
      BY <1>2, <2>4, <3>1, <3>2, AppendedIs, LineMatchedExactly
    <3> QED  BY <1>1, <1>2, <3>1, <3>2, <3>3, RowJoins
  <2>5. CASE ReportDuplicates
    <3>1. PICK status, x : /\ status = (IF Confidence(Row) \in {"exact", "strong"}
                                        THEN "duplicate_in_1c" ELSE "ambiguous_match")
                           /\ x = IssueOf(status, pos, Min(Candidates(Row)), Confidence(Row),
                                          "", "", onec[Min(Candidates(Row))])
      OBVIOUS
    <3>2. AtRow /\ issues' = Append(issues, x)
      BY <2>5, <3>1 DEF ReportDuplicates, Searched, Report
    <3>3. x.status = status
      BY <3>1 DEF IssueOf
    <3>4. status # "match"
      BY <3>1
    <3> QED  BY <1>3, <3>2, <3>3, <3>4
  <2>6. CASE ReportAmbiguousDetail
    <3>1. PICK i, m : Report("ambiguous_match", i, "ambiguous", m.basis, "", onec[i])
      BY <2>6 DEF ReportAmbiguousDetail
    <3>2. PICK x : x = IssueOf("ambiguous_match", pos, i, "ambiguous", m.basis, "", onec[i])
      OBVIOUS
    <3>3. AtRow /\ issues' = Append(issues, x)
      BY <2>6, <3>1, <3>2 DEF ReportAmbiguousDetail, Searched, Report
    <3>4. x.status = "ambiguous_match"
      BY <3>2 DEF IssueOf
    <3> QED  BY <1>3, <3>3, <3>4
  <2>7. CASE MatchDocument
    <3>1. PICK x : issues' = Append(issues, x)
      BY <2>7 DEF MatchDocument, Report
    <3>2. AtRow
      BY <2>7 DEF MatchDocument, Searched
    <3>3. Exact(x, Row)
      BY <1>2, <2>7, <3>1, <3>2, AppendedIs, DocumentMatchedExactly
    <3> QED  BY <1>1, <1>2, <3>1, <3>2, <3>3, RowJoins
  <2>8. CASE EndOfRows \/ EndOfDocuments \/ EndOfIssues
    <3>1. UNCHANGED <<erp, onec, issues>>
      BY <2>8 DEF EndOfRows, EndOfDocuments, EndOfIssues
    <3>2. RowsReported' = RowsReported
      BY <3>1 DEF RowsReported, Places
    <3> QED  BY <1>2, <3>1, <3>2, RowsStayExact
  <2>9. CASE ReportUnlinked
    <3>1. /\ Sequence(issues) /\ DOMAIN issues = 1..Len(issues) /\ Len(issues) \in Nat
          /\ Len(erp) <= Len(issues) /\ Places = 1..Len(erp) /\ Len(erp) \in Nat
      <4>1. phase \in Later
        BY <2>9 DEF ReportUnlinked, Later
      <4> QED  BY <1>2, <4>1, PlacesAre DEF ReportInv, SidesInv
    <3>2. \A k \in DOMAIN issues : issues'[k] = issues[k]
      <4>1. CASE pos \in matched
        BY <2>9, <4>1 DEF ReportUnlinked
      <4>2. CASE pos \notin matched
        <5>1. PICK x, t : x = Unlinked /\ t = issues'
          OBVIOUS
        <5>2. t = Append(issues, x)
          BY <2>9, <4>2, <5>1 DEF ReportUnlinked
        <5>3. \A k \in DOMAIN issues : t[k] = issues[k]
          BY ONLY <3>1, <5>2, AppendDoes
        <5> QED  BY <5>1, <5>3
      <4> QED  BY <4>1, <4>2
    <3>3. RowsReported' \subseteq RowsReported /\ RowsReported \subseteq DOMAIN issues
      BY <1>1, <3>1 DEF RowsReported, Places
    <3> QED  BY <1>1, <1>2, <3>2, <3>3, RowsStayExact
  <2>10. CASE ClassifyIssue
    <3>1. PICK known : issues' = [issues EXCEPT ![pos].status = ClassifiedStatus(issues[pos], known)]
      BY <2>10 DEF ClassifyIssue
    <3>2. DOMAIN issues' = DOMAIN issues
      BY <3>1
    <3>3. RowsReported' = RowsReported /\ RowsReported \subseteq DOMAIN issues
      BY <1>1, <3>2 DEF RowsReported, Places
    <3>4. ASSUME NEW k \in RowsReported, issues'[k].status = "match"
          PROVE  /\ issues[k].status = "match" /\ issues'[k].onec = issues[k].onec
                 /\ issues'[k].basis = issues[k].basis /\ issues'[k].detail = issues[k].detail
                 /\ issues'[k].confidence = issues[k].confidence
      <4>1. IsIssue(issues[k])
        BY <1>2, <3>3 DEF ReportInv, SidesInv
      <4>2. CASE k # pos
        BY <3>1, <3>3, <3>4, <4>2
      <4>3. CASE k = pos
        <5>1. PICK y, x, z : y = issues'[k] /\ x = issues[k] /\ z = ClassifiedStatus(issues[pos], known)
          OBVIOUS
        <5>2. y = [x EXCEPT !.status = z]
          BY <3>1, <3>3, <4>3, <5>1
        <5>3. IsIssue(x)
          BY <4>1, <5>1
        <5>4. y.status = z /\ y.onec = x.onec /\ y.basis = x.basis /\ y.detail = x.detail
              /\ y.confidence = x.confidence
          BY ONLY <5>2, <5>3 DEF IsIssue
        <5>5. z = x.status \/ z \in {"not_linked_to_delivery_in_erp", "not_comparable",
                                     "not_found_in_erp"}
          BY <4>3, <5>1 DEF ClassifiedStatus
        <5> QED  BY <3>4, <5>1, <5>4, <5>5
      <4> QED  BY <4>2, <4>3
    <3> QED  BY <1>1, <1>2, <3>3, <3>4, RowsStayExact
  <2> QED
    BY <2>1, <2>2, <2>3, <2>4, <2>5, <2>6, <2>7, <2>8, <2>9, <2>10 DEF Match
<1> QED  BY <1>1, <1>2, <1>4, DocumentsStay

LEMMA LaterPartsMatch ==
  ASSUME MatchInv, UNCHANGED <<erp, onec, issues>>, phase \notin Preparing, phase' \notin Preparing
  PROVE  ShapedInv' /\ PaymentsInv' /\ ExactInv'
<1>1. RowsReported' = RowsReported
  BY DEF RowsReported, Places
<1>2. ExactInv'
  BY <1>1, RowsStayExact DEF MatchInv
<1> QED  BY <1>2, DocumentsStay

LEMMA NextMatches == MatchInv /\ [Next]_vars => MatchInv'
<1> SUFFICES ASSUME MatchInv, [Next]_vars PROVE ShapedInv' /\ PaymentsInv' /\ ExactInv'
  BY NextReports DEF MatchInv
<1>1. CASE Prepare /\ UNCHANGED <<matchingVars, settlement, comparison, book>>
  BY <1>1, PreparationMatches
<1>2. CASE Match
  BY <1>2, MatchingMatches
<1>3. CASE CompareBalances
  BY <1>3, LaterPartsMatch DEF CompareBalances, Preparing, matchingVars
<1>4. CASE WriteWorkbook
  BY <1>4, LaterPartsMatch DEF WriteWorkbook, Preparing, matchingVars
<1>5. CASE UNCHANGED vars
  <2>1. UNCHANGED <<erp, onec, phase, issues>>
    BY <1>5 DEF vars, preparationVars, matchingVars
  <2>2. RowsReported' = RowsReported
    BY <2>1 DEF RowsReported, Places
  <2>3. ExactInv'
    BY <2>1, <2>2, RowsStayExact DEF MatchInv
  <2>4. PaymentsInv'
    BY <2>1 DEF MatchInv, PaymentsInv, OnePayment
  <2>5. ShapedInv'
    BY <2>1 DEF MatchInv, ShapedInv, Shaped
  <2> QED  BY <2>3, <2>4, <2>5
<1> QED  BY <1>1, <1>2, <1>3, <1>4, <1>5 DEF Next

\* The documents are whole, a payment is one document and every match so far is
\* exact, whatever was read (aggregate_documents, match_documents).
THEOREM MatchInvHolds == Spec => []MatchInv
BY InitMatches, NextMatches, PTL DEF Spec

\* A row that is reported as matched has the kind, the money, the date and the
\* code of the part of 1C it was matched with, for any rows and documents: what
\* the classification does afterwards turns nothing else into a match
\* (compare_documents, _compare_matched_detail, _classify_global_erp_presence).
THEOREM MatchesAreExact == Spec => []MatchIsExact
<1>1. MatchInv => MatchIsExact
  BY DEF MatchInv, ExactInv, Exact, RowsReported, MatchIsExact
<1> QED  BY <1>1, MatchInvHolds, PTL

\* When documents are compared, a payment with an identity is one document on
\* each side, however many rows and lines it was read from, and combining the
\* rows for the other side does not part it again (aggregate_documents,
\* _coalesce_erp_rows_for_onec_headers).
THEOREM PaymentsAreOne == Spec => []OnePaymentOneDocument
<1>1. MatchInv => OnePaymentOneDocument
  BY DEF MatchInv, PaymentsInv, OnePayment, OnePaymentOneDocument
<1> QED  BY <1>1, MatchInvHolds, PTL

-----------------------------------------------------------------------------
(* What a run that passed has behind it: a document that was taken has an    *)
(* issue that names it or one that could not decide, and the workbook says   *)
(* what the issues and the balances say.                                     *)

Undecided == {"duplicate_in_1c", "ambiguous_match"}

Owned(i) == \E k \in RowsReported : issues[k].onec = i \/ issues[k].status \in Undecided

OwnedInv ==
  /\ \A i \in matched : i \in DOMAIN onec /\ Owned(i)
  /\ \A k \in OneCSide : issues[k].status # "match"

BookInv ==
  /\ phase \in {"report", "done"} => comparison = Comparison(settlement)
  /\ phase = "done" => (book.result = "passed") = RunMatched

PassedInv == MatchInv /\ OwnedInv /\ BookInv

\* A sheet of the workbook is empty only when no issue belongs on it.
LEMMA SheetIsEmpty ==
  ASSUME NEW S \in SUBSET DOMAIN issues, Sequence(issues)
  PROVE  Sheet(S) = << >> <=> S = {}
<1>1. Cardinality(S) \in Nat /\ IsFiniteSet(S)
  BY NthPlace
<1>2. DOMAIN Sheet(S) = 1..Cardinality(S)
  BY DEF Sheet
<1>3. Sheet(S) = << >> => Cardinality(S) = 0
  BY <1>1, <1>2
<1>4. Cardinality(S) = 0 => Sheet(S) = << >>
  <2>1. SUFFICES ASSUME Cardinality(S) = 0 PROVE Sheet(S) = << >>
    OBVIOUS
  <2>2. 1..Cardinality(S) = {}
    BY <2>1
  <2>3. Sheet(S) = [n \in {} |-> Nth(S, n)]
    BY <2>2 DEF Sheet
  <2> QED  BY <2>3
<1>5. Cardinality(S) = 0 <=> S = {}
  BY <1>1, FS_EmptySet
<1> QED  BY <1>3, <1>4, <1>5

\* Issues that keep their documents keep the owners of what was taken.
LEMMA OwnersStay ==
  ASSUME OwnedInv, UNCHANGED onec,
         \A k \in RowsReported :
           /\ k \in RowsReported' /\ issues'[k].onec = issues[k].onec
           /\ issues[k].status \in Undecided => issues'[k].status \in Undecided,
         \A i \in matched' : i \in matched \/ (i \in DOMAIN onec /\ Owned(i)'),
         \A k \in OneCSide' : issues'[k].status # "match"
  PROVE  OwnedInv'
<1>1. ASSUME NEW i \in matched PROVE i \in DOMAIN onec /\ Owned(i)'
  <2>1. i \in DOMAIN onec /\ Owned(i)
    BY DEF OwnedInv
  <2> QED  BY <2>1 DEF Owned
<1> QED  BY <1>1 DEF OwnedInv

\* A row that takes documents is their owner.
LEMMA RowOwns ==
  ASSUME ReportInv, OwnedInv, AtRow, NEW x, issues' = Append(issues, x), UNCHANGED <<erp, onec>>,
         \A i \in matched' :
           i \in matched \/ (i \in DOMAIN onec /\ (x.onec = i \/ x.status \in Undecided))
  PROVE  OwnedInv'
<1>1. /\ Sequence(issues) /\ Len(issues) = pos - 1 /\ pos \in DOMAIN erp
      /\ DOMAIN issues = 1..Len(issues) /\ Len(issues) \in Nat /\ Places = DOMAIN erp
      /\ DOMAIN erp = 1..Len(erp) /\ Len(erp) \in Nat /\ pos \in Nat
  BY PlacesAre DEF ReportInv, SidesInv, AtRow
<1>2. PICK t : t = issues'
  OBVIOUS
<1>3. Sequence(t) /\ Len(t) = Len(issues) + 1 /\ t[Len(issues) + 1] = x
  BY ONLY <1>1, <1>2, AppendDoes, issues' = Append(issues, x)
<1>4. \A k \in DOMAIN issues : t[k] = issues[k]
  BY ONLY <1>1, <1>2, AppendDoes, issues' = Append(issues, x)
<1>5. DOMAIN t = 1..pos /\ t[pos] = x /\ DOMAIN issues = 1..(pos - 1)
  BY <1>1, <1>3, SequenceHas
<1>6. Places' = Places
  BY DEF Places
<1>7. RowsReported = 1..(pos - 1) /\ RowsReported' = 1..pos /\ OneCSide' = {}
  BY <1>1, <1>2, <1>5, <1>6 DEF RowsReported, OneCSide
<1>8. \A k \in RowsReported : k \in RowsReported' /\ issues'[k] = issues[k]
  BY <1>1, <1>2, <1>4, <1>5, <1>7
<1>9. pos \in RowsReported' /\ issues'[pos] = x
  BY <1>1, <1>2, <1>5, <1>7
<1>10. ASSUME NEW i \in matched', i \notin matched
       PROVE  i \in DOMAIN onec /\ Owned(i)'
  BY <1>9, <1>10 DEF Owned
<1> QED  BY <1>7, <1>8, <1>10, OwnersStay

LEMMA OwnersKept ==
  ASSUME PassedInv, Match
  PROVE  OwnedInv'
<1>1. ReportInv /\ OwnedInv /\ UNCHANGED <<erp, onec>>
  BY DEF PassedInv, MatchInv, Match, ReportMissingErpDocument, ReportNotFound, ReportAmbiguousLine,
         MatchLine, ReportDuplicates, ReportAmbiguousDetail, MatchDocument, EndOfRows,
         ReportUnlinked, EndOfDocuments, ClassifyIssue, EndOfIssues, Report, Searched, AtRow
<1>2. CASE ReportMissingErpDocument \/ ReportNotFound \/ ReportAmbiguousLine
  <2>1. PICK x : issues' = Append(issues, x)
    BY <1>2 DEF ReportMissingErpDocument, ReportNotFound, ReportAmbiguousLine, Report
  <2>2. AtRow /\ UNCHANGED matched
    BY <1>2 DEF ReportMissingErpDocument, ReportNotFound, ReportAmbiguousLine, Searched
  <2> QED  BY <1>1, <2>1, <2>2, RowOwns
<1>3. CASE MatchLine
  <2>1. PICK c \in LineCandidates(Row) :
          LET m == LineMatch(c) IN
          /\ Report(CompareMatchedDetail(WithIdentifiersOf(Row, onec[c[1]]), m),
                    c[1], "detail", m.basis, m.id, m.document)
          /\ matched' = matched \cup {c[1]}
    BY <1>3 DEF MatchLine
  <2>2. PICK m : m = LineMatch(c)
    OBVIOUS
  <2>3. PICK x : x = IssueOf(CompareMatchedDetail(WithIdentifiersOf(Row, onec[c[1]]), m), pos,
                             c[1], "detail", m.basis, m.id, m.document)
    OBVIOUS
  <2>4. /\ AtRow /\ issues' = Append(issues, x) /\ matched' = matched \cup {c[1]}
        /\ x.onec = c[1]
    BY <1>3, <2>1, <2>2, <2>3 DEF MatchLine, Searched, Report, IssueOf
  <2>5. c[1] \in DOMAIN onec
    <3>1. c \in UNION {{i} \X DOMAIN onec[i].lines : i \in DOMAIN onec}
      BY DEF LineCandidates, FreeLines
    <3> QED  BY <3>1
  <2> QED  BY <1>1, <2>4, <2>5, RowOwns
<1>4. CASE ReportDuplicates
  <2>1. PICK status, x : /\ status = (IF Confidence(Row) \in {"exact", "strong"}
                                      THEN "duplicate_in_1c" ELSE "ambiguous_match")
                         /\ x = IssueOf(status, pos, Min(Candidates(Row)), Confidence(Row),
                                        "", "", onec[Min(Candidates(Row))])
    OBVIOUS
  <2>2. AtRow /\ issues' = Append(issues, x) /\ matched' = matched \cup Candidates(Row)
    BY <1>4, <2>1 DEF ReportDuplicates, Searched, Report
  <2>3. x.status = status
    BY <2>1 DEF IssueOf
  <2>4. status \in Undecided
    BY <2>1 DEF Undecided
  <2>5. \A i \in Candidates(Row) : i \in DOMAIN onec
    BY CandidatesAre
  <2> QED  BY <1>1, <2>2, <2>3, <2>4, <2>5, RowOwns
<1>5. CASE ReportAmbiguousDetail
  <2>1. PICK i \in Candidates(Row) :
          LET m == ProjectMatchingDetail(Row, onec[i]) IN
          /\ matched' = matched \cup {i}
          /\ Report("ambiguous_match", i, "ambiguous", m.basis, "", onec[i])
    BY <1>5 DEF ReportAmbiguousDetail
  <2>2. PICK m, x : /\ m = ProjectMatchingDetail(Row, onec[i])
                    /\ x = IssueOf("ambiguous_match", pos, i, "ambiguous", m.basis, "", onec[i])
    OBVIOUS
  <2>3. AtRow /\ issues' = Append(issues, x) /\ matched' = matched \cup {i} /\ x.onec = i
    BY <1>5, <2>1, <2>2 DEF ReportAmbiguousDetail, Searched, Report, IssueOf
  <2>4. i \in DOMAIN onec
    BY CandidatesAre
  <2> QED  BY <1>1, <2>3, <2>4, RowOwns
<1>6. CASE MatchDocument
  <2>1. PICK i \in Candidates(Row) :
          LET m == ProjectMatchingDetail(Row, onec[i]) IN
          /\ matched' = matched \cup {i}
          /\ Report(CompareMatchedDetail(Row, m), i, Confidence(Row), m.basis, m.id, m.document)
    BY <1>6 DEF MatchDocument
  <2>2. PICK m, x : /\ m = ProjectMatchingDetail(Row, onec[i])
                    /\ x = IssueOf(CompareMatchedDetail(Row, m), pos, i, Confidence(Row),
                                   m.basis, m.id, m.document)
    OBVIOUS
  <2>3. AtRow /\ issues' = Append(issues, x) /\ matched' = matched \cup {i} /\ x.onec = i
    BY <1>6, <2>1, <2>2 DEF MatchDocument, Searched, Report, IssueOf
  <2>4. i \in DOMAIN onec
    BY CandidatesAre
  <2> QED  BY <1>1, <2>3, <2>4, RowOwns
<1>7. CASE EndOfRows \/ EndOfDocuments \/ EndOfIssues
  <2>1. UNCHANGED <<erp, onec, issues, matched>>
    BY <1>7 DEF EndOfRows, EndOfDocuments, EndOfIssues
  <2>2. RowsReported' = RowsReported /\ OneCSide' = OneCSide
    BY <2>1 DEF RowsReported, OneCSide, Places
  <2>3. \A k \in OneCSide' : issues'[k].status # "match"
    BY <1>1, <2>1, <2>2 DEF OwnedInv
  <2> QED  BY <1>1, <2>1, <2>2, <2>3, OwnersStay
<1>8. CASE ReportUnlinked
  <2>1. /\ Sequence(issues) /\ DOMAIN issues = 1..Len(issues) /\ Len(issues) \in Nat
    BY <1>1, PlacesAre DEF ReportInv, SidesInv
  <2>2. /\ \A k \in DOMAIN issues : k \in DOMAIN issues' /\ issues'[k] = issues[k]
        /\ \A k \in DOMAIN issues' : k \in DOMAIN issues
                                      \/ issues'[k].status = "not_linked_to_delivery_in_erp"
    <3>1. CASE pos \in matched
      BY <1>8, <3>1 DEF ReportUnlinked
    <3>2. CASE pos \notin matched
      <4>1. PICK x, t : x = Unlinked /\ t = issues'
        OBVIOUS
      <4>2. t = Append(issues, x)
        BY <1>8, <3>2, <4>1 DEF ReportUnlinked
      <4>3. \A k \in DOMAIN issues : t[k] = issues[k]
        BY ONLY <2>1, <4>2, AppendDoes
      <4>4. Sequence(t) /\ Len(t) = Len(issues) + 1 /\ t[Len(issues) + 1] = x
        BY ONLY <2>1, <4>2, AppendDoes
      <4>5. DOMAIN t = 1..(Len(issues) + 1)
        BY <4>4, SequenceHas
      <4>6. x.status = "not_linked_to_delivery_in_erp"
        BY <4>1 DEF Unlinked, IssueOf
      <4> QED  BY <2>1, <4>1, <4>3, <4>4, <4>5, <4>6
    <3> QED  BY <3>1, <3>2
  <2>3. UNCHANGED <<erp, onec, matched>> /\ Places' = Places
    BY <1>8 DEF ReportUnlinked, Places
  <2>4. \A k \in RowsReported : k \in RowsReported' /\ issues'[k] = issues[k]
    BY <2>2, <2>3 DEF RowsReported
  <2>5. \A k \in OneCSide' : issues'[k].status # "match"
    <3>1. ASSUME NEW k \in OneCSide' PROVE issues'[k].status # "match"
      <4>1. CASE k \in DOMAIN issues
        <5>1. k \in OneCSide /\ issues'[k] = issues[k]
          BY <2>2, <2>3, <3>1, <4>1 DEF OneCSide
        <5> QED  BY <1>1, <5>1 DEF OwnedInv
      <4>2. CASE k \notin DOMAIN issues
        BY <2>2, <3>1, <4>2 DEF OneCSide
      <4> QED  BY <4>1, <4>2
    <3> QED  BY <3>1
  <2> QED  BY <1>1, <2>3, <2>4, <2>5, OwnersStay
<1>9. CASE ClassifyIssue
  <2>1. PICK known : issues' = [issues EXCEPT ![pos].status = ClassifiedStatus(issues[pos], known)]
    BY <1>9 DEF ClassifyIssue
  <2>2. UNCHANGED <<erp, onec, matched>> /\ Places' = Places /\ DOMAIN issues' = DOMAIN issues
    BY <1>9, <2>1 DEF ClassifyIssue, Places
  <2>3. RowsReported' = RowsReported /\ OneCSide' = OneCSide
        /\ RowsReported \subseteq DOMAIN issues /\ OneCSide \subseteq DOMAIN issues
    BY <2>2 DEF RowsReported, OneCSide
  <2>4. ASSUME NEW k \in DOMAIN issues
        PROVE  /\ issues'[k].onec = issues[k].onec
               /\ issues'[k].status = issues[k].status
                  \/ (/\ issues[k].status = "not_linked_to_delivery_in_erp"
                      /\ issues'[k].status # "match")
    <3>1. CASE k # pos
      BY <2>1, <2>4, <3>1
    <3>2. CASE k = pos
      <4>1. PICK y, x, z : y = issues'[k] /\ x = issues[k] /\ z = ClassifiedStatus(issues[pos], known)
        OBVIOUS
      <4>2. y = [x EXCEPT !.status = z]
        BY <2>1, <2>4, <3>2, <4>1
      <4>3. IsIssue(x)
        BY <1>1, <4>1 DEF ReportInv, SidesInv
      <4>4. y.status = z /\ y.onec = x.onec
        BY ONLY <4>2, <4>3 DEF IsIssue
      <4>5. z = x.status \/ (/\ x.status = "not_linked_to_delivery_in_erp"
                             /\ z \in {"not_linked_to_delivery_in_erp", "not_comparable",
                                       "not_found_in_erp"})
        BY <3>2, <4>1 DEF ClassifiedStatus
      <4> QED  BY <4>1, <4>4, <4>5
    <3> QED  BY <3>1, <3>2
  <2>5. "not_linked_to_delivery_in_erp" \notin Undecided
    BY DEF Undecided
  <2>6. \A k \in OneCSide' : issues'[k].status # "match"
    BY <1>1, <2>3, <2>4 DEF OwnedInv
  <2>7. \A k \in RowsReported :
          /\ k \in RowsReported' /\ issues'[k].onec = issues[k].onec
          /\ issues[k].status \in Undecided => issues'[k].status \in Undecided
    BY <2>3, <2>4, <2>5
  <2> QED  BY <1>1, <2>2, <2>6, <2>7, OwnersStay
<1> QED
  BY <1>2, <1>3, <1>4, <1>5, <1>6, <1>7, <1>8, <1>9 DEF Match

-----------------------------------------------------------------------------
LEMMA InitPasses == Init => PassedInv
<1> SUFFICES ASSUME Init PROVE PassedInv
  OBVIOUS
<1>1. MatchInv
  BY InitMatches
<1>2. OwnedInv
  <2>1. matched = {} /\ DOMAIN issues = {}
    BY DEF Init, InitMatching
  <2> QED  BY <2>1 DEF OwnedInv, OneCSide
<1>3. BookInv
  BY DEF BookInv, Init, InitPreparation
<1> QED  BY <1>1, <1>2, <1>3 DEF PassedInv

LEMMA NextPasses == PassedInv /\ [Next]_vars => PassedInv'
<1> SUFFICES ASSUME PassedInv, [Next]_vars PROVE OwnedInv' /\ BookInv'
  BY NextMatches DEF PassedInv
<1>1. ASSUME UNCHANGED <<erp, onec, issues, matched>>
      PROVE  OwnedInv'
  <2>1. RowsReported' = RowsReported /\ OneCSide' = OneCSide
    BY <1>1 DEF RowsReported, OneCSide, Places
  <2>2. OwnedInv
    BY DEF PassedInv
  <2>3. \A k \in OneCSide' : issues'[k].status # "match"
    BY <1>1, <2>1, <2>2 DEF OwnedInv
  <2> QED  BY <1>1, <2>1, <2>2, <2>3, OwnersStay
<1>2. CASE Prepare /\ UNCHANGED <<matchingVars, settlement, comparison, book>>
  <2>1. matched = {} /\ DOMAIN issues' = {} /\ UNCHANGED matched
    <3>1. phase \in Preparing /\ UNCHANGED <<matched, issues>>
      BY <1>2 DEF Prepare, AggregateErp, AggregateOneC, Coalesce, Preparing, matchingVars
    <3>2. Sequence(issues) /\ Len(issues) = 0
      BY <3>1 DEF PassedInv, MatchInv, ReportInv, SidesInv
    <3>3. DOMAIN issues = {}
      BY <3>2, SequenceHas
    <3>4. matched = {}
      BY <3>3 DEF PassedInv, OwnedInv, Owned, RowsReported
    <3> QED  BY <3>1, <3>3, <3>4
  <2>2. OwnedInv'
    BY <2>1 DEF OwnedInv, OneCSide
  <2>3. phase' \notin {"report", "done"}
    BY <1>2 DEF Prepare, AggregateErp, AggregateOneC, Coalesce
  <2> QED  BY <2>2, <2>3 DEF BookInv
<1>3. CASE Match /\ UNCHANGED <<settlement, comparison, book>>
  <2>1. OwnedInv'
    BY <1>3, OwnersKept
  <2>2. phase' \notin {"report", "done"}
    BY <1>3 DEF Match, ReportMissingErpDocument, ReportNotFound, ReportAmbiguousLine,
         MatchLine, ReportDuplicates, ReportAmbiguousDetail, MatchDocument, EndOfRows,
         ReportUnlinked, EndOfDocuments, ClassifyIssue, EndOfIssues, Report, Searched, AtRow
  <2> QED  BY <2>1, <2>2 DEF BookInv
<1>4. CASE CompareBalances
  <2>1. OwnedInv'
    BY <1>1, <1>4 DEF CompareBalances, matchingVars
  <2>2. PICK s \in Settlements : settlement' = s /\ comparison' = Comparison(s)
    BY <1>4 DEF CompareBalances
  <2>3. UNCHANGED <<erp, issues>> /\ phase' = "report"
    BY <1>4 DEF CompareBalances, matchingVars
  <2>4. Comparison(s)' = Comparison(s)
    BY <2>3 DEF Comparison, DirectBalance, AllocatedExternalAdjustment, ShownMoney, AdjustingIssues,
                Adjusts,                 RelevantBalances, Comparable
  <2> QED  BY <2>1, <2>2, <2>3, <2>4 DEF BookInv
<1>5. CASE WriteWorkbook
  <2>1. UNCHANGED <<erp, onec, issues, matched, settlement, comparison>>
    BY <1>5 DEF WriteWorkbook, matchingVars
  <2>2. phase = "report" /\ phase' = "done"
    BY <1>5 DEF WriteWorkbook
  <2>3. comparison = Comparison(settlement)
    BY <2>2 DEF PassedInv, BookInv
  <2>4. Comparison(settlement)' = Comparison(settlement)
    BY <2>1 DEF Comparison, DirectBalance, AllocatedExternalAdjustment, ShownMoney,
                AdjustingIssues, Adjusts, RelevantBalances, Comparable
  <2>5. (book'.result = "passed") = RunMatched
    <3> DEFINE bad == {k \in DOMAIN issues : ~ Matched(k)}
               problems == Sheet(bad)
    <3>1. book'.result = RunResultLabel(problems)
      BY <1>5 DEF WriteWorkbook
    <3>2. problems = << >> <=> bad = {}
      BY SheetIsEmpty DEF PassedInv, MatchInv, ReportInv, SidesInv
    <3>3. bad = {} <=> \A k \in DOMAIN issues : Matched(k)
      OBVIOUS
    <3> HIDE DEF bad, problems
    <3>4. book'.result = "passed"
            <=> problems = << >> /\ comparison.status \in {"match", "not_checked"}
      BY <3>1 DEF RunResultLabel
    <3>5. RunMatched <=> bad = {} /\ comparison.status \in {"match", "not_checked"}
      BY <3>3 DEF RunMatched
    <3>6. RunMatched \in BOOLEAN /\ (book'.result = "passed") \in BOOLEAN
      BY DEF RunMatched
    <3> QED  BY <3>2, <3>4, <3>5, <3>6
  <2>6. RunMatched' = RunMatched
    BY <2>1 DEF RunMatched, Matched
  <2> QED  BY <1>1, <2>1, <2>3, <2>4, <2>5, <2>6 DEF BookInv
<1>6. CASE UNCHANGED vars
  <2>1. UNCHANGED <<erp, onec, issues, matched, settlement, comparison, book, phase>>
    BY <1>6 DEF vars, preparationVars, matchingVars
  <2>2. Comparison(settlement)' = Comparison(settlement)
    BY <2>1 DEF Comparison, DirectBalance, AllocatedExternalAdjustment, ShownMoney,
                AdjustingIssues, Adjusts, RelevantBalances, Comparable
  <2>3. RunMatched' = RunMatched
    BY <2>1 DEF RunMatched, Matched
  <2> QED  BY <1>1, <2>1, <2>2, <2>3 DEF PassedInv, BookInv
<1> QED  BY <1>2, <1>3, <1>4, <1>5, <1>6 DEF Next

\* Nothing that was taken is without an issue that owns it, and a workbook says
\* what the issues and balances say, whatever was read (match_documents,
\* compare_balances, _build_reconciliation_summary_sheet).
THEOREM PassedInvHolds == Spec => []PassedInv
BY InitPasses, NextPasses, PTL DEF Spec

\* Everything is matched: then each document of 1C is some row's, and the
\* balances that were compared agree.
LEMMA PassedMeans ==
  ASSUME PassedInv, phase = "done", RunMatched
  PROVE  /\ DOMAIN onec = {issues[k].onec : k \in DOMAIN issues}
         /\ RelevantBalances(settlement) # {} =>
              settlement.erp = DirectBalance(settlement)
                                 + AllocatedExternalAdjustment(settlement.codes)
<1>1. \A k \in DOMAIN issues : issues[k].status = "match"
  BY DEF RunMatched, Matched
<1>2. OneCSide = {}
  BY <1>1 DEF PassedInv, OwnedInv, OneCSide
<1>3. RowsReported = DOMAIN issues
  BY <1>2 DEF OneCSide, RowsReported
<1>4. DOMAIN onec \subseteq matched
  <2>1. "done" \in Later \ {"unlinked"}
    BY DEF Later
  <2>2. OneCReported = DOMAIN onec \ matched
    BY <2>1 DEF PassedInv, MatchInv, ReportInv, SidesInv
  <2> QED  BY <1>2, <2>2 DEF OneCReported
<1>5. ASSUME NEW i \in DOMAIN onec PROVE \E k \in DOMAIN issues : issues[k].onec = i
  <2>1. PICK k \in RowsReported : issues[k].onec = i \/ issues[k].status \in Undecided
    BY <1>4, <1>5 DEF PassedInv, OwnedInv, Owned
  <2>2. "match" \notin Undecided
    BY DEF Undecided
  <2> QED  BY <1>1, <1>3, <2>1, <2>2
<1>6. ASSUME NEW k \in DOMAIN issues PROVE issues[k].onec \in DOMAIN onec
  BY <1>1, <1>3, <1>6 DEF PassedInv, MatchInv, ExactInv, Exact
<1>7. ASSUME RelevantBalances(settlement) # {}
      PROVE  settlement.erp = DirectBalance(settlement)
                                + AllocatedExternalAdjustment(settlement.codes)
  <2> DEFINE s == settlement
             sum == DirectBalance(s) + AllocatedExternalAdjustment(s.codes)
             status == CASE ~Comparable -> "not_comparable"
                         [] Comparable /\ s.erp = sum -> "match"
                         [] Comparable /\ s.erp # sum -> "amount_mismatch"
  <2>1. comparison = [erp |-> s.erp, onec |-> sum, comparable |-> Comparable, status |-> status]
    BY <1>7 DEF PassedInv, BookInv, Comparison
  <2> HIDE DEF status, sum
  <2>2. comparison.status = status
    BY <2>1
  <2>3. status \in {"match", "not_checked"}
    BY <2>2 DEF RunMatched
  <2>4. s.erp = sum
    BY <2>3 DEF status
  <2> QED  BY <2>4 DEF sum
<1> QED  BY <1>5, <1>6, <1>7

-----------------------------------------------------------------------------
(* Money: the places of a group, and the lines of documents put together.  *)

\* The place of i among the members of S.
PlaceOf(S, i) == Cardinality({j \in S : j < i}) + 1

\* Every member of S is at its place among them.
LEMMA NthReaches ==
  ASSUME NEW S \in SUBSET Nat, IsFiniteSet(S), NEW i \in S
  PROVE  PlaceOf(S, i) \in 1..Cardinality(S) /\ Nth(S, PlaceOf(S, i)) = i
<1> DEFINE below(x) == {j \in S : j < x}
<1>1. \A x \in S : /\ below(x) \in SUBSET S /\ IsFiniteSet(below(x))
                   /\ Cardinality(below(x)) \in Nat /\ x \notin below(x)
  BY FS_Subset, FS_CardinalityType
<1>2. Cardinality(S) \in Nat
  BY FS_CardinalityType
<1>3. Cardinality(below(i)) < Cardinality(S)
  <2>1. Cardinality(below(i)) <= Cardinality(S) /\ (Cardinality(S) = Cardinality(below(i)) => S = below(i))
    BY <1>1, FS_Subset
  <2>2. S # below(i)
    BY <1>1
  <2> QED  BY <1>1, <1>2, <2>1, <2>2
<1>4. PlaceOf(S, i) \in 1..Cardinality(S)
  BY <1>1, <1>2, <1>3 DEF PlaceOf
<1>5. PICK n, x : n = PlaceOf(S, i) /\ x = Nth(S, n)
  OBVIOUS
<1>6. x \in S /\ Cardinality(below(x)) = n - 1
  BY <1>4, <1>5, NthIs
<1>7. Cardinality(below(x)) = Cardinality(below(i))
  BY <1>1, <1>5, <1>6 DEF PlaceOf
<1>8. \A y, z \in S : y < z => below(y) \in SUBSET below(z) /\ below(y) # below(z)
  <2>1. SUFFICES ASSUME NEW y \in S, NEW z \in S, y < z
                 PROVE  below(y) \in SUBSET below(z) /\ y \in below(z) /\ y \notin below(y)
    OBVIOUS
  <2>2. \A j \in S : j < y => j < z
    BY <2>1
  <2> QED  BY <1>1, <2>1, <2>2
<1> HIDE DEF below
<1>9. \A y, z \in S : y < z => Cardinality(below(y)) # Cardinality(below(z))
  BY <1>1, <1>8, FS_Subset
<1>10. x = i
  <2>1. ~ (x < i) /\ ~ (i < x)
    BY <1>6, <1>7, <1>9
  <2> QED  BY <1>6, <2>1
<1> QED  BY <1>4, <1>5, <1>10

\* Lines put together: each of an amount is there as often as in both.
LEMMA HowManyTogether ==
  ASSUME NEW T, NEW x \in Seq(T), NEW y \in Seq(T), NEW a
  PROVE  HowMany(x \o y, a) = HowMany(x, a) + HowMany(y, a)
<1> DEFINE n == Len(x)
           z == x \o y
           A == {k \in DOMAIN x : x[k].amount = a}
           B == {k \in DOMAIN y : y[k].amount = a}
           C == {k + n : k \in B}
           D == {k \in DOMAIN z : z[k].amount = a}
<1>1. /\ n \in Nat /\ Len(y) \in Nat /\ DOMAIN x = 1..n /\ DOMAIN y = 1..Len(y)
      /\ z \in Seq(T) /\ DOMAIN z = 1..(n + Len(y))
      /\ \A k \in DOMAIN z : z[k] = IF k <= n THEN x[k] ELSE y[k - n]
  <2>1. PICK t : t = x \o y
    OBVIOUS
  <2>2. /\ t \in Seq(T) /\ Len(t) = n + Len(y)
        /\ \A k \in 1..(n + Len(y)) : t[k] = IF k <= n THEN x[k] ELSE y[k - n]
    BY <2>1, ConcatProperties
  <2>3. DOMAIN t = 1..(n + Len(y))
    BY <2>2
  <2> QED  BY <2>1, <2>2, <2>3
<1>2. IsFiniteSet(A) /\ IsFiniteSet(B)
  <2>1. IsFiniteSet(DOMAIN x) /\ IsFiniteSet(DOMAIN y)
    BY <1>1, FS_Interval
  <2> QED  BY <2>1, FS_Subset
<1> HIDE DEF n, z
<1>3. IsFiniteSet(C) /\ Cardinality(C) = Cardinality(B)
  <2> DEFINE f == [k \in B |-> k + n]
  <2>1. f \in Bijection(B, C)
    <3>1. \A k \in B : k \in Nat
      BY <1>1
    <3>2. f \in [B -> C] /\ \A c \in C : \E k \in B : f[k] = c
      OBVIOUS
    <3>3. \A j, k \in B : f[j] = f[k] => j = k
      BY <1>1, <3>1
    <3> QED  BY <3>2, <3>3 DEF Bijection, Injection, Surjection, IsInjective
  <2>2. ExistsBijection(B, C)
    BY <2>1 DEF ExistsBijection
  <2> HIDE DEF C
  <2> QED  BY <1>2, <2>2, FS_Bijection
<1>4. D = A \cup C /\ A \cap C = {}
  <2>1. ASSUME NEW k \in D PROVE k \in A \cup C
    <3>1. CASE k <= n
      BY <1>1, <2>1, <3>1
    <3>2. CASE ~ (k <= n)
      <4>1. k - n \in DOMAIN y /\ y[k - n].amount = a /\ (k - n) + n = k
        BY <1>1, <2>1, <3>2
      <4> QED  BY <4>1
    <3> QED  BY <3>1, <3>2
  <2>2. ASSUME NEW k \in A PROVE k \in D /\ k \notin C
    <3>1. k \in DOMAIN z /\ k <= n
      BY <1>1
    <3>2. z[k] = x[k]
      BY <1>1, <3>1
    <3>3. ASSUME NEW j \in B PROVE k # j + n
      BY <1>1, <3>1
    <3> QED  BY <3>1, <3>2, <3>3
  <2>3. ASSUME NEW j \in B PROVE j + n \in D
    <3>1. j + n \in DOMAIN z /\ ~ (j + n <= n) /\ (j + n) - n = j
      BY <1>1
    <3>2. z[j + n] = y[j]
      BY <1>1, <3>1
    <3> QED  BY <3>1, <3>2
  <2> QED  BY <2>1, <2>2, <2>3
<1> HIDE DEF A, B, C, D
<1>5. Cardinality(A \cup C) = Cardinality(A) + Cardinality(C) - Cardinality(A \cap C)
  BY <1>2, <1>3, FS_Union
<1>6. Cardinality(A \cap C) = 0 /\ Cardinality(A) \in Nat /\ Cardinality(C) \in Nat
  BY <1>2, <1>3, <1>4, FS_EmptySet, FS_CardinalityType
<1>7. Cardinality(D) = Cardinality(A) + Cardinality(B)
  BY <1>3, <1>4, <1>5, <1>6
<1> QED  BY <1>7 DEF HowMany, A, B, D, z

\* A list of lists put together has what its lists have, as often as they do.
LEMMA FlattenCounts ==
  ASSUME NEW T, NEW seqs, Sequence(seqs), \A k \in DOMAIN seqs : seqs[k] \in Seq(T),
         NEW a, NEW H, \A k \in DOMAIN seqs : H[k] = HowMany(seqs[k], a)
  PROVE  /\ Len(seqs) > 0 => FlattenSeq(seqs) \in Seq(T)
         /\ HowMany(FlattenSeq(seqs), a) = SumFunctionOnSet(H, DOMAIN seqs)
<1>1. Len(seqs) \in Nat /\ DOMAIN seqs = 1..Len(seqs) /\ IsFiniteSet(DOMAIN seqs)
  BY SequenceHas
<1>2. CASE Len(seqs) = 0
  <2>1. FlattenSeq(seqs) = seqs
    BY <1>2 DEF FlattenSeq
  <2>2. DOMAIN seqs = {}
    BY <1>1, <1>2
  <2>3. {k \in DOMAIN seqs : seqs[k].amount = a} = {}
    BY <2>2
  <2>4. HowMany(seqs, a) = 0
    BY <2>3, FS_EmptySet DEF HowMany
  <2> QED  BY <1>2, <2>1, <2>2, <2>4, SumOfNone
<1>3. CASE Len(seqs) # 0
  <2> DEFINE n == Len(seqs)
             f == CHOOSE g : Flattens(seqs, g)
             Good == {i \in 1..n : /\ f[i] \in Seq(T)
                                   /\ HowMany(f[i], a) = SumFunctionOnSet(H, 1..i)}
  <2>1. FlattenSeq(seqs) = f[n]
    BY <1>3 DEF FlattenSeq, Flattens
  <2>2. Flattens(seqs, f)
    BY <1>1, FlatteningExists DEF f
  <2> HIDE DEF f
  <2>3. \A i \in 1..n : f[i] = IF i = 1 THEN seqs[i] ELSE f[i - 1] \o seqs[i]
    BY <2>2 DEF Flattens
  <2>4. \A i \in 1..n : H[i] \in Int
    <3>1. ASSUME NEW i \in 1..n PROVE HowMany(seqs[i], a) \in Nat
      <4>1. Sequence(seqs[i])
        BY <1>1 DEF Sequence
      <4> QED  BY <4>1, PlacesAreFinite DEF HowMany
    <3> QED  BY <1>1, <3>1
  <2>5. n > 0 => 1 \in Good
    <3>1. 1..1 = {1} /\ 1 \in 1..n
      BY <1>1, <1>3
    <3>2. SumFunctionOnSet(H, {1}) = H[1]
      BY <2>4, <3>1, SumOfOne
    <3>3. f[1] = seqs[1]
      BY <2>3, <3>1
    <3> QED  BY <1>1, <3>1, <3>2, <3>3
  <2>6. ASSUME NEW i \in 1..n, i \in Good, i < n PROVE (i + 1) \in Good
    <3>1. i + 1 \in 1..n /\ i + 1 # 1 /\ (i + 1) - 1 = i /\ i \in Nat
      BY <1>1, <2>6
    <3>2. f[i + 1] = f[i] \o seqs[i + 1]
      BY <2>3, <3>1
    <3>3. f[i] \in Seq(T) /\ HowMany(f[i], a) = SumFunctionOnSet(H, 1..i) /\ seqs[i + 1] \in Seq(T)
      BY <1>1, <2>6, <3>1
    <3>4. HowMany(f[i + 1], a) = SumFunctionOnSet(H, 1..i) + H[i + 1]
      <4>1. HowMany(f[i] \o seqs[i + 1], a) = HowMany(f[i], a) + HowMany(seqs[i + 1], a)
        BY <3>3, HowManyTogether
      <4> QED  BY <1>1, <3>1, <3>2, <3>3, <4>1
    <3>5. f[i + 1] \in Seq(T)
      <4>1. f[i] \o seqs[i + 1] \in Seq(T)
        BY <3>3, ConcatProperties
      <4> QED  BY <3>2, <4>1
    <3>6. SumFunctionOnSet(H, 1..(i + 1)) = H[i + 1] + SumFunctionOnSet(H, 1..i)
      <4>1. PICK S, U, x : S = 1..n /\ U = 1..(i + 1) /\ x = i + 1
        OBVIOUS
      <4>2. U \ {x} = 1..i /\ x \in U /\ U \in SUBSET S /\ IsFiniteSet(S)
        <5>1. \A j \in Int : (j <= i + 1 /\ j # i + 1) <=> j <= i
          BY <3>1
        <5>2. i + 1 <= n /\ n \in Nat
          BY <1>1, <3>1
        <5>3. U \ {x} = 1..i
          BY <3>1, <4>1, <5>1
        <5>4. x \in U /\ U \in SUBSET S
          BY <3>1, <4>1, <5>2
        <5> QED  BY <1>1, <4>1, <5>3, <5>4
      <4>3. \A j \in S : H[j] \in Int
        BY <2>4, <4>1
      <4>4. SumFunctionOnSet(H, U) = H[x] + SumFunctionOnSet(H, U \ {x})
        BY ONLY <4>2, <4>3, SumWithout
      <4> QED  BY <4>1, <4>2, <4>4
    <3>7. SumFunctionOnSet(H, 1..i) \in Int /\ H[i + 1] \in Int
      <4>1. 1..i \in SUBSET (1..n) /\ IsFiniteSet(1..n)
        BY <1>1, <2>6
      <4> QED  BY <2>4, <3>1, <4>1, SumInteger
    <3>8. HowMany(f[i + 1], a) = SumFunctionOnSet(H, 1..(i + 1))
      BY <3>4, <3>6, <3>7
    <3> QED  BY <3>1, <3>5, <3>8
  <2> HIDE DEF Good
  <2>7. \A i \in 1..n : i \in Good
    BY <1>1, <2>5, <2>6, ByNumbers
  <2>8. n \in Good
    BY <1>1, <1>3, <2>7
  <2> QED  BY <1>1, <2>1, <2>8 DEF Good
<1> QED  BY <1>2, <1>3

\* A sequence whose members are in T is one over T.
LEMMA SequenceOver ==
  ASSUME NEW s, Sequence(s), NEW T, \A k \in DOMAIN s : s[k] \in T
  PROVE  s \in Seq(T)
<1>1. PICK U : s \in Seq(U)
  BY DEF Sequence
<1>2. s \in [1..Len(s) -> U] /\ Len(s) \in Nat /\ DOMAIN s = 1..Len(s)
  BY <1>1, LenProperties
<1>3. s \in [1..Len(s) -> T]
  BY <1>2
<1> QED  BY <1>2, <1>3

\* A document with an amount, a kind and a list of lines.
Weighable(d) == d.amount.value \in Int /\ d.kind \in Kinds /\ Sequence(d.lines)

Weighables(s) == \A k \in DOMAIN s : Weighable(s[k])

\* What each document adds to the money, and to the lines of amount a.
Amounts(s) == [k \in DOMAIN s |-> s[k].amount.value]
LineCounts(s, a) == [k \in DOMAIN s |-> HowMany(s[k].lines, a)]

\* The lines of all documents are those of each, counted together.
LEMMA LinesTogether ==
  ASSUME NEW s, Sequence(s), \A k \in DOMAIN s : Sequence(s[k].lines)
  PROVE  /\ Sequence(FlattenSeq([k \in DOMAIN s |-> s[k].lines])) \/ DOMAIN s = {}
         /\ \A a : /\ HowMany(AllLines(s), a) = SumFunctionOnSet(LineCounts(s, a), DOMAIN s)
                   /\ \A k \in DOMAIN s : LineCounts(s, a)[k] \in Int
<1> DEFINE lists == [k \in DOMAIN s |-> s[k].lines]
           T == UNION {{s[k].lines[n] : n \in DOMAIN s[k].lines} : k \in DOMAIN s}
<1>1. Len(s) \in Nat /\ DOMAIN s = 1..Len(s)
  BY SequenceHas
<1>2. DOMAIN lists = DOMAIN s /\ \A k \in DOMAIN s : lists[k] = s[k].lines
  OBVIOUS
<1>3. Sequence(lists)
  <2>1. lists = [k \in 1..Len(s) |-> lists[k]]
    BY <1>1
  <2> HIDE DEF lists
  <2> QED  BY <1>1, <2>1, ListIsSequence
<1>4. \A k \in DOMAIN s : s[k].lines \in Seq(T)
  <2>1. \A k \in DOMAIN s : \A n \in DOMAIN s[k].lines : s[k].lines[n] \in T
    OBVIOUS
  <2> HIDE DEF T
  <2> QED  BY <2>1, SequenceOver
<1> HIDE DEF T, lists
<1>5. ASSUME NEW a
      PROVE  /\ Len(lists) > 0 => FlattenSeq(lists) \in Seq(T)
             /\ HowMany(FlattenSeq(lists), a) = SumFunctionOnSet(LineCounts(s, a), DOMAIN lists)
  <2>1. \A k \in DOMAIN lists : lists[k] \in Seq(T) /\ LineCounts(s, a)[k] = HowMany(lists[k], a)
    BY <1>2, <1>4 DEF LineCounts
  <2> QED  BY <1>3, <2>1, FlattenCounts
<1>6. ASSUME NEW a, NEW k \in DOMAIN s PROVE LineCounts(s, a)[k] \in Int
  <2>1. Cardinality({n \in DOMAIN s[k].lines : s[k].lines[n].amount = a}) \in Nat
    BY PlacesAreFinite
  <2> QED  BY <2>1 DEF LineCounts, HowMany
<1>7. Sequence(FlattenSeq(lists)) \/ DOMAIN s = {}
  <2>1. DOMAIN lists = 1..Len(lists) /\ Len(lists) \in Nat
    BY <1>3, SequenceHas
  <2>2. CASE Len(lists) > 0
    BY <1>5, <2>2 DEF Sequence
  <2>3. CASE Len(lists) = 0
    BY <1>2, <2>1, <2>3
  <2> QED  BY <2>1, <2>2, <2>3
<1> QED  BY <1>2, <1>5, <1>6, <1>7 DEF AllLines, lists

\* The members of a group in their order add up to what the group adds up to.
LEMMA SumOfMembers ==
  ASSUME NEW S \in SUBSET Nat, IsFiniteSet(S), NEW F, \A i \in S : F[i] \in Int,
         NEW H, \A k \in 1..Cardinality(S) : H[k] = F[Nth(S, k)]
  PROVE  SumFunctionOnSet(F, S) = SumFunctionOnSet(H, 1..Cardinality(S))
<1> PICK T, m : T = 1..Cardinality(S) /\ m = [i \in S |-> PlaceOf(S, i)]
  OBVIOUS
<1>1. Cardinality(S) \in Nat /\ IsFiniteSet(T)
  BY FS_CardinalityType, FS_Interval
<1>2. \A i \in S : m[i] \in T /\ Nth(S, m[i]) = i
  BY NthReaches
<1>3. ASSUME NEW k \in T PROVE Nth(S, k) \in S /\ m[Nth(S, k)] = k
  <2>1. Nth(S, k) \in S /\ Cardinality({j \in S : j < Nth(S, k)}) = k - 1
    BY NthIs
  <2>2. m[Nth(S, k)] = PlaceOf(S, Nth(S, k))
    BY <2>1
  <2>3. PlaceOf(S, Nth(S, k)) = (k - 1) + 1
    BY <2>1 DEF PlaceOf
  <2> QED  BY <1>1, <2>1, <2>2, <2>3
<1>4. \A k \in T : \E i \in S : m[i] = k /\ H[k] = F[i]
  BY <1>3
<1>5. \A i, j \in S : m[i] = m[j] => i = j
  BY <1>2
<1>6. PICK U : U = S
  OBVIOUS
<1>7. /\ IsFiniteSet(U) /\ IsFiniteSet(T)
      /\ \A i \in U : F[i] \in Int /\ m[i] \in T
      /\ \A k \in T : \E i \in U : m[i] = k /\ H[k] = F[i]
      /\ \A i, j \in U : m[i] = m[j] => i = j
  BY <1>1, <1>2, <1>4, <1>5, <1>6
<1>8. SumFunctionOnSet(F, U) = SumFunctionOnSet(H, T)
  BY ONLY <1>7, SumRenamed
<1> QED  BY <1>6, <1>8

\* A merged document has the total and the lines of its members (_combine_documents).
LEMMA MergedFields ==
  ASSUME NEW s, NEW contract, NEW vat, IsDocument(s[1])
  PROVE  /\ Merged(s, contract, vat).amount.value = Total(s)
         /\ Merged(s, contract, vat).lines = AllLines(s)
<1> DEFINE d == s[1]
           m == Merged(s, contract, vat)
           total == Total(s)
           related == \E k \in DOMAIN s : s[k].related
           lines == AllLines(s)
           allocations == FlattenSeq([k \in DOMAIN s |-> s[k].allocations])
<1>1. m = [d EXCEPT !.amount.value = total,
                    !.contract = contract, !.vat = vat, !.operation = 0,
                    !.related = related, !.lines = lines, !.allocations = allocations]
  BY DEF Merged, AllLines
<1>2. HasFields(d) /\ IsMoney(d.amount)
  BY DEF IsDocument
<1> HIDE DEF d, m, total, related, lines, allocations
<1>3. m.amount = [d.amount EXCEPT !.value = total] /\ m.lines = lines
  BY ONLY <1>1, <1>2 DEF HasFields
<1>4. m.amount.value = total
  BY ONLY <1>2, <1>3 DEF IsMoney
<1> QED  BY <1>3, <1>4 DEF m, total, lines

-----------------------------------------------------------------------------
(* Which documents carry the money and the lines of which.                 *)

\* Document d carries what the documents of s at the places S carry together.
Carries(d, s, S) ==
  /\ S # {}
  /\ Weighable(d)
  /\ \A i \in S : s[i].kind = d.kind /\ s[i].amount.currency = d.amount.currency
  /\ d.amount.value = SumFunctionOnSet(Amounts(s), S)
  /\ \A a : HowMany(d.lines, a) = SumFunctionOnSet(LineCounts(s, a), S)

LEMMA WeightsAre ==
  ASSUME NEW s, Sequence(s), Weighables(s)
  PROVE  /\ \A k \in DOMAIN s : Amounts(s)[k] \in Int
         /\ \A a : \A k \in DOMAIN s : LineCounts(s, a)[k] \in Int
<1>1. \A k \in DOMAIN s : Sequence(s[k].lines) /\ s[k].amount.value \in Int
  BY DEF Weighables, Weighable
<1> QED  BY <1>1, LinesTogether DEF Amounts

\* A document carries itself.
LEMMA AloneCarries ==
  ASSUME NEW s, Sequence(s), Weighables(s), NEW i \in DOMAIN s
  PROVE  Carries(s[i], s, {i})
<1>1. s[i].amount.value = SumFunctionOnSet(Amounts(s), {i})
  <2>1. Amounts(s)[i] = s[i].amount.value /\ Amounts(s)[i] \in Int
    BY WeightsAre DEF Amounts
  <2> QED  BY <2>1, SumOfOne
<1>2. ASSUME NEW a PROVE HowMany(s[i].lines, a) = SumFunctionOnSet(LineCounts(s, a), {i})
  <2>1. LineCounts(s, a)[i] = HowMany(s[i].lines, a)
    BY DEF LineCounts
  <2>2. LineCounts(s, a)[i] \in Int
    BY WeightsAre
  <2> QED  BY <2>1, <2>2, SumOfOne
<1>3. Weighable(s[i])
  BY DEF Weighables
<1> QED  BY <1>1, <1>2, <1>3 DEF Carries

\* A merged document carries its members, when they are of one kind and currency.
LEMMA MergedCarries ==
  ASSUME NEW s, Sequence(s), Shaped(s), Weighables(s), NEW S \in SUBSET DOMAIN s, S # {},
         \A i, j \in S : s[i].kind = s[j].kind /\ s[i].amount.currency = s[j].amount.currency,
         NEW contract, NEW vat
  PROVE  Carries(Merged(Members(s, S), contract, vat), s, S)
<1>1. PICK t, m : t = Members(s, S) /\ m = Merged(t, contract, vat)
  OBVIOUS
<1>2. /\ S \in SUBSET Nat /\ IsFiniteSet(S) /\ Cardinality(S) \in Nat
      /\ \A k \in 1..Cardinality(S) : Nth(S, k) \in S
  BY NthPlace
<1>3. PICK f \in S : t[1] = s[f]
  BY <1>1, FirstMember
<1>4. /\ DOMAIN t = 1..Cardinality(S) /\ Sequence(t)
      /\ \A k \in DOMAIN t : t[k] = s[Nth(S, k)] /\ Nth(S, k) \in S
  BY <1>1, <1>2, MembersAre DEF Members
<1>5. \A k \in DOMAIN t : Weighable(t[k])
  BY <1>4 DEF Weighables
<1>6. IsDocument(t[1])
  BY <1>3 DEF Shaped
<1>7. StandsFor(m, t[1]) /\ m.amount.value = Total(t) /\ m.lines = AllLines(t)
  BY <1>1, <1>6, MergedStands, MergedFields
<1>8. DOMAIN t # {}
  <2>1. Cardinality(S) # 0
    BY <1>2, FS_EmptySet
  <2> QED  BY <1>2, <1>4, <2>1
<1>9. Total(t) = SumFunctionOnSet(Amounts(t), DOMAIN t)
  BY DEF Total, SumFunction, Amounts
<1>10. Total(t) = SumFunctionOnSet(Amounts(s), S)
  <2>1. \A k \in 1..Cardinality(S) : Amounts(t)[k] = Amounts(s)[Nth(S, k)]
    BY <1>4 DEF Amounts
  <2>2. \A i \in S : Amounts(s)[i] \in Int
    BY WeightsAre
  <2>3. SumFunctionOnSet(Amounts(s), S) = SumFunctionOnSet(Amounts(t), 1..Cardinality(S))
    BY ONLY <1>2, <2>1, <2>2, SumOfMembers
  <2> QED  BY <1>4, <1>9, <2>3
<1>11. \A k \in DOMAIN t : Sequence(t[k].lines)
  BY <1>5 DEF Weighable
<1>12. ASSUME NEW a PROVE HowMany(AllLines(t), a) = SumFunctionOnSet(LineCounts(s, a), S)
  <2>1. \A k \in 1..Cardinality(S) : LineCounts(t, a)[k] = LineCounts(s, a)[Nth(S, k)]
    BY <1>4 DEF LineCounts
  <2>2. \A i \in S : LineCounts(s, a)[i] \in Int
    BY WeightsAre
  <2>3. SumFunctionOnSet(LineCounts(s, a), S) = SumFunctionOnSet(LineCounts(t, a), 1..Cardinality(S))
    BY ONLY <1>2, <2>1, <2>2, SumOfMembers
  <2>4. HowMany(AllLines(t), a) = SumFunctionOnSet(LineCounts(t, a), DOMAIN t)
    BY <1>4, <1>11, LinesTogether
  <2> QED  BY <1>4, <2>3, <2>4
<1>13. Sequence(AllLines(t))
  BY <1>4, <1>8, <1>11, LinesTogether DEF AllLines
<1>14. SumFunctionOnSet(Amounts(s), S) \in Int
  <2>1. \A i \in S : Amounts(s)[i] \in Int
    BY WeightsAre
  <2>2. S \in SUBSET S
    OBVIOUS
  <2> QED  BY <1>2, <2>1, <2>2, SumInteger
<1>15. Weighable(m)
  <2>1. m.kind \in Kinds
    BY <1>3, <1>7 DEF StandsFor, Weighables, Weighable
  <2> QED  BY <1>7, <1>10, <1>13, <1>14, <2>1 DEF Weighable
<1>16. \A i \in S : s[i].kind = m.kind /\ s[i].amount.currency = m.amount.currency
  BY <1>3, <1>7 DEF StandsFor
<1> QED  BY <1>1, <1>7, <1>10, <1>12, <1>15, <1>16 DEF Carries

\* Each document of t carries what the documents of s carry that m sends there.
Gathers(t, s, m) ==
  /\ \A i \in DOMAIN s : m[i] \in DOMAIN t
  /\ \A k \in DOMAIN t : Carries(t[k], s, {i \in DOMAIN s : m[i] = k})

\* Every kind and currency has the same total, every amount as many lines.
SameMoneyAndLines(s, t) ==
  /\ \A kind, currency : KindTotal(t, kind, currency) = KindTotal(s, kind, currency)
  /\ \A a : HowMany(AllLines(t), a) = HowMany(AllLines(s), a)

LEMMA KindTotalIs ==
  ASSUME NEW s, Sequence(s), NEW kind, NEW currency
  PROVE  KindTotal(s, kind, currency)
           = SumFunctionOnSet(Amounts(s), {k \in DOMAIN s : s[k].kind = kind
                                                           /\ s[k].amount.currency = currency})
<1> DEFINE S == {k \in DOMAIN s : s[k].kind = kind /\ s[k].amount.currency = currency}
           F == [k \in S |-> s[k].amount.value]
<1>1. KindTotal(s, kind, currency) = SumFunctionOnSet(F, DOMAIN F) /\ DOMAIN F = S
  BY DEF KindTotal, SumFunction
<1>2. S \in SUBSET DOMAIN s /\ \A k \in S : F[k] = Amounts(s)[k]
  BY DEF Amounts
<1> HIDE DEF F, S
<1>3. IsFiniteSet(S)
  BY <1>2, NthPlace
<1>4. SumFunctionOnSet(F, S) = SumFunctionOnSet(Amounts(s), S)
  BY <1>2, <1>3, SumAgrees
<1> QED  BY <1>1, <1>4 DEF S

\* When every document goes to one that carries it, no money is lost or doubled.
LEMMA GatheredKeeps ==
  ASSUME NEW s, Sequence(s), Weighables(s), NEW t, Sequence(t), NEW m, Gathers(t, s, m)
  PROVE  Weighables(t) /\ SameMoneyAndLines(s, t)
<1> DEFINE From(k) == {i \in DOMAIN s : m[i] = k}
<1>1. /\ \A i \in DOMAIN s : m[i] \in DOMAIN t
      /\ \A k \in DOMAIN t : Carries(t[k], s, From(k))
  BY DEF Gathers
<1>2. Weighables(t)
  BY <1>1 DEF Weighables, Carries
<1>3. IsFiniteSet(DOMAIN s) /\ IsFiniteSet(DOMAIN t)
  BY SequenceHas
<1>4. ASSUME NEW kind, NEW currency
      PROVE  KindTotal(t, kind, currency) = KindTotal(s, kind, currency)
  <2> DEFINE S == {k \in DOMAIN s : s[k].kind = kind /\ s[k].amount.currency = currency}
             T == {k \in DOMAIN t : t[k].kind = kind /\ t[k].amount.currency = currency}
  <2>1. IsFiniteSet(S) /\ IsFiniteSet(T)
    BY <1>3, FS_Subset
  <2>2. \A i \in DOMAIN s : /\ t[m[i]].kind = s[i].kind
                            /\ t[m[i]].amount.currency = s[i].amount.currency
    BY <1>1 DEF Carries
  <2>3. \A i \in S : m[i] \in T
    BY <1>1, <2>2
  <2>4. ASSUME NEW k \in T PROVE Amounts(t)[k] = SumFunctionOnSet(Amounts(s), {i \in S : m[i] = k})
    <3>1. {i \in S : m[i] = k} = From(k)
      BY <2>2
    <3>2. t[k].amount.value = SumFunctionOnSet(Amounts(s), From(k))
      BY <1>1 DEF Carries
    <3> QED  BY <3>1, <3>2 DEF Amounts
  <2>5. \A i \in S : Amounts(s)[i] \in Int
    BY WeightsAre
  <2>6. KindTotal(s, kind, currency) = SumFunctionOnSet(Amounts(s), S)
    BY KindTotalIs
  <2>7. KindTotal(t, kind, currency) = SumFunctionOnSet(Amounts(t), T)
    BY KindTotalIs
  <2> HIDE DEF S, T
  <2>8. SumFunctionOnSet(Amounts(s), S) = SumFunctionOnSet(Amounts(t), T)
    BY ONLY <2>1, <2>3, <2>4, <2>5, SumByGroups
  <2> QED  BY <2>6, <2>7, <2>8
<1>5. ASSUME NEW a PROVE HowMany(AllLines(t), a) = HowMany(AllLines(s), a)
  <2>1. \A i \in DOMAIN s : LineCounts(s, a)[i] \in Int
    BY WeightsAre
  <2>2. ASSUME NEW k \in DOMAIN t
        PROVE  LineCounts(t, a)[k] = SumFunctionOnSet(LineCounts(s, a), {i \in DOMAIN s : m[i] = k})
    BY <1>1 DEF Carries, LineCounts
  <2>3. HowMany(AllLines(s), a) = SumFunctionOnSet(LineCounts(s, a), DOMAIN s)
    BY LinesTogether DEF Weighables, Weighable
  <2>4. HowMany(AllLines(t), a) = SumFunctionOnSet(LineCounts(t, a), DOMAIN t)
    BY <1>2, LinesTogether DEF Weighables, Weighable
  <2>5. \A i \in DOMAIN s : m[i] \in DOMAIN t
    BY <1>1
  <2>6. PICK S, T : S = DOMAIN s /\ T = DOMAIN t
    OBVIOUS
  <2>7. SumFunctionOnSet(LineCounts(s, a), S) = SumFunctionOnSet(LineCounts(t, a), T)
    <3>1. /\ IsFiniteSet(S) /\ IsFiniteSet(T) /\ \A i \in S : LineCounts(s, a)[i] \in Int
          /\ \A i \in S : m[i] \in T
      BY <1>3, <2>1, <2>5, <2>6
    <3>2. \A k \in T : LineCounts(t, a)[k] = SumFunctionOnSet(LineCounts(s, a), {i \in S : m[i] = k})
      BY <2>2, <2>6
    <3> QED  BY ONLY <3>1, <3>2, SumByGroups
  <2> QED  BY <2>3, <2>4, <2>6, <2>7
<1> QED  BY <1>2, <1>4, <1>5 DEF SameMoneyAndLines

-----------------------------------------------------------------------------
(* The two steps of the preparation gather their documents.                *)

LEMMA TupleBegins ==
  ASSUME NEW a, NEW b, NEW c, NEW d, NEW e, NEW x, Sequence(x)
  PROVE  (<<a, b, c, d, e>> \o x)[1] = a /\ (<<a, b, c, d, e>> \o x)[5] = e
<1>1. PICK T : x \in Seq(T)
  BY DEF Sequence
<1>2. PICK y : y = <<a, b, c, d, e>>
  OBVIOUS
<1> DEFINE U == T \cup {a, b, c, d, e}
<1>3. y \in Seq(U) /\ x \in Seq(U) /\ Len(y) = 5 /\ y[1] = a /\ y[5] = e
  <2>1. y \in Seq({a, b, c, d, e}) /\ Len(y) = 5 /\ y[1] = a /\ y[5] = e
    BY ONLY <1>2
  <2>2. {a, b, c, d, e} \subseteq U /\ T \subseteq U
    OBVIOUS
  <2> HIDE DEF U
  <2>3. y \in Seq(U)
    BY <2>1, <2>2
  <2> QED  BY <1>1, <2>1, <2>2, <2>3
<1> HIDE DEF U
<1>4. Len(x) \in Nat
  BY SequenceHas
<1>5. (y \o x)[1] = y[1] /\ (y \o x)[5] = y[5]
  <2>1. \A i \in 1..(Len(y) + Len(x)) : (y \o x)[i] = IF i <= Len(y) THEN y[i] ELSE x[i - Len(y)]
    BY <1>3, ConcatProperties
  <2>2. /\ 1 \in 1..(Len(y) + Len(x)) /\ 1 <= Len(y)
        /\ 5 \in 1..(Len(y) + Len(x)) /\ 5 <= Len(y)
    BY <1>3, <1>4
  <2> QED  BY <2>1, <2>2
<1> QED  BY <1>2, <1>3, <1>5

\* A key names the kind and the currency of its document.
LEMMA KeyNames ==
  ASSUME NEW d, d.kind \in Kinds, AggregationKey(d) # NoKey
  PROVE  /\ AggregationKey(d)[1] = d.kind
         /\ AggregationKey(d)[IF d.kind = "payment" THEN 4 ELSE 5] = d.amount.currency
<1>1. DocumentId(d) # ""
  BY DEF AggregationKey
<1>2. CASE d.kind = "payment"
  <2>1. AggregationKey(d) = <<d.kind, DocumentId(d), d.source_id, d.amount.currency, d.date>>
    BY <1>1, <1>2, PaymentHasKey
  <2> QED  BY <1>2, <2>1
<1>3. CASE d.kind # "payment"
  <2> DEFINE common == <<d.kind, DocumentId(d), d.source_id, d.contract, d.amount.currency>>
  <2>1. AggregationKey(d) \in {common \o <<d.date, d.vat, d.operation, d.parent>>,
                               common \o <<d.date, d.number>>, common \o <<d.date, d.vat>>}
    BY <1>1, <1>3 DEF AggregationKey, Kinds
  <2>2. PICK x : Sequence(x) /\ AggregationKey(d) = common \o x
    <3>1. /\ Sequence(<<d.date, d.vat, d.operation, d.parent>>)
          /\ Sequence(<<d.date, d.number>>) /\ Sequence(<<d.date, d.vat>>)
      <4>1. /\ <<d.date, d.vat, d.operation, d.parent>> \in Seq({d.date, d.vat, d.operation, d.parent})
            /\ <<d.date, d.number>> \in Seq({d.date, d.number})
            /\ <<d.date, d.vat>> \in Seq({d.date, d.vat})
        OBVIOUS
      <4> QED  BY <4>1 DEF Sequence
    <3> HIDE DEF common
    <3> QED  BY <2>1, <3>1
  <2>3. (common \o x)[1] = d.kind /\ (common \o x)[5] = d.amount.currency
    BY <2>2, TupleBegins
  <2> HIDE DEF common
  <2> QED  BY <1>3, <2>2, <2>3
<1> QED  BY <1>2, <1>3

LEMMA SameKeySameMoney ==
  ASSUME NEW d, NEW e, d.kind \in Kinds, e.kind \in Kinds,
         AggregationKey(d) # NoKey, AggregationKey(d) = AggregationKey(e)
  PROVE  d.kind = e.kind /\ d.amount.currency = e.amount.currency
<1>1. d.kind = e.kind
  BY KeyNames
<1> QED  BY <1>1, KeyNames

LEMMA AggregatedCarries ==
  ASSUME NEW s, Sequence(s), Shaped(s), Weighables(s), NEW S \in SUBSET DOMAIN s, S # {},
         \A i, j \in S : s[i].kind = s[j].kind /\ s[i].amount.currency = s[j].amount.currency
  PROVE  Carries(Aggregated(Members(s, S)), s, S)
<1>1. PICK t : t = Members(s, S)
  OBVIOUS
<1>2. CASE Len(t) = 1
  <2>1. PICK f \in S : t[1] = s[f]
    BY <1>1, FirstMember
  <2>2. IsFiniteSet(S) /\ Cardinality(S) \in Nat
    BY NthPlace
  <2>3. DOMAIN t = 1..Cardinality(S)
    BY <1>1 DEF Members
  <2>4. Cardinality(S) = 1
    <3>1. Sequence(t)
      BY <1>1, MembersAre
    <3>2. DOMAIN t = 1..1
      BY <1>2, <3>1, SequenceHas
    <3>3. Cardinality(S) # 0
      BY <2>2, FS_EmptySet
    <3>4. Cardinality(S) \in 1..Cardinality(S)
      BY <2>2, <3>3
    <3>5. Cardinality(S) \in 1..1
      BY <2>3, <3>2, <3>4
    <3> QED  BY <3>5
  <2>5. S = {f}
    BY <2>2, <2>4, FS_Singleton
  <2>6. Aggregated(t) = s[f]
    BY <1>2, <2>1 DEF Aggregated
  <2> QED  BY <1>1, <2>5, <2>6, AloneCarries
<1>3. CASE Len(t) # 1
  <2>1. PICK contract, vat : Aggregated(t) = Merged(t, contract, vat)
    BY <1>3 DEF Aggregated
  <2>2. Carries(Merged(Members(s, S), contract, vat), s, S)
    BY MergedCarries
  <2> QED  BY <1>1, <2>1, <2>2
<1> QED  BY <1>2, <1>3

LEMMA LeastOfGroup ==
  ASSUME NEW S \in SUBSET Nat, S # {}
  PROVE  Min(S) \in S
BY LeastNumber DEF Min

\* aggregate_documents sends each document to that of its group, or to itself.
LEMMA AggregationGathers ==
  ASSUME NEW s, Sequence(s), Shaped(s), Weighables(s)
  PROVE  \E to : Gathers(AggregateDocuments(s), s, to)
<1> DEFINE group(i) == {j \in DOMAIN s : AggregationKey(s[j]) = AggregationKey(s[i])}
           plain == {i \in DOMAIN s : AggregationKey(s[i]) = NoKey}
           leaders == {i \in DOMAIN s \ plain : i = Min(group(i))}
           n == Cardinality(plain)
           m == Cardinality(leaders)
           one == Members(s, plain)
           two == [k \in 1..m |-> Aggregated(Members(s, group(Nth(leaders, k))))]
           all == AggregateDocuments(s)
           to == [i \in DOMAIN s |-> IF i \in plain THEN PlaceOf(plain, i)
                                     ELSE n + PlaceOf(leaders, Min(group(i)))]
<1>1. all = one \o two
  BY DEF AggregateDocuments, Group
<1>2. /\ plain \in SUBSET DOMAIN s /\ n \in Nat /\ \A k \in 1..n : Nth(plain, k) \in plain
      /\ plain \in SUBSET Nat /\ IsFiniteSet(plain)
      /\ leaders \in SUBSET DOMAIN s /\ leaders \in SUBSET Nat /\ IsFiniteSet(leaders)
      /\ m \in Nat /\ \A k \in 1..m : Nth(leaders, k) \in leaders
  BY NthPlace
<1>3. \A k \in 1..n : one[k] = s[Nth(plain, k)]
  BY DEF Members
<1>4. \A k \in 1..m : two[k] = Aggregated(Members(s, group(Nth(leaders, k))))
  OBVIOUS
<1>5. DOMAIN one = 1..n /\ DOMAIN two = 1..m
  BY DEF Members
<1>6. one = [k \in 1..n |-> one[k]] /\ two = [k \in 1..m |-> two[k]]
  BY DEF Members
<1>7. \A i \in DOMAIN s : i \in plain <=> AggregationKey(s[i]) = NoKey
  OBVIOUS
<1>8. \A i \in leaders : i \in DOMAIN s /\ i \notin plain /\ i = Min(group(i))
  OBVIOUS
<1>9. \A i \in DOMAIN s : i \notin plain /\ i = Min(group(i)) => i \in leaders
  OBVIOUS
<1>10. \A i \in DOMAIN s : i \in group(i) /\ group(i) \in SUBSET DOMAIN s
  OBVIOUS
<1>11. \A i \in DOMAIN s : \A j \in group(i) : AggregationKey(s[j]) = AggregationKey(s[i])
  OBVIOUS
<1>12. \A i, j \in DOMAIN s : AggregationKey(s[j]) = AggregationKey(s[i]) => group(i) = group(j)
  OBVIOUS
<1>13. \A i \in DOMAIN s : to[i] = IF i \in plain THEN PlaceOf(plain, i)
                                   ELSE n + PlaceOf(leaders, Min(group(i)))
  OBVIOUS
<1> HIDE DEF group, plain, leaders, n, m, one, two, all, to
<1>14. /\ DOMAIN all = 1..(n + m)
       /\ \A k \in 1..(n + m) : all[k] = IF k <= n THEN one[k] ELSE two[k - n]
  <2>1. Sequence(one) /\ Sequence(two)
    BY <1>2, <1>6, ListIsSequence
  <2>2. PICK A : one \in Seq(A)
    BY <2>1 DEF Sequence
  <2>3. PICK B : two \in Seq(B)
    BY <2>1 DEF Sequence
  <2>4. one \in Seq(A \cup B) /\ two \in Seq(A \cup B)
    BY <2>2, <2>3
  <2>5. Len(one) = n /\ Len(two) = m
    BY <1>2, <1>5, <2>1, SequenceHas
  <2>6. PICK t : t = one \o two
    OBVIOUS
  <2>7. /\ t \in Seq(A \cup B) /\ Len(t) = n + m
        /\ \A k \in 1..(n + m) : t[k] = IF k <= n THEN one[k] ELSE two[k - n]
    BY <2>4, <2>5, <2>6, ConcatProperties
  <2>8. DOMAIN t = 1..(n + m)
    BY <2>7
  <2> QED  BY <1>1, <2>6, <2>7, <2>8
\* A row without a key keeps its place among those without a key.
<1>15. ASSUME NEW i \in plain
       PROVE  to[i] \in 1..n /\ Nth(plain, to[i]) = i
  BY <1>2, <1>13, NthReaches DEF n
\* A row with a key goes where the first row of its group goes.
<1>16. ASSUME NEW i \in DOMAIN s, i \notin plain
       PROVE  /\ Min(group(i)) \in leaders /\ group(Min(group(i))) = group(i)
              /\ to[i] - n \in 1..m /\ to[i] \in Int
              /\ Nth(leaders, to[i] - n) = Min(group(i))
  <2>1. PICK l : l = Min(group(i))
    OBVIOUS
  <2>2. DOMAIN s \in SUBSET Nat
    BY SequenceHas
  <2>3. l \in group(i)
    BY <1>10, <2>1, <2>2, LeastOfGroup
  <2>4. /\ l \in DOMAIN s /\ AggregationKey(s[l]) = AggregationKey(s[i])
        /\ group(l) = group(i)
    BY <1>10, <1>11, <1>12, <2>3
  <2>5. l \in leaders
    BY <1>7, <1>9, <1>16, <2>1, <2>4
  <2>6. PlaceOf(leaders, l) \in 1..m /\ Nth(leaders, PlaceOf(leaders, l)) = l
    BY <1>2, <2>5, NthReaches DEF m
  <2>7. to[i] = n + PlaceOf(leaders, l)
    BY <1>13, <1>16, <2>1
  <2>8. to[i] - n = PlaceOf(leaders, l) /\ to[i] \in Int
    BY <1>2, <2>6, <2>7
  <2> QED  BY <2>1, <2>4, <2>5, <2>6, <2>8
<1>17. ASSUME NEW i \in DOMAIN s PROVE to[i] \in DOMAIN all
  BY <1>2, <1>14, <1>15, <1>16
<1>18. ASSUME NEW k \in DOMAIN all, k <= n
       PROVE  Carries(all[k], s, {i \in DOMAIN s : to[i] = k})
  <2>1. k \in 1..n
    BY <1>2, <1>14, <1>18
  <2>2. PICK x : x = Nth(plain, k)
    OBVIOUS
  <2>3. x \in plain /\ x \in DOMAIN s /\ all[k] = s[x]
    BY <1>2, <1>3, <1>14, <1>18, <2>1, <2>2
  <2>4. to[x] = k
    BY <1>2, <1>15, <2>1, <2>2, <2>3, NthDistinct DEF n
  <2>5. ASSUME NEW i \in DOMAIN s, to[i] = k PROVE i = x
    <3>1. i \in plain
      BY <1>2, <1>16, <2>1, <2>5
    <3> QED  BY <1>15, <2>2, <2>5, <3>1
  <2>6. {i \in DOMAIN s : to[i] = k} = {x}
    BY <2>3, <2>4, <2>5
  <2> QED  BY <2>3, <2>6, AloneCarries
<1>19. ASSUME NEW k \in DOMAIN all, ~ (k <= n)
       PROVE  Carries(all[k], s, {i \in DOMAIN s : to[i] = k})
  <2>1. k - n \in 1..m /\ k \in Nat
    BY <1>2, <1>14, <1>19
  <2>2. PICK x : x = Nth(leaders, k - n)
    OBVIOUS
  <2>3. x \in leaders /\ x \in DOMAIN s /\ x \notin plain /\ x = Min(group(x))
    BY <1>2, <1>8, <2>1, <2>2
  <2>4. all[k] = Aggregated(Members(s, group(x)))
    BY <1>4, <1>14, <1>19, <2>1, <2>2
  <2>5. ASSUME NEW i \in DOMAIN s, to[i] = k PROVE i \in group(x)
    <3>1. i \notin plain
      BY <1>2, <1>15, <1>19, <2>5
    <3>2. group(x) = group(i)
      BY <1>16, <2>2, <2>5, <3>1
    <3> QED  BY <1>10, <3>2
  <2>6. ASSUME NEW i \in group(x) PROVE i \in DOMAIN s /\ to[i] = k
    <3>1. i \in DOMAIN s /\ AggregationKey(s[i]) = AggregationKey(s[x])
      BY <1>10, <1>11, <2>3
    <3>2. group(i) = group(x) /\ i \notin plain
      BY <1>7, <1>12, <2>3, <3>1
    <3>3. Nth(leaders, to[i] - n) = x /\ to[i] - n \in 1..m /\ to[i] \in Int
      BY <1>16, <2>3, <3>1, <3>2
    <3>4. to[i] - n = k - n
      BY <1>2, <2>1, <2>2, <3>3, NthDistinct DEF m
    <3> QED  BY <1>2, <2>1, <3>1, <3>3, <3>4
  <2>7. {i \in DOMAIN s : to[i] = k} = group(x)
    BY <2>5, <2>6
  <2>8. \A i, j \in group(x) : s[i].kind = s[j].kind /\ s[i].amount.currency = s[j].amount.currency
    <3>1. \A i \in group(x) : /\ i \in DOMAIN s /\ AggregationKey(s[i]) = AggregationKey(s[x])
                              /\ AggregationKey(s[i]) # NoKey /\ s[i].kind \in Kinds
      BY <1>7, <1>10, <1>11, <2>3 DEF Weighables, Weighable
    <3> QED  BY <3>1, SameKeySameMoney
  <2>9. group(x) \in SUBSET DOMAIN s /\ group(x) # {}
    BY <1>10, <2>3
  <2>10. Carries(Aggregated(Members(s, group(x))), s, group(x))
    BY <2>8, <2>9, AggregatedCarries
  <2> QED  BY <2>4, <2>7, <2>10
<1>20. Gathers(all, s, to)
  BY <1>17, <1>18, <1>19 DEF Gathers
<1> QED  BY <1>20 DEF all

LEMMA HeaderNames ==
  ASSUME NEW d, HeaderTotalKey(d) # NoKey
  PROVE  HeaderTotalKey(d)[1] = d.kind /\ HeaderTotalKey(d)[5] = d.amount.currency
BY DEF HeaderTotalKey

\* All rows of a group coalesce or none does.
LEMMA GroupsCoalesce ==
  ASSUME NEW rows, NEW docs, NEW i, NEW j, HeaderTotalKey(rows[i]) = HeaderTotalKey(rows[j])
  PROVE  Coalesces(rows, docs, i) = Coalesces(rows, docs, j)
<1>1. {k \in DOMAIN rows : HeaderTotalKey(rows[k]) = HeaderTotalKey(rows[i])}
        = {k \in DOMAIN rows : HeaderTotalKey(rows[k]) = HeaderTotalKey(rows[j])}
  OBVIOUS
<1>2. {k \in DOMAIN docs : HeaderTotalKey(docs[k]) = HeaderTotalKey(rows[i])}
        = {k \in DOMAIN docs : HeaderTotalKey(docs[k]) = HeaderTotalKey(rows[j])}
  OBVIOUS
<1> QED  BY <1>1, <1>2 DEF Coalesces, Group

\* So does _coalesce_erp_rows_for_onec_headers, for the groups it combines.
LEMMA CombinationGathers ==
  ASSUME NEW rows, NEW docs, Sequence(rows), Shaped(rows), Weighables(rows)
  PROVE  \E to : Gathers(CoalesceRows(rows, docs), rows, to)
<1> DEFINE group(i) == {j \in DOMAIN rows : HeaderTotalKey(rows[j]) = HeaderTotalKey(rows[i])}
           kept == {i \in DOMAIN rows : ~Coalesces(rows, docs, i) \/ i = Min(group(i))}
           n == Cardinality(kept)
           all == CoalesceRows(rows, docs)
           stands(i) == IF Coalesces(rows, docs, i) THEN Min(group(i)) ELSE i
           to == [i \in DOMAIN rows |-> PlaceOf(kept, stands(i))]
<1>1. /\ DOMAIN all = 1..n
      /\ \A k \in 1..n :
           all[k] = IF Coalesces(rows, docs, Nth(kept, k))
                    THEN CombineDocuments(Members(rows, group(Nth(kept, k))))
                    ELSE rows[Nth(kept, k)]
  BY DEF CoalesceRows, Group
<1>2. /\ kept \in SUBSET DOMAIN rows /\ kept \in SUBSET Nat /\ IsFiniteSet(kept)
      /\ n \in Nat /\ \A k \in 1..n : Nth(kept, k) \in kept
  BY NthPlace
<1>3. \A i \in DOMAIN rows : i \in group(i) /\ group(i) \in SUBSET DOMAIN rows
  OBVIOUS
<1>4. \A i \in DOMAIN rows : \A j \in group(i) : HeaderTotalKey(rows[j]) = HeaderTotalKey(rows[i])
  OBVIOUS
<1>5. \A i, j \in DOMAIN rows : HeaderTotalKey(rows[j]) = HeaderTotalKey(rows[i]) => group(i) = group(j)
  OBVIOUS
<1>6. \A i \in DOMAIN rows : i \in kept <=> (~Coalesces(rows, docs, i) \/ i = Min(group(i)))
  OBVIOUS
<1>7. \A i \in DOMAIN rows : /\ to[i] = PlaceOf(kept, stands(i))
                             /\ stands(i) = IF Coalesces(rows, docs, i) THEN Min(group(i)) ELSE i
  OBVIOUS
<1> HIDE DEF group, kept, n, all, to, stands
<1>8. ASSUME NEW i \in DOMAIN rows, Coalesces(rows, docs, i)
      PROVE  /\ Min(group(i)) \in DOMAIN rows /\ group(Min(group(i))) = group(i)
             /\ Coalesces(rows, docs, Min(group(i)))
  <2>1. PICK l : l = Min(group(i))
    OBVIOUS
  <2>2. DOMAIN rows \in SUBSET Nat
    BY SequenceHas
  <2>3. l \in group(i)
    BY <1>3, <2>1, <2>2, LeastOfGroup
  <2>4. l \in DOMAIN rows /\ HeaderTotalKey(rows[l]) = HeaderTotalKey(rows[i])
    BY <1>3, <1>4, <2>3
  <2>5. Coalesces(rows, docs, l)
    BY <1>8, <2>4, GroupsCoalesce
  <2> QED  BY <1>5, <2>1, <2>4, <2>5
<1>9. ASSUME NEW i \in DOMAIN rows
      PROVE  /\ stands(i) \in kept /\ to[i] \in 1..n /\ Nth(kept, to[i]) = stands(i)
             /\ Coalesces(rows, docs, stands(i)) = Coalesces(rows, docs, i)
             /\ Coalesces(rows, docs, i) => group(stands(i)) = group(i)
             /\ ~Coalesces(rows, docs, i) => stands(i) = i
  <2>1. /\ stands(i) \in kept
        /\ Coalesces(rows, docs, stands(i)) = Coalesces(rows, docs, i)
        /\ Coalesces(rows, docs, i) => group(stands(i)) = group(i)
        /\ ~Coalesces(rows, docs, i) => stands(i) = i
    <3>1. CASE Coalesces(rows, docs, i)
      <4>1. stands(i) = Min(group(i))
        BY <1>7, <3>1
      <4>2. PICK l : l = Min(group(i))
        OBVIOUS
      <4>3. l \in DOMAIN rows /\ group(l) = group(i) /\ Coalesces(rows, docs, l)
        BY <1>8, <3>1, <4>2
      <4>4. l \in kept
        BY <1>6, <4>2, <4>3
      <4> QED  BY <3>1, <4>1, <4>2, <4>3, <4>4
    <3>2. CASE ~Coalesces(rows, docs, i)
      <4>1. stands(i) = i /\ i \in kept
        BY <1>6, <1>7, <3>2
      <4> QED  BY <3>2, <4>1
    <3> QED  BY <3>1, <3>2
  <2>2. PlaceOf(kept, stands(i)) \in 1..n /\ Nth(kept, PlaceOf(kept, stands(i))) = stands(i)
    BY <1>2, <2>1, NthReaches DEF n
  <2> QED  BY <1>7, <2>1, <2>2
<1>10. ASSUME NEW k \in DOMAIN all
       PROVE  Carries(all[k], rows, {i \in DOMAIN rows : to[i] = k})
  <2>1. k \in 1..n
    BY <1>1
  <2>2. PICK x : x = Nth(kept, k)
    OBVIOUS
  <2>3. x \in kept /\ x \in DOMAIN rows
    BY <1>2, <2>1, <2>2
  <2>4. \A i \in DOMAIN rows : to[i] = k <=> stands(i) = x
    <3>1. SUFFICES ASSUME NEW i \in DOMAIN rows, stands(i) = x PROVE to[i] = k
      BY <1>9, <2>2
    <3>2. to[i] \in 1..n /\ Nth(kept, to[i]) = Nth(kept, k)
      BY <1>9, <2>2, <3>1
    <3> QED  BY <1>2, <2>1, <3>2, NthDistinct DEF n
  <2>5. CASE ~Coalesces(rows, docs, x)
    <3>1. all[k] = rows[x]
      BY <1>1, <2>1, <2>2, <2>5
    <3>2. \A i \in DOMAIN rows : stands(i) = x <=> i = x
      BY <1>9, <2>3, <2>5
    <3>3. {i \in DOMAIN rows : to[i] = k} = {x}
      BY <2>3, <2>4, <3>2
    <3> QED  BY <2>3, <3>1, <3>3, AloneCarries
  <2>6. CASE Coalesces(rows, docs, x)
    <3>1. PICK t : t = Members(rows, group(x))
      OBVIOUS
    <3>2. all[k] = Merged(t, t[1].contract, t[1].vat)
      BY <1>1, <2>1, <2>2, <2>6, <3>1 DEF CombineDocuments
    <3>3. x = Min(group(x))
      BY <1>6, <2>3, <2>6
    <3>4. \A i \in DOMAIN rows : stands(i) = x <=> i \in group(x)
      <4>1. ASSUME NEW i \in DOMAIN rows, stands(i) = x PROVE i \in group(x)
        <5>1. group(x) = group(i)
          BY <1>9, <2>6, <4>1
        <5> QED  BY <1>3, <5>1
      <4>2. ASSUME NEW i \in DOMAIN rows, i \in group(x) PROVE stands(i) = x
        <5>1. HeaderTotalKey(rows[i]) = HeaderTotalKey(rows[x])
          BY <1>4, <2>3, <4>2
        <5>2. Coalesces(rows, docs, i) /\ group(i) = group(x)
          BY <1>5, <2>3, <2>6, <5>1, GroupsCoalesce
        <5> QED  BY <1>7, <3>3, <5>2
      <4> QED  BY <4>1, <4>2
    <3>5. {i \in DOMAIN rows : to[i] = k} = group(x)
      BY <1>3, <2>3, <2>4, <3>4
    <3>6. HeaderTotalKey(rows[x]) # NoKey
      BY <2>6 DEF Coalesces
    <3>7. \A i, j \in group(x) : rows[i].kind = rows[j].kind
                                 /\ rows[i].amount.currency = rows[j].amount.currency
      <4>1. \A i \in group(x) : /\ HeaderTotalKey(rows[i]) = HeaderTotalKey(rows[x])
                                /\ HeaderTotalKey(rows[i]) # NoKey
        BY <1>4, <2>3, <3>6
      <4>2. \A i \in group(x) : /\ rows[i].kind = HeaderTotalKey(rows[x])[1]
                                /\ rows[i].amount.currency = HeaderTotalKey(rows[x])[5]
        BY <4>1, HeaderNames
      <4> QED  BY <4>2
    <3>8. group(x) \in SUBSET DOMAIN rows /\ group(x) # {}
      BY <1>3, <2>3
    <3>9. Carries(Merged(Members(rows, group(x)), t[1].contract, t[1].vat), rows, group(x))
      BY <3>7, <3>8, MergedCarries
    <3> QED  BY <3>1, <3>2, <3>5, <3>9
  <2> QED  BY <2>5, <2>6
<1>11. \A i \in DOMAIN rows : to[i] \in DOMAIN all
  BY <1>1, <1>9
<1>12. Gathers(all, rows, to)
  BY <1>10, <1>11 DEF Gathers
<1> QED  BY <1>12 DEF all

-----------------------------------------------------------------------------
(* The invariant of the money.                                             *)

WeightsInv == MatchInv /\ Weighables(erp) /\ Weighables(onec)

LEMMA NothingChanged ==
  ASSUME NEW s
  PROVE  SameMoneyAndLines(s, s)
BY DEF SameMoneyAndLines

LEMMA AggregationKeeps ==
  ASSUME NEW s, Sequence(s), Shaped(s), Weighables(s), NEW t, t = AggregateDocuments(s)
  PROVE  Weighables(t) /\ SameMoneyAndLines(s, t)
<1>1. PICK to : Gathers(t, s, to)
  BY AggregationGathers
<1>2. Sequence(t)
  BY AggregatedAre
<1> QED  BY <1>1, <1>2, GatheredKeeps

LEMMA CombinationKeeps ==
  ASSUME NEW s, NEW docs, Sequence(s), Shaped(s), Weighables(s), NEW t, t = CoalesceRows(s, docs)
  PROVE  Weighables(t) /\ SameMoneyAndLines(s, t)
<1>1. PICK to : Gathers(t, s, to)
  BY CombinationGathers
<1>2. Sequence(t)
  BY CoalescedAre
<1> QED  BY <1>1, <1>2, GatheredKeeps

\* What is read has weights.
LEMMA WeighedWhenRead ==
  ASSUME NEW s \in Seq(Document)
  PROVE  Weighables(s)
<1>1. ASSUME NEW k \in DOMAIN s PROVE Weighable(s[k])
  <2>1. s[k] \in Document
    OBVIOUS
  <2>2. s[k].amount \in Money /\ s[k].kind \in Kinds /\ s[k].lines \in Seq(Line)
    BY <2>1 DEF Document
  <2> QED  BY <2>2 DEF Weighable, Money, Sequence
<1> QED  BY <1>1 DEF Weighables

LEMMA InitWeighs == Init => WeightsInv
<1> SUFFICES ASSUME Init PROVE Weighables(erp) /\ Weighables(onec)
  BY InitMatches DEF WeightsInv
<1>1. PICK reading \in Readings : erp = reading[1] /\ onec = reading[2]
  BY DEF Init, InitPreparation
<1>2. reading[1] \in Seq(Document) /\ reading[2] \in Seq(Document)
  BY <1>1, ReadingsAssumption
<1> QED  BY <1>1, <1>2, WeighedWhenRead

\* One step of the run keeps the weights, and the documents or their money.
LEMMA StepWeighs ==
  ASSUME WeightsInv, [Next]_vars
  PROVE  /\ Weighables(erp') /\ Weighables(onec')
         /\ SameMoneyAndLines(erp, erp') /\ SameMoneyAndLines(onec, onec')
<1>1. /\ Weighables(erp) /\ Weighables(onec)
      /\ Sequence(erp) /\ Sequence(onec) /\ Shaped(erp) /\ Shaped(onec)
  BY DEF WeightsInv, MatchInv, ReportInv, SidesInv, ShapedInv
<1>2. CASE UNCHANGED <<erp, onec>>
  <2>1. erp' = erp /\ onec' = onec
    BY <1>2
  <2> QED  BY <1>1, <2>1, NothingChanged
<1>3. CASE AggregateErp
  <2>1. onec' = onec /\ erp' = AggregateDocuments(erp)
    BY <1>3 DEF AggregateErp
  <2>2. Weighables(erp') /\ SameMoneyAndLines(erp, erp')
    BY <1>1, <2>1, AggregationKeeps
  <2> QED  BY <1>1, <2>1, <2>2, NothingChanged
<1>4. CASE AggregateOneC
  <2>1. erp' = erp /\ onec' = AggregateDocuments(onec)
    BY <1>4 DEF AggregateOneC
  <2>2. Weighables(onec') /\ SameMoneyAndLines(onec, onec')
    BY <1>1, <2>1, AggregationKeeps
  <2> QED  BY <1>1, <2>1, <2>2, NothingChanged
<1>5. CASE Coalesce
  <2>1. onec' = onec /\ erp' = CoalesceRows(erp, onec)
    BY <1>5 DEF Coalesce
  <2>2. Weighables(erp') /\ SameMoneyAndLines(erp, erp')
    BY <1>1, <2>1, CombinationKeeps
  <2> QED  BY <1>1, <2>1, <2>2, NothingChanged
<1>6. UNCHANGED <<erp, onec>> \/ AggregateErp \/ AggregateOneC \/ Coalesce
  <2>1. Match => UNCHANGED <<erp, onec>>
    BY MatchingReads
  <2>2. CompareBalances \/ WriteWorkbook => UNCHANGED <<erp, onec>>
    BY DEF CompareBalances, WriteWorkbook
  <2>3. UNCHANGED vars => UNCHANGED <<erp, onec>>
    BY DEF vars, preparationVars
  <2> QED  BY <2>1, <2>2, <2>3 DEF Next, Prepare
<1> QED  BY <1>2, <1>3, <1>4, <1>5, <1>6

LEMMA NextWeighs == WeightsInv /\ [Next]_vars => WeightsInv'
BY NextMatches, StepWeighs DEF WeightsInv

\* In every state of a run the documents have amounts, kinds and lines that add
\* up, whatever was read (aggregate_documents, _combine_documents).
THEOREM WeightsInvHolds == Spec => []WeightsInv
BY InitWeighs, NextWeighs, PTL DEF Spec

\* No step of a run loses or doubles money, whatever was read: the total of
\* every kind and currency, and the number of lines of every amount, are the
\* same before and after each step of the preparation (aggregate_documents,
\* _combine_documents, _coalesce_erp_rows_for_onec_headers), and no later step
\* touches the documents.
THEOREM MoneyIsConserved == Spec => MoneyConserved
<1>1. WeightsInv /\ [Next]_vars =>
        [\A kind \in Kinds, currency \in {d.amount.currency : d \in Range(erp \o onec)} :
           /\ KindTotal(erp', kind, currency) = KindTotal(erp, kind, currency)
           /\ KindTotal(onec', kind, currency) = KindTotal(onec, kind, currency)
           /\ \A amount \in {l.amount : l \in Range(AllLines(erp \o onec))} :
                /\ HowMany(AllLines(erp'), amount) = HowMany(AllLines(erp), amount)
                /\ HowMany(AllLines(onec'), amount) = HowMany(AllLines(onec), amount)]_<<erp, onec>>
  <2> SUFFICES ASSUME WeightsInv, [Next]_vars
               PROVE  \A kind, currency :
           /\ KindTotal(erp', kind, currency) = KindTotal(erp, kind, currency)
           /\ KindTotal(onec', kind, currency) = KindTotal(onec, kind, currency)
           /\ \A amount :
                /\ HowMany(AllLines(erp'), amount) = HowMany(AllLines(erp), amount)
                /\ HowMany(AllLines(onec'), amount) = HowMany(AllLines(onec), amount)
    OBVIOUS
  <2> QED  BY StepWeighs DEF SameMoneyAndLines
<1> QED  BY <1>1, WeightsInvHolds, PTL DEF Spec, MoneyConserved

-----------------------------------------------------------------------------
(* What "passed" says of the money.                                          *)

\* When everything is matched and the rows of a kind were compared with whole
\* documents, each of those documents was compared with just one of them.
LEMMA WholesAddUp ==
  ASSUME PassedInv, WeightsInv, phase = "done", RunMatched,
         NEW kind, ComparedWhole(kind), NEW currency
  PROVE  KindTotal(erp, kind, currency) = KindTotal(onec, kind, currency)
<1> DEFINE S == {k \in DOMAIN erp : erp[k].kind = kind /\ erp[k].amount.currency = currency}
           T == {k \in DOMAIN onec : onec[k].kind = kind /\ onec[k].amount.currency = currency}
           m == [k \in S |-> issues[k].onec]
<1>1. /\ Sequence(erp) /\ Sequence(onec) /\ Weighables(erp) /\ Weighables(onec)
      /\ Len(erp) <= Len(issues) /\ Sequence(issues)
  BY DEF WeightsInv, MatchInv, ReportInv, SidesInv, Later
<1>2. /\ DOMAIN erp = Places /\ DOMAIN issues = Places /\ RowsReported = Places
      /\ \A k \in Places : issues[k].status = "match"
  <2>1. \A k \in DOMAIN issues : issues[k].status = "match"
    BY DEF RunMatched, Matched
  <2>2. OneCSide = {}
    BY <2>1 DEF PassedInv, OwnedInv, OneCSide
  <2>3. DOMAIN issues \subseteq Places
    BY <2>2 DEF OneCSide
  <2>4. Places = 1..Len(erp) /\ Len(erp) \in Nat /\ DOMAIN erp = Places
    BY <1>1, SequenceHas DEF Places
  <2>5. DOMAIN issues = 1..Len(issues) /\ Len(issues) \in Nat
    BY <1>1, SequenceHas
  <2>6. Places \subseteq DOMAIN issues
    BY <1>1, <2>4, <2>5
  <2> QED  BY <2>1, <2>3, <2>4, <2>6 DEF RowsReported
<1>3. \A k \in DOMAIN erp : /\ issues[k].onec \in DOMAIN onec
                             /\ erp[k].kind = onec[issues[k].onec].kind
                             /\ issues[k].confidence # "ambiguous"
                             /\ erp[k].amount \in PartsOf(issues[k].onec, issues[k].basis,
                                                          issues[k].detail)
  BY <1>2 DEF WeightsInv, MatchInv, ExactInv, Exact
<1>4. \A k \in DOMAIN erp : erp[k].kind = kind => issues[k].basis \in WholeBases
  BY <1>2 DEF ComparedWhole
<1>5. \A k \in DOMAIN erp : erp[k].kind = kind => erp[k].amount = onec[issues[k].onec].amount
  BY <1>3, <1>4 DEF PartsOf
<1>6. \A k \in S : m[k] \in T /\ m[k] = issues[k].onec
  BY <1>3, <1>5
<1>7. ASSUME NEW t \in T
      PROVE  \E k \in S : m[k] = t /\ Amounts(onec)[t] = Amounts(erp)[k]
  <2>1. PICK k \in DOMAIN erp : issues[k].onec = t
    BY <1>2, PassedMeans
  <2>2. erp[k].kind = kind
    BY <1>3, <2>1
  <2>3. erp[k].amount = onec[t].amount
    BY <1>5, <2>1, <2>2
  <2>4. k \in S
    BY <2>2, <2>3
  <2> QED  BY <2>1, <2>3, <2>4 DEF Amounts
<1>8. ASSUME NEW j \in S, NEW k \in S, m[j] = m[k], j # k PROVE FALSE
  <2>1. Apart(issues[j], issues[k])
    BY <1>2, <1>8 DEF WeightsInv, MatchInv, ReportInv, TakenInv
  <2>2. /\ issues[j].onec # 0 /\ issues[k].onec # 0
        /\ issues[j].basis \in WholeBases /\ issues[k].basis \in WholeBases
        /\ issues[j].confidence # "ambiguous" /\ issues[k].confidence # "ambiguous"
        /\ issues[j].onec = issues[k].onec
    <3>1. DOMAIN onec = 1..Len(onec)
      BY <1>1, SequenceHas
    <3> QED  BY <1>3, <1>4, <1>6, <1>8, <3>1
  <2>3. "document_header" # "" /\ "payment_header_allocations" # ""
    OBVIOUS
  <2>4. ComparesAs(issues[j]) /\ ComparesAs(issues[k])
    BY <2>2, <2>3 DEF ComparesAs, WholeBases
  <2> QED  BY <2>1, <2>2, <2>4 DEF Apart
<1>9. IsFiniteSet(S) /\ IsFiniteSet(T)
  BY <1>1, SequenceHas, FS_Subset
<1>10. \A k \in S : Amounts(erp)[k] \in Int
  BY <1>1, WeightsAre
<1>11. /\ KindTotal(erp, kind, currency) = SumFunctionOnSet(Amounts(erp), S)
       /\ KindTotal(onec, kind, currency) = SumFunctionOnSet(Amounts(onec), T)
  BY <1>1, KindTotalIs
<1> HIDE DEF S, T, m
<1>12. PICK F, G, U, V, n : F = Amounts(erp) /\ G = Amounts(onec) /\ U = S /\ V = T /\ n = m
  OBVIOUS
<1>13. /\ IsFiniteSet(U) /\ IsFiniteSet(V)
       /\ \A x \in U : F[x] \in Int
       /\ \A x \in U : n[x] \in V
       /\ \A t \in V : \E x \in U : n[x] = t /\ G[t] = F[x]
       /\ \A x, y \in U : n[x] = n[y] => x = y
  BY <1>6, <1>7, <1>8, <1>9, <1>10, <1>12
<1>14. SumFunctionOnSet(F, U) = SumFunctionOnSet(G, V)
  BY ONLY <1>13, SumRenamed
<1> QED  BY <1>11, <1>12, <1>14

\* A workbook says passed only of a run in which every row and every document of
\* 1C was matched and the balances, when there were any, agree; and it says so
\* of every such run. Where rows were compared with whole documents the two
\* sides then hold the same money, for any rows, documents and balances
\* (_run_result_label, _build_reconciliation_summary_sheet, match_documents).
THEOREM PassedRunsAddUp == Spec => []PassedAddsUp
<1>1. PassedInv /\ WeightsInv => PassedAddsUp
  <2> SUFFICES ASSUME PassedInv, WeightsInv, phase = "done" PROVE PassedAddsUp
    BY DEF PassedAddsUp
  <2>1. (book.result = "passed") = RunMatched
    BY DEF PassedInv, BookInv
  <2>2. ASSUME RunMatched, NEW d, ComparedWhole(d.kind)
        PROVE  KindTotal(erp, d.kind, d.amount.currency) = KindTotal(onec, d.kind, d.amount.currency)
    BY <2>2, WholesAddUp
  <2> QED  BY <2>1, <2>2, PassedMeans DEF PassedAddsUp
<1> QED  BY <1>1, WeightsInvHolds, PassedInvHolds, PTL
-----------------------------------------------------------------------------
(* The parts of 1C documents that adjust the balance.                        *)

PartBases == {"document_line", "payment_allocation"}
AdjustingStatuses == {"match", "contract_mismatch", "date_mismatch", "number_mismatch", "vat_mismatch"}

\* The issue x may adjust the balance, and shows a part of its document.
MayAdjust(x) == x.onec # 0 /\ x.basis \in PartBases /\ x.status \in AdjustingStatuses

Shown(y, x) ==
  /\ y \in Details(onec[x.onec])
  /\ y.id = x.detail /\ y.basis = x.basis /\ y.amount = x.amount
  /\ HeldFor(y, onec[x.onec]) = x.contract

Shows(x) == MayAdjust(x) => ComparesAs(x) /\ x.onec \in DOMAIN onec /\ \E y : Shown(y, x)

\* A payment is compared with one row only.
Alone(x, y) ==
  ComparesAs(x) /\ ComparesAs(y) /\ x.onec = y.onec => onec[x.onec].kind # "payment"

PartsInv ==
  /\ \A k \in RowsReported : Shows(issues[k])
  /\ \A j, k \in RowsReported : j # k => Alone(issues[j], issues[k])

AdjustInv == MatchInv /\ PartsInv

LEMMA NothingAdjusts ==
  ASSUME NEW x, ~ ComparesAs(x), x.onec = 0 \/ x.basis = "" \/ x.status \notin AdjustingStatuses
  PROVE  Shows(x) /\ \A k \in RowsReported : Alone(x, issues[k])
BY DEF Shows, MayAdjust, Alone, ComparesAs, PartBases

\* A row that is reported joins those that were reported before.
LEMMA PartsJoin ==
  ASSUME ReportInv, PartsInv, AtRow, NEW x, issues' = Append(issues, x),
         UNCHANGED <<erp, onec>>, Shows(x), \A k \in RowsReported : Alone(x, issues[k])
  PROVE  PartsInv'
<1>1. /\ Sequence(issues) /\ Len(issues) = pos - 1 /\ pos \in DOMAIN erp
      /\ DOMAIN issues = 1..Len(issues) /\ Len(issues) \in Nat /\ Places = DOMAIN erp
      /\ pos \in Nat
  BY PlacesAre DEF ReportInv, SidesInv, AtRow
<1>2. PICK t : t = issues'
  OBVIOUS
<1>3. Sequence(t) /\ Len(t) = Len(issues) + 1 /\ t[Len(issues) + 1] = x
  BY ONLY <1>1, <1>2, AppendDoes, issues' = Append(issues, x)
<1>4. \A k \in DOMAIN issues : t[k] = issues[k]
  BY ONLY <1>1, <1>2, AppendDoes, issues' = Append(issues, x)
<1>5. DOMAIN t = 1..pos /\ t[pos] = x /\ DOMAIN issues = 1..(pos - 1)
  BY <1>1, <1>3, SequenceHas
<1>6. Places' = Places
  BY DEF Places
<1>7. \A k \in RowsReported' : k = pos \/ (k \in RowsReported /\ t[k] = issues[k])
  <2>1. ASSUME NEW k \in RowsReported', k # pos PROVE k \in RowsReported /\ t[k] = issues[k]
    <3>1. k \in Places /\ k \in 1..pos
      BY <1>2, <1>5, <1>6 DEF RowsReported
    <3>2. k \in DOMAIN issues
      BY <1>1, <1>5, <2>1, <3>1
    <3> QED  BY <1>4, <3>1, <3>2 DEF RowsReported
  <2> QED  BY <2>1
<1>8. ASSUME NEW k \in RowsReported' PROVE Shows(t[k])
  <2>1. CASE k = pos
    BY <1>5, <2>1
  <2>2. CASE k # pos
    BY <1>7, <2>2 DEF PartsInv
  <2> QED  BY <2>1, <2>2
<1>9. ASSUME NEW j \in RowsReported', NEW k \in RowsReported', j # k PROVE Alone(t[j], t[k])
  <2>1. CASE j = pos
    BY <1>5, <1>7, <1>9, <2>1
  <2>2. CASE k = pos
    <3>1. j \in RowsReported /\ t[j] = issues[j]
      BY <1>7, <1>9, <2>2
    <3> QED  BY <1>5, <2>2, <3>1 DEF Alone
  <2>3. CASE j # pos /\ k # pos
    BY <1>7, <1>9, <2>3 DEF PartsInv
  <2> QED  BY <2>1, <2>2, <2>3
<1>10. \A x1 : Shows(x1) => Shows(x1)'
  BY DEF Shows, MayAdjust, ComparesAs, Shown
<1>11. \A x1, y1 : Alone(x1, y1) => Alone(x1, y1)'
  BY DEF Alone, ComparesAs
<1>12. ASSUME NEW k \in RowsReported' PROVE Shows(issues[k])'
  <2>1. PICK y : y = t[k]
    OBVIOUS
  <2>2. Shows(y)'
    BY <1>8, <1>10, <2>1
  <2>3. issues'[k] = y
    BY <1>2, <2>1
  <2> QED  BY <2>2, <2>3 DEF Shows, MayAdjust, ComparesAs, Shown
<1>13. ASSUME NEW j \in RowsReported', NEW k \in RowsReported', j # k
       PROVE  Alone(issues[j], issues[k])'
  BY <1>2, <1>9, <1>13 DEF Alone, ComparesAs
<1> QED  BY <1>12, <1>13 DEF PartsInv

\* Issues that keep what they say of documents, and do not begin to adjust the
\* balance, keep their parts.
LEMMA PartsStay ==
  ASSUME PartsInv, UNCHANGED <<erp, onec>>,
         \A k \in RowsReported' :
           /\ k \in RowsReported
           /\ issues'[k].onec = issues[k].onec /\ issues'[k].basis = issues[k].basis
           /\ issues'[k].detail = issues[k].detail /\ issues'[k].amount = issues[k].amount
           /\ issues'[k].contract = issues[k].contract
           /\ issues'[k].confidence = issues[k].confidence
           /\ issues'[k].status \in AdjustingStatuses => issues[k].status \in AdjustingStatuses
  PROVE  PartsInv'
<1>1. ASSUME NEW k \in RowsReported' PROVE Shows(issues[k])'
  <2>1. PICK x, y : x = issues[k] /\ y = issues'[k]
    OBVIOUS
  <2>2. /\ y.onec = x.onec /\ y.basis = x.basis /\ y.detail = x.detail /\ y.amount = x.amount
        /\ y.contract = x.contract /\ y.confidence = x.confidence
        /\ y.status \in AdjustingStatuses => x.status \in AdjustingStatuses
    BY <2>1
  <2>3. Shows(x)
    BY <2>1 DEF PartsInv
  <2>4. Shows(y)
    BY <2>2, <2>3 DEF Shows, MayAdjust, ComparesAs, Shown
  <2> QED  BY <2>1, <2>4 DEF Shows, MayAdjust, ComparesAs, Shown
<1>2. ASSUME NEW j \in RowsReported', NEW k \in RowsReported', j # k
      PROVE  Alone(issues[j], issues[k])'
  <2>1. Alone(issues[j], issues[k])
    BY <1>2 DEF PartsInv
  <2> QED  BY <2>1 DEF Alone, ComparesAs
<1> QED  BY <1>1, <1>2 DEF PartsInv
\* A document is free when a row is compared with it or with a part of it.
LEMMA DocumentShows ==
  ASSUME ReportInv, ShapedInv, PartsInv, MatchDocument
  PROVE  PartsInv'
<1>1. PICK i \in Candidates(Row) :
        LET m == ProjectMatchingDetail(Row, onec[i]) IN
        /\ Candidates(Row) = {i}
        /\ ~ m.ambiguous
        /\ Report(CompareMatchedDetail(Row, m), i, Confidence(Row), m.basis, m.id, m.document)
  BY DEF MatchDocument
<1>2. PICK d, m : d = onec[i] /\ m = ProjectMatchingDetail(Row, d)
  OBVIOUS
<1>3. PICK x : x = IssueOf(CompareMatchedDetail(Row, m), pos, i, Confidence(Row), m.basis, m.id,
                           m.document)
  OBVIOUS
<1>4. AtRow /\ issues' = Append(issues, x) /\ UNCHANGED <<erp, onec>> /\ ~ m.ambiguous
  BY <1>1, <1>2, <1>3 DEF MatchDocument, Searched, Report
<1>5. /\ x.onec = i /\ x.basis = m.basis /\ x.detail = m.id /\ x.confidence = Confidence(Row)
      /\ x.amount = m.document.amount /\ x.contract = m.document.contract
  BY <1>3 DEF IssueOf
<1>6. i \in DOMAIN onec \ matched /\ Confidence(Row) # "ambiguous"
  BY <1>1, CandidatesAre, OneIsClear
<1>7. Shows(x)
  <2>1. SUFFICES ASSUME MayAdjust(x) PROVE ComparesAs(x) /\ \E y : Shown(y, x)
    BY <1>5, <1>6 DEF Shows
  <2>2. m.basis \in PartBases
    BY <1>5, <2>1 DEF MayAdjust
  <2>3. m.basis \notin WholeBases /\ m.basis # ""
    BY <2>2 DEF PartBases, WholeBases
  <2>4. IsDocument(d)
    BY <1>2, <1>6 DEF ShapedInv, Shaped
  <2>5. PICK y \in Details(d) :
          /\ y.id = m.id /\ y.basis = m.basis
          /\ m.document.amount = y.amount /\ m.document.contract = HeldFor(y, d)
    <3>1. PICK e : e = Row /\ m = ProjectMatchingDetail(e, d)
      BY <1>2
    <3>2. \/ m.basis \in WholeBases
          \/ \E y \in Details(d) :
               /\ y.amount = e.amount /\ y.id = m.id /\ y.basis = m.basis
               /\ m.document.amount = y.amount /\ m.document.contract = HeldFor(y, d)
      BY ONLY <1>4, <2>4, <3>1, PartMeant
    <3> QED  BY <2>3, <3>2
  <2>6. Shown(y, x)
    BY <1>2, <1>5, <2>5 DEF Shown
  <2>7. ComparesAs(x)
    BY <1>5, <1>6, <2>1, <2>3 DEF ComparesAs, MayAdjust
  <2> QED  BY <2>6, <2>7
<1>8. ASSUME NEW k \in RowsReported PROVE Alone(x, issues[k])
  <2>1. TakenFor(issues[k])
    BY DEF ReportInv, TakenInv
  <2> QED  BY <1>5, <1>6, <2>1 DEF Alone, TakenFor
<1> QED  BY <1>4, <1>7, <1>8, PartsJoin

\* The fallback is for sales and purchases.
LEMMA LineShows ==
  ASSUME ReportInv, ShapedInv, PartsInv, MatchLine
  PROVE  PartsInv'
<1>1. PICK c \in LineCandidates(Row) :
        LET m == LineMatch(c) IN
        Report(CompareMatchedDetail(WithIdentifiersOf(Row, onec[c[1]]), m),
               c[1], "detail", m.basis, m.id, m.document)
  BY DEF MatchLine
<1>2. PICK i, d, m : i = c[1] /\ d = onec[i] /\ m = LineMatch(c)
  OBVIOUS
<1>3. PICK x : x = IssueOf(CompareMatchedDetail(WithIdentifiersOf(Row, d), m), pos, i, "detail",
                           m.basis, m.id, m.document)
  OBVIOUS
<1>4. AtRow /\ issues' = Append(issues, x) /\ UNCHANGED <<erp, onec>>
  BY <1>1, <1>2, <1>3 DEF MatchLine, Searched, Report
<1>5. /\ x.onec = i /\ x.basis = m.basis /\ x.detail = m.id /\ x.confidence = "detail"
      /\ x.amount = m.document.amount /\ x.contract = m.document.contract
  BY <1>3 DEF IssueOf
<1>6. i \in DOMAIN onec /\ c[2] \in DOMAIN d.lines /\ d.kind # "payment"
  <2>1. c \in FreeLines(Row)
    BY <1>1 DEF LineCandidates
  <2>2. c \in UNION {{j} \X DOMAIN onec[j].lines : j \in DOMAIN onec}
    BY <2>1 DEF FreeLines
  <2>3. c[1] \in DOMAIN onec /\ c[2] \in DOMAIN onec[c[1]].lines
    BY <2>2
  <2> QED  BY <1>2, <2>1, <2>3 DEF FreeLines
<1>7. PICK l : l = d.lines[c[2]]
  OBVIOUS
<1>8. PICK y : y = [slot |-> <<"line", c[2]>>, amount |-> l.amount, contract |-> l.contract,
                    id |-> l.id, basis |-> "document_line"]
  OBVIOUS
<1>9. y \in Details(d)
  <2>1. y \in {[slot |-> <<"line", k>>, amount |-> d.lines[k].amount,
                contract |-> d.lines[k].contract, id |-> d.lines[k].id,
                basis |-> "document_line"] : k \in DOMAIN d.lines}
    BY <1>6, <1>7, <1>8
  <2> QED  BY <2>1 DEF Details
<1>10. /\ m.basis = "document_line" /\ m.id = l.id
       /\ m.document.amount = l.amount /\ m.document.contract = HeldFor(y, d)
  <2>1. PICK held, vat : /\ held = LineContract(c)
                         /\ vat = IF l.vat # "" THEN l.vat ELSE d.vat
    OBVIOUS
  <2>2. m = DetailMatch([d EXCEPT !.amount = l.amount, !.contract = held, !.vat = vat],
                        "document_line", l.id, FALSE)
    BY <1>2, <1>7, <2>1 DEF LineMatch
  <2>3. HasFields(d)
    BY <1>2, <1>6 DEF ShapedInv, Shaped, IsDocument
  <2>4. PICK b : b = [d EXCEPT !.amount = l.amount, !.contract = held, !.vat = vat]
    OBVIOUS
  <2>5. b.amount = l.amount /\ b.contract = held
    BY <2>3, <2>4 DEF HasFields
  <2>6. m.document = b /\ m.basis = "document_line" /\ m.id = l.id
    BY ONLY <2>2, <2>4 DEF DetailMatch
  <2>7. y.contract = l.contract
    BY <1>8
  <2>8. held = HeldFor(y, d)
    BY <1>2, <1>7, <2>1, <2>7 DEF LineContract, HeldFor
  <2> QED  BY <2>5, <2>6, <2>8
<1>11. y.id = l.id /\ y.basis = "document_line" /\ y.amount = l.amount
  BY ONLY <1>8
<1>12. Shown(y, x)
  BY <1>2, <1>5, <1>9, <1>10, <1>11 DEF Shown
<1>13. Shows(x)
  BY <1>5, <1>6, <1>10, <1>12 DEF Shows, ComparesAs, MayAdjust
<1>14. \A k \in RowsReported : Alone(x, issues[k])
  BY <1>2, <1>5, <1>6 DEF Alone
<1> QED  BY <1>4, <1>13, <1>14, PartsJoin

LEMMA MatchingShows ==
  ASSUME MatchInv, PartsInv, Match
  PROVE  PartsInv'
<1>1. ReportInv /\ ShapedInv /\ UNCHANGED <<erp, onec>>
  BY MatchingReads DEF MatchInv
<1>2. ASSUME AtRow, NEW x, issues' = Append(issues, x), ~ ComparesAs(x),
             x.onec = 0 \/ x.basis = "" \/ x.status \notin AdjustingStatuses
      PROVE  PartsInv'
  BY <1>1, <1>2, NothingAdjusts, PartsJoin
<1>3. CASE ReportMissingErpDocument \/ ReportNotFound \/ ReportAmbiguousLine
  <2>1. PICK status, confidence, basis, x :
          x = IssueOf(status, pos, 0, confidence, basis, "", NoDocument)
          /\ issues' = Append(issues, x)
    BY <1>3 DEF ReportMissingErpDocument, ReportNotFound, ReportAmbiguousLine, Report
  <2>2. AtRow
    BY <1>3 DEF ReportMissingErpDocument, ReportNotFound, ReportAmbiguousLine, Searched
  <2>3. x.onec = 0
    BY <2>1 DEF IssueOf
  <2> QED  BY <1>2, <2>1, <2>2, <2>3 DEF ComparesAs
<1>4. CASE ReportDuplicates
  <2>1. PICK status, i, confidence, x :
          x = IssueOf(status, pos, i, confidence, "", "", onec[i]) /\ issues' = Append(issues, x)
    BY <1>4 DEF ReportDuplicates, Report
  <2>2. AtRow
    BY <1>4 DEF ReportDuplicates, Searched
  <2>3. x.basis = ""
    BY <2>1 DEF IssueOf
  <2> QED  BY <1>2, <2>1, <2>2, <2>3 DEF ComparesAs
<1>5. CASE ReportAmbiguousDetail
  <2>1. PICK i, basis, x :
          x = IssueOf("ambiguous_match", pos, i, "ambiguous", basis, "", onec[i])
          /\ issues' = Append(issues, x)
    BY <1>5 DEF ReportAmbiguousDetail, Report
  <2>2. AtRow
    BY <1>5 DEF ReportAmbiguousDetail, Searched
  <2>3. x.status = "ambiguous_match" /\ x.confidence = "ambiguous"
    BY <2>1 DEF IssueOf
  <2> QED  BY <1>2, <2>1, <2>2, <2>3 DEF ComparesAs, AdjustingStatuses
<1>6. CASE MatchLine
  BY <1>1, <1>6, LineShows
<1>7. CASE MatchDocument
  BY <1>1, <1>7, DocumentShows
<1>8. CASE EndOfRows \/ EndOfDocuments \/ EndOfIssues
  <2>1. UNCHANGED <<erp, onec, issues>>
    BY <1>8 DEF EndOfRows, EndOfDocuments, EndOfIssues
  <2>2. RowsReported' = RowsReported
    BY <2>1 DEF RowsReported, Places
  <2> QED  BY <2>1, <2>2, PartsStay
<1>9. CASE ReportUnlinked
  <2>1. /\ Sequence(issues) /\ DOMAIN issues = 1..Len(issues) /\ Len(issues) \in Nat
        /\ Len(erp) <= Len(issues) /\ Places = 1..Len(erp) /\ Len(erp) \in Nat
    <3>1. phase \in Later
      BY <1>9 DEF ReportUnlinked, Later
    <3> QED  BY <1>1, <3>1, PlacesAre DEF ReportInv, SidesInv
  <2>2. \A k \in DOMAIN issues : issues'[k] = issues[k]
    <3>1. CASE pos \in matched
      BY <1>9, <3>1 DEF ReportUnlinked
    <3>2. CASE pos \notin matched
      <4>1. PICK x, t : x = Unlinked /\ t = issues'
        OBVIOUS
      <4>2. t = Append(issues, x)
        BY <1>9, <3>2, <4>1 DEF ReportUnlinked
      <4>3. \A k \in DOMAIN issues : t[k] = issues[k]
        BY ONLY <2>1, <4>2, AppendDoes
      <4> QED  BY <4>1, <4>3
    <3> QED  BY <3>1, <3>2
  <2>3. RowsReported' \subseteq RowsReported /\ RowsReported \subseteq DOMAIN issues
    BY <1>1, <2>1 DEF RowsReported, Places
  <2> QED  BY <1>1, <2>2, <2>3, PartsStay
<1>10. CASE ClassifyIssue
  <2>1. PICK known : issues' = [issues EXCEPT ![pos].status = ClassifiedStatus(issues[pos], known)]
    BY <1>10 DEF ClassifyIssue
  <2>2. RowsReported' = RowsReported /\ RowsReported \subseteq DOMAIN issues
    BY <1>1, <2>1 DEF RowsReported, Places
  <2>3. ASSUME NEW k \in RowsReported
        PROVE  /\ issues'[k].onec = issues[k].onec /\ issues'[k].basis = issues[k].basis
               /\ issues'[k].detail = issues[k].detail /\ issues'[k].amount = issues[k].amount
               /\ issues'[k].contract = issues[k].contract
               /\ issues'[k].confidence = issues[k].confidence
               /\ issues'[k].status \in AdjustingStatuses => issues[k].status \in AdjustingStatuses
    <3>1. CASE k # pos
      BY <2>1, <2>2, <3>1
    <3>2. CASE k = pos
      <4>1. PICK y, x, z : y = issues'[k] /\ x = issues[k] /\ z = ClassifiedStatus(issues[pos], known)
        OBVIOUS
      <4>2. y = [x EXCEPT !.status = z]
        BY <2>1, <2>2, <3>2, <4>1
      <4>3. IsIssue(x)
        BY <1>1, <2>2, <4>1 DEF ReportInv, SidesInv
      <4>4. /\ y.onec = x.onec /\ y.basis = x.basis /\ y.detail = x.detail
            /\ y.amount = x.amount /\ y.contract = x.contract /\ y.confidence = x.confidence
            /\ y.status = z
        BY ONLY <4>2, <4>3 DEF IsIssue
      <4>5. z = x.status \/ z \in {"not_linked_to_delivery_in_erp", "not_comparable",
                                   "not_found_in_erp"}
        BY <3>2, <4>1 DEF ClassifiedStatus
      <4> QED  BY <4>1, <4>4, <4>5 DEF AdjustingStatuses
    <3> QED  BY <3>1, <3>2
  <2> QED  BY <1>1, <2>2, <2>3, PartsStay
<1> QED
  BY <1>3, <1>4, <1>5, <1>6, <1>7, <1>8, <1>9, <1>10 DEF Match

LEMMA NoRowsNoParts ==
  ASSUME RowsReported = {}
  PROVE  PartsInv
BY DEF PartsInv

LEMMA InitAdjusts == Init => AdjustInv
<1> SUFFICES ASSUME Init PROVE PartsInv
  BY InitMatches DEF AdjustInv
<1>1. DOMAIN issues = {}
  BY DEF Init, InitMatching
<1> QED  BY <1>1, NoRowsNoParts DEF RowsReported

LEMMA NextAdjusts == AdjustInv /\ [Next]_vars => AdjustInv'
<1> SUFFICES ASSUME AdjustInv, [Next]_vars PROVE PartsInv'
  BY NextMatches DEF AdjustInv
<1>1. MatchInv /\ PartsInv /\ ReportInv
  BY DEF AdjustInv, MatchInv
<1>2. CASE Prepare /\ UNCHANGED <<matchingVars, settlement, comparison, book>>
  <2>1. phase \in Preparing /\ UNCHANGED issues
    BY <1>2 DEF Prepare, AggregateErp, AggregateOneC, Coalesce, Preparing, matchingVars
  <2>2. DOMAIN issues' = {}
    BY <1>1, <2>1, PlacesAre DEF ReportInv, SidesInv
  <2> QED  BY <2>2 DEF PartsInv, RowsReported
<1>3. CASE Match
  BY <1>1, <1>3, MatchingShows
<1>4. CASE CompareBalances \/ WriteWorkbook \/ UNCHANGED vars
  <2>1. UNCHANGED <<erp, onec, issues>>
    BY <1>4 DEF CompareBalances, WriteWorkbook, vars, preparationVars, matchingVars
  <2>2. RowsReported' = RowsReported
    BY <2>1 DEF RowsReported, Places
  <2> QED  BY <1>1, <2>1, <2>2, PartsStay
<1> QED  BY <1>2, <1>3, <1>4 DEF Next

\* Every issue that may adjust the balance shows one part of one document, and
\* a payment is compared with one row (match_documents).
THEOREM AdjustInvHolds == Spec => []AdjustInv
BY InitAdjusts, NextAdjusts, PTL DEF Spec

LEMMA PartsOfDocument ==
  ASSUME NEW d, NEW y \in Details(d)
  PROVE  /\ y.basis = "payment_allocation" => d.kind = "payment"
         /\ y.basis = "document_line" => \E k \in DOMAIN d.lines : y.id = d.lines[k].id
<1>1. CASE \E k \in DOMAIN d.allocations :
             y = [slot |-> <<"allocation", k>>, amount |-> d.allocations[k].amount,
                  contract |-> d.allocations[k].contract, id |-> d.allocations[k].line,
                  basis |-> IF d.kind = "payment" THEN "payment_allocation"
                                                  ELSE "document_allocation"]
  <2>1. y.basis = IF d.kind = "payment" THEN "payment_allocation" ELSE "document_allocation"
    BY <1>1
  <2> QED  BY <2>1
<1>2. CASE \E k \in DOMAIN d.lines :
             y = [slot |-> <<"line", k>>, amount |-> d.lines[k].amount,
                  contract |-> d.lines[k].contract, id |-> d.lines[k].id,
                  basis |-> "document_line"]
  BY <1>2
<1> QED  BY <1>1, <1>2 DEF Details

LEMMA AdjustmentMeans ==
  ASSUME AdjustInv, NEW i \in DOMAIN onec, LinesIdentified(onec[i]), NEW s
  PROVE  \E part \in Injection({k \in DOMAIN issues : issues[k].onec = i /\ Adjusts(issues[k], s.codes)},
                               ExternalParts(i, s)) :
           \A k \in DOMAIN part : part[k].amount = issues[k].amount
<1> DEFINE codes == s.codes
           K == {k \in DOMAIN issues : issues[k].onec = i /\ Adjusts(issues[k], codes)}
           X == ExternalParts(i, s)
           part == [k \in K |-> CHOOSE y : Shown(y, issues[k])]
<1>1. SidesInv /\ TakenInv /\ PartsInv
  BY DEF AdjustInv, MatchInv, ReportInv
<1>2. i # 0
  BY <1>1, PlacesAre
<1>3. ASSUME NEW k \in K
      PROVE  /\ k \in RowsReported /\ MayAdjust(issues[k]) /\ ComparesAs(issues[k])
             /\ issues[k].onec = i /\ issues[k].contract \notin codes
             /\ Shown(part[k], issues[k])
  <2>1. /\ k \in DOMAIN issues /\ issues[k].onec = i /\ issues[k].erp # 0
        /\ issues[k].status \in AdjustingStatuses /\ issues[k].basis \in PartBases
        /\ issues[k].contract \notin codes
    BY DEF Adjusts, AdjustingStatuses, PartBases
  <2>2. k \in RowsReported
    BY <1>1, <2>1 DEF SidesInv, RowsReported
  <2>3. MayAdjust(issues[k])
    BY <1>2, <2>1 DEF MayAdjust
  <2>4. Shows(issues[k])
    BY <1>1, <2>2 DEF PartsInv
  <2>5. ComparesAs(issues[k]) /\ \E y : Shown(y, issues[k])
    BY <2>3, <2>4 DEF Shows
  <2> QED  BY <2>1, <2>2, <2>3, <2>5
<1>4. ASSUME NEW k \in K PROVE part[k] \in X /\ part[k].amount = issues[k].amount
  <2>1. Shown(part[k], issues[k]) /\ issues[k].onec = i /\ issues[k].contract \notin codes
    BY <1>3
  <2>2. s.codes # {} => AddedContracts(s) \subseteq s.codes
    BY DEF AddedContracts, RelevantBalances
  <2> HIDE DEF part
  <2> QED  BY <2>1, <2>2 DEF Shown, HeldFor, ExternalParts
<1>5. ASSUME NEW j \in K, NEW k \in K, part[j] = part[k] PROVE j = k
  <2>1. /\ j \in RowsReported /\ k \in RowsReported
        /\ ComparesAs(issues[j]) /\ ComparesAs(issues[k])
        /\ issues[j].onec = i /\ issues[k].onec = i
        /\ Shown(part[j], issues[j]) /\ Shown(part[k], issues[k])
        /\ issues[j].basis \in PartBases
    BY <1>3 DEF MayAdjust
  <2> HIDE DEF part
  <2>2. PICK y : y = part[j]
    OBVIOUS
  <2>3. /\ y \in Details(onec[i]) /\ y.id = issues[j].detail /\ y.id = issues[k].detail
        /\ y.basis = issues[j].basis /\ y.basis = issues[k].basis
    BY <1>5, <2>1, <2>2 DEF Shown
  <2>4. SUFFICES ASSUME j # k PROVE FALSE
    OBVIOUS
  <2>5. Apart(issues[j], issues[k]) /\ Alone(issues[j], issues[k])
    BY <1>1, <2>1, <2>4 DEF TakenInv, PartsInv
  <2>6. y.basis = "document_line"
    BY <2>1, <2>3, <2>5, PartsOfDocument DEF Alone, PartBases
  <2>7. y.id # ""
    <3>1. PICK k1 \in DOMAIN onec[i].lines : y.id = onec[i].lines[k1].id
      BY <2>3, <2>6, PartsOfDocument
    <3> QED  BY <3>1 DEF LinesIdentified
  <2> QED  BY <2>1, <2>3, <2>5, <2>7 DEF Apart
<1>6. part \in Injection(K, X)
  <2> HIDE DEF X, K
  <2>1. part \in [K -> X]
    BY <1>4
  <2>2. IsInjective(part)
    BY <1>5 DEF IsInjective
  <2> QED  BY <2>1, <2>2 DEF Injection
<1>7. \A k \in DOMAIN part : part[k].amount = issues[k].amount
  BY <1>4
<1> QED  BY <1>6, <1>7

\* Each amount by which the balance is adjusted is that of a part of a 1C
\* document, a part of its own, for any rows, documents, lines and balances; for a
\* delivery that has contract codes it is kept under a contract whose balance was
\* not added up (_allocated_external_adjustment, match_documents).
THEOREM AdjustmentsAreCountedOnce == Spec => []AdjustmentCountedOnce
<1>1. AdjustInv => AdjustmentCountedOnce
  BY AdjustmentMeans DEF AdjustmentCountedOnce
<1> QED  BY <1>1, AdjustInvHolds, PTL
=============================================================================
