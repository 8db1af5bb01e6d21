--------------------------- MODULE SnapshotFetch ---------------------------
(* fetch_snapshot: one run reads the documents of its delivery from 1C.  A   *)
(* first request brings the documents of the delivery's contracts; then a    *)
(* pool asks for every document that the ERP names by a code which the first *)
(* answer does not show.  Answers are collected as they complete, sorted and *)
(* merged; the first failure collected abandons the run.                     *)
(*                                                                           *)
(* The 1C database may change between two requests, and before the first. The *)
(* first request is answered by 1C; a lookup may be answered by the cache,   *)
(* which all runs of the process share, with what 1C held before the fetch   *)
(* began.  How old that can be is what BoundedStaleness says; contents goes  *)
(* back as far, and a lookup is answered from any of them.                   *)
EXTENDS Integers, FiniteSets, SequencesExt

CONSTANTS KnownDocuments, \* the lists of ERP documents a run may have
          Contents,       \* what 1C may hold at the time of the oldest answer in the cache
          EditedRows,     \* the rows that may be entered in 1C, or be edited to
          LookupWorkers,  \* RECON_ONEC_LOOKUP_WORKERS
          MaxEdits        \* bound of the model on edits in 1C

VARIABLES
  known,     \* erp_documents: a sequence of [block, code, date, amount]
  contents,  \* the contents of 1C that an answer may be of, the latest last
  phase,     \* "before", "base", "lookups", "abandoned", "merging", "done" or "failed"
  snapshot,  \* snapshot[b]: the rows of block b
  lines,     \* document_lines, each with the document it names and its number
  lookups,   \* the places in known of the ERP documents to ask for
  state,     \* state[i]: where the lookup of known[i] is in the pool
  answer,    \* answer[i]: the rows that came for lookup i
  completed, \* the lookups collected, in order of completion
  merged     \* the lookups merged, in order

fetchVars == <<known, contents, phase, snapshot, lines, lookups, state,
              answer, completed, merged>>

\* The blocks that documents come in, and the place of each in the sort.
BlockPlace == [customer_invoices |-> 1, payments |-> 2, purchases |-> 3, sales |-> 4]
Blocks == DOMAIN BlockPlace
NoDate == 0
NoCode == 0

\* 1C gives every document a number and a date, and each block is of documents
\* of its own.
ASSUME RowsAssumption ==
  \A rows \in Contents \cup {EditedRows} : \A r \in rows :
    r.block \in Blocks /\ r.code # NoCode /\ r.date # NoDate
ASSUME KnownAssumption ==
  KnownDocuments \subseteq Seq([block : STRING, code : Nat, date : Nat, amount : Int])

HasLines(b) == b \in {"sales", "purchases"}

\* In 1C every sale and purchase row comes with a line that names it.
LinesOfRows(rows) ==
  {[document_id |-> r.source_id, document_number |-> r.code] :
     r \in {r \in rows : HasLines(r.block)}}

Rows == UNION {snapshot[b] : b \in Blocks}
Content == Last(contents)

InitFetch ==
  /\ known \in KnownDocuments
  /\ \E c \in Contents : contents = <<c>>
  /\ phase = "before"
  /\ snapshot = [b \in Blocks |-> {}] /\ lines = {}
  /\ lookups = {} /\ state = << >> /\ answer = << >>
  /\ completed = << >> /\ merged = << >>

\* External: someone enters, edits or deletes a document in 1C.
OneCChanges ==
  /\ Len(contents) <= MaxEdits
  /\ phase \in {"before", "base", "lookups"}
  /\ \E id \in {r.source_id : r \in Content \cup EditedRows} :
       \E new \in {{}} \cup {{e} : e \in {e \in EditedRows : e.source_id = id}} :
         contents' = Append(contents, {r \in Content : r.source_id # id} \cup new)
  /\ UNCHANGED <<known, phase, snapshot, lines, lookups, state, answer, completed, merged>>

\* The fetch is called.
Begin ==
  /\ phase = "before"
  /\ phase' = "base"
  /\ UNCHANGED <<known, contents, snapshot, lines, lookups, state, answer, completed, merged>>

-----------------------------------------------------------------------------
(* The first request and the list of lookups.                                *)

\* existing_codes: the codes that block b of the first answer shows.
ExistingCodes(shown, b) == {r.code : r \in {r \in shown : r.block = b}}

LookupKey(d) == <<d.block, d.code, d.date>>

\* Mutant: documents that share a code are asked for once.
WantedByCode(shown, i) ==
  LET d == known[i] IN
  /\ d.code # NoCode
  /\ d.block \in Blocks
  /\ d.code \notin ExistingCodes(shown, d.block)
  /\ \A j \in 1..(i - 1) : <<known[j].block, known[j].code>> # <<d.block, d.code>>

Wanted(shown, i) ==
  LET d == known[i] IN
  /\ d.code # NoCode
  /\ d.block \in Blocks
  /\ d.code \notin ExistingCodes(shown, d.block)
  /\ \A j \in 1..(i - 1) : LookupKey(known[j]) # LookupKey(d)

ReadBase ==
  /\ phase = "base"
  /\ LET shown == {r \in Content : r.of_delivery} IN
       /\ snapshot' = [b \in Blocks |-> {r \in shown : r.block = b}]
       /\ lines' = LinesOfRows(shown)
       /\ lookups' = {i \in DOMAIN known : Wanted(shown, i)}
  /\ state' = [i \in lookups' |-> "queued"]
  /\ answer' = [i \in lookups' |-> {}]
  /\ phase' = "lookups"
  /\ UNCHANGED <<known, contents, completed, merged>>

BaseFails ==
  /\ phase = "base"
  /\ phase' = "failed"
  /\ UNCHANGED <<known, contents, snapshot, lines, lookups, state, answer, completed, merged>>

-----------------------------------------------------------------------------
(* The pool.                                                                 *)

InState(s) == {i \in lookups : state[i] = s}
PoolSize == Min({LookupWorkers, Cardinality(lookups)})
\* The pool works on after the run was abandoned: leaving the with block waits
\* for every lookup, the queued ones included.
PoolRuns == phase \in {"lookups", "abandoned"}

SetState(i, s) ==
  /\ state' = [state EXCEPT ![i] = s]
  /\ UNCHANGED <<known, contents, snapshot, lines, lookups, merged>>

StartUnlessAbandoned(i) ==
  /\ phase = "lookups"
  /\ state[i] = "queued"
  /\ Cardinality(InState("running")) < PoolSize
  /\ SetState(i, "running")
  /\ UNCHANGED <<phase, answer, completed>>

Start(i) ==
  /\ PoolRuns
  /\ state[i] = "queued"
  /\ Cardinality(InState("running")) < PoolSize
  /\ SetState(i, "running")
  /\ UNCHANGED <<phase, answer, completed>>

\* External: an answer of 1C has every row of the block with the code.
RowsWithCode(content, d) == {r \in content : r.block = d.block /\ r.code = d.code}

\* _cache_get or the request: the cache has no answer older than contents[1].
Answer(i) ==
  /\ PoolRuns
  /\ state[i] = "running"
  /\ \E v \in DOMAIN contents :
       answer' = [answer EXCEPT ![i] = RowsWithCode(contents[v], known[i])]
  /\ SetState(i, "answered")
  /\ UNCHANGED <<phase, completed>>

LookupFails(i) ==
  /\ PoolRuns
  /\ state[i] = "running"
  /\ SetState(i, "failed")
  /\ UNCHANGED <<phase, answer, completed>>

Collect(i) ==
  /\ phase = "lookups"
  /\ state[i] = "answered"
  /\ completed' = Append(completed, i)
  /\ SetState(i, "collected")
  /\ UNCHANGED <<phase, answer>>

\* Mutant: a failed lookup counts as an answer without rows.
RaiseIgnored(i) ==
  /\ phase = "lookups"
  /\ state[i] = "failed"
  /\ completed' = Append(completed, i)
  /\ SetState(i, "collected")
  /\ UNCHANGED <<phase, answer>>

\* future.result() raises the failure of the lookup.
Raise(i) ==
  /\ phase = "lookups"
  /\ state[i] = "failed"
  /\ phase' = "abandoned"
  /\ UNCHANGED <<known, contents, snapshot, lines, lookups, state, answer, completed, merged>>

GiveUp ==
  /\ phase = "abandoned"
  /\ InState("queued") \cup InState("running") = {}
  /\ phase' = "failed"
  /\ UNCHANGED <<known, contents, snapshot, lines, lookups, state, answer, completed, merged>>

AllCollected ==
  /\ phase = "lookups"
  /\ InState("collected") = lookups
  /\ phase' = "merging"
  /\ UNCHANGED <<known, contents, snapshot, lines, lookups, state, answer, completed, merged>>

-----------------------------------------------------------------------------
(* The merge.                                                                *)

Rank(d) == <<BlockPlace[d.block], d.code>>
Below(a, b) == a[1] < b[1] \/ (a[1] = b[1] /\ a[2] < b[2])

Remaining == {n \in DOMAIN completed : completed[n] \notin ToSet(merged)}

\* sorted by block and code is stable: answers for one code keep the order of
\* their completion.
IsNext(n) ==
  /\ n \in Remaining
  /\ \A m \in Remaining :
       LET rn == Rank(known[completed[n]])
           rm == Rank(known[completed[m]])
       IN  Below(rn, rm) \/ (rn = rm /\ n <= m)

\* Mutant: every row that has the code is kept.
SelectedByCode(rows, d) == {r \in rows : r.code = d.code}

\* _filter_document_lookup_snapshot: rows of the date of the ERP document, or
\* else rows of its amount.
Selected(rows, d) ==
  LET coded == {r \in rows : r.code = d.code}
      exact_date == {r \in coded : d.date # NoDate /\ r.date = d.date}
  IN  IF exact_date # {} THEN exact_date ELSE {r \in coded : r.amount = d.amount}

\* _append_unique_row for each row of one answer: the identity of a row is all
\* that the model knows of it.
AppendUnique(rows, new) == rows \cup new

MergeAnswer ==
  /\ phase = "merging"
  /\ \E n \in DOMAIN completed :
       /\ IsNext(n)
       /\ LET i == completed[n]
              d == known[i]
              selected == Selected(answer[i], d)
          IN  /\ snapshot' = [snapshot EXCEPT ![d.block] = AppendUnique(@, selected)]
              /\ lines' = lines \cup LinesOfRows(selected)
              /\ merged' = Append(merged, i)
  /\ UNCHANGED <<known, contents, phase, lookups, state, answer, completed>>

ReturnSnapshot ==
  /\ phase = "merging"
  /\ Remaining = {}
  /\ phase' = "done"
  /\ UNCHANGED <<known, contents, snapshot, lines, lookups, state, answer, completed, merged>>

\* _lookup_document_lines: lines found by the identifier and by the number.
LinesOf(r) == {l \in lines : l.document_id = r.source_id \/ l.document_number = r.code}

-----------------------------------------------------------------------------
PoolStep(i) == Start(i) \/ Answer(i) \/ LookupFails(i) \/ Collect(i) \/ Raise(i)
FetchStep ==
  \/ ReadBase \/ BaseFails \/ AllCollected \/ GiveUp \/ MergeAnswer \/ ReturnSnapshot
  \/ \E i \in lookups : PoolStep(i)

NextFetch == OneCChanges \/ Begin \/ FetchStep

\* Requests end, by an answer or a timeout, and threads are scheduled; nothing
\* makes 1C change or a fetch begin.
FetchSpec == InitFetch /\ [][NextFetch]_fetchVars /\ WF_fetchVars(FetchStep)

-----------------------------------------------------------------------------
\* All or nothing: a fetch that returns has an answer for every lookup, and
\* each row that an answer has for its ERP document is in the snapshot, in
\* whatever order the answers came and whichever failed on the way; a sale or a
\* purchase comes with the line that names it.
NothingLost ==
  phase = "done" =>
    /\ ToSet(merged) = lookups
    /\ \A i \in lookups :
         \E v \in DOMAIN contents :
           Selected(RowsWithCode(contents[v], known[i]), known[i])
             \subseteq snapshot[known[i].block]
    /\ \A r \in Rows : HasLines(r.block) => \E l \in LinesOf(r) : l.document_id = r.source_id

\* A row outside the delivery's contracts enters only for an ERP document of its
\* block and code that agrees with it on the date or on the amount: a document
\* that merely reuses the code in another year stays out.
NothingForeign ==
  \A r \in Rows :
    \/ r.of_delivery
    \/ \E i \in lookups : /\ known[i].block = r.block /\ known[i].code = r.code
                          /\ \/ known[i].date = r.date
                             \/ known[i].amount = r.amount

\* A document that 1C held all the time, before the fetch as far back as the
\* cache reaches, and that the ERP names by block, code and date.
KnownToERP(r) ==
  /\ \A v \in DOMAIN contents : r \in contents[v]
  /\ \E i \in DOMAIN known : /\ known[i].block = r.block /\ known[i].code = r.code
                             /\ known[i].date = r.date

\* Such a document is in the snapshot, unless the first answer shows its code.
\* Of a document entered since the oldest answer in the cache nothing is said:
\* the fetch may be told that there is none.
KnownDocumentsFetched ==
  phase = "done" =>
    \A r \in contents[1] :
      /\ KnownToERP(r)
      /\ ~ \E s \in Rows : s.of_delivery /\ s.block = r.block /\ s.code = r.code
      => r \in Rows

\* Every fetch that begins ends, also when lookups fail while others are queued.
FetchEnds == phase = "base" ~> phase \in {"done", "failed"}
=============================================================================
