# Verification of recon_erp_1c

`recon_erp_1c` compares what an ERP (MariaDB) and 1C (over REST) hold for one
delivery, which it calls a specification (`spec_id`): sales, purchases, payments,
invoices, closing documents and balances. An employee comes from the ERP with a launch
token, picks a delivery in a matrix of all deliveries and runs the comparison; the
service matches the documents of both sides, reports issues, stores the run in a journal,
shows it and exports it as a workbook; the employee comments on the issues. Up to 50
deliveries may be compared as one background job. The repository also keeps the prototype
that the service replaces, one server file of eight thousand lines.

This directory holds TLA+ modules translated from the Python, SQL and JavaScript
sources, TLC configurations that check them on small instances, and TLAPS proofs.
`PROJECT.json` maps every definition to the lines it models. Paths below are
relative to the repository; these short names stand for the long ones:

| Short | File |
|---|---|
| R    | `src/recon_erp_1c/application/use_cases/reconcile_delivery.py` |
| DS   | `src/recon_erp_1c/domain/services.py` |
| CL, RP | `src/recon_erp_1c/infrastructure/onec_rest/client.py`, `repository.py` |
| ER, Q  | `src/recon_erp_1c/infrastructure/erp_mariadb/repository.py`, `queries.py` |
| LOG  | `src/recon_erp_1c/infrastructure/persistence/mariadb_log_repository.py` |
| XL   | `src/recon_erp_1c/infrastructure/export/xlsx.py` |
| API, AU | `src/recon_erp_1c/interfaces/http/api.py`, `auth.py` |
| JS   | `src/recon_erp_1c/interfaces/web/reconciliation.js` |
| PS   | `reference/prototype/prototype_server.py` |
| REQ  | `docs/requirements/BABOK_REQUIREMENTS.md` |

## 1. The system

### Components, their state and operations

| Component | State it keeps | Operations | Module |
|---|---|---|---|
| Comparison of two documents (DS) | none | `compare_documents` | `Documents` |
| Preparation of both sides (R 499-683) | none | `aggregate_documents`, `_coalesce_erp_rows_for_onec_headers` | `DocumentGrouping`, `DocumentPreparation` |
| Matching and classification (R 184-490, 694-824) | within a call: consumed documents and lines, the issues so far | `match_documents`, `_project_matching_detail`, `_find_unlinked_detail_match`, `_classify_global_erp_presence` | `DocumentMatching` |
| Balances (R 827-903) and result (XL) | none | `compare_balances`, `reconciliation_run_xlsx` | `Reconciliation` |
| Orchestration of a run (R 47-141) | none | `ReconcileDelivery.execute` | `Reconciliation` (data), `RunJournal` (order and failures) |
| 1C client and lookup cache (CL) | `_LOOKUP_CACHE`, an `OrderedDict` shared by all threads under a lock | cached GET, store, evict | `LookupCache`, `BoundedStaleness` |
| 1C snapshot repository (RP) | within a call: the snapshot, the pool and its futures | `fetch_snapshot` | `SnapshotFetch` |
| ERP repository (ER, Q) | a connection per query, in autocommit mode | the reads of deliveries, totals, searches, the global lookup of codes | `ErpDatabase`, `ErpReads` |
| Sessions (AU) | a secret per process; the session is with the client | launch, sign, verify | `HttpSession` |
| Matrix, its workbook and searches (API, XL) | within a request: the answers of its queries | `matrix`, `matrix.xlsx`, the searches | `MatrixRequest` |
| Run journal (LOG, `sql/1c_reconciliation_schema.sql`) | tables of run headers and run items | `save_run`, the pages of the history (API 570-640) | `RunJournal`, `RunLog` |
| Issue comments (API, JS) | one row per run and issue key; drafts and statuses in the page | type, save, filter, open a run, rerun | `IssueComments` |
| Batch jobs (API 32, 721-770, 1520-1590) | `_BATCH_JOBS`, a dictionary in process memory | submit, worker thread with a pool, poll | `BatchJobs` |
| Web page (JS, `reconciliation.html`) | one `state` object, the address of the browser, the session store | select, navigate, run, log in and out, reload, open a stored run | `WebClient` |
| Prototype server (PS) | tables filled from files of a folder of Google Drive; a dictionary of jobs under a lock | synchronise, submit, poll, `compare_onec_docs_with_erp_snapshot` | `PrototypeSources`, `PrototypeComparison`, `PrototypeServer` |
| Configuration, rule set, ports | none | pure functions | not modelled |
| React prototype, tools, contracts, deployment | - | - | not part of the running service |

### How they interact

The page (`WebClient`, `IssueComments`) calls the HTTP API with a session
(`HttpSession`). The matrix that it shows is one request of nine queries
(`MatrixRequest` composes `HttpSession`, `ErpDatabase` and `ErpReads`). A run is executed
in the request's thread, or by a worker of a batch job (`BatchJobs`): it reads the
ERP (`ErpReads`), then 1C (`SnapshotFetch`, whose point lookups go through the
`LookupCache` that all threads of the process share), prepares, matches and classifies the
documents, compares the balances (`Reconciliation` composes `DocumentPreparation` and
`DocumentMatching` with the rest), saves the run (`RunJournal`) and answers; a
workbook of the run is made from its serialised form (`Reconciliation`). The history
screen reads the journal page by page while other requests write to it. Comments refer to
issues by a key computed from the run, so the order in which `DocumentMatching` lists the
issues reaches `IssueComments` through `serializers.py:97`. The prototype server shares
nothing with the service but the ERP, 1C and what it is meant to do.

### Where it is hard

- Greedy matching: every search sees only what earlier rows left, so the outcome
  depends on the order of the rows and on the bases under which a line is consumed; the
  balance is then adjusted by what the matching said.
- Result and sums are computed twice: by the run and by its workbook, by SQL and by
  Python, for a page of deliveries and for one.
- Each query has a connection of its own: one request sees several states of the ERP.
- The lock of the cache is not held during a request: several threads fetch one
  key, and the answers are stored in any order.
- The lock of the jobs covers single accesses; a poll copies the job shallowly and
  serialises its lists after the lock is released. The prototype prunes its jobs in one
  critical section and uses them in the next.
- Point lookups fail, finish in any order and read 1C at different moments, before the
  fetch as well: the cache that answers them belongs to the process and outlives a run.
- A run is saved by several statements; any of them, the commit, the answer to the
  commit and the process can fail, while a reader pages by OFFSET.
- A session is kept nowhere, so nothing ends it but time; a request without a session is
  served on a token that nobody verifies.
- On the page every `await` lets the user act, and answers come back to a page
  that has moved on.
- A comment is saved while its text is edited; `updated_at` counts seconds.
- A file changes between its listing and its download, and is passed over by what was
  listed.

The places where this bites are listed under `hazards` in `PROJECT.json`, each with the
properties that would notice.

## 2. The modules

### Documents, DocumentGrouping, DocumentPreparation

`Documents` holds the record of an accounting document (`entities.py`,
`value_objects.py`) and `compare_documents`: which fields mismatch, which status
wins and which field decides. Texts are short strings, amounts integers in the
smallest unit, dates naturals with 0 for `None`. `DocumentGrouping` holds
`aggregate_documents` and the coalescing of ERP rows under one 1C header total.
`DocumentPreparation` applies them in the code's order: `AggregateErp`,
`AggregateOneC`, `Coalesce`.

### DocumentMatching and Reconciliation

State of the matching: the two sides, the phase, the row the loop is at, the consumed
documents (`matched`), the consumed details (`used`, triples of document, basis and detail) and the
issues. One action per way through the body of the loop, named for what it reports:
`ReportMissingErpDocument`, `ReportNotFound`, `ReportAmbiguousLine`, `MatchLine`,
`ReportDuplicates`, `ReportAmbiguousDetail`, `MatchDocument`; then `ReportUnlinked` for
what no row consumed, and `ClassifyIssue`, which asks the ERP whether a 1C-only document
exists elsewhere. The answer of that query is a choice of the model. `WholeBases` are the
two bases under which a document was compared as a whole and not in a part.

`Reconciliation` is the run as a whole: preparation, matching, `CompareBalances`
(the relevant balances, the adjustment for parts of documents of other contracts,
comparability) and `WriteWorkbook`, which derives the result, the text on the balances and
the four sheets from the serialised run, as `reconciliation_run_xlsx` does (`Sheet` lists
the issues of a sheet by their places in the report).

### LookupCache and BoundedStaleness

The content of an answer is represented by the instant at which 1C read it. An
action is a step between two releases of the lock: `Hit`, `Miss`, `OneCReads`,
`Continue`, `RequestFails`, `Store`; `Tick` moves the clock. A request ends (with an answer
or an error) or completes an operation on its socket (`Continue`) within `Timeout`, as
`urlopen` has it, and takes at most `Operations` of them, a bound of the model.
`BoundedStaleness` is the abstract specification: a call fails or returns what 1C
held at an instant not more than `Staleness` before the call. `LookupCache`
implements it with `Staleness` = `TTL + Operations * Timeout`.

### BatchJobs

`Submit` is the request, `Begin`, `Take`, `Execute`, `CollectRun`, `CollectError`
and `Complete` the thread and its pool, and a poll takes three steps: the copy under
the lock (`CopyJob`), which takes the counters of the job and references to its lists,
and the serialisation after it, which reads each list as it is by then (`SerialiseRuns`,
`SerialiseErrors`). `Restart` empties `_BATCH_JOBS`.

### SnapshotFetch

`ReadBase` is the first request; `Start`, `Answer`, `LookupFails`, `Collect` and
`Raise` are the pool and `as_completed`; `GiveUp` is the exit of the `with` block,
which waits for running lookups; `MergeAnswer` takes the collected answers in
sorted order. `OneCChanges` edits 1C between any two of these steps, and before `Begin`:
`contents` goes back to the time of the oldest answer that the lookup cache may give, and a
lookup is answered from any content since (a miss from the latest, a hit from an older one).
The first request is never cached. The documents of the ERP
are a sequence, and a lookup is the place of its document in it, so that two documents with
one code remain two lookups. What 1C holds and the blocks of the snapshot are sets of rows:
every merge of the code passes over a row that is there already, and nothing here depends on
the order of a block.

### ErpDatabase, ErpReads, HttpSession, MatrixRequest

`ErpDatabase` has the tables of the ERP as sets of rows and every query of Q as a function
of them; a join that repeats a row in SQL repeats it here. The stored functions
`get_paidsum` and `get_realizsum` belong to the ERP; their values are columns of the
operations. `ErpReads` is what ER makes of the answers: documents, sums, debts; its
operators take answers and never the database, so that nothing can be read at a moment at
which no query ran. `HttpSession` is the launch, the signed session and its expiry, and the
context in which `auth.py` serves a request: under the session that the page sends, or, when
none is sent, under any token in `X-ERP-Token` or `Authorization`, or under nothing unless
`RECON_REQUIRE_ERP_TOKEN` is set. The settings are a variable that never changes.
`MatrixRequest` is one request: `Receive` checks the session and the parameters, then each
query is an action (`Count`, `Totals`, `List`, `Invoices`, `Operations`, `AmountsOf`,
`Links`, `Closings`, `Payments`), `MakeRow` assembles a row, `Finish` sorts and answers,
`QueryFails` ends the request with an error. `Edit` moves the ERP between any two queries,
`Search` is the searches, `Restart` draws a new secret. An empty text and NULL are both
`NoText`; `ORDER BY` is `InOrder`, and sums over rows are `SumFunction`.

### RunJournal and RunLog

An executor goes through `Request`, `Compute`, `Begin`, `InsertHeader`,
`InsertItem` for each issue, `Commit`, `Reply`; each may fail (`SourceFails`,
`SaveFails`, `CommitAnswerLost`) and `Crash` ends every executor at once. A
connection is in autocommit mode until `begin`, so a statement outside a
transaction is stored at once (this is what a mutant removes). A reader takes one
action for the `COUNT` and one for the `SELECT` of a page.

`RunLog` is the abstract specification: a log that takes a run with all of its items in one
step (`Record`) and keeps it, and tells clients of runs in it (`Acknowledge`). `RunJournal`
implements it with `log` = the rows of the table of runs, each with its items (`StoredRun`).

### IssueComments

Per user the rows shown, the texts of the drafts, what the page keeps as saved
(`feedback`) and the status of each row; on the server the table and the clock in
seconds. A save is a record in `posts` that is asked, stored or refused, and
answered. `Render` is the redraw that a filter or an opened run causes; an opened run whose
comments do not load keeps the ones the page had (JS 1735, 1748). Its specification
is `CommentsSpec`.

### WebClient

The whole page is one record, as it is one `state` object in the code: selection,
rows of the matrix, view, the run shown, its owner, the address, the token, the
overlay. A handler is an action up to its first `await`, and every resumption is an
action of its own. Boot and login are sequences of awaits (`session`, `matrix`,
`stored`) kept in `opening`; runs in flight are kept in `runs`. `crossed` is a
history variable, see below.

### PrototypeSources, PrototypeComparison, PrototypeServer

`PrototypeSources` is what 1C holds for a delivery in the prototype: documents, movements of
accounts, lines of documents, from the tables or from REST, and which of them
belong to the delivery; codes and numbers are the sets of keys that
`strong_doc_number_keys` makes of them. `PrototypeComparison` gathers the rows of the ERP into
items and matches them with documents, lines and movements. `PrototypeServer` puts them to work:
`ListDrive`, `Look`, `Download`, `Store`, `FileFails` are a synchronisation, `Upload`
a change of the folder; `Submit`, `Enter`, `Respond`, `Poll` the requests of clients, each
a step between two uses of the lock; `Begin`, `Ask`, `ReadDocuments`, `ReadMovements`,
`ReadLines`, `Compare`, `SourceFails`, `ErpFails`, `Finish` the thread of a job.

## 3. The runs

| Run | Question | Distinct states |
|---|---|---|
| `reconciliation` | Does a run conserve money, account for everything, compare and add nothing twice, miss no pair, and does a run called passed add up? | 709 thousand |
| `lookup_cache` | Is a caller ever given content too old, though answers trickle in, and why does a key leave the cache? | 1.2 million |
| `batch_jobs` | Is every outcome recorded once, is a torn answer usable, do answers only go forward, do jobs end? | 149 thousand |
| `snapshot_fetch` | Does a snapshot hold what was asked for and nothing foreign, whatever fails and changes meanwhile? | 290 thousand |
| `matrix_request` | Does a page that is read by nine queries show every payment once, add up, and agree with SQL, with a single read and with the global lookup? How long is someone who was shut out served under a session? | 468 thousand |
| `run_journal` | Is the journal a log of runs, each stored at once, whole and for good, kept once acknowledged, and seen by someone who pages through the history? | 2.7 million |
| `issue_comments` | Was everything that the page keeps as saved stored, and is the latest change of a comment shown? | 2.7 million |
| `web_client` | Does the page show only rows that exist, results of the selected delivery, and addresses that open again? | 1.6 million |
| `prototype` | Is what a synchronisation passes over fresh, do jobs go for a reason, does the report account for documents and lines once? | 1.8 million |
| `distinct_lines`, `comment_after_rerun`, `text_beside_saved` | One statement of the documents or tests each that the code does not meet, section 5. | - |

### What the properties say

**Preparation.** `OnePaymentOneDocument`: rows that belong to one payment end as one
document. `MoneyConserved`: no step loses or invents an amount.

**Matching.** `EveryDocumentAccountedFor`: each ERP row gets one issue, each 1C document is
consumed or reported from its side. `NothingComparedTwice`: two rows compared with one document
are compared with different parts of it, and neither with the whole (under the header, or under
the header that sums up the allocations of a payment); parts of different bases are left out,
they are the subject of run `distinct_lines`. `NoMissedPair` and `NoMissedLine`: a document or
line that stayed free to the end is none that a row reported as not found could have taken; the
choice by contract among documents of one code and date is the exception. `MatchIsExact`: "match"
is said only of the same kind, date and code and of exactly the amount of the named part.

**Balances and result.** `AdjustmentCountedOnce`: whatever the matching adds to the balance
from a 1C document whose lines can be told apart is an amount that the document holds for a
contract that is not the delivery's, and no such amount is added by two rows. When the contracts
of the delivery have codes in 1C, it is of a contract whose balance was not added up already, so
that nothing is counted twice. When they have none the code does count twice (section 6).
`PassedAddsUp`: the workbook says "passed" for the very runs that the
service calls matched. Then every document of 1C was compared with a row, balances that were
compared agree, and if all rows of a kind were compared with whole documents, both sides hold
the same money of that kind in each currency: no two rows have passed on one document. (Rows
compared with parts prove less, since nothing is asked for the other parts.)

**Cache.** `LeavesForAReason`: a key leaves when it expired, or when the cache is full and it
is the least recently used. `BoundedlyStale`: the refinement. A slow answer may
replace a newer one; the bound holds all the same.

**Jobs.** `RecordedOnce`; `AnswersUsable`: an answer counts no outcome that it does not
show and "completed" shows all; `AnswersProgress`: successive answers to a client grow,
until a restart; `JobsEnd`.

**Snapshot.** `NothingLost`: a fetch that returns has an answer for every lookup, and
what an answer held for its ERP document is in the snapshot. `NothingForeign`: a row
outside the contracts of the delivery agrees with some looked-up document on block, code
and date or amount. `KnownDocumentsFetched` is the weak form of what the requirements ask:
a document that the ERP names by code and date is in the snapshot unless the first answer
shows *some document with the same code* (section 6), or the document was entered in 1C after
the oldest answer in the cache: a run may be told that it is absent although 1C has it, for
no longer than `BoundedlyStale` says. `FetchEnds`.

**Matrix.** `PaymentShownOnce`: the payment of an operation is shown against one invoice,
also when the operation is named twice and the ERP changes between the queries.
`PaidColumnAddsUp`: the lines of a delivery in the workbook add up to what it was paid,
and none is below zero. `TotalsAgree`: the totals of SQL are those of Python when the page
holds all deliveries. `SameAsAlone`: a delivery among others reads as it does alone.
`ActsShown`: no closing document is hidden but behind an aggregate of its kind.
`ListedIsFound`: what the listing shows, the global lookup finds. Each names the shapes of
ERP data for which the code does otherwise (`NothingRefunded`, `AllocatedInFull`,
`AttachedOnce`, `KindsClear`, `InvoicesAtHome`, `SameColumns`); section 6 says what happens
then. `ShutOutInTime`: who is served under a session - a page of the matrix, a workbook when
it is handed out, a search - is served no later than a session lasts after the ERP shut him
out. It says nothing of requests without a session: those are served on a token that nobody
verifies, for as long as they come (section 6).

**Journal.** `RecordedWhole`: a stored header has all of its items.
`SavedAtOnce`: the refinement: in one step a run is there whole, nothing changes or removes it
later, and only such a run is acknowledged. It contains `AcknowledgedIsDurable`, which is proved
and which no run repeats.
`PagingSkipsNothing`: new runs shift the offsets, yet of the runs that were there at the
start a reader has at any time seen all that are newer than one already seen.

**Comments.** `SavedWasStored`: what the page keeps as saved was stored at some time, and
where a row says "saved" the page keeps a saved comment of its issue. That the text in the row
is that comment is `RowSaidSavedIsStored`, which run `text_beside_saved` refutes.
`LatestChangeShown`: the comment shown for a key is the one stored last, provided
that it came in a second of its own and changed its row. Both provisos are the code's:
`updated_at` counts seconds, and MariaDB leaves an unchanged row alone.

**Page.** `SelectionShown`: once rows are there and none are being loaded, the
selected delivery is one of them. `RunOfSelection`: the results on screen are those of the
selected delivery, and the address names a run together with its own delivery.
`ReloadKeepsScreen`: reloading the page leads back to the delivery and view of the address.
`EveryRunEnds`: the overlay that blocks the page is taken away. The first two are stated up
to `crossed`, which is set when the selection changes while the server works on a run or
when rows arrive after a logout: in these two cases the page does come apart (section 6),
and the properties say that there is no other way.

**Prototype.** `PassedOverIsFresh`: a file that is passed over as known is stored in a
version of the second that was listed or of a later one. `GoneForAReason`: who is told that
a job is gone is told so since it is over age, displaced by as many newer jobs as the limit,
or lost in a restart. `DocumentsAccountedFor`, `NoMissedCounterpart`, `LinesUsedOnce`: no
document answers for two rows or drops out, no row is called missing in 1C beside its own
document called missing in the ERP, and no line is spent twice. The last holds for lines whose
codes meet; for others it does not (section 6).

### Bounds

Every bound is a constant of its module, named in a comment.

- *Readings*: up to three ERP rows and two 1C documents. The rules of the preparation look
  at a group and one header; three rows make a group of two beside a stranger, two documents
  make a competing header. The matching adds triples of the rows that compete for one
  code, since a row that loses a document to an earlier one is the interesting case.
  Balances: those of the delivery's contract and a strange one, in two currencies, and none;
  those of a delivery whose contracts have no codes.
- *Cache*: three keys with room for two make an eviction; two threads make a race for one
  key; a clock up to 4 with `TTL = Timeout = 1` and two operations a request lets an answer
  trickle in, be stored late, be used at its limit and expire; the bound of `BoundedlyStale` is
  then 3, and TLC reaches it.
- *Jobs*: three deliveries on two workers make all three places of a pool occupied
  (waiting, executing, finished); one restart; one job because jobs share nothing but the
  dictionary; one client because polls write nothing.
- *Snapshot*: three known documents on two workers, two edits, so that 1C may change before
  the fetch and during it; four contents in which codes are reused.
- *Matrix*: two deliveries of one contract with seven operations between them, an
  aggregate with two parts, two payments in three allocations; four histories, two of which
  change while a request runs; seven requests; pages and exports of two; one user, one
  restart, a clock to 2 with sessions of 1; every setting that `auth.py`
  accepts. Two deliveries suffice for an invoice, a payment or an operation of the one to reach
  into the other.
- *Journal*: two executors, three runs of up to two issues, pages of one run, one crash.
  Pages of one run make every new run shift the offset by a whole page.
- *Comments*: two users, two runs, three saves of which two may be under way at once, a
  clock of two seconds, so that changes fall into the same second and into different ones.
- *Page*: two deliveries, of which the server may show any subset; one stored run and one
  new run, one load of the matrix under way, two visits.
- *Prototype*: scenarios of three sorts. A delivery with up to three acts, two payments or
  two invoices meets up to two documents, three movements or three lines; two
  synchronisations copy a folder of two files that change up to twice, once within a second;
  two clients submit three jobs where one is kept (`MaxItems` 1, `JobTtl` 1, a clock to 2).

Symmetry is used for keys and threads (`lookup_cache`) and for users and texts
(`issue_comments`), which are compared for equality only; these runs check no liveness.

Deadlock is not checked where the system really stops: an algorithm that returned,
a clock or a counter of the model at its bound, a user who does nothing.

### Fairness

- `BatchJobs`: weak fairness of the job thread, of the workers and of the second half of a
  poll. They run in threads of the process and every call they make has a timeout (of the
  1C client and of the database connections). Restarts and requests are not fair.
- `SnapshotFetch`: weak fairness of the fetch as a whole once it was called: a lookup answers
  or times out (an answer that trickles in has an end).
- `WebClient`: weak fairness of the answer to each run: the server answers or the
  request fails. What the user does, the other answers and the loads are not fair.
- The other specifications state no fairness, and no liveness is claimed of them.

## 4. What is proved

Seven proof modules, each of which extends the modules that it is about, and `Sums`, which
they share. Their theorems hold for every value of the constants that meets the assumptions
named below. All theorems have one shape: an inductive invariant, a lemma per action or group
of actions that it is kept, and the property from it.

**`ReconciliationProofs`** (4552 obligations; `ReadingsAssumption`: what is read are
sequences of documents). Five invariants: `MatchInv` strengthens `ReportInv`, and the three
others each strengthen `MatchInv`.

- `ReportInv` gives `EveryDocumentAccountedFor`, `NothingComparedTwice`, `NoMissedPair` and
  `NoMissedLine` for any rows, documents, lines and allocations. `SidesInv` ties the length of
  the report to the place of the loop. `TakenInv`: what an issue compared is in `matched` and
  `used`, with all lines of a document that was taken whole; without it nothing keeps a later
  row from them. `SoughtInv`: what is free now was free when a row searched, hence lacks its
  keys. The searches are lemmas of their own (`HitDecides`, `NoCandidates`, `CandidatesAre`,
  `HeaderHasNoId`), as is that a comparison never answers "not found" (`ComparisonSays`).
- `MatchInv` adds what the documents look like and gives `MatchIsExact` and
  `OnePaymentOneDocument`. `ExactInv` says of each issue "match" that the row has the amount
  of the part that the issue names; it needs that the detail chosen by
  `_project_matching_detail` is one of the details of that very document. `PaymentsInv`: after
  the aggregation the keys of the documents of a side are distinct, and coalescing keeps this.
- `PassedInv` adds `OwnedInv` (a consumed document is named by the issue of a row, unless
  some issue left the choice between documents open; what 1C alone has is no match) and
  `BookInv` (the result is the one of the run).
- `AdjustInv` is about what is added to the balance and gives `AdjustmentCountedOnce`. A row that
  is compared with a part takes one part that no row has (`PartsInv`): a line is then in `used`,
  and a payment is consumed by the one row that is compared with it. A line is marked by its
  identifier, which is why the identifiers must tell the lines of the document apart (section 6,
  R 319). The issues that add something are then mapped to the parts that they name, an
  injection.
- `WeightsInv` is about money. A step of the preparation turns a sequence into another, and
  `Gathers` says how: every document of the new one carries the amount and the lines of a
  group of the old, and the groups share out the old one. `AggregationGathers` and
  `CombinationGathers` show it of the two algorithms, and sums by groups are sums of the whole
  (`Sums`). From this follow the action property `MoneyConserved`, and, with `TakenInv`, the
  last part of `PassedAddsUp`: matched rows and documents pair off one to one, with equal
  amounts.

**`Sums`** (729). What `SumFunction` and `SumFunctionOnSet` are, whatever order the fold takes:
they can be split, added up by groups, carried along a bijection and compared part by part.
Besides: the ranks of the members of a finite set under an order that tells them apart are all
taken (`RanksAreTaken`), what `Append` does, and that a sequence of lists can be laid end to
end, one by one (`FlatteningExists`). The recursive function
behind the fold is shown to exist, by induction over the subsets of a finite set. The
induction theorems of the library take an operator and cannot be used; here the induction is
over a *set* of good subsets (`ByMembers`, `ByNumbers`), from the least number of a set.

**`MatrixRequestProofs`** (3722; `DeploymentAssumption`; `HistoriesAssumption`: the tables of the
ERP are finite and have their primary keys, a delivery has a date or none, and what an operation
was paid and realised are integers, in the smallest unit of a currency; `RequestsAssumption`:
limit and offset are integers). Proves for any histories of the ERP, edited between any two
queries, and any requests: `PaymentShownOnce`, `ActsShown`, `ListedIsFound`, `SameAsAlone`.
`ReadInv` says for each query what was answered: a finite set of rows in any case, and what the
database now holds as long as nobody has worked in it. It is kept since every query asks for what
the earlier ones answered and the keys of the tables make joins unambiguous. A row that is made
has the documents of one read of the page (`RowOf`); that those are the documents of a delivery
read alone is a chain of lemmas, one per query, that each answer for a page restricted to a
delivery is the answer for that delivery.

- `TotalsAgree` rests on `TotalsInv`: the count, the totals and the list in hand are of the
  moment at which the request began, if nobody worked since. `ORDER BY` gives each row a place
  of its own, the number of rows before it (`PlacesAreTaken`), so a page of as many rows as were
  counted has every delivery once (`PageOfEach`). SQL sums over the rows of a join and Python
  over the operations it finds there; they sum the same where no operation is listed twice
  (`SumByOperation`), and each operation of clear kind is in one of the two sums of expenses
  (`TotalsByRows`).
- `PaidColumnAddsUp` is proved where nothing in the tables is paid or allocated below zero
  (`NothingRefunded`, which the tables promise nowhere and the data of the run meets). `PaidInv`:
  then no payment in hand and no row made is below zero. The invoices of a row take disjoint sets
  of operations, what the payment documents bring to an operation is at most what it was paid,
  and so the invoices together show no more than the payments of the delivery
  (`ShownNoMore`); the line for the rest makes up the difference, and has to be above zero.

`ShutOutInTime` for any users, settings, clocks and restarts
rests on `SessionInv`: a session that was signed with the secret of this process expires at
most `Ttl` after its user was shut out, the one that the page holds as well as the one that a
request under way was taken in with (`CarriedSound`); so a step that serves under it comes in
time.

**`OneCProofs`** (1448). *The cache* (`ConfigAssumption`: the limits are natural numbers, and a
request takes an operation): `EntriesTimely` (an entry was read by 1C at most `Longest` before it
was stored) and
`CacheKeepsPromise`: `Spec => BoundedlyStale`, that every step of the cache is a step or a
stutter of `BoundedStaleness`. The invariant adds, for each thread, that it asked before
1C read, is not later than `Timeout` after the last operation of its request, and that this came
after the reading by no more than the operations so far take. A second invariant,
`OrderOK`, says that the cached keys are distinct, at most `MaxEntries`, and in the order of
their last use; it rests on lemmas about `Without`, `MoveToEnd` and `Newest`, and gives `TypeOK`
and the action property `LeavesForAReason`. *The snapshot* (`RowsAssumption`: 1C dates and numbers
its documents; `KnownAssumption`): `NothingLost`, `NothingForeign` and `KnownDocumentsFetched`
for any lists of documents, contents and edits, and any number of workers. `FetchInv` says
that the snapshot is what the first answer showed together with what was selected for each
document merged so far, for *one* content that 1C had since the oldest answer of the cache
(`ReadOf`), and that each lookup has an answer from *some* such content.

**`BatchJobsProofs`** (1255; `ConstantsAssumption`: deliveries are a finite set of integers,
limits are natural numbers). Proves `TypeOK`, `RecordedOnce`, `CompletedIsComplete`
(which no run repeats) and `AnswersUsable`. `RecordedOnce` alone is not inductive: `Begin`
hands every delivery to the pool, so `JobsSound` adds that a job that is neither running nor
completed has an empty pool and empty lists. `PollsSound` relates the partial copy of a poll
to the live lists, which only grow. `InOrder` puts the last answer of a client, its poll
under way and the job itself in one order, in which counters rise and lists are extended;
the action property `AnswersProgress` follows.

**`JournalProofs`** (1704). *The journal* (`JournalAssumption`): `RecordedWhole`,
`AcknowledgedIsDurable` and `PagingSkipsNothing` for any number of executors, readers, runs and
crashes, and that the journal implements `RunLog` (`JournalIsALog`): since each run is whole, its
header fixes what is stored of it (`LogIsWhole`), so that the log changes by commits alone.
`JournalInv` adds what each executor has written in its transaction at each place and that
identifiers are handed out once; `PagingInv` counts: the position of a reader is at most the
number of runs newer than any known run it has not seen. *The comments*: `SavedWasStored` and
`LatestChangeShown` for any users, runs, keys and texts. `CommentsInv`: the rows of a key are
ordered as they were stored, one to a run and key (`TableInv`), a save that is stored is in the
history (`PostsInv`), and pages keep only what was answered, with a row that says "saved" only
beside a kept saved comment (`PagesInv`).

**`WebClientProofs`** (915; `WebClientAssumption`). Proves `SelectionShown`,
`RunOfSelection` and `ReloadKeepsScreen` for any deliveries and orders of answers. `PageInv`
says what every request under way was asked for and what part of the page it may still
change; half of its parts hold only while nothing crossed.

**`PrototypeServerProofs`** (2113; `LimitsAssumption`, `ActorsAssumption`,
`FilesAssumption`: Drive dates versions in their order; `RowsAssumption`: what is read are
sequences, files are numbered by their names). *The server*: `PassedOverIsFresh` and
`GoneForAReason` for any files, synchronisations, clients and jobs. `FilesInv`: what is
stored of a file is no older than what is said of it, also in the middle of a
synchronisation. `JobsInv`: every job that was entered is held or has a reason to be gone.
*The comparison*: `DocumentsAccountedFor`, `NoMissedCounterpart` and `LinesUsedOnce` for any
rows, documents, movements and lines. `SourcesInv` says that a report is what `Compared` makes of
sequences. `Compared` decides one item after another by a recursive function, and the proof
follows it: such a function exists (`DecisionsExist`), and what the first `k` items lead to
has their rows in their order and has taken what they took (`Leads`, by induction over `k`). The
rest is said of one item at a time (`OutcomeIs`): it takes a document that was left, the best of
its key if there is one (`BestDoes`), lines that were left (`LineMatchDoes`), and what it stands
for is marked (`MarkedDoes`). The documents that are left follow, each once (`RestDoes`).

**Only model-checked.** Liveness (`JobsEnd`, `FetchEnds`, `EveryRunEnds`), which the prover does
not reach.

## 5. Disagreements that the runs show

1. `distinct_lines`. Two tests (`tests/test_domain_matching.py:516`, `:560`) say that two
   ERP rows are matched to distinct 1C lines. A line reached through an allocation is
   registered under the basis `document_allocation` (R 320) and the fallback asks only
   for `document_line` (R 795), so a second row gets the same line.
2. `text_beside_saved`. REQ 223 (FR-LOG-06): a local draft does not count as a saved record.
   The text area stays editable during a save, and the answer calls what is there by then
   saved (JS 1689-1697).
3. `comment_after_rerun`. REQ 223: the analysis of an issue is shown after another run as
   well. The key of an issue holds its ordinal in the run (`serializers.py:97`).

## 6. Observed while modelling, without a run

These were seen while the sources were read and are not checked by a run.

*Reconciliation*

- R 354, 447: "not found" is also said when an earlier row consumed the document.
- R 284: a report of duplicates consumes every candidate but names only the first.
- R 319, 323: lines without `line_id` cannot be told apart. A line without it that a row reached
  through its document is not marked as used, so the next row gets it as well; where it is on a
  contract that is not the delivery's, it is added to the balance twice. R 671: a joined row
  keeps the VAT rate of its first row.
- R 827-903: for a delivery without contract codes every balance is added up directly (R 834),
  and every match of a line or an allocation adjusts the sum besides (R 893), also one of a
  contract whose balance was added up, as it happens with an act that has a contract of its own
  (ER 444). `docs/testing/ONEC_REMAINING_BLOCKERS_2026-07-13.md:194` promises an adjustment for
  linked *external* contracts, and only for lines of sales and allocations of payments: a
  document matched as a whole on another contract (`document_header`) is not adjusted for, nor
  an allocation that bears the delivery's contract.
- XL 809-817: a run whose balances were not compared may have passed, and
  `tests/test_mvp_outcome.py:61` has "not_checked" for it. The summary of its workbook knows
  "not comparable" and "match" only and writes that the balances differ, above the label that
  the check was passed.
- "Passed" asks for no row for the *other* lines of a matched 1C document.
- R 61, 140: a run that fails leaves nothing in the journal, while REQ 467 (AC-07) asks for
  it. R 85: each execution draws a new `run_id`, so a retry after a lost commit is stored twice.

*1C*

- RP 200-215 skips the lookup of an ERP document whose code the first answer shows, on
  whatever date; REQ 379 forbids comparing by the code alone.
- RP 407, 418: lines are indexed by document number as well, so a sale and a purchase with
  one number exchange lines, while `contracts/onec/openapi_ru.md:519` gives a line one
  owner, `document_id`.
- CL 159: the timeout of `urlopen` holds for one operation on the socket, and nothing limits
  their number: a server that sends slowly makes a request, and with it the bound of
  `BoundedlyStale`, as long as it likes. The setting that a reader takes for the limit of a
  request is one factor of it.

*ERP, matrix and sessions*

- ER 672: an aggregate hides the standalone acts of its operation and kind too, while REQ
  173 (FR-UI-23) wants every act. ER 594: the queries of one read see several states of the
  ERP, so that a torn read shows an invoice without its operation.
- `invoice_sum` adds up sums of different currencies (REQ 274) and counts placeholders and
  deleted invoices. The paid column takes allocations and not `get_paidsum`.
- An operation that is attached twice doubles the documents of its delivery but not its
  calculation, while the totals of SQL double. An operation of unknown kind is reimbursable
  for Python and, without a code of the buyer, nothing for SQL.
- Q 867: the global search asks for `f_ppdt` where the listing shows `f_dt1C`, and for the
  main act's columns where the listing prefers the part's own.
- ER 487: candidates for an invoice are taken from the whole page, so that an invoice that
  names an operation of another delivery is shown differently alone.
- A negative offset makes `has_more` wrong; `matrix.xlsx` checks the session twice and
  limits its page by a count taken earlier.
- AU 58: a session is looked up nowhere; a deactivated user is served until it runs out. AU 78:
  without a session any token is taken, and the user is whom the request names.
- API 137-186: `do_POST` does not map `ErpDataNotFound` to 404 and answers 503.

*Jobs, comments and page*

- API 548: saving an unchanged comment does not move `updated_at`, because MariaDB leaves
  an unchanged row alone; an older comment stays behind a newer one.
- API 32, 749: `_BATCH_JOBS` is never emptied. API 1531: a `RECON_BATCH_WORKERS` that is no
  number ends the job's thread and leaves the job "running".
- JS 489, 1194, 1226: rows that arrive during a run may change the selection: the result of
  the old delivery is shown under the new one, and the address written then is refused
  by `loadStoredRun`.
- JS 2285: the end of boot hides the overlay, also that of a run started meanwhile.
- `reconciliation.html:148`: the filter on the status has the one option "all".

*Prototype*

- Files that are deleted from Drive stay in the tables; two edits of a file in one second
  with one size are never told apart; of two files with one name the rows are merged.
- A job that is still running may be pruned by the limit; its result is then lost.
- PS 4532: a code has several keys ("12-0034" those of 1234 and of 120034). Lines that share
  different keys with an act make up its sum together, but `mark_document_lines_used` marks
  those that share a key with the first of them; the others are found again by the next act. The
  run has such lines (`LinesOfKeys`), and `LinesUsedOnce` leaves them out (`CodesMeet`).
- Lines are marked as used by their number in the file, across files. The sum of a REST line
  is kept under "amount" while the comparison reads "sum". The main act is entered under the
  date of the act.

## 7. What is not modelled, and why

- *Routing, the reading of bodies, the mapping of every exception to a status*: no state; the
  errors that end a request are actions, their numbers are data.
- *HMAC, password hashes*: the signature of a session is taken to be good exactly under the
  secret that made it.
- *Conversion of 1C rows to entities, rendering, styles of workbooks, metrics, logging*: layout
  and wording.
- *Decimals*: amounts are integers of the smallest unit; the service compares them exactly, the
  prototype within 0.01 (PS 394), for which the model compares exactly too.
- *Chunks of a query*: ER 570-578 asks for the rows of more than 500 operations in several
  queries of one kind, each with its own connection; the model asks once (`Ask`).
- *Several server processes*: the deployment starts one (`deploy/systemd`), a threading server.
- *Prototype*: parsing of workbooks, its pages and exports, and the handlers that no path
  of its `do_GET` and `do_POST` reaches; the repository keeps it as a reference, not for use
  (`README.md:218`). A job of the model compares one delivery. A file without a
  `modifiedTime` counts as unchanged (PS 3454-3456); files of the model have one. A poll
  prunes and looks up in two critical sections (PS 3345-3350), here one step. A limit or a
  time to live of 0 means none (PS 3241-3247) and is left out by `LimitsAssumption`.
- *React prototype and older page, configuration, rule set, ports, tools, contracts, CI*: no
  behaviour of the running service.

## 8. Plan

Done, in this order: the documents, their preparation and matching; `LookupCache` with
`BoundedStaleness`; `BatchJobs`; `SnapshotFetch`; `RunJournal`; `IssueComments`; `WebClient`;
balances and result (`Reconciliation`); the ERP, sessions and the matrix; the prototype; the
proofs of section 4.

Worth doing next:

1. The composition of `BatchJobs` with `RunJournal`: jobs whose deliveries are saved by
   workers that crash together.
