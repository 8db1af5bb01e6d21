---------------------------- MODULE RunJournal ----------------------------
(* The journal of reconciliation runs: request threads and batch workers     *)
(* execute runs and save each in one transaction, the header first and then  *)
(* one item per issue; readers page through the history, each page by a      *)
(* COUNT and a SELECT of their own.  Statements fail, the answer to a commit *)
(* may be lost, and the server may die at any point.                         *)
(*                                                                           *)
(* A connection is in autocommit mode until begin: a statement outside a     *)
(* transaction is committed at once.                                         *)
EXTENDS Integers, FiniteSets, Sequences

CONSTANTS Executor, Reader,
          Delivery,   \* the specifications of the ERP that are reconciled
          MaxRuns,    \* bound of the model on computed runs
          MaxIssues,  \* bound of the model on the issues of a run
          MaxCrashes, \* bound of the model on crashes
          Limit       \* historyLimit, the length of a page

ASSUME JournalAssumption ==
  MaxRuns \in Nat /\ MaxIssues \in Nat /\ MaxCrashes \in Nat /\ Limit \in Nat \ {0}

VARIABLES
  headers,  \* committed rows of veda_reconciliation_runs
  items,    \* committed rows of veda_reconciliation_items
  next_id,  \* AUTO_INCREMENT of veda_reconciliation_runs
  computed, \* the number of runs computed, from which their identifiers come
  crashes,  \* crashes of the server so far
  pc, run,  \* the step each executor is at, and the run it saves
  db_id,    \* run_db_id
  tx,       \* the transaction of its connection
  acknowledged, \* history: the persisted runs whose client got HTTP 200
  page,     \* the page each reader asks for: its step, offset and total count
  known,    \* history: the runs in the journal when the reader began
  seen      \* history: the runs that its pages showed

vars == <<headers, items, next_id, computed, crashes, pc, run, db_id, tx,
          acknowledged, page, known, seen>>
journal == <<headers, items, next_id>>
reading == <<page, known, seen>>

NoRun == [run_id |-> 0, spec_id |-> 0, issues |-> 0, persist |-> FALSE]
Closed == [open |-> FALSE, headers |-> {}, items |-> {}]
NoPage == [at |-> "idle", offset |-> 0, total |-> 0]

Init ==
  /\ headers = {} /\ items = {} /\ next_id = 1
  /\ computed = 0 /\ crashes = 0
  /\ pc = [e \in Executor |-> "idle"]
  /\ run = [e \in Executor |-> NoRun]
  /\ db_id = [e \in Executor |-> 0]
  /\ tx = [e \in Executor |-> Closed]
  /\ acknowledged = {}
  /\ page = [r \in Reader |-> NoPage]
  /\ known = [r \in Reader |-> {}] /\ seen = [r \in Reader |-> {}]

-----------------------------------------------------------------------------
(* Executing and saving a run.                                               *)

GoTo(e, label) == pc' = [pc EXCEPT ![e] = label]

\* The executor is through with the run, whatever its client is told.
Leave(e) ==
  /\ GoTo(e, "idle")
  /\ run' = [run EXCEPT ![e] = NoRun]
  /\ db_id' = [db_id EXCEPT ![e] = 0]
  /\ tx' = [tx EXCEPT ![e] = Closed]

Request(e) ==
  /\ pc[e] = "idle" /\ computed < MaxRuns
  /\ GoTo(e, "reading")
  /\ UNCHANGED <<journal, computed, crashes, run, db_id, tx, acknowledged, reading>>

\* The ERP or 1C fails: the exception passes execute by, and nothing is saved.
SourceFails(e) ==
  /\ pc[e] = "reading" /\ computed < MaxRuns
  /\ computed' = computed + 1
  /\ Leave(e)
  /\ UNCHANGED <<journal, crashes, acknowledged, reading>>

\* The run gets a new uuid; it is saved only when the request says so.
Compute(e) ==
  /\ pc[e] = "reading" /\ computed < MaxRuns
  /\ computed' = computed + 1
  /\ \E d \in Delivery, n \in 0..MaxIssues, persist \in BOOLEAN :
       /\ run' = [run EXCEPT ![e] = [run_id |-> computed', spec_id |-> d,
                                    issues |-> n, persist |-> persist]]
       /\ GoTo(e, IF persist THEN "begin" ELSE "reply")
  /\ UNCHANGED <<journal, crashes, db_id, tx, acknowledged, reading>>

\* Mutant: without begin the connection stays in autocommit mode.
BeginNothing(e) ==
  /\ pc[e] = "begin"
  /\ GoTo(e, "header")
  /\ UNCHANGED <<journal, computed, crashes, run, db_id, tx, acknowledged, reading>>

Begin(e) ==
  /\ pc[e] = "begin"
  /\ tx' = [tx EXCEPT ![e] = [Closed EXCEPT !.open = TRUE]]
  /\ GoTo(e, "header")
  /\ UNCHANGED <<journal, computed, crashes, run, db_id, acknowledged, reading>>

\* External: InnoDB keeps what a transaction writes to itself until its commit.
Write(e, new_headers, new_items) ==
  IF tx[e].open
  THEN /\ tx' = [tx EXCEPT ![e].headers = @ \cup new_headers, ![e].items = @ \cup new_items]
       /\ UNCHANGED <<headers, items>>
  ELSE /\ headers' = headers \cup new_headers
       /\ items' = items \cup new_items
       /\ UNCHANGED tx

\* The identifier counts up also for a transaction that is rolled back later.
InsertHeader(e) ==
  /\ pc[e] = "header"
  /\ db_id' = [db_id EXCEPT ![e] = next_id]
  /\ next_id' = next_id + 1
  /\ Write(e, {[id |-> next_id, run_id |-> run[e].run_id, spec_id |-> run[e].spec_id,
                issues |-> run[e].issues, execution_status |-> "completed"]}, {})
  /\ GoTo(e, "items")
  /\ UNCHANGED <<computed, crashes, run, acknowledged, reading>>

ItemsWritten(e) == {i \in tx[e].items \cup items : i.run_id = db_id[e]}

InsertItem(e) ==
  /\ pc[e] = "items"
  /\ Cardinality(ItemsWritten(e)) < run[e].issues
  /\ Write(e, {}, {[run_id |-> db_id[e], ordinal |-> Cardinality(ItemsWritten(e))]})
  /\ UNCHANGED <<next_id, computed, crashes, pc, run, db_id, acknowledged, reading>>

\* The commit takes effect in the database.
Apply(e) ==
  /\ headers' = headers \cup tx[e].headers
  /\ items' = items \cup tx[e].items

CanCommit(e) == pc[e] = "items" /\ Cardinality(ItemsWritten(e)) = run[e].issues

Commit(e) ==
  /\ CanCommit(e)
  /\ Apply(e)
  /\ tx' = [tx EXCEPT ![e] = Closed]
  /\ GoTo(e, "reply")
  /\ UNCHANGED <<next_id, computed, crashes, run, db_id, acknowledged, page, known, seen>>

\* The commit takes effect, but the connection breaks before its answer: the
\* rollback that follows changes nothing, and the client is told of an error.
CommitAnswerLost(e) ==
  /\ CanCommit(e)
  /\ Apply(e)
  /\ Leave(e)
  /\ UNCHANGED <<next_id, computed, crashes, acknowledged, page, known, seen>>

\* Mutant: a failure to save does not reach the caller.
SaveFailsSilently(e) ==
  /\ pc[e] \in {"begin", "header", "items"}
  /\ tx' = [tx EXCEPT ![e] = Closed]
  /\ GoTo(e, "reply")
  /\ UNCHANGED <<journal, computed, crashes, run, db_id, acknowledged, reading>>

\* Any statement fails, or the commit before it took effect: rollback, raise.
SaveFails(e) ==
  /\ pc[e] \in {"begin", "header", "items"}
  /\ Leave(e)
  /\ UNCHANGED <<journal, computed, crashes, acknowledged, reading>>

\* HTTP 200 goes out; it may not arrive.
Reply(e) ==
  /\ pc[e] = "reply"
  /\ \E arrives \in BOOLEAN :
       acknowledged' = IF arrives /\ run[e].persist
                       THEN acknowledged \cup {run[e].run_id} ELSE acknowledged
  /\ Leave(e)
  /\ UNCHANGED <<journal, computed, crashes, reading>>

\* The server dies: the database rolls back what its connections left open.
Crash ==
  /\ crashes < MaxCrashes
  /\ crashes' = crashes + 1
  /\ pc' = [e \in Executor |-> "idle"]
  /\ run' = [e \in Executor |-> NoRun]
  /\ db_id' = [e \in Executor |-> 0]
  /\ tx' = [e \in Executor |-> Closed]
  /\ UNCHANGED <<journal, computed, acknowledged, reading>>

-----------------------------------------------------------------------------
(* Reading the history.                                                      *)

Ids(rows) == {h.id : h \in rows}

\* The page shows the rows with offset.. offset + Limit - 1 newer rows.
NewerThan(id) == {h \in headers : h.id > id}

\* Mutant: the newest rows come last.
RowsOldestFirst(offset) ==
  {h \in headers : LET older == {g \in headers : g.id < h.id}
                   IN  offset <= Cardinality(older) /\ Cardinality(older) < offset + Limit}

Rows(offset) ==
  {h \in headers : /\ offset <= Cardinality(NewerThan(h.id))
                   /\ Cardinality(NewerThan(h.id)) < offset + Limit}

\* The first page.
Open(r) ==
  /\ page[r].at = "idle"
  /\ page' = [page EXCEPT ![r] = [at |-> "open", offset |-> 0, total |-> 0]]
  /\ known' = [known EXCEPT ![r] = Ids(headers)]
  /\ UNCHANGED <<journal, computed, crashes, pc, run, db_id, tx, acknowledged, seen>>

Count(r) ==
  /\ page[r].at = "open"
  /\ page' = [page EXCEPT ![r].at = "counted", ![r].total = Cardinality(headers)]
  /\ UNCHANGED <<journal, computed, crashes, pc, run, db_id, tx, acknowledged, known, seen>>

HasMore(offset, shown, total) == offset + shown < total

Select(r) ==
  /\ page[r].at = "counted"
  /\ LET rows == Rows(page[r].offset) IN
       /\ seen' = [seen EXCEPT ![r] = @ \cup Ids(rows)]
       /\ page' = [page EXCEPT ![r].at =
                     IF HasMore(page[r].offset, Cardinality(rows), page[r].total)
                     THEN "more" ELSE "last"]
  /\ UNCHANGED <<journal, computed, crashes, pc, run, db_id, tx, acknowledged, known>>

\* historyNextBtn, enabled while there is more.
NextPage(r) ==
  /\ page[r].at = "more"
  /\ page' = [page EXCEPT ![r].at = "open", ![r].offset = @ + Limit]
  /\ UNCHANGED <<journal, computed, crashes, pc, run, db_id, tx, acknowledged, known, seen>>

-----------------------------------------------------------------------------
Save(e) == Begin(e) \/ InsertHeader(e) \/ InsertItem(e) \/ Commit(e)
             \/ CommitAnswerLost(e) \/ SaveFails(e)
Execute(e) == Request(e) \/ SourceFails(e) \/ Compute(e) \/ Save(e) \/ Reply(e)
Read(r) == Open(r) \/ Count(r) \/ Select(r) \/ NextPage(r)

Next == (\E e \in Executor : Execute(e)) \/ Crash \/ (\E r \in Reader : Read(r))

Spec == Init /\ [][Next]_vars

-----------------------------------------------------------------------------
Header == [id : Nat, run_id : Nat, spec_id : Delivery, issues : Nat, execution_status : {"completed"}]
Item == [run_id : Nat, ordinal : Nat]

TypeOK ==
  /\ headers \subseteq Header /\ items \subseteq Item
  /\ next_id \in Nat /\ computed \in Nat /\ crashes \in Nat
  /\ pc \in [Executor -> {"idle", "reading", "begin", "header", "items", "reply"}]
  /\ run \in [Executor -> [run_id : Nat, spec_id : Delivery \cup {0},
                           issues : Nat, persist : BOOLEAN]]
  /\ \A e \in Executor : pc[e] \in {"begin", "header", "items"} => run[e].spec_id \in Delivery
  /\ db_id \in [Executor -> Nat]
  /\ tx \in [Executor -> [open : BOOLEAN, headers : SUBSET Header, items : SUBSET Item]]
  /\ acknowledged \subseteq Nat
  /\ page \in [Reader -> [at : {"idle", "open", "counted", "more", "last"}, offset : Nat, total : Nat]]
  /\ known \in [Reader -> SUBSET Nat] /\ seen \in [Reader -> SUBSET Nat]

\* "The run and its rows are saved in one transaction": whatever fails in the
\* middle, a run in the journal has each of its items and no item is without
\* its run; identifiers and uuids name one run.
RecordedWhole ==
  /\ \A h \in headers :
       {i.ordinal : i \in {i \in items : i.run_id = h.id}} = 0..(h.issues - 1)
  /\ \A i \in items : i.run_id \in Ids(headers)
  /\ \A g, h \in headers : g.id = h.id \/ g.run_id = h.run_id => g = h

\* A client that got its result finds it in the journal from then on, through
\* failures of other runs and crashes.
AcknowledgedIsDurable ==
  acknowledged \subseteq {h.run_id : h \in headers}

\* A row of the table of runs with its rows of the table of items.
StoredRun(h) ==
  [run_id |-> h.run_id, spec_id |-> h.spec_id,
   items |-> {i.ordinal : i \in {j \in items : j.run_id = h.id}}]

Log == INSTANCE RunLog WITH log <- {StoredRun(h) : h \in headers}

\* The two tables are a log of runs: each run appears in one step, whole and
\* under a new uuid, whatever its executor and the others were doing; no later
\* save, failure or crash changes or removes it, and an acknowledgement is
\* always that of a run in the log (save_run, _save_run_if_requested).
SavedAtOnce == Log!Spec

\* A reader who pages on while others save skips no run of the journal it began
\* with: those not yet shown are older than those shown.
PagingSkipsNothing ==
  \A r \in Reader : \A shown \in known[r] \cap seen[r] : \A missing \in known[r] \ seen[r] :
    missing < shown

=============================================================================
