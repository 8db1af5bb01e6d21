-------------------------- MODULE PrototypeServer --------------------------
\* The prototype server at work: synchronisations copy the files of a folder of
\* Google Drive into tables, and background jobs (client_matrix) compare a
\* delivery with what the tables or the REST service of 1C say of it, while
\* clients submit jobs and ask for them. Every request and every job is a
\* thread of its own; the dictionary of the jobs is guarded by a lock that is
\* given up between pruning it and using it.
EXTENDS PrototypeComparison

CONSTANTS
  Scenarios,   \* snap: the delivery in the ERP; answers: what the REST service
               \* may answer; files: the versions of every file in the folder;
               \* source: "rest" or "postgres"; syncs, clients, jobs and clock:
               \* bounds on who is at work, what is submitted and how long
  Syncs,       \* synchronisations that may run at a time
  Clients,     \* clients that submit jobs
  MaxItems,    \* RECON_JOB_MAX_ITEMS
  JobTtl,      \* RECON_JOB_TTL_SECONDS
  MaxRounds    \* bound: runs of each synchronisation

ASSUME LimitsAssumption == MaxItems \in Nat \ {0} /\ JobTtl \in Nat \ {0}

ASSUME ActorsAssumption ==
  \A s \in Scenarios : s.syncs \subseteq Syncs /\ s.clients \subseteq Clients

\* Drive dates the versions of a file in their order.
ASSUME FilesAssumption ==
  \A s \in Scenarios :
    /\ IsFiniteSet(DOMAIN s.files)
    /\ \A f \in DOMAIN s.files :
         /\ Len(s.files[f]) \in Nat \ {0}
         /\ \A v, w \in 1..Len(s.files[f]) :
              /\ s.files[f][v].modified \in Nat
              /\ v <= w => s.files[f][v].modified <= s.files[f][w].modified

\* What the ERP, the REST service and the files have are sequences of rows, and
\* the files are numbered in the order of their names.
ASSUME RowsAssumption ==
  \A s \in Scenarios :
    /\ \A rows \in {s.snap.invoices, s.snap.payments, s.snap.acts} : IsSequence(rows)
    /\ \A a \in s.answers : IsSequence(a.docs) /\ IsSequence(a.lines)
    /\ DOMAIN s.files \subseteq Nat
    /\ \A f \in DOMAIN s.files : \A v \in 1..Len(s.files[f]) :
         IsSequence(s.files[f][v].docs) /\ IsSequence(s.files[f][v].lines)

VARIABLES
  sc,      \* the scenario
  drive,   \* the version of every file in the folder
  tables,  \* what is stored of every file: the metadata under which, which version
  sync,    \* the synchronisations: the files to do, the version downloaded
  clock,   \* time.time()
  jobs,    \* the jobs that threads or clients still hold
  held,    \* those of them that are in RECON_JOBS
  client,  \* where the clients are in submitting a job
  work,    \* the threads of the jobs
  told,    \* what was last said of every job
  report   \* the comparison made last

syncVars == <<drive, tables, sync>>
jobVars == <<clock, jobs, held, client, work, told, report>>
vars == <<sc, syncVars, jobVars>>

Files == DOMAIN sc.files
Version(f, v) == sc.files[f][v]
Nothing == [nothing |-> TRUE]
IdleSync(n) == [pc |-> "idle", rounds |-> n, todo |-> <<>>, got |-> 0]
Idle == [pc |-> "idle", id |-> 0]

Init ==
  /\ sc \in Scenarios
  /\ drive = [f \in Files |-> 1]
  /\ tables = [f \in Files |-> Nothing]
  /\ sync = [p \in Syncs |-> IdleSync(0)]
  /\ clock = 0 /\ jobs = <<>> /\ held = {} /\ work = <<>> /\ told = <<>>
  /\ client = [c \in Clients |-> Idle]
  /\ report = Nothing

-----------------------------------------------------------------------------
(* Synchronisation (sync_onec_drive_to_postgres)                             *)

\* What Drive says of a version of a file: when it was modified, to the second,
\* and its size, which it does not know of a sheet of its own (0).
Listed(f, v) == [file |-> f, version |-> v,
                 modified |-> Version(f, v).modified, size |-> Version(f, v).size]

LineKinds == {"purchase_act_line_details", "purchase_act_service_line_details",
              "purchase_act_detail_unsupported"}

\* current_onec_file_cache: what is stored agrees with what is listed; a file
\* named like one of lines that was not read as such is read again.
Cached(e) ==
  LET row == tables[e.file]
  IN /\ row # Nothing
     /\ e.size = 0 \/ row.size = e.size
     /\ row.modified = e.modified
     /\ Version(e.file, row.version).namedAsLines =>
          Version(e.file, row.version).kind \in LineKinds

\* An empty folder is done as soon as it is listed.
ListDrive(p) ==
  /\ sync[p].pc = "idle" /\ sync[p].rounds < MaxRounds /\ Files # {}
  /\ sync' = [sync EXCEPT ![p] =
       [pc |-> "next", rounds |-> @.rounds + 1, got |-> 0,
        todo |-> SetToSeq({Listed(f, drive[f]) : f \in Files})]]
  /\ UNCHANGED <<sc, drive, tables, jobVars>>

AfterFile(s) ==
  IF Len(s.todo) = 1 THEN IdleSync(s.rounds)
  ELSE [s EXCEPT !.pc = "next", !.todo = Tail(@), !.got = 0]

Look(p) ==
  /\ sync[p].pc = "next"
  /\ sync' = [sync EXCEPT ![p] =
       IF Cached(Head(@.todo)) THEN AfterFile(@) ELSE [@ EXCEPT !.pc = "download"]]
  /\ UNCHANGED <<sc, drive, tables, jobVars>>

\* The file may have changed since it was listed.
Download(p) ==
  /\ sync[p].pc = "download"
  /\ sync' = [sync EXCEPT ![p] = [@ EXCEPT !.pc = "store",
                                           !.got = drive[Head(sync[p].todo).file]]]
  /\ UNCHANGED <<sc, drive, tables, jobVars>>

\* Mutant: a file is stored under what Drive says of it now.
StoredAsOfNow(e, got) ==
  [modified |-> Version(e.file, drive[e.file]).modified,
   size |-> Version(e.file, drive[e.file]).size, version |-> got]

\* The rows of a file, old ones out and new ones in, in one transaction.
Stored(e, got) == [modified |-> e.modified, size |-> e.size, version |-> got]

Store(p) ==
  /\ sync[p].pc = "store"
  /\ LET e == Head(sync[p].todo)
     IN tables' = [tables EXCEPT ![e.file] = Stored(e, sync[p].got)]
  /\ sync' = [sync EXCEPT ![p] = AfterFile(@)]
  /\ UNCHANGED <<sc, drive, jobVars>>

\* A file that cannot be read, or stored, is rolled back and left for later.
FileFails(p) ==
  /\ sync[p].pc \in {"download", "store"}
  /\ sync' = [sync EXCEPT ![p] = AfterFile(@)]
  /\ UNCHANGED <<sc, drive, tables, jobVars>>

\* Somebody uploads the next version of a file.
Upload(f) ==
  /\ drive[f] < Len(sc.files[f])
  /\ drive' = [drive EXCEPT ![f] = @ + 1]
  /\ UNCHANGED <<sc, tables, sync, jobVars>>

-----------------------------------------------------------------------------
(* The dictionary of the jobs                                                *)

Younger == {id \in held : ~ clock - jobs[id].created > JobTtl}

\* Mutant: the newest beyond the limit go.
LeftOldest == {i \in Younger : Cardinality({k \in Younger : k < i}) < MaxItems}

\* prune_recon_jobs: the old ones go, then the oldest beyond the limit, in
\* whatever state they are. (Jobs are numbered as they are created.)
Left == {i \in Younger : Cardinality({k \in Younger : k > i}) < MaxItems}

Ids == DOMAIN told
With(f, id, e) == [k \in DOMAIN f \cup {id} |-> IF k = id THEN e ELSE f[k]]
Others == UNCHANGED <<sc, syncVars>>

\* handle_client_matrix_job and start_recon_job: prune, enter the job and start
\* its thread, answer with what the job says of itself by then - it may have
\* been pruned already - and prune again.
Submit(c) ==
  /\ client[c].pc = "idle" /\ Cardinality(Ids) < sc.jobs
  /\ LET id == Cardinality(Ids) + 1
     IN /\ client' = [client EXCEPT ![c] = [pc |-> "enter", id |-> id]]
        /\ jobs' = With(jobs, id, [status |-> "queued", created |-> clock])
        /\ told' = With(told, id, "none")
  /\ held' = Left
  /\ UNCHANGED <<clock, work, report>> /\ Others

Enter(c) ==
  /\ client[c].pc = "enter"
  /\ held' = held \cup {client[c].id}
  /\ work' = With(work, client[c].id, [pc |-> "begin"])
  /\ client' = [client EXCEPT ![c].pc = "answer"]
  /\ UNCHANGED <<clock, jobs, told, report>> /\ Others

Respond(c) ==
  /\ client[c].pc = "answer"
  /\ told' = [told EXCEPT ![client[c].id] = jobs[client[c].id].status]
  /\ client' = [client EXCEPT ![c] = Idle]
  /\ held' = Left
  /\ UNCHANGED <<clock, jobs, work, report>> /\ Others

\* handle_job_status: the job is looked for after the pruning.
Poll(id) ==
  /\ told[id] # "none"
  /\ held' = Left
  /\ told' = [told EXCEPT ![id] = IF id \in held' THEN jobs[id].status ELSE "gone"]
  /\ UNCHANGED <<clock, jobs, client, work, report>> /\ Others

-----------------------------------------------------------------------------
(* The thread of a job                                                       *)

SetStatus(id, status) ==
  /\ jobs' = IF id \in held THEN [jobs EXCEPT ![id].status = status] ELSE jobs
  /\ UNCHANGED held

Go(id, w) == work' = [work EXCEPT ![id] = w]

Begin(id) ==
  /\ work[id].pc = "begin"
  /\ SetStatus(id, "running")
  /\ Go(id, [pc |-> IF sc.source = "rest" THEN "ask" ELSE "documents"])
  /\ UNCHANGED <<clock, client, told, report>> /\ Others

Ask(id) ==
  /\ work[id].pc = "ask"
  /\ \E a \in sc.answers :
       Go(id, [pc |-> "compare", src |-> NormalizeSnapshot(a, sc.snap)])
  /\ UNCHANGED <<clock, jobs, held, client, told, report>> /\ Others

\* What the tables hold, by file. Every statement sees what is committed then.
StoredFiles ==
  LET order == Ascending({f \in Files : tables[f] # Nothing})
  IN [k \in DOMAIN order |-> Version(order[k], tables[order[k]].version)]

ReadDocuments(id) ==
  /\ work[id].pc = "documents"
  /\ Go(id, [pc |-> "movements", docs |-> AllOf("docs", StoredFiles)])
  /\ UNCHANGED <<clock, jobs, held, client, told, report>> /\ Others

ReadMovements(id) ==
  /\ work[id].pc = "movements"
  /\ Go(id, [pc |-> "lines", docs |-> work[id].docs,
             movements |-> TableMovements(StoredFiles, sc.snap)])
  /\ UNCHANGED <<clock, jobs, held, client, told, report>> /\ Others

\* filter_onec_postgres_base_source_for_snapshot
ReadLines(id) ==
  /\ work[id].pc = "lines"
  /\ Go(id, [pc |-> "compare",
             src |-> [docs |-> DocsFor(work[id].docs, sc.snap),
                      movements |-> work[id].movements,
                      lines |-> TableLines(StoredFiles, sc.snap)]])
  /\ UNCHANGED <<clock, jobs, held, client, told, report>> /\ Others

Compare(id) ==
  /\ work[id].pc = "compare"
  /\ report' = Compared(sc.snap, work[id].src)
  /\ Go(id, [pc |-> "completed"])
  /\ UNCHANGED <<clock, jobs, held, client, told>> /\ Others

\* A source that cannot be read makes a row that says so; the job completes.
SourceFails(id) ==
  /\ work[id].pc \in {"ask", "documents", "movements", "lines"}
  /\ Go(id, [pc |-> "completed"])
  /\ UNCHANGED <<clock, jobs, held, client, told, report>> /\ Others

\* The ERP cannot be read: the job fails.
ErpFails(id) ==
  /\ work[id].pc \in {"ask", "documents", "movements"}
  /\ Go(id, [pc |-> "failed"])
  /\ UNCHANGED <<clock, jobs, held, client, told, report>> /\ Others

Finish(id) ==
  /\ work[id].pc \in {"completed", "failed"}
  /\ SetStatus(id, work[id].pc)
  /\ Go(id, [pc |-> "done"])
  /\ UNCHANGED <<clock, client, told, report>> /\ Others

Tick == clock < sc.clock /\ clock' = clock + 1
        /\ UNCHANGED <<jobs, held, client, work, told, report>> /\ Others

\* The server stops: threads, jobs and transactions that are open are gone.
Restart ==
  /\ DOMAIN work # {}
  /\ jobs' = <<>> /\ held' = {} /\ work' = <<>> /\ client' = [c \in Clients |-> Idle]
  /\ sync' = [p \in Syncs |-> IdleSync(sync[p].rounds)]
  /\ UNCHANGED <<sc, drive, tables, clock, told, report>>

Next ==
  \/ \E p \in sc.syncs : ListDrive(p) \/ Look(p) \/ Download(p) \/ Store(p) \/ FileFails(p)
  \/ \E f \in Files : Upload(f)
  \/ \E c \in sc.clients : Submit(c) \/ Enter(c) \/ Respond(c)
  \/ \E id \in Ids : Poll(id)
  \/ \E id \in DOMAIN work : \/ Begin(id) \/ Ask(id) \/ ReadDocuments(id)
                             \/ ReadMovements(id) \/ ReadLines(id) \/ Compare(id)
                             \/ SourceFails(id) \/ ErpFails(id) \/ Finish(id)
  \/ Tick \/ Restart

Spec == Init /\ [][Next]_vars

-----------------------------------------------------------------------------
(* Properties                                                                *)

\* A file that a synchronisation passes over as known is stored in a version of
\* the second that was listed or of a later one, however synchronisations
\* overlap and whenever the file changes between listing, download and commit.
PassedOverIsFresh ==
  \A p \in Syncs : sync[p].pc = "next" =>
    LET e == Head(sync[p].todo)
    IN Cached(e) => Version(e.file, tables[e.file].version).modified >= e.modified

\* Who is told that a job is gone is told so because it is over age, because as
\* many newer jobs as the limit allows were entered, or because the server was
\* restarted: never because of how requests and threads interleave.
GoneForAReason ==
  \A id \in Ids : told[id] = "gone" =>
    \/ id \notin DOMAIN jobs
    \/ clock - jobs[id].created > JobTtl
    \/ Cardinality({k \in DOMAIN work : k > id}) >= MaxItems

Compares == report # Nothing
Found == {i \in DOMAIN report.rows : report.rows[i].by # "nothing"}
RowsOn(by) == {i \in Found : report.rows[i].by = by}

\* No document is the counterpart of two rows, and none is left out of the
\* report but a contract, or one that goes by the code of an item of its kind
\* and date for which lines or movements were found.
DocumentsAccountedFor ==
  Compares => LET docs == report.src.docs IN
    /\ \A i, j \in RowsOn("document") :
         i # j => report.rows[i].refs \cap report.rows[j].refs = {}
    /\ \A d \in DOMAIN docs :
         \/ \E i \in RowsOn("document") : d \in report.rows[i].refs
         \/ docs[d].kind = "contract"
         \/ \E i \in RowsOn("lines") \cup RowsOn("movements") :
              LET item == report.rows[i].item IN
              /\ docs[d].kind \in OneCKinds(item.kind)
              /\ docs[d].date \in {0, item.date}
              /\ item.code \cap (docs[d].code \cup docs[d].number) # {}

\* No item is reported as missing in 1C beside a document of its key that is
\* reported as missing in the ERP: whatever other items take first.
NoMissedCounterpart ==
  Compares =>
    \A i, j \in DOMAIN report.rows :
      report.rows[i].status = "not_found_in_1c" /\ report.rows[j].status = "not_found_in_erp" =>
        ~ SameKey(report.rows[i].item, report.src.docs[CHOOSE d \in report.rows[j].refs : TRUE])

\* A line stands for one item: no row rests on a line that made up the sum of an
\* earlier one - as long as the codes of the lines of the earlier row meet. (They
\* need not: a code may have several keys, and what shares one of them with the
\* item is marked only if it shares one with the first of the lines.)
CodesMeet(refs) ==
  LET code(l) == report.src.lines[l].code IN \A a, b \in refs : code(a) \cap code(b) # {}

LinesUsedOnce ==
  Compares =>
    \A i, j \in RowsOn("lines") :
      i < j /\ "sum" \notin report.rows[i].mismatch /\ CodesMeet(report.rows[i].refs) =>
        report.rows[i].refs \cap report.rows[j].refs = {}
=============================================================================
