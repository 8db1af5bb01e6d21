----------------------------- MODULE BatchJobs -----------------------------
(* Batch reconciliation: a request registers a job in process memory and     *)
(* starts a background thread; the thread hands the deliveries to a pool,    *)
(* collects their outcomes as they complete and records them in the job;     *)
(* clients poll the job meanwhile.  The lock _BATCH_LOCK covers each single  *)
(* access to the job, but a poll serialises the lists of its shallow copy    *)
(* after it released the lock.  A restart of the server loses every job.     *)
EXTENDS Integers, Sequences, FiniteSets

CONSTANTS Job,        \* identifiers that uuid4 may yield
          Client,     \* pollers
          Spec_ids,   \* what a request may name, of which the positive are deliveries
          MaxBatch,   \* the limit of 50 deliveries
          MaxWorkers, \* the number of worker threads before it is cut to the job's size
          MaxRestarts \* bound of the model on restarts

ASSUME ConstantsAssumption ==
  /\ Spec_ids \subseteq Int /\ IsFiniteSet(Spec_ids)
  /\ MaxBatch \in Nat /\ MaxWorkers \in Nat \ {0} /\ MaxRestarts \in Nat

VARIABLES
  specs,   \* specs[j]: the deliveries of job j, total is their number
  status,  \* status[j]: "new" and "lost" when _BATCH_JOBS has no such job
  done,    \* done[j]: the counter of the job
  runs,    \* runs[j], errors[j]: the recorded outcomes, in order
  errors,
  work,    \* work[j][s]: where delivery s is in the pool of job j
  poll,    \* poll[c]: the poll client c is in, and what it has read of the job
  reply,   \* reply[c]: the last answer to client c
  restarts \* restarts of the server so far

vars == <<specs, status, done, runs, errors, work, poll, reply, restarts>>

Deliveries == {s \in Spec_ids : s > 0}
JobStatus == {"queued", "running", "completed"}
WorkState == {"none", "waiting", "executing", "succeeded", "failed", "collected"}

NoJob == [status |-> "not_found", total |-> 0, done |-> 0,
          runs |-> << >>, errors |-> << >>]
Idle == [at |-> "idle", of |-> {}, job |-> NoJob]

Init ==
  /\ specs = [j \in Job |-> {}]
  /\ status = [j \in Job |-> "new"]
  /\ done = [j \in Job |-> 0]
  /\ runs = [j \in Job |-> << >>] /\ errors = [j \in Job |-> << >>]
  /\ work = [j \in Job |-> [s \in Deliveries |-> "none"]]
  /\ poll = [c \in Client |-> Idle]
  /\ reply = [c \in Client |-> [of |-> {}, job |-> NoJob]]
  /\ restarts = 0

-----------------------------------------------------------------------------
(* The request.                                                              *)

\* Duplicates and numbers that name no delivery are dropped.
Submit(j, named) ==
  /\ status[j] = "new"
  /\ named # {}
  /\ Cardinality(named \cap Deliveries) <= MaxBatch
  /\ specs' = [specs EXCEPT ![j] = named \cap Deliveries]
  /\ status' = [status EXCEPT ![j] = "queued"]
  /\ UNCHANGED <<done, runs, errors, work, poll, reply, restarts>>

-----------------------------------------------------------------------------
(* The job's thread and its pool.                                            *)

Begin(j) ==
  /\ status[j] = "queued"
  /\ status' = [status EXCEPT ![j] = "running"]
  /\ work' = [work EXCEPT ![j] = [s \in Deliveries |->
                IF s \in specs[j] THEN "waiting" ELSE "none"]]
  /\ UNCHANGED <<specs, done, runs, errors, poll, reply, restarts>>

Known(j) == status[j] \in JobStatus
InState(j, state) == {s \in specs[j] : work[j][s] = state}

SetWork(j, s, state) ==
  /\ work' = [work EXCEPT ![j][s] = state]
  /\ UNCHANGED <<specs, poll, reply, restarts>>

Take(j, s) ==
  /\ status[j] = "running"
  /\ s \in InState(j, "waiting")
  /\ Cardinality(InState(j, "executing")) < MaxWorkers
  /\ SetWork(j, s, "executing")
  /\ UNCHANGED <<status, done, runs, errors>>

Execute(j, s) ==
  /\ s \in InState(j, "executing")
  /\ \E outcome \in {"succeeded", "failed"} : SetWork(j, s, outcome)
  /\ UNCHANGED <<status, done, runs, errors>>

\* Mutant: the newest outcome is put first.
CollectRunFirst(j, s) ==
  /\ s \in InState(j, "succeeded")
  /\ runs' = [runs EXCEPT ![j] = <<s>> \o runs[j]]
  /\ done' = [done EXCEPT ![j] = done[j] + 1]
  /\ SetWork(j, s, "collected")
  /\ UNCHANGED <<status, errors>>

\* _append_batch_result for the next completed future.
CollectRun(j, s) ==
  /\ s \in InState(j, "succeeded")
  /\ runs' = [runs EXCEPT ![j] = Append(runs[j], s)]
  /\ done' = [done EXCEPT ![j] = done[j] + 1]
  /\ SetWork(j, s, "collected")
  /\ UNCHANGED <<status, errors>>

\* Mutants: a failed delivery is tried again; its exception ends the thread.
CollectErrorRetried(j, s) ==
  /\ s \in InState(j, "failed")
  /\ errors' = [errors EXCEPT ![j] = Append(errors[j], s)]
  /\ done' = [done EXCEPT ![j] = done[j] + 1]
  /\ SetWork(j, s, "waiting")
  /\ UNCHANGED <<status, runs>>

CollectErrorRaised(j, s) ==
  /\ s \in InState(j, "failed")
  /\ work' = [work EXCEPT ![j] = [d \in Deliveries |-> "none"]]
  /\ UNCHANGED <<specs, status, done, runs, errors, poll, reply, restarts>>

CollectError(j, s) ==
  /\ s \in InState(j, "failed")
  /\ errors' = [errors EXCEPT ![j] = Append(errors[j], s)]
  /\ done' = [done EXCEPT ![j] = done[j] + 1]
  /\ SetWork(j, s, "collected")
  /\ UNCHANGED <<status, runs>>

\* as_completed is exhausted.
Complete(j) ==
  /\ status[j] = "running"
  /\ InState(j, "collected") = specs[j]
  /\ status' = [status EXCEPT ![j] = "completed"]
  /\ UNCHANGED <<specs, done, runs, errors, work, poll, reply, restarts>>

-----------------------------------------------------------------------------
(* A poll: the fields are copied under the lock, the lists are read when the *)
(* answer is serialised, in the order of the dictionary.                     *)

SetPoll(c, value) ==
  /\ poll' = [poll EXCEPT ![c] = value]
  /\ UNCHANGED <<specs, status, done, runs, errors, work, restarts>>

CopyJob(c, j) ==
  /\ poll[c].at = "idle"
  /\ Known(j)
  /\ SetPoll(c, [at |-> "runs", of |-> {j},
                 job |-> [status |-> status[j], total |-> Cardinality(specs[j]),
                          done |-> done[j], runs |-> << >>, errors |-> << >>]])
  /\ UNCHANGED reply

SerialiseRuns(c, j) ==
  /\ poll[c].at = "runs" /\ poll[c].of = {j}
  /\ SetPoll(c, [at |-> "errors", of |-> {j},
                 job |-> [poll[c].job EXCEPT !.runs = runs[j]]])
  /\ UNCHANGED reply

\* Mutant: the counters are read after the lists.
SerialiseErrorsLate(c, j) ==
  /\ poll[c].at = "errors" /\ poll[c].of = {j}
  /\ SetPoll(c, Idle)
  /\ reply' = [reply EXCEPT ![c] =
                 [of |-> {j}, job |-> [poll[c].job EXCEPT !.errors = errors[j],
                                         !.status = status[j], !.done = done[j]]]]

SerialiseErrors(c, j) ==
  /\ poll[c].at = "errors" /\ poll[c].of = {j}
  /\ SetPoll(c, Idle)
  /\ reply' = [reply EXCEPT ![c] =
                 [of |-> {j}, job |-> [poll[c].job EXCEPT !.errors = errors[j]]]]

\* The answer 404 for a job that the process does not know any more.
AnswerNotFound(c, j) ==
  /\ poll[c].at = "idle"
  /\ status[j] = "lost"
  /\ SetPoll(c, Idle)
  /\ reply' = [reply EXCEPT ![c] = [of |-> {j}, job |-> NoJob]]

-----------------------------------------------------------------------------
\* The process ends: jobs, pools and answers under way are gone.
Restart ==
  /\ restarts < MaxRestarts
  /\ restarts' = restarts + 1
  /\ status' = [j \in Job |-> IF status[j] = "new" THEN "new" ELSE "lost"]
  /\ done' = [j \in Job |-> 0]
  /\ runs' = [j \in Job |-> << >>] /\ errors' = [j \in Job |-> << >>]
  /\ work' = [j \in Job |-> [s \in Deliveries |-> "none"]]
  /\ poll' = [c \in Client |-> Idle]
  /\ UNCHANGED <<specs, reply>>

JobStep(j) ==
  \/ Begin(j) \/ Complete(j)
  \/ \E s \in Deliveries : CollectRun(j, s) \/ CollectError(j, s)

WorkerStep(j, s) == Take(j, s) \/ Execute(j, s)

PollStep(c, j) == SerialiseRuns(c, j) \/ SerialiseErrors(c, j)

Next ==
  \/ \E j \in Job :
       \/ \E named \in SUBSET Spec_ids : Submit(j, named)
       \/ JobStep(j)
       \/ \E s \in Deliveries : WorkerStep(j, s)
       \/ \E c \in Client : CopyJob(c, j) \/ PollStep(c, j) \/ AnswerNotFound(c, j)
  \/ Restart

\* Threads that can run do run, and a reconciliation ends or fails: every call
\* it makes has a timeout.
Fairness ==
  /\ \A j \in Job : /\ WF_vars(JobStep(j))
                    /\ \A s \in Deliveries : WF_vars(WorkerStep(j, s))
  /\ \A c \in Client, j \in Job : WF_vars(PollStep(c, j))

Spec == Init /\ [][Next]_vars /\ Fairness

-----------------------------------------------------------------------------
JobView == [status : JobStatus \cup {"not_found"}, total : Nat, done : Nat,
            runs : Seq(Deliveries), errors : Seq(Deliveries)]

TypeOK ==
  /\ specs \in [Job -> SUBSET Deliveries]
  /\ status \in [Job -> JobStatus \cup {"new", "lost"}]
  /\ done \in [Job -> Nat]
  /\ runs \in [Job -> Seq(Deliveries)] /\ errors \in [Job -> Seq(Deliveries)]
  /\ work \in [Job -> [Deliveries -> WorkState]]
  /\ poll \in [Client -> [at : {"idle", "runs", "errors"}, of : SUBSET Job, job : JobView]]
  /\ reply \in [Client -> [of : SUBSET Job, job : JobView]]
  /\ restarts \in 0..MaxRestarts

Recorded(s) == {s[i] : i \in DOMAIN s}

\* Whatever the pool's interleaving, a delivery is recorded once, on one side
\* only and only after its future completed, and the counter says how many are
\* recorded (_append_batch_result).
RecordedOnce ==
  \A j \in Job :
    /\ Recorded(runs[j]) \cap Recorded(errors[j]) = {}
    /\ Recorded(runs[j]) \cup Recorded(errors[j]) = InState(j, "collected")
    /\ Cardinality(InState(j, "collected")) = Len(runs[j]) + Len(errors[j])
    /\ done[j] = Len(runs[j]) + Len(errors[j])

\* A job that says "completed" has an outcome for every delivery: a failing
\* reconciliation costs its own delivery only.
CompletedIsComplete ==
  \A j \in Job : status[j] = "completed" =>
    Recorded(runs[j]) \cup Recorded(errors[j]) = specs[j]

\* An answer may be torn, because its lists are read after its counter, but
\* only towards newer lists: it never counts an outcome that it does not show,
\* and an answer that says "completed" shows every outcome.
AnswersUsable ==
  \A c \in Client, j \in Job :
    LET job == reply[c].job IN
    reply[c].of = {j} /\ job.status # "not_found" =>
      /\ job.done <= Len(job.runs) + Len(job.errors)
      /\ Len(job.runs) + Len(job.errors) <= job.total
      /\ job.status = "completed" =>
           /\ job.done = job.total
           /\ Recorded(job.runs) \cup Recorded(job.errors) = specs[j]

Progress(job) ==
  CASE job.status = "queued" -> 0 [] job.status = "running" -> 1
    [] job.status = "completed" -> 2

\* The next answer about the same job extends the last one, or the job is gone.
Progressed(c) ==
  LET old == reply[c].job
      new == reply'[c].job
  IN  reply'[c].of = reply[c].of /\ reply[c].of # {} =>
        \/ new.status = "not_found" /\ restarts > 0
        \/ /\ old.status # "not_found" /\ new.status # "not_found"
           /\ Progress(old) <= Progress(new)
           /\ old.done <= new.done
           /\ SubSeq(new.runs, 1, Len(old.runs)) = old.runs
           /\ SubSeq(new.errors, 1, Len(old.errors)) = old.errors

\* A client that polls again sees no step backwards, until a restart makes the
\* job unknown for good.
AnswersProgress == [][\A c \in Client : Progressed(c)]_reply

\* An accepted job is completed unless the process that holds it ends.
JobsEnd ==
  \A j \in Job : status[j] = "queued" ~> status[j] \in {"completed", "lost"}
=============================================================================
