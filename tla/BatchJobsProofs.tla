-------------------------- MODULE BatchJobsProofs --------------------------
(* The batch job records every delivery once and its answers only grow,      *)
(* whatever its size, the size of its pool, the number of jobs and clients.  *)
EXTENDS BatchJobs, FiniteSetTheorems, SequenceTheorems, TLAPS

USE DEF Deliveries

-----------------------------------------------------------------------------
(* Type correctness.                                                         *)

LEMMA FiniteDeliveries ==
  ASSUME NEW S \in SUBSET Deliveries
  PROVE  IsFiniteSet(S) /\ Cardinality(S) \in Nat
BY ConstantsAssumption, FS_Subset, FS_CardinalityType

LEMMA ReadLists ==
  ASSUME NEW job \in JobView, NEW list \in Seq(Deliveries)
  PROVE  /\ [job EXCEPT !.runs = list] \in JobView
         /\ [job EXCEPT !.errors = list] \in JobView
BY DEF JobView

LEMMA TypeInit == Init => TypeOK
BY ConstantsAssumption
DEF Init, TypeOK, NoJob, Idle, JobView, JobStatus, WorkState

LEMMA TypeStep == TypeOK /\ [Next]_vars => TypeOK'
<1> SUFFICES ASSUME TypeOK, [Next]_vars PROVE TypeOK'
  OBVIOUS
<1> USE ConstantsAssumption
<1>1. CASE UNCHANGED vars
  BY <1>1 DEF TypeOK, vars
<1>2. ASSUME NEW j \in Job, NEW named \in SUBSET Spec_ids, Submit(j, named)
      PROVE  TypeOK'
  BY <1>2 DEF TypeOK, Submit, JobStatus
<1>3. ASSUME NEW j \in Job, Begin(j)
      PROVE  TypeOK'
  BY <1>3 DEF TypeOK, Begin, JobStatus, WorkState
<1>4. ASSUME NEW j \in Job, Complete(j)
      PROVE  TypeOK'
  BY <1>4 DEF TypeOK, Complete, JobStatus
<1>5. ASSUME NEW j \in Job, NEW s \in Deliveries, CollectRun(j, s)
      PROVE  TypeOK'
  <2>1. runs' \in [Job -> Seq(Deliveries)] /\ done' \in [Job -> Nat]
    BY <1>5 DEF TypeOK, CollectRun
  <2>2. work' \in [Job -> [Deliveries -> WorkState]]
    BY <1>5 DEF TypeOK, CollectRun, SetWork, WorkState
  <2> QED  BY <1>5, <2>1, <2>2 DEF TypeOK, CollectRun, SetWork
<1>6. ASSUME NEW j \in Job, NEW s \in Deliveries, CollectError(j, s)
      PROVE  TypeOK'
  <2>1. errors' \in [Job -> Seq(Deliveries)] /\ done' \in [Job -> Nat]
    BY <1>6 DEF TypeOK, CollectError
  <2>2. work' \in [Job -> [Deliveries -> WorkState]]
    BY <1>6 DEF TypeOK, CollectError, SetWork, WorkState
  <2> QED  BY <1>6, <2>1, <2>2 DEF TypeOK, CollectError, SetWork
<1>7. ASSUME NEW j \in Job, NEW s \in Deliveries, WorkerStep(j, s)
      PROVE  TypeOK'
  <2>1. PICK state \in WorkState : work' = [work EXCEPT ![j][s] = state]
    BY <1>7 DEF WorkerStep, Take, Execute, SetWork, WorkState
  <2>2. work' \in [Job -> [Deliveries -> WorkState]]
    BY <2>1 DEF TypeOK
  <2> QED  BY <1>7, <2>2 DEF TypeOK, WorkerStep, Take, Execute, SetWork
<1>8. ASSUME NEW c \in Client, NEW j \in Job, CopyJob(c, j)
      PROVE  TypeOK'
  <2>1. Cardinality(specs[j]) \in Nat
    BY FiniteDeliveries DEF TypeOK
  <2>2. poll'[c] \in [at : {"idle", "runs", "errors"}, of : SUBSET Job, job : JobView]
    BY <1>8, <2>1 DEF TypeOK, CopyJob, SetPoll, Known, JobView, JobStatus
  <2> QED  BY <1>8, <2>2 DEF TypeOK, CopyJob, SetPoll
<1>9. ASSUME NEW c \in Client, NEW j \in Job, SerialiseRuns(c, j)
      PROVE  TypeOK'
  <2>1. poll'[c] \in [at : {"idle", "runs", "errors"}, of : SUBSET Job, job : JobView]
    <3>1. [poll[c].job EXCEPT !.runs = runs[j]] \in JobView
      BY ReadLists DEF TypeOK
    <3> QED  BY <1>9, <3>1 DEF TypeOK, SerialiseRuns, SetPoll
  <2> QED  BY <1>9, <2>1 DEF TypeOK, SerialiseRuns, SetPoll
<1>10. ASSUME NEW c \in Client, NEW j \in Job, SerialiseErrors(c, j)
       PROVE  TypeOK'
  <2>1. /\ poll'[c] \in [at : {"idle", "runs", "errors"}, of : SUBSET Job, job : JobView]
        /\ reply'[c] \in [of : SUBSET Job, job : JobView]
    <3>1. [poll[c].job EXCEPT !.errors = errors[j]] \in JobView
      BY ReadLists DEF TypeOK
    <3>2. Idle \in [at : {"idle", "runs", "errors"}, of : SUBSET Job, job : JobView]
      BY DEF Idle, NoJob, JobView, JobStatus
    <3> QED  BY <1>10, <3>1, <3>2 DEF TypeOK, SerialiseErrors, SetPoll
  <2> QED  BY <1>10, <2>1 DEF TypeOK, SerialiseErrors, SetPoll
<1>11. ASSUME NEW c \in Client, NEW j \in Job, AnswerNotFound(c, j)
       PROVE  TypeOK'
  <2>1. /\ poll'[c] \in [at : {"idle", "runs", "errors"}, of : SUBSET Job, job : JobView]
        /\ reply'[c] \in [of : SUBSET Job, job : JobView]
    BY <1>11 DEF TypeOK, AnswerNotFound, SetPoll, JobView, JobStatus, Idle, NoJob
  <2> QED  BY <1>11, <2>1 DEF TypeOK, AnswerNotFound, SetPoll
<1>12. ASSUME Restart
       PROVE  TypeOK'
  <2>1. Idle \in [at : {"idle", "runs", "errors"}, of : SUBSET Job, job : JobView]
    BY DEF Idle, NoJob, JobView, JobStatus
  <2>2. poll' \in [Client -> [at : {"idle", "runs", "errors"}, of : SUBSET Job, job : JobView]]
    BY <1>12, <2>1 DEF Restart
  <2>3. /\ status' \in [Job -> JobStatus \cup {"new", "lost"}]
        /\ done' \in [Job -> Nat] /\ restarts' \in 0..MaxRestarts
    BY <1>12 DEF Restart, TypeOK
  <2>4. /\ runs' \in [Job -> Seq(Deliveries)] /\ errors' \in [Job -> Seq(Deliveries)]
        /\ work' \in [Job -> [Deliveries -> WorkState]]
    BY <1>12 DEF Restart, WorkState
  <2> QED  BY <1>12, <2>2, <2>3, <2>4 DEF Restart, TypeOK
<1> QED
  BY <1>1, <1>2, <1>3, <1>4, <1>5, <1>6, <1>7, <1>8, <1>9, <1>10, <1>11, <1>12
  DEF Next, JobStep, PollStep

\* Every variable of the batch keeps its type (the module's dictionaries).
THEOREM TypeCorrect == Spec => []TypeOK
BY TypeInit, TypeStep, PTL DEF Spec

-----------------------------------------------------------------------------
(* The record of a job.  RecordedOnce is not inductive by itself: it needs   *)
(* to know that a job that is not running has an empty pool and empty lists, *)
(* which is what makes the states of Begin and of Restart good ones.         *)

Untouched(j) ==
  /\ work[j] = [s \in Deliveries |-> "none"]
  /\ runs[j] = << >> /\ errors[j] = << >> /\ done[j] = 0

JobSound(j) ==
  /\ status[j] \notin {"running", "completed"} => Untouched(j)
  /\ Recorded(runs[j]) \cap Recorded(errors[j]) = {}
  /\ Recorded(runs[j]) \cup Recorded(errors[j]) = InState(j, "collected")
  /\ Cardinality(InState(j, "collected")) = Len(runs[j]) + Len(errors[j])
  /\ done[j] = Len(runs[j]) + Len(errors[j])
  /\ status[j] = "completed" => Recorded(runs[j]) \cup Recorded(errors[j]) = specs[j]

JobsSound == \A j \in Job : JobSound(j)

LEMMA Appended ==
  ASSUME NEW list \in Seq(Deliveries), NEW s \in Deliveries
  PROVE  /\ Recorded(Append(list, s)) = Recorded(list) \cup {s}
         /\ Len(Append(list, s)) = Len(list) + 1
<1>1. /\ Len(Append(list, s)) = Len(list) + 1
      /\ DOMAIN Append(list, s) = DOMAIN list \cup {Len(list) + 1}
      /\ \A i \in DOMAIN list : Append(list, s)[i] = list[i]
      /\ Append(list, s)[Len(list) + 1] = s
  OBVIOUS
<1> QED  BY <1>1 DEF Recorded

UntouchedIsSound ==
  \A j \in Job : TypeOK /\ Untouched(j) /\ status[j] # "completed" => JobSound(j)

LEMMA UntouchedSound == UntouchedIsSound
<1> SUFFICES ASSUME NEW j \in Job, TypeOK, Untouched(j), status[j] # "completed"
             PROVE  JobSound(j)
  BY DEF UntouchedIsSound
<1>1. Recorded(<< >>) = {} /\ Len(<< >>) = 0
  BY DEF Recorded
<1>2. InState(j, "collected") = {}
  BY DEF InState, Untouched, TypeOK
<1>3. Cardinality(InState(j, "collected")) = 0
  BY <1>2, FS_EmptySet
<1> QED  BY <1>1, <1>2, <1>3 DEF JobSound, Untouched

\* A step that leaves a job alone keeps its record.
LEMMA JobFrame ==
  ASSUME NEW j \in Job, JobSound(j),
         specs'[j] = specs[j], status'[j] = status[j], done'[j] = done[j],
         runs'[j] = runs[j], errors'[j] = errors[j], work'[j] = work[j]
  PROVE  JobSound(j)'
<1>1. InState(j, "collected")' = InState(j, "collected")
  BY DEF InState
<1> QED  BY <1>1 DEF JobSound, Untouched

\* Recording the outcome of a delivery on either side of the job.
LEMMA CollectSound ==
  ASSUME TypeOK, TypeOK', JobsSound, NEW j \in Job, NEW s \in Deliveries,
         CollectRun(j, s) \/ CollectError(j, s)
  PROVE  JobSound(j)'
<1> DEFINE Old == InState(j, "collected")
<1>1. /\ s \in specs[j] /\ s \notin Old
      /\ Old \in SUBSET Deliveries
  BY DEF CollectRun, CollectError, InState, TypeOK
<1>2. InState(j, "collected")' = Old \cup {s}
  <2>1. work'[j] = [work[j] EXCEPT ![s] = "collected"] /\ specs'[j] = specs[j]
    BY DEF CollectRun, CollectError, SetWork, TypeOK
  <2>2. work[j] \in [Deliveries -> WorkState] /\ specs[j] \subseteq Deliveries
    BY DEF TypeOK
  <2> QED  BY <2>1, <2>2, <1>1 DEF InState
<1>3. Cardinality(InState(j, "collected")') = Cardinality(Old) + 1
  BY <1>1, <1>2, FiniteDeliveries, FS_AddElement
<1>4. JobSound(j) /\ runs[j] \in Seq(Deliveries) /\ errors[j] \in Seq(Deliveries)
  BY DEF JobsSound, TypeOK
<1>5. /\ Recorded(runs[j]) \cap Recorded(errors[j]) = {}
      /\ Recorded(runs[j]) \cup Recorded(errors[j]) = Old
  BY <1>4 DEF JobSound
<1>6. status'[j] = status[j] /\ status[j] = "running"
  <2>1. status[j] # "completed"
    BY <1>1, <1>4 DEF JobSound
  <2>2. ~Untouched(j)
    BY <1>1 DEF Untouched, CollectRun, CollectError, InState
  <2> QED  BY <1>4, <2>1, <2>2 DEF JobSound, CollectRun, CollectError
<1>7. PICK r, e \in Nat :
        r = Len(runs[j]) /\ e = Len(errors[j]) /\ Cardinality(Old) = r + e /\ done[j] = r + e
  <2>1. Len(runs[j]) \in Nat /\ Len(errors[j]) \in Nat
    BY <1>4
  <2>2. Cardinality(Old) = Len(runs[j]) + Len(errors[j]) /\ done[j] = Len(runs[j]) + Len(errors[j])
    BY <1>4 DEF JobSound
  <2> QED  BY <2>1, <2>2
<1>8. CASE CollectRun(j, s)
  <2>1. runs'[j] = Append(runs[j], s) /\ errors'[j] = errors[j] /\ done'[j] = done[j] + 1
    BY <1>8 DEF CollectRun, TypeOK
  <2>2. /\ Len(runs'[j]) = r + 1 /\ Len(errors'[j]) = e
        /\ done'[j] = r + e + 1 /\ Cardinality(Old) + 1 = r + e + 1
    <3>1. Len(runs'[j]) = Len(runs[j]) + 1 /\ Len(errors'[j]) = Len(errors[j])
      BY <2>1, <1>4, Appended
    <3> QED  BY <1>7, <2>1, <3>1
  <2>3. /\ Recorded(runs'[j]) \cap Recorded(errors'[j]) = {}
        /\ Recorded(runs'[j]) \cup Recorded(errors'[j]) = Old \cup {s}
    BY <1>1, <1>4, <1>5, <2>1, Appended
  <2>4. Cardinality(Old) + 1 = Len(runs'[j]) + Len(errors'[j])
    BY <2>2
  <2>5. done'[j] = Len(runs'[j]) + Len(errors'[j])
    BY <2>2
  <2> QED  BY <1>2, <1>3, <1>6, <2>3, <2>4, <2>5 DEF JobSound
<1>9. CASE CollectError(j, s)
  <2>1. errors'[j] = Append(errors[j], s) /\ runs'[j] = runs[j] /\ done'[j] = done[j] + 1
    BY <1>9 DEF CollectError, TypeOK
  <2>2. /\ Len(errors'[j]) = e + 1 /\ Len(runs'[j]) = r
        /\ done'[j] = r + e + 1 /\ Cardinality(Old) + 1 = r + e + 1
    <3>1. Len(errors'[j]) = Len(errors[j]) + 1 /\ Len(runs'[j]) = Len(runs[j])
      BY <2>1, <1>4, Appended
    <3> QED  BY <1>7, <2>1, <3>1
  <2>3. /\ Recorded(runs'[j]) \cap Recorded(errors'[j]) = {}
        /\ Recorded(runs'[j]) \cup Recorded(errors'[j]) = Old \cup {s}
    BY <1>1, <1>4, <1>5, <2>1, Appended
  <2>4. Cardinality(Old) + 1 = Len(runs'[j]) + Len(errors'[j])
    BY <2>2
  <2>5. done'[j] = Len(runs'[j]) + Len(errors'[j])
    BY <2>2
  <2> QED  BY <1>2, <1>3, <1>6, <2>3, <2>4, <2>5 DEF JobSound
<1> QED  BY <1>8, <1>9

LEMMA JobsInit == Init => JobsSound
<1> SUFFICES ASSUME Init, NEW j \in Job PROVE JobSound(j)
  BY DEF JobsSound
<1>1. Untouched(j) /\ status[j] # "completed"
  BY DEF Init, Untouched
<1> QED  BY <1>1, TypeInit, UntouchedSound DEF UntouchedIsSound

\* A step that moves no delivery to or from "collected" and no outcome.
LEMMA MoveFrame ==
  ASSUME NEW j \in Job, JobSound(j),
         status[j] \in {"running", "completed"}, status'[j] = status[j],
         specs'[j] = specs[j], done'[j] = done[j],
         runs'[j] = runs[j], errors'[j] = errors[j],
         InState(j, "collected")' = InState(j, "collected")
  PROVE  JobSound(j)'
BY DEF JobSound

LEMMA JobsStep == TypeOK /\ TypeOK' /\ JobsSound /\ [Next]_vars => JobsSound'
<1> SUFFICES ASSUME TypeOK, TypeOK', JobsSound, [Next]_vars, NEW i \in Job
             PROVE  JobSound(i)'
  BY DEF JobsSound
<1>1. JobSound(i)
  BY DEF JobsSound
<1>2. Untouched(i)' /\ status'[i] # "completed" => JobSound(i)'
  <2>1. UntouchedIsSound'
    BY UntouchedSound, PTL
  <2> QED  BY <2>1 DEF UntouchedIsSound
<1>3. CASE UNCHANGED vars
  BY <1>1, <1>3, JobFrame DEF vars
<1>4. ASSUME NEW j \in Job, NEW named \in SUBSET Spec_ids, Submit(j, named)
      PROVE  JobSound(i)'
  <2>1. CASE i # j
    BY <1>1, <1>4, <2>1, JobFrame DEF Submit, TypeOK
  <2>2. CASE i = j
    BY <1>1, <1>2, <1>4, <2>2 DEF Submit, TypeOK, Untouched, JobSound
  <2> QED  BY <2>1, <2>2
<1>5. ASSUME NEW j \in Job, Begin(j)
      PROVE  JobSound(i)'
  <2>1. CASE i # j
    BY <1>1, <1>5, <2>1, JobFrame DEF Begin, TypeOK
  <2>2. CASE i = j
    <3>1. Untouched(i)
      BY <1>1, <1>5, <2>2 DEF Begin, JobSound
    <3>2. InState(i, "collected") = {} /\ InState(i, "collected")' = {}
      BY <1>5, <2>2, <3>1 DEF Begin, InState, Untouched, TypeOK
    <3>3. status'[i] = "running"
      BY <1>5, <2>2 DEF Begin, TypeOK
    <3> QED  BY <1>1, <1>5, <3>2, <3>3 DEF Begin, JobSound
  <2> QED  BY <2>1, <2>2
<1>6. ASSUME NEW j \in Job, Complete(j)
      PROVE  JobSound(i)'
  <2>1. CASE i # j
    BY <1>1, <1>6, <2>1, JobFrame DEF Complete, TypeOK
  <2>2. CASE i = j
    <3>1. InState(i, "collected")' = InState(i, "collected")
      BY <1>6 DEF Complete, InState
    <3>2. Recorded(runs[i]) \cup Recorded(errors[i]) = specs[i]
      BY <1>1, <1>6, <2>2 DEF Complete, JobSound
    <3>3. status'[i] = "completed"
      BY <1>6, <2>2 DEF Complete, TypeOK
    <3> QED  BY <1>1, <1>6, <3>1, <3>2, <3>3 DEF Complete, JobSound
  <2> QED  BY <2>1, <2>2
<1>7. ASSUME NEW j \in Job, NEW s \in Deliveries, CollectRun(j, s) \/ CollectError(j, s)
      PROVE  JobSound(i)'
  <2>1. CASE i # j
    BY <1>1, <1>7, <2>1, JobFrame DEF CollectRun, CollectError, SetWork, TypeOK
  <2>2. CASE i = j
    BY <1>7, <2>2, CollectSound
  <2> QED  BY <2>1, <2>2
<1>8. ASSUME NEW j \in Job, NEW s \in Deliveries, WorkerStep(j, s)
      PROVE  JobSound(i)'
  <2>1. PICK state \in {"executing", "succeeded", "failed"} :
          work' = [work EXCEPT ![j][s] = state]
    BY <1>8 DEF WorkerStep, Take, Execute, SetWork
  <2>2. /\ specs' = specs /\ status' = status /\ done' = done
        /\ runs' = runs /\ errors' = errors
    BY <1>8 DEF WorkerStep, Take, Execute, SetWork
  <2>3. s \in specs[j] /\ work[j][s] \in {"waiting", "executing"}
    BY <1>8 DEF WorkerStep, Take, Execute, InState
  <2>4. CASE i # j
    BY <1>1, <2>1, <2>2, <2>4, JobFrame DEF TypeOK
  <2>5. CASE i = j
    <3>1. InState(i, "collected")' = InState(i, "collected")
      BY <2>1, <2>2, <2>3, <2>5 DEF InState, TypeOK
    <3>2. status[i] \in {"running", "completed"}
      BY <1>1, <2>3, <2>5 DEF JobSound, Untouched
    <3> QED  BY <1>1, <2>2, <3>1, <3>2, MoveFrame
  <2> QED  BY <2>4, <2>5
<1>9. ASSUME NEW c \in Client, NEW j \in Job,
             CopyJob(c, j) \/ PollStep(c, j) \/ AnswerNotFound(c, j)
      PROVE  JobSound(i)'
  BY <1>1, <1>9, JobFrame
  DEF CopyJob, PollStep, SerialiseRuns, SerialiseErrors, AnswerNotFound, SetPoll
<1>10. ASSUME Restart
       PROVE  JobSound(i)'
  BY <1>2, <1>10 DEF Restart, Untouched
<1> QED
  BY <1>3, <1>4, <1>5, <1>6, <1>7, <1>8, <1>9, <1>10 DEF Next, JobStep

LEMMA JobsAlwaysSound == Spec => []JobsSound
BY TypeCorrect, JobsInit, JobsStep, PTL DEF Spec

\* Every delivery is recorded once, and the counter counts the records.
THEOREM EveryOutcomeRecordedOnce == Spec => []RecordedOnce
<1>1. JobsSound => RecordedOnce
  BY DEF JobsSound, JobSound, RecordedOnce
<1> QED  BY <1>1, JobsAlwaysSound, PTL

\* A job that says "completed" has an outcome for each of its deliveries.
THEOREM CompletedJobsAreComplete == Spec => []CompletedIsComplete
<1>1. JobsSound => CompletedIsComplete
  BY DEF JobsSound, JobSound, CompletedIsComplete
<1> QED  BY <1>1, JobsAlwaysSound, PTL

-----------------------------------------------------------------------------
(* The answers.  A poll reads a job in three moments; the invariant says     *)
(* what it holds after each, given that the lists of a job only grow and     *)
(* that those of a completed job do not change any more.                     *)

Grows(j) ==
  /\ status'[j] \in JobStatus
  /\ specs'[j] = specs[j]
  /\ Len(runs[j]) <= Len(runs'[j])
  /\ Len(errors[j]) <= Len(errors'[j])
  /\ status[j] = "completed" =>
       status'[j] = "completed" /\ runs'[j] = runs[j] /\ errors'[j] = errors[j]

LEMMA AppendGrows ==
  ASSUME NEW list \in Seq(Deliveries), NEW s \in Deliveries
  PROVE  Len(list) <= Len(list) /\ Len(list) <= Len(Append(list, s))
OBVIOUS

\* No delivery of a completed job is left to collect.
LEMMA CompletedIsFrozen ==
  ASSUME TypeOK, JobsSound, NEW j \in Job, NEW s \in Deliveries,
         CollectRun(j, s) \/ CollectError(j, s)
  PROVE  status[j] # "completed"
BY DEF JobsSound, JobSound, CollectRun, CollectError, InState

LEMMA Growth ==
  ASSUME TypeOK, TypeOK', JobsSound, [Next]_vars, ~Restart,
         NEW i \in Job, status[i] \in JobStatus
  PROVE  Grows(i)
<1>1. /\ runs[i] \in Seq(Deliveries) /\ errors[i] \in Seq(Deliveries)
  BY DEF TypeOK
<1>2. Len(runs[i]) <= Len(runs[i]) /\ Len(errors[i]) <= Len(errors[i])
  BY <1>1
<1>3. ASSUME specs'[i] = specs[i], runs'[i] = runs[i], errors'[i] = errors[i],
             status'[i] \in JobStatus, status[i] = "completed" => status'[i] = "completed"
      PROVE  Grows(i)
  BY <1>2, <1>3 DEF Grows
<1>4. CASE UNCHANGED vars
  BY <1>3, <1>4 DEF vars
<1>5. ASSUME NEW j \in Job, NEW named \in SUBSET Spec_ids, Submit(j, named)
      PROVE  Grows(i)
  BY <1>3, <1>5 DEF Submit, TypeOK, JobStatus
<1>6. ASSUME NEW j \in Job, Begin(j) \/ Complete(j)
      PROVE  Grows(i)
  BY <1>3, <1>6 DEF Begin, Complete, TypeOK, JobStatus
<1>7. ASSUME NEW j \in Job, NEW s \in Deliveries, CollectRun(j, s)
      PROVE  Grows(i)
  <2>1. CASE i # j
    BY <1>3, <1>7, <2>1 DEF CollectRun, SetWork, TypeOK
  <2>2. CASE i = j
    <3>1. runs'[i] = Append(runs[i], s) /\ errors'[i] = errors[i]
      BY <1>7, <2>2 DEF CollectRun, TypeOK
    <3>2. Len(runs[i]) <= Len(runs'[i]) /\ Len(errors[i]) <= Len(errors'[i])
      BY <1>1, <3>1, AppendGrows
    <3>3. specs'[i] = specs[i] /\ status'[i] = status[i]
      BY <1>7 DEF CollectRun, SetWork
    <3>4. status[i] # "completed"
      BY <1>7, <2>2, CompletedIsFrozen
    <3> QED  BY <3>2, <3>3, <3>4 DEF Grows
  <2> QED  BY <2>1, <2>2
<1>8. ASSUME NEW j \in Job, NEW s \in Deliveries, CollectError(j, s)
      PROVE  Grows(i)
  <2>1. CASE i # j
    BY <1>3, <1>8, <2>1 DEF CollectError, SetWork, TypeOK
  <2>2. CASE i = j
    <3>1. errors'[i] = Append(errors[i], s) /\ runs'[i] = runs[i]
      BY <1>8, <2>2 DEF CollectError, TypeOK
    <3>2. Len(runs[i]) <= Len(runs'[i]) /\ Len(errors[i]) <= Len(errors'[i])
      BY <1>1, <3>1, AppendGrows
    <3>3. specs'[i] = specs[i] /\ status'[i] = status[i]
      BY <1>8 DEF CollectError, SetWork
    <3>4. status[i] # "completed"
      BY <1>8, <2>2, CompletedIsFrozen
    <3> QED  BY <3>2, <3>3, <3>4 DEF Grows
  <2> QED  BY <2>1, <2>2
<1>9. ASSUME NEW j \in Job, NEW s \in Deliveries, WorkerStep(j, s)
      PROVE  Grows(i)
  BY <1>3, <1>9 DEF WorkerStep, Take, Execute, SetWork
<1>10. ASSUME NEW c \in Client, NEW j \in Job,
              CopyJob(c, j) \/ PollStep(c, j) \/ AnswerNotFound(c, j)
       PROVE  Grows(i)
  BY <1>3, <1>10
  DEF CopyJob, PollStep, SerialiseRuns, SerialiseErrors, AnswerNotFound, SetPoll
<1> QED
  BY <1>4, <1>5, <1>6, <1>7, <1>8, <1>9, <1>10 DEF Next, JobStep

\* What the record of a job says of its size.
LEMMA RecordFits ==
  ASSUME TypeOK, NEW j \in Job, JobSound(j)
  PROVE  /\ Len(runs[j]) \in Nat /\ Len(errors[j]) \in Nat
         /\ Cardinality(specs[j]) \in Nat
         /\ Len(runs[j]) + Len(errors[j]) <= Cardinality(specs[j])
         /\ status[j] = "completed" => done[j] = Cardinality(specs[j])
<1>1. InState(j, "collected") \subseteq specs[j] /\ specs[j] \in SUBSET Deliveries
  BY DEF InState, TypeOK
<1>2. /\ Cardinality(InState(j, "collected")) \in Nat
      /\ Cardinality(specs[j]) \in Nat
      /\ Cardinality(InState(j, "collected")) <= Cardinality(specs[j])
  BY <1>1, FiniteDeliveries, FS_Subset
<1>3. Len(runs[j]) \in Nat /\ Len(errors[j]) \in Nat
  BY DEF TypeOK
<1>4. Cardinality(InState(j, "collected")) = Len(runs[j]) + Len(errors[j])
  BY DEF JobSound
<1>5. status[j] = "completed" => done[j] = Cardinality(specs[j])
  BY DEF JobSound
<1> QED  BY <1>2, <1>3, <1>4, <1>5

PollSound(c) ==
  LET job == poll[c].job IN
  \A j \in Job : poll[c].of = {j} =>
    /\ status[j] \in JobStatus
    /\ job.status \in JobStatus
    /\ job.total = Cardinality(specs[j])
    /\ job.status = "completed" => status[j] = "completed" /\ job.done = job.total
    /\ poll[c].at # "errors" => job.done <= Len(runs[j]) + Len(errors[j])
    /\ poll[c].at = "errors" =>
         /\ job.done <= Len(job.runs) + Len(errors[j])
         /\ Len(job.runs) <= Len(runs[j])
         /\ job.status = "completed" => job.runs = runs[j]

AnswerSound(c) ==
  LET job == reply[c].job IN
  \A j \in Job : reply[c].of = {j} =>
    /\ status[j] # "new"
    /\ job.status # "not_found" =>
         /\ job.done <= Len(job.runs) + Len(job.errors)
         /\ Len(job.runs) + Len(job.errors) <= job.total
         /\ job.status = "completed" =>
              /\ job.done = job.total
              /\ Recorded(job.runs) \cup Recorded(job.errors) = specs[j]

PollsSound == \A c \in Client : PollSound(c) /\ AnswerSound(c)

LEMMA PollsInit == Init => PollsSound
<1> SUFFICES ASSUME Init, NEW c \in Client PROVE PollSound(c) /\ AnswerSound(c)
  BY DEF PollsSound
<1>1. poll[c].of = {} /\ reply[c].of = {}
  BY DEF Init, Idle
<1> QED  BY <1>1 DEF PollSound, AnswerSound

LEMMA SumGrows ==
  \A a, b, x, y \in Nat : \A n \in Nat : n <= a + b /\ a <= x /\ b <= y => n <= x + y
OBVIOUS

\* A step that is not the client's own only lets the job it polls grow.
LEMMA PollFrame ==
  ASSUME TypeOK, TypeOK', JobsSound, [Next]_vars, ~Restart,
         NEW c \in Client, PollSound(c), poll'[c] = poll[c]
  PROVE  PollSound(c)'
<1> SUFFICES ASSUME NEW j \in Job, poll[c].of = {j}
             PROVE  /\ status'[j] \in JobStatus
                    /\ poll[c].job.status \in JobStatus
                    /\ poll[c].job.total = Cardinality(specs'[j])
                    /\ poll[c].job.status = "completed" =>
                         status'[j] = "completed" /\ poll[c].job.done = poll[c].job.total
                    /\ poll[c].at # "errors" =>
                         poll[c].job.done <= Len(runs'[j]) + Len(errors'[j])
                    /\ poll[c].at = "errors" =>
                         /\ poll[c].job.done <= Len(poll[c].job.runs) + Len(errors'[j])
                         /\ Len(poll[c].job.runs) <= Len(runs'[j])
                         /\ poll[c].job.status = "completed" => poll[c].job.runs = runs'[j]
  BY DEF PollSound
<1>1. status[j] \in JobStatus
  BY DEF PollSound
<1>2. Grows(j)
  BY <1>1, Growth
<1> DEFINE n == poll[c].job.done
           k == Len(poll[c].job.runs)
           a == Len(runs[j])
           b == Len(errors[j])
           x == Len(runs'[j])
           y == Len(errors'[j])
<1>3. n \in Nat /\ k \in Nat /\ a \in Nat /\ b \in Nat /\ x \in Nat /\ y \in Nat
  <2>1. poll[c].job \in JobView
    BY DEF TypeOK
  <2>2. n \in Nat /\ poll[c].job.runs \in Seq(Deliveries)
    BY <2>1 DEF JobView
  <2>3. a \in Nat /\ b \in Nat
    BY DEF TypeOK
  <2>4. x \in Nat /\ y \in Nat
    BY DEF TypeOK
  <2> QED  BY <2>2, <2>3, <2>4
<1>4. a <= x /\ b <= y
  BY <1>2 DEF Grows
<1>5. /\ status'[j] \in JobStatus
      /\ poll[c].job.status \in JobStatus
      /\ poll[c].job.total = Cardinality(specs'[j])
      /\ poll[c].job.status = "completed" =>
           status'[j] = "completed" /\ poll[c].job.done = poll[c].job.total
  BY <1>2 DEF Grows, PollSound
<1>6. CASE poll[c].at # "errors"
  <2>1. n <= a + b
    BY <1>6 DEF PollSound
  <2>2. n <= x + y
    <3> HIDE DEF n, a, b, x, y
    <3> QED  BY <1>3, <1>4, <2>1, SumGrows
  <2> QED  BY <1>5, <1>6, <2>2
<1>7. CASE poll[c].at = "errors"
  <2>1. n <= k + b /\ k <= a
    BY <1>7 DEF PollSound
  <2>2. n <= k + y /\ k <= x
    <3> HIDE DEF n, k, a, b, x, y
    <3> QED  BY <1>3, <1>4, <2>1
  <2>3. poll[c].job.status = "completed" => poll[c].job.runs = runs'[j]
    BY <1>2, <1>7 DEF Grows, PollSound
  <2> QED  BY <1>5, <1>7, <2>2, <2>3
<1> QED  BY <1>6, <1>7

\* Answers given stay as they are, and so does the job they are about.
LEMMA AnswerFrame ==
  ASSUME TypeOK, TypeOK', [Next]_vars, NEW c \in Client, AnswerSound(c),
         reply'[c] = reply[c]
  PROVE  AnswerSound(c)'
<1> SUFFICES ASSUME NEW i \in Job, status[i] # "new"
             PROVE  status'[i] # "new" /\ specs'[i] = specs[i]
  BY DEF AnswerSound
<1>1. CASE UNCHANGED vars
  BY <1>1 DEF vars
<1>2. ASSUME NEW j \in Job, NEW named \in SUBSET Spec_ids, Submit(j, named)
      PROVE  status'[i] # "new" /\ specs'[i] = specs[i]
  BY <1>2 DEF Submit, TypeOK
<1>3. ASSUME NEW j \in Job, JobStep(j)
      PROVE  status'[i] # "new" /\ specs'[i] = specs[i]
  BY <1>3 DEF JobStep, Begin, Complete, CollectRun, CollectError, SetWork, TypeOK
<1>4. ASSUME NEW j \in Job, NEW s \in Deliveries, WorkerStep(j, s)
      PROVE  status'[i] # "new" /\ specs'[i] = specs[i]
  BY <1>4 DEF WorkerStep, Take, Execute, SetWork
<1>5. ASSUME NEW d \in Client, NEW j \in Job,
             CopyJob(d, j) \/ PollStep(d, j) \/ AnswerNotFound(d, j)
      PROVE  status'[i] # "new" /\ specs'[i] = specs[i]
  BY <1>5
  DEF CopyJob, PollStep, SerialiseRuns, SerialiseErrors, AnswerNotFound, SetPoll
<1>6. CASE Restart
  BY <1>6 DEF Restart
<1> QED  BY <1>1, <1>2, <1>3, <1>4, <1>5, <1>6 DEF Next

\* A step of no poll of client c leaves what it holds alone.
LEMMA HeldByClient ==
  ASSUME TypeOK, [Next]_vars, ~Restart, NEW c \in Client,
         ~ \E j \in Job : CopyJob(c, j) \/ PollStep(c, j) \/ AnswerNotFound(c, j)
  PROVE  poll'[c] = poll[c] /\ reply'[c] = reply[c]
<1>1. CASE UNCHANGED vars
  BY <1>1 DEF vars
<1>2. ASSUME NEW j \in Job, NEW named \in SUBSET Spec_ids, Submit(j, named)
      PROVE  poll'[c] = poll[c] /\ reply'[c] = reply[c]
  BY <1>2 DEF Submit
<1>3. ASSUME NEW j \in Job, JobStep(j)
      PROVE  poll'[c] = poll[c] /\ reply'[c] = reply[c]
  BY <1>3 DEF JobStep, Begin, Complete, CollectRun, CollectError, SetWork
<1>4. ASSUME NEW j \in Job, NEW s \in Deliveries, WorkerStep(j, s)
      PROVE  poll'[c] = poll[c] /\ reply'[c] = reply[c]
  BY <1>4 DEF WorkerStep, Take, Execute, SetWork
<1>5. ASSUME NEW d \in Client, NEW j \in Job,
             CopyJob(d, j) \/ PollStep(d, j) \/ AnswerNotFound(d, j)
      PROVE  poll'[c] = poll[c] /\ reply'[c] = reply[c]
  <2>1. d # c
    BY <1>5
  <2> QED
    BY <1>5, <2>1
    DEF CopyJob, PollStep, SerialiseRuns, SerialiseErrors, AnswerNotFound, SetPoll, TypeOK
<1> QED  BY <1>1, <1>2, <1>3, <1>4, <1>5 DEF Next

LEMMA PollsStep ==
  TypeOK /\ TypeOK' /\ JobsSound /\ PollsSound /\ [Next]_vars => PollsSound'
<1> SUFFICES ASSUME TypeOK, TypeOK', JobsSound, PollsSound, [Next]_vars, NEW c \in Client
             PROVE  PollSound(c)' /\ AnswerSound(c)'
  BY DEF PollsSound
<1>1. PollSound(c) /\ AnswerSound(c)
  BY DEF PollsSound
<1>2. ~Restart /\ poll'[c] = poll[c] => PollSound(c)'
  BY <1>1, PollFrame
<1>3. reply'[c] = reply[c] => AnswerSound(c)'
  BY <1>1, AnswerFrame
<1>4. poll'[c] = Idle => PollSound(c)'
  BY DEF Idle, PollSound
<1>5. CASE Restart
  BY <1>3, <1>4, <1>5 DEF Restart
<1>6. CASE poll'[c] = poll[c] /\ reply'[c] = reply[c] /\ ~Restart
  BY <1>2, <1>3, <1>6
<1>7. ASSUME NEW j \in Job, CopyJob(c, j), ~Restart
      PROVE  PollSound(c)' /\ AnswerSound(c)'
  <2>1. /\ poll'[c] = [at |-> "runs", of |-> {j},
                       job |-> [status |-> status[j], total |-> Cardinality(specs[j]),
                                done |-> done[j], runs |-> << >>, errors |-> << >>]]
        /\ reply' = reply /\ status' = status /\ specs' = specs
        /\ runs' = runs /\ errors' = errors /\ status[j] \in JobStatus
    BY <1>7 DEF CopyJob, SetPoll, Known, TypeOK
  <2>2. JobSound(j)
    BY DEF JobsSound
  <2>3. done[j] <= Len(runs[j]) + Len(errors[j])
    <3>1. done[j] = Len(runs[j]) + Len(errors[j])
      BY <2>2 DEF JobSound
    <3> QED  BY <3>1, <2>2, RecordFits
  <2>4. status[j] = "completed" => done[j] = Cardinality(specs[j])
    BY <2>2, RecordFits
  <2>5. PollSound(c)'
    <3>1. /\ poll'[c].at = "runs" /\ poll'[c].of = {j}
          /\ poll'[c].job.status = status[j] /\ poll'[c].job.done = done[j]
          /\ poll'[c].job.total = Cardinality(specs[j])
      BY <2>1
    <3> SUFFICES ASSUME NEW i \in Job, poll'[c].of = {i}
                 PROVE  /\ status'[i] \in JobStatus
                        /\ poll'[c].job.status \in JobStatus
                        /\ poll'[c].job.total = Cardinality(specs'[i])
                        /\ poll'[c].job.status = "completed" =>
                             status'[i] = "completed" /\ poll'[c].job.done = poll'[c].job.total
                        /\ poll'[c].job.done <= Len(runs'[i]) + Len(errors'[i])
      BY <3>1 DEF PollSound
    <3>2. i = j
      BY <3>1
    <3> QED  BY <2>1, <2>3, <2>4, <3>1, <3>2
  <2> QED  BY <1>3, <2>1, <2>5
<1>8. ASSUME NEW j \in Job, SerialiseRuns(c, j), ~Restart
      PROVE  PollSound(c)' /\ AnswerSound(c)'
  <2>1. /\ poll[c].at = "runs" /\ poll[c].of = {j}
        /\ poll'[c] = [at |-> "errors", of |-> {j},
                       job |-> [poll[c].job EXCEPT !.runs = runs[j]]]
        /\ reply' = reply /\ status' = status /\ specs' = specs
        /\ runs' = runs /\ errors' = errors
    BY <1>8 DEF SerialiseRuns, SetPoll, TypeOK
  <2>2. poll[c].job \in JobView
    BY DEF TypeOK
  <2>3. /\ poll'[c].job.status = poll[c].job.status
        /\ poll'[c].job.total = poll[c].job.total
        /\ poll'[c].job.done = poll[c].job.done
        /\ poll'[c].job.runs = runs[j]
    BY <2>1, <2>2 DEF JobView
  <2>4. Len(runs[j]) <= Len(runs[j])
    BY DEF TypeOK
  <2>5. poll'[c].at = "errors" /\ poll'[c].of = {j}
    BY <2>1
  <2>6. /\ status[j] \in JobStatus
        /\ poll[c].job.status \in JobStatus
        /\ poll[c].job.total = Cardinality(specs[j])
        /\ poll[c].job.status = "completed" =>
             status[j] = "completed" /\ poll[c].job.done = poll[c].job.total
        /\ poll[c].job.done <= Len(runs[j]) + Len(errors[j])
    BY <1>1, <2>1 DEF PollSound
  <2>7. PollSound(c)'
    <3> SUFFICES ASSUME NEW i \in Job, poll'[c].of = {i}
                 PROVE  /\ status'[i] \in JobStatus
                        /\ poll'[c].job.status \in JobStatus
                        /\ poll'[c].job.total = Cardinality(specs'[i])
                        /\ poll'[c].job.status = "completed" =>
                             status'[i] = "completed" /\ poll'[c].job.done = poll'[c].job.total
                        /\ poll'[c].job.done <= Len(poll'[c].job.runs) + Len(errors'[i])
                        /\ Len(poll'[c].job.runs) <= Len(runs'[i])
                        /\ poll'[c].job.runs = runs'[i]
      BY <2>5 DEF PollSound
    <3>1. i = j
      BY <2>5
    <3> QED  BY <2>1, <2>3, <2>4, <2>6, <3>1
  <2> QED  BY <1>3, <2>1, <2>7
<1>9. ASSUME NEW j \in Job, SerialiseErrors(c, j), ~Restart
      PROVE  PollSound(c)' /\ AnswerSound(c)'
  <2>1. /\ poll[c].at = "errors" /\ poll[c].of = {j}
        /\ poll'[c] = Idle
        /\ reply'[c] = [of |-> {j}, job |-> [poll[c].job EXCEPT !.errors = errors[j]]]
        /\ status' = status /\ specs' = specs
    BY <1>9 DEF SerialiseErrors, SetPoll, TypeOK
  <2> DEFINE job == poll[c].job
  <2>2. /\ status[j] \in JobStatus /\ job.status \in JobStatus
        /\ job.total = Cardinality(specs[j])
        /\ job.status = "completed" => status[j] = "completed" /\ job.done = job.total
        /\ job.done <= Len(job.runs) + Len(errors[j])
        /\ Len(job.runs) <= Len(runs[j])
        /\ job.status = "completed" => job.runs = runs[j]
    BY <1>1, <2>1 DEF PollSound
  <2>3. job \in JobView
    BY DEF TypeOK
  <2>4. /\ reply'[c].of = {j}
        /\ reply'[c].job.status = job.status /\ reply'[c].job.total = job.total
        /\ reply'[c].job.done = job.done /\ reply'[c].job.runs = job.runs
        /\ reply'[c].job.errors = errors[j]
    BY <2>1, <2>3 DEF JobView
  <2>5. JobSound(j)
    BY DEF JobsSound
  <2>6. Len(job.runs) + Len(errors[j]) <= job.total
    <3>1. Len(job.runs) \in Nat
      BY <2>3 DEF JobView
    <3>2. /\ Len(runs[j]) \in Nat /\ Len(errors[j]) \in Nat
          /\ Cardinality(specs[j]) \in Nat
          /\ Len(runs[j]) + Len(errors[j]) <= Cardinality(specs[j])
      BY <2>5, RecordFits
    <3>3. Len(job.runs) <= Len(runs[j]) /\ job.total = Cardinality(specs[j])
      BY <2>2
    <3> DEFINE k == Len(job.runs)
               a == Len(runs[j])
               b == Len(errors[j])
               t == Cardinality(specs[j])
    <3>4. k \in Nat /\ a \in Nat /\ b \in Nat /\ t \in Nat /\ a + b <= t /\ k <= a
      BY <3>1, <3>2, <3>3
    <3>5. k + b <= t
      <4> HIDE DEF k, a, b, t
      <4> QED  BY <3>4
    <3> QED  BY <3>3, <3>5
  <2>7. job.status = "completed" => Recorded(job.runs) \cup Recorded(errors[j]) = specs[j]
    BY <2>2, <2>5 DEF JobSound
  <2>8. AnswerSound(c)'
    <3> SUFFICES ASSUME NEW i \in Job, reply'[c].of = {i}
                 PROVE  /\ status'[i] # "new"
                        /\ job.done <= Len(job.runs) + Len(errors[j])
                        /\ Len(job.runs) + Len(errors[j]) <= job.total
                        /\ job.status = "completed" =>
                             /\ job.done = job.total
                             /\ Recorded(job.runs) \cup Recorded(errors[j]) = specs'[i]
      BY <2>4 DEF AnswerSound
    <3>1. i = j
      BY <2>4
    <3>2. status'[i] # "new"
      BY <2>1, <2>2, <3>1 DEF JobStatus
    <3> QED  BY <2>1, <2>2, <2>6, <2>7, <3>1, <3>2
  <2> QED  BY <1>4, <2>1, <2>8
<1>10. ASSUME NEW j \in Job, AnswerNotFound(c, j), ~Restart
       PROVE  PollSound(c)' /\ AnswerSound(c)'
  <2>1. /\ poll'[c] = Idle /\ reply'[c] = [of |-> {j}, job |-> NoJob]
        /\ status' = status /\ status[j] = "lost"
    BY <1>10 DEF AnswerNotFound, SetPoll, TypeOK
  <2>2. AnswerSound(c)'
    BY <2>1 DEF AnswerSound, NoJob
  <2> QED  BY <1>4, <2>1, <2>2
<1>11. ASSUME ~Restart,
              ~ \E j \in Job : CopyJob(c, j) \/ PollStep(c, j) \/ AnswerNotFound(c, j)
       PROVE  poll'[c] = poll[c] /\ reply'[c] = reply[c]
  BY <1>11, HeldByClient
<1> QED
  BY <1>5, <1>6, <1>7, <1>8, <1>9, <1>10, <1>11 DEF PollStep

\* Torn as they may be, the answers to polls are usable.
THEOREM AnswersAlwaysUsable == Spec => []AnswersUsable
<1>1. PollsSound => AnswersUsable
  BY DEF PollsSound, AnswerSound, AnswersUsable
<1> QED  BY <1>1, TypeCorrect, JobsAlwaysSound, PollsInit, PollsStep, PTL DEF Spec
-----------------------------------------------------------------------------
(* The order of the answers.  A job is seen in stages, each of which extends *)
(* the one before; the last answer of a client, the poll it is in and the    *)
(* job as it is now are three stages in that order.                          *)

Prefix(s, t) == Len(s) <= Len(t) /\ \A i \in 1..Len(s) : s[i] = t[i]

Earlier(a, b) ==
  /\ Progress(a) <= Progress(b) /\ a.done <= b.done
  /\ Prefix(a.runs, b.runs) /\ Prefix(a.errors, b.errors)

\* The job as it is now.
Stage(j) == [status |-> status[j], total |-> Cardinality(specs[j]), done |-> done[j],
             runs |-> runs[j], errors |-> errors[j]]

PollInOrder(c) ==
  \A j \in Job : poll[c].of = {j} =>
    /\ Earlier(poll[c].job, Stage(j))
    /\ poll[c].job.errors = << >>
    /\ poll[c].at # "errors" => poll[c].job.runs = << >>

AnswerInOrder(c) ==
  LET job == reply[c].job IN
  \A j \in Job : reply[c].of = {j} =>
    /\ job.status = "not_found" => status[j] = "lost"
    /\ job.status # "not_found" /\ status[j] # "lost" => Earlier(job, Stage(j))
    /\ job.status # "not_found" /\ poll[c].of = {j} =>
         /\ Progress(job) <= Progress(poll[c].job) /\ job.done <= poll[c].job.done
         /\ poll[c].at = "errors" => Prefix(job.runs, poll[c].job.runs)

LostByRestart ==
  /\ \A j \in Job : status[j] = "lost" => restarts > 0
  /\ \A c \in Client :
       reply[c].of # {} /\ reply[c].job.status = "not_found" => restarts > 0

InOrder ==
  LostByRestart /\ \A c \in Client : PollInOrder(c) /\ AnswerInOrder(c)

LEMMA PrefixOrder ==
  ASSUME NEW s \in Seq(Deliveries), NEW t \in Seq(Deliveries), NEW u \in Seq(Deliveries)
  PROVE  /\ Prefix(s, s) /\ Prefix(<< >>, s)
         /\ Prefix(s, t) /\ Prefix(t, u) => Prefix(s, u)
         /\ Prefix(s, t) => SubSeq(t, 1, Len(s)) = s
<1>1. Len(s) \in Nat /\ Len(t) \in Nat /\ Len(u) \in Nat
  OBVIOUS
<1>2. Prefix(s, s)
  BY <1>1 DEF Prefix
<1>3. Prefix(<< >>, s)
  BY <1>1 DEF Prefix
<1>4. Prefix(s, t) /\ Prefix(t, u) => Prefix(s, u)
  BY <1>1 DEF Prefix
<1>5. ASSUME Prefix(s, t) PROVE SubSeq(t, 1, Len(s)) = s
  <2>1. /\ Len(s) <= Len(t) /\ \A i \in 1..Len(s) : t[i] = s[i]
    BY <1>5 DEF Prefix
  <2>2. \A i \in 1..Len(s) : t[i] \in Deliveries
    BY <2>1
  <2>3. /\ SubSeq(t, 1, Len(s)) \in Seq(Deliveries)
        /\ Len(SubSeq(t, 1, Len(s))) = Len(s)
        /\ \A i \in 1..Len(s) : SubSeq(t, 1, Len(s))[i] = t[i]
    <3>1. 1 \in Int /\ Len(s) \in Int
      BY <1>1
    <3>2. /\ SubSeq(t, 1, Len(s)) \in Seq(Deliveries)
          /\ Len(SubSeq(t, 1, Len(s))) = IF 1 <= Len(s) THEN Len(s) - 1 + 1 ELSE 0
          /\ \A i \in 1..Len(s) - 1 + 1 : SubSeq(t, 1, Len(s))[i] = t[1 + i - 1]
      BY <2>2, <3>1, SubSeqProperties
    <3> QED  BY <1>1, <3>2
  <2> DEFINE q == SubSeq(t, 1, Len(s))
  <2>4. q \in Seq(Deliveries) /\ Len(q) = Len(s) /\ \A i \in 1..Len(s) : q[i] = s[i]
    BY <2>1, <2>3
  <2> HIDE DEF q
  <2>5. q = s
    BY <2>4, SeqEqual
  <2> QED  BY <2>5 DEF q
<1> QED  BY <1>2, <1>3, <1>4, <1>5

LEMMA AppendExtends ==
  ASSUME NEW list \in Seq(Deliveries), NEW s \in Deliveries
  PROVE  Prefix(list, Append(list, s))
<1>1. /\ Len(list) \in Nat /\ Len(Append(list, s)) = Len(list) + 1
      /\ \A i \in 1..Len(list) : Append(list, s)[i] = list[i]
  OBVIOUS
<1> QED  BY <1>1 DEF Prefix

\* A stage of a job that the process knows.
View == {job \in JobView : job.status \in JobStatus}

LEMMA ProgressRange ==
  \A job \in View : Progress(job) \in 0..2
BY DEF View, JobStatus, Progress

LEMMA EarlierOrder ==
  ASSUME NEW a \in View, NEW b \in View, NEW d \in View
  PROVE  /\ Earlier(a, a)
         /\ Earlier(a, b) /\ Earlier(b, d) => Earlier(a, d)
<1>1. /\ Progress(a) \in 0..2 /\ Progress(b) \in 0..2 /\ Progress(d) \in 0..2
      /\ a.done \in Nat /\ b.done \in Nat /\ d.done \in Nat
  BY ProgressRange DEF View, JobView
<1>2. /\ a.runs \in Seq(Deliveries) /\ a.errors \in Seq(Deliveries)
      /\ b.runs \in Seq(Deliveries) /\ b.errors \in Seq(Deliveries)
      /\ d.runs \in Seq(Deliveries) /\ d.errors \in Seq(Deliveries)
  BY DEF View, JobView
<1>3. Earlier(a, a)
  BY <1>1, <1>2, PrefixOrder DEF Earlier
<1>4. ASSUME Earlier(a, b), Earlier(b, d) PROVE Earlier(a, d)
  <2>1. Prefix(a.runs, d.runs) /\ Prefix(a.errors, d.errors)
    BY <1>2, <1>4, PrefixOrder DEF Earlier
  <2>2. Progress(a) <= Progress(d) /\ a.done <= d.done
    BY <1>1, <1>4 DEF Earlier
  <2> QED  BY <2>1, <2>2 DEF Earlier
<1> QED  BY <1>3, <1>4

LEMMA StageIsView ==
  ASSUME TypeOK, NEW j \in Job, status[j] \in JobStatus
  PROVE  Stage(j) \in View
<1>1. Cardinality(specs[j]) \in Nat
  BY FiniteDeliveries DEF TypeOK
<1> QED  BY <1>1 DEF Stage, View, JobView, TypeOK, JobStatus

\* Every step takes a job to itself or to a later stage, unless the process ends.
LEMMA StageGrows ==
  ASSUME TypeOK, TypeOK', JobsSound, [Next]_vars, ~Restart, NEW i \in Job
  PROVE  /\ status[i] = "lost" => status'[i] = "lost"
         /\ status[i] \in JobStatus =>
              status'[i] \in JobStatus /\ Earlier(Stage(i), Stage(i)')
<1> DEFINE Goal == /\ status[i] = "lost" => status'[i] = "lost"
                   /\ status[i] \in JobStatus =>
                        status'[i] \in JobStatus /\ Earlier(Stage(i), Stage(i)')
<1>0. /\ runs[i] \in Seq(Deliveries) /\ errors[i] \in Seq(Deliveries)
      /\ runs'[i] \in Seq(Deliveries) /\ errors'[i] \in Seq(Deliveries)
      /\ done[i] \in Nat
  BY DEF TypeOK
<1>1. ASSUME status'[i] = status[i], done'[i] = done[i],
             runs'[i] = runs[i], errors'[i] = errors[i]
      PROVE  Goal
  <2>1. status[i] \in JobStatus => Earlier(Stage(i), Stage(i)')
    BY <1>0, <1>1, PrefixOrder DEF Earlier, Stage, Progress, JobStatus
  <2> QED  BY <1>1, <2>1
<1>2. CASE UNCHANGED vars
  BY <1>1, <1>2 DEF vars
<1>3. ASSUME NEW j \in Job, NEW named \in SUBSET Spec_ids, Submit(j, named)
      PROVE  Goal
  <2>1. CASE i = j
    BY <1>3, <2>1 DEF Submit, JobStatus
  <2>2. CASE i # j
    BY <1>1, <1>3, <2>2 DEF Submit, TypeOK
  <2> QED  BY <2>1, <2>2
<1>4. ASSUME NEW j \in Job, Begin(j) \/ Complete(j)
      PROVE  Goal
  <2>1. runs'[i] = runs[i] /\ errors'[i] = errors[i] /\ done'[i] = done[i]
    BY <1>4 DEF Begin, Complete
  <2>2. CASE i = j
    <3>1. \/ status[i] = "queued" /\ status'[i] = "running"
          \/ status[i] = "running" /\ status'[i] = "completed"
      BY <1>4, <2>2 DEF Begin, Complete, TypeOK
    <3>2. Progress(Stage(i)) <= Progress(Stage(i)')
      BY <3>1 DEF Progress, Stage
    <3>3. Prefix(runs[i], runs'[i]) /\ Prefix(errors[i], errors'[i])
      BY <1>0, <2>1, PrefixOrder
    <3>4. Earlier(Stage(i), Stage(i)')
      BY <1>0, <2>1, <3>2, <3>3 DEF Earlier, Stage
    <3> QED  BY <3>1, <3>4 DEF JobStatus
  <2>3. CASE i # j
    <3>1. status'[i] = status[i]
      BY <1>4, <2>3 DEF Begin, Complete, TypeOK
    <3> QED  BY <1>1, <2>1, <3>1
  <2> QED  BY <2>2, <2>3
<1>5. ASSUME NEW j \in Job, NEW s \in Deliveries, CollectRun(j, s) \/ CollectError(j, s)
      PROVE  Goal
  <2>1. status'[i] = status[i]
    BY <1>5 DEF CollectRun, CollectError
  <2>2. CASE i = j
    <3>1. /\ done'[i] = done[i] + 1
          /\ \/ runs'[i] = Append(runs[i], s) /\ errors'[i] = errors[i]
             \/ runs'[i] = runs[i] /\ errors'[i] = Append(errors[i], s)
      BY <1>5, <2>2 DEF CollectRun, CollectError, TypeOK
    <3>2. Prefix(runs[i], runs'[i]) /\ Prefix(errors[i], errors'[i])
      <4>1. Prefix(runs[i], runs[i]) /\ Prefix(errors[i], errors[i])
        BY <1>0, PrefixOrder
      <4>2. Prefix(runs[i], Append(runs[i], s)) /\ Prefix(errors[i], Append(errors[i], s))
        BY <1>0, AppendExtends
      <4> QED  BY <3>1, <4>1, <4>2
    <3>3. status[i] \in JobStatus => Progress(Stage(i)) <= Progress(Stage(i)')
      BY <2>1 DEF Progress, Stage, JobStatus
    <3>4. done[i] <= done'[i]
      BY <1>0, <3>1
    <3>5. status[i] \in JobStatus => Earlier(Stage(i), Stage(i)')
      BY <3>2, <3>3, <3>4 DEF Earlier, Stage
    <3> QED  BY <2>1, <3>5
  <2>3. CASE i # j
    <3>1. runs'[i] = runs[i] /\ errors'[i] = errors[i] /\ done'[i] = done[i]
      BY <1>5, <2>3 DEF CollectRun, CollectError, TypeOK
    <3> QED  BY <1>1, <2>1, <3>1
  <2> QED  BY <2>2, <2>3
<1>6. ASSUME NEW j \in Job, NEW s \in Deliveries, WorkerStep(j, s)
      PROVE  Goal
  BY <1>1, <1>6 DEF WorkerStep, Take, Execute, SetWork
<1>7. ASSUME NEW c \in Client, NEW j \in Job,
             CopyJob(c, j) \/ PollStep(c, j) \/ AnswerNotFound(c, j)
      PROVE  Goal
  BY <1>1, <1>7
  DEF CopyJob, PollStep, SerialiseRuns, SerialiseErrors, AnswerNotFound, SetPoll
<1> QED
  BY <1>2, <1>3, <1>4, <1>5, <1>6, <1>7 DEF Next, JobStep

LEMMA InOrderInit == Init => InOrder
<1> SUFFICES ASSUME Init PROVE InOrder
  OBVIOUS
<1>1. LostByRestart
  BY DEF Init, LostByRestart
<1>2. ASSUME NEW c \in Client PROVE PollInOrder(c) /\ AnswerInOrder(c)
  <2>1. poll[c].of = {} /\ reply[c].of = {}
    BY DEF Init, Idle
  <2> QED  BY <2>1 DEF PollInOrder, AnswerInOrder
<1> QED  BY <1>1, <1>2 DEF InOrder

\* The stages a client holds.
LEMMA PollIsView ==
  ASSUME TypeOK, PollsSound, NEW c \in Client, NEW j \in Job, poll[c].of = {j}
  PROVE  /\ poll[c].job \in View /\ status[j] \in JobStatus /\ Stage(j) \in View
<1>1. poll[c].job \in JobView /\ poll[c].job.status \in JobStatus /\ status[j] \in JobStatus
  BY DEF TypeOK, PollsSound, PollSound
<1> QED  BY <1>1, StageIsView DEF View

LEMMA AnswerIsView ==
  ASSUME TypeOK, PollsSound, NEW c \in Client, NEW j \in Job, reply[c].of = {j}
  PROVE  /\ status[j] = "lost" \/ status[j] \in JobStatus
         /\ reply[c].job.status # "not_found" => reply[c].job \in View
<1>1. status[j] # "new"
  BY DEF PollsSound, AnswerSound
<1>2. reply[c].job \in JobView
  BY DEF TypeOK
<1> QED  BY <1>1, <1>2 DEF TypeOK, View, JobView

\* A step of somebody else lets the job grow past what the client holds.
LEMMA OrderFrame ==
  ASSUME TypeOK, TypeOK', JobsSound, PollsSound, [Next]_vars, ~Restart,
         NEW c \in Client, PollInOrder(c), AnswerInOrder(c),
         poll'[c] = poll[c], reply'[c] = reply[c]
  PROVE  PollInOrder(c)' /\ AnswerInOrder(c)'
<1>1. PollInOrder(c)'
  <2> SUFFICES ASSUME NEW j \in Job, poll[c].of = {j}
               PROVE  Earlier(poll[c].job, Stage(j)')
    BY DEF PollInOrder
  <2>1. poll[c].job \in View /\ status[j] \in JobStatus /\ Stage(j) \in View
    BY PollIsView
  <2>2. status'[j] \in JobStatus /\ Earlier(Stage(j), Stage(j)')
    BY <2>1, StageGrows
  <2>3. Stage(j)' \in View
    BY <2>2, FiniteDeliveries DEF TypeOK, Stage, View, JobView, JobStatus
  <2>4. Earlier(poll[c].job, Stage(j))
    BY DEF PollInOrder
  <2> QED  BY <2>1, <2>2, <2>3, <2>4, EarlierOrder
<1>2. AnswerInOrder(c)'
  <2> SUFFICES ASSUME NEW j \in Job, reply[c].of = {j}
               PROVE  /\ reply[c].job.status = "not_found" => status'[j] = "lost"
                      /\ reply[c].job.status # "not_found" /\ status'[j] # "lost" =>
                           Earlier(reply[c].job, Stage(j)')
    BY DEF AnswerInOrder
  <2>1. CASE reply[c].job.status = "not_found"
    BY <2>1, StageGrows DEF AnswerInOrder
  <2>2. CASE reply[c].job.status # "not_found" /\ status'[j] # "lost"
    <3>1. status[j] \in JobStatus /\ reply[c].job \in View
      BY <2>2, StageGrows, AnswerIsView
    <3>2. status'[j] \in JobStatus /\ Earlier(Stage(j), Stage(j)') /\ Stage(j) \in View
      BY <3>1, StageGrows, StageIsView
    <3>3. Stage(j)' \in View
      BY <3>2, FiniteDeliveries DEF TypeOK, Stage, View, JobView, JobStatus
    <3>4. Earlier(reply[c].job, Stage(j))
      BY <2>2, <3>1 DEF AnswerInOrder, JobStatus
    <3> QED  BY <2>2, <3>1, <3>2, <3>3, <3>4, EarlierOrder
  <2> QED  BY <2>1, <2>2
<1> QED  BY <1>1, <1>2

\* The steps of a poll of client c.
LEMMA CopyInOrder ==
  ASSUME TypeOK, PollsSound, NEW c \in Client, AnswerInOrder(c),
         NEW j \in Job, CopyJob(c, j)
  PROVE  PollInOrder(c)' /\ AnswerInOrder(c)'
<1>1. /\ poll'[c].at = "runs" /\ poll'[c].of = {j}
      /\ poll'[c].job = [status |-> status[j], total |-> Cardinality(specs[j]),
                          done |-> done[j], runs |-> << >>, errors |-> << >>]
      /\ reply'[c] = reply[c] /\ status[j] \in JobStatus
      /\ status' = status /\ Stage(j)' = Stage(j)
  BY DEF CopyJob, SetPoll, Known, TypeOK, Stage
<1>2. Progress(poll'[c].job) = Progress(Stage(j)) /\ poll'[c].job.done = done[j]
  BY <1>1 DEF Progress, Stage, JobStatus
<1>3. Stage(j) \in View
  BY <1>1, StageIsView
<1>4. Earlier(poll'[c].job, Stage(j))
  <2>1. /\ Progress(Stage(j)) <= Progress(Stage(j)) /\ done[j] <= done[j]
    BY <1>3, ProgressRange DEF TypeOK
  <2>2. Prefix(<< >>, runs[j]) /\ Prefix(<< >>, errors[j])
    <3>1. runs[j] \in Seq(Deliveries) /\ errors[j] \in Seq(Deliveries)
      BY DEF TypeOK
    <3> QED  BY <3>1, PrefixOrder
  <2> QED  BY <1>1, <1>2, <2>1, <2>2 DEF Earlier, Stage
<1>5. PollInOrder(c)'
  <2> SUFFICES ASSUME NEW i \in Job, poll'[c].of = {i}
               PROVE  /\ Earlier(poll'[c].job, Stage(i)')
                      /\ poll'[c].job.errors = << >> /\ poll'[c].job.runs = << >>
    BY DEF PollInOrder
  <2>1. i = j
    BY <1>1
  <2> QED  BY <1>1, <1>4, <2>1
<1>6. AnswerInOrder(c)'
  <2> SUFFICES ASSUME NEW i \in Job, reply[c].of = {i}
               PROVE  /\ reply[c].job.status = "not_found" => status[i] = "lost"
                      /\ reply[c].job.status # "not_found" /\ status[i] # "lost" =>
                           Earlier(reply[c].job, Stage(i)')
                      /\ reply[c].job.status # "not_found" /\ poll'[c].of = {i} =>
                           /\ Progress(reply[c].job) <= Progress(poll'[c].job)
                           /\ reply[c].job.done <= poll'[c].job.done
    BY <1>1 DEF AnswerInOrder
  <2>1. Stage(i)' = Stage(i)
    BY DEF CopyJob, SetPoll, Stage
  <2>2. reply[c].job.status # "not_found" /\ status[i] # "lost" => Earlier(reply[c].job, Stage(i))
    BY DEF AnswerInOrder
  <2>3. ASSUME reply[c].job.status # "not_found", poll'[c].of = {i}
        PROVE  /\ Progress(reply[c].job) <= Progress(poll'[c].job)
               /\ reply[c].job.done <= poll'[c].job.done
    <3>1. i = j /\ status[i] # "lost"
      BY <1>1, <2>3 DEF JobStatus
    <3> QED  BY <1>2, <2>2, <2>3, <3>1 DEF Earlier, Stage
  <2> QED  BY <2>1, <2>2, <2>3 DEF AnswerInOrder
<1> QED  BY <1>5, <1>6

LEMMA SerialiseRunsInOrder ==
  ASSUME TypeOK, PollsSound, NEW c \in Client, PollInOrder(c), AnswerInOrder(c),
         NEW j \in Job, SerialiseRuns(c, j)
  PROVE  PollInOrder(c)' /\ AnswerInOrder(c)'
<1>1. /\ poll[c].of = {j} /\ poll'[c].at = "errors" /\ poll'[c].of = {j}
      /\ poll'[c].job = [poll[c].job EXCEPT !.runs = runs[j]]
      /\ reply'[c] = reply[c] /\ status' = status
      /\ \A i \in Job : Stage(i)' = Stage(i)
  BY DEF SerialiseRuns, SetPoll, TypeOK, Stage
<1>2. poll[c].job \in View /\ status[j] \in JobStatus
  BY <1>1, PollIsView
<1>3. /\ poll'[c].job.status = poll[c].job.status /\ poll'[c].job.done = poll[c].job.done
      /\ poll'[c].job.errors = poll[c].job.errors /\ poll'[c].job.runs = runs[j]
  BY <1>1, <1>2 DEF View, JobView
<1>4. Progress(poll'[c].job) = Progress(poll[c].job)
  BY <1>2, <1>3 DEF Progress, View, JobStatus
<1>5. Prefix(runs[j], runs[j])
  <2>1. runs[j] \in Seq(Deliveries)
    BY DEF TypeOK
  <2> QED  BY <2>1, PrefixOrder
<1>6. PollInOrder(c)'
  <2> SUFFICES ASSUME NEW i \in Job, poll'[c].of = {i}
               PROVE  /\ Earlier(poll'[c].job, Stage(i)')
                      /\ poll'[c].job.errors = << >>
    BY <1>1 DEF PollInOrder
  <2>1. i = j /\ Stage(i)' = Stage(j)
    BY <1>1
  <2>2. Earlier(poll[c].job, Stage(j)) /\ poll[c].job.errors = << >>
    BY <1>1 DEF PollInOrder
  <2>3. Stage(j).runs = runs[j]
    BY DEF Stage
  <2> QED  BY <1>3, <1>4, <1>5, <2>1, <2>2, <2>3 DEF Earlier
<1>7. AnswerInOrder(c)'
  <2> SUFFICES ASSUME NEW i \in Job, reply[c].of = {i}
               PROVE  /\ reply[c].job.status = "not_found" => status[i] = "lost"
                      /\ reply[c].job.status # "not_found" /\ status[i] # "lost" =>
                           Earlier(reply[c].job, Stage(i))
                      /\ reply[c].job.status # "not_found" /\ poll'[c].of = {i} =>
                           /\ Progress(reply[c].job) <= Progress(poll'[c].job)
                           /\ reply[c].job.done <= poll'[c].job.done
                           /\ Prefix(reply[c].job.runs, poll'[c].job.runs)
    BY <1>1 DEF AnswerInOrder
  <2>1. ASSUME reply[c].job.status # "not_found", poll'[c].of = {i}
        PROVE  /\ Progress(reply[c].job) <= Progress(poll'[c].job)
               /\ reply[c].job.done <= poll'[c].job.done
               /\ Prefix(reply[c].job.runs, poll'[c].job.runs)
    <3>1. i = j /\ status[i] # "lost"
      BY <1>1, <1>2, <2>1 DEF JobStatus
    <3>2. Prefix(reply[c].job.runs, runs[j])
      BY <2>1, <3>1 DEF AnswerInOrder, Earlier, Stage
    <3>3. /\ Progress(reply[c].job) <= Progress(poll[c].job)
          /\ reply[c].job.done <= poll[c].job.done
      BY <1>1, <2>1, <3>1 DEF AnswerInOrder
    <3> QED  BY <1>3, <1>4, <3>2, <3>3
  <2> QED  BY <2>1 DEF AnswerInOrder
<1> QED  BY <1>6, <1>7

\* The answer that a client gets next, by the fields that AnswersProgress
\* compares.
Follows(old, new) ==
  /\ old.status # "not_found" /\ new.status # "not_found"
  /\ Progress(old) <= Progress(new) /\ old.done <= new.done
  /\ Prefix(old.runs, new.runs) /\ Prefix(old.errors, new.errors)

LEMMA SerialiseErrorsInOrder ==
  ASSUME TypeOK, PollsSound, NEW c \in Client, PollInOrder(c), AnswerInOrder(c),
         NEW j \in Job, SerialiseErrors(c, j)
  PROVE  /\ PollInOrder(c)' /\ AnswerInOrder(c)'
         /\ reply'[c].of = {j} /\ reply'[c].job \in View
         /\ reply[c].of = {j} => Follows(reply[c].job, reply'[c].job)
<1>1. /\ poll[c].at = "errors" /\ poll[c].of = {j} /\ poll'[c] = Idle
      /\ reply'[c] = [of |-> {j}, job |-> [poll[c].job EXCEPT !.errors = errors[j]]]
      /\ status' = status /\ \A i \in Job : Stage(i)' = Stage(i)
  BY DEF SerialiseErrors, SetPoll, TypeOK, Stage
<1>2. poll[c].job \in View /\ status[j] \in JobStatus
  BY <1>1, PollIsView
<1>3. /\ reply'[c].of = {j} /\ reply'[c].job.status = poll[c].job.status
      /\ reply'[c].job.done = poll[c].job.done
      /\ reply'[c].job.runs = poll[c].job.runs /\ reply'[c].job.errors = errors[j]
  BY <1>1, <1>2 DEF View, JobView
<1>4. Progress(reply'[c].job) = Progress(poll[c].job)
  BY <1>2, <1>3 DEF Progress, View, JobStatus
<1>5. reply'[c].job \in View
  <2>1. errors[j] \in Seq(Deliveries) /\ poll[c].job \in JobView
    BY <1>2 DEF TypeOK, View
  <2>2. [poll[c].job EXCEPT !.errors = errors[j]] \in JobView
    BY <2>1, ReadLists
  <2> QED  BY <1>1, <1>2, <1>3, <2>2 DEF View
<1>6. Earlier(reply'[c].job, Stage(j))
  <2>1. Earlier(poll[c].job, Stage(j))
    BY <1>1 DEF PollInOrder
  <2>2. Prefix(errors[j], errors[j]) /\ Stage(j).errors = errors[j]
    <3>1. errors[j] \in Seq(Deliveries)
      BY DEF TypeOK
    <3> QED  BY <3>1, PrefixOrder DEF Stage
  <2> QED  BY <1>3, <1>4, <2>1, <2>2 DEF Earlier
<1>7. PollInOrder(c)'
  BY <1>1 DEF PollInOrder, Idle
<1>8. AnswerInOrder(c)'
  <2> SUFFICES ASSUME NEW i \in Job, reply'[c].of = {i}
               PROVE  /\ reply'[c].job.status # "not_found"
                      /\ Earlier(reply'[c].job, Stage(i)')
                      /\ poll'[c].of # {i}
    BY DEF AnswerInOrder
  <2>1. i = j
    BY <1>3
  <2> QED  BY <1>1, <1>5, <1>6, <2>1 DEF View, JobStatus, Idle
<1>9. ASSUME reply[c].of = {j} PROVE Follows(reply[c].job, reply'[c].job)
  <2>1. status[j] # "lost"
    BY <1>2 DEF JobStatus
  <2>2. reply[c].job.status # "not_found"
    BY <1>9, <2>1 DEF AnswerInOrder
  <2>3. Prefix(reply[c].job.errors, errors[j])
    BY <1>9, <2>1, <2>2 DEF AnswerInOrder, Earlier, Stage
  <2>4. /\ Progress(reply[c].job) <= Progress(poll[c].job)
        /\ reply[c].job.done <= poll[c].job.done
        /\ Prefix(reply[c].job.runs, poll[c].job.runs)
    BY <1>1, <1>9, <2>2 DEF AnswerInOrder
  <2>5. reply'[c].job.status # "not_found"
    BY <1>5 DEF View, JobStatus
  <2> QED  BY <1>3, <1>4, <2>2, <2>3, <2>4, <2>5 DEF Follows
<1> QED  BY <1>3, <1>5, <1>7, <1>8, <1>9

LEMMA LostStep ==
  TypeOK /\ PollsSound /\ LostByRestart /\ [Next]_vars => LostByRestart'
<1> SUFFICES ASSUME TypeOK, PollsSound, LostByRestart, [Next]_vars
             PROVE  LostByRestart'
  OBVIOUS
<1>1. CASE Restart
  <2>1. restarts \in Nat
    BY ConstantsAssumption DEF TypeOK
  <2>2. restarts' > 0
    BY <1>1, <2>1 DEF Restart
  <2> QED  BY <2>2 DEF LostByRestart
<1>2. ASSUME ~Restart PROVE LostByRestart'
  <2>1. restarts' = restarts /\ \A j \in Job : status'[j] = "lost" => status[j] = "lost"
    <3>1. CASE UNCHANGED vars
      BY <3>1 DEF vars
    <3>2. ASSUME NEW j \in Job, NEW named \in SUBSET Spec_ids, Submit(j, named)
          PROVE  restarts' = restarts /\ \A i \in Job : status'[i] = "lost" => status[i] = "lost"
      BY <3>2 DEF Submit, TypeOK
    <3>3. ASSUME NEW j \in Job, JobStep(j)
          PROVE  restarts' = restarts /\ \A i \in Job : status'[i] = "lost" => status[i] = "lost"
      BY <3>3 DEF JobStep, Begin, Complete, CollectRun, CollectError, SetWork, TypeOK
    <3>4. ASSUME NEW j \in Job, NEW s \in Deliveries, WorkerStep(j, s)
          PROVE  restarts' = restarts /\ status' = status
      BY <3>4 DEF WorkerStep, Take, Execute, SetWork
    <3>5. ASSUME NEW c \in Client, NEW j \in Job,
                 CopyJob(c, j) \/ PollStep(c, j) \/ AnswerNotFound(c, j)
          PROVE  restarts' = restarts /\ status' = status
      BY <3>5
      DEF CopyJob, PollStep, SerialiseRuns, SerialiseErrors, AnswerNotFound, SetPoll
    <3> QED  BY <1>2, <3>1, <3>2, <3>3, <3>4, <3>5 DEF Next
  <2>2. ASSUME NEW c \in Client, reply'[c].of # {}, reply'[c].job.status = "not_found"
        PROVE  restarts' > 0
    <3>1. CASE reply'[c] = reply[c]
      BY <2>1, <2>2, <3>1 DEF LostByRestart
    <3>2. ASSUME NEW j \in Job, AnswerNotFound(c, j)
          PROVE  restarts' > 0
      BY <2>1, <3>2 DEF AnswerNotFound, LostByRestart
    <3>3. ASSUME NEW j \in Job, SerialiseErrors(c, j)
          PROVE  FALSE
      <4>1. /\ poll[c].of = {j}
            /\ reply'[c].job = [poll[c].job EXCEPT !.errors = errors[j]]
        BY <3>3 DEF SerialiseErrors, TypeOK
      <4>2. poll[c].job \in View
        BY <4>1, PollIsView
      <4>3. reply'[c].job.status = poll[c].job.status
        BY <4>1, <4>2 DEF View, JobView
      <4> QED  BY <2>2, <4>2, <4>3 DEF View, JobStatus
    <3>4. ASSUME NEW j \in Job, CopyJob(c, j) \/ SerialiseRuns(c, j)
          PROVE  reply'[c] = reply[c]
      BY <3>4 DEF CopyJob, SerialiseRuns
    <3> QED  BY <1>2, <3>1, <3>2, <3>3, <3>4, HeldByClient DEF PollStep
  <2> QED  BY <2>1, <2>2 DEF LostByRestart
<1> QED  BY <1>1, <1>2

LEMMA InOrderStep ==
  TypeOK /\ TypeOK' /\ JobsSound /\ PollsSound /\ InOrder /\ [Next]_vars => InOrder'
<1> SUFFICES ASSUME TypeOK, TypeOK', JobsSound, PollsSound, InOrder, [Next]_vars,
                    NEW c \in Client
             PROVE  PollInOrder(c)' /\ AnswerInOrder(c)'
  BY LostStep DEF InOrder
<1>1. PollInOrder(c) /\ AnswerInOrder(c)
  BY DEF InOrder
<1>2. CASE Restart
  <2>1. poll'[c].of = {} /\ reply'[c] = reply[c]
    BY <1>2 DEF Restart, Idle
  <2>2. \A j \in Job : reply[c].of = {j} => status'[j] = "lost"
    BY <1>2, AnswerIsView DEF Restart, JobStatus
  <2> QED  BY <2>1, <2>2 DEF PollInOrder, AnswerInOrder
<1>3. ASSUME NEW j \in Job, CopyJob(c, j)
      PROVE  PollInOrder(c)' /\ AnswerInOrder(c)'
  BY <1>1, <1>3, CopyInOrder
<1>4. ASSUME NEW j \in Job, SerialiseRuns(c, j)
      PROVE  PollInOrder(c)' /\ AnswerInOrder(c)'
  BY <1>1, <1>4, SerialiseRunsInOrder
<1>5. ASSUME NEW j \in Job, SerialiseErrors(c, j)
      PROVE  PollInOrder(c)' /\ AnswerInOrder(c)'
  BY <1>1, <1>5, SerialiseErrorsInOrder
<1>6. ASSUME NEW j \in Job, AnswerNotFound(c, j)
      PROVE  PollInOrder(c)' /\ AnswerInOrder(c)'
  <2>1. /\ poll'[c] = Idle /\ reply'[c] = [of |-> {j}, job |-> NoJob]
        /\ status'[j] = "lost"
    BY <1>6 DEF AnswerNotFound, SetPoll, TypeOK
  <2>2. PollInOrder(c)'
    BY <2>1 DEF PollInOrder, Idle
  <2>3. AnswerInOrder(c)'
    <3> SUFFICES ASSUME NEW i \in Job, reply'[c].of = {i}
                 PROVE  reply'[c].job.status = "not_found" /\ status'[i] = "lost"
      BY DEF AnswerInOrder
    <3>1. i = j
      BY <2>1
    <3> QED  BY <2>1, <3>1 DEF NoJob
  <2> QED  BY <2>2, <2>3
<1>7. ASSUME ~Restart,
             ~ \E j \in Job : CopyJob(c, j) \/ PollStep(c, j) \/ AnswerNotFound(c, j)
      PROVE  PollInOrder(c)' /\ AnswerInOrder(c)'
  BY <1>1, <1>7, HeldByClient, OrderFrame
<1> QED  BY <1>2, <1>3, <1>4, <1>5, <1>6, <1>7 DEF PollStep

LEMMA FollowsProgressed ==
  ASSUME TypeOK, TypeOK', NEW c \in Client, Follows(reply[c].job, reply'[c].job)
  PROVE  Progressed(c)
<1>1. /\ reply[c].job.runs \in Seq(Deliveries) /\ reply'[c].job.runs \in Seq(Deliveries)
      /\ reply[c].job.errors \in Seq(Deliveries) /\ reply'[c].job.errors \in Seq(Deliveries)
  BY DEF TypeOK, JobView
<1>2. /\ SubSeq(reply'[c].job.runs, 1, Len(reply[c].job.runs)) = reply[c].job.runs
      /\ SubSeq(reply'[c].job.errors, 1, Len(reply[c].job.errors)) = reply[c].job.errors
  <2>1. SubSeq(reply'[c].job.runs, 1, Len(reply[c].job.runs)) = reply[c].job.runs
    BY <1>1, PrefixOrder DEF Follows
  <2>2. SubSeq(reply'[c].job.errors, 1, Len(reply[c].job.errors)) = reply[c].job.errors
    BY <1>1, PrefixOrder DEF Follows
  <2> QED  BY <2>1, <2>2
<1> QED  BY <1>2 DEF Follows, Progressed

LEMMA ProgressStep ==
  ASSUME TypeOK, TypeOK', PollsSound, InOrder, [Next]_vars, NEW c \in Client
  PROVE  Progressed(c)
<1>1. CASE reply'[c] = reply[c]
  <2>1. CASE reply[c].job.status = "not_found"
    BY <1>1, <2>1 DEF InOrder, LostByRestart, Progressed
  <2>2. CASE reply[c].job.status # "not_found"
    <3>1. reply[c].job \in View
      BY <2>2 DEF TypeOK, View, JobView
    <3>2. Earlier(reply[c].job, reply[c].job)
      BY <3>1, EarlierOrder
    <3>3. Follows(reply[c].job, reply'[c].job)
      BY <1>1, <2>2, <3>2 DEF Earlier, Follows
    <3> QED  BY <3>3, FollowsProgressed
  <2> QED  BY <2>1, <2>2
<1>2. ASSUME NEW j \in Job, SerialiseErrors(c, j)
      PROVE  Progressed(c)
  <2>1. /\ reply'[c].of = {j}
        /\ reply[c].of = {j} => Follows(reply[c].job, reply'[c].job)
    BY <1>2, SerialiseErrorsInOrder DEF InOrder
  <2>2. CASE reply[c].of = {j}
    BY <2>1, <2>2, FollowsProgressed
  <2>3. CASE reply[c].of # {j}
    BY <2>1, <2>3 DEF Progressed
  <2> QED  BY <2>2, <2>3
<1>3. ASSUME NEW j \in Job, AnswerNotFound(c, j)
      PROVE  Progressed(c)
  <2>1. reply'[c].job = NoJob /\ status[j] = "lost"
    BY <1>3 DEF AnswerNotFound, TypeOK
  <2>2. reply'[c].job.status = "not_found" /\ restarts > 0
    BY <2>1 DEF NoJob, InOrder, LostByRestart
  <2> QED  BY <2>2 DEF Progressed
<1>4. ASSUME NEW j \in Job, CopyJob(c, j) \/ SerialiseRuns(c, j)
      PROVE  reply'[c] = reply[c]
  BY <1>4 DEF CopyJob, SerialiseRuns
<1>5. CASE Restart
  BY <1>1, <1>5 DEF Restart
<1> QED  BY <1>1, <1>2, <1>3, <1>4, <1>5, HeldByClient DEF PollStep

LEMMA AlwaysInOrder == Spec => [](TypeOK /\ JobsSound /\ PollsSound /\ InOrder)
BY TypeCorrect, JobsAlwaysSound, PollsInit, PollsStep, InOrderInit, InOrderStep, PTL
DEF Spec

\* A client that polls a job again never sees it go backwards.
THEOREM AnswersNeverGoBack == Spec => AnswersProgress
<1>1. TypeOK /\ TypeOK' /\ PollsSound /\ InOrder /\ [Next]_vars =>
        [\A c \in Client : Progressed(c)]_reply
  BY ProgressStep
<1> QED  BY <1>1, AlwaysInOrder, PTL DEF Spec, AnswersProgress
=============================================================================
