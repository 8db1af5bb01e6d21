------------------------------- MODULE RunLog -------------------------------
(* What the journal promises: a log of runs.  A run enters it at once, with  *)
(* all of its items, under an identifier of its own, and stays as it is; a   *)
(* client is told only of runs that are in the log.                          *)
EXTENDS Integers

CONSTANTS Delivery, MaxRuns, MaxIssues

VARIABLES log,          \* the runs recorded so far
          acknowledged  \* the identifiers of the runs that clients were told of

vars == <<log, acknowledged>>

\* The items of a run are numbered from 0.
Runs == [run_id : 1..MaxRuns, spec_id : Delivery,
         items : {0..(n - 1) : n \in 0..MaxIssues}]

Init == log = {} /\ acknowledged = {}

Record(run) ==
  /\ run.run_id \notin {r.run_id : r \in log}
  /\ log' = log \cup {run}
  /\ UNCHANGED acknowledged

Acknowledge(run) ==
  /\ acknowledged' = acknowledged \cup {run.run_id}
  /\ UNCHANGED log

Next == (\E run \in Runs : Record(run)) \/ (\E run \in log : Acknowledge(run))

Spec == Init /\ [][Next]_vars
=============================================================================
