---------------------------- MODULE MCBatchJobs ----------------------------
(* Four deliveries, one of them more than a batch may hold, and a number     *)
(* that names none.                                                          *)
EXTENDS BatchJobs

MCSpec_ids == 0..4
=============================================================================
