---------------------------- MODULE MCWebClient ----------------------------
(* Two deliveries, a stored run and one new run.                           *)
EXTENDS WebClient

MCSpec_ids == {23920, 23921}
=============================================================================
