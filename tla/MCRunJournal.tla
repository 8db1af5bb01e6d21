--------------------------- MODULE MCRunJournal ---------------------------
(* Two executors save runs of up to two issues while a reader pages through  *)
(* the history one run at a time.                                            *)
EXTENDS RunJournal
=============================================================================
