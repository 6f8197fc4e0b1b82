--------------------------- MODULE MCAlertWorker ---------------------------
(* Instance of AlertWorker for TLC: see MCAlertWorker.cfg. *)
EXTENDS AlertWorker
=============================================================================
