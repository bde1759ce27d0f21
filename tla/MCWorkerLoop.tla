---------------------------- MODULE MCWorkerLoop ----------------------------
(***************************************************************************)
(* The instance of WorkerLoop for TLC: one event more than fits in a batch.*)
(***************************************************************************)
EXTENDS WorkerLoop

MCEvent == {"e1", "e2", "e3"}
=============================================================================
