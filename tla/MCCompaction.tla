---------------------------- MODULE MCCompaction ----------------------------
(***************************************************************************)
(* Instances of Compaction for TLC.  Both merchants have two events: a row *)
(* can be overwritten between two of them, and two workers can each have a *)
(* batch with both rows, so that any two of the transactions can lock the  *)
(* two rows in opposite orders.                                            *)
(***************************************************************************)
EXTENDS Compaction

MCMerchants == {"m1", "m2"}
MCMerchantOf == [e \in Event |-> IF e \in {"e1", "e2"} THEN "m1" ELSE "m2"]

MCFourEvents == {"e1", "e2", "e3", "e4"}
MCTwoRuns == {"r1", "r2"}
MCOneWorker == {"w1"}
MCTwoWorkers == {"w1", "w2"}
=============================================================================
