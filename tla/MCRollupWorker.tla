--------------------------- MODULE MCRollupWorker ---------------------------
(***************************************************************************)
(* Instances of RollupWorker for TLC.  Events 1 and 2 fall in the same     *)
(* minute, event 3 an hour later on the same day.  Requests: "batch" is a  *)
(* POST /events/batch of events 1 and 2, "single" a POST /events of event  *)
(* 3; in the one-row instances every event has a request of its own.       *)
(***************************************************************************)
EXTENDS RollupWorker

MCEvent == 1 .. 3
MCTwoEvents == 1 .. 2
MCMerchantOf == [e \in Event |-> "m"]
MCTypeOf == [e \in Event |-> "PAYMENT_CONFIRMED"]
MCTsOf == [e \in Event |-> IF e = 3 THEN 3660 ELSE 10 * e]
MCAmountOf == [e \in Event |-> <<5, 2, 7>>[e]]

MCBatchRequest == {"batch", "single"}
MCBatchRequestOf == [e \in Event |-> IF e = 3 THEN "single" ELSE "batch"]
MCRowRequestOf == [e \in Event |-> e]

MCConsumer == {"c1"}
MCWorker == {"w1", "w2"}
MCSharedConsumerOf == [w \in Worker |-> "c1"]
=============================================================================
