---------------------------- MODULE RollupLedger ----------------------------
(***************************************************************************)
(* What the rollup pipeline promises, without offsets, batches in flight,  *)
(* locks, crashes or replays: a log of events that only grows, the set of  *)
(* markers of what each consumer has aggregated, and rollup tables that    *)
(* are at every moment the recomputation of that set.  A step aggregates   *)
(* for one consumer a set of logged events it has not aggregated before,   *)
(* whole and once.                                                         *)
(*                                                                         *)
(* Source: the docstring of app/workers/rollup_worker.py (lines 24-43) and *)
(* of _process_batch (lines 223-233) describe this contract.               *)
(***************************************************************************)
EXTENDS Rollups

VARIABLES
  log,          \* the committed events
  aggregated,   \* markers of the events each consumer has aggregated
  tables        \* rollup_minute, rollup_hour, rollup_day

vars == <<log, aggregated, tables>>

Init ==
  /\ log = {}
  /\ aggregated = {}
  /\ tables = Recomputed({})

\* An ingestion makes a set of new events visible.
Record(E) ==
  /\ E \cap log = {}
  /\ log' = log \cup E
  /\ UNCHANGED <<aggregated, tables>>

\* Consumer c aggregates the events E, none of which it had aggregated.
Aggregate(c, E) ==
  /\ E \subseteq log
  /\ ({c} \X E) \cap aggregated = {}
  /\ aggregated' = aggregated \cup ({c} \X E)
  /\ tables' = Recomputed(aggregated')
  /\ UNCHANGED log

Next ==
  \/ \E E \in SUBSET Event : Record(E)
  \/ \E c \in Consumer, E \in SUBSET Event : Aggregate(c, E)

Spec == Init /\ [][Next]_vars
=============================================================================
