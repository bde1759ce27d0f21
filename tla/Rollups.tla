------------------------------ MODULE Rollups ------------------------------
(***************************************************************************)
(* The data of the pipeline and the pure part of the rollup path: events,  *)
(* the minute/hour/day buckets, the cell of a rollup table an event falls  *)
(* in, the aggregation of a batch and the additive upsert of its result.   *)
(*                                                                         *)
(* Source: app/workers/rollup_worker.py (bucket helpers, _BucketAccum,     *)
(* _aggregate_batch), app/repositories/rollup_repository.py                *)
(* (_batch_upsert), app/models/orm.py (the tables).                        *)
(***************************************************************************)
EXTENDS Integers, FiniteSets, FiniteSetsExt, Functions

CONSTANTS
  Event,        \* raw_events rows; the number stands for the row's UUID, and
                \* its order for the order ORDER BY id puts random UUIDs in
  Consumer,     \* consumer ids (settings.worker_id) that ever run
  MerchantOf,   \* merchant_id of an event
  TypeOf,       \* event_type of an event
  TsOf,         \* client_timestamp or occurred_at, in seconds (UTC)
  AmountOf      \* amount_cents of an event

ASSUME EventAssumption == Event \subseteq Nat /\ IsFiniteSet(Event)
ASSUME ConsumerAssumption == IsFiniteSet(Consumer)
ASSUME TsAssumption == TsOf \in [Event -> Nat]
ASSUME AmountAssumption == AmountOf \in [Event -> Nat]

Granularity == {"minute", "hour", "day"}

(***************************************************************************)
(* _minute_bucket, _hour_bucket, _day_bucket: replace(second=0, ...) on a  *)
(* UTC timestamp drops the rest of the division by the bucket's width.     *)
(***************************************************************************)
Width == [minute |-> 60, hour |-> 3600, day |-> 86400]
Bucket(g, ts) == ts - (ts % Width[g])

(***************************************************************************)
(* Primary key of rollup_minute/hour/day: (merchant_id, bucket,            *)
(* event_type).  It does not hold the consumer id.                         *)
(***************************************************************************)
Cell(g, e) == <<MerchantOf[e], Bucket(g, TsOf[e]), TypeOf[e]>>
Cells == {Cell(g, e) : g \in Granularity, e \in Event}

(***************************************************************************)
(* A marker is a row (consumer_id, event_id) of processed_rollup_events.   *)
(***************************************************************************)
Marker == Consumer \X Event
InCell(M, g, x) == {m \in M : Cell(g, m[2]) = x}

(***************************************************************************)
(* A rollup row.  A count of 0 stands for a row that does not exist.       *)
(***************************************************************************)
Row == [count : Nat, sum : Nat, min : Nat, max : Nat]
NoRow == [count |-> 0, sum |-> 0, min |-> 0, max |-> 0]

(***************************************************************************)
(* _BucketAccum after add() of the amount of the event of every marker in  *)
(* M: the delta one cell receives.                                         *)
(***************************************************************************)
Amounts(M) == {AmountOf[m[2]] : m \in M}
AmountSum(M) == SumFunctionOnSet([m \in Marker |-> AmountOf[m[2]]], M)
Accum(M) ==
  IF M = {}
  THEN NoRow
  ELSE [count |-> Cardinality(M), sum |-> AmountSum(M),
        min |-> Min(Amounts(M)), max |-> Max(Amounts(M))]

\* Mutant of Merge: an amount is subtracted from an existing row.
MergeSubtracts(row, delta) ==
  IF row.count = 0 THEN delta
  ELSE [count |-> row.count + delta.count,
        sum   |-> row.sum - delta.sum,
        min   |-> Min({row.min, delta.min}),
        max   |-> Max({row.max, delta.max})]

\* Mutant of Merge: the maximum of the last batch replaces the row's.
MergeOverwritesMax(row, delta) ==
  IF row.count = 0 THEN delta
  ELSE [count |-> row.count + delta.count,
        sum   |-> row.sum + delta.sum,
        min   |-> Min({row.min, delta.min}),
        max   |-> delta.max]

(***************************************************************************)
(* INSERT ... ON CONFLICT DO UPDATE of _batch_upsert: a new row takes the  *)
(* delta; an existing one adds count and sum and keeps LEAST/GREATEST.     *)
(***************************************************************************)
Merge(row, delta) ==
  IF row.count = 0 THEN delta
  ELSE [count |-> row.count + delta.count,
        sum   |-> row.sum + delta.sum,
        min   |-> Min({row.min, delta.min}),
        max   |-> Max({row.max, delta.max})]

(***************************************************************************)
(* batch_upsert_minute, _hour and _day of _aggregate_batch of the newly    *)
(* marked events: only cells that received an event are touched.           *)
(***************************************************************************)
Upsert(tables, M) ==
  [g \in Granularity |->
    [x \in Cells |->
      IF InCell(M, g, x) = {} THEN tables[g][x]
      ELSE Merge(tables[g][x], Accum(InCell(M, g, x)))]]

EmptyTables == [g \in Granularity |-> [x \in Cells |-> NoRow]]

(***************************************************************************)
(* The reference: the tables recomputed from first principles out of the   *)
(* set of markers (README, "Additive Deltas vs. Full Recomputation").      *)
(***************************************************************************)
Recomputed(M) == [g \in Granularity |-> [x \in Cells |-> Accum(InCell(M, g, x))]]
=============================================================================
