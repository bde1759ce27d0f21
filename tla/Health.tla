------------------------------- MODULE Health -------------------------------
(***************************************************************************)
(* GET /health of the replicas of Lifecycle, next to clients that send     *)
(* events and a worker that may be slow, down or was never started (it     *)
(* takes no step).                                                         *)
(*                                                                         *)
(* The handler asks PostgreSQL (SELECT 1 and the offset of the worker),    *)
(* then Redis, and derives a status: "down" without PostgreSQL, "degraded" *)
(* without Redis or when the last event of the offset occurred more than   *)
(* worker_lag_threshold_s ago, else "ok".  An event's occurred_at is taken *)
(* some time before it is committed; events are committed in the order of  *)
(* created_at, so the worker's cursor skips none of them here.             *)
(*                                                                         *)
(* Source: app/api/routes/health.py, app/workers/rollup_worker.py          *)
(* (_process_batch), app/repositories/rollup_repository.py.                *)
(***************************************************************************)
EXTENDS Lifecycle, Sequences, SequencesExt

CONSTANTS
  Threshold,  \* settings.worker_lag_threshold_s
  MaxLatency, \* bound: from an event's occurred_at to its commit
  WorkerBatchSize, \* settings.worker_batch_size
  Probed,     \* bound: the replicas that are asked
  MaxNow,     \* bound: time
  MaxEvents   \* bound: events

ASSUME HealthAssumption ==
  /\ Threshold \in Nat /\ MaxLatency \in Nat /\ WorkerBatchSize \in Nat \ {0}
  /\ Probed \subseteq Replica /\ MaxNow \in Nat /\ MaxEvents \in Nat

VARIABLES
  now,
  accepted,   \* how many events were accepted
  waiting,    \* occurred_at of those the worker has not aggregated
  lastAt,     \* consumer_offsets.last_event_at
  probe       \* the health request at each of them

stream == <<accepted, waiting, lastAt>>
vars == <<lifecycle, now, stream, probe>>

Never == -1
NoProbe == [at |-> "none", overall |-> "ok", lag |-> Never, behind |-> FALSE]

HealthInit ==
  /\ Init
  /\ now = 0
  /\ accepted = 0 /\ waiting = <<>>
  /\ lastAt = Never
  /\ probe = [r \in Probed |-> NoProbe]
-----------------------------------------------------------------------------
\* Time is counted from the first event on.
Tick ==
  /\ accepted > 0 /\ now < MaxNow
  /\ now' = now + 1
  /\ UNCHANGED <<lifecycle, stream, probe>>

\* POST /events at some replica
Accept ==
  /\ accepted < MaxEvents /\ dbUp /\ version = HeadRevision
  /\ \E r \in Replica : pc[r] = "serving"
  /\ accepted' = accepted + 1
  /\ \E t \in (now - MaxLatency) .. now : t >= 0 /\ waiting' = Append(waiting, t)
  /\ UNCHANGED <<lifecycle, now, lastAt, probe>>

PageLength == IF Len(waiting) < WorkerBatchSize THEN Len(waiting) ELSE WorkerBatchSize

\* What the worker's batch writes as last_event_at.
\* Mutant of LastEventAt: the time of the batch, not of its events.
UpdatedAt == now
\* Mutant of LastEventAt: the client's timestamp, which may be ahead.
ClientTimestamp == waiting[PageLength] + MaxLatency + 1
LastEventAt == waiting[PageLength]

Batch ==
  /\ dbUp /\ waiting # <<>>
  /\ lastAt' = LastEventAt
  /\ waiting' = SubSeq(waiting, PageLength + 1, Len(waiting))
  /\ UNCHANGED <<lifecycle, now, accepted, probe>>
-----------------------------------------------------------------------------
\* For the property: an event has waited for longer than the threshold and
\* what its commit may take.
Behind == waiting # <<>> /\ now - waiting[1] > Threshold + MaxLatency

\* The database part: SELECT 1, then get_consumer_offset.
AskDatabase(r) ==
  /\ pc[r] = "serving" /\ probe[r].at # "redis"
  /\ probe' = [probe EXCEPT ![r] =
       IF dbUp
       THEN [at |-> "redis", overall |-> "ok",
             lag |-> IF lastAt = Never THEN Never ELSE now - lastAt,
             behind |-> Behind]
       ELSE [NoProbe EXCEPT !.at = "redis", !.overall = "down"]]
  /\ UNCHANGED <<lifecycle, now, stream>>

Worse(overall) == IF overall = "ok" THEN "degraded" ELSE overall

\* The Redis part, the worker part, and the response.
AskRedis(r) ==
  /\ probe[r].at = "redis"
  /\ probe' = [probe EXCEPT ![r].at = "answered", ![r].overall =
       IF ~redisUp \/ probe[r].lag > Threshold THEN Worse(@) ELSE @]
  /\ UNCHANGED <<lifecycle, now, stream>>

\* Lifecycle runs on: a replica stops when its requests are answered, and a
\* request dies with its process.
LifecycleStep ==
  /\ Next
  /\ \A r \in Probed : pc[r] = "serving" /\ pc'[r] = "dispose" => probe[r].at # "redis"
  /\ probe' = [r \in Probed |-> IF pc'[r] = "serving" THEN probe[r] ELSE NoProbe]
  /\ UNCHANGED <<now, stream>>

HealthNext ==
  \/ LifecycleStep
  \/ Tick \/ Accept \/ Batch
  \/ \E r \in Probed : AskDatabase(r) \/ AskRedis(r)

HealthSpec == HealthInit /\ [][HealthNext]_vars

\* Of the worker and the requests nothing is assumed but that a request that
\* was begun is answered.
FairHealthSpec ==
  HealthSpec /\ Fairness /\ \A r \in Probed : WF_vars(AskRedis(r))
-----------------------------------------------------------------------------
HealthTypeOK ==
  /\ TypeOK
  /\ now \in 0 .. MaxNow /\ accepted \in 0 .. MaxEvents
  /\ waiting \in Seq(0 .. MaxNow) /\ Len(waiting) <= accepted
  /\ lastAt \in Never .. MaxNow
  /\ probe \in [Probed -> [at : {"none", "redis", "answered"},
                            overall : {"ok", "degraded", "down"},
                            lag : Never .. MaxNow, behind : BOOLEAN]]

SaysOk(r) == probe[r].at = "answered" /\ probe[r].overall = "ok" /\ probe[r].lag # Never

(***************************************************************************)
(* A worker that hangs or lags is reported: once it has an offset, "ok"    *)
(* means that no event had waited longer than the threshold and the time   *)
(* an event takes to be committed, however the worker pages through the    *)
(* events, and whatever fails between the two parts of the request.        *)
(* Assumed is that events are committed in the order of created_at and     *)
(* that the worker's cursor skips none: one that it lost (see              *)
(* LostOnlyLateOrTied of RollupWorker) would wait for ever under an "ok".  *)
(***************************************************************************)
OkMeansNoBacklog ==
  \A r \in Probed : SaysOk(r) => ~probe[r].behind
=============================================================================
