---------------------------- MODULE RollupWorker ----------------------------
(***************************************************************************)
(* The rollup path: ingest transactions that append to raw_events, and     *)
(* workers that each run _process_batch over it in a loop, one PostgreSQL  *)
(* transaction (READ COMMITTED) per batch:                                 *)
(*                                                                         *)
(*   read the offset -> fetch a page -> insert markers -> upsert the       *)
(*   rollups, advance the offset, commit -> post-commit work (Redis)       *)
(*                                                                         *)
(* Every step after an await is an action of its own, so any number of     *)
(* workers, with the same or different consumer ids, and any number of     *)
(* ingest transactions interleave.  A worker may crash or roll back at     *)
(* every step; the offset may be deleted to force a replay.                *)
(*                                                                         *)
(* Writes are applied at the commit.  That is exact: markers in flight     *)
(* block a concurrent insert of the same marker (Holds below), and a       *)
(* rollup row that was upserted is locked until the transaction ends, so   *)
(* "count = count + EXCLUDED.count" of two transactions cannot interleave. *)
(*                                                                         *)
(* Source: app/workers/rollup_worker.py, app/repositories/                 *)
(* event_repository.py (get_events_after), app/repositories/               *)
(* rollup_repository.py (offsets, batch upserts), app/db/engine.py.        *)
(***************************************************************************)
EXTENDS Rollups

CONSTANTS
  Worker,       \* worker processes
  ConsumerOf,   \* get_consumer_id() of a worker
  Request,      \* ingest requests: one transaction each
  RequestOf,    \* the request an event arrives in (its batch)
  BatchSize,    \* settings.worker_batch_size, the LIMIT of a page
  NoEvent,      \* the missing offset (None)
  MaxClock,     \* bound: last start time of an ingest transaction
  MaxFaults     \* bound: crashes, rolled-back batches and offset resets

ASSUME WorkerAssumption == ConsumerOf \in [Worker -> Consumer]
ASSUME RequestAssumption == RequestOf \in [Event -> Request]
ASSUME BatchAssumption == BatchSize \in Nat \ {0}
ASSUME NoEventAssumption == NoEvent \notin Event
ASSUME BoundAssumption == MaxClock \in Nat /\ MaxFaults \in Nat

VARIABLES
  clock,        \* PostgreSQL's clock
  txn,          \* state of each ingest transaction
  startedAt,    \* its now(): created_at of every row it inserts
  late,         \* history: events committed when a later created_at was visible
  markers,      \* processed_rollup_events, committed
  rollup,       \* rollup_minute, rollup_hour, rollup_day, committed
  offset,       \* consumer_offsets: last_event_id of each consumer
  pc,           \* where each worker is in _process_batch
  cursor,       \* last_event_id it read
  page,         \* the events it fetched
  last,         \* events[-1]
  fresh,        \* the markers its insert returned (new_ids)
  faults        \* crashes, rollbacks and resets so far

ingestVars == <<clock, txn, startedAt, late>>
tableVars == <<markers, rollup, offset>>
workerVars == <<pc, cursor, page, last, fresh>>
vars == <<ingestVars, tableVars, workerVars, faults>>

CreatedAt(e) == startedAt[RequestOf[e]]
Committed == {e \in Event : txn[RequestOf[e]] = "committed"}

\* The transaction of worker w is open and has inserted its markers: until it
\* ends, an insert of the same marker by another worker waits.
Holds(w) == IF pc[w] = "marked" THEN fresh[w] ELSE {}

Init ==
  /\ clock = 0
  /\ txn = [r \in Request |-> "idle"]
  /\ startedAt = [r \in Request |-> 0]
  /\ late = {}
  /\ markers = {}
  /\ rollup = EmptyTables
  /\ offset = [c \in Consumer |-> NoEvent]
  /\ pc = [w \in Worker |-> "idle"]
  /\ cursor = [w \in Worker |-> NoEvent]
  /\ page = [w \in Worker |-> {}]
  /\ last = [w \in Worker |-> NoEvent]
  /\ fresh = [w \in Worker |-> {}]
  /\ faults = 0
-----------------------------------------------------------------------------
(***************************************************************************)
(* Ingestion, as far as the worker sees it.  created_at defaults to        *)
(* now(), the START of the transaction; the rows are visible from the      *)
(* commit on.  Two transactions may start within one microsecond.          *)
(***************************************************************************)
BeginIngest(r) ==
  /\ txn[r] = "idle"
  /\ clock < MaxClock
  /\ \E t \in {clock, clock + 1} :
       /\ clock' = t
       /\ startedAt' = [startedAt EXCEPT ![r] = t]
  /\ txn' = [txn EXCEPT ![r] = "open"]
  /\ UNCHANGED <<late, tableVars, workerVars, faults>>

CommitIngest(r) ==
  /\ txn[r] = "open"
  /\ txn' = [txn EXCEPT ![r] = "committed"]
  /\ clock' = clock + 1
  /\ late' = late \cup {e \in Event : RequestOf[e] = r
                                     /\ \E f \in Committed : CreatedAt(f) > CreatedAt(e)}
  /\ UNCHANGED <<startedAt, tableVars, workerVars, faults>>

\* The transaction fails (Redis down, lost connection): no row was ever there,
\* and the client may send the request again.
RollbackIngest(r) ==
  /\ txn[r] = "open"
  /\ txn' = [txn EXCEPT ![r] = "idle"]
  /\ UNCHANGED <<clock, startedAt, late, tableVars, workerVars, faults>>
-----------------------------------------------------------------------------
(***************************************************************************)
(* get_events_after: the rows a page is cut from, its order and its LIMIT. *)
(* Without an offset the ORDER BY is created_at alone, so rows of equal    *)
(* created_at come in any order; with one it is created_at, id.            *)
(***************************************************************************)
After(c) ==
  IF c = NoEvent THEN Committed
  ELSE {e \in Committed : CreatedAt(e) > CreatedAt(c)}

Precedes(c, e, f) ==
  \/ CreatedAt(e) < CreatedAt(f)
  \/ CreatedAt(e) = CreatedAt(f) /\ (c = NoEvent \/ e < f)

\* Mutant of IsPage: no ORDER BY.
IsPageUnordered(c, P) ==
  /\ P \subseteq After(c)
  /\ Cardinality(P) = Min({BatchSize, Cardinality(After(c))})

IsPage(c, P) ==
  /\ P \subseteq After(c)
  /\ Cardinality(P) = Min({BatchSize, Cardinality(After(c))})
  /\ \A e \in P, f \in After(c) \ P : Precedes(c, e, f)

IsLast(c, P, e) == e \in P /\ \A f \in P \ {e} : Precedes(c, f, e)

\* The locals of _process_batch go out of scope.
Forget(w) ==
  /\ cursor' = [cursor EXCEPT ![w] = NoEvent]
  /\ page' = [page EXCEPT ![w] = {}]
  /\ last' = [last EXCEPT ![w] = NoEvent]
  /\ fresh' = [fresh EXCEPT ![w] = {}]

\* session opened; get_consumer_offset
ReadOffset(w) ==
  /\ pc[w] = "idle"
  /\ cursor' = [cursor EXCEPT ![w] = offset[ConsumerOf[w]]]
  /\ pc' = [pc EXCEPT ![w] = "cursor"]
  /\ UNCHANGED <<ingestVars, tableVars, page, last, fresh, faults>>

\* Mutant of FetchNothing: waits for a NOTIFY without a timeout.
FetchNothingWaits(w) ==
  /\ pc[w] = "cursor"
  /\ After(cursor[w]) = {}
  /\ pc' = [pc EXCEPT ![w] = "waiting"]
  /\ Forget(w)
  /\ UNCHANGED <<ingestVars, tableVars, faults>>

\* The page is empty: _process_batch returns 0 and the loop polls again.
FetchNothing(w) ==
  /\ pc[w] = "cursor"
  /\ After(cursor[w]) = {}
  /\ pc' = [pc EXCEPT ![w] = "idle"]
  /\ Forget(w)
  /\ UNCHANGED <<ingestVars, tableVars, faults>>

FetchPage(w) ==
  /\ pc[w] = "cursor"
  /\ \E P \in SUBSET After(cursor[w]) \ {{}} :
       /\ IsPage(cursor[w], P)
       /\ page' = [page EXCEPT ![w] = P]
       /\ \E e \in P : /\ IsLast(cursor[w], P, e)
                       /\ last' = [last EXCEPT ![w] = e]
  /\ pc' = [pc EXCEPT ![w] = "page"]
  /\ UNCHANGED <<ingestVars, tableVars, cursor, fresh, faults>>

\* Mutant of InsertMarkers: takes every id of the page for a new one.
InsertMarkersAllNew(w) ==
  /\ pc[w] = "page"
  /\ LET wanted == {ConsumerOf[w]} \X page[w] IN
       /\ \A v \in Worker \ {w} : Holds(v) \cap wanted = {}
       /\ fresh' = [fresh EXCEPT ![w] = wanted]
  /\ pc' = [pc EXCEPT ![w] = "marked"]
  /\ UNCHANGED <<ingestVars, tableVars, cursor, page, last, faults>>

\* Mutant of InsertMarkers: SELECTs the markers that exist instead of letting
\* the unique index decide, so it does not wait for an open transaction.
InsertMarkersNoWait(w) ==
  /\ pc[w] = "page"
  /\ fresh' = [fresh EXCEPT ![w] = ({ConsumerOf[w]} \X page[w]) \ markers]
  /\ pc' = [pc EXCEPT ![w] = "marked"]
  /\ UNCHANGED <<ingestVars, tableVars, cursor, page, last, faults>>

\* Mutant of InsertMarkers: the offset is written first, in a transaction of
\* its own.
InsertMarkersEarlyOffset(w) ==
  /\ pc[w] = "page"
  /\ LET wanted == {ConsumerOf[w]} \X page[w] IN
       /\ \A v \in Worker \ {w} : Holds(v) \cap wanted = {}
       /\ fresh' = [fresh EXCEPT ![w] = wanted \ markers]
  /\ offset' = [offset EXCEPT ![ConsumerOf[w]] = last[w]]
  /\ pc' = [pc EXCEPT ![w] = "marked"]
  /\ UNCHANGED <<ingestVars, markers, rollup, cursor, page, last, faults>>

\* _insert_processed_markers: waits while another open transaction holds a
\* marker of the page, then RETURNING names the markers that are new.
InsertMarkers(w) ==
  /\ pc[w] = "page"
  /\ LET wanted == {ConsumerOf[w]} \X page[w] IN
       /\ \A v \in Worker \ {w} : Holds(v) \cap wanted = {}
       /\ fresh' = [fresh EXCEPT ![w] = wanted \ markers]
  /\ pc' = [pc EXCEPT ![w] = "marked"]
  /\ UNCHANGED <<ingestVars, tableVars, cursor, page, last, faults>>

\* batch_upsert_* of the new events (none when new_events is empty),
\* upsert_consumer_offset and session.commit(): one atomic transaction.
CommitBatch(w) ==
  /\ pc[w] = "marked"
  /\ markers' = markers \cup fresh[w]
  /\ rollup' = Upsert(rollup, fresh[w])
  /\ offset' = [offset EXCEPT ![ConsumerOf[w]] = last[w]]
  /\ pc' = [pc EXCEPT ![w] = "committed"]
  /\ UNCHANGED <<ingestVars, cursor, page, last, fresh, faults>>

\* Leaderboard, heartbeat and metrics: outside the transaction, and an error
\* in them only sends the loop round again.
FinishBatch(w) ==
  /\ pc[w] = "committed"
  /\ pc' = [pc EXCEPT ![w] = "idle"]
  /\ Forget(w)
  /\ UNCHANGED <<ingestVars, tableVars, faults>>
-----------------------------------------------------------------------------
\* The transaction of w ends without a commit.
DropBatch(w, next) ==
  /\ faults < MaxFaults
  /\ faults' = faults + 1
  /\ pc' = [pc EXCEPT ![w] = next]
  /\ Forget(w)
  /\ UNCHANGED <<ingestVars, tableVars>>

\* An exception inside the transaction (deadlock victim, lost connection): the
\* session rolls back, _process_loop logs, sleeps a second and goes on.
AbortBatch(w) == pc[w] \in {"cursor", "page", "marked"} /\ DropBatch(w, "idle")

\* The process dies; PostgreSQL rolls its open transaction back.
Crash(w) == pc[w] # "down" /\ DropBatch(w, "down")

Restart(w) ==
  /\ pc[w] = "down"
  /\ pc' = [pc EXCEPT ![w] = "idle"]
  /\ UNCHANGED <<ingestVars, tableVars, cursor, page, last, fresh, faults>>

\* Mutant of ResetOffset: the reset clears the consumer's markers as well.
ResetOffsetAndMarkers(c) ==
  /\ faults < MaxFaults
  /\ faults' = faults + 1
  /\ offset' = [offset EXCEPT ![c] = NoEvent]
  /\ markers' = markers \ ({c} \X Event)
  /\ UNCHANGED <<ingestVars, rollup, workerVars>>

\* An operator deletes the consumer's offset to replay the stream; the
\* markers and the rollups stay.
ResetOffset(c) ==
  /\ faults < MaxFaults
  /\ faults' = faults + 1
  /\ offset' = [offset EXCEPT ![c] = NoEvent]
  /\ UNCHANGED <<ingestVars, markers, rollup, workerVars>>
-----------------------------------------------------------------------------
Ingest == \E r \in Request : BeginIngest(r) \/ CommitIngest(r) \/ RollbackIngest(r)

Batch(w) ==
  \/ ReadOffset(w) \/ FetchNothing(w) \/ FetchPage(w) \/ InsertMarkers(w)
  \/ CommitBatch(w) \/ FinishBatch(w) \/ Restart(w)

Next ==
  \/ Ingest
  \/ \E w \in Worker : Batch(w) \/ AbortBatch(w) \/ Crash(w)
  \/ \E c \in Consumer : ResetOffset(c)

Spec == Init /\ [][Next]_vars

\* asyncio keeps running a worker's loop, which polls when nobody notifies it,
\* and the process supervisor restarts a dead worker; ingest requests, crashes
\* and resets need not happen.
Fairness == \A w \in Worker : WF_vars(Batch(w))

FairSpec == Spec /\ Fairness
-----------------------------------------------------------------------------
TypeOK ==
  /\ clock \in Nat
  /\ txn \in [Request -> {"idle", "open", "committed"}]
  /\ startedAt \in [Request -> Nat]
  /\ late \in SUBSET Event
  /\ markers \in SUBSET Marker
  /\ rollup \in [Granularity -> [Cells -> Row]]
  /\ offset \in [Consumer -> Event \cup {NoEvent}]
  /\ pc \in [Worker -> {"idle", "cursor", "page", "marked", "committed", "down"}]
  /\ cursor \in [Worker -> Event \cup {NoEvent}]
  /\ page \in [Worker -> SUBSET Event]
  /\ last \in [Worker -> Event \cup {NoEvent}]
  /\ fresh \in [Worker -> SUBSET Marker]
  /\ faults \in Nat

(***************************************************************************)
(* The rollup tables are exactly the recomputation of the marker table:    *)
(* every marker is counted once in each granularity, with its amount, and  *)
(* nothing else is, through crashes, rollbacks, replays and concurrent     *)
(* workers.  This is the atomicity of markers and upserts, and the         *)
(* "exactly-once" of _process_batch's docstring as the code provides it.   *)
(***************************************************************************)
RollupMatchesMarkers == rollup = Recomputed(markers)

(***************************************************************************)
(* What an open batch may rely on at its commit, whatever the others did   *)
(* since it fetched: its page is still committed and ends in last, the     *)
(* markers it holds are those of its page that nobody committed or holds,  *)
(* and together with the committed ones they cover the page.  This is ON   *)
(* CONFLICT DO NOTHING with its wait on an uncommitted conflicting row.    *)
(***************************************************************************)
InFlightBatches ==
  /\ \A w \in Worker : pc[w] \in {"page", "marked"} =>
       /\ last[w] \in page[w]
       /\ page[w] \subseteq Committed
  /\ \A w \in Worker : pc[w] = "marked" =>
       /\ fresh[w] \subseteq {ConsumerOf[w]} \X page[w]
       /\ {ConsumerOf[w]} \X page[w] \subseteq markers \cup fresh[w]
       /\ fresh[w] \cap markers = {}
  /\ \A v, w \in Worker : v # w => Holds(v) \cap Holds(w) = {}

\* Only committed events are ever marked.
MarkersAreCommitted == \A m \in markers : m[2] \in Committed

(***************************************************************************)
(* The offset never points at an event its consumer has not aggregated:    *)
(* markers, rollups and offset commit together.                            *)
(***************************************************************************)
OffsetIsAggregated ==
  \A c \in Consumer : offset[c] # NoEvent => <<c, offset[c]>> \in markers

\* The inductive invariant the proofs rest on.
IInv ==
  /\ TypeOK /\ RollupMatchesMarkers /\ InFlightBatches
  /\ OffsetIsAggregated /\ MarkersAreCommitted

(***************************************************************************)
(* No dashboard number exceeds what was ingested: a cell counts at most    *)
(* the committed events that fall in it.  Holds with one consumer id.      *)
(***************************************************************************)
NeverOvercounts ==
  \A g \in Granularity, x \in Cells :
    rollup[g][x].count <= Cardinality({e \in Committed : Cell(g, e) = x})

\* The consumer has aggregated an event of the same created_at.
Reached(c, e) ==
  \E f \in Event : <<c, f>> \in markers /\ CreatedAt(f) = CreatedAt(e)

\* The offset has passed an event that the strict comparison, or the order of
\* the commits, hides from the consumer.
Lost(c, e) ==
  /\ offset[c] # NoEvent /\ CreatedAt(e) <= CreatedAt(offset[c])
  /\ e \in late \/ Reached(c, e)

(***************************************************************************)
(* get_events_after never returns an event at or before the offset again,  *)
(* and loses one in two ways only: it became visible when a later          *)
(* created_at already was, or it shares created_at with an event that the  *)
(* consumer has aggregated (a page ended between the two).  Whatever       *)
(* requests, workers, crashes and resets do, an event that is neither has  *)
(* been aggregated when the offset passes it.                              *)
(***************************************************************************)
LostOnlyLateOrTied ==
  \A c \in Consumer, e \in Committed \ late :
    offset[c] # NoEvent /\ CreatedAt(e) <= CreatedAt(offset[c]) => Reached(c, e)

(***************************************************************************)
(* The cursor is monotone in created_at: an event older than the offset    *)
(* has been aggregated.                                                    *)
(***************************************************************************)
NothingOlderThanOffset ==
  \A c \in Consumer, e \in Committed :
    offset[c] # NoEvent /\ CreatedAt(e) < CreatedAt(offset[c])
      => <<c, e>> \in markers

(***************************************************************************)
(* The poll loop alone catches up, time and again: every committed event   *)
(* is aggregated in the end, unless the offset has passed it, and then it  *)
(* is late, or another event of its created_at was aggregated in its       *)
(* place.  Competing workers, failing batches, crashes and resets of the   *)
(* offset only delay it.                                                   *)
(***************************************************************************)
EventuallyAggregated ==
  \A c \in {ConsumerOf[w] : w \in Worker} :
    []<>(\A e \in Committed : <<c, e>> \in markers \/ Lost(c, e))

(***************************************************************************)
(* The worker implements the ledger: every step of it records new events,  *)
(* aggregates a set of them for one consumer whole and once, or changes    *)
(* nothing of what the ledger shows.                                       *)
(***************************************************************************)
Ledger == INSTANCE RollupLedger WITH
            log <- Committed, aggregated <- markers, tables <- rollup
LedgerSpec == Ledger!Spec
=============================================================================
