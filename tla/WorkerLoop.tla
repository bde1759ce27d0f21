----------------------------- MODULE WorkerLoop -----------------------------
(***************************************************************************)
(* One worker process: two coroutines on one event loop, a flag that wakes *)
(* one of them, and a stop flag.                                           *)
(*                                                                         *)
(*   _process_loop:        batch -> if it was empty, wait for the wake-up  *)
(*                         flag or the poll interval, then clear the flag  *)
(*   _listen_notify_loop:  acquire a connection, LISTEN, sleep; the        *)
(*                         connection's callback sets the flag             *)
(*   _handle_shutdown:     clears _running and sets the flag               *)
(*                                                                         *)
(* A step is what runs between two awaits.  NOTIFY reaches a connection    *)
(* that listens when the notifying transaction commits; a connection may   *)
(* be lost, and then nobody uses it.  What a batch does is RollupWorker's  *)
(* matter: here it takes some events that are not aggregated yet.          *)
(*                                                                         *)
(* Source: app/workers/rollup_worker.py (RollupWorker.start,               *)
(* _handle_shutdown, _process_loop, _listen_notify_loop).                  *)
(***************************************************************************)
EXTENDS Naturals, FiniteSets, FiniteSetsExt

CONSTANTS
  Event,      \* events that are ingested while the worker runs
  BatchSize,  \* settings.worker_batch_size
  MaxErrors,  \* bound: batches that raise
  MaxLosses   \* bound: LISTEN connections that are lost or not obtained

ASSUME EventAssumption == IsFiniteSet(Event)
ASSUME BatchAssumption == BatchSize \in Nat \ {0}
ASSUME BoundAssumption == MaxErrors \in Nat /\ MaxLosses \in Nat

VARIABLES
  log,        \* committed events
  aggregated, \* events the worker has aggregated
  notices,    \* events whose NOTIFY is on its way to the connection
  heard,      \* events whose NOTIFY the callback has received
  running,    \* _running
  flag,       \* _notify_event
  loop,       \* where _process_loop is
  found,      \* the page of its open batch
  listener,   \* where _listen_notify_loop is
  errors, losses

data == <<log, aggregated>>
wire == <<notices, heard>>
loopVars == <<data, wire, running, flag, loop, found, listener, errors, losses>>

\* start: both coroutines are scheduled.
LoopInit ==
  /\ log = {} /\ aggregated = {} /\ notices = {} /\ heard = {} /\ found = {}
  /\ running = TRUE /\ flag = FALSE
  /\ loop = "check" /\ listener = "check"
  /\ errors = 0 /\ losses = 0
-----------------------------------------------------------------------------
\* An ingest transaction commits, and its NOTIFY with it.
Ingest(e) ==
  /\ e \notin log
  /\ log' = log \cup {e}
  /\ notices' = IF listener = "listening" THEN notices \cup {e} ELSE notices
  /\ UNCHANGED <<aggregated, heard, running, flag, loop, found, listener, errors, losses>>

\* _handler
HandleNotice(e) ==
  /\ e \in notices
  /\ notices' = notices \ {e}
  /\ heard' = heard \cup {e}
  /\ flag' = TRUE
  /\ UNCHANGED <<data, running, loop, found, listener, errors, losses>>

\* SIGTERM, SIGINT
HandleShutdown ==
  /\ running
  /\ running' = FALSE
  /\ flag' = TRUE
  /\ UNCHANGED <<data, wire, loop, found, listener, errors, losses>>
-----------------------------------------------------------------------------
\* The process loop's own steps leave the listener alone.
LoopOnly == UNCHANGED <<log, wire, running, listener, losses>>

CheckRunning ==
  /\ loop = "check"
  /\ loop' = IF running THEN "batch" ELSE "stopped"
  /\ UNCHANGED <<aggregated, flag, found, errors>> /\ LoopOnly

Fetch ==
  /\ loop = "batch"
  /\ \E P \in SUBSET (log \ aggregated) :
       /\ Cardinality(P) = Min({BatchSize, Cardinality(log \ aggregated)})
       /\ found' = P
       /\ loop' = IF P = {} THEN "empty" ELSE "commit"
  /\ UNCHANGED <<aggregated, flag, errors>> /\ LoopOnly

\* Mutant of CommitBatch: the page is kept for the next round.
CommitBatchKeepsPage ==
  /\ loop = "commit"
  /\ aggregated' = aggregated \cup found
  /\ loop' = "finish"
  /\ UNCHANGED <<flag, found, errors>> /\ LoopOnly

CommitBatch ==
  /\ loop = "commit"
  /\ aggregated' = aggregated \cup found
  /\ found' = {}
  /\ loop' = "finish"
  /\ UNCHANGED <<flag, errors>> /\ LoopOnly

\* The work after the commit; the batch was not empty, so no wait.
FinishBatch ==
  /\ loop = "finish"
  /\ loop' = "check"
  /\ UNCHANGED <<aggregated, flag, found, errors>> /\ LoopOnly

\* An exception anywhere in the batch: log it and sleep a second.
BatchFails ==
  /\ loop \in {"batch", "commit", "finish", "empty"} /\ errors < MaxErrors
  /\ errors' = errors + 1
  /\ found' = {}
  /\ loop' = "asleep"
  /\ UNCHANGED <<aggregated, flag>> /\ LoopOnly

Retry ==
  /\ loop = "asleep"
  /\ loop' = "check"
  /\ UNCHANGED <<aggregated, flag, found, errors>> /\ LoopOnly

\* Mutant of BeginWait: the flag is cleared before the wait.
BeginWaitClears ==
  /\ loop = "empty"
  /\ loop' = "waiting"
  /\ flag' = FALSE
  /\ UNCHANGED <<aggregated, found, errors>> /\ LoopOnly

\* The session of the empty batch is closed; wait_for(_notify_event.wait()).
BeginWait ==
  /\ loop = "empty"
  /\ loop' = "waiting"
  /\ UNCHANGED <<aggregated, flag, found, errors>> /\ LoopOnly

\* Mutant of EndWait: no timeout.
EndWaitOnlyWoken ==
  /\ loop = "waiting" /\ flag
  /\ loop' = "check"
  /\ flag' = FALSE
  /\ UNCHANGED <<aggregated, found, errors>> /\ LoopOnly

\* Woken or timed out.  The flag may also be set between the timeout and the
\* clear, so both ends of the wait are one step that drops whatever is there.
EndWait ==
  /\ loop = "waiting"
  /\ loop' = "check"
  /\ flag' = FALSE
  /\ UNCHANGED <<aggregated, found, errors>> /\ LoopOnly
-----------------------------------------------------------------------------
\* The listener's own steps leave the process loop alone.
ListenerOnly == UNCHANGED <<data, heard, running, flag, loop, found, errors>>

CheckListening ==
  /\ listener = "check"
  /\ listener' = IF running THEN "connect" ELSE "stopped"
  /\ UNCHANGED <<notices, losses>> /\ ListenerOnly

\* Acquire, LISTEN.
Listen ==
  /\ listener = "connect"
  /\ listener' = "listening"
  /\ UNCHANGED <<notices, losses>> /\ ListenerOnly

\* No connection: the five seconds' sleep, unless the worker stops.
ConnectFails ==
  /\ listener = "connect" /\ losses < MaxLosses
  /\ losses' = losses + 1
  /\ listener' = IF running THEN "asleep" ELSE "check"
  /\ UNCHANGED notices /\ ListenerOnly

Reconnect ==
  /\ listener = "asleep"
  /\ listener' = "check"
  /\ UNCHANGED <<notices, losses>> /\ ListenerOnly

\* The connection dies while the coroutine sleeps: nothing raises.
LoseConnection ==
  /\ listener = "listening" /\ losses < MaxLosses
  /\ losses' = losses + 1
  /\ listener' = "lost"
  /\ notices' = {}
  /\ ListenerOnly

\* Mutant of StopListening: waits for a notification instead of sleeping.
StopListeningWhenNotified ==
  /\ listener = "listening" /\ ~running /\ notices # {}
  /\ listener' = "check"
  /\ notices' = {}
  /\ UNCHANGED losses /\ ListenerOnly

\* The inner loop sees the stop flag: remove_listener, release.
StopListening ==
  /\ listener \in {"listening", "lost"} /\ ~running
  /\ listener' = "check"
  /\ notices' = {}
  /\ UNCHANGED losses /\ ListenerOnly
-----------------------------------------------------------------------------
LoopStep ==
  \/ CheckRunning \/ Fetch \/ CommitBatch \/ FinishBatch \/ Retry
  \/ BeginWait \/ EndWait

ListenerStep == CheckListening \/ Listen \/ Reconnect \/ StopListening

LoopNext ==
  \/ LoopStep \/ BatchFails
  \/ ListenerStep \/ ConnectFails \/ LoseConnection
  \/ HandleShutdown
  \/ \E e \in Event : Ingest(e) \/ HandleNotice(e)

\* asyncio runs every coroutine that is ready, and timers fire; signals,
\* requests and failures need not come.
LoopSpec ==
  /\ LoopInit /\ [][LoopNext]_loopVars
  /\ WF_loopVars(LoopStep) /\ WF_loopVars(ListenerStep)
-----------------------------------------------------------------------------
LoopTypeOK ==
  /\ log \in SUBSET Event /\ aggregated \in SUBSET log
  /\ notices \in SUBSET log /\ heard \in SUBSET (log \ notices)
  /\ running \in BOOLEAN /\ flag \in BOOLEAN
  /\ loop \in {"check", "batch", "commit", "finish", "empty", "waiting", "asleep", "stopped"}
  /\ found \in SUBSET (log \ aggregated)
  /\ listener \in {"check", "connect", "listening", "lost", "asleep", "stopped"}
  /\ errors \in 0 .. MaxErrors /\ losses \in 0 .. MaxLosses

(***************************************************************************)
(* No wake-up is lost: while the loop waits with its flag down, every      *)
(* event it was notified of is aggregated.  Clearing the flag after the    *)
(* wait is safe only because a fetch comes before the next wait, also      *)
(* when a notification arrives between the empty fetch and the wait, or    *)
(* a batch fails.                                                          *)
(***************************************************************************)
NoLostWakeup == loop = "waiting" /\ ~flag => heard \subseteq aggregated

(***************************************************************************)
(* NOTIFY is only an optimisation: every committed event is aggregated, or *)
(* the worker is told to stop, whatever happens to the LISTEN connection.  *)
(***************************************************************************)
PollIsEnough == \A e \in Event : e \in log ~> e \in aggregated \/ ~running

(***************************************************************************)
(* After a signal both coroutines end, wherever the signal finds them,     *)
(* also on a dead connection or in one of the sleeps; gather returns and   *)
(* the pool can be closed.                                                 *)
(***************************************************************************)
ShutdownEnds == ~running ~> loop = "stopped" /\ listener = "stopped"
=============================================================================
