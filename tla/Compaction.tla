----------------------------- MODULE Compaction -----------------------------
(***************************************************************************)
(* The nightly compaction of one day, any number of times, next to the     *)
(* live rollup workers that may still add late events to that day.  All of *)
(* them write rollup_day and take its row locks one row at a time, in an   *)
(* order nothing fixes; each is one READ COMMITTED transaction:            *)
(*                                                                         *)
(*   worker:     lock and increment the day rows of a batch -> commit      *)
(*   compaction: sum rollup_hour in one snapshot -> lock and overwrite the *)
(*               day rows with it -> compare day and hour -> snapshot the  *)
(*               leaderboard -> commit                                     *)
(*                                                                         *)
(* rollup_hour is not a variable: it is exact (RollupsExact), so a         *)
(* merchant's hours sum to the number of its committed events.  Counts     *)
(* stand for amounts as well, and a row for its merchant: event type and   *)
(* day are fixed.                                                          *)
(*                                                                         *)
(* Source: scripts/nightly_compaction.py, app/repositories/                *)
(* rollup_repository.py (_batch_upsert), app/workers/rollup_worker.py.     *)
(***************************************************************************)
EXTENDS Ranking

CONSTANTS
  Event,        \* PAYMENT_CONFIRMED events of the day
  Merchant,
  MerchantOf,   \* the merchant of an event
  Worker,       \* workers that share one consumer id
  Run,          \* compaction runs
  TopLimit,     \* LIMIT of the leaderboard snapshot
  ReportLimit   \* LIMIT of the discrepancy report

ASSUME MerchantAssumption == MerchantOf \in [Event -> Merchant]
ASSUME FiniteAssumption == IsFiniteSet(Event) /\ IsFiniteSet(Merchant)
ASSUME TxnAssumption == Worker \cap Run = {}
ASSUME LimitAssumption == TopLimit \in Nat \ {0} /\ ReportLimit \in Nat \ {0}

VARIABLES
  processed,    \* events in rollup_hour: those of the worker's commits
  day,          \* rollup_day, committed: the count of a merchant's row
  board,        \* leaderboard_snapshots, committed: the rank of a merchant
  batch,        \* events each worker's open transaction has marked as new
  todo,         \* rows a transaction has still to lock
  held,         \* rows a transaction has locked
  pc,           \* where each run is
  snap,         \* what a run's SELECT over rollup_hour returned
  ranks,        \* the ranks a run writes to leaderboard_snapshots
  warned,       \* the rows a run has reported
  quiet         \* no worker commit since the run's snapshot

runVars == <<pc, snap, ranks, warned, quiet>>
vars == <<processed, day, board, batch, todo, held, runVars>>

Txn == Run \cup Worker
Rank == 0 .. Cardinality(Merchant)   \* 0: the merchant has no row

HourCount(m) == Cardinality({e \in processed : MerchantOf[e] = m})
Delta(w, m) == Cardinality({e \in batch[w] : MerchantOf[e] = m})
Merchants(E) == {MerchantOf[e] : e \in E}
NoCounts == [m \in Merchant |-> 0]
Free(t, m) == \A u \in Txn \ {t} : m \notin held[u]

Init ==
  /\ processed = {}
  /\ batch = [w \in Worker |-> {}]
  /\ day = [m \in Merchant |-> 0]
  /\ board = [m \in Merchant |-> 0]
  /\ todo = [t \in Txn |-> {}]
  /\ held = [t \in Txn |-> {}]
  /\ pc = [r \in Run |-> "idle"]
  /\ snap = [r \in Run |-> NoCounts]
  /\ ranks = [r \in Run |-> NoCounts]
  /\ warned = [r \in Run |-> {}]
  /\ quiet = [r \in Run |-> FALSE]

\* Mutant of Release: the transaction stays open.
ReleaseNothing(t) == UNCHANGED <<todo, held>>

\* The row locks of a transaction end with it.
Release(t) ==
  /\ todo' = [todo EXCEPT ![t] = {}]
  /\ held' = [held EXCEPT ![t] = {}]

\* The next row of an upsert statement: waits while another open transaction
\* has it locked.
LockRow(t, m) ==
  /\ m \in todo[t] /\ Free(t, m)
  /\ todo' = [todo EXCEPT ![t] = @ \ {m}]
  /\ held' = [held EXCEPT ![t] = @ \cup {m}]
-----------------------------------------------------------------------------
\* A worker's transaction reaches batch_upsert_day with the events it has
\* marked as new; nobody else holds a marker of them.
BeginBatch(w, E) ==
  /\ batch[w] = {} /\ E # {} /\ E \cap processed = {}
  /\ \A v \in Worker : E \cap batch[v] = {}
  /\ batch' = [batch EXCEPT ![w] = E]
  /\ todo' = [todo EXCEPT ![w] = Merchants(E)]
  /\ UNCHANGED <<processed, day, board, held, runVars>>

\* Any order: that of the dict _aggregate_batch returns follows the page.
UpsertDelta(w, m) ==
  /\ LockRow(w, m)
  /\ UNCHANGED <<processed, day, board, batch, runVars>>

\* count = count + EXCLUDED.count, on the row as it is when it is locked, and
\* rollup_hour in the same transaction.
CommitBatch(w) ==
  /\ batch[w] # {} /\ todo[w] = {}
  /\ processed' = processed \cup batch[w]
  /\ day' = [m \in Merchant |-> day[m] + Delta(w, m)]
  /\ batch' = [batch EXCEPT ![w] = {}]
  /\ quiet' = [r \in Run |-> FALSE]
  /\ Release(w)
  /\ UNCHANGED <<board, pc, snap, ranks, warned>>

DropBatch(w) ==
  /\ batch[w] # {} /\ batch' = [batch EXCEPT ![w] = {}]
  /\ Release(w)
  /\ UNCHANGED <<processed, day, board, runVars>>
-----------------------------------------------------------------------------
\* INSERT INTO rollup_day SELECT ... FROM rollup_hour: one snapshot for the
\* whole statement.
ReadHours(r) ==
  /\ pc[r] = "idle"
  /\ snap' = [snap EXCEPT ![r] = [m \in Merchant |-> HourCount(m)]]
  /\ todo' = [todo EXCEPT ![r] = Merchants(processed)]
  /\ quiet' = [quiet EXCEPT ![r] = TRUE]
  /\ pc' = [pc EXCEPT ![r] = "upsert"]
  /\ UNCHANGED <<processed, day, board, batch, held, ranks, warned>>

\* ... ON CONFLICT DO UPDATE SET count = EXCLUDED.count
OverwriteRow(r, m) ==
  /\ pc[r] = "upsert" /\ LockRow(r, m)
  /\ UNCHANGED <<processed, day, board, batch, runVars>>

\* Mutant of DayRow: the run adds to the row, as the worker does.
DayRowAdded(r, m) == IF m \in held[r] THEN day[m] + snap[r][m] ELSE day[m]

\* A row of rollup_day as the run's own transaction sees it.
DayRow(r, m) == IF m \in held[r] THEN snap[r][m] ELSE day[m]

\* Mutant of Discrepancies: compares with what the first statement read.
DiscrepanciesOfSnapshot(r) == {m \in Merchant : DayRow(r, m) # snap[r][m]}

\* The discrepancy query, a statement with a snapshot of its own.
Discrepancies(r) == {m \in Merchant : DayRow(r, m) # HourCount(m)}

Report(r) ==
  /\ pc[r] = "upsert" /\ todo[r] = {}
  /\ \E W \in SUBSET Discrepancies(r) :
       /\ Cardinality(W) = Min({ReportLimit, Cardinality(Discrepancies(r))})
       /\ warned' = [warned EXCEPT ![r] = W]
  /\ pc' = [pc EXCEPT ![r] = "snapshot"]
  /\ UNCHANGED <<processed, day, board, batch, todo, held, snap, ranks, quiet>>

\* Mutant of RankOf: a merchant counts among those before it.
RankOfLast(r, m) == 1 + Cardinality({n \in Merchant : DayRow(r, n) >= DayRow(r, m)})

\* Mutant of RankOf: ranks what was committed before the run's own overwrites.
RankOfCommitted(r, m) == 1 + Cardinality({n \in Merchant : day[n] > day[m]})

\* RANK() OVER (ORDER BY SUM(amount) DESC) LIMIT 100
RankOf(r, m) == 1 + Cardinality({n \in Merchant : DayRow(r, n) > DayRow(r, m)})

SnapshotLeaderboard(r) ==
  /\ pc[r] = "snapshot"
  /\ \E T \in SUBSET Merchant :
       /\ IsTop(T, TopLimit, [m \in Merchant |-> DayRow(r, m)])
       /\ ranks' = [ranks EXCEPT ![r] =
            [m \in Merchant |-> IF m \in T THEN RankOf(r, m) ELSE 0]]
  /\ pc' = [pc EXCEPT ![r] = "commit"]
  /\ UNCHANGED <<processed, day, board, batch, todo, held, snap, warned, quiet>>

\* The locks of a run, and what it has read, end with its transaction.
EndRun(r) ==
  /\ Release(r)
  /\ snap' = [snap EXCEPT ![r] = NoCounts]
  /\ ranks' = [ranks EXCEPT ![r] = NoCounts]
  /\ quiet' = [quiet EXCEPT ![r] = FALSE]

\* ON CONFLICT (period, period_start, merchant_id) DO UPDATE: the rows of
\* merchants that are not in the top stay as they are.  (Locks on these rows
\* are left out: two runs that reach them hold the same day rows, unless one
\* of them started on an empty day.)
CommitRun(r) ==
  /\ pc[r] = "commit"
  /\ day' = [m \in Merchant |-> DayRow(r, m)]
  /\ board' = [m \in Merchant |-> IF ranks[r][m] > 0 THEN ranks[r][m] ELSE board[m]]
  /\ pc' = [pc EXCEPT ![r] = "done"]
  /\ EndRun(r)
  /\ UNCHANGED <<processed, batch, warned>>

DropRun(r) ==
  /\ pc[r] \in {"upsert", "snapshot", "commit"}
  /\ pc' = [pc EXCEPT ![r] = "failed"]
  /\ warned' = [warned EXCEPT ![r] = {}]
  /\ EndRun(r)
  /\ UNCHANGED <<processed, day, board, batch>>
-----------------------------------------------------------------------------
\* Lost connection or crash of one of them, any number of times.
Abort == (\E w \in Worker : DropBatch(w)) \/ (\E r \in Run : DropRun(r))

\* The transactions of D wait only for each other, and one waits for t.
DeadlockedWith(t, D) ==
  /\ \A u \in D : todo[u] # {} /\ todo[u] \subseteq UNION {held[v] : v \in D \ {u}}
  /\ \E u \in D \ {t} : todo[u] \cap held[t] # {}
Deadlocked(t) == \E D \in SUBSET Txn : t \in D /\ DeadlockedWith(t, D)

\* PostgreSQL fails one of them.
DeadlockVictim ==
  \/ \E w \in Worker : Deadlocked(w) /\ DropBatch(w)
  \/ \E r \in Run : Deadlocked(r) /\ DropRun(r)

\* What a transaction does until it commits.
WorkerGoesOn(w) == (\E m \in Merchant : UpsertDelta(w, m)) \/ CommitBatch(w)
RunGoesOn(r) ==
  \/ \E m \in Merchant : OverwriteRow(r, m)
  \/ Report(r) \/ SnapshotLeaderboard(r) \/ CommitRun(r)

WorkerStep(w) == (\E E \in SUBSET Event : BeginBatch(w, E)) \/ WorkerGoesOn(w)
RunStep(r) == ReadHours(r) \/ RunGoesOn(r)

Next ==
  \/ \E w \in Worker : WorkerStep(w)
  \/ \E r \in Run : RunStep(r)
  \/ Abort \/ DeadlockVictim

Spec == Init /\ [][Next]_vars

\* An open transaction goes on when it can.  A row's lock goes to those that
\* wait for it in turn, so that one that waits is not overtaken for ever by
\* transactions that start later, a restarted deadlock victim among them: its
\* next step may be enabled only now and then, and is taken all the same.
\* Nothing makes a worker or a run begin.
FairSpec ==
  /\ Spec /\ WF_vars(DeadlockVictim)
  /\ \A w \in Worker : SF_vars(WorkerGoesOn(w))
  /\ \A r \in Run : SF_vars(RunGoesOn(r))
-----------------------------------------------------------------------------
TypeOK ==
  /\ processed \in SUBSET Event /\ batch \in [Worker -> SUBSET Event]
  /\ day \in [Merchant -> 0 .. Cardinality(Event)]
  /\ board \in [Merchant -> Rank]
  /\ todo \in [Txn -> SUBSET Merchant] /\ held \in [Txn -> SUBSET Merchant]
  /\ pc \in [Run -> {"idle", "upsert", "snapshot", "commit", "done", "failed"}]
  /\ snap \in [Run -> [Merchant -> 0 .. Cardinality(Event)]]
  /\ ranks \in [Run -> [Merchant -> Rank]]
  /\ warned \in [Run -> SUBSET Merchant]
  /\ quiet \in [Run -> BOOLEAN]

(***************************************************************************)
(* Nothing is counted twice: however the worker's increments and the       *)
(* overwrites of any number of runs interleave, abort and are retried, a   *)
(* row of rollup_day never says more than rollup_hour does.                *)
(***************************************************************************)
DayNeverExceedsHours == \A m \in Merchant : day[m] <= HourCount(m)

(***************************************************************************)
(* The discrepancy report misses nothing: a row of rollup_day that says    *)
(* less than rollup_hour is one that a completed run has warned about, or  *)
(* that run's report was full.  The report runs on a later snapshot than   *)
(* the sums, and while the run holds the locks of the rows it overwrote.   *)
(***************************************************************************)
LossIsReported ==
  \A m \in Merchant : day[m] # HourCount(m) =>
    \E r \in Run : /\ pc[r] = "done"
                   /\ m \in warned[r] \/ Cardinality(warned[r]) = ReportLimit

Commits(r) == pc[r] = "commit" /\ pc'[r] = "done"

(***************************************************************************)
(* A run during which the worker commits nothing repairs the day, whatever *)
(* earlier or concurrent runs have overwritten.                            *)
(***************************************************************************)
QuietRunRepairs ==
  [][\A r \in Run : Commits(r) /\ quiet[r] =>
       \A m \in Merchant : day'[m] = HourCount(m)]_vars

(***************************************************************************)
(* Every transaction that starts ends, although each takes its row locks   *)
(* in an order of its own: two workers whose batches list the same rows in *)
(* different orders may wait for each other, two runs may, and a run and a *)
(* worker; and what one of them ends to break the cycle may come back and  *)
(* ask for the same rows.                                                  *)
(***************************************************************************)
EveryTransactionEnds ==
  /\ \A r \in Run : []<>(pc[r] \in {"idle", "done", "failed"})
  /\ \A w \in Worker : []<>(batch[w] = {})

HourRank(m) == 1 + Cardinality({n \in Merchant : HourCount(n) > HourCount(m)})

(***************************************************************************)
(* The snapshot a run leaves is that of the day it has just repaired: when *)
(* the worker has committed nothing since the run's sums, the run writes   *)
(* the first TopLimit merchants of the day with their true ranks, although *)
(* it ranks rows that other runs were overwriting, and it touches no other *)
(* row.  (The other rows may be those of an earlier run, of merchants the  *)
(* LIMIT now cuts off: no statement removes them, see                      *)
(* SnapshotIsPointInTime.)                                                 *)
(***************************************************************************)
QuietRunRanksTheDay ==
  [][\A r \in Run : Commits(r) /\ quiet[r] =>
       \E T \in SUBSET Merchant :
         /\ IsTop(T, TopLimit, [m \in Merchant |-> HourCount(m)])
         /\ \A m \in Merchant :
              board'[m] = IF m \in T THEN HourRank(m) ELSE board[m]]_vars

(***************************************************************************)
(* "Point-in-time leaderboard snapshot for the completed day": after a     *)
(* run the worker left alone, the snapshot rows of the day are one         *)
(* ranking, in which a merchant that made more stands before one that made *)
(* less.                                                                   *)
(***************************************************************************)
SnapshotIsPointInTime ==
  [][\A r \in Run : Commits(r) /\ quiet[r] =>
       \A m, n \in Merchant :
         board'[m] > 0 /\ board'[n] > 0 /\ HourCount(m) > HourCount(n)
           => board'[m] < board'[n]]_vars
=============================================================================
