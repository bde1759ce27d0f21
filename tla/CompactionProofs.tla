-------------------------- MODULE CompactionProofs --------------------------
(***************************************************************************)
(* The nightly compaction next to any number of workers, runs, events and  *)
(* merchants: a row of rollup_day never exceeds its hours, the report      *)
(* misses no row that falls short of them, and a run that no worker        *)
(* disturbs repairs the day and ranks it right.                            *)
(*                                                                         *)
(* Three facts carry the proofs: two transactions never hold one row, a    *)
(* transaction holds the rows it writes when it writes them, and what a    *)
(* run has read of the hours is never more than they are.                  *)
(***************************************************************************)
EXTENDS Compaction, FiniteSums

PC == {"idle", "upsert", "snapshot", "commit", "done", "failed"}

\* The shapes of the variables.
Shapes ==
  /\ processed \in SUBSET Event /\ batch \in [Worker -> SUBSET Event]
  /\ day \in [Merchant -> Nat]
  /\ board \in [Merchant -> Rank]
  /\ todo \in [Txn -> SUBSET Merchant] /\ held \in [Txn -> SUBSET Merchant]
  /\ pc \in [Run -> PC]
  /\ snap \in [Run -> [Merchant -> Nat]]
  /\ ranks \in [Run -> [Merchant -> Rank]]
  /\ warned \in [Run -> SUBSET Merchant]
  /\ quiet \in [Run -> BOOLEAN]

\* An event is new to one transaction at most, and to none once committed.
BatchesApart ==
  /\ \A w \in Worker : batch[w] \cap processed = {}
  /\ \A v, w \in Worker : v # w => batch[v] \cap batch[w] = {}

Active(r) == pc[r] \in {"upsert", "snapshot", "commit"}

\* A row is locked by one transaction at most, and a transaction locks the
\* rows it writes: a worker those of its batch, a run those it has read.
RowsApart == \A t, u \in Txn : t # u => held[t] \cap held[u] = {}
BatchRows(w) == held[w] \cup todo[w] = Merchants(batch[w])
RunRows(r) ==
  /\ Active(r) => held[r] \cup todo[r] = {m \in Merchant : snap[r][m] > 0}
  /\ ~Active(r) => held[r] = {}
  /\ pc[r] # "upsert" => todo[r] = {}

LocksHeld ==
  /\ RowsApart
  /\ \A w \in Worker : BatchRows(w)
  /\ \A r \in Run : RunRows(r)

\* Neither a row nor what a run has read exceeds the hours.
CountsBelow ==
  /\ DayNeverExceedsHours
  /\ \A r \in Run, m \in Merchant : snap[r][m] <= HourCount(m)

Reported(r, m) == m \in warned[r] \/ Cardinality(warned[r]) = ReportLimit

\* From its report to its commit, a run has reported the rows it is about to
\* write too small.
RunReports(r) ==
  pc[r] \in {"snapshot", "commit"} =>
    \A m \in held[r] : snap[r][m] # HourCount(m) => Reported(r, m)

LossSeen == LossIsReported /\ \A r \in Run : RunReports(r)

\* As long as no worker commits, what a run has read is what the hours are.
QuietRun(r) ==
  quiet[r] /\ Active(r) => \A m \in Merchant : snap[r][m] = HourCount(m)

QuietSnap == \A r \in Run : QuietRun(r)

CompactionInv ==
  /\ Shapes /\ BatchesApart /\ LocksHeld /\ CountsBelow /\ LossSeen /\ QuietSnap
-----------------------------------------------------------------------------
\* The counts are of finite sets.
LEMMA EventsFinite ==
  ASSUME NEW E \in SUBSET Event, NEW m
  PROVE  /\ IsFiniteSet({e \in E : MerchantOf[e] = m})
         /\ Cardinality({e \in E : MerchantOf[e] = m}) \in Nat
         /\ Cardinality({e \in E : MerchantOf[e] = m}) <= Cardinality(Event)
         /\ Cardinality({e \in E : MerchantOf[e] = m}) > 0 <=> m \in Merchants(E)
<1> DEFINE S == {e \in E : MerchantOf[e] = m}
<1>1. IsFiniteSet(S) /\ Cardinality(S) <= Cardinality(Event)
  <2>1. S \in SUBSET Event
    OBVIOUS
  <2> HIDE DEF S
  <2> QED  BY <2>1, FiniteAssumption, FS_Subset
<1>2. Cardinality(S) \in Nat
  <2> HIDE DEF S
  <2> QED  BY <1>1, FS_CardinalityType
<1>3. S = {} <=> m \notin Merchants(E)
  BY DEF Merchants
<1>4. Cardinality(S) = 0 <=> S = {}
  <2> HIDE DEF S
  <2> QED  BY <1>1, FS_EmptySet
<1> QED
  BY <1>1, <1>2, <1>3, <1>4

LEMMA HourType ==
  ASSUME processed \in SUBSET Event, NEW m
  PROVE  /\ HourCount(m) \in Nat /\ HourCount(m) <= Cardinality(Event)
         /\ HourCount(m) > 0 <=> m \in Merchants(processed)
  BY EventsFinite DEF HourCount

LEMMA DeltaType ==
  ASSUME NEW w \in Worker, batch[w] \in SUBSET Event, NEW m
  PROVE  Delta(w, m) \in Nat /\ (Delta(w, m) > 0 <=> m \in Merchants(batch[w]))
  BY EventsFinite DEF Delta

\* A commit adds a batch's share to a merchant's hours.
LEMMA HoursAdd ==
  ASSUME Shapes, BatchesApart, NEW w \in Worker, CommitBatch(w), NEW m
  PROVE  HourCount(m)' = HourCount(m) + Delta(w, m)
<1> DEFINE P == {e \in processed : MerchantOf[e] = m}
           B == {e \in batch[w] : MerchantOf[e] = m}
<1>1. {e \in processed' : MerchantOf[e] = m} = P \cup B
  BY DEF CommitBatch
<1>2. P \cap B = {}
  BY DEF BatchesApart
<1>3. /\ IsFiniteSet(P) /\ Cardinality(P) \in Nat
      /\ IsFiniteSet(B) /\ Cardinality(B) \in Nat
  BY EventsFinite DEF Shapes
<1> HIDE DEF P, B
<1>4. Cardinality(P \cup B) = Cardinality(P) + Cardinality(B)
  <2>1. Cardinality(P \cup B) = Cardinality(P) + Cardinality(B) - Cardinality({})
    BY <1>2, <1>3, FS_Union
  <2>2. Cardinality({}) = 0
    BY FS_EmptySet
  <2> QED  BY <1>3, <2>1, <2>2
<1> QED
  BY <1>1, <1>4 DEF HourCount, Delta, P, B

\* Nothing else changes the hours.
LEMMA HoursStay ==
  ASSUME UNCHANGED processed
  PROVE  \A m : HourCount(m)' = HourCount(m)
  BY DEF HourCount

\* The steps of the workers and the runs, those that fail among them.
LEMMA Steps ==
  ASSUME [Next]_vars
  PROVE  \/ \E w \in Worker, E \in SUBSET Event : BeginBatch(w, E)
         \/ \E w \in Worker, m \in Merchant : UpsertDelta(w, m)
         \/ \E w \in Worker : CommitBatch(w)
         \/ \E w \in Worker : DropBatch(w)
         \/ \E r \in Run : ReadHours(r)
         \/ \E r \in Run, m \in Merchant : OverwriteRow(r, m)
         \/ \E r \in Run : Report(r)
         \/ \E r \in Run : SnapshotLeaderboard(r)
         \/ \E r \in Run : CommitRun(r)
         \/ \E r \in Run : DropRun(r)
         \/ UNCHANGED vars
  BY DEF Next, WorkerStep, WorkerGoesOn, RunStep, RunGoesOn, Abort, DeadlockVictim
-----------------------------------------------------------------------------
LEMMA MerchantsOfEvents ==
  ASSUME NEW E \in SUBSET Event
  PROVE  Merchants(E) \in SUBSET Merchant
  BY MerchantAssumption DEF Merchants

\* A row as a run sees it is a number.
LEMMA DayRowType ==
  ASSUME Shapes, NEW r \in Run, NEW m \in Merchant
  PROVE  DayRow(r, m) \in Nat
  BY DEF Shapes, DayRow

\* The rank of one of finitely many, by any volume.
LEMMA RankType ==
  ASSUME NEW v \in [Merchant -> Nat], NEW m \in Merchant
  PROVE  /\ IsFiniteSet({n \in Merchant : v[n] > v[m]})
         /\ Cardinality({n \in Merchant : v[n] > v[m]}) \in Nat
         /\ 1 + Cardinality({n \in Merchant : v[n] > v[m]}) \in Rank
<1> DEFINE S == {n \in Merchant : v[n] > v[m]}
<1>1. S \in SUBSET (Merchant \ {m})
  OBVIOUS
<1> HIDE DEF S
<1>2. /\ IsFiniteSet(Merchant \ {m}) /\ Cardinality(Merchant) \in Nat
      /\ Cardinality(Merchant \ {m}) \in Nat
      /\ Cardinality(Merchant \ {m}) = Cardinality(Merchant) - 1
  BY FiniteAssumption, RemoveShrinks
<1>3. IsFiniteSet(S) /\ Cardinality(S) <= Cardinality(Merchant \ {m})
  BY <1>1, <1>2, FS_Subset
<1>4. Cardinality(S) \in Nat
  BY <1>3, FS_CardinalityType
<1>5. 1 + Cardinality(S) \in Rank
  BY <1>2, <1>3, <1>4 DEF Rank
<1> QED
  BY <1>3, <1>4, <1>5 DEF S

LEMMA RankOfType ==
  ASSUME Shapes, NEW r \in Run, NEW m \in Merchant
  PROVE  RankOf(r, m) \in Rank
<1> DEFINE v == [n \in Merchant |-> DayRow(r, n)]
<1>1. v \in [Merchant -> Nat]
  BY DayRowType
<1>2. {n \in Merchant : DayRow(r, n) > DayRow(r, m)} = {n \in Merchant : v[n] > v[m]}
  OBVIOUS
<1> HIDE DEF v
<1> QED
  BY <1>1, <1>2, RankType DEF RankOf

\* The locks of a transaction go with it, those of the others stay.
LEMMA Released ==
  ASSUME Shapes, NEW t \in Txn, Release(t)
  PROVE  /\ todo' \in [Txn -> SUBSET Merchant] /\ held' \in [Txn -> SUBSET Merchant]
         /\ todo'[t] = {} /\ held'[t] = {}
         /\ \A u \in Txn \ {t} : todo'[u] = todo[u] /\ held'[u] = held[u]
  BY DEF Shapes, Release

\* So does what a run has read.
LEMMA Ended ==
  ASSUME Shapes, NEW r \in Run, EndRun(r)
  PROVE  /\ todo' \in [Txn -> SUBSET Merchant] /\ held' \in [Txn -> SUBSET Merchant]
         /\ snap' \in [Run -> [Merchant -> Nat]] /\ ranks' \in [Run -> [Merchant -> Rank]]
         /\ quiet' \in [Run -> BOOLEAN]
         /\ todo'[r] = {} /\ held'[r] = {} /\ ~quiet'[r] /\ \A m \in Merchant : snap'[r][m] = 0
         /\ \A u \in Txn \ {r} : todo'[u] = todo[u] /\ held'[u] = held[u]
         /\ \A q \in Run \ {r} : snap'[q] = snap[q] /\ ranks'[q] = ranks[q] /\ quiet'[q] = quiet[q]
<1>1. /\ todo' \in [Txn -> SUBSET Merchant] /\ held' \in [Txn -> SUBSET Merchant]
      /\ todo'[r] = {} /\ held'[r] = {}
      /\ \A u \in Txn \ {r} : todo'[u] = todo[u] /\ held'[u] = held[u]
  BY Released DEF EndRun, Txn
<1>2. NoCounts \in [Merchant -> Nat] /\ NoCounts \in [Merchant -> Rank]
  BY FiniteAssumption, FS_CardinalityType DEF NoCounts, Rank
<1>3. \A m \in Merchant : NoCounts[m] = 0
  BY DEF NoCounts
<1> QED
  BY <1>1, <1>2, <1>3 DEF EndRun, Shapes

\* A lock that is taken was free, and is taken by one transaction.
LEMMA Locked ==
  ASSUME Shapes, NEW t \in Txn, NEW m \in Merchant, LockRow(t, m)
  PROVE  /\ todo' \in [Txn -> SUBSET Merchant] /\ held' \in [Txn -> SUBSET Merchant]
         /\ m \in todo[t] /\ todo'[t] = todo[t] \ {m} /\ held'[t] = held[t] \cup {m}
         /\ \A u \in Txn \ {t} : m \notin held[u] /\ todo'[u] = todo[u] /\ held'[u] = held[u]
  BY DEF Shapes, LockRow, Free

LEMMA StepShapes ==
  ASSUME Shapes, [Next]_vars
  PROVE  Shapes'
<1> USE DEF Txn
<1>1. ASSUME NEW w \in Worker, NEW E \in SUBSET Event, BeginBatch(w, E) PROVE Shapes'
  BY <1>1, MerchantsOfEvents DEF BeginBatch, Shapes, runVars
<1>2. ASSUME NEW w \in Worker, NEW m \in Merchant, UpsertDelta(w, m) PROVE Shapes'
  BY <1>2, Locked DEF UpsertDelta, Shapes, runVars
<1>3. ASSUME NEW w \in Worker, CommitBatch(w) PROVE Shapes'
  <2>1. day' \in [Merchant -> Nat]
    <3>1. \A m \in Merchant : day[m] \in Nat /\ Delta(w, m) \in Nat
      BY DeltaType DEF Shapes
    <3>2. \A m \in Merchant : day[m] + Delta(w, m) \in Nat
      BY <3>1
    <3> QED  BY <1>3, <3>2 DEF CommitBatch
  <2>2. todo' \in [Txn -> SUBSET Merchant] /\ held' \in [Txn -> SUBSET Merchant]
    BY <1>3, Released DEF CommitBatch
  <2> QED  BY <1>3, <2>1, <2>2 DEF CommitBatch, Shapes
<1>4. ASSUME NEW w \in Worker, DropBatch(w) PROVE Shapes'
  BY <1>4, Released DEF DropBatch, Shapes, runVars
<1>5. ASSUME NEW r \in Run, ReadHours(r) PROVE Shapes'
  <2>1. [m \in Merchant |-> HourCount(m)] \in [Merchant -> Nat]
    BY HourType DEF Shapes
  <2>2. Merchants(processed) \in SUBSET Merchant
    BY MerchantsOfEvents DEF Shapes
  <2> QED  BY <1>5, <2>1, <2>2 DEF ReadHours, Shapes, PC
<1>6. ASSUME NEW r \in Run, NEW m \in Merchant, OverwriteRow(r, m) PROVE Shapes'
  BY <1>6, Locked DEF OverwriteRow, Shapes, runVars
<1>7. ASSUME NEW r \in Run, Report(r) PROVE Shapes'
  <2>1. PICK W \in SUBSET Discrepancies(r) : warned' = [warned EXCEPT ![r] = W]
    BY <1>7 DEF Report
  <2>2. W \in SUBSET Merchant
    BY DEF Discrepancies
  <2> QED  BY <1>7, <2>1, <2>2 DEF Report, Shapes, PC
<1>8. ASSUME NEW r \in Run, SnapshotLeaderboard(r) PROVE Shapes'
  <2>1. PICK T \in SUBSET Merchant :
          ranks' = [ranks EXCEPT ![r] = [m \in Merchant |-> IF m \in T THEN RankOf(r, m) ELSE 0]]
    BY <1>8 DEF SnapshotLeaderboard
  <2>2. 0 \in Rank
    BY FiniteAssumption, FS_CardinalityType DEF Rank
  <2>3. ranks' \in [Run -> [Merchant -> Rank]]
    BY <2>1, <2>2, RankOfType DEF Shapes
  <2> QED  BY <1>8, <2>3 DEF SnapshotLeaderboard, Shapes, PC
<1>9. ASSUME NEW r \in Run, CommitRun(r) PROVE Shapes'
  <2>1. day' \in [Merchant -> Nat]
    BY <1>9, DayRowType DEF CommitRun
  <2>2. board' \in [Merchant -> Rank]
    BY <1>9 DEF CommitRun, Shapes
  <2>3. EndRun(r)
    BY <1>9 DEF CommitRun
  <2> QED  BY <1>9, <2>1, <2>2, <2>3, Ended DEF CommitRun, Shapes, PC
<1>10. ASSUME NEW r \in Run, DropRun(r) PROVE Shapes'
  BY <1>10, Ended DEF DropRun, Shapes, PC
<1>11. CASE UNCHANGED vars
  BY <1>11 DEF vars, runVars, Shapes
<1> QED
  BY <1>1, <1>2, <1>3, <1>4, <1>5, <1>6, <1>7, <1>8, <1>9, <1>10, <1>11, Steps

LEMMA StepBatches ==
  ASSUME Shapes, BatchesApart, [Next]_vars
  PROVE  BatchesApart'
<1>1. ASSUME NEW w \in Worker, NEW E \in SUBSET Event, BeginBatch(w, E) PROVE BatchesApart'
  BY <1>1 DEF BeginBatch, BatchesApart, Shapes
<1>2. ASSUME NEW w \in Worker, CommitBatch(w) PROVE BatchesApart'
  BY <1>2 DEF CommitBatch, BatchesApart, Shapes
<1>3. ASSUME NEW w \in Worker, DropBatch(w) PROVE BatchesApart'
  BY <1>3 DEF DropBatch, BatchesApart, Shapes
<1>4. CASE UNCHANGED <<processed, batch>>
  BY <1>4 DEF BatchesApart
<1> QED
  BY <1>1, <1>2, <1>3, <1>4, Steps DEF UpsertDelta, ReadHours, OverwriteRow, Report,
     SnapshotLeaderboard, CommitRun, DropRun, vars
-----------------------------------------------------------------------------
\* A transaction that ends leaves its rows to the others.
LEMMA ReleaseKeepsApart ==
  ASSUME Shapes, NEW t \in Txn, Release(t),
         RowsApart
  PROVE  RowsApart'
<1>1. \A u \in Txn : held'[u] \subseteq held[u]
  BY Released
<1> QED  BY <1>1 DEF RowsApart

LEMMA LockKeepsApart ==
  ASSUME Shapes, NEW t \in Txn, NEW m \in Merchant, LockRow(t, m),
         RowsApart
  PROVE  RowsApart'
<1>1. /\ held'[t] = held[t] \cup {m}
      /\ \A u \in Txn \ {t} : m \notin held[u] /\ held'[u] = held[u]
  BY Locked
<1> SUFFICES ASSUME NEW u \in Txn, NEW v \in Txn, u # v
             PROVE  held'[u] \cap held'[v] = {}
  BY DEF RowsApart
<1>2. CASE u = t
  BY <1>1, <1>2 DEF RowsApart
<1>3. CASE v = t
  BY <1>1, <1>3 DEF RowsApart
<1>4. CASE u # t /\ v # t
  BY <1>1, <1>4 DEF RowsApart
<1> QED  BY <1>2, <1>3, <1>4

LEMMA StepLocks ==
  ASSUME Shapes, LocksHeld, [Next]_vars
  PROVE  LocksHeld'
<1>W. Worker \subseteq Txn /\ Run \subseteq Txn /\ \A w \in Worker, r \in Run : w # r
  BY TxnAssumption DEF Txn
<1>L. RowsApart /\ (\A w \in Worker : BatchRows(w)) /\ (\A r \in Run : RunRows(r))
  BY DEF LocksHeld
<1>B. ASSUME NEW w \in Worker, batch'[w] = batch[w], todo'[w] = todo[w], held'[w] = held[w]
      PROVE  BatchRows(w)'
  BY <1>B, <1>L DEF BatchRows, Merchants
<1>R. ASSUME NEW r \in Run, pc'[r] = pc[r], snap'[r] = snap[r],
             todo'[r] = todo[r], held'[r] = held[r]
      PROVE  RunRows(r)'
  BY <1>R, <1>L DEF RunRows, Active
<1>1. ASSUME NEW w \in Worker, NEW E \in SUBSET Event, BeginBatch(w, E) PROVE LocksHeld'
  <2>1. /\ batch' = [batch EXCEPT ![w] = E] /\ todo' = [todo EXCEPT ![w] = Merchants(E)]
        /\ batch[w] = {} /\ UNCHANGED <<held, pc, snap>>
    BY <1>1 DEF BeginBatch, runVars
  <2>2. /\ batch'[w] = E /\ todo'[w] = Merchants(E) /\ held'[w] = {}
    BY <1>W, <1>L, <2>1 DEF BatchRows, Merchants, Shapes
  <2>3. BatchRows(w)'
    BY <2>2 DEF BatchRows, Merchants
  <2>4. \A v \in Worker \ {w} : BatchRows(v)'
    BY <1>W, <1>B, <2>1 DEF Shapes
  <2>5. \A r \in Run : RunRows(r)'
    BY <1>W, <1>R, <2>1 DEF Shapes
  <2>6. RowsApart'
    BY <1>L, <2>1 DEF RowsApart
  <2> QED  BY <2>3, <2>4, <2>5, <2>6 DEF LocksHeld
<1>2. ASSUME NEW w \in Worker, NEW m \in Merchant, UpsertDelta(w, m) PROVE LocksHeld'
  <2>1. UNCHANGED <<batch, pc, snap>> /\ LockRow(w, m)
    BY <1>2 DEF UpsertDelta, runVars
  <2>2. /\ m \in todo[w] /\ todo'[w] = todo[w] \ {m} /\ held'[w] = held[w] \cup {m}
        /\ \A u \in Txn \ {w} : todo'[u] = todo[u] /\ held'[u] = held[u]
    BY <1>W, <2>1, Locked
  <2>3. BatchRows(w)'
    BY <1>L, <2>1, <2>2 DEF BatchRows, Merchants
  <2>4. \A v \in Worker \ {w} : BatchRows(v)'
    BY <1>W, <1>B, <2>1, <2>2
  <2>5. \A r \in Run : RunRows(r)'
    BY <1>W, <1>R, <2>1, <2>2
  <2>6. RowsApart'
    BY <1>W, <1>L, <2>1, LockKeepsApart
  <2> QED  BY <2>3, <2>4, <2>5, <2>6 DEF LocksHeld
<1>3. ASSUME NEW w \in Worker, CommitBatch(w) \/ DropBatch(w) PROVE LocksHeld'
  <2>1. /\ batch' = [batch EXCEPT ![w] = {}] /\ UNCHANGED <<pc, snap>> /\ Release(w)
    BY <1>3 DEF CommitBatch, DropBatch, runVars
  <2>2. /\ todo'[w] = {} /\ held'[w] = {}
        /\ \A u \in Txn \ {w} : todo'[u] = todo[u] /\ held'[u] = held[u]
    BY <1>W, <2>1, Released
  <2>3. BatchRows(w)'
    BY <2>1, <2>2 DEF BatchRows, Merchants, Shapes
  <2>4. \A v \in Worker \ {w} : BatchRows(v)'
    BY <1>W, <1>B, <2>1, <2>2 DEF Shapes
  <2>5. \A r \in Run : RunRows(r)'
    BY <1>W, <1>R, <2>1, <2>2
  <2>6. RowsApart'
    BY <1>W, <1>L, <2>1, ReleaseKeepsApart
  <2> QED  BY <2>3, <2>4, <2>5, <2>6 DEF LocksHeld
<1>4. ASSUME NEW r \in Run, ReadHours(r) PROVE LocksHeld'
  <2>1. /\ pc[r] = "idle" /\ pc' = [pc EXCEPT ![r] = "upsert"] /\ UNCHANGED <<batch, held>>
        /\ snap' = [snap EXCEPT ![r] = [m \in Merchant |-> HourCount(m)]]
        /\ todo' = [todo EXCEPT ![r] = Merchants(processed)]
    BY <1>4 DEF ReadHours
  <2>2. /\ held'[r] = {} /\ todo'[r] = Merchants(processed) /\ pc'[r] = "upsert"
        /\ snap'[r] = [m \in Merchant |-> HourCount(m)]
    BY <1>W, <1>L, <2>1 DEF RunRows, Shapes, Active
  <2>3. {m \in Merchant : snap'[r][m] > 0} = Merchants(processed)
    <3>1. Merchants(processed) \in SUBSET Merchant
      BY MerchantsOfEvents DEF Shapes
    <3>2. \A m \in Merchant : HourCount(m) > 0 <=> m \in Merchants(processed)
      BY HourType DEF Shapes
    <3> QED  BY <2>2, <3>1, <3>2
  <2>4. RunRows(r)'
    BY <2>2, <2>3 DEF RunRows, Active
  <2>5. \A q \in Run \ {r} : RunRows(q)'
    BY <1>W, <1>R, <2>1 DEF Shapes
  <2>6. \A w \in Worker : BatchRows(w)'
    BY <1>W, <1>B, <2>1 DEF Shapes
  <2>7. RowsApart'
    BY <1>L, <2>1 DEF RowsApart
  <2> QED  BY <2>4, <2>5, <2>6, <2>7 DEF LocksHeld
<1>5. ASSUME NEW r \in Run, NEW m \in Merchant, OverwriteRow(r, m) PROVE LocksHeld'
  <2>1. UNCHANGED <<batch, pc, snap>> /\ LockRow(r, m) /\ pc[r] = "upsert"
    BY <1>5 DEF OverwriteRow, runVars
  <2>2. /\ m \in todo[r] /\ todo'[r] = todo[r] \ {m} /\ held'[r] = held[r] \cup {m}
        /\ \A u \in Txn \ {r} : todo'[u] = todo[u] /\ held'[u] = held[u]
    BY <1>W, <2>1, Locked
  <2>3. RunRows(r)'
    BY <1>L, <2>1, <2>2 DEF RunRows, Active
  <2>4. \A q \in Run \ {r} : RunRows(q)'
    BY <1>W, <1>R, <2>1, <2>2
  <2>5. \A w \in Worker : BatchRows(w)'
    BY <1>W, <1>B, <2>1, <2>2
  <2>6. RowsApart'
    BY <1>W, <1>L, <2>1, LockKeepsApart
  <2> QED  BY <2>3, <2>4, <2>5, <2>6 DEF LocksHeld
<1>6. ASSUME NEW r \in Run, Report(r) \/ SnapshotLeaderboard(r) PROVE LocksHeld'
  <2>1. /\ UNCHANGED <<batch, snap, todo, held>>
        /\ pc[r] \in {"upsert", "snapshot"} /\ (pc[r] = "upsert" => todo[r] = {})
        /\ \E l \in {"snapshot", "commit"} : pc' = [pc EXCEPT ![r] = l]
    BY <1>6 DEF Report, SnapshotLeaderboard
  <2>2. pc'[r] \in {"snapshot", "commit"} /\ \A q \in Run \ {r} : pc'[q] = pc[q]
    BY <2>1 DEF Shapes
  <2>3. RunRows(r)'
    BY <1>L, <2>1, <2>2 DEF RunRows, Active
  <2>4. \A q \in Run \ {r} : RunRows(q)'
    BY <1>R, <2>1, <2>2
  <2>5. \A w \in Worker : BatchRows(w)'
    BY <1>B, <2>1
  <2>6. RowsApart'
    BY <1>L, <2>1 DEF RowsApart
  <2> QED  BY <2>3, <2>4, <2>5, <2>6 DEF LocksHeld
<1>7. ASSUME NEW r \in Run, CommitRun(r) \/ DropRun(r) PROVE LocksHeld'
  <2>1. /\ UNCHANGED batch /\ EndRun(r) /\ Release(r)
        /\ \E l \in {"done", "failed"} : pc' = [pc EXCEPT ![r] = l]
    BY <1>7 DEF CommitRun, DropRun, EndRun
  <2>2. /\ todo'[r] = {} /\ held'[r] = {}
        /\ \A u \in Txn \ {r} : todo'[u] = todo[u] /\ held'[u] = held[u]
        /\ \A q \in Run \ {r} : snap'[q] = snap[q]
    BY <1>W, <2>1, Ended
  <2>3. pc'[r] \in {"done", "failed"} /\ \A q \in Run \ {r} : pc'[q] = pc[q]
    BY <2>1 DEF Shapes
  <2>4. RunRows(r)'
    BY <2>2, <2>3 DEF RunRows, Active
  <2>5. \A q \in Run \ {r} : RunRows(q)'
    BY <1>W, <1>R, <2>1, <2>2, <2>3
  <2>6. \A w \in Worker : BatchRows(w)'
    BY <1>W, <1>B, <2>1, <2>2
  <2>7. RowsApart'
    BY <1>W, <1>L, <2>1, ReleaseKeepsApart
  <2> QED  BY <2>4, <2>5, <2>6, <2>7 DEF LocksHeld
<1>8. CASE UNCHANGED vars
  <2>1. UNCHANGED <<batch, todo, held, pc, snap>>
    BY <1>8 DEF vars, runVars
  <2> QED  BY <1>L, <1>B, <1>R, <2>1 DEF LocksHeld, RowsApart
<1> QED
  BY <1>1, <1>2, <1>3, <1>4, <1>5, <1>6, <1>7, <1>8, Steps

LEMMA StepCounts ==
  ASSUME Shapes, BatchesApart, CountsBelow, [Next]_vars
  PROVE  CountsBelow'
<1>E. ASSUME NEW r \in Run, EndRun(r)
      PROVE  \A q \in Run, m \in Merchant : snap'[q][m] <= HourCount(m)
  <2>1. \A m \in Merchant : HourCount(m) \in Nat
    BY HourType DEF Shapes
  <2>2. \A m \in Merchant : snap'[r][m] = 0
    BY <1>E, Ended
  <2>3. \A q \in Run \ {r}, m \in Merchant : snap'[q][m] <= HourCount(m)
    BY <1>E, Ended DEF CountsBelow
  <2>4. \A m \in Merchant : snap'[r][m] <= HourCount(m)
    BY <2>1, <2>2
  <2> QED  BY <2>3, <2>4
<1>1. ASSUME NEW w \in Worker, CommitBatch(w) PROVE CountsBelow'
  <2> SUFFICES ASSUME NEW m \in Merchant
               PROVE  /\ day'[m] <= HourCount(m)'
                      /\ \A r \in Run : snap'[r][m] <= HourCount(m)'
    BY DEF CountsBelow, DayNeverExceedsHours
  <2>1. HourCount(m)' = HourCount(m) + Delta(w, m)
    BY <1>1, HoursAdd
  <2>2. HourCount(m) \in Nat /\ Delta(w, m) \in Nat /\ day[m] \in Nat
    BY HourType, DeltaType DEF Shapes
  <2>3. day'[m] = day[m] + Delta(w, m) /\ snap' = snap
    BY <1>1 DEF CommitBatch
  <2>4. day[m] <= HourCount(m) /\ \A r \in Run : snap[r][m] <= HourCount(m)
    BY DEF CountsBelow, DayNeverExceedsHours
  <2>5. day'[m] <= HourCount(m)'
    BY <2>1, <2>2, <2>3, <2>4
  <2>6. ASSUME NEW r \in Run PROVE snap'[r][m] <= HourCount(m)'
    <3>1. snap[r][m] \in Nat
      BY DEF Shapes
    <3> QED  BY <2>1, <2>2, <2>3, <2>4, <3>1
  <2> QED  BY <2>5, <2>6
<1>2. ASSUME NEW r \in Run, ReadHours(r) PROVE CountsBelow'
  <2>1. /\ UNCHANGED <<processed, day>>
        /\ snap' = [snap EXCEPT ![r] = [m \in Merchant |-> HourCount(m)]]
    BY <1>2 DEF ReadHours
  <2>2. \A m \in Merchant : HourCount(m) \in Nat
    BY HourType DEF Shapes
  <2>3. \A q \in Run, m \in Merchant : snap'[q][m] <= HourCount(m)
    BY <2>1, <2>2 DEF CountsBelow, Shapes
  <2> QED  BY <2>1, <2>3, HoursStay DEF CountsBelow, DayNeverExceedsHours
<1>3. ASSUME NEW r \in Run, CommitRun(r) PROVE CountsBelow'
  <2>1. UNCHANGED processed /\ EndRun(r) /\ day' = [m \in Merchant |-> DayRow(r, m)]
    BY <1>3 DEF CommitRun
  <2>2. \A m \in Merchant : DayRow(r, m) <= HourCount(m)
    BY DEF DayRow, CountsBelow, DayNeverExceedsHours
  <2>3. \A q \in Run, m \in Merchant : snap'[q][m] <= HourCount(m)
    BY <1>E, <2>1
  <2> QED  BY <2>1, <2>2, <2>3, HoursStay DEF CountsBelow, DayNeverExceedsHours
<1>4. ASSUME NEW r \in Run, DropRun(r) PROVE CountsBelow'
  <2>1. UNCHANGED <<processed, day>> /\ EndRun(r)
    BY <1>4 DEF DropRun
  <2> QED  BY <1>E, <2>1, HoursStay DEF CountsBelow, DayNeverExceedsHours
<1>5. CASE UNCHANGED <<processed, day, snap>>
  BY <1>5, HoursStay DEF CountsBelow, DayNeverExceedsHours
<1> QED
  BY <1>1, <1>2, <1>3, <1>4, <1>5, Steps DEF BeginBatch, UpsertDelta, DropBatch, OverwriteRow,
     Report, SnapshotLeaderboard, runVars, vars
-----------------------------------------------------------------------------
\* No worker commits a row that a run has locked.
LEMMA LockedHoursStay ==
  ASSUME Shapes, BatchesApart, LocksHeld, NEW w \in Worker, CommitBatch(w),
         NEW r \in Run, NEW m \in held[r]
  PROVE  HourCount(m)' = HourCount(m)
<1>1. w \in Txn /\ r \in Txn /\ w # r
  BY TxnAssumption DEF Txn
<1>2. held[w] = Merchants(batch[w])
  BY DEF CommitBatch, LocksHeld, BatchRows
<1>3. m \notin Merchants(batch[w])
  BY <1>1, <1>2 DEF LocksHeld, RowsApart
<1>4. Delta(w, m) \in Nat /\ ~(Delta(w, m) > 0)
  BY <1>3, DeltaType DEF Shapes
<1>5. HourCount(m) \in Nat
  BY HourType DEF Shapes
<1>6. HourCount(m)' = HourCount(m) + Delta(w, m)
  BY HoursAdd
<1> QED
  BY <1>4, <1>5, <1>6

\* A report lists every discrepancy, or is full.
LEMMA ReportIsFull ==
  ASSUME Shapes, NEW r \in Run, Report(r), NEW m \in Discrepancies(r)
  PROVE  Reported(r, m)'
<1> DEFINE D == Discrepancies(r)
<1>1. PICK W \in SUBSET D : /\ Cardinality(W) = Min({ReportLimit, Cardinality(D)})
                            /\ warned' = [warned EXCEPT ![r] = W]
  BY DEF Report
<1>2. warned'[r] = W
  BY <1>1 DEF Shapes
<1>3. IsFiniteSet(D)
  BY FiniteAssumption, FS_Subset DEF Discrepancies
<1>4. Cardinality(D) \in Nat
  BY <1>3, FS_CardinalityType
<1> HIDE DEF D
<1>5. Min({ReportLimit, Cardinality(D)}) \in {ReportLimit, Cardinality(D)}
  BY <1>4, LimitAssumption, PairFinite, MinMaxBound
<1>6. CASE Cardinality(W) = ReportLimit
  BY <1>2, <1>6 DEF Reported
<1>7. CASE Cardinality(W) = Cardinality(D)
  <2>1. W = D
    BY <1>1, <1>3, <1>7, FS_Subset
  <2> QED  BY <1>2, <2>1 DEF Reported, D
<1> QED
  BY <1>1, <1>5, <1>6, <1>7

LEMMA StepLoss ==
  ASSUME Shapes, BatchesApart, LocksHeld, LossSeen, [Next]_vars
  PROVE  LossSeen'
<1>W. Worker \subseteq Txn /\ Run \subseteq Txn /\ \A w \in Worker, r \in Run : w # r
  BY TxnAssumption DEF Txn
<1>D. ASSUME UNCHANGED <<processed, day>>,
             \A r \in Run : pc[r] = "done" => pc'[r] = "done" /\ warned'[r] = warned[r]
      PROVE  LossIsReported'
  BY <1>D, HoursStay DEF LossSeen, LossIsReported
<1>R. ASSUME UNCHANGED processed, NEW r \in Run, pc'[r] # "snapshot" \/ pc[r] = "snapshot",
             pc'[r] # "commit" \/ pc[r] \in {"snapshot", "commit"},
             snap'[r] = snap[r], held'[r] = held[r], warned'[r] = warned[r]
      PROVE  RunReports(r)'
  BY <1>R, HoursStay DEF LossSeen, RunReports, Reported
<1>1. ASSUME NEW w \in Worker, CommitBatch(w) PROVE LossSeen'
  <2>1. /\ UNCHANGED <<pc, snap, warned>> /\ Release(w)
        /\ day' = [m \in Merchant |-> day[m] + Delta(w, m)]
    BY <1>1 DEF CommitBatch
  <2>2. \A m \in Merchant : day'[m] # HourCount(m)' => day[m] # HourCount(m)
    <3> SUFFICES ASSUME NEW m \in Merchant PROVE day'[m] # HourCount(m)' => day[m] # HourCount(m)
      OBVIOUS
    <3>1. HourCount(m)' = HourCount(m) + Delta(w, m)
      BY <1>1, HoursAdd
    <3> QED  BY <2>1, <3>1
  <2>3. LossIsReported'
    BY <2>1, <2>2 DEF LossSeen, LossIsReported
  <2>4. ASSUME NEW r \in Run PROVE RunReports(r)'
    <3>1. held'[r] = held[r]
      BY <1>W, <2>1, Released
    <3>2. \A m \in held[r] : HourCount(m)' = HourCount(m)
      BY <1>1, LockedHoursStay
    <3> QED  BY <2>1, <3>1, <3>2 DEF LossSeen, RunReports, Reported
  <2> QED  BY <2>3, <2>4 DEF LossSeen
<1>2. ASSUME NEW w \in Worker, DropBatch(w) PROVE LossSeen'
  <2>1. UNCHANGED <<processed, day, pc, snap, warned>> /\ Release(w)
    BY <1>2 DEF DropBatch, runVars
  <2>2. \A r \in Run : held'[r] = held[r]
    BY <1>W, <2>1, Released
  <2> QED  BY <1>D, <1>R, <2>1, <2>2 DEF LossSeen
<1>3. ASSUME NEW w \in Worker, NEW m \in Merchant, UpsertDelta(w, m) PROVE LossSeen'
  <2>1. UNCHANGED <<processed, day, pc, snap, warned>> /\ LockRow(w, m)
    BY <1>3 DEF UpsertDelta, runVars
  <2>2. \A r \in Run : held'[r] = held[r]
    BY <1>W, <2>1, Locked
  <2> QED  BY <1>D, <1>R, <2>1, <2>2 DEF LossSeen
<1>4. ASSUME NEW r \in Run, ReadHours(r) PROVE LossSeen'
  <2>1. /\ UNCHANGED <<processed, day, held, warned>> /\ pc[r] = "idle"
        /\ pc' = [pc EXCEPT ![r] = "upsert"]
        /\ snap' = [snap EXCEPT ![r] = [m \in Merchant |-> HourCount(m)]]
    BY <1>4 DEF ReadHours
  <2>2. pc'[r] = "upsert" /\ \A q \in Run \ {r} : pc'[q] = pc[q] /\ snap'[q] = snap[q]
    BY <2>1 DEF Shapes
  <2>3. RunReports(r)'
    BY <2>2 DEF RunReports
  <2>4. \A q \in Run \ {r} : RunReports(q)'
    BY <1>R, <2>1, <2>2
  <2>5. LossIsReported'
    BY <1>D, <2>1, <2>2
  <2> QED  BY <2>3, <2>4, <2>5 DEF LossSeen
<1>5. ASSUME NEW r \in Run, NEW m \in Merchant, OverwriteRow(r, m) PROVE LossSeen'
  <2>1. UNCHANGED <<processed, day, pc, snap, warned>> /\ LockRow(r, m) /\ pc[r] = "upsert"
    BY <1>5 DEF OverwriteRow, runVars
  <2>2. \A q \in Run \ {r} : held'[q] = held[q]
    BY <1>W, <2>1, Locked
  <2>3. RunReports(r)'
    BY <2>1 DEF RunReports
  <2> QED  BY <1>D, <1>R, <2>1, <2>2, <2>3 DEF LossSeen
<1>6. ASSUME NEW r \in Run, Report(r) PROVE LossSeen'
  <2>1. /\ UNCHANGED <<processed, day, held, snap>> /\ pc[r] = "upsert"
        /\ pc' = [pc EXCEPT ![r] = "snapshot"]
        /\ \E W \in SUBSET Discrepancies(r) : warned' = [warned EXCEPT ![r] = W]
    BY <1>6 DEF Report
  <2>2. pc'[r] = "snapshot" /\ \A q \in Run \ {r} : pc'[q] = pc[q] /\ warned'[q] = warned[q]
    BY <2>1 DEF Shapes
  <2>3. RunReports(r)'
    <3> SUFFICES ASSUME NEW m \in held[r], snap[r][m] # HourCount(m)
                 PROVE  Reported(r, m)'
      BY <2>1, HoursStay DEF RunReports
    <3>1. m \in Merchant
      BY <1>W DEF Shapes
    <3>2. m \in Discrepancies(r)
      BY <3>1 DEF Discrepancies, DayRow
    <3> QED  BY <1>6, <3>2, ReportIsFull
  <2>4. \A q \in Run \ {r} : RunReports(q)'
    BY <1>R, <2>1, <2>2
  <2>5. LossIsReported'
    BY <1>D, <2>1, <2>2
  <2> QED  BY <2>3, <2>4, <2>5 DEF LossSeen
<1>7. ASSUME NEW r \in Run, SnapshotLeaderboard(r) PROVE LossSeen'
  <2>1. /\ UNCHANGED <<processed, day, held, snap, warned>> /\ pc[r] = "snapshot"
        /\ pc' = [pc EXCEPT ![r] = "commit"]
    BY <1>7 DEF SnapshotLeaderboard
  <2>2. pc'[r] = "commit" /\ \A q \in Run \ {r} : pc'[q] = pc[q]
    BY <2>1 DEF Shapes
  <2>3. \A q \in Run : RunReports(q)'
    BY <1>R, <2>1, <2>2
  <2>4. LossIsReported'
    BY <1>D, <2>1, <2>2
  <2> QED  BY <2>3, <2>4 DEF LossSeen
<1>8. ASSUME NEW r \in Run, CommitRun(r) PROVE LossSeen'
  <2>1. /\ UNCHANGED <<processed, warned>> /\ pc[r] = "commit" /\ EndRun(r)
        /\ pc' = [pc EXCEPT ![r] = "done"]
        /\ day' = [m \in Merchant |-> DayRow(r, m)]
    BY <1>8 DEF CommitRun
  <2>2. /\ pc'[r] = "done"
        /\ \A q \in Run \ {r} : pc'[q] = pc[q] /\ held'[q] = held[q] /\ snap'[q] = snap[q]
    BY <1>W, <2>1, Ended DEF Shapes
  <2>3. RunReports(r)'
    BY <2>2 DEF RunReports
  <2>4. \A q \in Run \ {r} : RunReports(q)'
    BY <1>R, <2>1, <2>2
  <2>5. LossIsReported'
    <3> SUFFICES ASSUME NEW m \in Merchant, day'[m] # HourCount(m)
                 PROVE  \E q \in Run : pc'[q] = "done" /\ Reported(q, m)
      BY <2>1, HoursStay DEF LossIsReported, Reported
    <3>1. CASE m \in held[r]
      <4>1. snap[r][m] # HourCount(m)
        BY <2>1, <3>1 DEF DayRow
      <4> QED  BY <2>1, <2>2, <3>1, <4>1 DEF LossSeen, RunReports
    <3>2. CASE m \notin held[r]
      <4>1. day[m] # HourCount(m)
        BY <2>1, <3>2 DEF DayRow
      <4> QED  BY <2>1, <2>2, <4>1 DEF LossSeen, LossIsReported, Reported
    <3> QED  BY <3>1, <3>2
  <2> QED  BY <2>3, <2>4, <2>5 DEF LossSeen
<1>9. ASSUME NEW r \in Run, DropRun(r) PROVE LossSeen'
  <2>1. /\ UNCHANGED <<processed, day>> /\ pc[r] # "done" /\ EndRun(r)
        /\ pc' = [pc EXCEPT ![r] = "failed"] /\ warned' = [warned EXCEPT ![r] = {}]
    BY <1>9 DEF DropRun
  <2>2. /\ pc'[r] = "failed"
        /\ \A q \in Run \ {r} : /\ pc'[q] = pc[q] /\ held'[q] = held[q]
                                 /\ snap'[q] = snap[q] /\ warned'[q] = warned[q]
    BY <1>W, <2>1, Ended DEF Shapes
  <2>3. RunReports(r)'
    BY <2>2 DEF RunReports
  <2>4. \A q \in Run \ {r} : RunReports(q)'
    BY <1>R, <2>1, <2>2
  <2>5. LossIsReported'
    BY <1>D, <2>1, <2>2
  <2> QED  BY <2>3, <2>4, <2>5 DEF LossSeen
<1>10. CASE UNCHANGED <<processed, day, held, pc, snap, warned>>
  BY <1>10, <1>D, <1>R DEF LossSeen
<1> QED
  BY <1>1, <1>2, <1>3, <1>4, <1>5, <1>6, <1>7, <1>8, <1>9, <1>10, Steps
     DEF BeginBatch, vars, runVars

LEMMA StepQuiet ==
  ASSUME Shapes, BatchesApart, QuietSnap, [Next]_vars
  PROVE  QuietSnap'
<1>R. ASSUME UNCHANGED processed, NEW r \in Run, Active(r)' => Active(r),
             snap'[r] = snap[r], quiet'[r] = quiet[r]
      PROVE  QuietRun(r)'
  BY <1>R, HoursStay DEF QuietSnap, QuietRun
<1>1. ASSUME NEW w \in Worker, CommitBatch(w) PROVE QuietSnap'
  BY <1>1 DEF CommitBatch, QuietSnap, QuietRun
<1>2. ASSUME NEW r \in Run, ReadHours(r) PROVE QuietSnap'
  <2>1. /\ UNCHANGED processed
        /\ snap' = [snap EXCEPT ![r] = [m \in Merchant |-> HourCount(m)]]
        /\ pc' = [pc EXCEPT ![r] = "upsert"] /\ quiet' = [quiet EXCEPT ![r] = TRUE]
    BY <1>2 DEF ReadHours
  <2>2. snap'[r] = [m \in Merchant |-> HourCount(m)]
    BY <2>1 DEF Shapes
  <2>3. QuietRun(r)'
    BY <2>1, <2>2, HoursStay DEF QuietRun
  <2>4. \A q \in Run \ {r} : pc'[q] = pc[q] /\ snap'[q] = snap[q] /\ quiet'[q] = quiet[q]
    BY <2>1 DEF Shapes
  <2>5. \A q \in Run \ {r} : QuietRun(q)'
    BY <1>R, <2>1, <2>4 DEF Active
  <2> QED  BY <2>3, <2>5 DEF QuietSnap
<1>3. CASE /\ UNCHANGED <<processed, snap, quiet>>
           /\ \A r \in Run : pc'[r] # pc[r] => pc'[r] \in {"done", "failed"} \/ Active(r)
  <2>1. \A r \in Run : Active(r)' => Active(r)
    BY <1>3 DEF Active
  <2> QED  BY <1>3, <1>R, <2>1 DEF QuietSnap
<1>4. ASSUME NEW r \in Run, Report(r) \/ SnapshotLeaderboard(r)
      PROVE  QuietSnap'
  <2>1. /\ UNCHANGED <<processed, snap, quiet>> /\ Active(r)
        /\ \E l \in PC : pc' = [pc EXCEPT ![r] = l]
    BY <1>4 DEF Report, SnapshotLeaderboard, Active, PC
  <2>2. \A q \in Run : pc'[q] # pc[q] => q = r
    BY <2>1 DEF Shapes
  <2> QED  BY <1>3, <2>1, <2>2
<1>5. ASSUME NEW r \in Run, CommitRun(r) \/ DropRun(r) PROVE QuietSnap'
  <2>1. UNCHANGED processed /\ EndRun(r) /\ \E l \in PC : pc' = [pc EXCEPT ![r] = l]
    BY <1>5 DEF CommitRun, DropRun, PC
  <2>2. QuietRun(r)'
    BY <2>1, Ended DEF QuietRun
  <2>3. \A q \in Run \ {r} : pc'[q] = pc[q] /\ snap'[q] = snap[q] /\ quiet'[q] = quiet[q]
    BY <2>1, Ended DEF Shapes
  <2>4. \A q \in Run \ {r} : QuietRun(q)'
    BY <1>R, <2>1, <2>3 DEF Active
  <2> QED  BY <2>2, <2>4 DEF QuietSnap
<1>6. CASE UNCHANGED <<processed, snap, quiet, pc>>
  BY <1>3, <1>6
<1> QED
  BY <1>1, <1>2, <1>4, <1>5, <1>6, Steps
     DEF BeginBatch, UpsertDelta, DropBatch, OverwriteRow, vars, runVars
-----------------------------------------------------------------------------
LEMMA InitCompaction == Init => CompactionInv
<1> SUFFICES ASSUME Init PROVE CompactionInv
  OBVIOUS
<1>1. Cardinality(Merchant) \in Nat
  BY FiniteAssumption, FS_CardinalityType
<1>2. Shapes
  BY <1>1 DEF Init, Shapes, Rank, PC, NoCounts
<1>3. \A m : HourCount(m) = 0
  <2>1. processed = {}
    BY DEF Init
  <2>2. \A m : {e \in processed : MerchantOf[e] = m} = {}
    BY <2>1
  <2> QED  BY <2>2, FS_EmptySet DEF HourCount
<1>4. BatchesApart /\ QuietSnap
  BY DEF Init, BatchesApart, QuietSnap, QuietRun
<1>5. LocksHeld
  BY DEF Init, LocksHeld, RowsApart, BatchRows, RunRows, Active, Merchants, Txn
<1>6. CountsBelow
  BY <1>3 DEF Init, CountsBelow, DayNeverExceedsHours, NoCounts
<1>7. LossSeen
  BY <1>3 DEF Init, LossSeen, LossIsReported, RunReports
<1> QED
  BY <1>2, <1>4, <1>5, <1>6, <1>7 DEF CompactionInv

LEMMA StepCompaction == CompactionInv /\ [Next]_vars => CompactionInv'
  BY StepShapes, StepBatches, StepLocks, StepCounts, StepLoss, StepQuiet DEF CompactionInv

(***************************************************************************)
(* The inductive invariant: locks and batches are apart, counts stay below *)
(* the hours, and a run has reported what it is about to write too small.  *)
(***************************************************************************)
THEOREM CompactionInductive == Spec => []CompactionInv
<1> QED  BY InitCompaction, StepCompaction, PTL DEF Spec

\* The variables keep their types; a count is bounded by the events of the day
\* because it never exceeds the hours.
THEOREM CompactionTypeCorrect == Spec => []TypeOK
<1>1. CompactionInv => TypeOK
  <2> SUFFICES ASSUME CompactionInv PROVE TypeOK
    OBVIOUS
  <2>1. Cardinality(Event) \in Nat
    BY FiniteAssumption, FS_CardinalityType
  <2>2. \A m \in Merchant : HourCount(m) \in Nat /\ HourCount(m) <= Cardinality(Event)
    BY HourType DEF CompactionInv, Shapes
  <2>3. ASSUME NEW n \in Nat, NEW m \in Merchant, n <= HourCount(m)
        PROVE  n \in 0 .. Cardinality(Event)
    BY <2>1, <2>2, <2>3
  <2>4. day \in [Merchant -> 0 .. Cardinality(Event)]
    BY <2>3 DEF CompactionInv, Shapes, CountsBelow, DayNeverExceedsHours
  <2>5. snap \in [Run -> [Merchant -> 0 .. Cardinality(Event)]]
    BY <2>3 DEF CompactionInv, Shapes, CountsBelow
  <2> QED  BY <2>4, <2>5 DEF CompactionInv, Shapes, TypeOK, PC
<1> QED  BY <1>1, CompactionInductive, PTL

(***************************************************************************)
(* A row of rollup_day never says more than rollup_hour does, for any      *)
(* number of workers and runs in any order (nightly_compaction.py and the  *)
(* worker's batch_upsert_day).                                             *)
(***************************************************************************)
THEOREM NothingCountedTwice == Spec => []DayNeverExceedsHours
<1>1. CompactionInv => DayNeverExceedsHours
  BY DEF CompactionInv, CountsBelow
<1> QED  BY <1>1, CompactionInductive, PTL

(***************************************************************************)
(* A row of rollup_day that says less than rollup_hour is one a completed  *)
(* run has reported, or that run's report was full.                        *)
(***************************************************************************)
THEOREM NoSilentLoss == Spec => []LossIsReported
<1>1. CompactionInv => LossIsReported
  BY DEF CompactionInv, LossSeen
<1> QED  BY <1>1, CompactionInductive, PTL
-----------------------------------------------------------------------------
\* A run ends as done only by its own commit.
LEMMA CommitsByItself ==
  ASSUME Shapes, [Next]_vars, NEW r \in Run, Commits(r)
  PROVE  CommitRun(r)
<1> USE DEF Commits, Shapes
<1>1. ASSUME NEW q \in Run, CommitRun(q) PROVE CommitRun(r)
  <2>1. pc' = [pc EXCEPT ![q] = "done"]
    BY <1>1 DEF CommitRun
  <2>2. q = r
    BY <2>1
  <2> QED  BY <1>1, <2>2
<1>2. ASSUME NEW q \in Run, NEW l \in PC \ {"done"}, pc' = [pc EXCEPT ![q] = l] PROVE FALSE
  BY <1>2 DEF PC
<1>3. ASSUME NEW q \in Run, ReadHours(q) \/ Report(q) \/ SnapshotLeaderboard(q) \/ DropRun(q)
      PROVE  FALSE
  BY <1>2, <1>3 DEF ReadHours, Report, SnapshotLeaderboard, DropRun, PC
<1>4. CASE UNCHANGED pc
  BY <1>4
<1> QED
  BY <1>1, <1>3, <1>4, Steps
     DEF BeginBatch, UpsertDelta, CommitBatch, DropBatch, OverwriteRow, vars, runVars

\* A run no worker has disturbed sees the hours in every row it has left to
\* write: in those it overwrites, and in those that have no hours.
LEMMA QuietRowsAreHours ==
  ASSUME CompactionInv, NEW r \in Run, quiet[r], pc[r] \in {"snapshot", "commit"},
         NEW m \in Merchant
  PROVE  DayRow(r, m) = HourCount(m)
<1>1. snap[r][m] = HourCount(m)
  BY DEF CompactionInv, QuietSnap, QuietRun, Active
<1>2. held[r] = {n \in Merchant : snap[r][n] > 0}
  BY DEF CompactionInv, LocksHeld, RunRows, Active
<1>3. CASE m \in held[r]
  BY <1>1, <1>3 DEF DayRow
<1>4. CASE m \notin held[r]
  <2>1. snap[r][m] \in Nat /\ day[m] \in Nat /\ day[m] <= HourCount(m)
    BY DEF CompactionInv, Shapes, CountsBelow, DayNeverExceedsHours
  <2>2. snap[r][m] = 0
    BY <1>2, <1>4, <2>1
  <2> QED  BY <1>1, <1>4, <2>1, <2>2 DEF DayRow
<1> QED  BY <1>3, <1>4

(***************************************************************************)
(* A run during which no worker commits repairs every row of the day,      *)
(* whatever earlier or concurrent runs have overwritten: the upsert of     *)
(* nightly_compaction.py is a full overwrite.                              *)
(***************************************************************************)
THEOREM UndisturbedRunRepairs == Spec => QuietRunRepairs
<1> DEFINE Repaired == \A r \in Run : Commits(r) /\ quiet[r] =>
                         \A m \in Merchant : day'[m] = HourCount(m)
<1>1. CompactionInv /\ [Next]_vars => [Repaired]_vars
  <2> SUFFICES ASSUME CompactionInv, [Next]_vars, NEW r \in Run, Commits(r), quiet[r],
                      NEW m \in Merchant
               PROVE  day'[m] = HourCount(m)
    OBVIOUS
  <2>1. CommitRun(r)
    BY CommitsByItself DEF CompactionInv
  <2>2. day'[m] = DayRow(r, m)
    BY <2>1 DEF CommitRun
  <2>3. DayRow(r, m) = HourCount(m)
    BY QuietRowsAreHours DEF Commits
  <2> QED  BY <2>2, <2>3
<1> HIDE DEF Repaired
<1>2. QuietRunRepairs <=> [][Repaired]_vars
  BY DEF QuietRunRepairs, Repaired
<1> QED
  BY <1>1, <1>2, CompactionInductive, PTL DEF Spec
-----------------------------------------------------------------------------
\* What a run no worker has disturbed writes to the snapshot: the top of the
\* day by its hours, each merchant with its rank.
RanksByHours(r) ==
  quiet[r] /\ pc[r] = "commit" =>
    \E T \in SUBSET Merchant :
      /\ IsTop(T, TopLimit, [m \in Merchant |-> HourCount(m)])
      /\ \A m \in Merchant : ranks[r][m] = IF m \in T THEN HourRank(m) ELSE 0

RankInv == CompactionInv /\ \A r \in Run : RanksByHours(r)

\* The rank of a merchant is a positive number.
LEMMA HourRankType ==
  ASSUME Shapes, NEW m \in Merchant
  PROVE  HourRank(m) \in Nat /\ HourRank(m) > 0
<1> DEFINE v == [n \in Merchant |-> HourCount(n)]
<1>1. v \in [Merchant -> Nat]
  BY HourType DEF Shapes
<1>2. HourRank(m) = 1 + Cardinality({n \in Merchant : v[n] > v[m]})
  BY DEF HourRank
<1> HIDE DEF v
<1>3. Cardinality({n \in Merchant : v[n] > v[m]}) \in Nat
  BY <1>1, RankType
<1> QED
  BY <1>2, <1>3

LEMMA StepRanks ==
  ASSUME RankInv, [Next]_vars, NEW q \in Run
  PROVE  RanksByHours(q)'
<1> USE DEF RankInv
<1>1. Shapes
  BY DEF CompactionInv
<1>R. ASSUME ranks'[q] = ranks[q], UNCHANGED processed,
             quiet'[q] => quiet[q], pc'[q] = "commit" => pc[q] = "commit"
      PROVE  RanksByHours(q)'
  <2>1. \A m : HourCount(m)' = HourCount(m) /\ HourRank(m)' = HourRank(m)
    BY <1>R DEF HourCount, HourRank
  <2> QED  BY <1>R, <2>1 DEF RanksByHours
<1>2. ASSUME NEW w \in Worker, CommitBatch(w) PROVE RanksByHours(q)'
  BY <1>2 DEF CommitBatch, RanksByHours
<1>3. ASSUME NEW r \in Run, ReadHours(r) \/ Report(r) PROVE RanksByHours(q)'
  <2>1. /\ UNCHANGED <<processed, ranks>> /\ \E l \in PC \ {"commit"} : pc' = [pc EXCEPT ![r] = l]
        /\ q # r => quiet'[q] = quiet[q]
    BY <1>1, <1>3 DEF ReadHours, Report, PC, Shapes
  <2>2. CASE q = r
    BY <1>1, <2>1, <2>2 DEF RanksByHours, Shapes
  <2>3. CASE q # r
    BY <1>R, <1>1, <2>1, <2>3 DEF Shapes
  <2> QED  BY <2>2, <2>3
<1>4. ASSUME NEW r \in Run, SnapshotLeaderboard(r) PROVE RanksByHours(q)'
  <2>1. PICK T \in SUBSET Merchant :
          /\ IsTop(T, TopLimit, [m \in Merchant |-> DayRow(r, m)])
          /\ ranks' = [ranks EXCEPT ![r] = [m \in Merchant |-> IF m \in T THEN RankOf(r, m) ELSE 0]]
    BY <1>4 DEF SnapshotLeaderboard
  <2>2. /\ UNCHANGED <<processed, quiet>> /\ pc[r] = "snapshot"
        /\ pc' = [pc EXCEPT ![r] = "commit"]
    BY <1>4 DEF SnapshotLeaderboard
  <2>3. CASE q # r
    BY <1>R, <1>1, <2>1, <2>2, <2>3 DEF Shapes
  <2>4. CASE q = r
    <3> SUFFICES ASSUME quiet[r] PROVE RanksByHours(r)'
      BY <2>2, <2>4 DEF RanksByHours
    <3>1. \A m \in Merchant : DayRow(r, m) = HourCount(m)
      BY <2>2, QuietRowsAreHours
    <3>2. [m \in Merchant |-> DayRow(r, m)] = [m \in Merchant |-> HourCount(m)]
      BY <3>1
    <3>3. \A m \in Merchant : RankOf(r, m) = HourRank(m)
      BY <3>1 DEF RankOf, HourRank
    <3>4. \A m \in Merchant : ranks'[r][m] = IF m \in T THEN HourRank(m) ELSE 0
      BY <1>1, <2>1, <3>3 DEF Shapes
    <3>5. IsTop(T, TopLimit, [m \in Merchant |-> HourCount(m)])
      BY <2>1, <3>2
    <3>6. /\ \A m : HourRank(m)' = HourRank(m)
          /\ [m \in Merchant |-> HourCount(m)]' = [m \in Merchant |-> HourCount(m)]
      BY <2>2 DEF HourCount, HourRank
    <3> QED  BY <3>4, <3>5, <3>6 DEF RanksByHours
  <2> QED  BY <2>3, <2>4
<1>5. ASSUME NEW r \in Run, CommitRun(r) \/ DropRun(r) PROVE RanksByHours(q)'
  <2>1. UNCHANGED processed /\ EndRun(r) /\ \E l \in PC \ {"commit"} : pc' = [pc EXCEPT ![r] = l]
    BY <1>5 DEF CommitRun, DropRun, PC
  <2>2. CASE q = r
    BY <1>1, <2>1, <2>2, Ended DEF RanksByHours
  <2>3. CASE q # r
    BY <1>R, <1>1, <2>1, <2>3, Ended DEF Shapes
  <2> QED  BY <2>2, <2>3
<1>6. CASE UNCHANGED <<processed, ranks, quiet, pc>>
  BY <1>6, <1>R
<1> QED
  BY <1>2, <1>3, <1>4, <1>5, <1>6, Steps
     DEF BeginBatch, UpsertDelta, DropBatch, OverwriteRow, vars, runVars

LEMMA RanksInductive == Spec => []RankInv
<1>1. Init => \A r \in Run : RanksByHours(r)
  BY DEF Init, RanksByHours
<1>2. RankInv /\ [Next]_vars => RankInv'
  BY StepCompaction, StepRanks DEF RankInv
<1> QED
  BY <1>1, <1>2, InitCompaction, PTL DEF Spec, RankInv

(***************************************************************************)
(* A run during which no worker commits writes the first TopLimit          *)
(* merchants of the day with their true ranks, whatever other runs do, and *)
(* leaves every other row of leaderboard_snapshots as it was               *)
(* (snapshot_leaderboard in nightly_compaction.py, for every LIMIT).       *)
(***************************************************************************)
THEOREM UndisturbedRunRanks == Spec => QuietRunRanksTheDay
<1> DEFINE RanksTheDay == \A r \in Run : Commits(r) /\ quiet[r] =>
             \E T \in SUBSET Merchant :
               /\ IsTop(T, TopLimit, [m \in Merchant |-> HourCount(m)])
               /\ \A m \in Merchant :
                    board'[m] = IF m \in T THEN HourRank(m) ELSE board[m]
<1>1. RankInv /\ [Next]_vars => [RanksTheDay]_vars
  <2> SUFFICES ASSUME RankInv, [Next]_vars, NEW r \in Run, Commits(r), quiet[r]
               PROVE  \E T \in SUBSET Merchant :
                        /\ IsTop(T, TopLimit, [m \in Merchant |-> HourCount(m)])
                        /\ \A m \in Merchant :
                             board'[m] = IF m \in T THEN HourRank(m) ELSE board[m]
    OBVIOUS
  <2>1. CommitRun(r) /\ Shapes /\ pc[r] = "commit"
    BY CommitsByItself DEF RankInv, CompactionInv, Commits
  <2>2. PICK T \in SUBSET Merchant :
          /\ IsTop(T, TopLimit, [m \in Merchant |-> HourCount(m)])
          /\ \A m \in Merchant : ranks[r][m] = IF m \in T THEN HourRank(m) ELSE 0
    BY <2>1 DEF RankInv, RanksByHours
  <2>3. \A m \in Merchant : board'[m] = IF ranks[r][m] > 0 THEN ranks[r][m] ELSE board[m]
    BY <2>1 DEF CommitRun
  <2>4. \A m \in Merchant : board'[m] = IF m \in T THEN HourRank(m) ELSE board[m]
    BY <2>1, <2>2, <2>3, HourRankType
  <2> QED  BY <2>2, <2>4
<1> HIDE DEF RanksTheDay
<1>2. QuietRunRanksTheDay <=> [][RanksTheDay]_vars
  BY DEF QuietRunRanksTheDay, RanksTheDay
<1> QED
  BY <1>1, <1>2, RanksInductive, PTL DEF Spec
=============================================================================
