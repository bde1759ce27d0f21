------------------------ MODULE RollupWorkerProofs ------------------------
(***************************************************************************)
(* Theorems of RollupWorker, for every set of events, amounts, requests,   *)
(* workers and consumer ids, every batch size and any number of faults.    *)
(*                                                                         *)
(* First the algebra of the additive upsert: merging the delta of new      *)
(* markers into tables that recompute the old markers gives the tables     *)
(* that recompute them together, counts, sums, minima and maxima included. *)
(* This is why the worker may add deltas instead of recomputing.           *)
(*                                                                         *)
(* Then the worker: a marker in flight is new and held by one transaction  *)
(* (InFlightBatches), so the commit adds the delta of markers that no      *)
(* table counts yet (UpsertRecomputes).                                    *)
(*                                                                         *)
(* Last the cursor: whatever overlaps, crashes or is reset, it loses only  *)
(* events that are late or tied (LossInv).                                 *)
(***************************************************************************)
EXTENDS RollupWorker, FiniteSums

\* Markers are finitely many.
LEMMA MarkersFinite ==
  ASSUME NEW M \in SUBSET Marker
  PROVE  IsFiniteSet(M)
<1>1. IsFiniteSet(Marker)
  BY EventAssumption, ConsumerAssumption, FS_Product DEF Marker
<1> QED
  BY <1>1, FS_Subset

\* The amounts of a set of markers: finite, natural, nonempty when it is.
LEMMA AmountsFinite ==
  ASSUME NEW M \in SUBSET Marker
  PROVE  /\ Amounts(M) \in SUBSET Nat
         /\ IsFiniteSet(Amounts(M))
         /\ M # {} => Amounts(M) # {}
<1> DEFINE f == [m \in M |-> AmountOf[m[2]]]
<1>1. \A m \in M : m[2] \in Event
  BY DEF Marker
<1>2. Amounts(M) \in SUBSET Nat
  BY <1>1, AmountAssumption DEF Amounts
<1>3. f \in Surjection(M, Amounts(M))
  BY DEF Surjection, Amounts
<1>4. IsFiniteSet(Amounts(M))
  <2> HIDE DEF f
  <2> QED  BY <1>3, MarkersFinite, FS_Surjection
<1> QED
  BY <1>2, <1>4 DEF Amounts

\* The sum of the amounts is a natural and additive on disjoint sets.
LEMMA AmountSumUnion ==
  ASSUME NEW M \in SUBSET Marker, NEW N \in SUBSET Marker, M \cap N = {}
  PROVE  /\ AmountSum(M) \in Nat
         /\ AmountSum(M \cup N) = AmountSum(M) + AmountSum(N)
<1> DEFINE f == [m \in Marker |-> AmountOf[m[2]]]
<1>1. f \in [Marker -> Nat]
  BY AmountAssumption DEF Marker
<1>2. IsFiniteSet(M) /\ IsFiniteSet(N)
  BY MarkersFinite
<1> HIDE DEF f
<1>3. SumFunctionOnSet(f, M) \in Nat
  BY <1>1, <1>2, SumStep
<1>4. SumFunctionOnSet(f, M \cup N) = SumFunctionOnSet(f, M) + SumFunctionOnSet(f, N)
  BY <1>1, <1>2, SumUnion
<1> QED
  BY <1>3, <1>4 DEF AmountSum, f

\* The accumulator of any set of markers is a row.
LEMMA AccumType ==
  ASSUME NEW M \in SUBSET Marker
  PROVE  /\ Accum(M) \in Row
         /\ Accum(M).count = Cardinality(M)
<1>1. CASE M = {}
  BY <1>1, FS_EmptySet DEF Accum, NoRow, Row
<1>2. CASE M # {}
  <2>1. IsFiniteSet(M) /\ Cardinality(M) \in Nat
    BY MarkersFinite, FS_CardinalityType
  <2>2. AmountSum(M) \in Nat
    <3>1. {} \in SUBSET Marker /\ M \cap {} = {}
      OBVIOUS
    <3> QED  BY <3>1, AmountSumUnion
  <2>3. Min(Amounts(M)) \in Nat /\ Max(Amounts(M)) \in Nat
    BY <1>2, AmountsFinite, MinMaxBound
  <2> QED  BY <1>2, <2>1, <2>2, <2>3 DEF Accum, Row
<1> QED
  BY <1>1, <1>2

\* Upserting the delta of N into the row of M gives the row of their union.
LEMMA MergeAccum ==
  ASSUME NEW M \in SUBSET Marker, NEW N \in SUBSET Marker, M \cap N = {}, N # {}
  PROVE  Merge(Accum(M), Accum(N)) = Accum(M \cup N)
<1>1. /\ IsFiniteSet(M) /\ Cardinality(M) \in Nat
      /\ IsFiniteSet(N) /\ Cardinality(N) \in Nat
  BY MarkersFinite, FS_CardinalityType
<1>2. CASE M = {}
  <2>1. Accum(M).count = 0 /\ M \cup N = N
    BY <1>2 DEF Accum, NoRow
  <2> QED  BY <2>1 DEF Merge
<1>3. CASE M # {}
  <2>1. Accum(M).count # 0
    <3>1. Cardinality(M) # 0
      BY <1>1, <1>3, FS_EmptySet
    <3> QED  BY <3>1, AccumType
  <2>2. Cardinality(M \cup N) = Cardinality(M) + Cardinality(N)
    <3>1. Cardinality(M \cup N) = Cardinality(M) + Cardinality(N) - Cardinality({})
      BY <1>1, FS_Union
    <3> QED  BY <3>1, <1>1, FS_EmptySet
  <2>3. AmountSum(M \cup N) = AmountSum(M) + AmountSum(N)
    BY AmountSumUnion
  <2>4. /\ Min(Amounts(M \cup N)) = Min({Min(Amounts(M)), Min(Amounts(N))})
        /\ Max(Amounts(M \cup N)) = Max({Max(Amounts(M)), Max(Amounts(N))})
    <3>1. Amounts(M \cup N) = Amounts(M) \cup Amounts(N)
      BY DEF Amounts
    <3>2. /\ Amounts(M) \in SUBSET Nat /\ IsFiniteSet(Amounts(M)) /\ Amounts(M) # {}
          /\ Amounts(N) \in SUBSET Nat /\ IsFiniteSet(Amounts(N)) /\ Amounts(N) # {}
      BY <1>3, AmountsFinite
    <3> QED  BY <3>1, <3>2, MinMaxUnion
  <2>5. M \cup N # {}
    BY <1>3
  <2> QED  BY <1>3, <2>1, <2>2, <2>3, <2>4, <2>5 DEF Merge, Accum
<1> QED
  BY <1>2, <1>3

(***************************************************************************)
(* The additive upsert of new markers keeps the tables equal to their full *)
(* recomputation.                                                          *)
(***************************************************************************)
THEOREM UpsertRecomputes ==
  ASSUME NEW M \in SUBSET Marker, NEW N \in SUBSET Marker, M \cap N = {}
  PROVE  Upsert(Recomputed(M), N) = Recomputed(M \cup N)
<1>1. ASSUME NEW g \in Granularity, NEW x \in Cells
      PROVE  Upsert(Recomputed(M), N)[g][x] = Accum(InCell(M \cup N, g, x))
  <2> DEFINE m == InCell(M, g, x)
             n == InCell(N, g, x)
  <2>1. /\ m \in SUBSET Marker /\ n \in SUBSET Marker /\ m \cap n = {}
        /\ InCell(M \cup N, g, x) = m \cup n
    BY DEF InCell
  <2>2. Recomputed(M)[g][x] = Accum(m)
    BY DEF Recomputed
  <2>3. Upsert(Recomputed(M), N)[g][x] =
          IF n = {} THEN Accum(m) ELSE Merge(Accum(m), Accum(n))
    BY <2>2 DEF Upsert
  <2> HIDE DEF m, n
  <2>4. CASE n = {}
    <3>1. m \cup n = m
      BY <2>4
    <3> QED  BY <2>1, <2>3, <2>4, <3>1
  <2>5. CASE n # {}
    BY <2>1, <2>3, <2>5, MergeAccum
  <2> QED  BY <2>4, <2>5
<1> DEFINE U == Upsert(Recomputed(M), N)
<1>2. U = [g \in Granularity |-> [x \in Cells |-> U[g][x]]]
  BY DEF Upsert
<1> HIDE DEF U
<1>3. U = [g \in Granularity |-> [x \in Cells |-> Accum(InCell(M \cup N, g, x))]]
  BY <1>1, <1>2 DEF U
<1> QED
  BY <1>3 DEF Recomputed, U

\* The recomputed tables have the type of the rollup tables, and recomputing
\* nothing gives empty tables.
LEMMA RecomputedType ==
  ASSUME NEW M \in SUBSET Marker
  PROVE  /\ Recomputed(M) \in [Granularity -> [Cells -> Row]]
         /\ Recomputed({}) = EmptyTables
<1>1. \A g \in Granularity, x \in Cells : Accum(InCell(M, g, x)) \in Row
  <2> SUFFICES ASSUME NEW g \in Granularity, NEW x \in Cells
               PROVE  Accum(InCell(M, g, x)) \in Row
    OBVIOUS
  <2>1. InCell(M, g, x) \in SUBSET Marker
    BY DEF InCell
  <2> QED  BY <2>1, AccumType
<1>2. \A g, x : InCell({}, g, x) = {}
  BY DEF InCell
<1>3. Recomputed({}) = EmptyTables
  BY <1>2 DEF Recomputed, EmptyTables, Accum
<1> QED
  BY <1>1, <1>3 DEF Recomputed
-----------------------------------------------------------------------------
\* The initial state satisfies the inductive invariant.
LEMMA InitIInv == Init => IInv
<1> SUFFICES ASSUME Init  PROVE IInv
  OBVIOUS
<1>1. TypeOK
  <2>1. EmptyTables \in [Granularity -> [Cells -> Row]]
    BY DEF EmptyTables, NoRow, Row
  <2> QED  BY <2>1 DEF Init, TypeOK
<1>2. RollupMatchesMarkers
  <2>1. {} \in SUBSET Marker
    OBVIOUS
  <2> QED  BY <2>1, RecomputedType DEF Init, RollupMatchesMarkers
<1>3. InFlightBatches
  BY DEF Init, InFlightBatches, Holds
<1>4. OffsetIsAggregated /\ MarkersAreCommitted
  BY DEF Init, OffsetIsAggregated, MarkersAreCommitted
<1> QED
  BY <1>1, <1>2, <1>3, <1>4 DEF IInv

\* An ingest step leaves the tables and the workers alone, and a committed
\* request stays committed.
LEMMA IngestStep ==
  ASSUME TypeOK, NEW r \in Request, BeginIngest(r) \/ CommitIngest(r) \/ RollbackIngest(r)
  PROVE  /\ UNCHANGED <<tableVars, workerVars, faults>>
         /\ Committed \subseteq Committed'
         /\ TypeOK'
<1>1. UNCHANGED <<tableVars, workerVars, faults>>
  BY DEF BeginIngest, CommitIngest, RollbackIngest
<1>2. Committed \subseteq Committed'
  BY RequestAssumption DEF BeginIngest, CommitIngest, RollbackIngest, Committed, TypeOK
<1>3. clock' \in Nat /\ txn' \in [Request -> {"idle", "open", "committed"}]
      /\ startedAt' \in [Request -> Nat] /\ late' \in SUBSET Event
  BY DEF BeginIngest, CommitIngest, RollbackIngest, TypeOK
<1> QED
  BY <1>1, <1>2, <1>3 DEF TypeOK, tableVars, workerVars

\* A committed batch: markers, rollups and offset move together.
LEMMA CommitStep ==
  ASSUME IInv, NEW w \in Worker, CommitBatch(w)
  PROVE  /\ fresh[w] \in SUBSET Marker
         /\ fresh[w] \cap markers = {}
         /\ RollupMatchesMarkers'
         /\ OffsetIsAggregated'
<1>1. fresh[w] \in SUBSET Marker /\ markers \in SUBSET Marker
  BY DEF IInv, TypeOK
<1>2. fresh[w] \cap markers = {}
  BY DEF IInv, InFlightBatches, CommitBatch
<1>3. RollupMatchesMarkers'
  <2>1. rollup' = Upsert(Recomputed(markers), fresh[w])
    BY DEF IInv, RollupMatchesMarkers, CommitBatch
  <2>2. markers \cap fresh[w] = {}
    BY <1>2
  <2>3. rollup' = Recomputed(markers \cup fresh[w])
    BY <1>1, <2>1, <2>2, UpsertRecomputes
  <2> QED  BY <2>3 DEF RollupMatchesMarkers, CommitBatch
<1>4. OffsetIsAggregated'
  <2> SUFFICES ASSUME NEW c \in Consumer, offset'[c] # NoEvent
               PROVE  <<c, offset'[c]>> \in markers'
    BY DEF OffsetIsAggregated
  <2>1. markers' = markers \cup fresh[w]
        /\ offset' = [offset EXCEPT ![ConsumerOf[w]] = last[w]]
    BY DEF CommitBatch
  <2>2. CASE c = ConsumerOf[w]
    <3>1. last[w] \in page[w] /\ {ConsumerOf[w]} \X page[w] \subseteq markers \cup fresh[w]
      BY DEF IInv, InFlightBatches, CommitBatch
    <3>2. offset'[c] = last[w]
      BY <2>1, <2>2 DEF IInv, TypeOK
    <3> QED  BY <2>1, <2>2, <3>1, <3>2
  <2>3. CASE c # ConsumerOf[w]
    <3>1. offset'[c] = offset[c]
      BY <2>1, <2>3 DEF IInv, TypeOK
    <3> QED  BY <2>1, <3>1 DEF IInv, OffsetIsAggregated
  <2> QED  BY <2>2, <2>3
<1> QED
  BY <1>1, <1>2, <1>3, <1>4

\* The pages a worker may fetch are sets of committed events.
LEMMA AfterCommitted ==
  ASSUME NEW c
  PROVE  After(c) \subseteq Committed /\ Committed \subseteq Event
BY DEF After, Committed

\* The locals keep their types when they go out of scope.
LEMMA ForgetType ==
  ASSUME TypeOK, NEW w \in Worker, Forget(w)
  PROVE  /\ cursor' \in [Worker -> Event \cup {NoEvent}]
         /\ page' \in [Worker -> SUBSET Event]
         /\ last' \in [Worker -> Event \cup {NoEvent}]
         /\ fresh' \in [Worker -> SUBSET Marker]
BY DEF Forget, TypeOK

\* Every step preserves the type invariant.
LEMMA StepTypeOK ==
  ASSUME IInv, [Next]_vars
  PROVE  TypeOK'
<1> USE DEF IInv
<1>1. ASSUME NEW r \in Request, BeginIngest(r) \/ CommitIngest(r) \/ RollbackIngest(r)
      PROVE  TypeOK'
  BY <1>1, IngestStep
<1>2. ASSUME NEW w \in Worker, ReadOffset(w)
      PROVE  TypeOK'
  <2>1. offset[ConsumerOf[w]] \in Event \cup {NoEvent}
    BY WorkerAssumption DEF TypeOK
  <2> QED  BY <1>2, <2>1 DEF ReadOffset, TypeOK, ingestVars, tableVars
<1>3. ASSUME NEW w \in Worker, FetchNothing(w)
      PROVE  TypeOK'
  BY <1>3, ForgetType DEF FetchNothing, TypeOK, ingestVars, tableVars
<1>4. ASSUME NEW w \in Worker, FetchPage(w)
      PROVE  TypeOK'
  <2>1. PICK P \in SUBSET After(cursor[w]) :
          /\ page' = [page EXCEPT ![w] = P]
          /\ \E e \in P : last' = [last EXCEPT ![w] = e]
    BY <1>4 DEF FetchPage
  <2>2. P \in SUBSET Event
    BY AfterCommitted
  <2>3. page' \in [Worker -> SUBSET Event] /\ last' \in [Worker -> Event \cup {NoEvent}]
    BY <2>1, <2>2 DEF TypeOK
  <2> QED  BY <1>4, <2>3 DEF FetchPage, TypeOK, ingestVars, tableVars
<1>5. ASSUME NEW w \in Worker, InsertMarkers(w)
      PROVE  TypeOK'
  <2>1. ({ConsumerOf[w]} \X page[w]) \ markers \in SUBSET Marker
    BY WorkerAssumption DEF TypeOK, Marker
  <2>2. fresh' \in [Worker -> SUBSET Marker]
    BY <1>5, <2>1 DEF InsertMarkers, TypeOK
  <2> QED  BY <1>5, <2>2 DEF InsertMarkers, TypeOK, ingestVars, tableVars
<1>6. ASSUME NEW w \in Worker, CommitBatch(w)
      PROVE  TypeOK'
  <2>1. markers' \in SUBSET Marker
    BY <1>6 DEF CommitBatch, TypeOK
  <2>2. rollup' \in [Granularity -> [Cells -> Row]]
    <3>1. rollup' = Recomputed(markers')
      BY <1>6, CommitStep DEF RollupMatchesMarkers
    <3> QED  BY <2>1, <3>1, RecomputedType
  <2>3. offset' \in [Consumer -> Event \cup {NoEvent}]
    BY <1>6 DEF CommitBatch, TypeOK
  <2>4. pc' \in [Worker -> {"idle", "cursor", "page", "marked", "committed", "down"}]
    BY <1>6 DEF CommitBatch, TypeOK
  <2> QED  BY <1>6, <2>1, <2>2, <2>3, <2>4 DEF CommitBatch, TypeOK, ingestVars
<1>7. ASSUME NEW w \in Worker, FinishBatch(w)
      PROVE  TypeOK'
  BY <1>7, ForgetType DEF FinishBatch, TypeOK, ingestVars, tableVars
<1>8. ASSUME NEW w \in Worker, Restart(w)
      PROVE  TypeOK'
  BY <1>8 DEF Restart, TypeOK, ingestVars, tableVars
<1>9. ASSUME NEW w \in Worker, AbortBatch(w) \/ Crash(w)
      PROVE  TypeOK'
  <2>1. PICK next \in {"idle", "down"} : DropBatch(w, next)
    BY <1>9 DEF AbortBatch, Crash
  <2> QED  BY <2>1, ForgetType DEF DropBatch, TypeOK, ingestVars, tableVars
<1>10. ASSUME NEW c \in Consumer, ResetOffset(c)
       PROVE  TypeOK'
  BY <1>10 DEF ResetOffset, TypeOK, ingestVars, workerVars
<1>11. CASE UNCHANGED vars
  BY <1>11 DEF TypeOK, vars, ingestVars, tableVars, workerVars
<1> QED
  BY <1>1, <1>2, <1>3, <1>4, <1>5, <1>6, <1>7, <1>8, <1>9, <1>10, <1>11
  DEF Next, Ingest, Batch

\* What the open batches rely on survives a step that does not touch the
\* committed markers and only adds committed events, when each open batch
\* of the new state was open and the same in the old one.
LEMMA InFlightKept ==
  ASSUME InFlightBatches, markers' = markers, Committed \subseteq Committed',
         \A w \in Worker : pc'[w] \in {"page", "marked"} =>
           /\ pc'[w] = pc[w] /\ page'[w] = page[w]
           /\ last'[w] = last[w] /\ fresh'[w] = fresh[w]
  PROVE  InFlightBatches'
<1>1. \A w \in Worker : Holds(w)' \subseteq Holds(w)
  BY DEF Holds
<1>2. \A v, w \in Worker : v # w => Holds(v)' \cap Holds(w)' = {}
  BY <1>1 DEF InFlightBatches
<1>3. \A w \in Worker : pc'[w] \in {"page", "marked"} =>
        last'[w] \in page'[w] /\ page'[w] \subseteq Committed'
  BY DEF InFlightBatches
<1>4. \A w \in Worker : pc'[w] = "marked" =>
        /\ fresh'[w] \subseteq {ConsumerOf[w]} \X page'[w]
        /\ {ConsumerOf[w]} \X page'[w] \subseteq markers' \cup fresh'[w]
        /\ fresh'[w] \cap markers' = {}
  BY DEF InFlightBatches
<1> QED
  BY <1>2, <1>3, <1>4 DEF InFlightBatches

\* The steps other than CommitBatch and ResetOffset leave the tables alone.
LEMMA TablesKept ==
  ASSUME IInv, [Next]_vars
  PROVE  \/ UNCHANGED tableVars
         \/ \E w \in Worker : CommitBatch(w)
         \/ \E c \in Consumer : ResetOffset(c)
<1>1. ASSUME NEW r \in Request, BeginIngest(r) \/ CommitIngest(r) \/ RollbackIngest(r)
      PROVE  UNCHANGED tableVars
  BY <1>1 DEF BeginIngest, CommitIngest, RollbackIngest
<1>2. ASSUME NEW w \in Worker, Batch(w) \/ AbortBatch(w) \/ Crash(w)
      PROVE  UNCHANGED tableVars \/ CommitBatch(w)
  BY <1>2 DEF Batch, ReadOffset, FetchNothing, FetchPage, InsertMarkers, FinishBatch,
              Restart, AbortBatch, Crash, DropBatch
<1>3. CASE UNCHANGED vars
  BY <1>3 DEF vars
<1> QED
  BY <1>1, <1>2, <1>3 DEF Next, Ingest

\* Committed requests stay committed; only an ingest step commits one.
LEMMA CommittedKept ==
  ASSUME IInv, [Next]_vars
  PROVE  \/ Committed' = Committed
         \/ \E r \in Request : CommitIngest(r) /\ Committed \subseteq Committed'
<1>1. ASSUME UNCHANGED txn
      PROVE  Committed' = Committed
  BY <1>1 DEF Committed
<1>2. ASSUME NEW r \in Request, CommitIngest(r)
      PROVE  Committed \subseteq Committed'
  BY <1>2, IngestStep DEF IInv
<1>3. ASSUME NEW r \in Request, BeginIngest(r) \/ RollbackIngest(r)
      PROVE  Committed' = Committed
  <2>1. txn[r] # "committed" /\ txn' = [txn EXCEPT ![r] = txn'[r]] /\ txn'[r] # "committed"
    BY <1>3 DEF BeginIngest, RollbackIngest, IInv, TypeOK
  <2> QED  BY <2>1, RequestAssumption DEF Committed, IInv, TypeOK
<1>4. ASSUME NEW w \in Worker, Batch(w) \/ AbortBatch(w) \/ Crash(w)
      PROVE  UNCHANGED txn
  BY <1>4 DEF Batch, ReadOffset, FetchNothing, FetchPage, InsertMarkers, CommitBatch,
              FinishBatch, Restart, AbortBatch, Crash, DropBatch, ingestVars
<1>5. ASSUME NEW c \in Consumer, ResetOffset(c)
      PROVE  UNCHANGED txn
  BY <1>5 DEF ResetOffset, ingestVars
<1>6. CASE UNCHANGED vars
  BY <1>1, <1>6 DEF vars, ingestVars
<1> QED
  BY <1>1, <1>2, <1>3, <1>4, <1>5, <1>6 DEF Next, Ingest

\* Every step preserves what the open batches rely on.
LEMMA StepInFlight ==
  ASSUME IInv, [Next]_vars
  PROVE  InFlightBatches'
<1> USE DEF IInv
<1>c. Committed \subseteq Committed'
  BY CommittedKept
<1>1. ASSUME NEW r \in Request, BeginIngest(r) \/ CommitIngest(r) \/ RollbackIngest(r)
      PROVE  InFlightBatches'
  BY <1>1, <1>c, InFlightKept
  DEF BeginIngest, CommitIngest, RollbackIngest, tableVars, workerVars
<1>2. ASSUME NEW w \in Worker, ReadOffset(w)
      PROVE  InFlightBatches'
  BY <1>2, <1>c, InFlightKept DEF ReadOffset, tableVars, TypeOK
<1>3. ASSUME NEW w \in Worker, FetchNothing(w)
      PROVE  InFlightBatches'
  BY <1>3, <1>c, InFlightKept DEF FetchNothing, Forget, tableVars, TypeOK
<1>4. ASSUME NEW w \in Worker, FetchPage(w)
      PROVE  InFlightBatches'
  <2>1. PICK P \in SUBSET After(cursor[w]) :
          /\ page' = [page EXCEPT ![w] = P]
          /\ \E e \in P : last' = [last EXCEPT ![w] = e]
    BY <1>4 DEF FetchPage
  <2>2. page'[w] \subseteq Committed /\ last'[w] \in page'[w]
    BY <2>1, AfterCommitted DEF TypeOK
  <2>3. /\ pc' = [pc EXCEPT ![w] = "page"] /\ markers' = markers /\ fresh' = fresh
        /\ \A v \in Worker : v # w => page'[v] = page[v] /\ last'[v] = last[v]
    BY <1>4, <2>1 DEF FetchPage, tableVars, TypeOK
  <2>4. \A v \in Worker : Holds(v)' \subseteq Holds(v)
    BY <2>3 DEF Holds, TypeOK
  <2>5. \A v \in Worker : pc'[v] = "marked" => v # w /\ pc[v] = "marked"
    BY <2>3 DEF TypeOK
  <2>6. \A v \in Worker : pc'[v] \in {"page", "marked"} =>
          last'[v] \in page'[v] /\ page'[v] \subseteq Committed'
    BY <2>2, <2>3, <1>c DEF TypeOK, InFlightBatches
  <2>7. \A v \in Worker : pc'[v] = "marked" =>
          /\ fresh'[v] \subseteq {ConsumerOf[v]} \X page'[v]
          /\ {ConsumerOf[v]} \X page'[v] \subseteq markers' \cup fresh'[v]
          /\ fresh'[v] \cap markers' = {}
    BY <2>3, <2>5 DEF InFlightBatches
  <2>8. \A v, u \in Worker : v # u => Holds(v)' \cap Holds(u)' = {}
    BY <2>4 DEF InFlightBatches
  <2> QED  BY <2>6, <2>7, <2>8 DEF InFlightBatches
<1>5. ASSUME NEW w \in Worker, InsertMarkers(w)
      PROVE  InFlightBatches'
  <2> DEFINE wanted == {ConsumerOf[w]} \X page[w]
  <2>1. /\ pc[w] = "page" /\ pc' = [pc EXCEPT ![w] = "marked"]
        /\ fresh' = [fresh EXCEPT ![w] = wanted \ markers]
        /\ \A v \in Worker \ {w} : Holds(v) \cap wanted = {}
        /\ markers' = markers /\ page' = page /\ last' = last
    BY <1>5 DEF InsertMarkers, tableVars
  <2>2. fresh'[w] = wanted \ markers /\ pc'[w] = "marked"
    BY <2>1 DEF TypeOK
  <2>3. \A v \in Worker \ {w} : fresh'[v] = fresh[v] /\ pc'[v] = pc[v] /\ Holds(v)' = Holds(v)
    BY <2>1 DEF Holds, TypeOK
  <2>4. Holds(w)' \subseteq wanted
    BY <2>2 DEF Holds
  <2> HIDE DEF wanted
  <2>5. \A v \in Worker : pc'[v] \in {"page", "marked"} =>
          last'[v] \in page'[v] /\ page'[v] \subseteq Committed'
    BY <2>1, <2>3, <1>c DEF InFlightBatches
  <2>6. \A v \in Worker : pc'[v] = "marked" =>
          /\ fresh'[v] \subseteq {ConsumerOf[v]} \X page'[v]
          /\ {ConsumerOf[v]} \X page'[v] \subseteq markers' \cup fresh'[v]
          /\ fresh'[v] \cap markers' = {}
    <3>1. /\ fresh'[w] \subseteq {ConsumerOf[w]} \X page'[w]
          /\ {ConsumerOf[w]} \X page'[w] \subseteq markers' \cup fresh'[w]
          /\ fresh'[w] \cap markers' = {}
      BY <2>1, <2>2 DEF wanted
    <3>2. ASSUME NEW v \in Worker, v # w, pc'[v] = "marked"
          PROVE  /\ fresh'[v] \subseteq {ConsumerOf[v]} \X page'[v]
                 /\ {ConsumerOf[v]} \X page'[v] \subseteq markers' \cup fresh'[v]
                 /\ fresh'[v] \cap markers' = {}
      BY <2>1, <2>3, <3>2 DEF InFlightBatches
    <3> QED  BY <3>1, <3>2
  <2>7. \A v, u \in Worker : v # u => Holds(v)' \cap Holds(u)' = {}
    <3>1. \A v \in Worker \ {w} : Holds(v)' \cap Holds(w)' = {}
      BY <2>1, <2>3, <2>4
    <3>2. \A v, u \in Worker \ {w} : v # u => Holds(v)' \cap Holds(u)' = {}
      BY <2>3 DEF InFlightBatches
    <3> QED  BY <3>1, <3>2
  <2> QED  BY <2>5, <2>6, <2>7 DEF InFlightBatches
<1>6. ASSUME NEW w \in Worker, CommitBatch(w)
      PROVE  InFlightBatches'
  <2>1. /\ pc[w] = "marked" /\ pc' = [pc EXCEPT ![w] = "committed"]
        /\ markers' = markers \cup fresh[w]
        /\ page' = page /\ last' = last /\ fresh' = fresh
    BY <1>6 DEF CommitBatch
  <2>2. \A v \in Worker : pc'[v] \in {"page", "marked"} => v # w /\ pc'[v] = pc[v]
    BY <2>1 DEF TypeOK
  <2>3. \A v \in Worker : Holds(v)' \subseteq Holds(v)
    BY <2>1, <2>2 DEF Holds
  <2>4. \A v \in Worker : pc'[v] = "marked" =>
          /\ fresh'[v] \subseteq {ConsumerOf[v]} \X page'[v]
          /\ {ConsumerOf[v]} \X page'[v] \subseteq markers' \cup fresh'[v]
          /\ fresh'[v] \cap markers' = {}
    <3> SUFFICES ASSUME NEW v \in Worker, pc'[v] = "marked"
                 PROVE  /\ fresh'[v] \subseteq {ConsumerOf[v]} \X page'[v]
                        /\ {ConsumerOf[v]} \X page'[v] \subseteq markers' \cup fresh'[v]
                        /\ fresh'[v] \cap markers' = {}
      OBVIOUS
    <3>1. pc[v] = "marked" /\ v # w
      BY <2>2
    <3>2. fresh[v] \cap fresh[w] = {}
      BY <2>1, <3>1 DEF InFlightBatches, Holds
    <3>3. /\ fresh[v] \subseteq {ConsumerOf[v]} \X page[v]
          /\ {ConsumerOf[v]} \X page[v] \subseteq markers \cup fresh[v]
          /\ fresh[v] \cap markers = {}
      BY <3>1 DEF InFlightBatches
    <3> QED  BY <2>1, <3>2, <3>3
  <2>5. \A v \in Worker : pc'[v] \in {"page", "marked"} =>
          last'[v] \in page'[v] /\ page'[v] \subseteq Committed'
    BY <2>1, <2>2, <1>c DEF InFlightBatches
  <2>6. \A v, u \in Worker : v # u => Holds(v)' \cap Holds(u)' = {}
    BY <2>3 DEF InFlightBatches
  <2> QED  BY <2>4, <2>5, <2>6 DEF InFlightBatches
<1>7. ASSUME NEW w \in Worker, FinishBatch(w)
      PROVE  InFlightBatches'
  BY <1>7, <1>c, InFlightKept DEF FinishBatch, Forget, tableVars, TypeOK
<1>8. ASSUME NEW w \in Worker, Restart(w)
      PROVE  InFlightBatches'
  BY <1>8, <1>c, InFlightKept DEF Restart, tableVars, TypeOK
<1>9. ASSUME NEW w \in Worker, AbortBatch(w) \/ Crash(w)
      PROVE  InFlightBatches'
  <2>1. PICK next \in {"idle", "down"} : DropBatch(w, next)
    BY <1>9 DEF AbortBatch, Crash
  <2> QED  BY <2>1, <1>c, InFlightKept DEF DropBatch, Forget, tableVars, TypeOK
<1>10. ASSUME NEW c \in Consumer, ResetOffset(c)
       PROVE  InFlightBatches'
  BY <1>10, <1>c, InFlightKept DEF ResetOffset, workerVars
<1>11. CASE UNCHANGED vars
  BY <1>11, <1>c, InFlightKept DEF vars, tableVars, workerVars
<1> QED
  BY <1>1, <1>2, <1>3, <1>4, <1>5, <1>6, <1>7, <1>8, <1>9, <1>10, <1>11
  DEF Next, Ingest, Batch

\* Every step preserves the inductive invariant.
LEMMA StepIInv ==
  ASSUME IInv, [Next]_vars
  PROVE  IInv'
<1>1. TypeOK' /\ InFlightBatches'
  BY StepTypeOK, StepInFlight
<1>c. Committed \subseteq Committed'
  BY CommittedKept
<1>2. CASE UNCHANGED tableVars
  <2>1. RollupMatchesMarkers'
    BY <1>2 DEF IInv, RollupMatchesMarkers, tableVars
  <2>2. OffsetIsAggregated'
    BY <1>2 DEF IInv, OffsetIsAggregated, tableVars
  <2>3. MarkersAreCommitted'
    BY <1>2, <1>c DEF IInv, MarkersAreCommitted, tableVars
  <2> QED  BY <1>1, <2>1, <2>2, <2>3 DEF IInv
<1>3. ASSUME NEW w \in Worker, CommitBatch(w)
      PROVE  IInv'
  <2>1. RollupMatchesMarkers' /\ OffsetIsAggregated'
    BY <1>3, CommitStep
  <2>2. MarkersAreCommitted'
    <3>1. fresh[w] \subseteq {ConsumerOf[w]} \X page[w] /\ page[w] \subseteq Committed
      BY <1>3 DEF CommitBatch, IInv, InFlightBatches
    <3>2. markers' = markers \cup fresh[w]
      BY <1>3 DEF CommitBatch
    <3>3. \A m \in fresh[w] : m[2] \in Committed
      BY <3>1
    <3> QED  BY <3>2, <3>3, <1>c DEF IInv, MarkersAreCommitted
  <2> QED  BY <1>1, <2>1, <2>2 DEF IInv
<1>4. ASSUME NEW c \in Consumer, ResetOffset(c)
      PROVE  IInv'
  <2>1. /\ markers' = markers /\ rollup' = rollup
        /\ offset' = [offset EXCEPT ![c] = NoEvent]
    BY <1>4 DEF ResetOffset
  <2>2. RollupMatchesMarkers'
    BY <2>1 DEF IInv, RollupMatchesMarkers
  <2>3. OffsetIsAggregated'
    BY <2>1 DEF IInv, TypeOK, OffsetIsAggregated
  <2>4. MarkersAreCommitted'
    BY <2>1, <1>c DEF IInv, MarkersAreCommitted
  <2> QED  BY <1>1, <2>2, <2>3, <2>4 DEF IInv
<1> QED
  BY <1>2, <1>3, <1>4, TablesKept

\* The inductive invariant holds in every reachable state.
THEOREM Inductive == Spec => []IInv
<1>1. Init => IInv
  BY InitIInv
<1>2. IInv /\ [Next]_vars => IInv'
  BY StepIInv
<1> QED
  BY <1>1, <1>2, PTL DEF Spec

\* Type correctness.
THEOREM TypeCorrect == Spec => []TypeOK
<1>1. IInv => TypeOK
  BY DEF IInv
<1> QED
  BY <1>1, Inductive, PTL

(***************************************************************************)
(* Whatever workers run, crash, replay or share a consumer id, the rollup  *)
(* tables are the recomputation of the marker table: counts, sums, minima  *)
(* and maxima of all three granularities.                                  *)
(***************************************************************************)
THEOREM RollupsExact == Spec => []RollupMatchesMarkers
<1>1. IInv => RollupMatchesMarkers
  BY DEF IInv
<1> QED
  BY <1>1, Inductive, PTL

\* A transaction commits only markers nobody else has or holds.
THEOREM BatchesExclusive == Spec => []InFlightBatches
<1>1. IInv => InFlightBatches
  BY DEF IInv
<1> QED
  BY <1>1, Inductive, PTL

\* An offset always points at an event its consumer has aggregated.
THEOREM OffsetSound == Spec => []OffsetIsAggregated
<1>1. IInv => OffsetIsAggregated
  BY DEF IInv
<1> QED
  BY <1>1, Inductive, PTL

\* With one consumer id no cell counts more events than were committed in it.
LEMMA OneConsumerCounts ==
  ASSUME NEW k, Consumer = {k}, IInv
  PROVE  NeverOvercounts
<1> SUFFICES ASSUME NEW g \in Granularity, NEW x \in Cells
             PROVE  rollup[g][x].count <= Cardinality({e \in Committed : Cell(g, e) = x})
  BY DEF NeverOvercounts
<1> DEFINE M == InCell(markers, g, x)
           E == {e \in Committed : Cell(g, e) = x}
           f == [m \in M |-> m[2]]
<1>1. M \in SUBSET Marker
  BY DEF InCell, IInv, TypeOK
<1>2. rollup[g][x].count = Cardinality(M)
  <2>1. rollup[g][x] = Accum(M)
    BY DEF IInv, RollupMatchesMarkers, Recomputed
  <2> QED  BY <1>1, <2>1, AccumType
<1>3. IsFiniteSet(E)
  BY EventAssumption, FS_Subset DEF Committed
<1>4. f \in Injection(M, E)
  <2>1. \A m \in M : m[2] \in E
    BY DEF InCell, IInv, MarkersAreCommitted
  <2>2. \A m, n \in M : m[2] = n[2] => m = n
    BY <1>1 DEF Marker
  <2>3. f \in [M -> E]
    BY <2>1
  <2>4. \A m, n \in M : f[m] = f[n] => m = n
    BY <2>2
  <2> HIDE DEF M, E, f
  <2> QED  BY <2>3, <2>4 DEF Injection, IsInjective
<1> HIDE DEF M, E, f
<1>5. Cardinality(M) <= Cardinality(E)
  BY <1>3, <1>4, FS_Injection
<1> QED
  BY <1>2, <1>5 DEF E

(***************************************************************************)
(* With one consumer id, any number of worker processes and any faults     *)
(* never count an event twice.                                             *)
(***************************************************************************)
THEOREM NoOvercountOneConsumer ==
  ASSUME NEW k, Consumer = {k}
  PROVE  Spec => []NeverOvercounts
<1>1. IInv => NeverOvercounts
  BY OneConsumerCounts
<1> QED
  BY <1>1, Inductive, PTL

\* The ledger recomputes tables the way Rollups does.
LEMMA LedgerRecomputed ==
  ASSUME NEW M
  PROVE  Ledger!Recomputed(M) = Recomputed(M)
<1>1. Ledger!Granularity = Granularity /\ Ledger!Cells = Cells
  BY DEF Ledger!Granularity, Granularity, Ledger!Cells, Cells, Ledger!Cell, Cell,
         Ledger!Bucket, Bucket, Ledger!Width, Width
<1>2. \A g, x : Ledger!InCell(M, g, x) = InCell(M, g, x)
  BY DEF Ledger!InCell, InCell, Ledger!Cell, Cell, Ledger!Bucket, Bucket, Ledger!Width, Width
<1>3. \A N : Ledger!AmountSum(N) = AmountSum(N)
  BY DEF Ledger!AmountSum, AmountSum, Ledger!Marker, Marker, Ledger!SumFunctionOnSet,
         SumFunctionOnSet, Ledger!FoldFunctionOnSet, FoldFunctionOnSet,
         Ledger!MapThenFoldSet, MapThenFoldSet
<1>4. \A N : Ledger!Cardinality(N) = Cardinality(N)
  BY DEF Ledger!Cardinality, Cardinality
<1>5. \A N : Ledger!Accum(N) = Accum(N)
  BY <1>3, <1>4 DEF Ledger!Accum, Accum, Ledger!NoRow, NoRow, Ledger!Amounts, Amounts,
              Ledger!Min, Min, Ledger!Max, Max
<1> QED
  BY <1>1, <1>2, <1>5 DEF Ledger!Recomputed, Recomputed

\* The initial state is one of the ledger's.
LEMMA InitLedger == Init => Ledger!Init
<1>1. {} \in SUBSET Marker
  OBVIOUS
<1>2. ASSUME Init  PROVE Committed = {}
  BY <1>2, RequestAssumption DEF Init, Committed
<1> QED
  BY <1>1, <1>2, RecomputedType, LedgerRecomputed DEF Init, Ledger!Init

\* Every step is one of the ledger's or changes nothing the ledger shows.
LEMMA StepLedger ==
  ASSUME IInv, [Next]_vars
  PROVE  [Ledger!Next]_(Ledger!vars)
<1>1. CASE UNCHANGED tableVars
  <2>1. CASE Committed' = Committed
    BY <1>1, <2>1 DEF Ledger!vars, tableVars
  <2>2. ASSUME NEW r \in Request, CommitIngest(r), Committed \subseteq Committed'
        PROVE  [Ledger!Next]_(Ledger!vars)
    <3> DEFINE E == Committed' \ Committed
    <3>1. E \in SUBSET Event /\ E \cap Committed = {} /\ Committed' = Committed \cup E
      BY <2>2 DEF Committed
    <3>2. Ledger!Record(E)
      BY <1>1, <3>1 DEF Ledger!Record, tableVars
    <3> QED  BY <3>1, <3>2 DEF Ledger!Next
  <2> QED  BY <2>1, <2>2, CommittedKept
<1>2. ASSUME NEW w \in Worker, CommitBatch(w)
      PROVE  [Ledger!Next]_(Ledger!vars)
  <2> DEFINE c == ConsumerOf[w]
             E == {e \in Event : <<c, e>> \in fresh[w]}
  <2>1. c \in Consumer
    BY WorkerAssumption
  <2>2. fresh[w] \subseteq {c} \X page[w] /\ page[w] \subseteq Committed
    BY <1>2 DEF CommitBatch, IInv, InFlightBatches
  <2>3. {c} \X E = fresh[w]
    BY <2>2 DEF Committed
  <2>4. E \subseteq Committed
    BY <2>2
  <2>5. fresh[w] \cap markers = {}
    BY <1>2, CommitStep
  <2>6. markers' = markers \cup fresh[w] /\ rollup' = Recomputed(markers')
    BY <1>2, CommitStep DEF CommitBatch, RollupMatchesMarkers
  <2>7. Committed' = Committed
    BY <1>2 DEF CommitBatch, ingestVars, Committed
  <2> HIDE DEF c, E
  <2>8. Ledger!Aggregate(c, E)
    BY <2>3, <2>4, <2>5, <2>6, <2>7, LedgerRecomputed DEF Ledger!Aggregate
  <2>9. E \in SUBSET Event
    BY DEF E
  <2> QED  BY <2>1, <2>8, <2>9 DEF Ledger!Next
<1>3. ASSUME NEW c \in Consumer, ResetOffset(c)
      PROVE  [Ledger!Next]_(Ledger!vars)
  BY <1>3 DEF ResetOffset, ingestVars, Committed, Ledger!vars
<1> QED
  BY <1>1, <1>2, <1>3, TablesKept

(***************************************************************************)
(* The worker implements the ledger of RollupLedger: every behaviour of    *)
(* it, seen through its committed tables, aggregates each event once per   *)
(* consumer, whole batches at a time.                                      *)
(***************************************************************************)
THEOREM ImplementsLedger == Spec => LedgerSpec
<1>1. Init => Ledger!Init
  BY InitLedger
<1>2. IInv /\ [Next]_vars => [Ledger!Next]_(Ledger!vars)
  BY StepLedger
<1> QED
  BY <1>1, <1>2, Inductive, PTL DEF Spec, LedgerSpec, Ledger!Spec
-----------------------------------------------------------------------------
(***************************************************************************)
(* What the cursor may lose.  created_at of a committed event is final, so *)
(* an event that becomes visible behind an aggregated one is late, and a   *)
(* page leaves out only events that its last one does not come after.      *)
(***************************************************************************)

\* Of the events created before e, the consumer has reached all but late ones.
Passed(c, e) == \A f \in Committed \ late : CreatedAt(f) < CreatedAt(e) => Reached(c, f)

\* The offset and the cursors read from it, and a page up to its last event.
OffsetSoundFor(c) == offset[c] # NoEvent => Passed(c, offset[c])
CursorSound(w) ==
  pc[w] \in {"cursor", "page", "marked"} /\ cursor[w] # NoEvent =>
    <<ConsumerOf[w], cursor[w]>> \in markers /\ Passed(ConsumerOf[w], cursor[w])
InPage(w, f) == \E g \in page[w] : CreatedAt(g) = CreatedAt(f)
PageSound(w) ==
  pc[w] \in {"page", "marked"} =>
    \A f \in Committed \ late :
      CreatedAt(f) < CreatedAt(last[w]) => InPage(w, f) \/ Reached(ConsumerOf[w], f)

LossInv ==
  /\ \A c \in Consumer : OffsetSoundFor(c)
  /\ \A w \in Worker : CursorSound(w) /\ PageSound(w)

LEMMA CreatedAtType ==
  ASSUME TypeOK, NEW e \in Event
  PROVE  CreatedAt(e) \in Nat
BY RequestAssumption DEF TypeOK, CreatedAt

\* Only ingest steps move the requests, and the ones they move are not
\* committed yet.
LEMMA CreatedKept ==
  ASSUME IInv, [Next]_vars
  PROVE  /\ Committed \subseteq Committed' /\ Committed' \subseteq Event
         /\ markers \subseteq markers'
         /\ \A e \in Committed : CreatedAt(e)' = CreatedAt(e)
         /\ late \subseteq late'
<1> USE DEF IInv, TypeOK
<1>1. ASSUME UNCHANGED ingestVars
      PROVE  late' = late /\ \A e \in Committed : CreatedAt(e)' = CreatedAt(e)
  BY <1>1 DEF ingestVars, CreatedAt
<1>2. ASSUME NEW r \in Request, BeginIngest(r)
      PROVE  late' = late /\ \A e \in Committed : CreatedAt(e)' = CreatedAt(e)
  <2>1. \A e \in Committed : e \in Event /\ RequestOf[e] \in Request \ {r}
    BY <1>2, RequestAssumption DEF BeginIngest, Committed
  <2>2. \A q \in Request \ {r} : startedAt'[q] = startedAt[q]
    BY <1>2 DEF BeginIngest
  <2> QED  BY <1>2, <2>1, <2>2 DEF BeginIngest, CreatedAt
<1>3. ASSUME NEW r \in Request, CommitIngest(r) \/ RollbackIngest(r)
      PROVE  late \subseteq late' /\ \A e \in Committed : CreatedAt(e)' = CreatedAt(e)
  BY <1>3 DEF CommitIngest, RollbackIngest, CreatedAt
<1>4. \/ \E r \in Request : BeginIngest(r) \/ CommitIngest(r) \/ RollbackIngest(r)
      \/ UNCHANGED ingestVars
  BY DEF Next, Ingest, Batch, ReadOffset, FetchNothing, FetchPage, InsertMarkers, CommitBatch,
     FinishBatch, Restart, AbortBatch, Crash, DropBatch, ResetOffset, vars
<1>5. Committed \subseteq Committed' /\ Committed' \subseteq Event
  BY CommittedKept DEF Committed
<1>6. markers \subseteq markers'
  BY TablesKept DEF tableVars, CommitBatch, ResetOffset
<1> HIDE DEF IInv, TypeOK
<1> QED  BY <1>1, <1>2, <1>3, <1>4, <1>5, <1>6

\* An event that becomes visible without being late comes after no other.
LEMMA NewIsNotBehind ==
  ASSUME IInv, [Next]_vars, NEW e \in Committed' \ Committed, e \notin late', NEW f \in Committed
  PROVE  ~(CreatedAt(e)' < CreatedAt(f)')
<1>1. PICK r \in Request : CommitIngest(r)
  BY CommittedKept
<1>2. startedAt' = startedAt /\ e \in Event /\ RequestOf[e] = r
  BY <1>1, RequestAssumption DEF CommitIngest, Committed, IInv, TypeOK
<1>3. ~(CreatedAt(f) > CreatedAt(e))
  BY <1>1, <1>2 DEF CommitIngest
<1>4. CreatedAt(e) \in Nat /\ CreatedAt(f) \in Nat
  BY <1>2, CreatedAtType DEF IInv, Committed
<1> QED  BY <1>2, <1>3, <1>4 DEF CreatedAt

LEMMA ReachedKept ==
  ASSUME IInv, [Next]_vars, NEW c, NEW e \in Committed, Reached(c, e)
  PROVE  Reached(c, e)'
<1>1. PICK f \in Event : <<c, f>> \in markers /\ CreatedAt(f) = CreatedAt(e)
  BY DEF Reached
<1>2. f \in Committed
  BY <1>1 DEF IInv, MarkersAreCommitted
<1>3. <<c, f>> \in markers' /\ CreatedAt(f)' = CreatedAt(e)'
  BY <1>1, <1>2, CreatedKept
<1> QED  BY <1>3 DEF Reached

\* What a consumer has passed stays passed.
LEMMA PassedKept ==
  ASSUME IInv, [Next]_vars, NEW c, NEW e \in Committed, Passed(c, e)
  PROVE  Passed(c, e)'
<1> SUFFICES ASSUME NEW f \in Committed' \ late', CreatedAt(f)' < CreatedAt(e)'
             PROVE  Reached(c, f)'
  BY DEF Passed
<1>1. f \in Committed
  BY NewIsNotBehind
<1>2. CreatedAt(f) < CreatedAt(e) /\ f \notin late
  BY <1>1, CreatedKept
<1> QED  BY <1>1, <1>2, ReachedKept DEF Passed

\* How a worker gets to where it has a cursor: it reads the offset, fetches a
\* page after its cursor, or keeps both.
LEMMA WorkerMoves ==
  ASSUME IInv, [Next]_vars, NEW w \in Worker, pc'[w] \in {"cursor", "page", "marked"}
  PROVE  \/ /\ ReadOffset(w) /\ cursor'[w] = offset[ConsumerOf[w]] /\ pc'[w] = "cursor"
         \/ FetchPage(w)
         \/ /\ pc[w] \in {"cursor", "page", "marked"} /\ cursor'[w] = cursor[w]
            /\ pc'[w] \in {"page", "marked"} =>
                 pc[w] \in {"page", "marked"} /\ page'[w] = page[w] /\ last'[w] = last[w]
<1> USE DEF IInv, TypeOK
<1>1. ASSUME NEW v \in Worker, ReadOffset(v)
      PROVE  \/ v = w /\ cursor'[w] = offset[ConsumerOf[w]] /\ pc'[w] = "cursor"
             \/ /\ v # w /\ UNCHANGED <<page, last>>
                /\ pc'[w] = pc[w] /\ cursor'[w] = cursor[w]
  BY <1>1 DEF ReadOffset
<1>2. ASSUME NEW v \in Worker, FetchPage(v), v # w
      PROVE  /\ pc'[w] = pc[w] /\ UNCHANGED cursor
             /\ page'[w] = page[w] /\ last'[w] = last[w]
  BY <1>2 DEF FetchPage
<1>3. ASSUME NEW v \in Worker, FetchNothing(v) \/ FinishBatch(v) \/ AbortBatch(v) \/ Crash(v)
      PROVE  /\ v # w /\ pc'[w] = pc[w] /\ cursor'[w] = cursor[w]
             /\ page'[w] = page[w] /\ last'[w] = last[w]
  BY <1>3 DEF FetchNothing, FinishBatch, AbortBatch, Crash, DropBatch, Forget
<1>4. ASSUME NEW v \in Worker, InsertMarkers(v)
      PROVE  /\ pc'[w] = pc[w] \/ (pc[w] = "page" /\ pc'[w] = "marked")
             /\ UNCHANGED <<cursor, page, last>>
  BY <1>4 DEF InsertMarkers
<1>5. ASSUME NEW v \in Worker, CommitBatch(v) \/ Restart(v)
      PROVE  v # w /\ pc'[w] = pc[w] /\ UNCHANGED <<cursor, page, last>>
  BY <1>5 DEF CommitBatch, Restart
<1>6. CASE UNCHANGED workerVars
  BY <1>6 DEF workerVars
<1>7. ASSUME NEW r \in Request, BeginIngest(r) \/ CommitIngest(r) \/ RollbackIngest(r)
      PROVE  UNCHANGED workerVars
  BY <1>7 DEF BeginIngest, CommitIngest, RollbackIngest
<1>8. ASSUME NEW c \in Consumer, ResetOffset(c) PROVE UNCHANGED workerVars
  BY <1>8 DEF ResetOffset
<1> QED
  BY <1>1, <1>2, <1>3, <1>4, <1>5, <1>6, <1>7, <1>8 DEF Next, Ingest, Batch, vars

\* A page reaches its last event: what it leaves out is not before that.
LEMMA PageReachesLast ==
  ASSUME IInv, NEW w \in Worker, FetchPage(w), CursorSound(w),
         NEW f \in Committed \ late, CreatedAt(f) < CreatedAt(last'[w])
  PROVE  \/ \E g \in page'[w] : CreatedAt(g) = CreatedAt(f)
         \/ Reached(ConsumerOf[w], f)
<1> DEFINE c == cursor[w]
<1>1. PICK P \in SUBSET After(c), e \in Event \cup {NoEvent} :
        /\ IsPage(c, P) /\ e \in P
        /\ page' = [page EXCEPT ![w] = P] /\ last' = [last EXCEPT ![w] = e]
  BY AfterCommitted DEF FetchPage
<1>2. page'[w] = P /\ last'[w] = e /\ e \in Committed
  BY <1>1, AfterCommitted DEF IInv, TypeOK
<1>3. \A x \in Committed : CreatedAt(x) \in Nat /\ x \in Event
  BY CreatedAtType DEF IInv, Committed
<1>4. CreatedAt(f) < CreatedAt(e)
  BY <1>2
<1>5. CASE f \notin After(c)
  <2>1. c # NoEvent /\ ~(CreatedAt(f) > CreatedAt(c))
    BY <1>5 DEF After
  <2>2. <<ConsumerOf[w], c>> \in markers /\ Passed(ConsumerOf[w], c)
    BY <2>1 DEF CursorSound, FetchPage
  <2>3. c \in Committed
    BY <2>2 DEF IInv, MarkersAreCommitted
  <2>4. CreatedAt(f) < CreatedAt(c) \/ CreatedAt(c) = CreatedAt(f)
    BY <1>3, <2>1, <2>3
  <2>5. CASE CreatedAt(f) < CreatedAt(c)
    BY <2>2, <2>5 DEF Passed
  <2>6. CASE CreatedAt(c) = CreatedAt(f)
    BY <1>3, <2>2, <2>3, <2>6 DEF Reached
  <2> QED  BY <2>4, <2>5, <2>6
<1>6. CASE f \in After(c) \ P
  <2>1. Precedes(c, e, f)
    BY <1>1, <1>6 DEF IsPage
  <2> QED  BY <1>2, <1>3, <1>4, <2>1 DEF Precedes
<1>7. CASE f \in P
  BY <1>2, <1>7
<1> QED  BY <1>5, <1>6, <1>7

\* A batch that commits has reached what lies before its last event.
LEMMA CommitPasses ==
  ASSUME IInv, NEW w \in Worker, CommitBatch(w), PageSound(w)
  PROVE  Passed(ConsumerOf[w], last[w])'
<1> DEFINE c == ConsumerOf[w]
<1>1. /\ pc[w] = "marked" /\ markers' = markers \cup fresh[w] /\ UNCHANGED <<ingestVars, last>>
  BY DEF CommitBatch
<1>2. {c} \X page[w] \subseteq markers' /\ page[w] \subseteq Event
  BY <1>1 DEF IInv, InFlightBatches, TypeOK
<1>3. Committed' = Committed /\ late' = late /\ \A e : CreatedAt(e)' = CreatedAt(e)
  BY <1>1 DEF ingestVars, Committed, CreatedAt
<1> SUFFICES ASSUME NEW f \in Committed \ late, CreatedAt(f) < CreatedAt(last[w])
             PROVE  Reached(c, f)'
  BY <1>1, <1>3 DEF Passed
<1>4. CASE InPage(w, f)
  BY <1>2, <1>3, <1>4 DEF InPage, Reached
<1>5. CASE Reached(c, f)
  BY <1>1, <1>3, <1>5 DEF Reached
<1> QED  BY <1>1, <1>4, <1>5 DEF PageSound

LEMMA StepLoss ==
  ASSUME IInv, IInv', LossInv, [Next]_vars
  PROVE  LossInv'
<1>1. ASSUME NEW c \in Consumer, offset[c] # NoEvent
      PROVE  <<c, offset[c]>> \in markers /\ Passed(c, offset[c])
  BY <1>1 DEF LossInv, OffsetSoundFor, IInv, OffsetIsAggregated
<1>2. ASSUME NEW c, NEW e, <<c, e>> \in markers, Passed(c, e)
      PROVE  <<c, e>> \in markers' /\ Passed(c, e)'
  <2>1. e \in Committed
    BY <1>2 DEF IInv, MarkersAreCommitted
  <2> QED  BY <1>2, <2>1, PassedKept, CreatedKept
<1>3. ASSUME NEW c \in Consumer PROVE OffsetSoundFor(c)'
  <2> SUFFICES ASSUME NEW e, e = offset'[c], e # NoEvent PROVE Passed(c, e)'
    BY DEF OffsetSoundFor, Passed
  <2>1. CASE offset'[c] = offset[c]
    BY <1>1, <1>2, <2>1
  <2>2. ASSUME NEW w \in Worker, CommitBatch(w), offset'[c] # offset[c] PROVE Passed(c, e)'
    <3>1. c = ConsumerOf[w] /\ e = last[w] /\ last' = last
      BY <2>2 DEF CommitBatch, IInv, TypeOK
    <3>2. Passed(ConsumerOf[w], last[w])'
      BY <2>2, CommitPasses DEF LossInv
    <3> QED  BY <3>1, <3>2 DEF Passed
  <2>3. ASSUME NEW d \in Consumer, ResetOffset(d), offset'[c] # offset[c] PROVE FALSE
    BY <2>3 DEF ResetOffset, IInv, TypeOK
  <2> QED  BY <2>1, <2>2, <2>3, TablesKept DEF tableVars
<1>4. ASSUME NEW w \in Worker PROVE CursorSound(w)'
  <2> SUFFICES ASSUME pc'[w] \in {"cursor", "page", "marked"}, NEW e, e = cursor'[w], e # NoEvent
               PROVE  <<ConsumerOf[w], e>> \in markers' /\ Passed(ConsumerOf[w], e)'
    BY DEF CursorSound, Passed
  <2>1. \/ e = offset[ConsumerOf[w]]
        \/ pc[w] \in {"cursor", "page", "marked"} /\ e = cursor[w]
    BY WorkerMoves DEF FetchPage
  <2>2. <<ConsumerOf[w], e>> \in markers /\ Passed(ConsumerOf[w], e)
    BY <1>1, <2>1, WorkerAssumption DEF LossInv, CursorSound
  <2> QED  BY <1>2, <2>2
<1>5. ASSUME NEW w \in Worker PROVE PageSound(w)'
  <2> SUFFICES ASSUME pc'[w] \in {"page", "marked"}, NEW e, e = last'[w],
                      NEW f \in Committed' \ late', CreatedAt(f)' < CreatedAt(e)'
               PROVE  InPage(w, f)' \/ Reached(ConsumerOf[w], f)'
    BY DEF PageSound, CreatedAt
  <2>1. CASE FetchPage(w)
    <3>1. UNCHANGED <<ingestVars, markers>>
      BY <2>1 DEF FetchPage, tableVars
    <3>2. f \in Committed \ late /\ CreatedAt(f) < CreatedAt(last'[w])
      BY <3>1 DEF ingestVars, Committed, CreatedAt
    <3>3. (\E g \in page'[w] : CreatedAt(g) = CreatedAt(f)) \/ Reached(ConsumerOf[w], f)
      BY <2>1, <3>2, PageReachesLast DEF LossInv
    <3> QED  BY <3>1, <3>3 DEF InPage, Reached, ingestVars, CreatedAt
  <2>2. CASE pc[w] \in {"page", "marked"} /\ page'[w] = page[w] /\ last'[w] = last[w]
    <3>1. e = last[w] /\ e \in Committed /\ page[w] \subseteq Committed
      BY <2>2 DEF IInv, InFlightBatches
    <3>2. f \in Committed
      BY <3>1, NewIsNotBehind
    <3>3. f \notin late /\ CreatedAt(f) < CreatedAt(e)
      BY <3>1, <3>2, CreatedKept
    <3>4. InPage(w, f) \/ Reached(ConsumerOf[w], f)
      BY <2>2, <3>1, <3>2, <3>3 DEF LossInv, PageSound
    <3>5. CASE InPage(w, f)
      <4>1. PICK g \in page[w] : CreatedAt(g) = CreatedAt(f)
        BY <3>5 DEF InPage
      <4>2. CreatedAt(g)' = CreatedAt(f)'
        BY <3>1, <3>2, <4>1, CreatedKept
      <4> QED  BY <2>2, <4>2 DEF InPage
    <3> QED  BY <3>2, <3>4, <3>5, ReachedKept
  <2> QED  BY <2>1, <2>2, WorkerMoves DEF ReadOffset
<1> QED
  BY <1>3, <1>4, <1>5 DEF LossInv

(***************************************************************************)
(* The cursor of get_events_after loses an event only if it was committed  *)
(* behind a later created_at that was already visible, or if it shares     *)
(* created_at with an event its consumer has aggregated: for any requests, *)
(* overlapping or not and of any number of events, any workers and faults. *)
(***************************************************************************)
THEOREM LossIsLateOrTied == Spec => []LostOnlyLateOrTied
<1>1. Init => LossInv
  BY DEF Init, LossInv, OffsetSoundFor, CursorSound, PageSound
<1>2. ASSUME IInv, LossInv PROVE LostOnlyLateOrTied
  <2> SUFFICES ASSUME NEW c \in Consumer, NEW e \in Committed \ late, offset[c] # NoEvent,
                      CreatedAt(e) <= CreatedAt(offset[c])
               PROVE  Reached(c, e)
    BY DEF LostOnlyLateOrTied
  <2>1. <<c, offset[c]>> \in markers /\ Passed(c, offset[c])
    BY <1>2 DEF LossInv, OffsetSoundFor, IInv, OffsetIsAggregated
  <2>2. offset[c] \in Event /\ e \in Event
    BY <1>2, <2>1 DEF IInv, MarkersAreCommitted, Committed
  <2>3. CreatedAt(e) \in Nat /\ CreatedAt(offset[c]) \in Nat
    BY <1>2, <2>2, CreatedAtType DEF IInv
  <2>4. CASE CreatedAt(e) < CreatedAt(offset[c])
    BY <2>1, <2>4 DEF Passed
  <2>5. CASE CreatedAt(offset[c]) = CreatedAt(e)
    BY <2>1, <2>2, <2>5 DEF Reached
  <2> QED  BY <2>3, <2>4, <2>5
<1> QED
  BY <1>1, <1>2, Inductive, StepLoss, PTL DEF Spec
=============================================================================
