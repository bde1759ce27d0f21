--------------------------- MODULE ProcessProofs ---------------------------
(***************************************************************************)
(* The processes of the service: the API replicas of Lifecycle, their      *)
(* GET /health, and the worker process of WorkerLoop.                      *)
(*                                                                         *)
(* For any number of replicas, whatever they skip or find injected, and    *)
(* any numbers of outages, stops and events: what a replica has is read    *)
(* off the place it has come to in lifespan, whatever the others do,       *)
(* because the database only ever moves on: merchants stay, and the schema *)
(* stays at head.  What /health says rests on how far the occurred_at of   *)
(* events that are committed later may lie back.                           *)
(*                                                                         *)
(* For every set of events and every batch size: what makes NoLostWakeup   *)
(* inductive is the same statement from the empty fetch on.  Everything    *)
(* committed is aggregated then, and what is heard later raises the flag,  *)
(* which only EndWait lowers.                                              *)
(***************************************************************************)
EXTENDS Health, WorkerLoop, SequenceTheorems, FiniteSetTheorems, TLAPS

\* The places of lifespan at which the app's engine and its Redis client are
\* in the registries.
WithEngine == {"db", "redis", "migrate", "upgrade", "ddl", "seed", "insert", "serving", "dispose"}
WithRedis == (WithEngine \ {"db"}) \cup {"close"}

\* The engine is the app's own unless one was injected, and Redis is always.
Registries(r) ==
  /\ factory[r] = IF pc[r] \in WithEngine /\ r \notin Injected THEN "own" ELSE Preset(r)
  /\ owned[r] <=> factory[r] = "own"
  /\ pc[r] \in WithRedis => client[r] = "own"
  /\ pc[r] = "stopped" => client[r] = "none" /\ ~provider[r]

\* What a replica has found in the database, or put there, is there.
Schema(r) ==
  /\ pc[r] \in {"seed", "insert", "serving"} /\ r \notin SkipMigrations => version = HeadRevision
  /\ pc[r] \in {"insert", "serving"} => version > 0
  /\ pc[r] = "serving" => seeded

LifeInv == TypeOK /\ \A r \in Replica : Registries(r) /\ Schema(r)

\* The steps; a start that fails, an exit and a crash are the end of a process.
LEMMA LifeSteps ==
  ASSUME [Next]_lifecycle
  PROVE  \/ \E r \in Replica :
              \/ Start(r) \/ CheckDatabase(r) \/ CheckRedis(r) \/ ReadRevision(r)
              \/ BeginUpgrade(r) \/ CommitUpgrade(r) \/ CheckMerchants(r) \/ InsertMerchants(r)
              \/ Stop(r) \/ DisposeEngine(r) \/ CloseRedis(r)
              \/ Gone(r) /\ UNCHANGED <<database, servers>> /\ stops' \in {stops, stops + 1}
         \/ (GoDown \/ ComeBack) /\ UNCHANGED <<database, pc, slots, revision, stops>>
         \/ UNCHANGED lifecycle
<1>1. ASSUME NEW r \in Replica, FailStart(r) \/ Exit(r) \/ Crash(r)
      PROVE  Gone(r) /\ UNCHANGED <<database, servers>> /\ stops' \in {stops, stops + 1}
  BY <1>1 DEF FailStart, Exit, Crash
<1>2. ASSUME GoDown \/ ComeBack
      PROVE  UNCHANGED <<database, pc, slots, revision, stops>>
  BY <1>2 DEF GoDown, ComeBack
<1> QED
  BY <1>1, <1>2 DEF Next, Proceed

LEMMA BoundsKept ==
  ASSUME TypeOK, [Next]_lifecycle
  PROVE  /\ outages' \in 0 .. MaxOutages /\ stops' \in 0 .. MaxStops
         /\ dbUp' \in BOOLEAN /\ redisUp' \in BOOLEAN
<1> USE BoundsAssumption DEF TypeOK
<1>1. ASSUME NEW r \in Replica, Proceed(r) \/ Exit(r)
      PROVE  UNCHANGED <<servers, stops>>
  BY <1>1 DEF Proceed, Start, CheckDatabase, CheckRedis, ReadRevision, BeginUpgrade,
     CommitUpgrade, CheckMerchants, InsertMerchants, FailStart, DisposeEngine, CloseRedis, Exit
<1>2. ASSUME NEW r \in Replica, Stop(r) \/ Crash(r)
      PROVE  stops' \in 0 .. MaxStops /\ UNCHANGED servers
  BY <1>2 DEF Stop, Crash
<1>3. ASSUME GoDown
      PROVE  outages' \in 0 .. MaxOutages /\ dbUp' \in BOOLEAN /\ redisUp' \in BOOLEAN
             /\ UNCHANGED stops
  <2>1. outages' \in 0 .. MaxOutages /\ UNCHANGED stops
    BY <1>3 DEF GoDown
  <2>2. dbUp' \in {dbUp, FALSE} /\ redisUp' \in {redisUp, FALSE}
    BY <1>3 DEF GoDown
  <2> QED  BY <2>1, <2>2
<1>4. ASSUME ComeBack
      PROVE  dbUp' = TRUE /\ redisUp' = TRUE /\ UNCHANGED <<outages, stops>>
  BY <1>4 DEF ComeBack
<1>5. CASE UNCHANGED lifecycle
  BY <1>5 DEF lifecycle, servers
<1> QED
  BY <1>1, <1>2, <1>3, <1>4, <1>5 DEF Next, servers

\* The database only moves on.
LEMMA DatabaseMovesOn ==
  ASSUME TypeOK, [Next]_lifecycle
  PROVE  /\ version' = version \/ version' = HeadRevision
         /\ version' \in 0 .. HeadRevision /\ seeded' \in BOOLEAN
         /\ seeded => seeded'
<1>1. \/ UNCHANGED database
      \/ version' = HeadRevision /\ UNCHANGED seeded
      \/ seeded' = TRUE /\ UNCHANGED version
  BY LifeSteps DEF lifecycle, Start, CheckDatabase, CheckRedis, ReadRevision, BeginUpgrade,
     CommitUpgrade, CheckMerchants, InsertMerchants, Stop, DisposeEngine, CloseRedis
<1>2. version' \in {version, HeadRevision} /\ (seeded' = seeded \/ seeded' = TRUE)
  BY <1>1 DEF database
<1>3. HeadRevision \in 0 .. HeadRevision
  BY BoundsAssumption
<1>4. version' \in 0 .. HeadRevision
  BY <1>2, <1>3 DEF TypeOK
<1>5. seeded' \in BOOLEAN /\ (seeded => seeded')
  <2>1. CASE seeded' = seeded
    BY <2>1 DEF TypeOK
  <2>2. CASE seeded' = TRUE
    BY <2>2
  <2> QED  BY <1>2, <2>1, <2>2
<1> QED  BY <1>2, <1>4, <1>5

\* A step of a replica leaves what the others have.
LEMMA OtherReplicas ==
  ASSUME TypeOK, [Next]_lifecycle, NEW r \in Replica, Registries(r), Schema(r),
         /\ pc'[r] = pc[r] /\ factory'[r] = factory[r] /\ owned'[r] = owned[r]
         /\ client'[r] = client[r] /\ provider'[r] = provider[r]
  PROVE  Registries(r)' /\ Schema(r)'
<1>1. Registries(r)'
  BY DEF Registries, Preset
<1>2. Schema(r)'
  BY DatabaseMovesOn, BoundsAssumption DEF Schema, TypeOK
<1> QED  BY <1>1, <1>2

LEMMA StepLifeTypes ==
  ASSUME TypeOK, [Next]_lifecycle
  PROVE  TypeOK'
<1>1. /\ version' \in 0 .. HeadRevision /\ seeded' \in BOOLEAN
      /\ outages' \in 0 .. MaxOutages /\ stops' \in 0 .. MaxStops
      /\ dbUp' \in BOOLEAN /\ redisUp' \in BOOLEAN
  BY BoundsKept, DatabaseMovesOn
<1>2. ASSUME NEW r \in Replica,
             \/ Start(r) \/ CheckDatabase(r) \/ CheckRedis(r)
             \/ CheckMerchants(r) \/ InsertMerchants(r)
             \/ Stop(r) \/ DisposeEngine(r) \/ CloseRedis(r)
      PROVE  TypeOK'
  BY <1>1, <1>2, BoundsAssumption
     DEF TypeOK, Start, CheckDatabase, CheckRedis, CheckMerchants, InsertMerchants, Stop,
         DisposeEngine, CloseRedis, Goto, InitTracing, ShutdownTracing, ConfigureRedis, ResetRedis,
         slots
<1>3. ASSUME NEW r \in Replica, ReadRevision(r) \/ BeginUpgrade(r) \/ CommitUpgrade(r)
      PROVE  TypeOK'
  BY <1>1, <1>3, BoundsAssumption
     DEF TypeOK, ReadRevision, BeginUpgrade, CommitUpgrade, Goto, slots
<1>4. ASSUME NEW r \in Replica, Gone(r) PROVE TypeOK'
  <2>1. Preset(r) \in {"none", "own", "injected"} /\ 0 \in 0 .. HeadRevision
    BY BoundsAssumption DEF Preset
  <2> QED  BY <1>1, <1>4, <2>1 DEF TypeOK, Gone, Goto
<1>5. CASE UNCHANGED <<pc, slots, revision>>
  BY <1>1, <1>5 DEF TypeOK, slots
<1> QED
  BY <1>2, <1>3, <1>4, <1>5, LifeSteps DEF lifecycle

LEMMA StepLife ==
  ASSUME LifeInv, [Next]_lifecycle
  PROVE  LifeInv'
<1> USE DEF LifeInv, TypeOK
<1>1. TypeOK'
  BY StepLifeTypes
<1>2. ASSUME NEW r \in Replica, NEW q \in Replica, q # r,
             \/ Start(r) \/ CheckDatabase(r) \/ CheckRedis(r) \/ ReadRevision(r)
             \/ BeginUpgrade(r) \/ CommitUpgrade(r) \/ CheckMerchants(r) \/ InsertMerchants(r)
             \/ Stop(r) \/ DisposeEngine(r) \/ CloseRedis(r) \/ Gone(r)
      PROVE  Registries(q)' /\ Schema(q)'
  <2>1. /\ pc'[q] = pc[q] /\ factory'[q] = factory[q] /\ owned'[q] = owned[q]
        /\ client'[q] = client[q] /\ provider'[q] = provider[q]
    BY <1>2 DEF Start, CheckDatabase, CheckRedis, ReadRevision, BeginUpgrade, CommitUpgrade,
       CheckMerchants, InsertMerchants, Stop, DisposeEngine, CloseRedis, Gone, Goto, InitTracing,
       ShutdownTracing, ConfigureRedis, ResetRedis, slots
  <2> QED  BY <2>1, OtherReplicas
<1>3. ASSUME NEW r \in Replica, Start(r) PROVE Registries(r)' /\ Schema(r)'
  <2>1. /\ pc[r] \in {"off", "stopped"} /\ pc'[r] = "db"
        /\ owned'[r] = (factory[r] = "none")
        /\ factory'[r] = IF factory[r] = "none" THEN "own" ELSE factory[r]
    BY <1>3 DEF Start, Goto
  <2> QED  BY <2>1 DEF Registries, Schema, Preset, WithEngine, WithRedis
<1>4. ASSUME NEW r \in Replica, CheckDatabase(r) PROVE Registries(r)' /\ Schema(r)'
  BY <1>4 DEF CheckDatabase, ConfigureRedis, Goto, Registries, Schema, Preset, WithEngine, WithRedis
<1>5. ASSUME NEW r \in Replica, CheckRedis(r) \/ ReadRevision(r) \/ BeginUpgrade(r)
      PROVE  Registries(r)' /\ Schema(r)'
  <2>1. /\ UNCHANGED <<slots, version>> /\ pc[r] \in {"redis", "migrate", "upgrade"}
        /\ pc'[r] \in {"migrate", "upgrade", "ddl", "seed"}
        /\ pc'[r] = "seed" /\ r \notin SkipMigrations => version = HeadRevision
    BY <1>5 DEF CheckRedis, ReadRevision, BeginUpgrade, Goto, database
  <2> QED  BY <2>1 DEF Registries, Schema, Preset, WithEngine, WithRedis, slots
<1>6. ASSUME NEW r \in Replica, CommitUpgrade(r) PROVE Registries(r)' /\ Schema(r)'
  BY <1>6 DEF CommitUpgrade, Goto, Registries, Schema, Preset, WithEngine, WithRedis, slots
<1>7. ASSUME NEW r \in Replica, CheckMerchants(r) \/ InsertMerchants(r)
      PROVE  Registries(r)' /\ Schema(r)'
  <2>1. /\ UNCHANGED <<slots, version>> /\ pc[r] \in {"seed", "insert"}
        /\ pc'[r] \in {"insert", "serving"} /\ (pc[r] = "seed" => version > 0)
        /\ pc'[r] = "serving" => seeded'
    BY <1>7 DEF CheckMerchants, InsertMerchants, Goto, database
  <2> QED  BY <2>1 DEF Registries, Schema, Preset, WithEngine, WithRedis, slots
<1>8. ASSUME NEW r \in Replica, Stop(r) \/ DisposeEngine(r) \/ CloseRedis(r)
      PROVE  Registries(r)' /\ Schema(r)'
  BY <1>8 DEF Stop, DisposeEngine, CloseRedis, ResetRedis, ShutdownTracing, Goto, Registries,
     Schema, Preset, WithEngine, WithRedis, slots
<1>9. ASSUME NEW r \in Replica, Gone(r) PROVE Registries(r)' /\ Schema(r)'
  BY <1>9 DEF Gone, Goto, Registries, Schema, Preset, WithEngine, WithRedis
<1>10. CASE UNCHANGED <<database, pc, slots>>
  BY <1>1, <1>10 DEF Registries, Schema, Preset, database, slots
<1> QED
  BY <1>1, <1>2, <1>3, <1>4, <1>5, <1>6, <1>7, <1>8, <1>9, <1>10, LifeSteps DEF lifecycle

LEMMA InitLife == Init => LifeInv
<1> SUFFICES ASSUME Init PROVE LifeInv
  OBVIOUS
<1>1. /\ 0 \in 0 .. HeadRevision /\ 0 \in 0 .. MaxOutages /\ 0 \in 0 .. MaxStops
      /\ \A r \in Replica : Preset(r) \in {"none", "own", "injected"}
  BY BoundsAssumption DEF Preset
<1>2. seeded \in BOOLEAN
  <2>1. seeded = FALSE \/ seeded = (version > 0)
    BY Zenon DEF Init
  <2>2. (version > 0) \in BOOLEAN
    OBVIOUS
  <2> QED  BY <2>1, <2>2, Zenon
<1>3. TypeOK
  BY <1>1, <1>2 DEF Init, TypeOK
<1>4. \A r \in Replica : Registries(r) /\ Schema(r)
  BY DEF Init, Registries, Schema, Preset, WithEngine, WithRedis
<1> QED  BY <1>3, <1>4 DEF LifeInv

(***************************************************************************)
(* The inductive invariant: the registries and the schema as the place in  *)
(* lifespan says.                                                          *)
(***************************************************************************)
THEOREM LifeInductive == Spec => []LifeInv
  BY InitLife, StepLife, PTL DEF Spec

(***************************************************************************)
(* A replica that serves has its registries filled, a merchant to serve    *)
(* and a schema to serve from, whichever replica migrated and seeded, and  *)
(* whatever failed meanwhile (lifespan of main.py).                        *)
(***************************************************************************)
THEOREM ServingReplicasAreReady == Spec => []ServingMeansReady
<1>1. LifeInv => ServingMeansReady
  BY DEF LifeInv, Registries, Schema, Preset, WithEngine, WithRedis, ServingMeansReady
<1> QED
  BY <1>1, LifeInductive, PTL

(***************************************************************************)
(* After a stop an injected engine is still in the registry, the app's own *)
(* is not, and nothing of Redis and tracing is left.                       *)
(***************************************************************************)
THEOREM StopKeepsTheInjected == Spec => []StopReleasesItsOwn
<1>1. LifeInv => StopReleasesItsOwn
  BY DEF LifeInv, Registries, Preset, WithEngine, StopReleasesItsOwn
<1> QED
  BY <1>1, LifeInductive, PTL
-----------------------------------------------------------------------------
\* The replicas of Health are those of Lifecycle, but for when they stop.
LEMMA HealthSteps ==
  ASSUME [HealthNext]_vars
  PROVE  [Next]_lifecycle
  BY DEF HealthNext, LifecycleStep, Tick, Accept, Batch, AskDatabase, AskRedis, vars

(***************************************************************************)
(* Health refines Lifecycle, so that what is shown of the replicas holds   *)
(* while they answer requests.                                             *)
(***************************************************************************)
THEOREM HealthRunsLifecycle == HealthSpec => Spec
<1>1. HealthInit => Init
  BY DEF HealthInit
<1> QED
  BY <1>1, HealthSteps, PTL DEF HealthSpec, Spec

\* What the requests of Lifecycle add to the types.
ProbeTypes ==
  probe \in [Probed -> [at : {"none", "redis", "answered"},
                        overall : {"ok", "degraded", "down"},
                        lag : Never .. MaxNow, behind : BOOLEAN]]

\* Nothing occurs after now, and nothing waits that was not accepted.
StreamTypes ==
  /\ now \in 0 .. MaxNow /\ accepted \in 0 .. MaxEvents
  /\ waiting \in Seq(0 .. now) /\ Len(waiting) <= accepted
  /\ lastAt \in Never .. now

\* What is committed later occurred at most the time of a commit earlier.
Ordered ==
  /\ \A i, j \in 1 .. Len(waiting) : i <= j => waiting[j] >= waiting[i] - MaxLatency
  /\ lastAt # Never => \A i \in 1 .. Len(waiting) : waiting[i] >= lastAt - MaxLatency

\* What a request has read, and what it has made of it.
Truthful(r) ==
  /\ probe[r].lag # Never /\ probe[r].lag <= Threshold => ~probe[r].behind
  /\ probe[r].at = "answered" /\ probe[r].overall = "ok" => probe[r].lag <= Threshold

HealthInv == StreamTypes /\ Ordered /\ ProbeTypes /\ \A r \in Probed : Truthful(r)

\* A batch takes the first PageLength events.
LEMMA PageBounds ==
  ASSUME StreamTypes, waiting # <<>>
  PROVE  PageLength \in 1 .. Len(waiting)
<1>1. Len(waiting) \in Nat \ {0}
  BY EmptySeq, LenProperties DEF StreamTypes
<1> QED  BY <1>1, HealthAssumption DEF PageLength

LEMMA BatchLeaves ==
  ASSUME StreamTypes, Batch
  PROVE  /\ waiting' \in Seq(0 .. now) /\ Len(waiting') = Len(waiting) - PageLength
         /\ PageLength \in 1 .. Len(waiting)
         /\ \A i \in 1 .. Len(waiting') :
              PageLength + i \in 1 .. Len(waiting) /\ waiting'[i] = waiting[PageLength + i]
         /\ lastAt' = waiting[PageLength] /\ lastAt' \in 0 .. now
<1> DEFINE k == PageLength
<1>1. waiting # <<>> /\ waiting' = SubSeq(waiting, k + 1, Len(waiting)) /\ lastAt' = waiting[k]
  BY DEF Batch, LastEventAt
<1>2. k \in 1 .. Len(waiting)
  BY <1>1, PageBounds
<1>3. waiting \in Seq(0 .. now) /\ Len(waiting) \in Nat
  BY LenProperties DEF StreamTypes
<1>4. \A i \in 1 .. Len(waiting) : waiting[i] \in 0 .. now
  BY <1>3, ElementOfSeq
<1> HIDE DEF k
<1>5. /\ waiting' \in Seq(0 .. now)
      /\ Len(waiting') = Len(waiting) - k
      /\ \A i \in 1 .. Len(waiting) - k : waiting'[i] = waiting[k + i]
  <2>1. Len(waiting') = Len(waiting) - k
        /\ \A i \in 1 .. Len(waiting) - k : waiting'[i] = waiting[k + 1 + i - 1]
    BY <1>1, <1>2, <1>3, SMT
  <2>2. waiting' \in Seq(0 .. now)
    BY <1>1, <1>2, <1>3, <1>4, SMT
  <2> QED  BY <2>1, <2>2, <1>2, <1>3
<1>6. lastAt' = waiting[k] /\ lastAt' \in 0 .. now
  BY <1>1, <1>2, <1>4
<1>7. \A i \in 1 .. Len(waiting') :
        k + i \in 1 .. Len(waiting) /\ waiting'[i] = waiting[k + i]
  BY <1>2, <1>3, <1>5
<1> QED  BY <1>2, <1>5, <1>6, <1>7 DEF k

LEMMA AcceptAppends ==
  ASSUME StreamTypes, Accept
  PROVE  /\ waiting' \in Seq(0 .. now) /\ Len(waiting') = Len(waiting) + 1
         /\ \A i \in 1 .. Len(waiting) : waiting'[i] = waiting[i]
         /\ waiting'[Len(waiting) + 1] \in 0 .. now
         /\ waiting'[Len(waiting) + 1] >= now - MaxLatency
<1>1. PICK t \in (now - MaxLatency) .. now : t >= 0 /\ waiting' = Append(waiting, t)
  BY DEF Accept
<1>2. t \in 0 .. now /\ t >= now - MaxLatency
  BY <1>1, HealthAssumption DEF StreamTypes
<1>3. waiting \in Seq(0 .. now)
  BY DEF StreamTypes
<1> QED  BY <1>1, <1>2, <1>3, AppendProperties

LEMMA StepStream ==
  ASSUME StreamTypes, Ordered, [HealthNext]_vars
  PROVE  StreamTypes' /\ Ordered'
<1> DEFINE n == Len(waiting)
<1>1. n \in Nat /\ \A i \in 1 .. n : waiting[i] \in 0 .. now
  BY LenProperties, ElementOfSeq DEF StreamTypes
<1>2. CASE Tick
  <2>1. now' = now + 1 /\ now' \in 0 .. MaxNow /\ UNCHANGED stream
    BY <1>2, HealthAssumption DEF Tick, StreamTypes
  <2>2. 0 .. now \subseteq 0 .. now'
    BY <2>1 DEF StreamTypes
  <2>3. waiting \in Seq(0 .. now')
    BY <2>2, SeqMonotonic DEF StreamTypes
  <2>4. StreamTypes'
    BY <2>1, <2>3 DEF StreamTypes, stream
  <2> QED  BY <2>1, <2>4 DEF Ordered, stream
<1>3. CASE Accept
  <2>1. /\ accepted' = accepted + 1 /\ accepted' \in 0 .. MaxEvents
        /\ UNCHANGED <<now, lastAt>>
    BY <1>3, HealthAssumption DEF Accept, StreamTypes
  <2>2. StreamTypes'
    BY <1>1, <1>3, <2>1, AcceptAppends DEF StreamTypes
  <2> HIDE DEF n
  <2>3. ASSUME NEW i \in 1 .. n + 1
        PROVE  /\ waiting'[i] \in 0 .. now
               /\ i = n + 1 \/ (i \in 1 .. n /\ waiting'[i] = waiting[i])
    BY <1>1, <1>3, AcceptAppends DEF n
  <2>4. waiting'[n + 1] >= now - MaxLatency /\ Len(waiting') = n + 1
    BY <1>3, AcceptAppends DEF n
  <2>5. ASSUME NEW i \in 1 .. n + 1, NEW j \in 1 .. n + 1, i <= j
        PROVE  waiting'[j] >= waiting'[i] - MaxLatency
    <3>1. CASE j = n + 1
      BY <2>3, <2>4, <3>1, HealthAssumption DEF StreamTypes
    <3>2. CASE j # n + 1
      <4>1. i \in 1 .. n /\ j \in 1 .. n /\ waiting'[i] = waiting[i] /\ waiting'[j] = waiting[j]
        BY <1>1, <2>3, <2>5, <3>2
      <4> QED  BY <2>5, <4>1 DEF Ordered, n
    <3> QED  BY <3>1, <3>2
  <2>6. ASSUME NEW i \in 1 .. n + 1, lastAt # Never
        PROVE  waiting'[i] >= lastAt - MaxLatency
    <3>1. CASE i = n + 1
      BY <2>3, <2>4, <3>1, HealthAssumption DEF StreamTypes, Never
    <3>2. CASE i \in 1 .. n
      BY <2>3, <2>6, <3>2 DEF Ordered, n
    <3> QED  BY <2>3, <3>1, <3>2
  <2> QED  BY <2>1, <2>2, <2>4, <2>5, <2>6 DEF Ordered
<1>4. CASE Batch
  <2> DEFINE k == PageLength
  <2>1. UNCHANGED <<now, accepted>>
    BY <1>4 DEF Batch
  <2>2. /\ waiting' \in Seq(0 .. now) /\ Len(waiting') = n - k /\ k \in 1 .. n
        /\ lastAt' = waiting[k] /\ lastAt' \in 0 .. now
    BY <1>4, BatchLeaves
  <2>3. \A i \in 1 .. Len(waiting') : k + i \in 1 .. n /\ waiting'[i] = waiting[k + i]
    BY <1>4, BatchLeaves
  <2>4. StreamTypes'
    BY <1>1, <2>1, <2>2 DEF StreamTypes, Never
  <2> HIDE DEF k
  <2>5. ASSUME NEW i \in 1 .. Len(waiting'), NEW j \in 1 .. Len(waiting'), i <= j
        PROVE  waiting'[j] >= waiting'[i] - MaxLatency
    <3>1. k + i \in 1 .. n /\ k + j \in 1 .. n /\ k + i <= k + j
      BY <1>1, <2>2, <2>3, <2>5
    <3>2. waiting[k + j] >= waiting[k + i] - MaxLatency
      BY <3>1 DEF Ordered
    <3> QED  BY <2>3, <3>2
  <2>6. ASSUME NEW i \in 1 .. Len(waiting')
        PROVE  waiting'[i] >= lastAt' - MaxLatency
    <3>1. k + i \in 1 .. n /\ k \in 1 .. n /\ k <= k + i
      BY <1>1, <2>2, <2>3
    <3>2. waiting[k + i] >= waiting[k] - MaxLatency
      BY <3>1 DEF Ordered
    <3> QED  BY <2>2, <2>3, <3>2
  <2> QED  BY <2>4, <2>5, <2>6 DEF Ordered
<1>5. CASE UNCHANGED <<now, stream>>
  BY <1>5 DEF StreamTypes, Ordered, stream
<1> QED
  BY <1>2, <1>3, <1>4, <1>5
     DEF HealthNext, LifecycleStep, AskDatabase, AskRedis, vars

\* An offset that is fresh enough vouches for all that waits.
LEMMA FreshOffset ==
  ASSUME StreamTypes, Ordered, lastAt # Never, now - lastAt <= Threshold
  PROVE  ~Behind
<1> SUFFICES ASSUME waiting # <<>> PROVE ~(now - waiting[1] > Threshold + MaxLatency)
  BY DEF Behind
<1>1. Len(waiting) \in Nat \ {0}
  BY EmptySeq DEF StreamTypes
<1>2. waiting[1] \in 0 .. now /\ waiting[1] >= lastAt - MaxLatency
  BY <1>1, ElementOfSeq DEF StreamTypes, Ordered
<1> QED  BY <1>2, HealthAssumption DEF StreamTypes, Never

LEMMA StepProbes ==
  ASSUME StreamTypes, Ordered, ProbeTypes, \A r \in Probed : Truthful(r),
         [HealthNext]_vars
  PROVE  ProbeTypes' /\ \A r \in Probed : Truthful(r)'
<1>1. ASSUME NEW r \in Probed, AskDatabase(r)
      PROVE  ProbeTypes' /\ \A q \in Probed : Truthful(q)'
  <2> DEFINE read == [at |-> "redis", overall |-> "ok",
                      lag |-> IF lastAt = Never THEN Never ELSE now - lastAt, behind |-> Behind]
             down == [NoProbe EXCEPT !.at = "redis", !.overall = "down"]
  <2>1. probe' = [probe EXCEPT ![r] = IF dbUp THEN read ELSE down]
    BY <1>1 DEF AskDatabase
  <2>2. read \in [at : {"none", "redis", "answered"}, overall : {"ok", "degraded", "down"},
                  lag : Never .. MaxNow, behind : BOOLEAN]
    <3>1. (IF lastAt = Never THEN Never ELSE now - lastAt) \in Never .. MaxNow
      <4>1. now \in 0 .. MaxNow /\ lastAt \in -1 .. now
        BY DEF StreamTypes, Never
      <4>2. lastAt # -1 => now - lastAt \in -1 .. MaxNow
        BY <4>1, HealthAssumption
      <4>3. -1 \in -1 .. MaxNow
        BY HealthAssumption
      <4> QED  BY <4>2, <4>3 DEF Never
    <3>2. Behind \in BOOLEAN
      BY Zenon DEF Behind
    <3> HIDE DEF Behind
    <3> QED  BY <3>1, <3>2, Zenon
  <2>3. down.at = "redis" /\ ~down.behind /\ down.lag = Never
    BY DEF NoProbe
  <2>4. down \in [at : {"none", "redis", "answered"}, overall : {"ok", "degraded", "down"},
                  lag : Never .. MaxNow, behind : BOOLEAN]
    <3>1. Never \in Never .. MaxNow
      BY HealthAssumption DEF Never
    <3>2. NoProbe \in [at : {"none", "redis", "answered"}, overall : {"ok", "degraded", "down"},
                       lag : Never .. MaxNow, behind : BOOLEAN]
      BY <3>1 DEF NoProbe
    <3> QED  BY <3>2, Zenon
  <2>5. read.lag # Never /\ read.lag <= Threshold => ~read.behind
    <3>1. read.lag = (IF lastAt = Never THEN Never ELSE now - lastAt)
      OBVIOUS
    <3>2. read.behind = Behind
      BY Zenon
    <3> QED  BY <3>1, <3>2, FreshOffset
  <2>6. read.at = "redis" /\ down.at = "redis" /\ ~down.behind
    BY <2>3
  <2> HIDE DEF read, down
  <2>7. ProbeTypes'
    BY <2>1, <2>2, <2>4, Zenon DEF ProbeTypes
  <2>8. probe'[r] = (IF dbUp THEN read ELSE down)
        /\ \A q \in Probed \ {r} : probe'[q] = probe[q]
    BY <2>1, Zenon DEF ProbeTypes
  <2>9. Truthful(r)'
    BY <2>5, <2>6, <2>8 DEF Truthful
  <2>10. \A q \in Probed \ {r} : Truthful(q)'
    BY <2>8, Zenon DEF Truthful
  <2> QED  BY <2>7, <2>9, <2>10
<1>2. ASSUME NEW r \in Probed, AskRedis(r)
      PROVE  ProbeTypes' /\ \A q \in Probed : Truthful(q)'
  <2> DEFINE o == probe[r].overall
             verdict == IF ~redisUp \/ probe[r].lag > Threshold THEN Worse(o) ELSE o
  <2>1. probe' = [probe EXCEPT ![r].at = "answered", ![r].overall = verdict]
    BY <1>2 DEF AskRedis
  <2>2. o \in {"ok", "degraded", "down"} /\ verdict \in {"ok", "degraded", "down"}
    BY DEF ProbeTypes, Worse
  <2>3. verdict = "ok" => ~(probe[r].lag > Threshold)
    BY DEF Worse
  <2> HIDE DEF verdict
  <2>4. ProbeTypes'
    BY <2>1, <2>2 DEF ProbeTypes
  <2>5. /\ probe'[r].lag = probe[r].lag /\ probe'[r].behind = probe[r].behind
        /\ probe'[r].overall = verdict
        /\ \A q \in Probed \ {r} : probe'[q] = probe[q]
    BY <2>1 DEF ProbeTypes
  <2>6. probe[r].lag \in Int /\ Threshold \in Int
    BY HealthAssumption DEF ProbeTypes, Never
  <2>7. Truthful(r)'
    <3>1. verdict = "ok" => probe[r].lag <= Threshold
      BY <2>3, <2>6
    <3> QED  BY <2>5, <3>1 DEF Truthful
  <2>8. \A q \in Probed \ {r} : Truthful(q)'
    BY <2>5, Zenon DEF Truthful
  <2> QED  BY <2>4, <2>7, <2>8
<1>3. CASE LifecycleStep
  <2>1. probe' = [r \in Probed |-> IF pc'[r] = "serving" THEN probe[r] ELSE NoProbe]
    BY <1>3 DEF LifecycleStep
  <2>2. NoProbe \in [at : {"none", "redis", "answered"}, overall : {"ok", "degraded", "down"},
                     lag : Never .. MaxNow, behind : BOOLEAN]
    BY HealthAssumption DEF NoProbe, Never
  <2>3. ProbeTypes'
    BY <2>1, <2>2, Zenon DEF ProbeTypes
  <2>4. ASSUME NEW r \in Probed PROVE Truthful(r)'
    <3>1. CASE probe'[r] = probe[r]
      BY <3>1, Zenon DEF Truthful
    <3>2. CASE probe'[r] = NoProbe
      BY <3>2 DEF Truthful, NoProbe
    <3> QED  BY <2>1, <3>1, <3>2
  <2> QED  BY <2>3, <2>4
<1>4. CASE UNCHANGED probe
  BY <1>4, Zenon DEF ProbeTypes, Truthful
<1> QED
  BY <1>1, <1>2, <1>3, <1>4 DEF HealthNext, Tick, Accept, Batch, vars

LEMMA InitHealth == HealthInit => HealthInv
<1> SUFFICES ASSUME HealthInit PROVE HealthInv
  OBVIOUS
<1>1. now = 0 /\ accepted = 0 /\ waiting = <<>> /\ lastAt = Never
      /\ probe = [r \in Probed |-> NoProbe]
  BY DEF HealthInit
<1>2. StreamTypes
  <2>1. waiting \in Seq(0 .. now) /\ Len(waiting) = 0
    BY <1>1, EmptySeq
  <2> QED  BY <1>1, <2>1, HealthAssumption DEF StreamTypes, Never
<1>3. Ordered
  <2>1. Len(waiting) = 0
    BY <1>1, EmptySeq
  <2> QED  BY <1>1, <2>1 DEF Ordered
<1>4. ProbeTypes
  <2>1. NoProbe \in [at : {"none", "redis", "answered"}, overall : {"ok", "degraded", "down"},
                     lag : Never .. MaxNow, behind : BOOLEAN]
    BY HealthAssumption DEF NoProbe, Never
  <2> QED  BY <1>1, <2>1, Zenon DEF ProbeTypes
<1>5. \A r \in Probed : Truthful(r)
  BY <1>1 DEF Truthful, NoProbe
<1> QED  BY <1>2, <1>3, <1>4, <1>5 DEF HealthInv

(***************************************************************************)
(* The inductive invariant of GET /health: events are committed in nearly  *)
(* the order in which they occurred, so that the offset bounds the age of  *)
(* whatever still waits; it holds whatever the replicas do.                *)
(***************************************************************************)
THEOREM HealthInductive == HealthSpec => []HealthInv
<1>1. ASSUME HealthInv, [HealthNext]_vars PROVE HealthInv'
  BY <1>1, StepStream, StepProbes DEF HealthInv
<1> QED
  BY InitHealth, <1>1, PTL DEF HealthSpec

(***************************************************************************)
(* Every state of the replicas, the stream and the requests has its type.  *)
(***************************************************************************)
THEOREM HealthTypeCorrect == HealthSpec => []HealthTypeOK
<1>1. TypeOK /\ HealthInv => HealthTypeOK
  <2> SUFFICES ASSUME TypeOK, HealthInv PROVE HealthTypeOK
    OBVIOUS
  <2>1. 0 .. now \subseteq 0 .. MaxNow /\ lastAt \in Never .. MaxNow
    <3>1. now \in 0 .. MaxNow /\ lastAt \in -1 .. now
      BY DEF HealthInv, StreamTypes, Never
    <3> QED  BY <3>1, HealthAssumption DEF Never
  <2>2. waiting \in Seq(0 .. MaxNow)
    BY <2>1, SeqMonotonic DEF HealthInv, StreamTypes
  <2> QED  BY <2>1, <2>2, Zenon DEF HealthInv, StreamTypes, ProbeTypes, HealthTypeOK
<1>2. LifeInv => TypeOK
  BY DEF LifeInv
<1> QED
  BY <1>1, <1>2, HealthInductive, HealthRunsLifecycle, LifeInductive, PTL

(***************************************************************************)
(* A worker that hangs or lags is reported: "ok" with an offset means that *)
(* no event had waited for longer than worker_lag_threshold_s and the time *)
(* an event takes to be committed, for any size of the worker's batch.     *)
(***************************************************************************)
THEOREM OkIsTrustworthy == HealthSpec => []OkMeansNoBacklog
<1>1. HealthInv => OkMeansNoBacklog
  BY DEF HealthInv, Truthful, OkMeansNoBacklog, SaysOk
<1> QED
  BY <1>1, HealthInductive, PTL
-----------------------------------------------------------------------------
\* From the empty fetch to the end of the wait.
Idle == loop \in {"empty", "waiting"}

WakeInv ==
  /\ LoopTypeOK
  /\ Idle /\ ~flag => heard \subseteq aggregated

\* A page is empty only when nothing is left to fetch.
LEMMA EmptyPage ==
  ASSUME NEW L \in SUBSET Event, 0 = Min({BatchSize, Cardinality(L)})
  PROVE  L = {}
<1>1. IsFiniteSet(L)
  BY EventAssumption, FS_Subset
<1>2. Cardinality(L) \in Nat
  BY <1>1, FS_CardinalityType
<1>3. Min({BatchSize, Cardinality(L)}) \in {BatchSize, Cardinality(L)}
  <2> DEFINE S == {BatchSize, Cardinality(L)}
  <2>1. \E x \in S : \A y \in S : x <= y
    BY <1>2, BatchAssumption
  <2> QED
    BY <2>1 DEF Min
<1>4. Cardinality(L) = 0
  BY <1>2, <1>3, BatchAssumption
<1> QED
  BY <1>1, <1>4, FS_EmptySet

LEMMA InitWake == LoopInit => WakeInv
<1>1. 0 \in 0 .. MaxErrors /\ 0 \in 0 .. MaxLosses
  BY BoundAssumption
<1>2. LoopInit => LoopTypeOK
  BY <1>1, Zenon DEF LoopInit, LoopTypeOK
<1> QED
  BY <1>2 DEF LoopInit, WakeInv, Idle

\* Every step keeps the types.
LEMMA StepLoopTypes == LoopTypeOK /\ [LoopNext]_loopVars => LoopTypeOK'
<1> SUFFICES ASSUME LoopTypeOK, [LoopNext]_loopVars PROVE LoopTypeOK'
  OBVIOUS
<1> USE BoundAssumption DEF LoopTypeOK
<1>1. ASSUME NEW e \in Event, Ingest(e) PROVE LoopTypeOK'
  BY <1>1 DEF Ingest
<1>2. ASSUME NEW e \in Event, HandleNotice(e) PROVE LoopTypeOK'
  BY <1>2 DEF HandleNotice, data
<1>3. CASE HandleShutdown
  BY <1>3 DEF HandleShutdown, data, wire
<1>4. CASE CheckRunning
  BY <1>4 DEF CheckRunning, LoopOnly, wire
<1>5. CASE Fetch
  BY <1>5 DEF Fetch, LoopOnly, wire
<1>6. CASE CommitBatch
  BY <1>6 DEF CommitBatch, LoopOnly, wire
<1>7. CASE FinishBatch
  BY <1>7 DEF FinishBatch, LoopOnly, wire
<1>8. CASE BatchFails
  BY <1>8 DEF BatchFails, LoopOnly, wire
<1>9. CASE Retry
  BY <1>9 DEF Retry, LoopOnly, wire
<1>10. CASE BeginWait
  BY <1>10 DEF BeginWait, LoopOnly, wire
<1>11. CASE EndWait
  BY <1>11 DEF EndWait, LoopOnly, wire
<1>12. CASE CheckListening
  BY <1>12 DEF CheckListening, ListenerOnly, data
<1>13. CASE Listen
  BY <1>13 DEF Listen, ListenerOnly, data
<1>14. CASE ConnectFails
  BY <1>14 DEF ConnectFails, ListenerOnly, data
<1>15. CASE Reconnect
  BY <1>15 DEF Reconnect, ListenerOnly, data
<1>16. CASE LoseConnection
  BY <1>16 DEF LoseConnection, ListenerOnly, data
<1>17. CASE StopListening
  BY <1>17 DEF StopListening, ListenerOnly, data
<1>18. CASE UNCHANGED loopVars
  BY <1>18 DEF loopVars, data, wire
<1> QED
  BY <1>1, <1>2, <1>3, <1>4, <1>5, <1>6, <1>7, <1>8, <1>9, <1>10, <1>11, <1>12,
     <1>13, <1>14, <1>15, <1>16, <1>17, <1>18 DEF LoopNext, LoopStep, ListenerStep

LEMMA StepWake == WakeInv /\ [LoopNext]_loopVars => WakeInv'
<1> SUFFICES ASSUME WakeInv, [LoopNext]_loopVars PROVE WakeInv'
  OBVIOUS
<1>t. LoopTypeOK /\ LoopTypeOK'
  BY StepLoopTypes DEF WakeInv
<1> SUFFICES (Idle /\ ~flag)' => (heard \subseteq aggregated)'
  BY <1>t DEF WakeInv
<1> USE DEF WakeInv, Idle
<1>1. CASE Fetch
  <2>1. PICK P \in SUBSET (log \ aggregated) :
          /\ Cardinality(P) = Min({BatchSize, Cardinality(log \ aggregated)})
          /\ loop' = IF P = {} THEN "empty" ELSE "commit"
    BY <1>1 DEF Fetch
  <2>2. CASE P = {}
    <3>1. Cardinality(P) = 0
      BY <2>2, FS_EmptySet
    <3>2. log \ aggregated \in SUBSET Event
      BY <1>t DEF LoopTypeOK
    <3>3. log \ aggregated = {}
      BY <2>1, <3>1, <3>2, EmptyPage
    <3> QED
      BY <1>t, <1>1, <3>3 DEF LoopTypeOK, Fetch, LoopOnly, wire
  <2>3. CASE P # {}
    BY <2>1, <2>3
  <2> QED
    BY <2>2, <2>3
<1>2. CASE \E e \in Event : Ingest(e)
  BY <1>2 DEF Ingest
<1>3. CASE \E e \in Event : HandleNotice(e)
  BY <1>3 DEF HandleNotice
<1>4. CASE HandleShutdown
  BY <1>4 DEF HandleShutdown
<1>5. CASE CheckRunning
  BY <1>5 DEF CheckRunning
<1>6. CASE CommitBatch
  BY <1>6 DEF CommitBatch
<1>7. CASE FinishBatch \/ Retry \/ EndWait
  BY <1>7 DEF FinishBatch, Retry, EndWait
<1>8. CASE BatchFails
  BY <1>8 DEF BatchFails
<1>9. CASE BeginWait
  BY <1>9 DEF BeginWait, LoopOnly, wire
<1>10. CASE ListenerStep \/ ConnectFails \/ LoseConnection
  BY <1>10 DEF ListenerStep, CheckListening, Listen, Reconnect, StopListening, ConnectFails,
               LoseConnection, ListenerOnly, data
<1>11. CASE UNCHANGED loopVars
  BY <1>11 DEF loopVars, data, wire
<1> QED
  BY <1>1, <1>2, <1>3, <1>4, <1>5, <1>6, <1>7, <1>8, <1>9, <1>10, <1>11 DEF LoopNext, LoopStep

(***************************************************************************)
(* No notification the callback has received is forgotten while the loop   *)
(* waits (RollupWorker._process_loop), for every set of events.            *)
(***************************************************************************)
THEOREM WakeupsAreKept == LoopSpec => []NoLostWakeup
<1>1. WakeInv => NoLostWakeup
  BY DEF WakeInv, NoLostWakeup, Idle
<1> QED
  BY <1>1, InitWake, StepWake, PTL DEF LoopSpec

(***************************************************************************)
(* Every variable of the loop, the listener and the log keeps its type:    *)
(* only committed events are aggregated, and a page holds events that are  *)
(* not aggregated yet, wherever the batch fails.                           *)
(***************************************************************************)
THEOREM LoopTypeCorrect == LoopSpec => []LoopTypeOK
<1>1. WakeInv => LoopTypeOK
  BY DEF WakeInv
<1> QED
  BY <1>1, InitWake, StepWake, PTL DEF LoopSpec
=============================================================================
