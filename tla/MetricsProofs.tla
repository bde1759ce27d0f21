--------------------------- MODULE MetricsProofs ----------------------------
(***************************************************************************)
(* The reads of Metrics, for every set of events, readers, ranges and      *)
(* windows, every width and every TTL.  A range answer is bounded by what  *)
(* its two queries have counted; a sparkline by how old the rows were when *)
(* they were read, when they were stored and when the entry was hit.       *)
(***************************************************************************)
EXTENDS Metrics, TLAPS

Places == {"idle", "hit", "miss", "rate", "store"}
Entries == [events : SUBSET Event, expires : Nat]

Types ==
  /\ clock \in 0 .. MaxClock
  /\ rolledAt \in [Event -> 0 .. Never]
  /\ \A e \in Event : rolledAt[e] <= clock \/ rolledAt[e] = Never
  /\ cache \in [Query -> Entries]
  /\ pc \in [Reader -> Places]
  /\ query \in [Reader -> Query \cup {NoQuery}]
  /\ startedAt \in [Reader -> 0 .. MaxClock]
  /\ data \in [Reader -> SUBSET Event]
  /\ rate \in [Reader -> SUBSET Settled]

\* A request asks something, and takes no longer than it may.
Asks(r) ==
  /\ pc[r] # "idle" =>
       query[r] \in Query /\ startedAt[r] <= clock /\ clock - startedAt[r] <= MaxLatency
  /\ pc[r] = "rate" => query[r] \in RangeQuery

\* Only what the worker has rolled up is counted or cached.
CountsRolled ==
  /\ \A q \in Query : cache[q].events \subseteq Rolled
  /\ \A r \in Reader : data[r] \subseteq Rolled /\ rate[r] \subseteq Rolled

\* What a query over [lo, hi] has counted, of one kind of event: all that was
\* rolled up before the request and some of what was rolled up since.
Tallies(counted, kind, g, lo, hi, since) ==
  /\ \A e \in counted : e \in kind /\ lo <= Bucket(g, e) /\ Bucket(g, e) <= hi
  /\ \A e \in kind :
       rolledAt[e] < since /\ lo <= Bucket(g, e) /\ Bucket(g, e) <= hi => e \in counted

RangesTally(r) ==
  HasVolume(r) =>
    /\ Tallies(data[r], Event, GranularityOf(query[r]), query[r][2], query[r][3], startedAt[r])
    /\ pc[r] = "store" =>
         Tallies(rate[r], Settled, "hour", query[r][2], query[r][3], startedAt[r])

\* Nothing of the window that was rolled up before t is missing.
Covers(counted, t, window) ==
  \A e \in Event : rolledAt[e] < t /\ Bucket("minute", e) >= clock - window => e \in counted

\* A live entry is younger than its TTL, and its rows were read a request's
\* time before that.
EntryCovers(q) ==
  cache[q] # NoEntry =>
    /\ clock < cache[q].expires /\ cache[q].expires <= clock + Ttl[GranularityOf(q)]
    /\ q \in SparklineQuery =>
         Covers(cache[q].events, cache[q].expires - Ttl["minute"] - MaxLatency, q[2])

\* The rows of a hit are older by a TTL and a request than those of a miss.
ReadCovers(r) ==
  query[r] \in SparklineQuery =>
    /\ pc[r] = "hit" =>
         Covers(data[r], startedAt[r] - Ttl["minute"] - MaxLatency, query[r][2])
    /\ pc[r] = "store" => Covers(data[r], startedAt[r], query[r][2])

MetricsInv ==
  /\ Types
  /\ CountsRolled
  /\ \A q \in Query : EntryCovers(q)
  /\ \A r \in Reader : Asks(r) /\ RangesTally(r) /\ ReadCovers(r)
-----------------------------------------------------------------------------
\* A bucket begins at most its width before the events in it.
LEMMA BucketBounds ==
  ASSUME NEW g \in Granularity, NEW e \in Event
  PROVE  /\ Bucket(g, e) \in Nat /\ Bucket(g, e) <= TsOf[e]
         /\ TsOf[e] < Bucket(g, e) + Width[g]
<1>1. TsOf[e] \in Nat /\ Width[g] \in Nat \ {0}
  BY TimeAssumption, WidthAssumption
<1>2. \A n \in Nat, w \in Nat \ {0} : n % w \in 0 .. (w - 1) /\ n % w <= n
  OBVIOUS
<1>3. TsOf[e] % Width[g] \in 0 .. (Width[g] - 1) /\ TsOf[e] % Width[g] <= TsOf[e]
  BY <1>1, <1>2
<1> QED
  BY <1>1, <1>3 DEF Bucket

LEMMA QueryShape ==
  /\ NoQuery \notin Query
  /\ \A q \in RangeQuery : q \notin SparklineQuery /\ q[2] \in Nat /\ q[3] \in Nat
  /\ \A q \in SparklineQuery : q[2] \in Nat /\ GranularityOf(q) = "minute"
<1>1. \A q \in RangeQuery : q[1] = "range" /\ q[2] \in Nat /\ q[3] \in Nat
  BY TimeAssumption DEF RangeQuery
<1>2. \A q \in SparklineQuery : q[1] = "sparkline" /\ q[2] \in Nat
  BY TimeAssumption DEF SparklineQuery
<1>3. NoQuery[1] = "none"
  BY DEF NoQuery
<1>4. NoQuery \notin Query
  BY <1>1, <1>2, <1>3 DEF Query
<1> QED
  BY <1>1, <1>2, <1>4 DEF GranularityOf

LEMMA TtlOfQuery ==
  ASSUME NEW q
  PROVE  GranularityOf(q) \in Granularity /\ Ttl[GranularityOf(q)] \in Nat \ {0}
<1>1. GranularityOf(q) \in Granularity
  BY DEF GranularityOf, Granularity
<1> QED
  BY <1>1, WidthAssumption

\* The worker stamps what it commits with the time it is.
LEMMA RolledLater ==
  ASSUME Types, [Next]_vars
  PROVE  /\ clock <= clock' /\ Rolled \subseteq Rolled'
         /\ \A e \in Event : rolledAt'[e] = rolledAt[e]
                             \/ (rolledAt[e] = Never /\ rolledAt'[e] = clock)
<1> USE DEF Types
<1>1. CASE Tick
  BY <1>1 DEF Tick, Rolled
<1>2. ASSUME NEW e \in Event, Roll(e)
      PROVE  /\ clock' = clock /\ Rolled \subseteq Rolled'
             /\ \A f \in Event : rolledAt'[f] = rolledAt[f]
                                 \/ (rolledAt[f] = Never /\ rolledAt'[f] = clock)
  <2>1. e \notin Rolled /\ rolledAt' = [rolledAt EXCEPT ![e] = clock] /\ clock' = clock
    BY <1>2 DEF Roll
  <2>2. rolledAt[e] = Never
    BY <2>1 DEF Rolled
  <2> QED
    BY <2>1, <2>2 DEF Rolled
<1>3. CASE UNCHANGED <<clock, rolledAt>>
  BY <1>3 DEF Rolled
<1>4. ASSUME NEW r \in Reader, Handle(r)
      PROVE  UNCHANGED <<clock, rolledAt>>
  BY <1>4 DEF Handle, CheckCache, ServeHit, QueryRange, QuerySparkline, QuerySuccessRate, Store
<1>5. ASSUME NEW q \in Query, LoseEntry(q)
      PROVE  UNCHANGED <<clock, rolledAt>>
  BY <1>5 DEF LoseEntry
<1> QED
  BY <1>1, <1>2, <1>3, <1>4, <1>5, BoundAssumption DEF Next, vars
-----------------------------------------------------------------------------
LEMMA InitMetrics == Init => MetricsInv
<1> SUFFICES ASSUME Init PROVE MetricsInv
  OBVIOUS
<1> USE BoundAssumption DEF Init
<1>1. NoEntry \in Entries
  BY DEF NoEntry, Entries
<1>2. Types
  <2>1. 0 \in 0 .. MaxClock /\ Never \in 0 .. Never
    BY DEF Never
  <2> QED
    BY <1>1, <2>1, Zenon DEF Types, Places
<1>3. \A q \in Query : cache[q] = NoEntry /\ cache[q].events = {}
  BY DEF NoEntry
<1>4. CountsRolled /\ \A q \in Query : EntryCovers(q)
  BY <1>3 DEF CountsRolled, EntryCovers
<1>5. \A r \in Reader : Asks(r) /\ RangesTally(r) /\ ReadCovers(r)
  BY DEF Asks, RangesTally, HasVolume, ReadCovers
<1> QED
  BY <1>2, <1>4, <1>5 DEF MetricsInv

LEMMA StepTypes ==
  ASSUME MetricsInv, [Next]_vars
  PROVE  Types'
<1> USE BoundAssumption DEF MetricsInv, Types
<1>n. Never \in Nat /\ NoEntry \in Entries
  BY DEF Never, NoEntry, Entries
<1>f. ASSUME NEW r \in Reader, Finish(r), UNCHANGED <<clock, rolledAt>>, cache' \in [Query -> Entries]
      PROVE  Types'
  BY <1>f DEF Finish, Places
<1>1. CASE Tick
  BY <1>1, <1>n DEF Tick
<1>2. ASSUME NEW e \in Event, Roll(e) PROVE Types'
  <2>1. clock \in 0 .. Never
    BY DEF Never
  <2> QED
    BY <1>2, <2>1 DEF Roll
<1>3. ASSUME NEW q \in Query, LoseEntry(q) PROVE Types'
  BY <1>3, <1>n DEF LoseEntry
<1>4. ASSUME NEW r \in Reader, NEW q \in Query, CheckCache(r, q) PROVE Types'
  <2>1. cache[q].events \in SUBSET Event
    BY DEF Entries
  <2> QED
    BY <1>4, <2>1 DEF CheckCache, Places
<1>5. ASSUME NEW r \in Reader, ServeHit(r) PROVE Types'
  BY <1>5, <1>f DEF ServeHit
<1>6. ASSUME NEW r \in Reader, QueryRange(r) PROVE Types'
  BY <1>6 DEF QueryRange, Places, Between, Rolled
<1>7. ASSUME NEW r \in Reader, QuerySparkline(r) PROVE Types'
  BY <1>7 DEF QuerySparkline, Places, Rolled
<1>8. ASSUME NEW r \in Reader, QuerySuccessRate(r) PROVE Types'
  BY <1>8 DEF QuerySuccessRate, Places
<1>9. ASSUME NEW r \in Reader, Store(r) PROVE Types'
  <2>1. clock + Ttl[GranularityOf(query[r])] \in Nat /\ data[r] \in SUBSET Event
    BY TtlOfQuery
  <2>2. [events |-> data[r], expires |-> clock + Ttl[GranularityOf(query[r])]] \in Entries
    BY <2>1 DEF Entries
  <2>3. cache' \in [Query -> Entries]
    BY <1>9, <2>2 DEF Store
  <2> QED
    BY <1>9, <1>f, <2>3 DEF Store
<1>10. CASE UNCHANGED vars
  BY <1>10 DEF vars
<1> QED
  BY <1>1, <1>2, <1>3, <1>4, <1>5, <1>6, <1>7, <1>8, <1>9, <1>10 DEF Next, Handle

\* A request does not touch the variables of another.
SameReader(r) ==
  /\ pc'[r] = pc[r] /\ query'[r] = query[r] /\ startedAt'[r] = startedAt[r]
  /\ data'[r] = data[r] /\ rate'[r] = rate[r]

LEMMA ReaderSteps ==
  ASSUME Types, [Next]_vars, NEW r \in Reader
  PROVE  SameReader(r) \/ Handle(r)
<1> USE DEF Types, SameReader
<1>1. ASSUME NEW s \in Reader, s # r, Handle(s) PROVE SameReader(r)
  <2>1. ASSUME Finish(s) PROVE SameReader(r)
    BY <1>1, <2>1 DEF Finish
  <2>2. ASSUME NEW q \in Query, CheckCache(s, q) PROVE SameReader(r)
    BY <1>1, <2>2 DEF CheckCache
  <2>3. ASSUME QueryRange(s) \/ QuerySparkline(s) \/ QuerySuccessRate(s) PROVE SameReader(r)
    BY <1>1, <2>3 DEF QueryRange, QuerySparkline, QuerySuccessRate
  <2> QED
    BY <1>1, <2>1, <2>2, <2>3 DEF Handle, ServeHit, Store
<1>2. ASSUME UNCHANGED <<pc, query, startedAt, data, rate>> PROVE SameReader(r)
  BY <1>2
<1> QED
  BY <1>1, <1>2 DEF Next, Tick, Roll, LoseEntry, vars

LEMMA StepCounts ==
  ASSUME MetricsInv, [Next]_vars
  PROVE  CountsRolled'
<1> USE DEF MetricsInv, Types, CountsRolled
<1>1. Rolled \subseteq Rolled' /\ Types'
  BY RolledLater, StepTypes
<1>2. ASSUME NEW q \in Query PROVE cache'[q].events \subseteq Rolled
  <2>1. CASE Tick
    BY <2>1 DEF Tick, NoEntry
  <2>2. ASSUME NEW p \in Query, LoseEntry(p) PROVE cache'[q].events \subseteq Rolled
    BY <2>2 DEF LoseEntry, NoEntry
  <2>3. ASSUME NEW r \in Reader, Store(r) PROVE cache'[q].events \subseteq Rolled
    BY <2>3 DEF Store
  <2>4. ASSUME UNCHANGED cache PROVE cache'[q].events \subseteq Rolled
    BY <2>4
  <2> QED
    BY <2>1, <2>2, <2>3, <2>4 DEF Next, Roll, Handle, CheckCache, ServeHit, QueryRange,
       QuerySparkline, QuerySuccessRate, vars
<1>3. ASSUME NEW r \in Reader PROVE data'[r] \subseteq Rolled /\ rate'[r] \subseteq Rolled
  <2>1. CASE SameReader(r)
    BY <2>1 DEF SameReader
  <2>2. ASSUME NEW q \in Query, CheckCache(r, q)
        PROVE  data'[r] \subseteq Rolled /\ rate'[r] \subseteq Rolled
    BY <2>2 DEF CheckCache
  <2>3. CASE QueryRange(r) \/ QuerySparkline(r) \/ QuerySuccessRate(r)
    BY <2>3 DEF QueryRange, QuerySparkline, QuerySuccessRate, Between
  <2>4. CASE ServeHit(r) \/ Store(r)
    BY <2>4 DEF ServeHit, Store, Finish
  <2> QED
    BY <2>1, <2>2, <2>3, <2>4, ReaderSteps DEF Handle
<1> QED
  BY <1>1, <1>2, <1>3

\* Time passes for a request only while it has some left.
LEMMA StepAsks ==
  ASSUME MetricsInv, [Next]_vars, NEW r \in Reader
  PROVE  Asks(r)'
<1> USE BoundAssumption DEF MetricsInv, Types, Asks
<1>1. CASE SameReader(r)
  <2>1. CASE Tick
    BY <1>1, <2>1 DEF SameReader, Tick
  <2>2. CASE clock' = clock
    BY <1>1, <2>2 DEF SameReader
  <2> QED
    BY <2>1, <2>2 DEF Next, Roll, LoseEntry, Handle, CheckCache, ServeHit, QueryRange,
       QuerySparkline, QuerySuccessRate, Store, vars
<1>2. ASSUME NEW q \in Query, CheckCache(r, q) PROVE Asks(r)'
  BY <1>2 DEF CheckCache
<1>3. CASE QueryRange(r) \/ QuerySparkline(r) \/ QuerySuccessRate(r)
  BY <1>3 DEF QueryRange, QuerySparkline, QuerySuccessRate, Query
<1>4. CASE ServeHit(r) \/ Store(r)
  BY <1>4 DEF ServeHit, Store, Finish
<1> QED
  BY <1>1, <1>2, <1>3, <1>4, ReaderSteps DEF Handle

\* What is rolled up later was not rolled up before the request.
LEMMA StepTally ==
  ASSUME MetricsInv, [Next]_vars, NEW r \in Reader
  PROVE  RangesTally(r)'
<1> DEFINE q == query[r]
           Volume == Tallies(data[r], Event, GranularityOf(q), q[2], q[3], startedAt[r])
           Rate == Tallies(rate[r], Settled, "hour", q[2], q[3], startedAt[r])
<1> USE DEF MetricsInv, Types, Places
<1>1. Asks(r) /\ RangesTally(r) /\ startedAt[r] \in Nat
  OBVIOUS
<1>2. CASE SameReader(r)
  <2> SUFFICES ASSUME HasVolume(r)
               PROVE  Volume' /\ (pc[r] = "store" => Rate')
    BY <1>2 DEF SameReader, HasVolume, RangesTally
  <2>1. startedAt[r] <= clock /\ Volume /\ (pc[r] = "store" => Rate)
    BY <1>1 DEF Asks, RangesTally, HasVolume
  <2>2. \A e \in Event : rolledAt'[e] < startedAt[r] => rolledAt[e] < startedAt[r]
    BY <2>1, RolledLater
  <2> QED
    BY <1>2, <2>1, <2>2, TimeAssumption DEF Tallies, SameReader
<1>3. CASE \E p \in Query : CheckCache(r, p)
  BY <1>3 DEF CheckCache, RangesTally, HasVolume
<1>4. CASE ServeHit(r) \/ Store(r)
  BY <1>4 DEF ServeHit, Store, Finish, RangesTally, HasVolume
<1>5. CASE QueryRange(r)
  <2>1. /\ pc'[r] = "rate" /\ UNCHANGED <<query, startedAt, rolledAt, clock>>
        /\ data'[r] = Between(GranularityOf(q), q[2], q[3])
    BY <1>5 DEF QueryRange
  <2>2. \A e \in Event : rolledAt[e] < startedAt[r] => e \in Rolled
    <3>1. startedAt[r] <= clock
      BY <1>5, <1>1 DEF QueryRange, Asks
    <3> QED
      BY <3>1, BoundAssumption DEF Rolled, Never
  <2>3. Volume'
    BY <2>1, <2>2 DEF Tallies, Between, Rolled
  <2> QED
    BY <2>1, <2>3 DEF RangesTally
<1>6. CASE QuerySparkline(r)
  BY <1>6, QueryShape DEF QuerySparkline, RangesTally, HasVolume
<1>7. CASE QuerySuccessRate(r)
  <2>1. /\ pc[r] = "rate" /\ UNCHANGED <<query, startedAt, rolledAt, clock, data>>
        /\ rate'[r] = Settled \cap Between("hour", q[2], q[3])
    BY <1>7 DEF QuerySuccessRate
  <2>2. Volume /\ startedAt[r] <= clock
    BY <2>1, <1>1 DEF RangesTally, HasVolume, Asks
  <2>3. \A e \in Event : rolledAt[e] < startedAt[r] => e \in Rolled
    BY <2>2, BoundAssumption DEF Rolled, Never
  <2>4. Volume'
    BY <2>1, <2>2 DEF Tallies
  <2>5. Rate'
    BY <2>1, <2>3, TimeAssumption DEF Tallies, Between, Rolled
  <2> QED
    BY <2>4, <2>5 DEF RangesTally
<1> QED
  BY <1>2, <1>3, <1>4, <1>5, <1>6, <1>7, ReaderSteps DEF Handle

LEMMA MinuteBuckets ==
  /\ \A e \in Event : Bucket("minute", e) \in Nat
  /\ Ttl["minute"] \in Nat \ {0} /\ MaxLatency \in Nat
<1>1. "minute" \in Granularity
  BY DEF Granularity
<1> QED
  BY <1>1, BucketBounds, WidthAssumption, BoundAssumption

\* An entry that stays is about no less; one that is stored was read by a
\* request that began at most a request's time ago.
LEMMA StepEntry ==
  ASSUME MetricsInv, [Next]_vars, NEW q \in Query
  PROVE  EntryCovers(q)'
<1> DEFINE t == cache[q].expires - Ttl["minute"] - MaxLatency
<1> USE DEF MetricsInv, Types
<1>1. /\ clock \in Nat /\ clock' \in Nat /\ clock <= clock'
      /\ q \in SparklineQuery => q[2] \in Nat /\ GranularityOf(q) = "minute"
      /\ Ttl[GranularityOf(q)] \in Nat \ {0}
  BY StepTypes, RolledLater, QueryShape, TtlOfQuery, BoundAssumption
<1>2. CASE cache'[q] = NoEntry
  BY <1>2 DEF EntryCovers
<1>3. ASSUME cache'[q] = cache[q], cache[q] # NoEntry, clock' < cache[q].expires
      PROVE  EntryCovers(q)'
  <2>1. /\ cache[q].expires \in Nat /\ cache[q].expires <= clock + Ttl[GranularityOf(q)]
        /\ q \in SparklineQuery => Covers(cache[q].events, t, q[2])
    BY <1>3 DEF EntryCovers, Entries
  <2>2. ASSUME q \in SparklineQuery PROVE Covers(cache[q].events, t, q[2])'
    <3>1. t \in Int /\ t <= clock
      BY <1>1, <2>1, <2>2, MinuteBuckets
    <3>2. \A e \in Event : rolledAt'[e] < t => rolledAt[e] < t
      BY <3>1, RolledLater
    <3>3. \A e \in Event : Bucket("minute", e) >= clock' - q[2]
                            => Bucket("minute", e) >= clock - q[2]
      BY <1>1, <2>2, MinuteBuckets
    <3> QED
      BY <1>3, <2>1, <2>2, <3>2, <3>3 DEF Covers
  <2> QED
    BY <1>1, <1>3, <2>1, <2>2 DEF EntryCovers
<1>4. CASE Tick
  <2>1. cache'[q] = NoEntry \/ (cache'[q] = cache[q] /\ ~ (cache[q].expires <= clock'))
    BY <1>4 DEF Tick
  <2>2. cache[q].expires \in Nat
    BY DEF Entries
  <2> QED
    BY <1>1, <1>2, <1>3, <2>1, <2>2
<1>5. ASSUME cache'[q] = cache[q], clock' = clock PROVE EntryCovers(q)'
  <2>1. CASE cache[q] = NoEntry
    BY <1>2, <1>5, <2>1
  <2>2. CASE cache[q] # NoEntry
    BY <1>3, <1>5, <2>2 DEF EntryCovers
  <2> QED
    BY <2>1, <2>2
<1>6. ASSUME NEW p \in Query, LoseEntry(p) PROVE EntryCovers(q)'
  BY <1>2, <1>5, <1>6 DEF LoseEntry
<1>7. ASSUME NEW r \in Reader, Store(r), query[r] = q PROVE EntryCovers(q)'
  <2>1. /\ cache'[q] = [events |-> data[r], expires |-> clock + Ttl[GranularityOf(q)]]
        /\ clock' = clock /\ rolledAt' = rolledAt /\ pc[r] = "store"
    BY <1>7 DEF Store
  <2>2. /\ startedAt[r] \in Nat /\ clock - startedAt[r] <= MaxLatency
        /\ q \in SparklineQuery => Covers(data[r], startedAt[r], q[2])
    BY <1>7, <2>1 DEF Asks, ReadCovers
  <2>3. ASSUME q \in SparklineQuery
        PROVE  Covers(data[r], (clock + Ttl["minute"]) - Ttl["minute"] - MaxLatency, q[2])
    <3>1. \A e \in Event : rolledAt[e] < (clock + Ttl["minute"]) - Ttl["minute"] - MaxLatency
                           => rolledAt[e] < startedAt[r]
      BY <1>1, <2>2, MinuteBuckets DEF Never
    <3> QED
      BY <2>2, <2>3, <3>1 DEF Covers
  <2> QED
    BY <1>1, <2>1, <2>3 DEF EntryCovers, Covers
<1>8. ASSUME NEW r \in Reader, Handle(r) PROVE EntryCovers(q)'
  <2>1. CASE Store(r) /\ query[r] # q
    BY <1>5, <2>1 DEF Store
  <2>2. ASSUME ~ Store(r) PROVE UNCHANGED <<cache, clock>>
    BY <1>8, <2>2 DEF Handle, CheckCache, ServeHit, QueryRange, QuerySparkline, QuerySuccessRate
  <2> QED
    BY <1>5, <1>7, <2>1, <2>2
<1> QED
  BY <1>4, <1>5, <1>6, <1>8 DEF Next, Roll, vars

\* A hit is as old as its entry may be.
LEMMA StepRead ==
  ASSUME MetricsInv, [Next]_vars, NEW r \in Reader
  PROVE  ReadCovers(r)'
<1> DEFINE q == query[r]
           hit == startedAt[r] - Ttl["minute"] - MaxLatency
<1> USE DEF MetricsInv, Types, Places
<1>1. /\ clock \in Nat /\ clock' \in Nat /\ clock <= clock'
      /\ startedAt[r] \in Nat /\ Asks(r) /\ ReadCovers(r)
      /\ q \in SparklineQuery => q[2] \in Nat
  BY StepTypes, RolledLater, QueryShape, BoundAssumption
<1>2. CASE SameReader(r)
  <2> SUFFICES ASSUME q \in SparklineQuery, pc[r] \in {"hit", "store"}
               PROVE  ReadCovers(r)'
    BY <1>2 DEF SameReader, ReadCovers
  <2>1. startedAt[r] <= clock /\ hit \in Int /\ hit <= clock
    BY <1>1, MinuteBuckets DEF Asks
  <2>2. \A e \in Event : /\ rolledAt'[e] < startedAt[r] => rolledAt[e] < startedAt[r]
                         /\ rolledAt'[e] < hit => rolledAt[e] < hit
    BY <2>1, RolledLater
  <2>3. \A e \in Event : Bucket("minute", e) >= clock' - q[2]
                          => Bucket("minute", e) >= clock - q[2]
    BY <1>1, MinuteBuckets
  <2> QED
    BY <1>1, <1>2, <2>2, <2>3 DEF SameReader, ReadCovers, Covers
<1>3. ASSUME NEW p \in Query, CheckCache(r, p) PROVE ReadCovers(r)'
  <2>1. /\ query'[r] = p /\ startedAt'[r] = clock /\ clock' = clock /\ rolledAt' = rolledAt
        /\ IF IsHit(p) THEN pc'[r] = "hit" /\ data'[r] = cache[p].events ELSE pc'[r] = "miss"
    BY <1>3 DEF CheckCache
  <2> SUFFICES ASSUME p \in SparklineQuery, IsHit(p)
               PROVE  Covers(data[r], hit, q[2])'
    BY <2>1 DEF ReadCovers
  <2>2. /\ cache[p].expires \in Nat /\ clock < cache[p].expires
        /\ Covers(cache[p].events, cache[p].expires - Ttl["minute"] - MaxLatency, p[2])
    BY DEF IsHit, EntryCovers, Entries
  <2>3. \A e \in Event : rolledAt[e] < clock - Ttl["minute"] - MaxLatency
                          => rolledAt[e] < cache[p].expires - Ttl["minute"] - MaxLatency
    BY <1>1, <2>2, MinuteBuckets DEF Never
  <2> QED
    BY <2>1, <2>2, <2>3 DEF Covers
<1>4. CASE ServeHit(r) \/ Store(r)
  BY <1>4 DEF ServeHit, Store, Finish, ReadCovers
<1>5. CASE QueryRange(r) \/ QuerySuccessRate(r)
  BY <1>1, <1>5, QueryShape DEF QueryRange, QuerySuccessRate, ReadCovers, Asks
<1>6. CASE QuerySparkline(r)
  <2>1. /\ data'[r] = {e \in Rolled : Bucket("minute", e) >= clock - q[2]}
        /\ pc'[r] = "store" /\ UNCHANGED <<clock, rolledAt, query, startedAt>>
    BY <1>6 DEF QuerySparkline
  <2>2. startedAt[r] <= clock
    BY <1>1, <1>6 DEF QuerySparkline, Asks
  <2>3. \A e \in Event : rolledAt[e] < startedAt[r] => e \in Rolled
    BY <1>1, <2>2, BoundAssumption DEF Rolled, Never
  <2> QED
    BY <2>1, <2>3 DEF ReadCovers, Covers
<1> QED
  BY <1>2, <1>3, <1>4, <1>5, <1>6, ReaderSteps DEF Handle

(***************************************************************************)
(* The invariant of the reads (query_service.py): what every request and   *)
(* every cache entry holds, from when it was read and how long it may be   *)
(* kept.                                                                   *)
(***************************************************************************)
THEOREM MetricsInductive == Spec => []MetricsInv
<1>1. MetricsInv /\ [Next]_vars => MetricsInv'
  BY StepTypes, StepCounts, StepAsks, StepTally, StepEntry, StepRead, Zenon DEF MetricsInv
<1> QED
  BY <1>1, InitMetrics, PTL DEF Spec

(***************************************************************************)
(* Every variable keeps its type: only events the worker has committed to  *)
(* the rollup tables are ever counted in an answer or cached.              *)
(***************************************************************************)
THEOREM MetricsTypeCorrect == Spec => []TypeOK
<1>1. MetricsInv => TypeOK
  <2> SUFFICES ASSUME MetricsInv PROVE TypeOK
    OBVIOUS
  <2> USE DEF MetricsInv, Types, CountsRolled
  <2>1. \A q \in Query : cache[q].events \in SUBSET Rolled /\ cache[q].expires \in Nat
    BY DEF Entries
  <2>2. data \in [Reader -> SUBSET Rolled] /\ rate \in [Reader -> SUBSET (Rolled \cap Settled)]
    OBVIOUS
  <2> QED
    BY <2>1, <2>2 DEF TypeOK, Places
<1> QED
  BY <1>1, MetricsInductive, PTL

(***************************************************************************)
(* A range answer is wrong by a bucket at either edge and no more          *)
(* (_select_granularity, query_minute, query_hour, query_day,              *)
(* query_success_rate), for all widths, limits and ranges.                 *)
(***************************************************************************)
THEOREM RangesAreNearlyRight == Spec => []EdgesWithinOneBucket
<1>1. ASSUME MetricsInv, NEW r \in Reader, NEW counted, NEW kind, kind \subseteq Event,
             NEW g \in Granularity, query[r] \in RangeQuery,
             Tallies(counted, kind, g, query[r][2], query[r][3], startedAt[r])
      PROVE  WithinOneBucket(r, counted, kind, Width[g])
  <2>1. query[r][2] \in Nat /\ query[r][3] \in Nat /\ Width[g] \in Nat \ {0}
    BY <1>1, QueryShape, WidthAssumption
  <2>2. \A e \in Event : /\ TsOf[e] \in Nat /\ Bucket(g, e) \in Nat
                         /\ Bucket(g, e) <= TsOf[e] /\ TsOf[e] < Bucket(g, e) + Width[g]
    BY <1>1, BucketBounds, TimeAssumption
  <2>3. \A e \in counted : query[r][2] <= TsOf[e] /\ TsOf[e] < query[r][3] + Width[g]
    BY <1>1, <2>1, <2>2 DEF Tallies
  <2>4. \A e \in Event : query[r][2] + Width[g] <= TsOf[e] + 1 /\ TsOf[e] <= query[r][3]
                          => query[r][2] <= Bucket(g, e) /\ Bucket(g, e) <= query[r][3]
    BY <2>1, <2>2
  <2> QED
    BY <1>1, <2>3, <2>4 DEF Tallies, WithinOneBucket
<1>2. MetricsInv => EdgesWithinOneBucket
  <2> SUFFICES ASSUME MetricsInv, NEW r \in Reader, HasVolume(r)
               PROVE  /\ WithinOneBucket(r, data[r], Event, Width[GranularityOf(query[r])])
                      /\ pc[r] = "store" => WithinOneBucket(r, rate[r], Settled, Width["hour"])
    BY DEF EdgesWithinOneBucket
  <2>1. query[r] \in RangeQuery /\ RangesTally(r)
    BY DEF MetricsInv, HasVolume
  <2>2. GranularityOf(query[r]) \in Granularity /\ "hour" \in Granularity
    BY TtlOfQuery DEF Granularity
  <2> QED
    BY <1>1, <2>1, <2>2, TimeAssumption DEF RangesTally
<1> QED
  BY <1>2, MetricsInductive, PTL

(***************************************************************************)
(* A sparkline lacks no event of its window that was rolled up more than a *)
(* TTL and two request times ago (sparkline_cache_get, query_sparkline,    *)
(* sparkline_cache_set): one request time for the rows that were stored    *)
(* after they were read, one for those that are served after the hit.      *)
(***************************************************************************)
THEOREM SparklinesAreFresh == Spec => FreshWithinTtl
<1> DEFINE Fresh ==
             \A r \in Reader : AnswersSparkline(r) =>
               {e \in Rolled : /\ rolledAt[e] < clock - Ttl["minute"] - 2 * MaxLatency
                               /\ Bucket("minute", e) >= clock - query[r][2]} \subseteq data[r]
<1>1. ASSUME MetricsInv, [Next]_vars, NEW r \in Reader, AnswersSparkline(r)
      PROVE  {e \in Rolled : /\ rolledAt[e] < clock - Ttl["minute"] - 2 * MaxLatency
                             /\ Bucket("minute", e) >= clock - query[r][2]} \subseteq data[r]
  <2> USE DEF MetricsInv, Types
  <2>1. Asks(r) /\ ReadCovers(r) /\ query[r] \in SparklineQuery /\ pc[r] # "idle"
    BY <1>1 DEF AnswersSparkline
  <2>2. pc[r] \in {"hit", "store"}
    <3>1. Handle(r)
      BY <1>1, ReaderSteps DEF AnswersSparkline, SameReader
    <3>2. ASSUME QueryRange(r) \/ QuerySparkline(r) \/ QuerySuccessRate(r) PROVE pc'[r] # "idle"
      BY <1>1, <3>2 DEF QueryRange, QuerySparkline, QuerySuccessRate
    <3> QED
      BY <1>1, <2>1, <3>1, <3>2 DEF AnswersSparkline, Handle, CheckCache, ServeHit, Store
  <2>3. /\ clock \in Nat /\ startedAt[r] \in Nat /\ startedAt[r] <= clock
        /\ clock - startedAt[r] <= MaxLatency
    BY <1>1, <2>1, BoundAssumption DEF Asks
  <2>4. \A e \in Event : rolledAt[e] < clock - Ttl["minute"] - 2 * MaxLatency
                          => /\ rolledAt[e] < startedAt[r] - Ttl["minute"] - MaxLatency
                             /\ rolledAt[e] < startedAt[r]
    BY <1>1, <2>3, MinuteBuckets DEF Never
  <2> QED
    BY <2>1, <2>2, <2>4 DEF ReadCovers, Covers, Rolled
<1>2. MetricsInv /\ [Next]_vars => [Fresh]_vars
  BY <1>1
<1> HIDE DEF Fresh
<1>3. FreshWithinTtl <=> [][Fresh]_vars
  BY DEF FreshWithinTtl, Fresh
<1> QED
  BY <1>2, <1>3, MetricsInductive, PTL DEF Spec
=============================================================================
