------------------------------ MODULE Metrics ------------------------------
(***************************************************************************)
(* GET /metrics/{merchant} and its sparkline, of one merchant: the routing *)
(* of a range to a rollup table, the two queries of an answer, and the     *)
(* cache-aside read through Redis, next to the worker that commits events  *)
(* to the tables and to other requests for the same key.                   *)
(*                                                                         *)
(*   GET key -> hit:  serve it                                             *)
(*           -> miss: query the table -> query the success rate ->         *)
(*                    SET key with a TTL -> serve                          *)
(*                                                                         *)
(* The three rollup tables change together and are exact (RollupsExact),   *)
(* so a query's rows stand for the committed events whose bucket it asks   *)
(* for.  Widths, limits and TTLs are constants, so that a scale model of   *)
(* seconds, hours and days can be checked.                                 *)
(*                                                                         *)
(* Source: app/services/query_service.py, app/repositories/                *)
(* rollup_repository.py (queries), app/repositories/redis_repository.py,      *)
(* app/api/routes/metrics.py.                                              *)
(***************************************************************************)
EXTENDS Integers, FiniteSets

CONSTANTS
  Event,
  TsOf,         \* client_timestamp or occurred_at
  Settled,      \* the events that are PAYMENT_CONFIRMED or PAYMENT_FAILED
  Reader,       \* clients, each with one request at a time
  Range,        \* the ranges <<start, end>> asked of /metrics
  Window,       \* the windows asked of /metrics/{merchant}/sparkline
  Width,        \* of a minute, hour and day bucket
  MinuteLimit, HourLimit,   \* longest range of the minute and hour tables
  MaxRange,     \* longest range that is accepted
  Ttl,          \* cache TTL for each granularity
  MaxLatency,   \* bound: time a request takes at most
  MaxClock      \* bound: last time

Granularity == {"minute", "hour", "day"}

ASSUME TimeAssumption ==
  /\ TsOf \in [Event -> Nat] /\ Settled \subseteq Event
  /\ Range \subseteq Nat \X Nat /\ Window \subseteq Nat
ASSUME WidthAssumption ==
  /\ Width \in [Granularity -> Nat \ {0}] /\ Ttl \in [Granularity -> Nat \ {0}]
  /\ MinuteLimit \in Nat /\ HourLimit \in Nat /\ MinuteLimit < HourLimit
ASSUME BoundAssumption == MaxLatency \in Nat /\ MaxClock \in Nat /\ MaxRange \in Nat

VARIABLES
  clock,
  rolledAt,   \* when the worker committed an event; Never before
  cache,      \* what Redis holds for a query: events and expiry
  pc,         \* where each reader's request is
  query,      \* what it asks
  startedAt,  \* when it began
  data,       \* the events its rows count
  rate        \* the events its success rate counts

vars == <<clock, rolledAt, cache, pc, query, startedAt, data, rate>>

Never == MaxClock + 1
Rolled == {e \in Event : rolledAt[e] # Never}

\* A query is its own cache key: the granularity in the key follows from the
\* range.
RangeQuery == {<<"range", p[1], p[2]>> : p \in Range}
SparklineQuery == {<<"sparkline", w, 0>> : w \in Window}
Query == RangeQuery \cup SparklineQuery

\* _select_granularity; the sparkline reads rollup_minute.
GranularityOf(q) ==
  IF q \in SparklineQuery \/ q[3] - q[2] <= MinuteLimit THEN "minute"
  ELSE IF q[3] - q[2] <= HourLimit THEN "hour" ELSE "day"

NoQuery == <<"none", 0, 0>>
NoEntry == [events |-> {}, expires |-> 0]

\* A cached empty list is falsy; a cached response never is.
IsHit(q) ==
  /\ cache[q] # NoEntry
  /\ q \in RangeQuery \/ cache[q].events # {}

Bucket(g, e) == TsOf[e] - (TsOf[e] % Width[g])

\* Mutant of Between: the range is half open.
BetweenHalfOpen(g, lo, hi) == {e \in Rolled : lo <= Bucket(g, e) /\ Bucket(g, e) < hi}

\* WHERE bucket BETWEEN :start AND :end
Between(g, lo, hi) == {e \in Rolled : lo <= Bucket(g, e) /\ Bucket(g, e) <= hi}

Init ==
  /\ clock = 0
  /\ rolledAt = [e \in Event |-> Never]
  /\ cache = [q \in Query |-> NoEntry]
  /\ pc = [r \in Reader |-> "idle"]
  /\ query = [r \in Reader |-> NoQuery]
  /\ startedAt = [r \in Reader |-> 0]
  /\ data = [r \in Reader |-> {}]
  /\ rate = [r \in Reader |-> {}]
-----------------------------------------------------------------------------
\* Time passes and Redis drops what has expired; a request is over before it
\* has taken more than MaxLatency.
Tick ==
  /\ clock < MaxClock
  /\ \A r \in Reader : pc[r] # "idle" => clock - startedAt[r] < MaxLatency
  /\ clock' = clock + 1
  /\ cache' = [q \in Query |-> IF cache[q].expires <= clock' THEN NoEntry ELSE cache[q]]
  /\ UNCHANGED <<rolledAt, pc, query, startedAt, data, rate>>

\* The worker commits an event to the three tables.
Roll(e) ==
  /\ e \notin Rolled
  /\ rolledAt' = [rolledAt EXCEPT ![e] = clock]
  /\ UNCHANGED <<clock, cache, pc, query, startedAt, data, rate>>

\* Redis is flushed or evicts.
LoseEntry(q) ==
  /\ cache[q] # NoEntry
  /\ cache' = [cache EXCEPT ![q] = NoEntry]
  /\ UNCHANGED <<clock, rolledAt, pc, query, startedAt, data, rate>>
-----------------------------------------------------------------------------
\* 400, before anything is read.
Rejected(q) == q \in RangeQuery /\ (q[2] >= q[3] \/ q[3] - q[2] > MaxRange)

\* The response is sent and the locals of the request are gone.
Finish(r) ==
  /\ pc' = [pc EXCEPT ![r] = "idle"]
  /\ query' = [query EXCEPT ![r] = NoQuery]
  /\ startedAt' = [startedAt EXCEPT ![r] = 0]
  /\ data' = [data EXCEPT ![r] = {}]
  /\ rate' = [rate EXCEPT ![r] = {}]

\* metric_cache_get, sparkline_cache_get
CheckCache(r, q) ==
  /\ pc[r] = "idle" /\ ~Rejected(q)
  /\ query' = [query EXCEPT ![r] = q]
  /\ startedAt' = [startedAt EXCEPT ![r] = clock]
  /\ pc' = [pc EXCEPT ![r] = IF IsHit(q) THEN "hit" ELSE "miss"]
  /\ data' = [data EXCEPT ![r] = IF IsHit(q) THEN cache[q].events ELSE {}]
  /\ UNCHANGED <<clock, rolledAt, cache, rate>>

\* After record_cache_hit: the cached list of a sparkline, and an error for a
\* range, since a cached MetricsResponse holds cache_hit and query_latency_ms
\* already and passing them again is a TypeError.
ServeHit(r) ==
  /\ pc[r] = "hit"
  /\ Finish(r)
  /\ UNCHANGED <<clock, rolledAt, cache>>

\* query_minute, query_hour, query_day
QueryRange(r) ==
  /\ pc[r] = "miss" /\ query[r] \in RangeQuery
  /\ data' = [data EXCEPT ![r] = Between(GranularityOf(query[r]), query[r][2], query[r][3])]
  /\ pc' = [pc EXCEPT ![r] = "rate"]
  /\ UNCHANGED <<clock, rolledAt, cache, query, startedAt, rate>>

\* query_sparkline: relative to NOW(), without an upper bound.
QuerySparkline(r) ==
  /\ pc[r] = "miss" /\ query[r] \in SparklineQuery
  /\ data' = [data EXCEPT ![r] = {e \in Rolled : Bucket("minute", e) >= clock - query[r][2]}]
  /\ pc' = [pc EXCEPT ![r] = "store"]
  /\ UNCHANGED <<clock, rolledAt, cache, query, startedAt, rate>>

\* Mutant of QuerySuccessRate: counts every event type.
QuerySuccessRateOfAll(r) ==
  /\ pc[r] = "rate"
  /\ rate' = [rate EXCEPT ![r] = Between("hour", query[r][2], query[r][3])]
  /\ pc' = [pc EXCEPT ![r] = "store"]
  /\ UNCHANGED <<clock, rolledAt, cache, query, startedAt, data>>

\* query_success_rate: always of rollup_hour, in a statement of its own.
QuerySuccessRate(r) ==
  /\ pc[r] = "rate"
  /\ rate' = [rate EXCEPT ![r] = Settled \cap Between("hour", query[r][2], query[r][3])]
  /\ pc' = [pc EXCEPT ![r] = "store"]
  /\ UNCHANGED <<clock, rolledAt, cache, query, startedAt, data>>

\* Mutant of Store: no TTL.
StoreForEver(r) ==
  /\ pc[r] = "store"
  /\ cache' = [cache EXCEPT ![query[r]] = [events |-> data[r], expires |-> Never]]
  /\ Finish(r)
  /\ UNCHANGED <<clock, rolledAt>>

\* SET key value EX ttl, whatever another request has stored meanwhile.
Store(r) ==
  /\ pc[r] = "store"
  /\ cache' = [cache EXCEPT ![query[r]] =
       [events |-> data[r], expires |-> clock + Ttl[GranularityOf(query[r])]]]
  /\ Finish(r)
  /\ UNCHANGED <<clock, rolledAt>>
-----------------------------------------------------------------------------
Handle(r) ==
  \/ \E q \in Query : CheckCache(r, q)
  \/ ServeHit(r) \/ QueryRange(r) \/ QuerySparkline(r)
  \/ QuerySuccessRate(r) \/ Store(r)

Next ==
  \/ Tick
  \/ \E e \in Event : Roll(e)
  \/ \E q \in Query : LoseEntry(q)
  \/ \E r \in Reader : Handle(r)

Spec == Init /\ [][Next]_vars
-----------------------------------------------------------------------------
TypeOK ==
  /\ clock \in 0 .. MaxClock
  /\ rolledAt \in [Event -> 0 .. Never]
  /\ \A q \in Query : cache[q].events \in SUBSET Rolled /\ cache[q].expires \in Nat
  /\ pc \in [Reader -> {"idle", "hit", "miss", "rate", "store"}]
  /\ query \in [Reader -> Query \cup {NoQuery}]
  /\ startedAt \in [Reader -> 0 .. MaxClock]
  /\ data \in [Reader -> SUBSET Rolled]
  /\ rate \in [Reader -> SUBSET (Rolled \cap Settled)]

AnswersSparkline(r) == query[r] \in SparklineQuery /\ pc[r] # "idle" /\ pc'[r] = "idle"
HasVolume(r) == query[r] \in RangeQuery /\ pc[r] \in {"rate", "store"}

(***************************************************************************)
(* How old a sparkline may be: it lacks no event of its window that was    *)
(* rolled up more than a TTL and two request times ago, through hits,      *)
(* concurrent misses that overwrite a newer entry with an older one, and   *)
(* lost entries.                                                           *)
(***************************************************************************)
FreshWithinTtl ==
  [][\A r \in Reader : AnswersSparkline(r) =>
       {e \in Rolled : /\ rolledAt[e] < clock - Ttl["minute"] - 2 * MaxLatency
                       /\ Bucket("minute", e) >= clock - query[r][2]} \subseteq data[r]]_vars

(***************************************************************************)
(* How wrong a range may be: an answer counts nothing outside of the range *)
(* but for the bucket the end falls in, and misses nothing inside of it    *)
(* that was rolled up before the request, but for the bucket the start     *)
(* falls in.  The volume is bounded by the buckets of its granularity, the *)
(* success rate by hours, however fine or coarse the volume is.            *)
(***************************************************************************)
WithinOneBucket(r, counted, kind, width) ==
  LET start == query[r][2]
      end == query[r][3]
  IN /\ \A e \in counted : start <= TsOf[e] /\ TsOf[e] < end + width
     /\ {e \in kind \cap Rolled : /\ rolledAt[e] < startedAt[r]
                                /\ start + width <= TsOf[e] + 1
                                /\ TsOf[e] <= end} \subseteq counted
EdgesWithinOneBucket ==
  \A r \in Reader : HasVolume(r) =>
    /\ WithinOneBucket(r, data[r], Event, Width[GranularityOf(query[r])])
    /\ pc[r] = "store" => WithinOneBucket(r, rate[r], Settled, Width["hour"])

=============================================================================
