---------------------------- MODULE Leaderboard ----------------------------
(***************************************************************************)
(* The leaderboard of one month: a Redis sorted set that the rollup worker *)
(* increments after its commit and that GET /leaderboard reads, or rebuilds*)
(* from rollup_day when the key is gone.  Nothing makes the two stores, or *)
(* the steps of a request, one atomic action:                              *)
(*                                                                         *)
(*   worker: commit a batch -> one ZINCRBY per merchant, pipelined without *)
(*           MULTI -> EXPIRE; an error drops what is left                  *)
(*   reader: EXISTS -> ZREVRANGE                                           *)
(*           EXISTS -> query rollup_day -> MULTI DEL, ZADD..., EXPIRE      *)
(*                                                                         *)
(* The key may vanish between any two steps: expiry, allkeys-lru eviction  *)
(* or a flush.  rollup_day is exact (RollupWorkerProofs), so its rows are  *)
(* the sums over the events the worker has committed.                      *)
(*                                                                         *)
(* Source: app/services/query_service.py (get_leaderboard), app/           *)
(* repositories/redis_repository.py, app/repositories/rollup_repository.py *)
(* (query_leaderboard_from_db), app/workers/rollup_worker.py               *)
(* (_update_leaderboard).                                                  *)
(***************************************************************************)
EXTENDS Ranking

CONSTANTS
  Event,        \* PAYMENT_CONFIRMED events
  Merchant,
  MerchantOf,   \* the merchant of an event
  AmountOf,     \* amount_cents of an event; those of 0 are left out, see KeyExists
  DayOf,        \* the rollup_day bucket of an event
  FirstDay,     \* period_start
  NextFirst,    \* period_end: the first day of the next month
  Reader,       \* GET /leaderboard requests
  TopOf,        \* top_n of a request
  BatchSize,    \* events the worker commits at once
  MaxKeyLosses, \* bound: times the key vanishes
  MaxPipeLosses \* bound: batches whose increments are lost

ASSUME EventAssumption ==
  /\ MerchantOf \in [Event -> Merchant]
  /\ AmountOf \in [Event -> Nat \ {0}]
  /\ DayOf \in [Event -> Nat]
ASSUME FiniteAssumption == IsFiniteSet(Event) /\ IsFiniteSet(Merchant)
ASSUME PeriodAssumption == FirstDay \in Nat /\ NextFirst \in Nat /\ FirstDay < NextFirst
ASSUME LimitAssumption == TopOf \in [Reader -> Nat \ {0}] /\ BatchSize \in Nat \ {0}
ASSUME LossAssumption == MaxKeyLosses \in Nat /\ MaxPipeLosses \in Nat

VARIABLES
  rolled,   \* events in rollup_day
  batch,    \* events of the worker's last commit, until it is done with Redis
  pipe,     \* merchants whose ZINCRBY has not been executed yet
  score,    \* the sorted set: 0 for a merchant that is not a member
  pc,       \* where each request is
  seen,     \* the events a request's database query saw
  answer,   \* the volumes a request found
  missing,  \* history: payments the board may lack, and why is in the actions
  keyLosses, pipeLosses   \* how often either has happened

reading == <<pc, seen, answer>>
losses == <<keyLosses, pipeLosses>>
vars == <<rolled, batch, pipe, score, reading, missing, losses>>

Volume(E, m) == MapThenSumSet(LAMBDA e : AmountOf[e], {e \in E : MerchantOf[e] = m})

\* _period_key: the month a payment is counted in.
InPeriod(e) == FirstDay <= DayOf[e] /\ DayOf[e] < NextFirst
PeriodEvents(E) == {e \in E : InPeriod(e)}
MerchantsOf(E) == {MerchantOf[e] : e \in E}

\* bucket BETWEEN :start AND :end, which includes both
BetweenBounds(e) == FirstDay <= DayOf[e] /\ DayOf[e] <= NextFirst

DbVolume(E) == [m \in Merchant |-> Volume({e \in E : BetweenBounds(e)}, m)]

\* EXISTS: whether the sorted set has a member.  A score of 0 stands for no
\* member, which holds as long as no amount is 0: EventBase accepts one of 0,
\* whose ZINCRBY or ZADD makes its merchant a member with score 0.  Such
\* payments are left out of the model (EventAssumption).
KeyExists == Ranked(score) # {}
Nothing == [m \in Merchant |-> 0]

\* The payments whose ZINCRBY is still to come.
UnderWay == {e \in PeriodEvents(batch) : MerchantOf[e] \in pipe}

\* The payments of the month that a rebuild of the request does not hold: they
\* were committed after its query, or its top_n does not list their merchant.
LeftOut(r) ==
  {e \in PeriodEvents(rolled) : e \notin seen[r] \/ answer[r][MerchantOf[e]] = 0}

Init ==
  /\ rolled = {} /\ batch = {} /\ pipe = {} /\ keyLosses = 0 /\ pipeLosses = 0
  /\ score = Nothing
  /\ pc = [r \in Reader |-> "idle"]
  /\ seen = [r \in Reader |-> {}]
  /\ answer = [r \in Reader |-> Nothing]
  /\ missing = {}
-----------------------------------------------------------------------------
\* _process_batch has committed new events; other months have other keys.
CommitBatch(E) ==
  /\ batch = {} /\ E # {} /\ E \cap rolled = {} /\ Cardinality(E) <= BatchSize
  /\ rolled' = rolled \cup E
  /\ batch' = E
  /\ pipe' = MerchantsOf(PeriodEvents(E))
  /\ UNCHANGED <<score, reading, missing, losses>>

\* Mutant of Increment: the sum of the batch replaces the score.
IncrementOverwrites(m) ==
  /\ m \in pipe
  /\ pipe' = pipe \ {m}
  /\ score' = [score EXCEPT ![m] = Volume(PeriodEvents(batch), m)]
  /\ UNCHANGED <<rolled, batch, reading, missing, losses>>

\* One ZINCRBY of leaderboard_increment_batch.
Increment(m) ==
  /\ m \in pipe
  /\ pipe' = pipe \ {m}
  /\ score' = [score EXCEPT ![m] = @ + Volume(PeriodEvents(batch), m)]
  /\ UNCHANGED <<rolled, batch, reading, missing, losses>>

\* Mutant of FinishBatch: the pipeline is not awaited.
FinishBatchEarly ==
  /\ batch # {}
  /\ batch' = {}
  /\ UNCHANGED <<rolled, pipe, score, reading, missing, losses>>

FinishBatch ==
  /\ batch # {} /\ pipe = {}
  /\ batch' = {}
  /\ UNCHANGED <<rolled, pipe, score, reading, missing, losses>>

\* A Redis error, caught and logged, or a crash after the commit: the markers
\* keep the batch from being counted, and its increments sent, again.
LoseIncrements ==
  /\ pipe # {} /\ pipeLosses < MaxPipeLosses
  /\ pipeLosses' = pipeLosses + 1
  /\ batch' = {} /\ pipe' = {} /\ missing' = missing \cup UnderWay
  /\ UNCHANGED <<rolled, score, reading, keyLosses>>
-----------------------------------------------------------------------------
\* leaderboard_exists
CheckKey(r) ==
  /\ pc[r] = "idle"
  /\ pc' = [pc EXCEPT ![r] = IF KeyExists THEN "hit" ELSE "miss"]
  /\ UNCHANGED <<rolled, batch, pipe, score, seen, answer, missing, losses>>

\* leaderboard_top_n
ReadTop(r) ==
  /\ pc[r] = "hit"
  /\ \E T \in SUBSET Merchant :
       /\ IsTop(T, TopOf[r], score)
       /\ answer' = [answer EXCEPT ![r] = RowsOf(T, score)]
  /\ pc' = [pc EXCEPT ![r] = "served"]
  /\ UNCHANGED <<rolled, batch, pipe, score, seen, missing, losses>>

\* Mutant of QueryDay: rebuilds without rows too, which deletes the key.
QueryDayRebuildsEmpty(r) ==
  /\ pc[r] = "miss"
  /\ \E T \in SUBSET Merchant :
       /\ IsTop(T, TopOf[r], DbVolume(rolled))
       /\ answer' = [answer EXCEPT ![r] = RowsOf(T, DbVolume(rolled))]
       /\ pc' = [pc EXCEPT ![r] = "rebuild"]
  /\ seen' = [seen EXCEPT ![r] = rolled]
  /\ UNCHANGED <<rolled, batch, pipe, score, missing, losses>>

\* query_leaderboard_from_db; without rows there is nothing to rebuild.
QueryDay(r) ==
  /\ pc[r] = "miss"
  /\ \E T \in SUBSET Merchant :
       /\ IsTop(T, TopOf[r], DbVolume(rolled))
       /\ answer' = [answer EXCEPT ![r] = RowsOf(T, DbVolume(rolled))]
       /\ pc' = [pc EXCEPT ![r] = IF T = {} THEN "answered" ELSE "rebuild"]
  /\ seen' = [seen EXCEPT ![r] = rolled]
  /\ UNCHANGED <<rolled, batch, pipe, score, missing, losses>>

\* Mutant of Rebuild: the old members are not deleted and the new volumes are
\* added to them.
RebuildAdds(r) ==
  /\ pc[r] = "rebuild"
  /\ score' = [m \in Merchant |-> score[m] + answer[r][m]]
  /\ missing' = LeftOut(r) \ UnderWay
  /\ pc' = [pc EXCEPT ![r] = "answered"]
  /\ UNCHANGED <<rolled, batch, pipe, seen, answer, losses>>

\* leaderboard_rebuild: DEL and ZADD of the request's own rows, in a MULTI.
Rebuild(r) ==
  /\ pc[r] = "rebuild"
  /\ score' = answer[r]
  /\ missing' = LeftOut(r) \ UnderWay
  /\ pc' = [pc EXCEPT ![r] = "answered"]
  /\ UNCHANGED <<rolled, batch, pipe, seen, answer, losses>>
-----------------------------------------------------------------------------
\* Expiry, eviction or flush of the key.
LoseKey ==
  /\ KeyExists /\ keyLosses < MaxKeyLosses
  /\ keyLosses' = keyLosses + 1
  /\ score' = Nothing /\ missing' = PeriodEvents(rolled) \ UnderWay
  /\ UNCHANGED <<rolled, batch, pipe, reading, pipeLosses>>

Worker ==
  \/ \E E \in SUBSET Event : CommitBatch(E)
  \/ \E m \in Merchant : Increment(m)
  \/ FinishBatch \/ LoseIncrements

Request(r) == CheckKey(r) \/ ReadTop(r) \/ QueryDay(r) \/ Rebuild(r)

Next == Worker \/ LoseKey \/ \E r \in Reader : Request(r)

Spec == Init /\ [][Next]_vars
-----------------------------------------------------------------------------
Cents == 0 .. 2 * MapThenSumSet(LAMBDA e : AmountOf[e], Event)

TypeOK ==
  /\ rolled \in SUBSET Event /\ batch \in SUBSET rolled
  /\ pipe \in SUBSET MerchantsOf(batch)
  /\ score \in [Merchant -> Cents]
  /\ pc \in [Reader -> {"idle", "hit", "miss", "rebuild", "served", "answered"}]
  /\ seen \in [Reader -> SUBSET Event]
  /\ answer \in [Reader -> [Merchant -> Cents]]
  /\ missing \in SUBSET rolled
  /\ keyLosses \in 0 .. MaxKeyLosses /\ pipeLosses \in 0 .. MaxPipeLosses

(***************************************************************************)
(* A rebuild may count a committed batch whose increments are still to     *)
(* come, so the board can run ahead of rollup_day; but never by more than  *)
(* one batch of a merchant, however many requests rebuild it and whatever  *)
(* is lost.                                                                *)
(***************************************************************************)
OvershootBounded ==
  \A m \in Merchant : \E E \in SUBSET PeriodEvents(rolled) :
    /\ Cardinality(E) <= BatchSize
    /\ score[m] <= DbVolume(rolled)[m] + Volume(E, m)

(***************************************************************************)
(* Every payment of the month in rollup_day is on the board or in its      *)
(* increment under way, unless it is missing for one of four reasons: the  *)
(* key was lost after it was counted; its increment was lost; a rebuild    *)
(* whose query came before its commit was written after its increment; or  *)
(* a rebuild for a request whose top_n did not list its merchant was       *)
(* written.  Nothing else takes a payment away, and a rebuild that saw it  *)
(* and lists its merchant brings it back.                                  *)
(***************************************************************************)
LacksOnlyMissing ==
  \A m \in Merchant :
    Volume(PeriodEvents(rolled) \ missing, m) <= score[m] + Volume(UnderWay, m)

(***************************************************************************)
(* A request that found the key answers from an empty set only if the key  *)
(* was lost: no rebuild, of whatever request, takes the board away from    *)
(* it, although it asks for the key first and for the members later.       *)
(***************************************************************************)
EmptyOnlyAfterLoss ==
  \A r \in Reader : pc[r] = "served" /\ answer[r] = Nothing => keyLosses > 0

Hits(r) == pc[r] = "idle" /\ pc'[r] = "hit"

(***************************************************************************)
(* A cold leaderboard is rebuilt on the next request: a request that finds *)
(* the key and does not rebuild it finds every merchant of the batches the *)
(* worker is done with.                                                    *)
(***************************************************************************)
ColdKeyIsRebuilt ==
  [][\A r \in Reader : Hits(r) =>
       \A m \in MerchantsOf(PeriodEvents(rolled \ batch)) : score[m] > 0]_vars
=============================================================================
