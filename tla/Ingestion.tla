----------------------------- MODULE Ingestion ------------------------------
(***************************************************************************)
(* POST /events and POST /events/batch: every request is a handler with    *)
(* one PostgreSQL transaction (READ COMMITTED), and any number of them     *)
(* interleave at their awaits.                                             *)
(*                                                                         *)
(*   single: claim the key -> insert the event -> NOTIFY -> Redis counter  *)
(*           -> commit; a key that is taken: read the existing event       *)
(*   batch:  claim the keys -> insert the new events -> Redis counter ->   *)
(*           NOTIFY -> read the existing events of the others -> commit    *)
(*                                                                         *)
(* The claim is INSERT ... ON CONFLICT DO NOTHING: it waits while another  *)
(* open transaction holds the key, which may end in a deadlock that        *)
(* PostgreSQL resolves by failing one of the statements.  Writes are       *)
(* applied at the commit; until then only that wait shows them.            *)
(*                                                                         *)
(* Source: app/services/ingestion_service.py, app/repositories/            *)
(* event_repository.py, app/db/engine.py (get_db), app/api/routes/         *)
(* events.py.                                                              *)
(***************************************************************************)
EXTENDS Naturals, Sequences, SequencesExt

CONSTANTS
  Request,        \* requests; a client's retry is a request of its own
  Key,            \* idempotency keys
  EventsOf,       \* the keys of a request's events, in the order it lists them
  Batch,          \* the requests to /events/batch; the others carry one event
  UnknownMerchant,\* the requests that name a merchant that does not exist
  DayOf,          \* the day a request arrives: the partition of its events
  DroppedDay,     \* the days retention may drop
  NoId,           \* no event
  NilId,          \* UUID(int=0)
  MaxFaults,      \* bound: handlers that fail for an outside reason
  MaxNotifyFaults \* bound: NOTIFY statements that fail

Id == Request \X Key

ASSUME EventsAssumption ==
  /\ EventsOf \in [Request -> Seq(Key)]
  /\ \A r \in Request \ Batch : Len(EventsOf[r]) = 1
ASSUME IdAssumption == NoId \notin Id /\ NilId \notin Id /\ NoId # NilId
ASSUME BoundAssumption == MaxFaults \in Nat /\ MaxNotifyFaults \in Nat

VARIABLES
  idem,         \* event_idempotency, committed: the id of a key
  raw,          \* raw_events, committed: the ids of its rows
  pc,           \* where each request is in its handler
  next,         \* the position of the key it claims next
  claims,       \* keys its open transaction has claimed
  doomed,       \* its transaction is aborted: a statement of it failed
  answer,       \* event_id of the response, for each key of the request
  faults,       \* outside failures so far
  notifyFaults  \* failed NOTIFYs so far

tables == <<idem, raw>>
local == <<next, claims, doomed, answer>>
vars == <<tables, pc, local, faults, notifyFaults>>

Keys(r) == ToSet(EventsOf[r])
Taken(r) == Keys(r) \ claims[r]
NoAnswer == [k \in Key |-> NoId]

\* The request has been through all of its keys.
Claimed(r) == pc[r] = "claim" /\ next[r] > Len(EventsOf[r])
Wants(r, k) ==
  pc[r] = "claim" /\ next[r] <= Len(EventsOf[r]) /\ EventsOf[r][next[r]] = k

\* event_id_map holds one UUID per key: two rows of one new key collide.
Repeats(r) ==
  \E i, j \in DOMAIN EventsOf[r] :
    i # j /\ EventsOf[r][i] = EventsOf[r][j] /\ EventsOf[r][i] \in claims[r]

Init ==
  /\ idem = [k \in Key |-> NoId]
  /\ raw = {}
  /\ pc = [r \in Request |-> "idle"]
  /\ next = [r \in Request |-> 1]
  /\ claims = [r \in Request |-> {}]
  /\ doomed = [r \in Request |-> FALSE]
  /\ answer = [r \in Request |-> NoAnswer]
  /\ faults = 0
  /\ notifyFaults = 0

\* Mutant of Fail: the session is not rolled back.
FailWithoutRollback(r) ==
  /\ pc' = [pc EXCEPT ![r] = "failed"]
  /\ answer' = [answer EXCEPT ![r] = NoAnswer]
  /\ UNCHANGED <<tables, next, claims, doomed>>

\* The handler raises: get_db rolls back and the client gets an error.
Fail(r) ==
  /\ pc' = [pc EXCEPT ![r] = "failed"]
  /\ claims' = [claims EXCEPT ![r] = {}]
  /\ doomed' = [doomed EXCEPT ![r] = FALSE]
  /\ answer' = [answer EXCEPT ![r] = NoAnswer]
  /\ UNCHANGED <<tables, next>>
-----------------------------------------------------------------------------
\* merchant_exists, missing_merchant_ids
Begin(r) ==
  /\ pc[r] = "idle" /\ r \notin UnknownMerchant
  /\ pc' = [pc EXCEPT ![r] = "claim"]
  /\ UNCHANGED <<tables, local, faults, notifyFaults>>

RejectMerchant(r) ==
  /\ pc[r] = "idle" /\ r \in UnknownMerchant
  /\ Fail(r)
  /\ UNCHANGED <<faults, notifyFaults>>

\* Mutant of Claim: a SELECT decides whether the key is free; it sees only
\* what is committed and does not wait.
ClaimBySelect(r) ==
  /\ \E k \in Key :
       /\ Wants(r, k)
       /\ claims' = [claims EXCEPT ![r] = IF idem[k] = NoId THEN @ \cup {k} ELSE @]
  /\ next' = [next EXCEPT ![r] = @ + 1]
  /\ UNCHANGED <<tables, pc, doomed, answer, faults, notifyFaults>>

\* Mutant of Claim: does not wait for a key another transaction holds, and
\* takes it for a taken one before it is.
ClaimWithoutWait(r) ==
  /\ \E k \in Key :
       /\ Wants(r, k)
       /\ claims' = [claims EXCEPT ![r] =
            IF idem[k] = NoId /\ \A q \in Request \ {r} : k \notin claims[q]
            THEN @ \cup {k} ELSE @]
  /\ next' = [next EXCEPT ![r] = @ + 1]
  /\ UNCHANGED <<tables, pc, doomed, answer, faults, notifyFaults>>

\* Phase 1, one key after the other: free keys become the transaction's.
Claim(r) ==
  /\ \E k \in Key :
       /\ Wants(r, k)
       /\ \A q \in Request \ {r} : k \notin claims[q]
       /\ claims' = [claims EXCEPT ![r] = IF idem[k] = NoId THEN @ \cup {k} ELSE @]
  /\ next' = [next EXCEPT ![r] = @ + 1]
  /\ UNCHANGED <<tables, pc, doomed, answer, faults, notifyFaults>>

\* Phase 2: the rows of the claimed keys.
InsertRaw(r) ==
  /\ Claimed(r) /\ claims[r] # {} /\ ~Repeats(r)
  /\ answer' = [answer EXCEPT ![r] =
       [k \in Key |-> IF k \in claims[r] THEN <<r, k>> ELSE NoId]]
  /\ pc' = [pc EXCEPT ![r] = IF r \in Batch THEN "rate" ELSE "notify"]
  /\ UNCHANGED <<tables, next, claims, doomed, faults, notifyFaults>>

\* Two new rows with one id: a primary key violation.
RejectRepeats(r) ==
  /\ Claimed(r) /\ Repeats(r)
  /\ Fail(r)
  /\ UNCHANGED <<faults, notifyFaults>>

\* No key was free.
NothingNew(r) ==
  /\ Claimed(r) /\ claims[r] = {}
  /\ pc' = [pc EXCEPT ![r] = "fetch"]
  /\ UNCHANGED <<tables, local, faults, notifyFaults>>

\* notify_new_event.  An error is caught and logged, but it has aborted the
\* transaction.
AfterNotify(r) == IF r \in Batch THEN "fetch" ELSE "rate"
Notify(r) ==
  /\ pc[r] = "notify"
  /\ pc' = [pc EXCEPT ![r] = AfterNotify(r)]
  /\ UNCHANGED <<tables, local, faults, notifyFaults>>

NotifyFails(r) ==
  /\ pc[r] = "notify" /\ notifyFaults < MaxNotifyFaults
  /\ notifyFaults' = notifyFaults + 1
  /\ doomed' = [doomed EXCEPT ![r] = TRUE]
  /\ pc' = [pc EXCEPT ![r] = AfterNotify(r)]
  /\ UNCHANGED <<tables, next, claims, answer, faults>>

\* record_ingestion; nothing catches an error of it (Abort below).
RecordIngestion(r) ==
  /\ pc[r] = "rate"
  /\ pc' = [pc EXCEPT ![r] = IF r \in Batch THEN "notify" ELSE "commit"]
  /\ UNCHANGED <<tables, local, faults, notifyFaults>>

\* The existing events of the keys that were taken: no statement when there
\* are none; a row that is gone is an error to insert_event (one()) and a
\* nil UUID to ingest_batch.
Unreadable(r) ==
  /\ Taken(r) # {}
  /\ \/ doomed[r]
     \/ r \notin Batch /\ \E k \in Taken(r) : idem[k] \notin raw

\* Mutant of FetchExisting: pairs keys and rows by position, although the
\* query returns the rows in any order.
FetchExistingByPosition(r) ==
  /\ pc[r] = "fetch" /\ ~Unreadable(r)
  /\ \E f \in [Taken(r) -> {idem[k] : k \in Taken(r)}] :
       answer' = [answer EXCEPT ![r] = [k \in Key |-> IF k \in Taken(r) THEN f[k] ELSE @[k]]]
  /\ pc' = [pc EXCEPT ![r] = "commit"]
  /\ UNCHANGED <<tables, next, claims, doomed, faults, notifyFaults>>

FetchExisting(r) ==
  /\ pc[r] = "fetch" /\ ~Unreadable(r)
  /\ answer' = [answer EXCEPT ![r] = [k \in Key |->
       IF k \notin Taken(r) THEN @[k]
       ELSE IF idem[k] \in raw THEN idem[k] ELSE NilId]]
  /\ pc' = [pc EXCEPT ![r] = "commit"]
  /\ UNCHANGED <<tables, next, claims, doomed, faults, notifyFaults>>

FetchFails(r) ==
  /\ pc[r] = "fetch" /\ Unreadable(r)
  /\ Fail(r)
  /\ UNCHANGED <<faults, notifyFaults>>

\* Mutant of Commit: the rows of a batch are committed one at a time.
CommitKeyByKey(r) ==
  /\ pc[r] = "commit"
  /\ \E K \in SUBSET claims[r] :
       /\ K = claims[r] \/ Cardinality(K) = 1
       /\ idem' = [k \in Key |-> IF k \in K THEN <<r, k>> ELSE idem[k]]
       /\ raw' = raw \cup ({r} \X K)
       /\ claims' = [claims EXCEPT ![r] = @ \ K]
       /\ pc' = [pc EXCEPT ![r] = IF K = claims[r] THEN "answered" ELSE "commit"]
  /\ UNCHANGED <<next, doomed, answer, faults, notifyFaults>>

\* get_db commits after the handler returned and before the response is sent.
\* COMMIT of an aborted transaction is a rollback, and no error.
Commit(r) ==
  /\ pc[r] = "commit"
  /\ IF doomed[r]
     THEN UNCHANGED tables
     ELSE /\ idem' = [k \in Key |-> IF k \in claims[r] THEN <<r, k>> ELSE idem[k]]
          /\ raw' = raw \cup ({r} \X claims[r])
  /\ pc' = [pc EXCEPT ![r] = "answered"]
  /\ claims' = [claims EXCEPT ![r] = {}]
  /\ UNCHANGED <<next, doomed, answer, faults, notifyFaults>>
-----------------------------------------------------------------------------
Open(r) == pc[r] \in {"claim", "rate", "notify", "fetch", "commit"}

\* Redis is down, a connection is lost, the process dies.
Abort(r) ==
  /\ Open(r) /\ faults < MaxFaults
  /\ faults' = faults + 1
  /\ Fail(r)
  /\ UNCHANGED notifyFaults

WaitsFor(r, q) == r # q /\ \E k \in claims[q] : Wants(r, k)

\* r is on a cycle of transactions that wait for each other.
Deadlocked(r) ==
  \E D \in SUBSET Request :
    /\ r \in D
    /\ \A q \in D : (\E p \in D : WaitsFor(q, p)) /\ (\E p \in D : WaitsFor(p, q))

DeadlockVictim(r) ==
  /\ Deadlocked(r)
  /\ Fail(r)
  /\ UNCHANGED <<faults, notifyFaults>>

\* Retention drops the partition of a day; event_idempotency is not
\* partitioned and keeps its keys.
DropPartition(d) ==
  /\ \E i \in raw : DayOf[i[1]] = d
  /\ raw' = {i \in raw : DayOf[i[1]] # d}
  /\ UNCHANGED <<idem, pc, local, faults, notifyFaults>>
-----------------------------------------------------------------------------
Handle(r) ==
  \/ Begin(r) \/ RejectMerchant(r) \/ Claim(r) \/ InsertRaw(r) \/ RejectRepeats(r)
  \/ NothingNew(r) \/ Notify(r) \/ NotifyFails(r) \/ RecordIngestion(r)
  \/ FetchExisting(r) \/ FetchFails(r) \/ Commit(r) \/ DeadlockVictim(r)

Next ==
  \/ \E r \in Request : Handle(r) \/ Abort(r)
  \/ \E d \in DroppedDay : DropPartition(d)

Spec == Init /\ [][Next]_vars

\* A handler that can run is run by the event loop; PostgreSQL's deadlock
\* detector is part of it.
FairSpec == Spec /\ \A r \in Request : WF_vars(Handle(r))
-----------------------------------------------------------------------------
IdsOf(k) == Request \X {k}

TypeOK ==
  /\ \A k \in Key : idem[k] \in IdsOf(k) \cup {NoId}
  /\ raw \in SUBSET Id
  /\ pc \in [Request -> {"idle", "claim", "rate", "notify", "fetch", "commit",
                         "answered", "failed"}]
  /\ \A r \in Request : next[r] \in 1 .. Len(EventsOf[r]) + 1
  /\ \A r \in Request : claims[r] \in SUBSET Keys(r)
  /\ doomed \in [Request -> BOOLEAN]
  /\ \A r \in Request, k \in Key : answer[r][k] \in IdsOf(k) \cup {NoId, NilId}
  /\ faults \in 0 .. MaxFaults /\ notifyFaults \in 0 .. MaxNotifyFaults

(***************************************************************************)
(* A key is in one hand only: no two open transactions have claimed it,    *)
(* and none has claimed a key that is committed, whatever was committed    *)
(* since.  This is what makes the two phases of insert_event safe.         *)
(***************************************************************************)
OneClaimant ==
  \A r \in Request : \A k \in claims[r] :
    idem[k] = NoId /\ \A q \in Request \ {r} : k \notin claims[q]

(***************************************************************************)
(* Every row of raw_events is the one its key names, so that no key has    *)
(* two rows, in whatever partitions: the cross-partition idempotency of    *)
(* event_idempotency.                                                      *)
(***************************************************************************)
RowsAreKeyed == \A i \in raw : idem[i[2]] = i

(***************************************************************************)
(* Every answer names the event its key was claimed for, for a new event   *)
(* and for a duplicate, whoever stored it and in whatever order the        *)
(* requests ran, and that event is stored; only if its partition has been  *)
(* dropped may the row be missing, and only then may a duplicate be        *)
(* answered with the nil UUID.  Requests whose NOTIFY failed are excepted  *)
(* (AnsweredIsStored).                                                     *)
(***************************************************************************)
MayBeDropped(i) == DayOf[i[1]] \in DroppedDay
AnswersNameTheRow ==
  \A r \in Request : pc[r] = "answered" /\ ~doomed[r] =>
    \A k \in Keys(r) :
      /\ idem[k] \in raw \/ (idem[k] \in Id /\ MayBeDropped(idem[k]))
      /\ answer[r][k] = idem[k] \/ (answer[r][k] = NilId /\ idem[k] \notin raw)

(***************************************************************************)
(* An event the client got an id for is stored: what the comment on the    *)
(* caught NOTIFY error promises.  It does not hold.                        *)
(***************************************************************************)
AnsweredIsStored ==
  \A r \in Request : pc[r] = "answered" => \A k \in Keys(r) : answer[r][k] \in raw

(***************************************************************************)
(* Every request ends with an answer or an error, deadlocks included.      *)
(***************************************************************************)
EveryRequestEnds == \A r \in Request : <>(pc[r] \in {"answered", "failed"})

(***************************************************************************)
(* Ingestion implements the event log: what a request adds, it adds in one *)
(* step, and that is an event for every key it carries that has none yet,  *)
(* although it went through its keys one by one while others committed     *)
(* (insert_events_batch).                                                  *)
(***************************************************************************)
Log == INSTANCE EventLog WITH
  keyed <- idem, stored <- raw, KeysOf <- [r \in Request |-> Keys(r)]
LogSpec == Log!Spec
=============================================================================
