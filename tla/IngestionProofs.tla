-------------------------- MODULE IngestionProofs --------------------------
(***************************************************************************)
(* The idempotency protocol of Ingestion, for every set of requests and    *)
(* keys, whatever the requests carry, with failures, deadlocks and         *)
(* retention.  OneClaimant is inductive with the shapes of the tables; the *)
(* rows of raw_events follow from it, since a commit writes only keys that *)
(* nobody else has claimed and that have no event yet.                     *)
(***************************************************************************)
EXTENDS Ingestion, TLAPS

KeyInv ==
  /\ idem \in [Key -> Id \cup {NoId}]
  /\ raw \in SUBSET Id
  /\ claims \in [Request -> SUBSET Key]
  /\ OneClaimant
  /\ RowsAreKeyed

LEMMA InitKeys == Init => KeyInv
  BY DEF Init, KeyInv, OneClaimant, RowsAreKeyed, Id

\* A transaction that ends without a commit only gives up its claims.
LEMMA FailKeeps ==
  ASSUME KeyInv, NEW r \in Request, Fail(r)
  PROVE  KeyInv'
  BY DEF Fail, KeyInv, OneClaimant, RowsAreKeyed, tables

\* The steps that touch neither the tables nor a claim.
LEMMA LocalKeeps ==
  ASSUME KeyInv, UNCHANGED <<tables, claims>>
  PROVE  KeyInv'
  BY DEF KeyInv, OneClaimant, RowsAreKeyed, tables

\* A claim is of a key that no open transaction holds and no event has.
LEMMA ClaimKeeps ==
  ASSUME KeyInv, NEW r \in Request, Claim(r)
  PROVE  KeyInv'
<1>1. PICK k \in Key :
        /\ \A q \in Request \ {r} : k \notin claims[q]
        /\ claims' = [claims EXCEPT ![r] = IF idem[k] = NoId THEN @ \cup {k} ELSE @]
  BY DEF Claim
<1>2. UNCHANGED tables
  BY DEF Claim
<1> QED
  BY <1>1, <1>2 DEF KeyInv, OneClaimant, RowsAreKeyed, tables

\* A commit gives its claimed keys their events.
LEMMA CommitKeeps ==
  ASSUME KeyInv, NEW r \in Request, Commit(r)
  PROVE  KeyInv'
<1>1. claims' = [claims EXCEPT ![r] = {}]
  BY DEF Commit
<1>2. CASE doomed[r]
  BY <1>1, <1>2 DEF Commit, KeyInv, OneClaimant, RowsAreKeyed, tables
<1>3. CASE ~doomed[r]
  <2>1. /\ idem' = [k \in Key |-> IF k \in claims[r] THEN <<r, k>> ELSE idem[k]]
        /\ raw' = raw \cup ({r} \X claims[r])
    BY <1>3 DEF Commit
  <2>2. claims[r] \in SUBSET Key
    BY DEF KeyInv
  <2>3. /\ idem' \in [Key -> Id \cup {NoId}]
        /\ raw' \in SUBSET Id
        /\ claims' \in [Request -> SUBSET Key]
    BY <1>1, <2>1, <2>2 DEF KeyInv, Id
  <2>4. OneClaimant'
    <3> SUFFICES ASSUME NEW q \in Request, NEW k \in claims'[q]
                 PROVE  idem'[k] = NoId /\ \A p \in Request \ {q} : k \notin claims'[p]
      BY DEF OneClaimant
    <3>1. q # r /\ k \in claims[q]
      BY <1>1 DEF KeyInv
    <3>2. k \in Key /\ k \notin claims[r] /\ idem[k] = NoId
      BY <3>1 DEF KeyInv, OneClaimant
    <3> QED
      BY <1>1, <2>1, <3>1, <3>2 DEF KeyInv, OneClaimant
  <2>5. RowsAreKeyed'
    <3> SUFFICES ASSUME NEW i \in raw' PROVE idem'[i[2]] = i
      BY DEF RowsAreKeyed
    <3>1. CASE i \in raw
      <4>1. idem[i[2]] = i /\ i \in Id /\ i[2] \in Key
        BY <3>1 DEF KeyInv, RowsAreKeyed, Id
      <4>2. i[2] \notin claims[r]
        BY <4>1, IdAssumption DEF KeyInv, OneClaimant
      <4> QED
        BY <2>1, <4>1, <4>2
    <3>2. CASE i \in {r} \X claims[r]
      BY <2>1, <2>2, <3>2
    <3> QED
      BY <2>1, <3>1, <3>2
  <2> QED
    BY <2>3, <2>4, <2>5 DEF KeyInv
<1> QED
  BY <1>2, <1>3

LEMMA StepKeys == KeyInv /\ [Next]_vars => KeyInv'
<1> SUFFICES ASSUME KeyInv, [Next]_vars PROVE KeyInv'
  OBVIOUS
<1>1. ASSUME NEW r \in Request, Handle(r) PROVE KeyInv'
  <2>1. CASE Claim(r)
    BY <2>1, ClaimKeeps
  <2>2. CASE Commit(r)
    BY <2>2, CommitKeeps
  <2>3. CASE RejectMerchant(r) \/ RejectRepeats(r) \/ FetchFails(r) \/ DeadlockVictim(r)
    BY <2>3, FailKeeps DEF RejectMerchant, RejectRepeats, FetchFails, DeadlockVictim
  <2>4. CASE \/ Begin(r) \/ InsertRaw(r) \/ NothingNew(r) \/ Notify(r) \/ NotifyFails(r)
             \/ RecordIngestion(r) \/ FetchExisting(r)
    <3>1. UNCHANGED <<tables, claims>>
      BY <2>4 DEF Begin, InsertRaw, NothingNew, Notify, NotifyFails, RecordIngestion,
                  FetchExisting, local
    <3> QED
      BY <3>1, LocalKeeps
  <2> QED
    BY <1>1, <2>1, <2>2, <2>3, <2>4 DEF Handle
<1>2. ASSUME NEW r \in Request, Abort(r) PROVE KeyInv'
  BY <1>2, FailKeeps DEF Abort
<1>3. ASSUME NEW d \in DroppedDay, DropPartition(d) PROVE KeyInv'
  BY <1>3 DEF DropPartition, KeyInv, OneClaimant, RowsAreKeyed, local
<1>4. CASE UNCHANGED vars
  BY <1>4, LocalKeeps DEF vars, local
<1> QED
  BY <1>1, <1>2, <1>3, <1>4 DEF Next

THEOREM KeysInductive == Spec => []KeyInv
  BY InitKeys, StepKeys, PTL DEF Spec

(***************************************************************************)
(* Two open transactions never claim one key, nor one a key that has an    *)
(* event (EventRepository.insert_event, insert_events_batch).              *)
(***************************************************************************)
THEOREM KeysHaveOneClaimant == Spec => []OneClaimant
<1>1. KeyInv => OneClaimant
  BY DEF KeyInv
<1> QED
  BY <1>1, KeysInductive, PTL

(***************************************************************************)
(* Every row of raw_events is the one its idempotency key names, so no key *)
(* has two rows in any partitions (event_idempotency).                     *)
(***************************************************************************)
THEOREM KeysHaveOneRow == Spec => []RowsAreKeyed
<1>1. KeyInv => RowsAreKeyed
  BY DEF KeyInv
<1> QED
  BY <1>1, KeysInductive, PTL
-----------------------------------------------------------------------------
(***************************************************************************)
(* The answers.  Once a request has been through its keys, each of them is *)
(* its own or has an event, for good; the answer is written from the one   *)
(* or the other, and nothing a request did since can change what it says.  *)
(***************************************************************************)
Later == {"rate", "notify", "fetch", "commit"}
States == {"idle", "claim", "rate", "notify", "fetch", "commit", "answered", "failed"}

IngestTypes ==
  /\ \A k \in Key : idem[k] \in IdsOf(k) \cup {NoId}
  /\ pc \in [Request -> States]
  /\ next \in [Request -> Nat]
  /\ \A r \in Request : next[r] \in 1 .. Len(EventsOf[r]) + 1
  /\ \A r \in Request : claims[r] \in SUBSET Keys(r)
  /\ doomed \in [Request -> BOOLEAN]
  /\ answer \in [Request -> [Key -> Id \cup {NoId, NilId}]]
  /\ \A r \in Request, k \in Key : answer[r][k] \in IdsOf(k) \cup {NoId, NilId}
  /\ faults \in 0 .. MaxFaults /\ notifyFaults \in 0 .. MaxNotifyFaults

\* The event of a key is stored, or retention may have dropped it.
Kept == \A k \in Key : idem[k] = NoId \/ idem[k] \in raw \/ MayBeDropped(idem[k])

Settled(r, k) == k \in claims[r] \/ idem[k] # NoId
Names(r, k) == answer[r][k] = idem[k] \/ (answer[r][k] = NilId /\ idem[k] \notin raw)

\* What a request has done so far.
Went(r) ==
  /\ pc[r] \in {"idle", "claim"} => \A i \in 1 .. (next[r] - 1) : Settled(r, EventsOf[r][i])
  /\ pc[r] \in Later => /\ \A k \in Keys(r) : Settled(r, k)
                        /\ \A k \in claims[r] : answer[r][k] = <<r, k>>
  /\ pc[r] \in {"rate", "notify"} /\ r \notin Batch => Taken(r) = {}
  /\ pc[r] = "commit" => \A k \in Taken(r) : Names(r, k)
  /\ pc[r] = "answered" /\ ~doomed[r] => \A k \in Keys(r) : idem[k] # NoId /\ Names(r, k)

IngestInv == KeyInv /\ IngestTypes /\ Kept /\ \A r \in Request : Went(r)

LEMMA KeysOf ==
  ASSUME NEW r \in Request
  PROVE  /\ EventsOf[r] \in Seq(Key) /\ Len(EventsOf[r]) \in Nat /\ Keys(r) \in SUBSET Key
         /\ \A i \in 1 .. Len(EventsOf[r]) : EventsOf[r][i] \in Keys(r)
         /\ \A k \in Keys(r) : \E i \in 1 .. Len(EventsOf[r]) : EventsOf[r][i] = k
<1>1. EventsOf[r] \in Seq(Key)
  BY EventsAssumption
<1>2. DOMAIN EventsOf[r] = 1 .. Len(EventsOf[r]) /\ Len(EventsOf[r]) \in Nat
      /\ \A i \in 1 .. Len(EventsOf[r]) : EventsOf[r][i] \in Key
  BY <1>1
<1> QED
  BY <1>1, <1>2 DEF Keys, ToSet

\* The steps, with all that end in an error in one case.
LEMMA IngestSteps ==
  ASSUME [Next]_vars
  PROVE  \/ \E r \in Request : Begin(r) \/ NothingNew(r) \/ Notify(r) \/ RecordIngestion(r)
         \/ \E r \in Request : Claim(r)
         \/ \E r \in Request : InsertRaw(r)
         \/ \E r \in Request : NotifyFails(r)
         \/ \E r \in Request : FetchExisting(r)
         \/ \E r \in Request : Commit(r)
         \/ \E r \in Request : Fail(r) /\ UNCHANGED notifyFaults
         \/ \E d \in DroppedDay : DropPartition(d)
         \/ UNCHANGED vars
  BY DEF Next, Handle, Abort, RejectMerchant, RejectRepeats, FetchFails, DeadlockVictim

LEMMA FaultsBounded ==
  ASSUME IngestTypes, [Next]_vars
  PROVE  faults' \in 0 .. MaxFaults /\ notifyFaults' \in 0 .. MaxNotifyFaults
<1> USE BoundAssumption DEF IngestTypes
<1>1. faults' \in 0 .. MaxFaults
  <2>1. ASSUME NEW r \in Request, Abort(r) PROVE faults' \in 0 .. MaxFaults
    BY <2>1 DEF Abort
  <2>2. ASSUME NEW r \in Request, Handle(r) PROVE UNCHANGED faults
    BY <2>2 DEF Handle, Begin, RejectMerchant, Claim, InsertRaw, RejectRepeats, NothingNew,
       Notify, NotifyFails, RecordIngestion, FetchExisting, FetchFails, Commit, DeadlockVictim
  <2>3. ASSUME NEW d \in DroppedDay, DropPartition(d) PROVE UNCHANGED faults
    BY <2>3 DEF DropPartition
  <2> QED  BY <2>1, <2>2, <2>3 DEF Next, vars
<1>2. ASSUME NEW r \in Request, NotifyFails(r) PROVE notifyFaults' \in 0 .. MaxNotifyFaults
  BY <1>2 DEF NotifyFails
<1> QED
  BY <1>1, <1>2, IngestSteps DEF Begin, NothingNew, Notify, RecordIngestion, Claim, InsertRaw,
     FetchExisting, Commit, DropPartition, vars

LEMMA StepTypes ==
  ASSUME KeyInv, IngestTypes, [Next]_vars
  PROVE  IngestTypes'
<1>0. faults' \in 0 .. MaxFaults /\ notifyFaults' \in 0 .. MaxNotifyFaults
  BY FaultsBounded
<1>1. ASSUME NEW r \in Request, Begin(r) \/ NothingNew(r) \/ Notify(r) \/ RecordIngestion(r)
      PROVE  IngestTypes'
  <2>1. UNCHANGED <<tables, local>> /\ \E l \in States : pc' = [pc EXCEPT ![r] = l]
    BY <1>1 DEF Begin, NothingNew, Notify, RecordIngestion, AfterNotify, States
  <2> QED  BY <1>0, <2>1 DEF IngestTypes, tables, local
<1>2. ASSUME NEW r \in Request, Claim(r) PROVE IngestTypes'
  <2>1. PICK k \in Key :
          Wants(r, k) /\ claims' = [claims EXCEPT ![r] = IF idem[k] = NoId THEN @ \cup {k} ELSE @]
    BY <1>2 DEF Claim
  <2>2. next' = [next EXCEPT ![r] = @ + 1] /\ UNCHANGED <<tables, pc, doomed, answer>>
    BY <1>2 DEF Claim
  <2>3. k \in Keys(r) /\ next[r] \in 1 .. Len(EventsOf[r])
    BY <2>1, KeysOf DEF Wants, IngestTypes
  <2>4. \A q \in Request : claims'[q] \in SUBSET Keys(q)
    BY <2>1, <2>3 DEF KeyInv, IngestTypes
  <2>5. next' \in [Request -> Nat] /\ \A q \in Request : next'[q] \in 1 .. Len(EventsOf[q]) + 1
    BY <2>2, <2>3, KeysOf DEF IngestTypes
  <2> QED  BY <1>0, <2>2, <2>4, <2>5 DEF IngestTypes, tables
<1>3. ASSUME NEW r \in Request, InsertRaw(r) PROVE IngestTypes'
  <2> DEFINE a == [k \in Key |-> IF k \in claims[r] THEN <<r, k>> ELSE NoId]
  <2>1. a \in [Key -> Id \cup {NoId, NilId}] /\ \A k \in Key : a[k] \in IdsOf(k) \cup {NoId, NilId}
    BY DEF Id, IdsOf
  <2>2. /\ answer' = [answer EXCEPT ![r] = a]
        /\ pc' = [pc EXCEPT ![r] = IF r \in Batch THEN "rate" ELSE "notify"]
        /\ UNCHANGED <<tables, next, claims, doomed>>
    BY <1>3 DEF InsertRaw
  <2> HIDE DEF a
  <2> QED  BY <1>0, <2>1, <2>2 DEF IngestTypes, tables, States
<1>4. ASSUME NEW r \in Request, NotifyFails(r) PROVE IngestTypes'
  <2>1. /\ doomed' = [doomed EXCEPT ![r] = TRUE] /\ \E l \in States : pc' = [pc EXCEPT ![r] = l]
        /\ UNCHANGED <<tables, next, claims, answer>>
    BY <1>4 DEF NotifyFails, AfterNotify, States
  <2> QED  BY <1>0, <2>1 DEF IngestTypes, tables
<1>5. ASSUME NEW r \in Request, FetchExisting(r) PROVE IngestTypes'
  <2> DEFINE a == [k \in Key |-> IF k \notin Taken(r) THEN answer[r][k]
                                 ELSE IF idem[k] \in raw THEN idem[k] ELSE NilId]
  <2>1. answer' = [answer EXCEPT ![r] = a]
    BY <1>5 DEF FetchExisting, IngestTypes
  <2>2. a \in [Key -> Id \cup {NoId, NilId}] /\ \A k \in Key : a[k] \in IdsOf(k) \cup {NoId, NilId}
    BY DEF IngestTypes, KeyInv
  <2>3. pc' = [pc EXCEPT ![r] = "commit"] /\ UNCHANGED <<tables, next, claims, doomed>>
    BY <1>5 DEF FetchExisting
  <2> HIDE DEF a
  <2> QED  BY <1>0, <2>1, <2>2, <2>3 DEF IngestTypes, tables, States
<1>6. ASSUME NEW r \in Request, Commit(r) PROVE IngestTypes'
  <2>1. \A k \in Key : idem'[k] \in IdsOf(k) \cup {NoId}
    BY <1>6 DEF Commit, tables, IngestTypes, IdsOf
  <2>2. /\ pc' = [pc EXCEPT ![r] = "answered"] /\ claims' = [claims EXCEPT ![r] = {}]
        /\ UNCHANGED <<next, doomed, answer>>
    BY <1>6 DEF Commit
  <2>3. \A q \in Request : claims'[q] \in SUBSET Keys(q)
    BY <2>2 DEF IngestTypes, KeyInv
  <2> QED  BY <1>0, <2>1, <2>2, <2>3 DEF IngestTypes, States
<1>7. ASSUME NEW r \in Request, Fail(r) PROVE IngestTypes'
  <2>1. NoAnswer \in [Key -> Id \cup {NoId, NilId}] /\ \A k \in Key : NoAnswer[k] = NoId
    BY DEF NoAnswer
  <2>2. /\ pc' = [pc EXCEPT ![r] = "failed"] /\ claims' = [claims EXCEPT ![r] = {}]
        /\ doomed' = [doomed EXCEPT ![r] = FALSE] /\ answer' = [answer EXCEPT ![r] = NoAnswer]
        /\ UNCHANGED <<tables, next>>
    BY <1>7 DEF Fail
  <2>3. \A q \in Request : claims'[q] \in SUBSET Keys(q)
    BY <2>2 DEF IngestTypes, KeyInv
  <2>4. /\ answer' \in [Request -> [Key -> Id \cup {NoId, NilId}]]
        /\ \A q \in Request, k \in Key : answer'[q][k] \in IdsOf(k) \cup {NoId, NilId}
    BY <2>1, <2>2 DEF IngestTypes
  <2> QED  BY <1>0, <2>2, <2>3, <2>4 DEF IngestTypes, tables, States
<1>8. CASE UNCHANGED <<idem, pc, local>>
  BY <1>0, <1>8 DEF IngestTypes, local
<1> QED
  BY <1>1, <1>2, <1>3, <1>4, <1>5, <1>6, <1>7, <1>8, IngestSteps DEF DropPartition, vars, tables

\* The event of a key stays, and one that is dropped does not come back.
LEMMA EventsStay ==
  ASSUME IngestInv, [Next]_vars, NEW k \in Key, idem[k] # NoId
  PROVE  idem'[k] = idem[k] /\ (idem[k] \notin raw => idem[k] \notin raw')
<1> USE DEF IngestInv
<1>1. ASSUME NEW r \in Request, Commit(r)
      PROVE  idem'[k] = idem[k] /\ (idem[k] \notin raw => idem[k] \notin raw')
  <2>1. k \notin claims[r] /\ \A j \in claims[r] : j # k
    BY DEF KeyInv, OneClaimant
  <2>2. \A j \in claims[r] : <<r, j>> # idem[k]
    BY <2>1 DEF IngestTypes, IdsOf
  <2> QED  BY <1>1, <2>1, <2>2 DEF Commit, tables
<1>2. ASSUME NEW d \in DroppedDay, DropPartition(d)
      PROVE  idem'[k] = idem[k] /\ (idem[k] \notin raw => idem[k] \notin raw')
  BY <1>2 DEF DropPartition
<1>3. CASE UNCHANGED tables
  BY <1>3 DEF tables
<1> QED
  BY <1>1, <1>2, <1>3, IngestSteps DEF Begin, NothingNew, Notify, RecordIngestion, Claim,
     InsertRaw, NotifyFails, FetchExisting, Fail, vars

LEMMA StepKept ==
  ASSUME IngestInv, [Next]_vars
  PROVE  Kept'
<1> USE DEF IngestInv
<1>1. ASSUME NEW r \in Request, Commit(r) PROVE Kept'
  BY <1>1 DEF Commit, Kept, tables, MayBeDropped
<1>2. ASSUME NEW d \in DroppedDay, DropPartition(d) PROVE Kept'
  BY <1>2 DEF DropPartition, Kept, MayBeDropped
<1>3. CASE UNCHANGED tables
  BY <1>3 DEF tables, Kept, MayBeDropped
<1> QED
  BY <1>1, <1>2, <1>3, IngestSteps DEF Begin, NothingNew, Notify, RecordIngestion, Claim,
     InsertRaw, NotifyFails, FetchExisting, Fail, vars

\* What a request has done survives the steps of the others.
LEMMA OthersKeep ==
  ASSUME IngestInv, [Next]_vars, NEW q \in Request,
         pc'[q] = pc[q], next'[q] = next[q], claims'[q] = claims[q],
         doomed'[q] = doomed[q], answer'[q] = answer[q]
  PROVE  Went(q)'
<1>1. \A k \in Key : idem[k] # NoId =>
        idem'[k] = idem[k] /\ (idem[k] \notin raw => idem[k] \notin raw')
  BY EventsStay
<1>2. \A k \in Key : Settled(q, k) => Settled(q, k)'
  BY <1>1 DEF Settled
<1>3. \A k \in Key : idem[k] # NoId /\ Names(q, k) => idem'[k] # NoId /\ Names(q, k)'
  BY <1>1 DEF Names
<1>4. Taken(q)' = Taken(q) /\ Taken(q) \subseteq Keys(q)
  BY DEF Taken
<1>5. Keys(q) \in SUBSET Key /\ \A i \in 1 .. (next[q] - 1) : EventsOf[q][i] \in Key
  BY KeysOf DEF IngestInv, IngestTypes
<1>6. Went(q)
  BY DEF IngestInv
<1>7. pc[q] = "commit" => \A k \in Taken(q) : idem[k] # NoId
  BY <1>4, <1>6 DEF Went, Settled, Later, Taken
<1>8. pc[q] \in {"idle", "claim"} => \A i \in 1 .. (next[q] - 1) : Settled(q, EventsOf[q][i])'
  BY <1>2, <1>5, <1>6 DEF Went
<1>9. pc[q] \in Later => \A k \in Keys(q) : Settled(q, k)'
  BY <1>2, <1>5, <1>6 DEF Went
<1>10. pc[q] = "commit" => \A k \in Taken(q) : Names(q, k)'
  BY <1>3, <1>4, <1>5, <1>6, <1>7 DEF Went
<1>11. pc[q] = "answered" /\ ~doomed[q] => \A k \in Keys(q) : idem'[k] # NoId /\ Names(q, k)'
  BY <1>3, <1>5, <1>6 DEF Went
<1> QED
  BY <1>4, <1>6, <1>8, <1>9, <1>10, <1>11 DEF Went

\* A single event has one key: once that is claimed, none is taken.
LEMMA SingleClaims ==
  ASSUME IngestTypes, NEW r \in Request \ Batch, claims[r] # {}
  PROVE  Taken(r) = {}
<1>1. Len(EventsOf[r]) = 1
  BY EventsAssumption
<1>2. \A k \in Keys(r) : k = EventsOf[r][1]
  BY <1>1, KeysOf
<1> QED
  BY <1>2 DEF Taken, IngestTypes

\* A request that has been through its keys has settled them all.
LEMMA ClaimedSettled ==
  ASSUME IngestInv, NEW r \in Request, Claimed(r)
  PROVE  \A k \in Keys(r) : Settled(r, k)
<1>1. next[r] \in Nat /\ next[r] > Len(EventsOf[r]) /\ Len(EventsOf[r]) \in Nat
  BY KeysOf DEF Claimed, IngestInv, IngestTypes
<1>2. \A i \in 1 .. Len(EventsOf[r]) : Settled(r, EventsOf[r][i])
  BY <1>1 DEF Claimed, IngestInv, Went
<1> QED
  BY <1>2, KeysOf

LEMMA StepWent ==
  ASSUME IngestInv, [Next]_vars, NEW q \in Request
  PROVE  Went(q)'
<1> USE DEF IngestInv
<1>0. Went(q) /\ IngestTypes
  OBVIOUS
<1>1. CASE Begin(q) \/ NothingNew(q) \/ Notify(q) \/ RecordIngestion(q) \/ NotifyFails(q)
  <2>1. UNCHANGED <<tables, next, claims, answer>> /\ pc'[q] \notin {"idle", "answered"}
    BY <1>1 DEF Begin, NothingNew, Notify, RecordIngestion, NotifyFails, AfterNotify, local,
       IngestTypes
  <2>2. /\ Taken(q)' = Taken(q) /\ \A k : Settled(q, k)' <=> Settled(q, k)
        /\ \A k : Names(q, k)' <=> Names(q, k)
    BY <2>1 DEF Taken, Settled, Names, tables
  <2>3. CASE Begin(q)
    <3>1. pc[q] = "idle" /\ pc'[q] = "claim"
      BY <2>3 DEF Begin, IngestTypes
    <3> QED  BY <1>0, <2>1, <2>2, <3>1 DEF Went, Later
  <2>4. CASE NothingNew(q)
    <3>1. Claimed(q) /\ claims[q] = {} /\ pc'[q] = "fetch"
      BY <2>4 DEF NothingNew, IngestTypes
    <3> QED  BY <2>1, <2>2, <3>1, ClaimedSettled DEF Went, Later
  <2>5. CASE Notify(q) \/ NotifyFails(q)
    <3>1. pc[q] = "notify" /\ pc'[q] = IF q \in Batch THEN "fetch" ELSE "rate"
      BY <2>5 DEF Notify, NotifyFails, AfterNotify, IngestTypes
    <3> QED  BY <1>0, <2>1, <2>2, <3>1 DEF Went, Later
  <2>6. CASE RecordIngestion(q)
    <3>1. pc[q] = "rate" /\ pc'[q] = IF q \in Batch THEN "notify" ELSE "commit"
      BY <2>6 DEF RecordIngestion, IngestTypes
    <3> QED  BY <1>0, <2>1, <2>2, <3>1 DEF Went, Later
  <2> QED  BY <1>1, <2>3, <2>4, <2>5, <2>6
<1>2. CASE Claim(q)
  <2>1. PICK k \in Key :
          Wants(q, k) /\ claims' = [claims EXCEPT ![q] = IF idem[k] = NoId THEN @ \cup {k} ELSE @]
    BY <1>2 DEF Claim
  <2>2. /\ pc[q] = "claim" /\ EventsOf[q][next[q]] = k /\ next[q] \in Nat
        /\ next'[q] = next[q] + 1 /\ UNCHANGED <<tables, pc>>
    BY <1>2, <2>1 DEF Claim, Wants, IngestTypes
  <2>3. claims[q] \subseteq claims'[q] /\ (idem[k] = NoId => k \in claims'[q])
    BY <2>1 DEF KeyInv
  <2>4. Settled(q, k)' /\ \A j : Settled(q, j) => Settled(q, j)'
    BY <2>2, <2>3 DEF Settled, tables
  <2>5. \A i \in 1 .. (next'[q] - 1) : i = next[q] \/ i \in 1 .. (next[q] - 1)
    BY <2>2
  <2>6. \A i \in 1 .. (next'[q] - 1) : Settled(q, EventsOf[q][i])'
    BY <1>0, <2>2, <2>4, <2>5 DEF Went
  <2> QED  BY <2>2, <2>6 DEF Went, Later
<1>3. CASE InsertRaw(q)
  <2>1. /\ Claimed(q) /\ claims[q] # {} /\ pc'[q] \in {"rate", "notify"}
        /\ UNCHANGED <<tables, claims>>
        /\ \A k \in Key : answer'[q][k] = IF k \in claims[q] THEN <<q, k>> ELSE NoId
    BY <1>3 DEF InsertRaw, IngestTypes
  <2>2. q \notin Batch => Taken(q) = {}
    BY <2>1, SingleClaims
  <2>3. \A k \in Keys(q) : Settled(q, k)'
    BY <2>1, ClaimedSettled DEF Settled, tables
  <2>4. \A k \in claims'[q] : answer'[q][k] = <<q, k>>
    BY <2>1 DEF KeyInv
  <2> QED  BY <2>1, <2>2, <2>3, <2>4 DEF Went, Later, Taken
<1>4. CASE FetchExisting(q)
  <2>1. /\ pc[q] = "fetch" /\ pc'[q] = "commit" /\ UNCHANGED <<tables, claims>>
        /\ \A k \in Key : answer'[q][k] =
             IF k \notin Taken(q) THEN answer[q][k] ELSE IF idem[k] \in raw THEN idem[k] ELSE NilId
    BY <1>4 DEF FetchExisting, IngestTypes
  <2>2. Taken(q) \in SUBSET Key /\ claims[q] \in SUBSET Key /\ Taken(q) \cap claims[q] = {}
    BY KeysOf DEF Taken, KeyInv
  <2>3. \A k \in Taken(q) : Names(q, k)'
    BY <2>1, <2>2 DEF Names, tables
  <2>4. \A k \in claims[q] : answer'[q][k] = <<q, k>>
    BY <1>0, <2>1, <2>2 DEF Went, Later
  <2>5. \A k \in Keys(q) : Settled(q, k)'
    BY <1>0, <2>1 DEF Went, Later, Settled, tables
  <2> QED  BY <2>1, <2>3, <2>4, <2>5 DEF Went, Later, Taken
<1>5. CASE Commit(q)
  <2>1. pc[q] = "commit" /\ pc'[q] = "answered" /\ UNCHANGED <<doomed, answer>>
    BY <1>5 DEF Commit, IngestTypes
  <2>2. ASSUME ~doomed[q], NEW k \in Keys(q) PROVE idem'[k] # NoId /\ Names(q, k)'
    <3>1. k \in Key
      BY KeysOf
    <3>2. CASE k \in claims[q]
      <4>1. idem'[k] = <<q, k>>
        BY <1>5, <2>2, <3>1, <3>2 DEF Commit
      <4>2. answer[q][k] = <<q, k>> /\ <<q, k>> # NoId
        BY <1>0, <2>1, <3>1, <3>2, IdAssumption DEF Went, Later, Id
      <4> QED  BY <2>1, <4>1, <4>2 DEF Names
    <3>3. CASE k \notin claims[q]
      <4>1. idem[k] # NoId /\ Names(q, k)
        BY <1>0, <2>1, <3>3 DEF Went, Later, Settled, Taken
      <4> QED  BY <2>1, <3>1, <4>1, EventsStay DEF Names
    <3> QED  BY <3>2, <3>3
  <2> QED  BY <2>1, <2>2 DEF Went, Later
<1>6. CASE Fail(q)
  BY <1>6 DEF Fail, Went, Later, IngestTypes
<1>7. ASSUME NEW r \in Request, r # q,
             \/ Begin(r) \/ NothingNew(r) \/ Notify(r) \/ RecordIngestion(r) \/ Claim(r)
             \/ InsertRaw(r) \/ NotifyFails(r) \/ FetchExisting(r) \/ Commit(r) \/ Fail(r)
      PROVE  Went(q)'
  <2>1. /\ pc'[q] = pc[q] /\ next'[q] = next[q] /\ claims'[q] = claims[q]
        /\ doomed'[q] = doomed[q] /\ answer'[q] = answer[q]
    BY <1>7 DEF Begin, NothingNew, Notify, RecordIngestion, Claim, InsertRaw, NotifyFails,
       FetchExisting, Commit, Fail, IngestTypes, KeyInv, local
  <2> QED  BY <2>1, OthersKeep
<1>8. CASE UNCHANGED <<pc, local>>
  BY <1>8, OthersKeep DEF local
<1> QED
  BY <1>1, <1>2, <1>3, <1>4, <1>5, <1>6, <1>7, <1>8, IngestSteps DEF DropPartition, vars

(***************************************************************************)
(* The inductive invariant: the types, and how far each request has come.  *)
(***************************************************************************)
THEOREM IngestInductive == Spec => []IngestInv
<1>1. Init => IngestInv
  <2> SUFFICES ASSUME Init PROVE IngestInv
    OBVIOUS
  <2>1. IngestTypes
    BY KeysOf, BoundAssumption DEF Init, IngestTypes, States, NoAnswer
  <2> QED  BY <2>1, InitKeys DEF Init, IngestInv, Kept, Went, Later
<1>2. IngestInv /\ [Next]_vars => IngestInv'
  <2> SUFFICES ASSUME IngestInv, [Next]_vars PROVE IngestInv'
    OBVIOUS
  <2>1. KeyInv'
    BY StepKeys DEF IngestInv
  <2>2. IngestTypes'
    BY StepTypes DEF IngestInv
  <2> QED  BY <2>1, <2>2, StepKept, StepWent DEF IngestInv
<1> QED
  BY <1>1, <1>2, PTL DEF Spec

\* The variables keep their types: an id stays with its key.
THEOREM IngestTypeCorrect == Spec => []TypeOK
<1>1. IngestInv => TypeOK
  BY DEF IngestInv, KeyInv, IngestTypes, TypeOK, States
<1> QED
  BY <1>1, IngestInductive, PTL

(***************************************************************************)
(* An answer names the event its key was claimed for, of a new event and   *)
(* of a duplicate, whatever the other requests and retention did between   *)
(* the claim, the SELECT of the existing events and the commit             *)
(* (ingest_single, ingest_batch, get_existing_events_batch).               *)
(***************************************************************************)
THEOREM AnswersAreRight == Spec => []AnswersNameTheRow
<1>1. IngestInv => AnswersNameTheRow
  <2> SUFFICES ASSUME IngestInv, NEW r \in Request, pc[r] = "answered", ~doomed[r],
                      NEW k \in Keys(r)
               PROVE  /\ idem[k] \in raw \/ (idem[k] \in Id /\ MayBeDropped(idem[k]))
                      /\ answer[r][k] = idem[k] \/ (answer[r][k] = NilId /\ idem[k] \notin raw)
    BY DEF AnswersNameTheRow
  <2>1. k \in Key /\ idem[k] # NoId /\ Names(r, k)
    BY KeysOf DEF IngestInv, Went
  <2> QED  BY <2>1 DEF IngestInv, KeyInv, Kept, Names
<1> QED
  BY <1>1, IngestInductive, PTL
-----------------------------------------------------------------------------
\* A commit appends to the log, or leaves it as it is when the transaction was
\* aborted or had only duplicates: what it has claimed is what is new of its
\* keys, since it has settled all of them.
LEMMA CommitAppends ==
  ASSUME IngestInv, NEW r \in Request, Commit(r)
  PROVE  Log!Next \/ UNCHANGED tables
<1>1. CASE doomed[r]
  BY <1>1 DEF Commit
<1>2. CASE ~doomed[r]
  <2>1. /\ idem' = [k \in Key |-> IF k \in claims[r] THEN <<r, k>> ELSE idem[k]]
        /\ raw' = raw \cup ({r} \X claims[r])
    BY <1>2 DEF Commit
  <2>2. \A k \in Keys(r) : Settled(r, k)
    BY DEF Commit, IngestInv, Went, Later
  <2>3. claims[r] \subseteq Keys(r) /\ \A k \in claims[r] : idem[k] = NoId
    BY DEF IngestInv, IngestTypes, KeyInv, OneClaimant
  <2>4. claims[r] = {k \in Keys(r) : idem[k] = NoId}
    BY <2>2, <2>3 DEF Settled
  <2>5. Log!New(r) = claims[r]
    BY <2>4 DEF Log!New
  <2>6. CASE claims[r] = {}
    <3>1. raw' = raw
      BY <2>1, <2>6
    <3>2. idem' = idem
      BY <2>1, <2>6 DEF IngestInv, KeyInv
    <3> QED
      BY <3>1, <3>2 DEF tables
  <2>7. CASE claims[r] # {}
    <3>1. Log!Append(r)
      BY <2>1, <2>5, <2>7 DEF Log!Append
    <3> QED
      BY <3>1 DEF Log!Next
  <2> QED
    BY <2>6, <2>7
<1> QED
  BY <1>1, <1>2

LEMMA StepLog == IngestInv /\ [Next]_vars => [Log!Next]_<<idem, raw>>
<1> SUFFICES ASSUME IngestInv, [Next]_vars PROVE Log!Next \/ UNCHANGED tables
  BY DEF tables
<1>1. ASSUME NEW r \in Request, Handle(r) PROVE Log!Next \/ UNCHANGED tables
  <2>1. CASE Commit(r)
    BY <2>1, CommitAppends
  <2>2. CASE ~Commit(r)
    BY <1>1, <2>2 DEF Handle, Begin, RejectMerchant, Claim, InsertRaw, RejectRepeats, NothingNew,
      Notify, NotifyFails, RecordIngestion, FetchExisting, FetchFails, DeadlockVictim, Fail, tables
  <2> QED
    BY <2>1, <2>2
<1>2. ASSUME NEW r \in Request, Abort(r) PROVE UNCHANGED tables
  BY <1>2 DEF Abort, Fail
<1>3. ASSUME NEW d \in DroppedDay, DropPartition(d) PROVE Log!Next
  <2> DEFINE S == {i \in raw : DayOf[i[1]] = d}
  <2>1. S \in SUBSET raw /\ raw' = raw \ S /\ UNCHANGED idem
    BY <1>3 DEF DropPartition
  <2>2. Log!Drop(S)
    BY <2>1 DEF Log!Drop
  <2> QED
    BY <2>1, <2>2 DEF Log!Next
<1>4. CASE UNCHANGED vars
  BY <1>4 DEF vars
<1> QED
  BY <1>1, <1>2, <1>3, <1>4 DEF Next

(***************************************************************************)
(* Ingestion implements the event log: keys are claimed once and for good, *)
(* and a request stores an event for every key of it that has none yet in  *)
(* one step, or none at all (insert_events_batch, get_db).                 *)
(***************************************************************************)
THEOREM ImplementsLog == Spec => LogSpec
<1>1. Init => Log!Init
  BY DEF Init, Log!Init
<1> QED
  BY <1>1, IngestInductive, StepLog, PTL DEF Spec, LogSpec, Log!Spec
=============================================================================
