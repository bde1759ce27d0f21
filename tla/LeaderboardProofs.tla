------------------------- MODULE LeaderboardProofs -------------------------
(***************************************************************************)
(* Theorems of Leaderboard, for any payments, merchants and requests, any  *)
(* batch size and limit, and however often the key or increments are lost. *)
(* Volumes are sums over sets of payments, so a batch adds the same to the *)
(* board, to what is under way and to rollup_day; what a rebuild counts    *)
(* twice is the batch whose increments are still under way, and no other.  *)
(***************************************************************************)
EXTENDS Leaderboard, FiniteSums

LEMMA AmountsAsSum ==
  ASSUME NEW S
  PROVE  MapThenSumSet(LAMBDA e : AmountOf[e], S) = SumFunctionOnSet(AmountOf, S)
BY DEF MapThenSumSet, SumFunctionOnSet, FoldFunctionOnSet

LEMMA EventsFinite ==
  ASSUME NEW E \in SUBSET Event
  PROVE  IsFiniteSet(E)
BY FiniteAssumption, FS_Subset

\* The sum of a set of payments, and of two that have none in common.
LEMMA AmountsUnion ==
  ASSUME NEW E \in SUBSET Event, NEW F \in SUBSET Event, E \cap F = {}
  PROVE  /\ SumFunctionOnSet(AmountOf, E) \in Nat
         /\ SumFunctionOnSet(AmountOf, E \cup F)
              = SumFunctionOnSet(AmountOf, E) + SumFunctionOnSet(AmountOf, F)
<1>1. AmountOf \in [Event -> Nat]
  BY EventAssumption
<1>2. IsFiniteSet(E) /\ IsFiniteSet(F)
  BY EventsFinite
<1>3. SumFunctionOnSet(AmountOf, E) \in Nat
  BY <1>1, <1>2, SumStep
<1>4. SumFunctionOnSet(AmountOf, E \cup F)
        = SumFunctionOnSet(AmountOf, E) + SumFunctionOnSet(AmountOf, F)
  BY <1>1, <1>2, SumUnion
<1> QED  BY <1>3, <1>4

\* A volume is a natural, additive on disjoint sets, and grows with the set.
LEMMA VolumeUnion ==
  ASSUME NEW E \in SUBSET Event, NEW F \in SUBSET Event, NEW m, E \cap F = {}
  PROVE  Volume(E, m) \in Nat /\ Volume(E \cup F, m) = Volume(E, m) + Volume(F, m)
<1> DEFINE Of(G) == {e \in G : MerchantOf[e] = m}
<1>1. \A G : Volume(G, m) = SumFunctionOnSet(AmountOf, Of(G))
  BY AmountsAsSum DEF Volume
<1>2. Of(E) \in SUBSET Event /\ Of(F) \in SUBSET Event /\ Of(E) \cap Of(F) = {}
      /\ Of(E \cup F) = Of(E) \cup Of(F)
  BY Zenon
<1>3. Volume(E, m) = SumFunctionOnSet(AmountOf, Of(E))
      /\ Volume(F, m) = SumFunctionOnSet(AmountOf, Of(F))
      /\ Volume(E \cup F, m) = SumFunctionOnSet(AmountOf, Of(E) \cup Of(F))
  BY <1>1, <1>2, Zenon
<1> HIDE DEF Of
<1>4. /\ SumFunctionOnSet(AmountOf, Of(E)) \in Nat
      /\ SumFunctionOnSet(AmountOf, Of(E) \cup Of(F))
           = SumFunctionOnSet(AmountOf, Of(E)) + SumFunctionOnSet(AmountOf, Of(F))
  BY <1>2, AmountsUnion, Zenon
<1> QED  BY <1>3, <1>4

LEMMA VolumeMono ==
  ASSUME NEW E \in SUBSET Event, NEW F \in SUBSET E, NEW m
  PROVE  Volume(F, m) \in Nat /\ Volume(E, m) \in Nat /\ Volume(F, m) <= Volume(E, m)
<1> DEFINE G == E \ F
<1>1. F \in SUBSET Event
  OBVIOUS
<1>2. G \in SUBSET Event
  OBVIOUS
<1>3. F \cap G = {} /\ G \cap F = {}
  OBVIOUS
<1>4. Volume(E, m) = Volume(F \cup G, m)
  <2>1. E = F \cup G
    OBVIOUS
  <2> QED  BY <2>1, Zenon
<1> HIDE DEF G
<1>5. Volume(F, m) \in Nat
  BY <1>1, <1>2, <1>3, VolumeUnion
<1>6. Volume(G, m) \in Nat
  BY <1>1, <1>2, <1>3, VolumeUnion
<1>7. Volume(F \cup G, m) = Volume(F, m) + Volume(G, m)
  BY <1>1, <1>2, <1>3, VolumeUnion
<1> QED  BY <1>4, <1>5, <1>6, <1>7

LEMMA VolumeOfNothing ==
  ASSUME NEW m
  PROVE  Volume({}, m) = 0
<1> DEFINE none == {e \in {} : MerchantOf[e] = m}
<1>1. Volume({}, m) = SumFunctionOnSet(AmountOf, none)
  BY AmountsAsSum DEF Volume
<1>2. none \in SUBSET Event /\ none = {} /\ AmountOf \in [Event -> Nat]
  BY EventAssumption
<1> HIDE DEF none
<1> QED  BY <1>1, <1>2, EventsFinite, SumStep

Total == SumFunctionOnSet(AmountOf, Event)

LEMMA VolumeBounded ==
  ASSUME NEW E \in SUBSET Event, NEW m
  PROVE  Volume(E, m) \in 0 .. Total
<1> DEFINE Of == {e \in E : MerchantOf[e] = m}
<1>1. Volume(E, m) = SumFunctionOnSet(AmountOf, Of)
  BY AmountsAsSum DEF Volume
<1> DEFINE Rest == Event \ Of
<1>2. Of \in SUBSET Event /\ Rest \in SUBSET Event /\ Of \cap Rest = {}
      /\ Rest \cap Of = {} /\ Event = Of \cup Rest
  BY Zenon
<1> HIDE DEF Of, Rest
<1>3. SumFunctionOnSet(AmountOf, Of) \in Nat /\ SumFunctionOnSet(AmountOf, Rest) \in Nat
  BY <1>2, AmountsUnion, Zenon
<1>4. Total = SumFunctionOnSet(AmountOf, Of) + SumFunctionOnSet(AmountOf, Rest)
  BY <1>2, AmountsUnion, Zenon DEF Total
<1> QED  BY <1>1, <1>3, <1>4

LEMMA CentsBound == Total \in Nat /\ Cents = 0 .. 2 * Total
<1>1. Event \in SUBSET Event /\ {} \in SUBSET Event /\ Event \cap {} = {}
  OBVIOUS
<1> QED  BY <1>1, AmountsUnion, AmountsAsSum DEF Total, Cents

\* What rollup_day holds, and the part of it that belongs to the month.
Stored(E) == {e \in E : BetweenBounds(e)}

LEMMA SplitEvents ==
  ASSUME NEW E \in SUBSET Event, NEW F \in SUBSET Event, E \cap F = {}
  PROVE  /\ PeriodEvents(E) \in SUBSET Stored(E) /\ Stored(E) \in SUBSET Event
         /\ PeriodEvents(E) \in SUBSET E /\ PeriodEvents(E) \in SUBSET Event
         /\ PeriodEvents(E) \cap PeriodEvents(F) = {} /\ Stored(E) \cap Stored(F) = {}
         /\ PeriodEvents(E \cup F) = PeriodEvents(E) \cup PeriodEvents(F)
         /\ Stored(E \cup F) = Stored(E) \cup Stored(F)
<1>1. \A e \in Event : InPeriod(e) => BetweenBounds(e)
  BY EventAssumption, PeriodAssumption DEF InPeriod, BetweenBounds
<1> QED  BY <1>1, Zenon DEF PeriodEvents, Stored

LEMMA DbVolumeIs ==
  ASSUME NEW E, NEW m \in Merchant
  PROVE  DbVolume(E)[m] = Volume(Stored(E), m)
BY Zenon DEF DbVolume, Stored

\* A batch adds as much to rollup_day as to what is sent to the board, and
\* more only for payments beyond the month.
LEMMA BatchAdds ==
  ASSUME NEW E \in SUBSET Event, NEW F \in SUBSET Event, E \cap F = {}, NEW m \in Merchant
  PROVE  /\ DbVolume(E)[m] \in Nat /\ Volume(PeriodEvents(E), m) \in Nat
         /\ Volume(PeriodEvents(F), m) \in Nat
         /\ Volume(PeriodEvents(E), m) <= DbVolume(E)[m]
         /\ DbVolume(E \cup F)[m] >= DbVolume(E)[m] + Volume(PeriodEvents(F), m)
         /\ Volume(PeriodEvents(E \cup F), m)
              = Volume(PeriodEvents(E), m) + Volume(PeriodEvents(F), m)
<1>1. F \cap E = {}
  OBVIOUS
<1>2. /\ PeriodEvents(E) \in SUBSET Stored(E) /\ Stored(E) \in SUBSET Event
      /\ PeriodEvents(E) \in SUBSET Event
      /\ PeriodEvents(F) \in SUBSET Stored(F) /\ Stored(F) \in SUBSET Event
      /\ PeriodEvents(F) \in SUBSET Event
      /\ PeriodEvents(E) \cap PeriodEvents(F) = {} /\ Stored(E) \cap Stored(F) = {}
  BY <1>1, SplitEvents
<1>3. /\ Volume(PeriodEvents(E), m) <= Volume(Stored(E), m)
      /\ Volume(PeriodEvents(F), m) <= Volume(Stored(F), m)
      /\ Volume(PeriodEvents(E), m) \in Nat /\ Volume(Stored(E), m) \in Nat
      /\ Volume(PeriodEvents(F), m) \in Nat /\ Volume(Stored(F), m) \in Nat
  BY <1>2, VolumeMono, Zenon
<1>4. Volume(Stored(E \cup F), m) = Volume(Stored(E), m) + Volume(Stored(F), m)
  <2>1. Stored(E) \in SUBSET Event /\ Stored(F) \in SUBSET Event
    BY <1>2
  <2>2. Stored(E) \cap Stored(F) = {}
    BY <1>2
  <2>3. Volume(Stored(E) \cup Stored(F), m) = Volume(Stored(E), m) + Volume(Stored(F), m)
    BY <2>1, <2>2, VolumeUnion
  <2> QED  BY SplitEvents, <2>3, Zenon
<1>5. Volume(PeriodEvents(E \cup F), m)
        = Volume(PeriodEvents(E), m) + Volume(PeriodEvents(F), m)
  <2>1. PeriodEvents(E) \in SUBSET Event /\ PeriodEvents(F) \in SUBSET Event
    BY <1>2
  <2>2. PeriodEvents(E) \cap PeriodEvents(F) = {}
    BY <1>2
  <2>3. Volume(PeriodEvents(E) \cup PeriodEvents(F), m)
          = Volume(PeriodEvents(E), m) + Volume(PeriodEvents(F), m)
    BY <2>1, <2>2, VolumeUnion
  <2> QED  BY SplitEvents, <2>3, Zenon
<1>6. DbVolume(E)[m] = Volume(Stored(E), m)
      /\ DbVolume(E \cup F)[m] = Volume(Stored(E \cup F), m)
  BY DbVolumeIs
<1> QED  BY <1>3, <1>4, <1>5, <1>6

LEMMA DbVolumeMono ==
  ASSUME NEW E \in SUBSET Event, NEW F \in SUBSET E, NEW m \in Merchant
  PROVE  /\ DbVolume(F)[m] \in 0 .. Total /\ DbVolume(E)[m] \in 0 .. Total
         /\ DbVolume(F)[m] <= DbVolume(E)[m]
<1>1. Stored(F) \in SUBSET Stored(E) /\ Stored(E) \in SUBSET Event /\ Stored(F) \in SUBSET Event
  BY DEF Stored
<1> QED  BY <1>1, VolumeMono, VolumeBounded, DbVolumeIs
-----------------------------------------------------------------------------
\* What the worker has still to send for a merchant.
Pending(m) == IF m \in pipe THEN Volume(PeriodEvents(batch), m) ELSE 0

\* With what is under way the board is ahead by one batch at most.
Ahead(m) ==
  \E E \in SUBSET PeriodEvents(rolled) :
    /\ Cardinality(E) <= BatchSize
    /\ score[m] + Pending(m) <= DbVolume(rolled)[m] + Volume(E, m)

\* What a request writes back is what rollup_day held once.
FromDb(r) ==
  pc[r] = "rebuild" =>
    /\ seen[r] \subseteq rolled
    /\ \A m \in Merchant : answer[r][m] <= DbVolume(seen[r])[m]

BoardInv ==
  /\ TypeOK /\ Cardinality(batch) <= BatchSize
  /\ \A m \in Merchant : Ahead(m)
  /\ \A r \in Reader : FromDb(r)

\* A request only rebuilds from rows, so the key stays until it is lost.
KeyStays ==
  \A r \in Reader :
    /\ pc[r] = "rebuild" => answer[r] # Nothing
    /\ keyLosses = 0 /\ pc[r] = "hit" => KeyExists
    /\ keyLosses = 0 /\ pc[r] = "served" => answer[r] # Nothing

\* The rows of a request are no larger than what they are taken from.
LEMMA RowsBounded ==
  ASSUME NEW V \in [Merchant -> Cents], NEW T
  PROVE  /\ RowsOf(T, V) \in [Merchant -> Cents]
         /\ \A m \in Merchant : RowsOf(T, V)[m] <= V[m]
<1>1. \A m \in Merchant : V[m] \in Nat
  BY CentsBound
<1>2. 0 \in Cents
  BY CentsBound
<1>3. RowsOf(T, V) = [m \in Merchant |-> IF m \in T THEN V[m] ELSE 0]
  BY DEF RowsOf
<1>4. RowsOf(T, V) \in [Merchant -> Cents]
  BY <1>2, <1>3
<1> QED  BY <1>1, <1>3, <1>4

\* The rows of a nonempty set of ranked merchants are not all 0.
LEMMA RowsOfSome ==
  ASSUME NEW V \in [Merchant -> Cents], NEW T \in SUBSET Ranked(V), T # {}
  PROVE  RowsOf(T, V) # Nothing
<1>1. PICK m \in T : TRUE
  OBVIOUS
<1>2. m \in Merchant /\ V[m] > 0
  BY <1>1 DEF Ranked
<1>3. RowsOf(T, V)[m] = V[m] /\ Nothing[m] = 0
  BY <1>1, <1>2 DEF RowsOf, Nothing
<1>4. V[m] # 0
  BY <1>2, CentsBound
<1> QED  BY <1>3, <1>4

LEMMA DbVolumeType ==
  ASSUME NEW E \in SUBSET Event
  PROVE  DbVolume(E) \in [Merchant -> Cents]
<1>1. \A m \in Merchant : DbVolume(E)[m] \in Cents
  BY DbVolumeMono, CentsBound
<1>2. DbVolume(E) = [m \in Merchant |-> DbVolume(E)[m]]
  BY DEF DbVolume
<1> QED  BY <1>1, <1>2, Zenon

\* The top of anything ranked is not empty.
LEMMA TopOfSome ==
  ASSUME NEW V \in [Merchant -> Cents], NEW n \in Nat \ {0}, NEW T, IsTop(T, n, V),
         Ranked(V) # {}
  PROVE  T # {}
<1> DEFINE c == Cardinality(Ranked(V))
<1>1. Ranked(V) \subseteq Merchant
  BY DEF Ranked
<1>2. IsFiniteSet(Ranked(V)) /\ c \in Nat /\ c # 0
  BY <1>1, FiniteAssumption, FS_Subset, FS_CardinalityType, FS_EmptySet
<1> HIDE DEF c
<1>3. Min({n, c}) \in {n, c}
  BY <1>2, PairFinite, MinMaxBound
<1>4. Cardinality(T) = Min({n, c})
  BY DEF IsTop, c
<1>5. Cardinality(T) # 0
  BY <1>2, <1>3, <1>4
<1> QED  BY <1>5, FS_EmptySet

\* The board stays at most one batch ahead when neither it nor what is under
\* way grows.
LEMMA AheadKept ==
  ASSUME TypeOK, NEW m \in Merchant, Ahead(m), rolled' = rolled,
         Pending(m) \in Nat, Pending(m)' \in Nat, score'[m] \in Nat,
         score'[m] + Pending(m)' <= score[m] + Pending(m)
  PROVE  Ahead(m)'
<1>1. PICK E \in SUBSET PeriodEvents(rolled) :
        /\ Cardinality(E) <= BatchSize
        /\ score[m] + Pending(m) <= DbVolume(rolled)[m] + Volume(E, m)
  BY DEF Ahead
<1>2. rolled \in SUBSET Event /\ E \in SUBSET Event
  BY EventAssumption DEF TypeOK, PeriodEvents
<1>3. DbVolume(rolled)[m] \in Nat /\ Volume(E, m) \in Nat
  BY <1>2, DbVolumeMono, VolumeMono, CentsBound
<1>4. score[m] \in Nat
  BY CentsBound DEF TypeOK
<1>5. score'[m] + Pending(m)' <= DbVolume(rolled)[m] + Volume(E, m)
  BY <1>1, <1>3, <1>4
<1> HIDE DEF Pending
<1> QED  BY <1>1, <1>5 DEF Ahead

LEMMA PendingType ==
  ASSUME TypeOK, NEW m
  PROVE  Pending(m) \in Nat /\ Volume(PeriodEvents(batch), m) \in Nat
<1>1. batch \in SUBSET Event /\ PeriodEvents(batch) \in SUBSET Event
  BY DEF TypeOK, PeriodEvents
<1> QED  BY <1>1, VolumeMono DEF Pending

\* A board that is ahead by a batch at most is within Cents.
LEMMA AheadBounded ==
  ASSUME TypeOK, NEW m \in Merchant, Ahead(m)
  PROVE  score[m] + Pending(m) \in Cents
<1>1. PICK E \in SUBSET PeriodEvents(rolled) :
        score[m] + Pending(m) <= DbVolume(rolled)[m] + Volume(E, m)
  BY DEF Ahead
<1>2. rolled \in SUBSET Event /\ E \in SUBSET Event
  BY DEF TypeOK, PeriodEvents
<1>3. DbVolume(rolled)[m] \in 0 .. Total /\ Volume(E, m) \in 0 .. Total
  BY <1>2, DbVolumeMono, VolumeBounded
<1>4. score[m] \in Nat /\ Pending(m) \in Nat
  BY CentsBound, PendingType DEF TypeOK
<1> QED  BY <1>1, <1>3, <1>4, CentsBound

LEMMA CommitKeepsBoard ==
  ASSUME BoardInv, NEW E \in SUBSET Event, CommitBatch(E)
  PROVE  BoardInv'
<1> USE DEF BoardInv
<1>1. /\ batch = {} /\ E \cap rolled = {} /\ rolled' = rolled \cup E /\ batch' = E
      /\ pipe' = MerchantsOf(PeriodEvents(E)) /\ UNCHANGED <<score, reading, missing, losses>>
      /\ Cardinality(E) <= BatchSize
  BY DEF CommitBatch
<1>2. pipe = {} /\ rolled \in SUBSET Event
  BY <1>1 DEF TypeOK, MerchantsOf
<1>3. TypeOK'
  <2>1. pipe' \in SUBSET MerchantsOf(batch')
    BY <1>1 DEF MerchantsOf, PeriodEvents
  <2> QED  BY <1>1, <2>1 DEF TypeOK, reading, losses
<1>4. ASSUME NEW m \in Merchant PROVE Ahead(m)'
  <2>1. PICK F \in SUBSET PeriodEvents(rolled) :
          /\ Cardinality(F) <= BatchSize
          /\ score[m] + Pending(m) <= DbVolume(rolled)[m] + Volume(F, m)
    BY DEF Ahead
  <2>2. F \in SUBSET PeriodEvents(rolled') /\ F \in SUBSET Event
    BY <1>1, <1>2 DEF PeriodEvents
  <2>3. Pending(m) = 0
    BY <1>2 DEF Pending
  <2>4. Volume(PeriodEvents(E), m) \in Nat
    BY <1>3, PendingType, VolumeMono DEF PeriodEvents
  <2>5. Pending(m)' \in Nat /\ Pending(m)' <= Volume(PeriodEvents(E), m)
    BY <1>1, <2>4 DEF Pending
  <2>6. rolled \cap E = {}
    BY <1>1
  <2>7. /\ DbVolume(rolled)[m] \in Nat
        /\ DbVolume(rolled \cup E)[m] >= DbVolume(rolled)[m] + Volume(PeriodEvents(E), m)
    BY <1>2, <2>6, BatchAdds
  <2>8. DbVolume(rolled')[m] \in Nat /\ Volume(F, m) \in Nat /\ score[m] \in Nat
    <3>1. rolled' \in SUBSET Event /\ score[m] \in Nat
      BY <1>1, <1>2, CentsBound DEF TypeOK
    <3> QED  BY <2>2, <3>1, DbVolumeMono, VolumeMono, CentsBound
  <2>9. DbVolume(rolled')[m] >= DbVolume(rolled)[m] + Volume(PeriodEvents(E), m)
    BY <1>1, <2>7
  <2>10. score'[m] + Pending(m)' <= DbVolume(rolled')[m] + Volume(F, m)
    BY <1>1, <2>1, <2>3, <2>4, <2>5, <2>7, <2>8, <2>9
  <2> HIDE DEF Pending
  <2> QED  BY <2>1, <2>2, <2>10 DEF Ahead
<1>5. ASSUME NEW r \in Reader PROVE FromDb(r)'
  BY <1>1 DEF FromDb, reading
<1> QED  BY <1>1, <1>3, <1>4, <1>5

LEMMA IncrementKeepsBoard ==
  ASSUME BoardInv, NEW m \in Merchant, Increment(m)
  PROVE  BoardInv'
<1> USE DEF BoardInv
<1>1. /\ m \in pipe /\ pipe' = pipe \ {m} /\ UNCHANGED <<rolled, batch, reading, missing, losses>>
      /\ score' = [score EXCEPT ![m] = @ + Volume(PeriodEvents(batch), m)]
  BY DEF Increment
<1>2. Pending(m) = Volume(PeriodEvents(batch), m) /\ Pending(m)' = 0
      /\ score'[m] = score[m] + Pending(m)
  BY <1>1 DEF Pending, TypeOK
<1>3. \A k \in Merchant \ {m} : Pending(k)' = Pending(k) /\ score'[k] = score[k]
  BY <1>1 DEF Pending, TypeOK
<1>4. \A k \in Merchant : score[k] \in Nat /\ Pending(k) \in Nat
  BY PendingType, CentsBound DEF TypeOK
<1>5. score[m] + Pending(m) \in Cents
  BY AheadBounded
<1> HIDE DEF Pending
<1>6. TypeOK'
  <2>1. score' \in [Merchant -> Cents]
    BY <1>1, <1>2, <1>5 DEF TypeOK
  <2> QED  BY <1>1, <2>1 DEF TypeOK, reading, losses
<1>7. ASSUME NEW k \in Merchant PROVE Ahead(k)'
  <2>1. CASE k = m
    <3>1. Pending(k)' \in Nat /\ score'[k] \in Nat
          /\ score'[k] + Pending(k)' <= score[k] + Pending(k)
      BY <1>2, <1>4, <2>1
    <3> QED  BY <1>1, <1>4, <3>1, AheadKept
  <2>2. CASE k # m
    <3>1. Pending(k)' \in Nat /\ score'[k] \in Nat
          /\ score'[k] + Pending(k)' <= score[k] + Pending(k)
      BY <1>3, <1>4, <2>2
    <3> QED  BY <1>1, <1>4, <3>1, AheadKept
  <2> QED  BY <2>1, <2>2
<1>8. ASSUME NEW r \in Reader PROVE FromDb(r)'
  BY <1>1 DEF FromDb, reading
<1> QED  BY <1>1, <1>6, <1>7, <1>8

\* What is under way ends, or the key is lost.
LEMMA LossKeepsBoard ==
  ASSUME BoardInv, FinishBatch \/ LoseIncrements \/ LoseKey
  PROVE  BoardInv'
<1> USE DEF BoardInv
<1>1. UNCHANGED <<rolled, reading>>
  BY DEF FinishBatch, LoseIncrements, LoseKey
<1>2. \/ batch' = {} /\ pipe' = {} /\ score' = score
      \/ UNCHANGED <<batch, pipe>> /\ score' = Nothing
  BY DEF FinishBatch, LoseIncrements, LoseKey
<1>3. keyLosses' \in 0 .. MaxKeyLosses /\ pipeLosses' \in 0 .. MaxPipeLosses /\ missing' \in SUBSET rolled
  <2>1. missing' \in {missing, missing \cup UnderWay, PeriodEvents(rolled) \ UnderWay}
    BY DEF FinishBatch, LoseIncrements, LoseKey
  <2>2. missing' \in SUBSET rolled
    BY <2>1 DEF TypeOK, UnderWay, PeriodEvents
  <2>3. \/ UNCHANGED <<keyLosses, pipeLosses>>
        \/ pipeLosses < MaxPipeLosses /\ pipeLosses' = pipeLosses + 1 /\ UNCHANGED keyLosses
        \/ keyLosses < MaxKeyLosses /\ keyLosses' = keyLosses + 1 /\ UNCHANGED pipeLosses
    BY DEF FinishBatch, LoseIncrements, LoseKey, losses
  <2>4. keyLosses' \in 0 .. MaxKeyLosses /\ pipeLosses' \in 0 .. MaxPipeLosses
    BY <2>3, LossAssumption DEF TypeOK
  <2> QED  BY <2>2, <2>4
<1>4. Nothing \in [Merchant -> Cents]
  BY CentsBound DEF Nothing
<1>5. TypeOK'
  <2>1. score' \in [Merchant -> Cents]
    BY <1>2, <1>4 DEF TypeOK
  <2>2. batch' \in SUBSET rolled' /\ pipe' \in SUBSET MerchantsOf(batch')
    BY <1>1, <1>2 DEF TypeOK
  <2> QED  BY <1>1, <1>3, <2>1, <2>2 DEF TypeOK, reading
<1>6. ASSUME NEW m \in Merchant PROVE Ahead(m)'
  <2>1. score[m] \in Nat /\ Pending(m) \in Nat /\ score'[m] \in Nat /\ Pending(m)' \in Nat
    BY <1>5, PendingType, CentsBound, <1>1, <1>2 DEF TypeOK, Pending
  <2>2. score'[m] <= score[m] /\ Pending(m)' <= Pending(m)
    BY <1>2, <2>1 DEF Pending, Nothing
  <2>3. score'[m] + Pending(m)' <= score[m] + Pending(m)
    BY <2>1, <2>2
  <2> QED  BY <1>1, <2>1, <2>3, AheadKept
<1>7. Cardinality(batch') <= BatchSize
  BY <1>2, FS_EmptySet, LimitAssumption
<1>8. ASSUME NEW r \in Reader PROVE FromDb(r)'
  BY <1>1 DEF FromDb, reading
<1> QED  BY <1>5, <1>6, <1>7, <1>8

\* A rebuild counts at most the batch under way a second time.
LEMMA RebuildKeepsBoard ==
  ASSUME BoardInv, NEW r \in Reader, Rebuild(r)
  PROVE  BoardInv'
<1> USE DEF BoardInv
<1>1. /\ pc[r] = "rebuild" /\ score' = answer[r] /\ pc' = [pc EXCEPT ![r] = "answered"]
      /\ UNCHANGED <<rolled, batch, pipe, seen, answer, losses>>
      /\ missing' = LeftOut(r) \ UnderWay
  BY DEF Rebuild
<1>2. TypeOK'
  <2>1. missing' \in SUBSET rolled'
    BY <1>1 DEF LeftOut, PeriodEvents
  <2> QED  BY <1>1, <2>1 DEF TypeOK, losses
<1>3. rolled \in SUBSET Event /\ batch \in SUBSET rolled /\ seen[r] \in SUBSET rolled
  BY <1>1 DEF TypeOK, FromDb
<1>4. ASSUME NEW m \in Merchant PROVE Ahead(m)'
  <2> DEFINE F == PeriodEvents(batch)
  <2>1. F \in SUBSET PeriodEvents(rolled) /\ F \in SUBSET batch
    BY <1>3 DEF PeriodEvents
  <2>2. IsFiniteSet(batch)
    BY <1>3, EventsFinite
  <2>3. Cardinality(F) <= BatchSize
    BY <2>1, <2>2, FS_Subset, FS_CardinalityType, LimitAssumption
  <2>4. Pending(m)' = Pending(m) /\ Pending(m) <= Volume(F, m)
        /\ Pending(m) \in Nat /\ Volume(F, m) \in Nat
    BY <1>1, PendingType DEF Pending
  <2>5. DbVolume(seen[r])[m] \in Nat /\ DbVolume(rolled)[m] \in Nat
        /\ DbVolume(seen[r])[m] <= DbVolume(rolled)[m]
    BY <1>3, DbVolumeMono, CentsBound
  <2>6. score'[m] \in Nat /\ score'[m] <= DbVolume(seen[r])[m]
    BY <1>1, CentsBound DEF TypeOK, FromDb
  <2> HIDE DEF F, Pending
  <2>7. score'[m] + Pending(m)' <= DbVolume(rolled)[m] + Volume(F, m)
    BY <2>4, <2>5, <2>6
  <2>8. rolled' = rolled
    BY <1>1
  <2> QED  BY <2>1, <2>3, <2>7, <2>8 DEF Ahead
<1>5. ASSUME NEW q \in Reader PROVE FromDb(q)'
  <2>1. pc'[q] = "rebuild" => pc[q] = "rebuild"
    BY <1>1 DEF TypeOK
  <2>2. seen'[q] = seen[q] /\ answer'[q] = answer[q] /\ rolled' = rolled
    BY <1>1
  <2> QED  BY <2>1, <2>2 DEF FromDb
<1> QED  BY <1>1, <1>2, <1>4, <1>5

\* The steps of a request that only read.
LEMMA ReadKeepsBoard ==
  ASSUME BoardInv, NEW r \in Reader, CheckKey(r) \/ ReadTop(r) \/ QueryDay(r)
  PROVE  BoardInv'
<1> USE DEF BoardInv
<1>1. UNCHANGED <<rolled, batch, pipe, score, missing, losses>>
  BY DEF CheckKey, ReadTop, QueryDay
<1>2. \A m \in Merchant : Ahead(m)'
  BY <1>1 DEF Ahead, Pending
<1>3. \/ /\ UNCHANGED <<seen, answer>>
         /\ pc' = [pc EXCEPT ![r] = IF KeyExists THEN "hit" ELSE "miss"]
      \/ /\ UNCHANGED seen /\ pc' = [pc EXCEPT ![r] = "served"]
         /\ \E T \in SUBSET Merchant : answer' = [answer EXCEPT ![r] = RowsOf(T, score)]
      \/ /\ seen' = [seen EXCEPT ![r] = rolled]
         /\ \E T \in SUBSET Merchant :
              /\ answer' = [answer EXCEPT ![r] = RowsOf(T, DbVolume(rolled))]
              /\ pc' = [pc EXCEPT ![r] = IF T = {} THEN "answered" ELSE "rebuild"]
  BY DEF CheckKey, ReadTop, QueryDay
<1>4. rolled \in SUBSET Event /\ rolled \in SUBSET rolled
  BY DEF TypeOK
<1>5. \A T : /\ RowsOf(T, score) \in [Merchant -> Cents]
             /\ RowsOf(T, DbVolume(rolled)) \in [Merchant -> Cents]
             /\ \A m \in Merchant : RowsOf(T, DbVolume(rolled))[m] <= DbVolume(rolled)[m]
  BY <1>4, RowsBounded, DbVolumeType DEF TypeOK
<1>6. answer' \in [Reader -> [Merchant -> Cents]] /\ seen' \in [Reader -> SUBSET Event]
  <2>1. answer \in [Reader -> [Merchant -> Cents]] /\ seen \in [Reader -> SUBSET Event]
    BY Zenon DEF TypeOK
  <2>2. seen' = seen \/ seen' = [seen EXCEPT ![r] = rolled]
    BY <1>3, Zenon
  <2>3. answer' = answer \/ \E V \in [Merchant -> Cents] : answer' = [answer EXCEPT ![r] = V]
    BY <1>3, <1>5, Zenon
  <2>4. seen' \in [Reader -> SUBSET Event]
    BY <1>4, <2>1, <2>2
  <2>5. answer' \in [Reader -> [Merchant -> Cents]]
    BY <2>1, <2>3, Zenon
  <2> QED  BY <2>4, <2>5
<1>7. pc' \in [Reader -> {"idle", "hit", "miss", "rebuild", "served", "answered"}]
  BY <1>3 DEF TypeOK
<1>8. TypeOK'
  BY <1>1, <1>6, <1>7, Zenon DEF TypeOK, losses
<1>9. FromDb(r)'
  <2>1. CASE pc'[r] # "rebuild"
    BY <2>1 DEF FromDb
  <2>2. CASE pc'[r] = "rebuild"
    <3>1. PICK T \in SUBSET Merchant :
            /\ seen' = [seen EXCEPT ![r] = rolled]
            /\ answer' = [answer EXCEPT ![r] = RowsOf(T, DbVolume(rolled))]
      BY <1>3, <2>2 DEF TypeOK
    <3>2. seen'[r] = rolled /\ answer'[r] = RowsOf(T, DbVolume(rolled)) /\ rolled' = rolled
      BY <1>1, <3>1 DEF TypeOK
    <3> QED  BY <1>5, <3>2 DEF FromDb
  <2> QED  BY <2>1, <2>2
<1>10. ASSUME NEW q \in Reader, q # r PROVE FromDb(q)'
  <2>1. pc'[q] = pc[q] /\ seen'[q] = seen[q] /\ answer'[q] = answer[q] /\ rolled' = rolled
    BY <1>1, <1>3, <1>10 DEF TypeOK
  <2> QED  BY <2>1 DEF FromDb
<1> QED  BY <1>1, <1>2, <1>8, <1>9, <1>10

LEMMA InitBoard == Init => BoardInv
<1> SUFFICES ASSUME Init PROVE BoardInv
  OBVIOUS
<1>1. /\ rolled = {} /\ batch = {} /\ pipe = {} /\ score = Nothing
      /\ pc = [r \in Reader |-> "idle"]
  BY DEF Init
<1>2. Nothing \in [Merchant -> Cents]
  BY CentsBound DEF Nothing
<1>3. TypeOK
  <2>1. missing \in SUBSET rolled
    BY DEF Init
  <2>2. pipe \in SUBSET MerchantsOf(batch) /\ batch \in SUBSET rolled /\ rolled \in SUBSET Event
    BY <1>1
  <2>3. keyLosses \in 0 .. MaxKeyLosses /\ pipeLosses \in 0 .. MaxPipeLosses
    BY LossAssumption DEF Init
  <2>4. /\ pc \in [Reader -> {"idle", "hit", "miss", "rebuild", "served", "answered"}]
        /\ seen \in [Reader -> SUBSET Event] /\ answer \in [Reader -> [Merchant -> Cents]]
    BY <1>2 DEF Init
  <2> QED  BY <1>1, <1>2, <2>1, <2>2, <2>3, <2>4, Zenon DEF TypeOK
<1>4. Cardinality({}) = 0
  BY FS_EmptySet
<1>5. ASSUME NEW m \in Merchant PROVE Ahead(m)
  <2>1. score[m] + Pending(m) = 0
    BY <1>1 DEF Pending, Nothing
  <2>2. {} \in SUBSET PeriodEvents(rolled) /\ rolled \in SUBSET Event
        /\ rolled \in SUBSET rolled
    BY <1>1
  <2>3. DbVolume(rolled)[m] \in Nat
    BY <2>2, DbVolumeMono, CentsBound
  <2>4. score[m] + Pending(m) <= DbVolume(rolled)[m] + Volume({}, m)
    BY <2>1, <2>3, VolumeOfNothing
  <2> QED  BY <1>4, <2>2, <2>4, LimitAssumption DEF Ahead
<1>6. \A r \in Reader : FromDb(r)
  BY <1>1 DEF FromDb
<1> QED  BY <1>1, <1>3, <1>4, <1>5, <1>6, LimitAssumption DEF BoardInv

LEMMA StepBoard ==
  ASSUME BoardInv, [Next]_vars
  PROVE  BoardInv'
<1>1. CASE UNCHANGED vars
  BY <1>1, Zenon DEF vars, reading, losses, BoardInv, TypeOK, Ahead, Pending, FromDb
<1> QED
  BY <1>1, CommitKeepsBoard, IncrementKeepsBoard, LossKeepsBoard, RebuildKeepsBoard,
     ReadKeepsBoard DEF Next, Worker, Request

(***************************************************************************)
(* The inductive invariant: the types, and that the board with what is     *)
(* under way is ahead of rollup_day by one batch at most.                  *)
(***************************************************************************)
THEOREM BoardInductive == Spec => []BoardInv
  BY InitBoard, StepBoard, PTL DEF Spec

(***************************************************************************)
(* Every state has its type; the scores never exceed twice what all the    *)
(* payments amount to.                                                     *)
(***************************************************************************)
THEOREM BoardTypeCorrect == Spec => []TypeOK
<1>1. BoardInv => TypeOK
  BY DEF BoardInv
<1> QED
  BY <1>1, BoardInductive, PTL

(***************************************************************************)
(* However many requests rebuild the board while increments are sent, a    *)
(* score exceeds what rollup_day holds by one batch of the merchant at     *)
(* most (get_leaderboard against _update_leaderboard).                     *)
(***************************************************************************)
THEOREM OneBatchAhead == Spec => []OvershootBounded
<1>1. ASSUME BoardInv, NEW m \in Merchant
      PROVE  \E E \in SUBSET PeriodEvents(rolled) :
               Cardinality(E) <= BatchSize /\ score[m] <= DbVolume(rolled)[m] + Volume(E, m)
  <2> USE DEF BoardInv
  <2>1. PICK E \in SUBSET PeriodEvents(rolled) :
          /\ Cardinality(E) <= BatchSize
          /\ score[m] + Pending(m) <= DbVolume(rolled)[m] + Volume(E, m)
    BY <1>1 DEF Ahead
  <2>2. rolled \in SUBSET Event /\ E \in SUBSET Event
    BY <1>1 DEF TypeOK, PeriodEvents
  <2>3. DbVolume(rolled)[m] \in Nat /\ Volume(E, m) \in Nat
    BY <2>2, DbVolumeMono, VolumeMono, CentsBound
  <2>4. score[m] \in Nat /\ Pending(m) \in Nat
    BY <1>1, CentsBound, PendingType DEF TypeOK
  <2>5. score[m] <= DbVolume(rolled)[m] + Volume(E, m)
    BY <2>1, <2>3, <2>4
  <2> QED  BY <2>1, <2>5
<1>2. BoardInv => OvershootBounded
  BY <1>1 DEF OvershootBounded
<1> QED
  BY <1>2, BoardInductive, PTL
-----------------------------------------------------------------------------
\* A board with a volume is a key, and scores that only grow keep it.
LEMMA VolumeIsKey ==
  ASSUME NEW V \in [Merchant -> Cents], V # Nothing
  PROVE  Ranked(V) # {}
<1>1. PICK m \in Merchant : V[m] # 0
  BY DEF Nothing
<1>2. V[m] > 0
  BY <1>1, CentsBound
<1>3. m \in Ranked(V)
  BY <1>2 DEF Ranked
<1> QED  BY <1>3

LEMMA KeyKept ==
  ASSUME TypeOK, TypeOK', \A m \in Merchant : score'[m] >= score[m], KeyExists
  PROVE  KeyExists'
<1>1. PICK m : m \in Merchant /\ score[m] > 0
  BY DEF KeyExists, Ranked, TypeOK
<1>2. score'[m] > 0
  <2>1. score[m] \in Nat /\ score'[m] \in Nat /\ score'[m] >= score[m]
    BY <1>1, CentsBound DEF TypeOK
  <2> QED  BY <1>1, <2>1
<1>3. m \in Ranked(score')
  BY <1>1, <1>2 DEF Ranked, TypeOK
<1>4. Ranked(score)' = Ranked(score')
  BY DEF Ranked
<1> QED  BY <1>3, <1>4 DEF KeyExists

LEMMA StepKeyStays ==
  ASSUME BoardInv, BoardInv', KeyStays, [Next]_vars
  PROVE  KeyStays'
<1> USE DEF BoardInv, KeyStays
<1>1. CASE UNCHANGED <<score, reading>> /\ keyLosses' = keyLosses
  BY <1>1, Zenon DEF reading, KeyExists, Ranked
<1>2. ASSUME NEW m \in Merchant, Increment(m) PROVE KeyStays'
  <2>1. ASSUME NEW k \in Merchant PROVE score'[k] >= score[k]
    <3>1. score' = [score EXCEPT ![m] = score[m] + Volume(PeriodEvents(batch), m)]
      BY <1>2 DEF Increment
    <3>2. score[k] \in Nat /\ score[m] \in Nat /\ Volume(PeriodEvents(batch), m) \in Nat
      BY PendingType, CentsBound DEF TypeOK
    <3>3. score'[k] = IF k = m THEN score[m] + Volume(PeriodEvents(batch), m) ELSE score[k]
      BY <3>1 DEF TypeOK
    <3> QED  BY <3>2, <3>3
  <2>2. KeyExists => KeyExists'
    BY <2>1, KeyKept
  <2>3. UNCHANGED <<pc, answer, keyLosses>>
    BY <1>2 DEF Increment, reading, losses
  <2> HIDE DEF BoardInv
  <2> QED  BY <2>2, <2>3
<1>3. CASE LoseKey
  <2>1. keyLosses' = keyLosses + 1 /\ UNCHANGED reading /\ keyLosses \in Nat
    BY <1>3 DEF LoseKey, TypeOK
  <2>2. keyLosses' # 0
    BY <2>1
  <2> QED  BY <2>1, <2>2 DEF reading
<1>4. ASSUME NEW r \in Reader, CheckKey(r) PROVE KeyStays'
  <2>1. /\ UNCHANGED <<score, answer, keyLosses>>
        /\ pc' = [pc EXCEPT ![r] = IF KeyExists THEN "hit" ELSE "miss"]
    BY <1>4 DEF CheckKey, losses
  <2>2. KeyExists' = KeyExists
    BY <2>1 DEF KeyExists, Ranked
  <2>3. \A q \in Reader : pc'[q] = IF q = r THEN IF KeyExists THEN "hit" ELSE "miss" ELSE pc[q]
    BY <2>1 DEF TypeOK
  <2> QED  BY <2>1, <2>2, <2>3
<1>5. ASSUME NEW r \in Reader, ReadTop(r) PROVE KeyStays'
  <2>1. PICK T \in SUBSET Merchant :
          /\ IsTop(T, TopOf[r], score) /\ answer' = [answer EXCEPT ![r] = RowsOf(T, score)]
    BY <1>5 DEF ReadTop
  <2>2. /\ pc[r] = "hit" /\ pc' = [pc EXCEPT ![r] = "served"]
        /\ UNCHANGED <<score, keyLosses>>
    BY <1>5 DEF ReadTop, losses
  <2>3. keyLosses = 0 => answer'[r] # Nothing
    <3>1. SUFFICES ASSUME keyLosses = 0 PROVE RowsOf(T, score) # Nothing
      BY <2>1 DEF TypeOK
    <3>2. Ranked(score) # {} /\ score \in [Merchant -> Cents] /\ TopOf[r] \in Nat \ {0}
      BY <2>2, <3>1, LimitAssumption DEF KeyExists, TypeOK
    <3>3. T # {}
      BY <2>1, <3>2, TopOfSome
    <3>4. T \in SUBSET Ranked(score)
      BY <2>1 DEF IsTop
    <3> QED  BY <3>2, <3>3, <3>4, RowsOfSome
  <2>4. KeyExists' = KeyExists /\ pc'[r] = "served"
    BY <2>2 DEF KeyExists, Ranked, TypeOK
  <2>5. \A q \in Reader \ {r} : pc'[q] = pc[q] /\ answer'[q] = answer[q]
    BY <2>1, <2>2 DEF TypeOK
  <2> HIDE DEF BoardInv
  <2> QED  BY <2>2, <2>3, <2>4, <2>5
<1>6. ASSUME NEW r \in Reader, QueryDay(r) PROVE KeyStays'
  <2>1. PICK T \in SUBSET Merchant :
          /\ IsTop(T, TopOf[r], DbVolume(rolled))
          /\ answer' = [answer EXCEPT ![r] = RowsOf(T, DbVolume(rolled))]
          /\ pc' = [pc EXCEPT ![r] = IF T = {} THEN "answered" ELSE "rebuild"]
    BY <1>6 DEF QueryDay
  <2>2. UNCHANGED <<score, keyLosses>>
    BY <1>6 DEF QueryDay, losses
  <2>3. pc'[r] = "rebuild" => answer'[r] # Nothing
    <3>1. SUFFICES ASSUME T # {} PROVE RowsOf(T, DbVolume(rolled)) # Nothing
      BY <2>1 DEF TypeOK
    <3>2. DbVolume(rolled) \in [Merchant -> Cents]
      BY DbVolumeType DEF TypeOK
    <3>3. T \in SUBSET Ranked(DbVolume(rolled))
      BY <2>1 DEF IsTop
    <3> QED  BY <3>1, <3>2, <3>3, RowsOfSome
  <2>4. KeyExists' = KeyExists /\ pc'[r] \in {"answered", "rebuild"}
    BY <2>1, <2>2 DEF KeyExists, Ranked, TypeOK
  <2>5. \A q \in Reader \ {r} : pc'[q] = pc[q] /\ answer'[q] = answer[q]
    BY <2>1 DEF TypeOK
  <2> HIDE DEF BoardInv
  <2> QED  BY <2>2, <2>3, <2>4, <2>5
<1>7. ASSUME NEW r \in Reader, Rebuild(r) PROVE KeyStays'
  <2>1. /\ pc[r] = "rebuild" /\ pc' = [pc EXCEPT ![r] = "answered"]
        /\ score' = answer[r] /\ UNCHANGED <<answer, keyLosses>>
    BY <1>7 DEF Rebuild, losses
  <2>2. KeyExists'
    <3>1. score' # Nothing /\ score' \in [Merchant -> Cents]
      BY <2>1 DEF TypeOK
    <3> QED  BY <3>1, VolumeIsKey DEF KeyExists
  <2>3. \A q \in Reader : pc'[q] = IF q = r THEN "answered" ELSE pc[q]
    BY <2>1 DEF TypeOK
  <2> HIDE DEF BoardInv
  <2> QED  BY <2>1, <2>2, <2>3
<1>8. ASSUME NEW E, CommitBatch(E)
      PROVE  UNCHANGED <<score, reading>> /\ keyLosses' = keyLosses
  BY <1>8 DEF CommitBatch, losses
<1>9. ASSUME FinishBatch \/ LoseIncrements
      PROVE  UNCHANGED <<score, reading>> /\ keyLosses' = keyLosses
  BY <1>9 DEF FinishBatch, LoseIncrements, losses
<1>10. CASE UNCHANGED vars
  BY <1>1, <1>10 DEF vars, losses
<1> QED
  BY <1>1, <1>2, <1>3, <1>4, <1>5, <1>6, <1>7, <1>8, <1>9, <1>10 DEF Next, Worker, Request

(***************************************************************************)
(* A request that found the key has members to answer from, unless the key *)
(* was lost: no rebuild takes the board away (leaderboard_rebuild deletes  *)
(* and adds in one MULTI, and only with rows).                             *)
(***************************************************************************)
THEOREM RebuildsKeepTheBoard == Spec => []EmptyOnlyAfterLoss
<1>1. Init => KeyStays
  BY DEF Init, KeyStays
<1>2. TypeOK /\ KeyStays => EmptyOnlyAfterLoss
  <2> SUFFICES ASSUME TypeOK, KeyStays, NEW r \in Reader, pc[r] = "served", answer[r] = Nothing
               PROVE  keyLosses > 0
    BY DEF EmptyOnlyAfterLoss
  <2>1. keyLosses # 0 /\ keyLosses \in Nat
    BY DEF KeyStays, TypeOK
  <2> QED  BY <2>1
<1>3. BoardInv => TypeOK
  BY DEF BoardInv
<1> QED
  BY <1>1, <1>2, <1>3, BoardInductive, StepKeyStays, PTL DEF Spec
-----------------------------------------------------------------------------
\* The volume under way is what the worker has still to send.
LEMMA UnderWayIsPending ==
  ASSUME TypeOK, NEW m
  PROVE  /\ UnderWay \in SUBSET PeriodEvents(batch) /\ UnderWay \in SUBSET Event
         /\ Volume(UnderWay, m) = Pending(m) /\ Pending(m) \in Nat
<1>1. UnderWay \in SUBSET PeriodEvents(batch) /\ UnderWay \in SUBSET Event
  BY DEF UnderWay, PeriodEvents, TypeOK
<1>2. Pending(m) \in Nat
  BY PendingType
<1>3. \A E, F : {e \in E : MerchantOf[e] = m} = {e \in F : MerchantOf[e] = m}
                  => Volume(E, m) = Volume(F, m)
  BY AmountsAsSum DEF Volume
<1>4. CASE m \in pipe
  <2>1. {e \in UnderWay : MerchantOf[e] = m} = {e \in PeriodEvents(batch) : MerchantOf[e] = m}
    BY <1>4 DEF UnderWay
  <2>2. Volume(UnderWay, m) = Volume(PeriodEvents(batch), m)
    BY <1>3, <2>1
  <2> QED  BY <1>1, <1>2, <1>4, <2>2 DEF Pending
<1>5. CASE m \notin pipe
  <2>1. {e \in UnderWay : MerchantOf[e] = m} = {e \in {} : MerchantOf[e] = m}
    BY <1>5 DEF UnderWay
  <2>2. Volume(UnderWay, m) = Volume({}, m)
    BY <1>3, <2>1
  <2> QED  BY <1>1, <1>2, <1>5, <2>2, VolumeOfNothing DEF Pending
<1> QED  BY <1>4, <1>5

\* A volume is of the payments of the merchant only.
LEMMA VolumeOfOthers ==
  ASSUME NEW E, NEW m, \A e \in E : MerchantOf[e] # m
  PROVE  Volume(E, m) = 0
<1>1. {e \in E : MerchantOf[e] = m} = {e \in {} : MerchantOf[e] = m}
  OBVIOUS
<1>2. Volume(E, m) = Volume({}, m)
  BY <1>1, AmountsAsSum DEF Volume
<1> QED  BY <1>2, VolumeOfNothing

\* A set within two others has at most the volume of both.
LEMMA VolumeCovered ==
  ASSUME NEW E \in SUBSET Event, NEW F \in SUBSET Event, E \cap F = {}, NEW m,
         NEW G \in SUBSET (E \cup F)
  PROVE  /\ Volume(G, m) <= Volume(E, m) + Volume(F, m)
         /\ Volume(G, m) \in Nat /\ Volume(E, m) \in Nat
<1>1. (E \cup F) \in SUBSET Event
  OBVIOUS
<1>2. Volume(G, m) \in Nat /\ Volume(G, m) <= Volume(E \cup F, m)
  BY <1>1, VolumeMono
<1>3. Volume(E \cup F, m) = Volume(E, m) + Volume(F, m) /\ Volume(E, m) \in Nat
  BY VolumeUnion
<1> QED  BY <1>2, <1>3

\* The payments the board must hold, with those under way.
Due == PeriodEvents(rolled) \ missing

\* What a rebuild writes for a merchant is all that its query saw, or nothing.
Lists(r) ==
  pc[r] = "rebuild" =>
    \A m \in Merchant : answer[r][m] = 0 \/ answer[r][m] = DbVolume(seen[r])[m]

\* The strengthening: no payment is both missing and under way, so increments
\* that are lost make exactly their own payments missing.
DueInv ==
  /\ \A r \in Reader : Lists(r)
  /\ missing \cap UnderWay = {}
  /\ \A m \in Merchant : Volume(Due, m) <= score[m] + Pending(m)

LEMMA DueIs ==
  ASSUME TypeOK
  PROVE  /\ Due \in SUBSET PeriodEvents(rolled) /\ Due \in SUBSET Event
         /\ LacksOnlyMissing <=> \A m \in Merchant : Volume(Due, m) <= score[m] + Pending(m)
<1>1. Due \in SUBSET PeriodEvents(rolled) /\ Due \in SUBSET Event
  BY DEF Due, PeriodEvents, TypeOK
<1> QED  BY <1>1, UnderWayIsPending DEF LacksOnlyMissing, Due

LEMMA StepLists ==
  ASSUME TypeOK, \A r \in Reader : Lists(r), [Next]_vars
  PROVE  \A r \in Reader : Lists(r)'
<1> USE DEF Lists, TypeOK
<1>1. CASE UNCHANGED reading
  BY <1>1 DEF reading
<1>2. ASSUME NEW r \in Reader, CheckKey(r) \/ ReadTop(r) \/ Rebuild(r)
      PROVE  \A q \in Reader : Lists(q)'
  <2>1. ASSUME NEW q \in Reader
        PROVE  pc'[q] = "rebuild" => pc[q] = "rebuild" /\ q # r
    BY <1>2 DEF CheckKey, ReadTop, Rebuild
  <2>2. \A q \in Reader \ {r} : seen'[q] = seen[q] /\ answer'[q] = answer[q]
    BY <1>2 DEF CheckKey, ReadTop, Rebuild
  <2> HIDE DEF TypeOK
  <2> QED  BY <2>1, <2>2
<1>3. ASSUME NEW r \in Reader, QueryDay(r) PROVE \A q \in Reader : Lists(q)'
  <2>1. PICK T \in SUBSET Merchant :
          /\ answer' = [answer EXCEPT ![r] = RowsOf(T, DbVolume(rolled))]
          /\ pc' = [pc EXCEPT ![r] = IF T = {} THEN "answered" ELSE "rebuild"]
    BY <1>3 DEF QueryDay
  <2>2. seen' = [seen EXCEPT ![r] = rolled]
    BY <1>3 DEF QueryDay
  <2>3. \A m \in Merchant : RowsOf(T, DbVolume(rolled))[m] \in {0, DbVolume(rolled)[m]}
    <3>1. DOMAIN DbVolume(rolled) = Merchant
      BY DEF DbVolume
    <3> QED  BY <3>1 DEF RowsOf
  <2>4. answer'[r] = RowsOf(T, DbVolume(rolled)) /\ seen'[r] = rolled
    BY <2>1, <2>2
  <2>5. \A q \in Reader \ {r} :
          pc'[q] = pc[q] /\ seen'[q] = seen[q] /\ answer'[q] = answer[q]
    BY <2>1, <2>2
  <2> HIDE DEF TypeOK
  <2> QED  BY <2>3, <2>4, <2>5
<1>4. ASSUME Worker \/ LoseKey PROVE UNCHANGED reading
  BY <1>4 DEF Worker, CommitBatch, Increment, FinishBatch, LoseIncrements, LoseKey
<1> HIDE DEF TypeOK, Lists
<1> QED
  BY <1>1, <1>2, <1>3, <1>4 DEF Next, Request, vars

LEMMA CommitKeepsDue ==
  ASSUME BoardInv, BoardInv', DueInv, NEW E \in SUBSET Event, CommitBatch(E)
  PROVE  /\ (missing \cap UnderWay = {})'
         /\ \A m \in Merchant : (Volume(Due, m) <= score[m] + Pending(m))'
<1> USE DEF BoardInv
<1>1. /\ batch = {} /\ E \cap rolled = {} /\ rolled' = rolled \cup E /\ batch' = E
      /\ pipe' = MerchantsOf(PeriodEvents(E)) /\ UNCHANGED <<score, missing>>
  BY DEF CommitBatch
<1>2. pipe = {} /\ rolled \in SUBSET Event /\ missing \in SUBSET rolled
  BY <1>1 DEF TypeOK, MerchantsOf
<1>3. PeriodEvents(E) \in SUBSET E /\ PeriodEvents(rolled) \in SUBSET rolled
      /\ PeriodEvents(rolled') = PeriodEvents(rolled) \cup PeriodEvents(E)
  BY <1>1 DEF PeriodEvents
<1>4. UnderWay' = PeriodEvents(E)
  BY <1>1 DEF UnderWay, MerchantsOf
<1>5. (missing \cap UnderWay = {})'
  BY <1>1, <1>2, <1>3, <1>4
<1>6. Due' = Due \cup PeriodEvents(E) /\ Due \cap PeriodEvents(E) = {}
  BY <1>1, <1>2, <1>3 DEF Due
<1>7. ASSUME NEW m \in Merchant PROVE (Volume(Due, m) <= score[m] + Pending(m))'
  <2>1. Due \in SUBSET Event /\ PeriodEvents(E) \in SUBSET Event
    BY <1>3, DueIs
  <2>2. Volume(Due', m) = Volume(Due, m) + Volume(PeriodEvents(E), m)
    BY <1>6, <2>1, VolumeUnion
  <2>3. Volume(Due, m) \in Nat /\ Volume(PeriodEvents(E), m) \in Nat
    BY <1>6, <2>1, VolumeUnion, VolumeMono
  <2>4. Pending(m) = 0
    BY <1>2 DEF Pending
  <2>5. Pending(m)' = Volume(PeriodEvents(E), m)
    <3>1. CASE m \in MerchantsOf(PeriodEvents(E))
      BY <1>1, <3>1 DEF Pending
    <3>2. CASE m \notin MerchantsOf(PeriodEvents(E))
      <4>1. \A e \in PeriodEvents(E) : MerchantOf[e] # m
        BY <3>2 DEF MerchantsOf
      <4>2. Volume(PeriodEvents(E), m) = 0
        BY <4>1, VolumeOfOthers
      <4> QED  BY <1>1, <3>2, <4>2 DEF Pending
    <3> QED  BY <3>1, <3>2
  <2>6. score'[m] = score[m] /\ score[m] \in Nat /\ Volume(Due, m) <= score[m] + Pending(m)
    BY <1>1, CentsBound DEF TypeOK, DueInv
  <2> HIDE DEF Pending, Due
  <2>7. Volume(Due', m) <= score'[m] + Pending(m)'
    BY <2>2, <2>3, <2>4, <2>5, <2>6
  <2> QED  BY <2>7
<1> QED  BY <1>5, <1>7

\* An increment that is executed is no longer under way; one that is awaited
\* leaves the volumes.
LEMMA SendKeepsDue ==
  ASSUME BoardInv, BoardInv', DueInv, FinishBatch \/ \E m \in Merchant : Increment(m)
  PROVE  /\ (missing \cap UnderWay = {})'
         /\ \A m \in Merchant : (Volume(Due, m) <= score[m] + Pending(m))'
<1> USE DEF BoardInv
<1>1. UNCHANGED <<rolled, missing>>
  BY DEF FinishBatch, Increment
<1>2. UnderWay' \in SUBSET UnderWay
  BY DEF UnderWay, PeriodEvents, FinishBatch, Increment
<1>3. Due' = Due
  BY <1>1 DEF Due
<1>4. ASSUME NEW m \in Merchant PROVE score'[m] + Pending(m)' = score[m] + Pending(m)
  <2>1. CASE FinishBatch
    BY <2>1 DEF FinishBatch, Pending
  <2>2. ASSUME NEW k \in Merchant, Increment(k)
        PROVE  score'[m] + Pending(m)' = score[m] + Pending(m)
    <3>1. /\ k \in pipe /\ pipe' = pipe \ {k} /\ batch' = batch
          /\ score' = [score EXCEPT ![k] = score[k] + Volume(PeriodEvents(batch), k)]
      BY <2>2 DEF Increment
    <3>2. score[m] \in Nat /\ Volume(PeriodEvents(batch), m) \in Nat
      BY PendingType, CentsBound DEF TypeOK
    <3>3. CASE m = k
      <4>1. score'[m] = score[m] + Volume(PeriodEvents(batch), m)
            /\ Pending(m) = Volume(PeriodEvents(batch), m) /\ Pending(m)' = 0
        BY <3>1, <3>3 DEF Pending, TypeOK
      <4> QED  BY <3>2, <4>1
    <3>4. CASE m # k
      BY <3>1, <3>4 DEF Pending, TypeOK
    <3> QED  BY <3>3, <3>4
  <2> QED  BY <2>1, <2>2
<1>5. ASSUME NEW m \in Merchant PROVE (Volume(Due, m) <= score[m] + Pending(m))'
  <2>1. Volume(Due, m) <= score[m] + Pending(m)
    BY DEF DueInv
  <2> HIDE DEF Pending, Due
  <2>2. Volume(Due', m) <= score'[m] + Pending(m)'
    BY <1>3, <1>4, <2>1
  <2> QED  BY <2>2
<1>6. (missing \cap UnderWay = {})'
  BY <1>1, <1>2 DEF DueInv
<1> QED  BY <1>5, <1>6

LEMMA LossKeepsDue ==
  ASSUME BoardInv, BoardInv', DueInv, LoseIncrements \/ LoseKey
  PROVE  /\ (missing \cap UnderWay = {})'
         /\ \A m \in Merchant : (Volume(Due, m) <= score[m] + Pending(m))'
<1> USE DEF BoardInv
<1>1. UnderWay \in SUBSET PeriodEvents(rolled)
  BY DEF UnderWay, PeriodEvents, TypeOK
<1>2. CASE LoseIncrements
  <2>1. /\ pipe' = {} /\ missing' = missing \cup UnderWay /\ UNCHANGED <<rolled, score>>
    BY <1>2 DEF LoseIncrements
  <2>2. UnderWay' = {}
    BY <2>1 DEF UnderWay
  <2>3. Due = Due' \cup UnderWay /\ Due' \cap UnderWay = {}
    BY <1>1, <2>1 DEF Due, DueInv
  <2>4. ASSUME NEW m \in Merchant PROVE (Volume(Due, m) <= score[m] + Pending(m))'
    <3>1. Due' \in SUBSET Event /\ UnderWay \in SUBSET Event
      BY <2>3, DueIs, UnderWayIsPending
    <3>2. Volume(Due' \cup UnderWay, m) = Volume(Due', m) + Volume(UnderWay, m)
          /\ Volume(Due', m) \in Nat
      BY <2>3, <3>1, VolumeUnion
    <3>3. Volume(UnderWay, m) = Pending(m) /\ Pending(m) \in Nat
      BY UnderWayIsPending
    <3>4. Pending(m)' = 0 /\ score'[m] = score[m] /\ score[m] \in Nat
      BY <2>1, CentsBound DEF Pending, TypeOK
    <3>5. Volume(Due, m) <= score[m] + Pending(m)
      BY DEF DueInv
    <3>6. Volume(Due, m) = Volume(Due', m) + Pending(m)
      BY <2>3, <3>2, <3>3
    <3> HIDE DEF Pending, Due
    <3>7. Volume(Due', m) <= score'[m] + Pending(m)'
      BY <3>2, <3>3, <3>4, <3>5, <3>6
    <3> QED  BY <3>7
  <2> QED  BY <2>2, <2>4
<1>3. CASE LoseKey
  <2>1. /\ score' = Nothing /\ missing' = PeriodEvents(rolled) \ UnderWay
        /\ UNCHANGED <<rolled, batch, pipe>>
    BY <1>3 DEF LoseKey
  <2>2. UnderWay' = UnderWay
    BY <2>1 DEF UnderWay
  <2>3. Due' = UnderWay
    BY <1>1, <2>1 DEF Due
  <2>4. ASSUME NEW m \in Merchant PROVE (Volume(Due, m) <= score[m] + Pending(m))'
    <3>1. Volume(UnderWay, m) = Pending(m) /\ Pending(m) \in Nat
      BY UnderWayIsPending
    <3>2. Pending(m)' = Pending(m) /\ score'[m] = 0
      BY <2>1 DEF Pending, Nothing
    <3> HIDE DEF Pending, Due, UnderWay
    <3>3. Volume(Due', m) <= score'[m] + Pending(m)'
      BY <2>3, <3>1, <3>2
    <3> QED  BY <3>3
  <2> QED  BY <2>1, <2>2, <2>4
<1> QED  BY <1>2, <1>3

\* A rebuild holds the payments its query saw, of the merchants it lists.
LEMMA RebuildKeepsDue ==
  ASSUME BoardInv, BoardInv', DueInv, NEW r \in Reader, Rebuild(r)
  PROVE  /\ (missing \cap UnderWay = {})'
         /\ \A m \in Merchant : (Volume(Due, m) <= score[m] + Pending(m))'
<1> USE DEF BoardInv
<1>1. /\ pc[r] = "rebuild" /\ score' = answer[r] /\ missing' = LeftOut(r) \ UnderWay
      /\ UNCHANGED <<rolled, batch, pipe>>
  BY DEF Rebuild
<1>2. UnderWay' = UnderWay
  BY <1>1 DEF UnderWay
<1>3. rolled \in SUBSET Event /\ seen[r] \in SUBSET rolled
  BY <1>1 DEF TypeOK, FromDb
<1> DEFINE Listed == {e \in PeriodEvents(seen[r]) : answer[r][MerchantOf[e]] # 0}
           Rest == UnderWay \ Listed
<1>4. Due' \in SUBSET (Listed \cup Rest)
  BY <1>1, <1>3 DEF Due, LeftOut, PeriodEvents
<1>5. Listed \in SUBSET Event /\ Rest \in SUBSET UnderWay /\ Listed \cap Rest = {}
      /\ Listed \in SUBSET Stored(seen[r]) /\ Stored(seen[r]) \in SUBSET Event
  <2>1. {} \in SUBSET Event /\ seen[r] \cap {} = {} /\ seen[r] \in SUBSET Event
    BY <1>3
  <2>2. PeriodEvents(seen[r]) \in SUBSET Stored(seen[r]) /\ Stored(seen[r]) \in SUBSET Event
    BY <2>1, SplitEvents
  <2> QED  BY <2>2
<1>6. ASSUME NEW m \in Merchant PROVE (Volume(Due, m) <= score[m] + Pending(m))'
  <2>1. UnderWay \in SUBSET Event /\ Volume(UnderWay, m) = Pending(m) /\ Pending(m) \in Nat
    BY UnderWayIsPending
  <2>2. Pending(m)' = Pending(m)
    BY <1>1 DEF Pending
  <2>3. score'[m] = answer[r][m] /\ answer[r][m] \in Nat
    BY <1>1, CentsBound DEF TypeOK
  <2>4. Volume(Listed, m) <= answer[r][m]
    <3>1. CASE answer[r][m] = 0
      <4>1. \A e \in Listed : MerchantOf[e] # m
        BY <3>1
      <4>2. Volume(Listed, m) = 0
        BY <4>1, VolumeOfOthers
      <4> QED  BY <3>1, <4>2
    <3>2. CASE answer[r][m] = DbVolume(seen[r])[m]
      <4> HIDE DEF Listed
      <4>1. Volume(Listed, m) <= Volume(Stored(seen[r]), m)
        BY <1>5, VolumeMono
      <4>2. DbVolume(seen[r])[m] = Volume(Stored(seen[r]), m)
        BY DbVolumeIs
      <4> QED  BY <3>2, <4>1, <4>2
    <3>3. answer[r][m] = 0 \/ answer[r][m] = DbVolume(seen[r])[m]
      BY <1>1 DEF DueInv, Lists
    <3> QED  BY <3>1, <3>2, <3>3
  <2> HIDE DEF Listed, Rest, Pending
  <2>5. Volume(Rest, m) \in Nat /\ Volume(Rest, m) <= Volume(UnderWay, m)
    BY <1>5, <2>1, VolumeMono
  <2>6. Rest \in SUBSET Event
    BY <1>5, <2>1
  <2> HIDE DEF Due
  <2>7. /\ Volume(Due', m) <= Volume(Listed, m) + Volume(Rest, m)
        /\ Volume(Due', m) \in Nat /\ Volume(Listed, m) \in Nat
    BY <1>4, <1>5, <2>6, VolumeCovered
  <2>8. Volume(Due', m) <= score'[m] + Pending(m)'
    BY <2>1, <2>2, <2>3, <2>4, <2>5, <2>7
  <2> QED  BY <2>8
<1>7. (missing \cap UnderWay = {})'
  BY <1>1, <1>2
<1> QED  BY <1>6, <1>7

LEMMA StepDue ==
  ASSUME BoardInv, BoardInv', DueInv, [Next]_vars
  PROVE  DueInv'
<1>1. \A r \in Reader : Lists(r)'
  BY StepLists DEF DueInv, BoardInv
<1>2. CASE UNCHANGED <<rolled, batch, pipe, score, missing>>
  <2>1. (missing \cap UnderWay = {})'
    BY <1>2 DEF DueInv, UnderWay
  <2>2. \A m \in Merchant : (Volume(Due, m) <= score[m] + Pending(m))'
    BY <1>2 DEF DueInv, Due, Pending
  <2> QED  BY <1>1, <2>1, <2>2 DEF DueInv
<1>3. ASSUME NEW r \in Reader, CheckKey(r) \/ ReadTop(r) \/ QueryDay(r)
      PROVE  UNCHANGED <<rolled, batch, pipe, score, missing>>
  BY <1>3 DEF CheckKey, ReadTop, QueryDay
<1>4. UNCHANGED vars => UNCHANGED <<rolled, batch, pipe, score, missing>>
  BY DEF vars
<1>5. ASSUME \/ \E E \in SUBSET Event : CommitBatch(E)
             \/ FinishBatch \/ \E m \in Merchant : Increment(m)
             \/ LoseIncrements \/ LoseKey \/ \E r \in Reader : Rebuild(r)
      PROVE  DueInv'
  <2>1. /\ (missing \cap UnderWay = {})'
        /\ \A m \in Merchant : (Volume(Due, m) <= score[m] + Pending(m))'
    BY <1>5, CommitKeepsDue, SendKeepsDue, LossKeepsDue, RebuildKeepsDue
  <2> QED  BY <1>1, <2>1 DEF DueInv
<1> QED
  BY <1>2, <1>3, <1>4, <1>5, Zenon DEF Next, Worker, Request

LEMMA InitDue == Init => DueInv
<1> SUFFICES ASSUME Init PROVE DueInv
  OBVIOUS
<1>1. /\ rolled = {} /\ pipe = {} /\ missing = {} /\ score = Nothing
      /\ pc = [r \in Reader |-> "idle"]
  BY DEF Init
<1>2. \A r \in Reader : Lists(r)
  BY <1>1 DEF Lists
<1>3. Due = {}
  BY <1>1 DEF Due, PeriodEvents
<1>4. ASSUME NEW m \in Merchant PROVE Volume(Due, m) <= score[m] + Pending(m)
  <2>1. score[m] = 0 /\ Pending(m) = 0
    BY <1>1 DEF Nothing, Pending
  <2> HIDE DEF Due
  <2> QED  BY <1>3, <2>1, VolumeOfNothing
<1> QED  BY <1>1, <1>2, <1>4 DEF DueInv

(***************************************************************************)
(* Whatever requests ask for and however they race the worker, a payment   *)
(* the board lacks was lost with the key or with its increment, or was     *)
(* left out by the rebuild that was written last: its query came before    *)
(* the payment's commit, or its top_n did not list the merchant.           *)
(***************************************************************************)
THEOREM BoardLacksOnlyMissing == Spec => []LacksOnlyMissing
<1>1. BoardInv /\ DueInv => LacksOnlyMissing
  BY DueIs DEF BoardInv, DueInv
<1> QED
  BY <1>1, InitDue, StepDue, BoardInductive, PTL DEF Spec
=============================================================================
