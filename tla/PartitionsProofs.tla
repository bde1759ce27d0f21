-------------------------- MODULE PartitionsProofs --------------------------
(***************************************************************************)
(* What a run of the partition scripts promises and what a day in arrears  *)
(* costs, for any number of days, events, runs and windows.  A day is safe *)
(* when no row of it is in the default partition and none can get there:   *)
(* it has a partition, or it is too long ago for an insert.  Safe days     *)
(* stay safe, and the loop of create_partitions.py leaves only safe days   *)
(* behind.                                                                 *)
(***************************************************************************)
EXTENDS Partitions, FiniteSums

Row == [day : Days, table : {"daily", "default", "dropped"}]

Safe(d) == ~InDefault(d) /\ (d \in parts \/ d < today - 1)

PartsSafe == \A d \in parts : ~InDefault(d)

CoveredSafe == \A d \in covered : Safe(d)

LoopSafe ==
  script.pc = "loop" =>
    /\ script.base <= today
    /\ \A d \in (script.base - 1) .. (script.day - 1) : Safe(d)

PartInv == TypeOK /\ PartsSafe /\ CoveredSafe /\ LoopSafe

\* A function on an initial segment of the naturals is a sequence.
LEMMA SegmentIsSeq ==
  ASSUME NEW S, NEW n \in Nat, NEW f \in [1 .. n -> S]
  PROVE  f \in Seq(S) /\ Len(f) = n
  OBVIOUS

\* An insert adds one row, of today or yesterday, where its day's rows go.
LEMMA InsertRow ==
  ASSUME TypeOK, Insert
  PROVE  \E d \in {today, today - 1} : \E t \in {"daily", "default"} :
           /\ d \in Days
           /\ t = IF d \in parts THEN "daily" ELSE "default"
           /\ rows' = Append(rows, [day |-> d, table |-> t])
           /\ rows' \in Seq(Row) /\ Len(rows') = Len(rows) + 1
           /\ Event' = Event \cup {Len(rows) + 1}
           /\ \A e \in Event : rows'[e] = rows[e]
           /\ rows'[Len(rows) + 1] = [day |-> d, table |-> t]
<1>1. PICK d \in {today, today - 1} :
        rows' = Append(rows, [day |-> d, table |-> IF d \in parts THEN "daily" ELSE "default"])
  BY DEF Insert
<1> DEFINE t == IF d \in parts THEN "daily" ELSE "default"
           r == [day |-> d, table |-> t]
<1>2. d \in Days /\ t \in {"daily", "default"}
  BY DaysAssumption DEF TypeOK, Days
<1>3. r \in Row
  BY <1>2 DEF Row
<1>4. rows \in Seq(Row) /\ Len(rows) \in Nat
  BY DEF TypeOK, Row
<1>5. rows' = Append(rows, r)
  BY <1>1
<1> HIDE DEF r
<1>6. /\ rows' \in Seq(Row) /\ Len(rows') = Len(rows) + 1
      /\ \A e \in 1 .. Len(rows) : rows'[e] = rows[e]
      /\ rows'[Len(rows) + 1] = r
  BY <1>3, <1>4, <1>5
<1>7. DOMAIN rows = 1 .. Len(rows) /\ DOMAIN rows' = 1 .. Len(rows')
  BY <1>4, <1>6
<1>8. DOMAIN rows' = DOMAIN rows \cup {Len(rows) + 1}
  BY <1>4, <1>6, <1>7
<1> QED
  BY <1>2, <1>5, <1>6, <1>7, <1>8 DEF Event, r

\* A dropped day keeps its events and moves its rows out of the table only.
LEMMA DropRows ==
  ASSUME TypeOK, NEW d \in parts, DropDay(d)
  PROVE  /\ rows' \in Seq(Row) /\ Len(rows') = Len(rows) /\ Event' = Event
         /\ \A e \in Event : rows'[e] = rows[e] \/ rows'[e] = [rows[e] EXCEPT !.table = "dropped"]
<1>1. rows \in Seq(Row) /\ Len(rows) \in Nat /\ Event = 1 .. Len(rows)
  BY DEF TypeOK, Row, Event
<1>2. \A e \in Event : rows[e] \in Row
  BY <1>1
<1>3. rows' = [e \in Event |-> IF rows[e] = [day |-> d, table |-> "daily"]
                               THEN [rows[e] EXCEPT !.table = "dropped"] ELSE rows[e]]
  BY DEF DropDay
<1>4. \A e \in Event : [rows[e] EXCEPT !.table = "dropped"] \in Row
  BY <1>2 DEF Row
<1>5. rows' \in [1 .. Len(rows) -> Row]
  BY <1>1, <1>2, <1>3, <1>4
<1>6. rows' \in Seq(Row) /\ Len(rows') = Len(rows)
  BY <1>1, <1>5, SegmentIsSeq
<1> QED
  BY <1>1, <1>3, <1>6 DEF Event

\* The last event of a page is one of the page.
LEMMA PageLast ==
  ASSUME TypeOK, Page # {}
  PROVE  Max(Page) \in Page /\ Page \subseteq Event /\ Event = 1 .. Len(rows) /\ Len(rows) \in Nat
<1>1. Event = 1 .. Len(rows) /\ Len(rows) \in Nat
  BY DEF TypeOK, Event
<1>2. Page \subseteq Event
  BY DEF Page, After, Stored
<1>3. IsFiniteSet(Page)
  <2>1. IsFiniteSet(1 .. Len(rows))
    BY <1>1, FS_Interval
  <2> QED  BY <1>1, <1>2, <2>1, FS_Subset
<1>4. Page \in SUBSET Nat
  BY <1>1, <1>2
<1> QED
  BY <1>1, <1>2, <1>3, <1>4, MinMaxBound
-----------------------------------------------------------------------------
LEMMA OffType == Off \in [pc : {"off", "loop"}, base : 0 .. MaxDay, day : Targets]
  BY DaysAssumption DEF Off, Targets

\* The loop of the script goes on to the next day.
LEMMA TargetStep ==
  ASSUME TypeOK, InLoop, NextTarget
  PROVE  /\ script' \in [pc : {"off", "loop"}, base : 0 .. MaxDay, day : Targets]
         /\ script'.base = script.base /\ script'.day = script.day + 1
         /\ script.base \in 0 .. MaxDay /\ script.day \in -1 .. (MaxDay + DaysAhead)
<1>1. script \in [pc : {"off", "loop"}, base : 0 .. MaxDay, day : Targets]
  BY DEF TypeOK
<1>2. script.base \in 0 .. MaxDay /\ script.day \in -1 .. (MaxDay + DaysAhead)
  BY <1>1, DaysAssumption DEF InLoop, Targets
<1>3. script' = [script EXCEPT !.day = script.day + 1]
  BY DEF NextTarget
<1>4. script.day + 1 \in Targets
  BY <1>2, DaysAssumption DEF Targets
<1> QED
  BY <1>1, <1>2, <1>3, <1>4

\* Every step keeps the types.
LEMMA StepTypeOK == TypeOK /\ [Next]_vars => TypeOK'
<1> SUFFICES ASSUME TypeOK, [Next]_vars PROVE TypeOK'
  OBVIOUS
<1> USE DaysAssumption
<1>1. CASE NextDay
  BY <1>1 DEF NextDay, TypeOK, schema, worker, Event
<1>2. CASE Insert
  <2>1. PICK d \in {today, today - 1}, t \in {"daily", "default"} :
          /\ rows' \in Seq(Row) /\ Len(rows') = Len(rows) + 1
          /\ Event' = Event \cup {Len(rows) + 1}
    BY <1>2, InsertRow
  <2>2. Len(rows') <= MaxRows /\ Len(rows) \in Nat
    BY <1>2, <2>1 DEF Insert, TypeOK
  <2>3. offset' \in 0 .. Len(rows') /\ aggregated' \in SUBSET Event'
    BY <1>2, <2>1, <2>2 DEF Insert, worker, TypeOK
  <2> QED
    BY <1>2, <2>1, <2>2, <2>3 DEF Insert, TypeOK, Row, schema, worker
<1>3. CASE StartScript
  BY <1>3 DEF StartScript, TypeOK, schema, worker, Event, Targets
<1>4. CASE SkipDay
  BY <1>4, TargetStep DEF SkipDay, TypeOK, schema, worker, Event
<1>5. CASE CreateDay
  <2>1. /\ script' \in [pc : {"off", "loop"}, base : 0 .. MaxDay, day : Targets]
        /\ script.day \in -1 .. (MaxDay + DaysAhead)
    BY <1>5, TargetStep DEF CreateDay
  <2>2. script.day \in -1 .. (MaxDay + DaysAhead + InitAhead)
    BY <2>1
  <2>3. parts \subseteq -1 .. (MaxDay + DaysAhead + InitAhead) /\ parts' = parts \cup {script.day}
    BY <1>5 DEF CreateDay, TypeOK
  <2>4. parts' \subseteq -1 .. (MaxDay + DaysAhead + InitAhead)
    BY <2>2, <2>3, Zenon
  <2> QED
    BY <1>5, <2>1, <2>4 DEF CreateDay, TypeOK, worker, Event
<1>6. CASE CreateFails \/ KillScript
  <2>1. script' \in [pc : {"off", "loop"}, base : 0 .. MaxDay, day : Targets]
    BY <1>6, OffType DEF CreateFails, KillScript
  <2> QED
    BY <1>6, <2>1 DEF CreateFails, KillScript, TypeOK, schema, worker, Event
<1>7. CASE FinishScript
  <2>1. script' \in [pc : {"off", "loop"}, base : 0 .. MaxDay, day : Targets]
    BY <1>7, OffType DEF FinishScript
  <2>2. script.base \in 0 .. MaxDay
    BY DEF TypeOK
  <2>3. Window(script.base, DaysAhead) \subseteq -1 .. (MaxDay + DaysAhead + InitAhead)
    BY <2>2 DEF Window
  <2>4. covered' \subseteq -1 .. (MaxDay + DaysAhead + InitAhead)
    BY <1>7, <2>3 DEF FinishScript, TypeOK
  <2> QED
    BY <1>7, <2>1, <2>4 DEF FinishScript, TypeOK, worker, Event
<1>8. CASE RunInitScript
  BY <1>8 DEF RunInitScript, Window, TypeOK, worker, Event
<1>9. ASSUME NEW d \in parts, DropDay(d) PROVE TypeOK'
  <2>1. rows' \in Seq(Row) /\ Len(rows') = Len(rows) /\ Event' = Event
    BY <1>9, DropRows
  <2> QED
    BY <1>9, <2>1 DEF DropDay, TypeOK, Row, worker
<1>10. CASE Poll
  <2>1. Max(Page) \in Page /\ Page \subseteq Event /\ Event = 1 .. Len(rows) /\ Len(rows) \in Nat
    BY <1>10, PageLast DEF Poll
  <2>2. offset' = Max(Page) /\ aggregated' = aggregated \cup Page
    BY <1>10 DEF Poll
  <2>3. offset' \in 0 .. Len(rows)
    <3>1. offset' \in 1 .. Len(rows)
      BY <2>1, <2>2, Zenon
    <3> QED  BY <2>1, <3>1
  <2>4. aggregated \in SUBSET Event
    BY DEF TypeOK
  <2>5. aggregated' \in SUBSET Event
    BY <2>1, <2>2, <2>4
  <2> QED
    BY <1>10, <2>3, <2>5 DEF Poll, TypeOK, schema, Event
<1>11. CASE ResetOffset
  BY <1>11 DEF ResetOffset, TypeOK, schema, Event
<1>12. CASE UNCHANGED vars
  BY <1>12 DEF vars, schema, worker, TypeOK, Event
<1> QED
  BY <1>1, <1>2, <1>3, <1>4, <1>5, <1>6, <1>7, <1>8, <1>9, <1>10, <1>11, <1>12 DEF Next

\* Rows that stay where they are leave the default partition as it is.
LEMMA SameDefault ==
  ASSUME UNCHANGED rows
  PROVE  \A d : InDefault(d)' = InDefault(d)
  BY DEF InDefault, Event

\* An insert puts a row into the default partition only for a day that has no
\* partition and is today or yesterday.
LEMMA InsertKeeps ==
  ASSUME TypeOK, Insert, NEW c, ~InDefault(c), c \in Int, c \in parts \/ c < today - 1
  PROVE  ~InDefault(c)'
<1>1. PICK d \in {today, today - 1}, t \in {"daily", "default"} :
        /\ t = IF d \in parts THEN "daily" ELSE "default"
        /\ Event' = Event \cup {Len(rows) + 1}
        /\ \A e \in Event : rows'[e] = rows[e]
        /\ rows'[Len(rows) + 1] = [day |-> d, table |-> t]
  BY InsertRow
<1>2. SUFFICES ASSUME NEW e \in Event', rows'[e] = [day |-> c, table |-> "default"]
               PROVE  FALSE
  BY DEF InDefault
<1>3. CASE e \in Event
  BY <1>1, <1>2, <1>3 DEF InDefault
<1>4. CASE e = Len(rows) + 1
  <2>1. [day |-> d, table |-> t] = [day |-> c, table |-> "default"]
    BY <1>1, <1>2, <1>4
  <2>2. d = c /\ t = "default"
    BY <2>1
  <2>3. c \notin parts
    BY <1>1, <2>2
  <2>4. today \in Int
    BY DEF TypeOK
  <2> QED  BY <1>1, <2>2, <2>3, <2>4
<1> QED  BY <1>1, <1>2, <1>3, <1>4

\* Retention puts nothing into the default partition.
LEMMA DropKeeps ==
  ASSUME TypeOK, NEW d \in parts, DropDay(d), NEW c, ~InDefault(c)
  PROVE  ~InDefault(c)'
<1>1. Event' = Event /\ \A e \in Event : rows'[e] = rows[e] \/ rows'[e] = [rows[e] EXCEPT !.table = "dropped"]
  BY DropRows
<1>2. SUFFICES ASSUME NEW e \in Event, rows'[e] = [day |-> c, table |-> "default"]
               PROVE  FALSE
  BY <1>1 DEF InDefault
<1>3. rows[e] \in Row
  <2>1. rows \in Seq(Row) /\ Len(rows) \in Nat /\ Event = 1 .. Len(rows)
    BY DEF TypeOK, Row, Event
  <2> QED  BY <2>1
<1>4. CASE rows'[e] = rows[e]
  BY <1>2, <1>4 DEF InDefault
<1>5. CASE rows'[e] = [rows[e] EXCEPT !.table = "dropped"]
  <2>1. rows'[e].table = "dropped"
    BY <1>3, <1>5 DEF Row
  <2> QED  BY <1>2, <2>1
<1> QED  BY <1>1, <1>4, <1>5
-----------------------------------------------------------------------------
\* The days in question are integers.
LEMMA DaysAreInts ==
  ASSUME TypeOK
  PROVE  /\ parts \subseteq Int /\ covered \subseteq Int
         /\ today \in Int /\ script.base \in Int /\ script.day \in Int
  BY DaysAssumption DEF TypeOK, Targets

\* Safe days stay safe while no row moves and no partition goes.
LEMMA SafeStays ==
  ASSUME TypeOK, UNCHANGED rows, parts \subseteq parts',
         today' \in Int, today <= today', NEW c \in Int, Safe(c)
  PROVE  Safe(c)'
<1>1. today \in Int
  BY DaysAreInts
<1>2. ~InDefault(c)'
  BY SameDefault DEF Safe
<1>3. c \in parts \/ c < today - 1
  BY DEF Safe
<1>4. c \in parts' \/ c < today' - 1
  <2>1. CASE c \in parts
    BY <2>1
  <2>2. CASE c < today - 1
    <3>1. \A a, b, x \in Int : a <= b /\ x < a - 1 => x < b - 1
      OBVIOUS
    <3> QED  BY <1>1, <2>2, <3>1, Zenon
  <2> QED  BY <1>3, <2>1, <2>2
<1> QED
  BY <1>2, <1>4 DEF Safe

\* A day that has, or gets, its partition is safe.
LEMMA CreatedSafe ==
  ASSUME UNCHANGED rows, NEW c \in parts', ~InDefault(c)
  PROVE  Safe(c)'
  BY SameDefault DEF Safe

\* An insert keeps the safe days safe.
LEMMA InsertSafe ==
  ASSUME TypeOK, Insert, NEW c \in Int, Safe(c)
  PROVE  Safe(c)'
<1>1. parts' = parts /\ today' = today
  BY DEF Insert, schema
<1>2. ~InDefault(c)'
  BY InsertKeeps DEF Safe
<1> QED
  BY <1>1, <1>2 DEF Safe

\* Retention keeps the safe days safe: it drops only days that are too old
\* for an insert.
LEMMA DropSafe ==
  ASSUME TypeOK, NEW d \in parts, DropDay(d), NEW c \in Int, Safe(c)
  PROVE  Safe(c)'
<1>1. ~InDefault(c)'
  BY DropKeeps DEF Safe
<1>2. today' = today /\ parts' = parts \ {d} /\ d < today - Keep
  BY DEF DropDay
<1>3. today \in Int /\ d \in Int
  BY DaysAreInts
<1>4. d < today - 1
  BY <1>2, <1>3, DaysAssumption
<1> QED
  BY <1>1, <1>2, <1>4 DEF Safe

\* When safe days stay safe, so do the covered ones and those the loop has
\* left behind, as long as neither moves.
LEMMA SafeCarries ==
  ASSUME PartInv, \A c \in Int : Safe(c) => Safe(c)',
         UNCHANGED <<script, covered>>, today' \in Int, today <= today'
  PROVE  CoveredSafe' /\ LoopSafe'
<1>1. covered \subseteq Int /\ today \in Int /\ script.base \in Int /\ script.day \in Int
  BY DaysAreInts DEF PartInv
<1>2. CoveredSafe'
  BY <1>1 DEF PartInv, CoveredSafe
<1>3. ASSUME script.pc = "loop"
      PROVE  /\ script.base <= today'
             /\ \A d \in (script.base - 1) .. (script.day - 1) : Safe(d)'
  BY <1>1, <1>3 DEF PartInv, LoopSafe
<1> QED
  BY <1>2, <1>3 DEF LoopSafe

\* The loop goes on past a day that is safe.
LEMMA LoopGoesOn ==
  ASSUME PartInv, InLoop, NextTarget, UNCHANGED today,
         NEW n \in Int, n = script.day, Safe(n)',
         \A c \in Int : Safe(c) => Safe(c)'
  PROVE  LoopSafe'
<1>1. /\ script'.base = script.base /\ script'.day = script.day + 1
      /\ script.base \in Int /\ script.day \in Int
  BY TargetStep, DaysAreInts DEF PartInv
<1>2. script.base <= today /\ \A d \in (script.base - 1) .. (script.day - 1) : Safe(d)
  BY DEF PartInv, LoopSafe, InLoop
<1>3. ASSUME NEW d \in (script'.base - 1) .. (script'.day - 1)
      PROVE  Safe(d)'
  <2>1. CASE d = n
    BY <2>1
  <2>2. CASE d # n
    <3>1. d \in Int /\ d \in (script.base - 1) .. (script.day - 1)
      BY <1>1, <1>3, <2>2
    <3> QED  BY <1>2, <3>1
  <2> QED  BY <2>1, <2>2
<1> QED
  BY <1>1, <1>2, <1>3 DEF LoopSafe

\* A run that is off has left nothing behind.
LEMMA OffLoop == script' = Off => LoopSafe'
  BY DEF Off, LoopSafe
-----------------------------------------------------------------------------
\* Every step keeps the partitions clean and what is safe safe.
LEMMA StepPartInv == PartInv /\ [Next]_vars => PartInv'
<1> SUFFICES ASSUME PartInv, [Next]_vars PROVE PartInv'
  OBVIOUS
<1>T. TypeOK /\ TypeOK'
  BY StepTypeOK DEF PartInv
<1>I. /\ parts \subseteq Int /\ covered \subseteq Int
      /\ today \in Int /\ script.base \in Int /\ script.day \in Int
  BY <1>T, DaysAreInts
<1>P. PartsSafe /\ CoveredSafe /\ LoopSafe
  BY DEF PartInv
<1>S. ASSUME UNCHANGED rows, parts \subseteq parts', today' \in Int, today <= today'
      PROVE  \A c \in Int : Safe(c) => Safe(c)'
  BY <1>T, <1>S, SafeStays
<1>Q. ASSUME UNCHANGED <<rows, schema, script>>, today' \in Int, today <= today'
      PROVE  PartInv'
  <2>1. \A c \in Int : Safe(c) => Safe(c)'
    BY <1>Q, <1>S DEF schema
  <2>2. CoveredSafe' /\ LoopSafe'
    BY <1>Q, <2>1, SafeCarries DEF schema
  <2>3. PartsSafe'
    BY <1>P, <1>Q, SameDefault DEF PartsSafe, schema
  <2> QED  BY <1>T, <2>2, <2>3 DEF PartInv
<1>O. ASSUME UNCHANGED <<rows, schema, today>>, script' = Off
      PROVE  PartInv'
  <2>1. \A c \in Int : Safe(c) => Safe(c)'
    BY <1>I, <1>O, <1>S DEF schema
  <2>2. CoveredSafe'
    BY <1>I, <1>O, <1>P, <2>1 DEF CoveredSafe, schema
  <2>3. PartsSafe'
    BY <1>O, <1>P, SameDefault DEF PartsSafe, schema
  <2> QED  BY <1>T, <1>O, <2>2, <2>3, OffLoop DEF PartInv
<1>1. CASE NextDay
  BY <1>1, <1>I, <1>Q DEF NextDay
<1>2. CASE Insert
  <2>1. \A c \in Int : Safe(c) => Safe(c)'
    BY <1>2, <1>T, InsertSafe
  <2>2. CoveredSafe' /\ LoopSafe'
    BY <1>2, <1>I, <2>1, SafeCarries DEF Insert, schema
  <2>3. \A c \in parts : ~InDefault(c)'
    BY <1>2, <1>I, <1>T, <1>P, InsertKeeps DEF PartsSafe
  <2>4. PartsSafe'
    BY <1>2, <2>3 DEF Insert, schema, PartsSafe
  <2> QED  BY <1>T, <2>2, <2>4 DEF PartInv
<1>3. CASE StartScript
  <2>1. UNCHANGED <<rows, schema, today>> /\ script'.base = today /\ script'.day = today - 1
    BY <1>3 DEF StartScript
  <2>2. \A c \in Int : Safe(c) => Safe(c)'
    BY <1>I, <1>S, <2>1 DEF schema
  <2>3. CoveredSafe'
    BY <1>I, <1>P, <2>1, <2>2 DEF CoveredSafe, schema
  <2>4. PartsSafe'
    BY <1>P, <2>1, SameDefault DEF PartsSafe, schema
  <2>5. LoopSafe'
    BY <1>I, <2>1 DEF LoopSafe
  <2> QED  BY <1>T, <2>3, <2>4, <2>5 DEF PartInv
<1>4. CASE SkipDay
  <2>1. UNCHANGED <<rows, schema, today>> /\ InLoop /\ NextTarget /\ script.day \in parts
    BY <1>4 DEF SkipDay
  <2>2. \A c \in Int : Safe(c) => Safe(c)'
    BY <1>I, <1>S, <2>1 DEF schema
  <2>3. CoveredSafe'
    BY <1>I, <1>P, <2>1, <2>2 DEF CoveredSafe, schema
  <2>4. PartsSafe'
    BY <1>P, <2>1, SameDefault DEF PartsSafe, schema
  <2>5. PICK n \in parts : n = script.day
    BY <2>1
  <2>6. Safe(n)' /\ n \in Int
    BY <1>P, <1>I, <2>2, <2>5 DEF PartsSafe, Safe
  <2>7. LoopSafe'
    BY <2>1, <2>2, <2>5, <2>6, LoopGoesOn
  <2> QED  BY <1>T, <2>3, <2>4, <2>7 DEF PartInv
<1>5. CASE CreateDay
  <2>1. /\ UNCHANGED rows /\ today' = today /\ covered' = covered
        /\ InLoop /\ NextTarget /\ ~InDefault(script.day)
        /\ parts' = parts \cup {script.day}
    BY <1>5 DEF CreateDay
  <2>2. \A c \in Int : Safe(c) => Safe(c)'
    BY <1>I, <1>S, <2>1
  <2>3. CoveredSafe'
    BY <1>I, <1>P, <2>1, <2>2 DEF CoveredSafe
  <2>4. PartsSafe'
    BY <1>P, <2>1, SameDefault DEF PartsSafe
  <2>5. PICK n \in Int : n = script.day
    BY <1>I
  <2>6. Safe(n)'
    BY <2>1, <2>5, CreatedSafe
  <2>7. LoopSafe'
    BY <2>1, <2>2, <2>5, <2>6, LoopGoesOn
  <2> QED  BY <1>T, <2>3, <2>4, <2>7 DEF PartInv
<1>6. CASE CreateFails \/ KillScript
  BY <1>6, <1>O DEF CreateFails, KillScript
<1>7. CASE FinishScript
  <2>1. /\ UNCHANGED <<rows, today, parts>> /\ script' = Off
        /\ covered' = covered \cup Window(script.base, DaysAhead)
    BY <1>7 DEF FinishScript
  <2>2. \A c \in Int : Safe(c) => Safe(c)'
    BY <1>I, <1>S, <2>1
  <2>3. ASSUME NEW d \in Window(script.base, DaysAhead)
        PROVE  d \in Int /\ d \in (script.base - 1) .. (script.day - 1)
    BY <1>7, <1>I, DaysAssumption DEF Window, FinishScript, InLoop
  <2>4. \A d \in Window(script.base, DaysAhead) : Safe(d)'
    BY <1>7, <1>P, <2>2, <2>3 DEF LoopSafe, FinishScript
  <2>5. CoveredSafe'
    BY <1>I, <1>P, <2>1, <2>2, <2>4 DEF CoveredSafe
  <2>6. PartsSafe'
    BY <1>P, <2>1, SameDefault DEF PartsSafe
  <2> QED  BY <1>T, <2>1, <2>5, <2>6, OffLoop DEF PartInv
<1>8. CASE RunInitScript
  <2> DEFINE W == Window(today, InitAhead)
  <2>1. /\ UNCHANGED <<rows, today, script>>
        /\ parts' = parts \cup W /\ covered' = covered \cup W
        /\ \A d \in W \ parts : ~InDefault(d)
    BY <1>8 DEF RunInitScript
  <2> HIDE DEF W
  <2>2. \A c \in Int : Safe(c) => Safe(c)'
    BY <1>I, <1>S, <2>1
  <2>3. \A d \in W : ~InDefault(d)
    BY <1>P, <2>1 DEF PartsSafe
  <2>4. \A d \in W : Safe(d)'
    BY <2>1, <2>3, CreatedSafe
  <2>5. CoveredSafe'
    BY <1>I, <1>P, <2>1, <2>2, <2>4 DEF CoveredSafe
  <2>6. PartsSafe'
    BY <1>P, <2>1, <2>3, SameDefault DEF PartsSafe
  <2>7. LoopSafe'
    <3>1. \A d \in (script.base - 1) .. (script.day - 1) : d \in Int
      BY <1>I
    <3> QED  BY <1>P, <2>1, <2>2, <3>1 DEF LoopSafe
  <2> QED  BY <1>T, <2>5, <2>6, <2>7 DEF PartInv
<1>9. ASSUME NEW d \in parts, DropDay(d) PROVE PartInv'
  <2>1. \A c \in Int : Safe(c) => Safe(c)'
    BY <1>9, <1>T, DropSafe
  <2>2. CoveredSafe' /\ LoopSafe'
    BY <1>9, <1>I, <2>1, SafeCarries DEF DropDay
  <2>3. \A c \in parts : ~InDefault(c)'
    BY <1>9, <1>T, <1>P, DropKeeps DEF PartsSafe
  <2>4. PartsSafe'
    BY <1>9, <2>3 DEF DropDay, PartsSafe
  <2> QED  BY <1>T, <2>2, <2>4 DEF PartInv
<1>10. CASE Poll \/ ResetOffset \/ UNCHANGED vars
  BY <1>10, <1>I, <1>Q DEF Poll, ResetOffset, vars
<1> QED
  BY <1>1, <1>2, <1>3, <1>4, <1>5, <1>6, <1>7, <1>8, <1>9, <1>10 DEF Next

LEMMA InitPartInv == Init => PartInv
<1> SUFFICES ASSUME Init PROVE PartInv
  OBVIOUS
<1>1. rows \in Seq([day : Days, table : {"daily", "default", "dropped"}]) /\ Len(rows) = 0 /\ Event = {}
  BY DEF Init, Event
<1>2. TypeOK
  BY <1>1, OffType, DaysAssumption DEF Init, TypeOK
<1> QED
  BY <1>2 DEF Init, PartInv, PartsSafe, CoveredSafe, LoopSafe, Off

(***************************************************************************)
(* The inductive invariant: the day of a partition is clean, and the days  *)
(* a finished run covered and those the loop of the present run has left   *)
(* behind are safe.                                                        *)
(***************************************************************************)
THEOREM PartitionsInductive == Spec => []PartInv
<1> QED  BY InitPartInv, StepPartInv, PTL DEF Spec

\* The variables keep their types: the offset names an event, and the
\* scripts create no day outside their windows.
THEOREM PartitionsTypeCorrect == Spec => []TypeOK
<1>1. PartInv => TypeOK
  BY DEF PartInv
<1> QED  BY <1>1, PartitionsInductive, PTL

(***************************************************************************)
(* A run of create_partitions.py or init_partitions.sql that ended without *)
(* an error has covered its window for good: no event of those days is     *)
(* ever in the default partition, even when retention has dropped the day. *)
(***************************************************************************)
THEOREM CoveredForGood == Spec => []SuccessCoversWindow
<1>1. PartInv => SuccessCoversWindow
  BY DEF PartInv, CoveredSafe, Safe, SuccessCoversWindow
<1> QED  BY <1>1, PartitionsInductive, PTL

(***************************************************************************)
(* create_partitions.py creates the partition of a day only when no row of *)
(* that day or of an earlier one of its window is in the default           *)
(* partition: a day in arrears stops everything behind it.                 *)
(***************************************************************************)
THEOREM ArrearsStop == Spec => NothingBehindArrears
<1> DEFINE Ahead == \A d \in parts' \ parts : script' # script =>
                      \A b \in (script.base - 1) .. d : ~InDefault(b)
<1>1. PartInv /\ [Next]_vars => [Ahead]_vars
  <2> SUFFICES ASSUME PartInv, Next, NEW d \in parts' \ parts, script' # script,
                      NEW b \in (script.base - 1) .. d
               PROVE  ~InDefault(b)
    OBVIOUS
  <2>1. CreateDay
    BY DEF Next, NextDay, Insert, StartScript, SkipDay, CreateFails, FinishScript, KillScript,
           RunInitScript, DropDay, Poll, ResetOffset, schema
  <2>2. d = script.day /\ ~InDefault(script.day) /\ script.pc = "loop"
    BY <2>1 DEF CreateDay, InLoop
  <2>3. script.base \in Int /\ script.day \in Int
    BY DaysAreInts DEF PartInv
  <2>4. CASE b = script.day
    BY <2>2, <2>4
  <2>5. CASE b # script.day
    <3>1. b \in (script.base - 1) .. (script.day - 1)
      BY <2>2, <2>3, <2>5
    <3> QED  BY <2>2, <3>1 DEF PartInv, LoopSafe, Safe
  <2> QED  BY <2>4, <2>5
<1> HIDE DEF Ahead
<1>2. NothingBehindArrears <=> [][Ahead]_vars
  BY DEF NothingBehindArrears, Ahead
<1> QED
  BY <1>1, <1>2, PartitionsInductive, PTL DEF Spec
=============================================================================
