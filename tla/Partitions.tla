----------------------------- MODULE Partitions -----------------------------
(***************************************************************************)
(* The partitions of raw_events, one per day of occurred_at, the default   *)
(* partition next to them, and what depends on them: where an insert goes, *)
(* which days the scripts can create, which rows retention can drop, and   *)
(* the worker's cursor, which names a row.                                 *)
(*                                                                         *)
(* PostgreSQL puts a row of a day without a partition into the default     *)
(* partition, and refuses to create the partition of a day of which the    *)
(* default holds a row.  Creating a partition locks out the inserts, so an *)
(* insert is one step here.  Transactions are serial: the order in which   *)
(* they store their rows is the order of created_at.  An event is the      *)
(* position of its row in that order.                                      *)
(*                                                                         *)
(* Source: scripts/create_partitions.py, scripts/init_partitions.sql,      *)
(* migrations/versions/0001_initial_schema.py, app/repositories/           *)
(* event_repository.py (get_events_after), app/services/                   *)
(* ingestion_service.py.                                                   *)
(***************************************************************************)
EXTENDS Integers, Sequences, FiniteSets, FiniteSetsExt

CONSTANTS
  MaxRows,    \* bound: events
  MaxDay,     \* bound: days 0 .. MaxDay
  DaysAhead,  \* --days of create_partitions.py
  InitAhead,  \* the days ahead init_partitions.sql creates
  Keep,       \* retention leaves the last Keep days alone
  BatchSize,  \* settings.worker_batch_size
  MaxResets   \* bound: replays an operator asks for

ASSUME DaysAssumption ==
  /\ MaxRows \in Nat /\ MaxDay \in Nat /\ DaysAhead \in Nat /\ InitAhead \in Nat
  /\ Keep \in Nat \ {0} /\ BatchSize \in Nat \ {0} /\ MaxResets \in Nat

VARIABLES
  today,
  parts,      \* the days with a partition
  rows,       \* the events in the order of created_at, dropped ones too: the
              \* day of occurred_at, and the table the row is in
  script,     \* create_partitions.py: where it is, its date.today(), the
              \* day it is at
  covered,    \* days some successful run of a script went through
  offset,     \* consumer_offsets.last_event_id; 0 is none
  aggregated, \* events the worker has aggregated
  resets

schema == <<parts, covered>>
worker == <<offset, aggregated, resets>>
vars == <<today, schema, rows, script, worker>>

Event == DOMAIN rows
Stored == {e \in Event : rows[e].table # "dropped"}
InDefault(d) == \E e \in Event : rows[e] = [day |-> d, table |-> "default"]

\* The days a run that starts on day b goes through: yesterday, for safety,
\* and the days ahead.
Window(b, ahead) == (b - 1) .. (b + ahead)

Off == [pc |-> "off", base |-> 0, day |-> 0]

\* The migration creates raw_events and its default partition only; the
\* script of the database image has run before, and found no raw_events.
Init ==
  /\ today = 0
  /\ parts = {} /\ covered = {}
  /\ rows = <<>>
  /\ script = Off
  /\ offset = 0 /\ aggregated = {} /\ resets = 0
-----------------------------------------------------------------------------
NextDay ==
  /\ today < MaxDay
  /\ today' = today + 1
  /\ UNCHANGED <<schema, rows, script, worker>>

\* occurred_at is taken before the INSERT runs, which may be after midnight.
Insert ==
  /\ Len(rows) < MaxRows
  /\ \E d \in {today, today - 1} :
       rows' = Append(rows, [day |-> d, table |-> IF d \in parts THEN "daily" ELSE "default"])
  /\ UNCHANGED <<today, schema, script, worker>>
-----------------------------------------------------------------------------
\* Nightly, or by hand; what today is, is read once.
StartScript ==
  /\ script.pc = "off"
  /\ script' = [pc |-> "loop", base |-> today, day |-> today - 1]
  /\ UNCHANGED <<today, schema, rows, worker>>

\* Mutant of InLoop: the loop ends a day late.
InLoopLong == script.pc = "loop" /\ script.day <= script.base + DaysAhead + 1

\* Mutant of InLoop: the loop ends a day early.
InLoopShort == script.pc = "loop" /\ script.day < script.base + DaysAhead

InLoop == script.pc = "loop" /\ script.day <= script.base + DaysAhead

NextTarget == script' = [script EXCEPT !.day = @ + 1]

SkipDay ==
  /\ InLoop /\ script.day \in parts
  /\ NextTarget
  /\ UNCHANGED <<today, schema, rows, worker>>

\* Every statement is a transaction of its own (asyncpg, no transaction).
CreateDay ==
  /\ InLoop /\ script.day \notin parts /\ ~InDefault(script.day)
  /\ parts' = parts \cup {script.day}
  /\ NextTarget
  /\ UNCHANGED <<today, covered, rows, worker>>

\* Mutant of CreateFails: the error of a day is caught, and the run goes on.
CreateFailsAndGoesOn ==
  /\ InLoop /\ script.day \notin parts /\ InDefault(script.day)
  /\ NextTarget
  /\ UNCHANGED <<today, schema, rows, worker>>

\* The default partition holds rows of the day: an error, which ends the run.
CreateFails ==
  /\ InLoop /\ script.day \notin parts /\ InDefault(script.day)
  /\ script' = Off
  /\ UNCHANGED <<today, schema, rows, worker>>

FinishScript ==
  /\ script.pc = "loop" /\ ~InLoop
  /\ covered' = covered \cup Window(script.base, DaysAhead)
  /\ script' = Off
  /\ UNCHANGED <<today, parts, rows, worker>>

\* The connection is lost, or the job is killed.
KillScript ==
  /\ script.pc = "loop"
  /\ script' = Off
  /\ UNCHANGED <<today, schema, rows, worker>>

\* init_partitions.sql by hand: one DO block, all or nothing.
RunInitScript ==
  LET W == Window(today, InitAhead) IN
  /\ \A d \in W \ parts : ~InDefault(d)
  /\ parts' = parts \cup W
  /\ covered' = covered \cup W
  /\ UNCHANGED <<today, rows, script, worker>>

\* An operator drops the partition of an old day.
DropDay(d) ==
  /\ d \in parts /\ d < today - Keep
  /\ parts' = parts \ {d}
  /\ rows' = [e \in Event |-> IF rows[e] = [day |-> d, table |-> "daily"]
                              THEN [rows[e] EXCEPT !.table = "dropped"] ELSE rows[e]]
  /\ UNCHANGED <<today, covered, script, worker>>
-----------------------------------------------------------------------------
\* created_at > (SELECT created_at ... WHERE id = last_event_id): without
\* that row the subquery is NULL, and no row satisfies the comparison.
OffsetIsDropped == offset # 0 /\ offset \notin Stored
After == IF OffsetIsDropped THEN {} ELSE {e \in Stored : e > offset}

\* ORDER BY created_at LIMIT limit
Page == {e \in After : Cardinality({f \in After : f < e}) < BatchSize}

\* Mutant of Poll: the offset becomes the newest event, not the page's last.
PollToNewest ==
  /\ Page # {}
  /\ aggregated' = aggregated \cup Page
  /\ offset' = Max(Stored)
  /\ UNCHANGED <<today, schema, rows, script, resets>>

Poll ==
  /\ Page # {}
  /\ aggregated' = aggregated \cup Page
  /\ offset' = Max(Page)
  /\ UNCHANGED <<today, schema, rows, script, resets>>

\* An operator clears the offset for a replay.
ResetOffset ==
  /\ offset # 0 /\ resets < MaxResets
  /\ offset' = 0
  /\ resets' = resets + 1
  /\ UNCHANGED <<today, schema, rows, script, aggregated>>
-----------------------------------------------------------------------------
Next ==
  \/ NextDay
  \/ Insert
  \/ StartScript \/ SkipDay \/ CreateDay \/ CreateFails \/ FinishScript \/ KillScript
  \/ RunInitScript
  \/ \E d \in parts : DropDay(d)
  \/ Poll \/ ResetOffset

Spec == Init /\ [][Next]_vars

\* The worker polls for ever (WorkerLoop).
FairSpec == Spec /\ WF_vars(Poll)
-----------------------------------------------------------------------------
Days == -1 .. MaxDay
Targets == -1 .. (MaxDay + DaysAhead + 1)

TypeOK ==
  /\ today \in 0 .. MaxDay
  /\ parts \subseteq -1 .. (MaxDay + DaysAhead + InitAhead)
  /\ covered \subseteq -1 .. (MaxDay + DaysAhead + InitAhead)
  /\ rows \in Seq([day : Days, table : {"daily", "default", "dropped"}])
  /\ Len(rows) <= MaxRows
  /\ script \in [pc : {"off", "loop"}, base : 0 .. MaxDay, day : Targets]
  /\ offset \in 0 .. Len(rows)
  /\ aggregated \in SUBSET Event
  /\ resets \in 0 .. MaxResets

(***************************************************************************)
(* A run that ended without an error has covered its window for good: no   *)
(* event of one of its days is ever in the default partition, where        *)
(* retention cannot reach it, whether it was stored before the run, during *)
(* it or after it, and on whichever side of midnight.                      *)
(***************************************************************************)
SuccessCoversWindow == \A d \in covered : ~InDefault(d)

(***************************************************************************)
(* A day that is in arrears stops everything behind it: as long as the     *)
(* default partition holds a row of yesterday or of a day up to d, no run  *)
(* of create_partitions.py creates the partition of d.  Once behind, the   *)
(* script does not get ahead again.                                        *)
(***************************************************************************)
NothingBehindArrears ==
  [][\A d \in parts' \ parts : script' # script =>
       \A b \in (script.base - 1) .. d : ~InDefault(b)]_vars

(***************************************************************************)
(* Every event that is stored is aggregated, across days, default and      *)
(* daily partitions, replays and retention, unless retention is faster     *)
(* than the worker: the event itself or the one the offset names is        *)
(* dropped.  In the second case the worker finds nothing any more.         *)
(***************************************************************************)
AggregatedUnlessDropped ==
  \A e \in 1 .. MaxRows :
    e \in Stored ~> (e \in aggregated \/ e \notin Stored \/ OffsetIsDropped)
=============================================================================
