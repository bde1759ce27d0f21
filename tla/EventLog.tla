------------------------------ MODULE EventLog ------------------------------
(***************************************************************************)
(* What ingestion promises: a log of events in which an idempotency key is *)
(* claimed at most once and for good.  A request adds the events of all    *)
(* its keys that are new, in one step, or never any: after that step none  *)
(* of its keys is new, so it cannot add a second time.  Retention may drop *)
(* events, never their keys.  The id of an event is written                *)
(* <<request, key>>: a request creates a UUID for every key it carries.    *)
(***************************************************************************)
CONSTANTS
  Request, Key, NoId,
  KeysOf    \* the keys a request carries

Id == Request \X Key

VARIABLES
  keyed,    \* the id a key was claimed for
  stored    \* the ids of the stored events

Init == keyed = [k \in Key |-> NoId] /\ stored = {}

New(r) == {k \in KeysOf[r] : keyed[k] = NoId}

Append(r) ==
  /\ New(r) # {}
  /\ keyed' = [k \in Key |-> IF k \in New(r) THEN <<r, k>> ELSE keyed[k]]
  /\ stored' = stored \cup ({r} \X New(r))

Drop(S) ==
  /\ stored' = stored \ S
  /\ UNCHANGED keyed

Next ==
  \/ \E r \in Request : Append(r)
  \/ \E S \in SUBSET stored : Drop(S)

Spec == Init /\ [][Next]_<<keyed, stored>>
=============================================================================
