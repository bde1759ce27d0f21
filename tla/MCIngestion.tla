---------------------------- MODULE MCIngestion -----------------------------
(***************************************************************************)
(* Instances of Ingestion for TLC.  r1 is a single event and r3 a batch    *)
(* that lists the keys of the batch r2 in the other order, so that the two *)
(* can deadlock; r4 repeats a key; r5 names an unknown merchant, or is a   *)
(* retry of r1 in the instance of two requests.                            *)
(***************************************************************************)
EXTENDS Ingestion

MCKey == {"k1", "k2"}
MCEventsOf == [r \in Request |->
  CASE r = "r1" -> <<"k1">>
    [] r = "r2" -> <<"k1", "k2">>
    [] r = "r3" -> <<"k2", "k1">>
    [] r = "r4" -> <<"k2", "k2">>
    [] r = "r5" -> <<"k1">>]
MCBatch == Request \cap {"r2", "r3", "r4"}
MCDayOf == [r \in Request |-> IF r \in {"r1", "r2"} THEN 1 ELSE 2]

MCFive == {"r1", "r2", "r3", "r4", "r5"}
MCSingles == {"r1", "r5"}
=============================================================================
