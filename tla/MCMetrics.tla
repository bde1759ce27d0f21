----------------------------- MODULE MCMetrics -----------------------------
(***************************************************************************)
(* The instance of Metrics for TLC, on a scale where a minute is 1, an     *)
(* hour 2 and a day 4: a range for the minute table, with an event at      *)
(* either edge; one for the hour table, whose last bucket holds both       *)
(* events; one for the day table, whose first bucket they fall in but      *)
(* which begins after it; and an empty one.  Requests are interchangeable. *)
(***************************************************************************)
EXTENDS Metrics, TLC

CONSTANTS r1, r2

MCEvent == {"e1", "e2"}
MCTsOf == [e \in Event |-> IF e = "e1" THEN 2 ELSE 3]
MCReader == {r1, r2}
MCReaders == Permutations(MCReader)
MCRange == {<<2, 3>>, <<0, 2>>, <<1, 5>>, <<3, 3>>}
MCWindow == {1}
MCWidth == [g \in Granularity |-> CASE g = "minute" -> 1 [] g = "hour" -> 2 [] g = "day" -> 4]
MCTtl == [g \in Granularity |-> IF g = "day" THEN 2 ELSE 1]
=============================================================================
