------------------------------ MODULE Ranking ------------------------------
(***************************************************************************)
(* The first n merchants by volume, as the leaderboard's queries and its   *)
(* sorted set return them: those with a row, the larger volumes first.     *)
(* Which of two equal volumes makes the cut is left open.                  *)
(*                                                                         *)
(* Source: the ORDER BY ... DESC LIMIT of scripts/nightly_compaction.py    *)
(* and app/repositories/rollup_repository.py, and the ZREVRANGE of         *)
(* app/repositories/redis_repository.py.                                   *)
(***************************************************************************)
EXTENDS Naturals, FiniteSets, FiniteSetsExt

Ranked(volume) == {m \in DOMAIN volume : volume[m] > 0}

IsTop(T, n, volume) ==
  /\ T \subseteq Ranked(volume)
  /\ Cardinality(T) = Min({n, Cardinality(Ranked(volume))})
  /\ \A m \in T, k \in Ranked(volume) \ T : volume[m] >= volume[k]

\* The rows of T.
RowsOf(T, volume) == [m \in DOMAIN volume |-> IF m \in T THEN volume[m] ELSE 0]
=============================================================================
