--------------------------- MODULE MCLeaderboard ---------------------------
(***************************************************************************)
(* Instances of Leaderboard for TLC.  Three payments of m1, one more than  *)
(* fits in a batch, and one of m2 in the month of the board; e5 is of the  *)
(* first day of the next month.  The first of two requests lists one       *)
(* merchant, the second all of them.                                       *)
(***************************************************************************)
EXTENDS Leaderboard

MCMerchants == {"m1", "m2"}
MCMerchantOf == [e \in Event |-> IF e \in {"e1", "e2", "e3"} THEN "m1" ELSE "m2"]
MCAmountOf == [e \in Event |-> IF e = "e4" THEN 2 ELSE 1]
MCDayOf == [e \in Event |-> IF e = "e5" THEN 2 ELSE 1]

MCFivePayments == {"e1", "e2", "e3", "e4", "e5"}
MCTwoPayments == {"e1", "e4"}
MCOneReader == {"r1"}
MCTwoReaders == {"r1", "r2"}
MCWide == [r \in Reader |-> Cardinality(Merchant)]
MCNarrowAndWide == [r \in Reader |-> IF r = "r1" THEN 1 ELSE Cardinality(Merchant)]
=============================================================================
