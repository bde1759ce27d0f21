---------------------------- MODULE MCPartitions ----------------------------
(***************************************************************************)
(* The instance of Partitions for TLC; its constants are numbers, which    *)
(* partitions_days.cfg gives.                                              *)
(***************************************************************************)
EXTENDS Partitions
=============================================================================
