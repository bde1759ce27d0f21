------------------------------ MODULE MCHealth ------------------------------
(***************************************************************************)
(* An instance of Health for TLC: two replicas that race to migrate, one   *)
(* that leaves the migrations to them and runs in a process that has       *)
(* filled the registries, as the tests do.                                 *)
(***************************************************************************)
EXTENDS Health

MCReplica == {"a", "b", "c"}
MCLast == {"c"}
MCProbed == {"a"}
=============================================================================
