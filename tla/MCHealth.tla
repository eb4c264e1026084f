------------------------------ MODULE MCHealth ------------------------------
(***************************************************************************)
(* A small instance of HealthEndpoint for TLC: two of three projects are   *)
(* lists of one repository.                                                *)
(***************************************************************************)
EXTENDS HealthEndpoint

MCName == [p \in Projects |-> IF p = 3 THEN "owner/other" ELSE "owner/repo"]
=============================================================================
