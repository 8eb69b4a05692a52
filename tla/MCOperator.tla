---------------------------- MODULE MCOperator ----------------------------
(***************************************************************************)
(* Operator with two of its eleven topics: one that only reports and one   *)
(* that restarts the operator.                                             *)
(***************************************************************************)
EXTENDS Operator

CONSTANTS healthz, restart
=============================================================================
