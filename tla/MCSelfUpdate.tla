---------------------------- MODULE MCSelfUpdate ----------------------------
(***************************************************************************)
(* SelfUpdate with the version that is installed and one other.            *)
(***************************************************************************)
EXTENDS SelfUpdate

CONSTANTS v1, v2
=============================================================================
