----------------------------- MODULE MCCommand -----------------------------
(***************************************************************************)
(* Command on a small instance: one command, three goroutines.             *)
(***************************************************************************)
EXTENDS Command, TLC

CONSTANTS c1, g1, g2, g3
=============================================================================
