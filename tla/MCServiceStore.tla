-------------------------- MODULE MCServiceStore --------------------------
(***************************************************************************)
(* ServiceStore on small instances: one or two services, and enough        *)
(* commands for every request to make one clone.                           *)
(***************************************************************************)
EXTENDS ServiceStore, TLC

CONSTANTS core, ble, c1, c2, c3, c4, main, h1, h2, m1

OneService == (core :> c1)
TwoServices == (core :> c1 @@ ble :> c2)
=============================================================================
