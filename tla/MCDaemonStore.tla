--------------------------- MODULE MCDaemonStore ---------------------------
(***************************************************************************)
(* DaemonStore with the two tunnels, which share a repository.             *)
(***************************************************************************)
EXTENDS DaemonStore, TLC

CONSTANTS tunnel, ssh, storage, main, mqtt

OneRepository == (ssh :> tunnel @@ storage :> tunnel)
=============================================================================
