---------------------------- MODULE MCReplayLoop ----------------------------
(* The instance of ReplayLoop that TLC checks.                             *)
EXTENDS ReplayLoop
=============================================================================
