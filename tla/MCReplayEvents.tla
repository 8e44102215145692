---------------------------- MODULE MCReplayEvents ----------------------------
(* The instance of ReplayEvents that TLC checks.                           *)
EXTENDS ReplayEvents
=============================================================================
