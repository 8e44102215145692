--------------------------- MODULE MCNodeRecorder ---------------------------
(* The instance of NodeRecorder that TLC checks.                           *)
EXTENDS NodeRecorder
=============================================================================
