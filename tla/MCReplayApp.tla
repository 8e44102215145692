----------------------------- MODULE MCReplayApp ----------------------------
(* The instances of ReplayApp that TLC checks: the reports are those of one*)
(* cluster, so that they share the pod of their SR replays.                *)
EXTENDS ReplayApp

CONSTANT Reported

MCClusterOf == [r \in Reports |-> Reported]
=============================================================================
