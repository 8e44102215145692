---------------------------- MODULE MCPodRecorder ----------------------------
(* The instance of PodRecorder that TLC checks: the contents of a pod from *)
(* its creation to its end, with a hash that does not cover the phase, and *)
(* names that are the same but for the namespace.                          *)
EXTENDS PodRecorder, TLC

CONSTANTS waiting, bound, done, shared

MCSpecs == {waiting, bound, done}
MCFinished == {done}
MCHashOf == [s \in MCSpecs |-> IF s = done THEN bound ELSE s]
MCBareName == [n \in Names |-> shared]
MCSymmetry == Permutations(Names)
=============================================================================
