-------------------------- MODULE MCMachineRecorder --------------------------
(* The instance of MachineRecorder that TLC checks.                        *)
EXTENDS MachineRecorder
=============================================================================
