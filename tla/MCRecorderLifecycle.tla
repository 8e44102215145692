------------------------ MODULE MCRecorderLifecycle -------------------------
(* The instance of RecorderLifecycle that TLC checks.                      *)
EXTENDS RecorderLifecycle
=============================================================================
