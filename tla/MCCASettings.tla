----------------------------- MODULE MCCASettings -----------------------------
(* The instance of CASettings that TLC checks.                             *)
EXTENDS CASettings
=============================================================================
