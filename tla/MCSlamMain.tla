----------------------------- MODULE MCSlamMain -----------------------------
(* SlamMain with the workers of the configuration.                         *)
EXTENDS SlamMain
=============================================================================
