-------------------------- MODULE MCSlamTimerList ---------------------------
(* SlamTimerList with a few timers over a short stretch of time.           *)
EXTENDS SlamTimerList
=============================================================================
