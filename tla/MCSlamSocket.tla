---------------------------- MODULE MCSlamSocket ----------------------------
(* SlamSocket with messages of a few bytes.                                *)
EXTENDS SlamSocket
=============================================================================
