------------------------- MODULE MCSlamMessageQueue -------------------------
(* SlamMessageQueue on three slots with two message values.                *)
EXTENDS SlamMessageQueue
=============================================================================
