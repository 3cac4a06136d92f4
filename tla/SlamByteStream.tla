--------------------------- MODULE SlamByteStream ---------------------------
(***************************************************************************)
(* What slam_byte_buffer.c promises to the code that uses it: a stream of  *)
(* bytes without a limit.  What is written comes out once and in order,    *)
(* unless the buffer is emptied or deleted; a caller that takes more bytes *)
(* than there are is stopped by an assertion.                              *)
(***************************************************************************)
EXTENDS Naturals, Sequences

CONSTANT Text           \* what may be written in one call

VARIABLES content,      \* written and not yet taken
          out,          \* what the last call took
          status        \* "none", "live" or "aborted"

vars == <<content, out, status>>

Init == content = << >> /\ out = << >> /\ status = "none"

Open ==
  /\ status = "none"
  /\ status' = "live"
  /\ UNCHANGED <<content, out>>

Close ==
  /\ status = "live"
  /\ status' = "none"
  /\ content' = << >> /\ out' = << >>

Put(s) ==
  /\ status = "live"
  /\ content' = content \o s
  /\ UNCHANGED <<out, status>>

Take(n) ==
  /\ status = "live"
  /\ n \in 0 .. Len(content)
  /\ out' = SubSeq(content, 1, n)
  /\ content' = SubSeq(content, n + 1, Len(content))
  /\ UNCHANGED status

Empty ==
  /\ status = "live"
  /\ content' = << >>
  /\ UNCHANGED <<out, status>>

\* the caller asked for more than there is
Abort ==
  /\ status = "live"
  /\ status' = "aborted"
  /\ UNCHANGED <<content, out>>

Next ==
  \/ Open \/ Close \/ Empty \/ Abort
  \/ \E s \in Text : Put(s)
  \/ \E n \in 0 .. Len(content) : Take(n)

Spec == Init /\ [][Next]_vars
=============================================================================
