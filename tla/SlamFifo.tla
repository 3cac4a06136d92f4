------------------------------ MODULE SlamFifo ------------------------------
(***************************************************************************)
(* What a message queue of io/slam_message_queue.c promises to the thread  *)
(* that pushes and the thread that pops: a bounded FIFO.  A message that   *)
(* was accepted is handed over once, in order, or is freed when the queue  *)
(* is deleted.  The promise is not unconditional: the process may abort,   *)
(* but not before more messages than the queue can hold were accepted.     *)
(***************************************************************************)
EXTENDS Naturals, Sequences

CONSTANTS Message,      \* the messages a producer may push
          Capacity      \* how many unread messages the queue can hold

VARIABLES pending,      \* accepted and not yet handed over
          delivered,    \* handed over by pop_front, in order
          status        \* "running", "deleted" or "aborted"

vars == <<pending, delivered, status>>

Init ==
  /\ pending = << >>
  /\ delivered = << >>
  /\ status = "running"

Put(m) ==
  /\ status = "running"
  /\ Len(pending) < Capacity
  /\ pending' = Append(pending, m)
  /\ UNCHANGED <<delivered, status>>

Take ==
  /\ status = "running"
  /\ pending # << >>
  /\ delivered' = Append(delivered, Head(pending))
  /\ pending' = Tail(pending)
  /\ UNCHANGED status

Discard ==
  /\ status = "running"
  /\ status' = "deleted"
  /\ pending' = << >>
  /\ UNCHANGED delivered

Abort ==
  /\ status = "running"
  /\ Len(delivered) + Len(pending) > Capacity
  /\ status' = "aborted"
  /\ UNCHANGED <<pending, delivered>>

Next ==
  \/ \E m \in Message : Put(m)
  \/ Take
  \/ Discard
  \/ Abort

Spec == Init /\ [][Next]_vars
=============================================================================
