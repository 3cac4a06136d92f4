-------------------------- MODULE SlamMessageQueue --------------------------
(***************************************************************************)
(* io/slam_message_queue.c: a ring buffer shared, without a lock, by one   *)
(* thread that pushes and one thread that pops.  The worker's receive      *)
(* queue mq is pushed by the IO thread and popped by the worker; a         *)
(* socket's sendmq the other way round.                                    *)
(*                                                                         *)
(* A step is one access to a field the other thread also uses, in program  *)
(* order (the build is Debug, x86-64).  In "return queue[rindex++]" the C  *)
(* language leaves open whether the slot is loaded before or after rindex  *)
(* is stored, so both orders are steps of the model.                       *)
(*                                                                         *)
(* pop_front increments rindex without the "% maxsize" that push_back      *)
(* applies to windex.  rindex is therefore also the number of messages     *)
(* popped, it reaches MaxSize, and the next ASSERT_QUEUE ends the process. *)
(***************************************************************************)
EXTENDS Integers, Sequences

CONSTANTS Message,      \* the messages (pointers) that are pushed
          NoMessage,    \* a null pointer, and a slot never written
          MaxSize,      \* maxsize: the number of slots
          MaxPush       \* bound: how many messages are pushed

ASSUME MaxSizeAssumption == MaxSize \in Nat \ {0}
ASSUME MaxPushAssumption == MaxPush \in Nat
ASSUME NoMessageAssumption == NoMessage \notin Message

VARIABLES
  queue,            \* the slots
  rindex, windex,   \* next slot to read, next slot to write
  read_number, write_number,
  ppc,              \* where the producer is inside push_back
  pushing,          \* the message push_back was called with
  cpc,              \* where the consumer is inside pop_front
  loaded,           \* the slot value pop_front has already loaded
  peeked,           \* what front returned since the last pop_front
  pushed,           \* history: the messages push_back has published
  delivered,        \* history: the messages pop_front has returned
  freed,            \* the messages slam_message_queue_delete has freed
  status            \* "running", "deleted" or "aborted" (a failed assert)

indices == <<rindex, windex>>
counters == <<read_number, write_number>>
producer == <<ppc, pushing>>
consumer == <<cpc, loaded, peeked>>
messages == <<pushed, delivered, freed>>
vars == <<queue, indices, counters, producer, consumer, messages, status>>

Slot == 0 .. MaxSize - 1

Init ==
  /\ queue = [i \in Slot |-> NoMessage]
  /\ rindex = 0 /\ windex = 0
  /\ read_number = 0 /\ write_number = 0
  /\ ppc = "idle" /\ pushing = NoMessage
  /\ cpc = "idle" /\ loaded = NoMessage /\ peeked = NoMessage
  /\ pushed = << >> /\ delivered = << >> /\ freed = << >>
  /\ status = "running"

\* ASSERT_QUEUE(mq)
AssertQueue == rindex \in Slot /\ windex \in Slot

\* A thread calls an operation while ASSERT_QUEUE does not hold.
Abort ==
  /\ status = "running"
  /\ ppc = "idle" \/ cpc = "idle"
  /\ ~AssertQueue
  /\ status' = "aborted"
  /\ UNCHANGED <<queue, indices, counters, producer, consumer, messages>>

-----------------------------------------------------------------------------
(* push_back, by the producer.                                             *)

NextIndex == (windex + 1) % MaxSize

\* mutant: the full test is forgotten
NeverFull == FALSE

Full == NextIndex = rindex

\* Moves the producer from one point of push_back to the next.
ProducerGoes(from, to) ==
  /\ status = "running"
  /\ ppc = from
  /\ ppc' = to
  /\ UNCHANGED <<rindex, read_number, consumer, delivered, freed, status>>

PushBegin(m) ==
  /\ ProducerGoes("idle", "check")
  /\ Len(pushed) < MaxPush
  /\ AssertQueue
  /\ pushing' = m
  /\ UNCHANGED <<queue, windex, write_number, pushed>>

\* "mq is full": push_back returns false and the caller keeps the message.
PushFull ==
  /\ ProducerGoes("check", "idle")
  /\ Full
  /\ UNCHANGED <<queue, windex, write_number, pushing, pushed>>

PushRoom ==
  /\ ProducerGoes("check", "store")
  /\ ~Full
  /\ UNCHANGED <<queue, windex, write_number, pushing, pushed>>

PushStore ==
  /\ ProducerGoes("store", "publish")
  /\ queue' = [queue EXCEPT ![windex] = pushing]
  /\ UNCHANGED <<windex, write_number, pushing, pushed>>

PushPublish ==
  /\ ProducerGoes("publish", "count")
  /\ windex' = NextIndex
  /\ pushed' = Append(pushed, pushing)
  /\ UNCHANGED <<queue, write_number, pushing>>

PushCount ==
  /\ ProducerGoes("count", "idle")
  /\ write_number' = write_number + 1
  /\ UNCHANGED <<queue, windex, pushing, pushed>>

-----------------------------------------------------------------------------
(* front and pop_front, by the consumer.  On an empty queue both return a  *)
(* null pointer and change nothing.                                        *)

\* Moves the consumer from one point of pop_front to the next.
ConsumerGoes(from, to) ==
  /\ status = "running"
  /\ cpc = from
  /\ cpc' = to
  /\ UNCHANGED <<queue, windex, write_number, producer, pushed, freed, status>>

Front ==
  /\ ConsumerGoes("idle", "idle")
  /\ AssertQueue
  /\ rindex # windex
  /\ peeked' = queue[rindex]
  /\ UNCHANGED <<rindex, read_number, loaded, delivered>>

PopBegin ==
  /\ ConsumerGoes("idle", "pop")
  /\ AssertQueue
  /\ rindex # windex
  /\ read_number' = read_number + 1
  /\ UNCHANGED <<rindex, loaded, peeked, delivered>>

\* rindex++ is stored first, the slot is loaded afterwards
PopAdvanceFirst ==
  /\ ConsumerGoes("pop", "load")
  /\ rindex' = rindex + 1
  /\ UNCHANGED <<read_number, loaded, peeked, delivered>>

\* mutant: queue[++rindex] instead of queue[rindex++]
PopLoadPreIncrement ==
  /\ ConsumerGoes("load", "idle")
  /\ delivered' = Append(delivered, queue[rindex % MaxSize])
  /\ peeked' = NoMessage
  /\ UNCHANGED <<rindex, read_number, loaded>>

PopLoadLast ==
  /\ ConsumerGoes("load", "idle")
  /\ delivered' = Append(delivered, queue[rindex - 1])
  /\ peeked' = NoMessage
  /\ UNCHANGED <<rindex, read_number, loaded>>

\* the slot is loaded first, rindex++ is stored afterwards
PopLoadFirst ==
  /\ ConsumerGoes("pop", "advance")
  /\ loaded' = queue[rindex]
  /\ UNCHANGED <<rindex, read_number, peeked, delivered>>

PopAdvanceLast ==
  /\ ConsumerGoes("advance", "idle")
  /\ rindex' = rindex + 1
  /\ delivered' = Append(delivered, loaded)
  /\ peeked' = NoMessage
  /\ UNCHANGED <<read_number, loaded>>

-----------------------------------------------------------------------------
(* slam_message_queue_delete, when neither thread is inside an operation:  *)
(* pops and frees until the queue is empty.                                *)

\* mutant: the last unread message is not freed
DrainedButOne == [i \in 1 .. windex - rindex - 1 |-> queue[rindex + i - 1]]

\* the messages popped by the loop while rindex runs up to windex
Drained == [i \in 1 .. windex - rindex |-> queue[rindex + i - 1]]

Delete ==
  /\ status = "running" /\ ppc = "idle" /\ cpc = "idle"
  /\ rindex <= windex
  /\ freed' = Drained
  /\ rindex' = windex
  /\ read_number' = read_number + (windex - rindex)
  /\ status' = "deleted"
  /\ UNCHANGED <<queue, windex, write_number, producer, consumer, pushed, delivered>>

\* The unread messages wrap round the end of the slots: popping them runs
\* rindex into MaxSize and the next slam_message_queue_empty asserts.
DeleteAborts ==
  /\ status = "running" /\ ppc = "idle" /\ cpc = "idle"
  /\ rindex > windex
  /\ status' = "aborted"
  /\ UNCHANGED <<queue, indices, counters, producer, consumer, messages>>

-----------------------------------------------------------------------------
Producer ==
  \/ \E m \in Message : PushBegin(m)
  \/ PushFull \/ PushRoom \/ PushStore \/ PushPublish \/ PushCount

Consumer ==
  \/ Front \/ PopBegin
  \/ PopAdvanceFirst \/ PopLoadLast
  \/ PopLoadFirst \/ PopAdvanceLast

Next == Producer \/ Consumer \/ Abort \/ Delete \/ DeleteAborts

Spec == Init /\ [][Next]_vars

-----------------------------------------------------------------------------
(* Properties.                                                             *)

\* The indices stay within the ring (rindex may reach its end) and the threads
\* in their code.
TypeOK ==
  /\ queue \in [Slot -> Message \cup {NoMessage}]
  /\ rindex \in 0 .. MaxSize
  /\ windex \in Slot
  /\ read_number \in Nat
  /\ write_number \in Nat
  /\ ppc \in {"idle", "check", "store", "publish", "count"}
  /\ pushing \in Message \cup {NoMessage}
  /\ cpc \in {"idle", "pop", "load", "advance"}
  /\ loaded \in Message \cup {NoMessage}
  /\ peeked \in Message \cup {NoMessage}
  /\ pushed \in Seq(Message)
  /\ delivered \in Seq(Message)
  /\ freed \in Seq(Message)
  /\ status \in {"running", "deleted", "aborted"}

\* pop_front returns the messages push_back accepted, each once and in the
\* order they were pushed, whatever the interleaving of the two threads and
\* whichever order the compiler gives the two halves of queue[rindex++].
FifoOrder ==
  /\ Len(delivered) <= Len(pushed)
  /\ \A i \in 1 .. Len(delivered) : delivered[i] = pushed[i]

\* The slot push_back is about to overwrite holds no message the consumer
\* still needs: neither an unread one nor the one pop_front has claimed by
\* advancing rindex but not yet loaded.  The one slot the ring leaves unused
\* is what makes this true.
NoUnreadOverwrite ==
  ppc = "store" =>
    /\ \A k \in 0 .. Len(pushed) - rindex - 1 :
          windex # (rindex + k) % MaxSize
    /\ cpc = "load" => windex # rindex - 1

\* slam_socket_poll_write takes the message from front, ignores what
\* pop_front returns and frees the message it got from front: between the two
\* calls the head of the queue must not change.
FrontIsPopped ==
  [][delivered' # delivered /\ peeked # NoMessage
       => delivered'[Len(delivered')] = peeked]_vars

\* A deleted queue leaks nothing and frees nothing twice: what was accepted
\* was either returned by pop_front or freed by slam_message_queue_delete.
DeleteFreesTheRest == status = "deleted" => delivered \o freed = pushed

\* The asserts of ASSERT_QUEUE, which every operation evaluates first, never
\* fail.  pop_front violates it: it never wraps rindex.
AssertQueueHolds == status # "aborted"

-----------------------------------------------------------------------------
(* The ring buffer implements the bounded FIFO of SlamFifo.                *)

NumberUnread ==
  IF rindex <= windex THEN windex - rindex ELSE windex + MaxSize - rindex

Unread == [i \in 1 .. NumberUnread |-> queue[(rindex + i - 1) % MaxSize]]

HandedOver ==
  IF cpc = "load" THEN Append(delivered, queue[rindex - 1]) ELSE delivered

Fifo == INSTANCE SlamFifo WITH Capacity <- MaxSize - 1,
                               pending <- Unread,
                               delivered <- HandedOver

\* Every behaviour of the two threads is a behaviour of the bounded FIFO: a
\* message is accepted when windex is published and handed over when rindex
\* is advanced, and an assert fails only after MaxSize messages were accepted.
ImplementsFifo == Fifo!Spec
=============================================================================
