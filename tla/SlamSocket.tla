----------------------------- MODULE SlamSocket -----------------------------
(***************************************************************************)
(* How packages cross a connection: slam_socket_poll_write on one side     *)
(* cuts the messages of the send queue into the pieces the kernel takes,   *)
(* slam_socket_poll_read on the other side puts them together again.  Both *)
(* are driven by edge-triggered events and end when the kernel says        *)
(* EAGAIN.                                                                 *)
(*                                                                         *)
(* Message i is the i-th that was queued; its k-th byte is <<i, k>>.  The  *)
(* first LenSize bytes hold its length.                                    *)
(***************************************************************************)
EXTENDS Integers, Sequences, SlamJoined

CONSTANTS LenSize,      \* sizeof(msglen_t)
          MinSize,      \* PACKAGE_MIN_SIZE, the header of a package
          MaxSize,      \* PACKAGE_MAX_SIZE
          Size,         \* sizes of the messages Lua sends
          SendSize,     \* socket_send_queue_size
          MqSize,       \* receive_queue_size
          Room,         \* bytes the kernel buffers on the way
          MaxMessage    \* bound: messages sent

ASSUME SizeAssumption ==
  /\ {LenSize, MinSize, MaxSize, SendSize, MqSize, Room, MaxMessage} \subseteq Nat \ {0}
  /\ LenSize < MinSize
  /\ Size \subseteq {n \in Nat : n >= MinSize}
\* fewer pops than slots: the queues do not abort (see SlamMessageQueue)
ASSUME QueueAssumption == MaxMessage <= SendSize /\ MaxMessage <= MqSize

VARIABLES
  sent,       \* sizes of the messages queued so far
  front,      \* the message at the front of the send queue
  bytesize,   \* how much of it has been sent
  tx,         \* poll_write is "idle" or in its "loop"
  pollout,    \* an edge for the writer
  wire,       \* bytes in the kernel
  closed,     \* the sender has closed the connection
  pollin,     \* an edge for the reader
  rx,         \* [pc, got, message, bufsize]: poll_read and socket->readmessage
  received,   \* the messages pushed to the receive queue
  handled,    \* how many of them the worker has popped
  open        \* the reader's socket is in use

sender == <<sent, front, bytesize, tx>>
receiver == <<rx, received, handled, open>>
vars == <<sender, pollout, wire, closed, pollin, receiver>>

Bytes(i) == [k \in 1 .. sent[i] |-> <<i, k>>]

\* The length a reader finds in the first bytes of a message.
LenOf(bytes) ==
  IF bytes = SubSeq(Bytes(bytes[1][1]), 1, LenSize) THEN sent[bytes[1][1]] ELSE 0

Init ==
  /\ sent = << >> /\ front = 1 /\ bytesize = 0 /\ tx = "idle"
  /\ pollout = FALSE /\ pollin = FALSE
  /\ wire = << >>
  /\ closed = FALSE
  /\ rx = [pc |-> "idle", got |-> << >>, message |-> << >>, bufsize |-> 0]
  /\ received = << >> /\ handled = 0
  /\ open = TRUE

-----------------------------------------------------------------------------
(* The sender.                                                             *)

\* slam_io_response: slam_socket_write_message, then EPOLLOUT
WriteMessage(size) ==
  /\ open /\ ~closed
  /\ Len(sent) < MaxMessage
  /\ Len(sent) + 1 - front < SendSize - 1
  /\ sent' = Append(sent, size)
  /\ pollout' = TRUE
  /\ UNCHANGED <<front, bytesize, tx, wire, closed, pollin, receiver>>

PollWrite ==
  /\ tx = "idle" /\ pollout /\ ~closed
  /\ tx' = "loop"
  /\ pollout' = FALSE
  /\ UNCHANGED <<sent, front, bytesize, wire, closed, pollin, receiver>>

\* mutant: the rest of a message that was sent in part is given up
SentAll(n) == TRUE

\* the message is finished and popped
SentWhole(n) == bytesize + n = sent[front]

\* send takes n bytes of the message at the front
Send(n) ==
  /\ tx = "loop" /\ open /\ ~closed
  /\ front <= Len(sent)
  /\ n <= sent[front] - bytesize /\ n <= Room - Len(wire)
  /\ wire' = wire \o SubSeq(Bytes(front), bytesize + 1, bytesize + n)
  /\ pollin' = TRUE
  /\ IF SentWhole(n) THEN front' = front + 1 /\ bytesize' = 0
                     ELSE bytesize' = bytesize + n /\ UNCHANGED front
  /\ UNCHANGED <<sent, tx, pollout, closed, receiver>>

\* the queue is empty, the kernel takes no more, or the connection is gone
WriteEnds ==
  /\ tx = "loop"
  /\ front > Len(sent) \/ Len(wire) = Room \/ ~open \/ closed
  /\ tx' = "idle"
  /\ UNCHANGED <<sent, front, bytesize, pollout, wire, closed, pollin, receiver>>

CloseSender ==
  /\ ~closed
  /\ closed' = TRUE
  /\ pollin' = TRUE
  /\ UNCHANGED <<sender, pollout, wire, receiver>>

-----------------------------------------------------------------------------
(* The reader.                                                             *)

ReaderStep(from) == rx.pc = from /\ open /\ UNCHANGED <<sender, closed, handled>>

\* poll_read returns false: slam_io_thread_remove_socket
Lose ==
  /\ open' = FALSE
  /\ rx' = [pc |-> "idle", got |-> << >>, message |-> << >>, bufsize |-> 0]
  /\ UNCHANGED <<pollout, wire, pollin, received>>

PollRead ==
  /\ ReaderStep("idle")
  /\ pollin
  /\ pollin' = FALSE
  /\ rx' = [rx EXCEPT !.pc = IF rx.message = << >> THEN "len" ELSE "body"]
  /\ UNCHANGED <<pollout, wire, received, open>>

\* what slam_socket_read_bytes still wants
Wanted == (IF rx.pc = "len" THEN LenSize ELSE rx.bufsize - Len(rx.message)) - Len(rx.got)

\* mutant: the writer learns of room only with the next message
NoWriterEdge == pollout

WriterEdge == pollout \/ Len(wire) = Room

\* recv gives n bytes; room in a full buffer is an edge for the writer
Recv(n) ==
  /\ ReaderStep(rx.pc)
  /\ rx.pc \in {"len", "body"}
  /\ n <= Wanted /\ n <= Len(wire)
  /\ rx' = [rx EXCEPT !.got = @ \o SubSeq(wire, 1, n)]
  /\ wire' = SubSeq(wire, n + 1, Len(wire))
  /\ pollout' = WriterEdge
  /\ UNCHANGED <<pollin, received, open>>

\* recv returns 0
RecvEnd ==
  /\ ReaderStep(rx.pc)
  /\ rx.pc \in {"len", "body"}
  /\ Wanted > 0 /\ wire = << >> /\ closed
  /\ Lose

\* slam_socket_read_bytes returns: it has everything, or EAGAIN
ReadDone == Wanted = 0 \/ (wire = << >> /\ ~closed)

\* EAGAIN before the first byte: poll_read returns true
ReadAgain ==
  /\ ReaderStep(rx.pc)
  /\ rx.pc \in {"len", "body"}
  /\ ReadDone /\ rx.got = << >>
  /\ rx' = [rx EXCEPT !.pc = "idle"]
  /\ UNCHANGED <<pollout, wire, pollin, received, open>>

LenValid(len) == len >= MinSize /\ len < MaxSize

\* "read len of message not enough, as a reading error"
ReadLen ==
  /\ ReaderStep("len")
  /\ ReadDone /\ rx.got # << >>
  /\ IF Len(rx.got) = LenSize /\ LenValid(LenOf(rx.got))
     THEN /\ rx' = [pc |-> "test", got |-> << >>, message |-> rx.got,
                    bufsize |-> LenOf(rx.got)]
          /\ UNCHANGED <<pollout, wire, pollin, received, open>>
     ELSE Lose

ReadBody ==
  /\ ReaderStep("body")
  /\ ReadDone /\ rx.got # << >>
  /\ rx' = [rx EXCEPT !.pc = "test", !.got = << >>, !.message = @ \o rx.got]
  /\ UNCHANGED <<pollout, wire, pollin, received, open>>

\* a message that is complete goes to the receive queue
Test ==
  /\ ReaderStep("test")
  /\ IF Len(rx.message) # rx.bufsize
     THEN /\ rx' = [rx EXCEPT !.pc = "body"]
          /\ UNCHANGED <<pollout, wire, pollin, received, open>>
     ELSE IF Len(received) - handled = MqSize - 1
     THEN Lose
     ELSE /\ received' = Append(received, rx.message)
          /\ rx' = [pc |-> "len", got |-> << >>, message |-> << >>, bufsize |-> 0]
          /\ UNCHANGED <<pollout, wire, pollin, open>>

\* slam_runnable_do_message
Handle ==
  /\ handled < Len(received)
  /\ handled' = handled + 1
  /\ UNCHANGED <<sender, pollout, wire, closed, pollin, rx, received, open>>

-----------------------------------------------------------------------------
\* how many bytes the kernel may take or give at once
Piece == 1 .. Room

Writer == PollWrite \/ WriteEnds \/ \E n \in Piece : Send(n)

Reader ==
  \/ PollRead \/ RecvEnd \/ ReadAgain \/ ReadLen \/ ReadBody \/ Test
  \/ \E n \in Piece : Recv(n)

Next == Writer \/ Reader \/ Handle \/ CloseSender \/ \E size \in Size : WriteMessage(size)

\* Both IO threads and the worker are scheduled; nothing makes Lua send.
Spec == Init /\ [][Next]_vars /\ WF_vars(Writer) /\ WF_vars(Reader) /\ WF_vars(Handle)

-----------------------------------------------------------------------------
(* Properties.                                                             *)

\* While the connection is in use no byte is lost or repeated: what was read,
\* what is being read and what is in the kernel is what was sent so far.
StreamConserved ==
  open =>
    Joined(received) \o rx.message \o rx.got \o wire
      = Joined([i \in 1 .. front - 1 |-> Bytes(i)])
          \o (IF bytesize = 0 THEN << >> ELSE SubSeq(Bytes(front), 1, bytesize))

\* the messages on the way, and whether the connection is in use
OnTheWay ==
  IF open THEN [j \in 1 .. Len(sent) - Len(received) |-> Bytes(Len(received) + j)] ELSE << >>
LinkStatus == IF open THEN "running" ELSE "deleted"

Link == INSTANCE SlamFifo WITH
  Message <- {[k \in 1 .. n |-> <<i, k>>] : n \in Size, i \in 1 .. MaxMessage},
  Capacity <- MaxMessage,
  pending <- OnTheWay,
  delivered <- received,
  status <- LinkStatus

\* A connection is a FIFO of messages until one side gives it up, and then
\* what is on the way is discarded.
ImplementsFifo == Link!Spec

\* Every message that is sent arrives unless the connection is given up: the
\* edges of epoll wake reader and writer as long as there is work.
AllArrive ==
  \A i \in 1 .. MaxMessage : Len(sent) >= i ~> (Len(received) >= i \/ ~open \/ closed)
=============================================================================
