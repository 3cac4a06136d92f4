------------------------------- MODULE SlamIo -------------------------------
(***************************************************************************)
(* The two threads of a worker process: the IO thread (slam_io_thread.c,   *)
(* slam_socket.c, slam_poll.c) and the worker thread (slam_runnable.c and  *)
(* the socket calls of slam_lua_func.c).  They share the receive queue mq, *)
(* the table io->sockets, the send queue of each socket, the descriptors   *)
(* of the process and the IO thread's epoll instance, without a lock.      *)
(*                                                                         *)
(* A socket object is identified with the connection it stands for, so a   *)
(* descriptor that the kernel gives out again is told apart.  A package is *)
(* a unit here; SlamSocket models how it is put together from bytes.  The  *)
(* queues are FIFOs, as SlamMessageQueueProof shows, whose assertions fail *)
(* after as many pops as they have slots.                                  *)
(*                                                                         *)
(* Where an assertion fails, or the program touches an object it has freed *)
(* (nothing can be said of what follows), fault says so and all stops.     *)
(***************************************************************************)
EXTENDS Integers, Sequences, FiniteSets, FiniteSetsExt, Functions

CONSTANTS Peer,         \* connections that remote peers open
          Client,       \* connections that Lua opens with cc.newclient
          Listener,     \* the server socket Lua opens with cc.newserver
          None,         \* a null pointer, or no socket
          Fd,           \* descriptors, bounds the open sockets
          MqSize,       \* receive_queue_size
          SendSize,     \* socket_send_queue_size
          SendRoom,     \* messages the kernel's send buffer holds
          MaxPackage,   \* bound: packages a remote end sends per connection
          MaxResponse   \* bound: calls of cc.response

Conn == Peer \cup Client
Sock == Conn \cup {Listener}

ASSUME FdAssumption == Fd \subseteq Nat /\ IsFiniteSet(Fd)
ASSUME SizeAssumption ==
  /\ MqSize \in Nat \ {0, 1}
  /\ SendSize \in Nat \ {0, 1}
  /\ SendRoom \in Nat \ {0}
  /\ MaxPackage \in Nat
  /\ MaxResponse \in Nat
ASSUME SockAssumption ==
  /\ Peer \cap Client = {}
  /\ Listener \notin Conn
  /\ None \notin Sock

VARIABLES
  \* the kernel
  file,       \* the socket open behind each descriptor
  interest,   \* the events the IO thread's epoll reports of each descriptor
  ready,      \* descriptors on its ready list
  backlog,    \* connections that wait to be accepted
  net,        \* [state, in, sent, room, out] of each connection: packages to
              \* read and sent so far, free send buffer, messages sent
  shut,       \* sockets shut down for reading
  \* shared by the threads
  sockets,    \* io->sockets: the socket object of each descriptor
  freed,      \* socket objects given back with slam_free
  sendq,      \* messages in the send queue of each socket object
  mq,         \* [items, pops]: the receive queue
  wakeup,     \* the worker's epoll has an event
  \* the threads
  io,         \* [pc, events, fd, on, sock]
  wk,         \* [pc, back, fd, sock, to, calls]
  live,       \* the connection Lua takes a descriptor to be
  dropped,    \* connections that lost an event to a full mq
  fault

kernel == <<file, interest, ready, backlog, net, shut>>
shared == <<sockets, freed, sendq, mq, wakeup>>
vars == <<kernel, shared, io, wk, live, dropped, fault>>

-----------------------------------------------------------------------------
(* The kernel.                                                             *)

\* accept and socket return the lowest free descriptor
FreeFd == {fd \in Fd : file[fd] = None}
NewFd == Min(FreeFd)

FdsOf(s) == {fd \in Fd : file[fd] = s}

\* What epoll reports of a descriptor.  EPOLLRDHUP is not asked for.
Mask(fd) ==
  LET s == file[fd]
  IN  CASE s = None -> {}
        [] s = Listener -> {e \in {"in", "hup"} \cap (interest[fd] \cup {"hup"}) :
             \/ e = "in" /\ (backlog # << >> \/ s \in shut)
             \/ e = "hup" /\ s \in shut}
        [] OTHER -> {e \in interest[fd] \cup {"hup"} :
             \/ e = "in" /\ (net[s].in > 0 \/ net[s].state = "closed" \/ s \in shut)
             \/ e = "out" /\ net[s].room > 0
             \/ e = "hup" /\ net[s].state = "reset"}

\* The interests are edge triggered: a descriptor is put on the ready list
\* when something happens to its socket.
Edge(s) == ready' = ready \cup {fd \in FdsOf(s) : interest[fd] # {}}

\* a remote peer connects to the server
PeerConnect(c) ==
  /\ net[c].state = "none"
  /\ FdsOf(Listener) # {}
  /\ net[Listener].state = "open"
  /\ net' = [net EXCEPT ![c].state = "open"]
  /\ backlog' = Append(backlog, c)
  /\ Edge(Listener)
  /\ UNCHANGED <<file, interest, shut>>

PeerSend(c) ==
  /\ net[c].state = "open"
  /\ net[c].sent < MaxPackage
  /\ net' = [net EXCEPT ![c].in = @ + 1, ![c].sent = @ + 1]
  /\ Edge(c)
  /\ UNCHANGED <<file, interest, backlog, shut>>

PeerClose(c, how) ==
  /\ net[c].state = "open"
  /\ net' = [net EXCEPT ![c].state = how]
  /\ Edge(c)
  /\ UNCHANGED <<file, interest, backlog, shut>>

\* the peer takes a message; a full send buffer becomes writable
PeerReceive(c) ==
  /\ net[c].state = "open"
  /\ net[c].room < SendRoom
  /\ net' = [net EXCEPT ![c].room = @ + 1]
  /\ IF net[c].room = 0 THEN Edge(c) ELSE UNCHANGED ready
  /\ UNCHANGED <<file, interest, backlog, shut>>

Remote ==
  /\ fault = "none"
  /\ \/ \E c \in Peer : PeerConnect(c)
     \/ \E c \in Conn : PeerSend(c) \/ PeerReceive(c)
     \/ \E c \in Conn, how \in {"closed", "reset"} : PeerClose(c, how)
  /\ UNCHANGED <<shared, io, wk, live, dropped, fault>>

-----------------------------------------------------------------------------
Fresh(state) == [state |-> state, in |-> 0, sent |-> 0, room |-> SendRoom, out |-> 0]

Init ==
  /\ file = [fd \in Fd |-> None]
  /\ interest = [fd \in Fd |-> {}]
  /\ ready = {}
  /\ backlog = << >>
  /\ net = [s \in Sock |-> Fresh("none")]
  /\ shut = {}
  /\ sockets = [fd \in Fd |-> None]
  /\ freed = {}
  /\ sendq = [s \in Sock |-> 0]
  /\ mq = [items |-> << >>, pops |-> 0]
  /\ wakeup = FALSE
  /\ io = [pc |-> "wait", events |-> [fd \in Fd |-> {}], fd |-> None,
           on |-> {}, sock |-> None]
  /\ wk = [pc |-> "script", back |-> "script", fd |-> None, sock |-> None,
           to |-> None, calls |-> 0]
  /\ live = [fd \in Fd |-> None]
  /\ dropped = {}
  /\ fault = "none"

-----------------------------------------------------------------------------
(* The IO thread.                                                          *)

MqFull == Len(mq.items) = MqSize - 1

\* mutant: an event is merged with one that waits for the same descriptor
PushEventMerged(type, fd, s) ==
  IF MqFull \/ \E i \in DOMAIN mq.items : mq.items[i].fd = fd
  THEN UNCHANGED <<mq, dropped>>
  ELSE mq' = [mq EXCEPT !.items = Append(@, [type |-> type, fd |-> fd, sock |-> s])]
       /\ UNCHANGED dropped

\* slam_message_queue_push_back on mq; an event that finds it full is dropped
PushEvent(type, fd, s) ==
  IF MqFull
  THEN dropped' = dropped \cup {s} /\ UNCHANGED mq
  ELSE mq' = [mq EXCEPT !.items = Append(@, [type |-> type, fd |-> fd, sock |-> s])]
       /\ UNCHANGED dropped

\* the socket the handler works on, null when the table has none
IoSocket == sockets[io.fd]

\* a step of the IO thread, which leaves the worker and the faults alone
IoStep(from) ==
  /\ fault = "none"
  /\ io.pc = from
  /\ UNCHANGED <<wk, live, fault>>

\* slam_poll_wait; poll_event_number is larger than the number of descriptors
IoWait ==
  /\ IoStep("wait")
  /\ \E fd \in ready : Mask(fd) # {}
  /\ io' = [io EXCEPT !.pc = "next",
              !.events = [fd \in Fd |-> IF fd \in ready THEN Mask(fd) ELSE {}]]
  /\ ready' = {}
  /\ UNCHANGED <<file, interest, backlog, net, shut, shared, dropped>>

\* what slam_io_thread_do_message does after reading the descriptor
AfterRead == IF "out" \in io.on THEN "write" ELSE "next"

\* the handler of an event: EPOLLERR and EPOLLHUP go before the others
HandlerOf(events) ==
  IF "hup" \in events THEN "remove" ELSE IF "in" \in events THEN "read" ELSE "write"

\* slam_io_thread_do_message takes the next event of the batch
IoNext ==
  /\ IoStep("next")
  /\ \E fd \in Fd :
       /\ io.events[fd] # {}
       /\ io' = [io EXCEPT !.pc = HandlerOf(io.events[fd]),
                           !.fd = fd, !.events[fd] = {},
                           !.on = IF {"in", "out"} = io.events[fd] THEN {"out"} ELSE {}]
  /\ UNCHANGED <<kernel, shared, dropped>>

\* mutant: the worker is only woken when its queue was full
CheckOnlyFull == MqFull

CheckWakes == mq.items # << >>

\* the batch is done: slam_runnable_wakeup when there is something to handle
IoCheck ==
  /\ IoStep("next")
  /\ \A fd \in Fd : io.events[fd] = {}
  /\ mq.pops < MqSize
  /\ wakeup' = (wakeup \/ CheckWakes)
  /\ io' = [io EXCEPT !.pc = "wait", !.fd = None]
  /\ UNCHANGED <<kernel, sockets, freed, sendq, mq, dropped>>

\* the handlers find no socket in the table: "already close"
IoNoSocket ==
  /\ IoStep(io.pc)
  /\ io.pc \in {"read", "write", "remove"}
  /\ IoSocket = None
  /\ io' = [io EXCEPT !.pc = AfterRead, !.on = {}]
  /\ UNCHANGED <<kernel, shared, dropped>>

IoAccepts == io.pc = "read" /\ IoSocket = Listener /\ backlog # << >> /\ FreeFd # {}

\* slam_io_thread_accept_socket: one connection
IoAccept ==
  /\ IoStep("read")
  /\ IoAccepts
  /\ sockets[NewFd] = None
  /\ mq.pops < MqSize
  /\ file' = [file EXCEPT ![NewFd] = Head(backlog)]
  /\ interest' = [interest EXCEPT ![NewFd] = {"in"}]
  /\ ready' = ready \cup {NewFd}
  /\ sockets' = [sockets EXCEPT ![NewFd] = Head(backlog)]
  /\ PushEvent("establish", NewFd, Head(backlog))
  /\ backlog' = Tail(backlog)
  /\ UNCHANGED <<io, net, shut, freed, sendq, wakeup>>

IoReceives ==
  /\ io.pc = "read" /\ IoSocket \in Conn
  /\ net[IoSocket].state # "reset" /\ net[IoSocket].in > 0

\* slam_socket_poll_read: a package, which a full mq loses with its socket
IoReadPackage ==
  /\ IoStep("read")
  /\ IoReceives
  /\ mq.pops < MqSize
  /\ net' = [net EXCEPT ![IoSocket].in = @ - 1]
  /\ IF MqFull
     THEN io' = [io EXCEPT !.pc = "remove"] /\ UNCHANGED <<mq, dropped>>
     ELSE PushEvent("package", io.fd, IoSocket) /\ UNCHANGED io
  /\ UNCHANGED <<file, interest, ready, backlog, shut, sockets, freed, sendq, wakeup>>

\* mutant: the reader leaves what has arrived, or the end, for a later event
ReadStopsEarly ==
  \/ IoSocket = Listener /\ (backlog = << >> \/ FreeFd = {})
  \/ IoSocket \in Conn /\ net[IoSocket].state = "open"

\* nothing is left to accept or to read, or no descriptor is left to accept with
ReadStops ==
  \/ IoSocket = Listener /\ (backlog = << >> \/ FreeFd = {})
  \/ /\ IoSocket \in Conn /\ net[IoSocket].in = 0
     /\ net[IoSocket].state = "open" /\ IoSocket \notin shut

IoReadEnds ==
  /\ IoStep("read")
  /\ ReadStops
  /\ io' = [io EXCEPT !.pc = AfterRead, !.on = {}]
  /\ UNCHANGED <<kernel, shared, dropped>>

\* recv returns 0 or an error
IoReadFails ==
  /\ IoStep("read")
  /\ IoSocket \in Conn
  /\ \/ net[IoSocket].state = "reset"
     \/ net[IoSocket].in = 0 /\ (net[IoSocket].state = "closed" \/ IoSocket \in shut)
  /\ io' = [io EXCEPT !.pc = "remove"]
  /\ UNCHANGED <<kernel, shared, dropped>>

\* slam_socket_poll_write: one message
IoSend ==
  /\ IoStep("write")
  /\ IoSocket \in Conn
  /\ sendq[IoSocket] > 0 /\ net[IoSocket].room > 0 /\ net[IoSocket].state # "reset"
  /\ net[IoSocket].out < SendSize
  /\ net' = [net EXCEPT ![IoSocket].room = @ - 1, ![IoSocket].out = @ + 1]
  /\ sendq' = [sendq EXCEPT ![IoSocket] = @ - 1]
  /\ UNCHANGED <<file, interest, ready, backlog, shut>>
  /\ UNCHANGED <<sockets, freed, mq, wakeup, io, dropped>>

IoWriteEnds ==
  /\ IoStep("write")
  /\ IoSocket \in Conn
  /\ net[IoSocket].out < SendSize
  /\ sendq[IoSocket] = 0 \/ (net[IoSocket].room = 0 /\ net[IoSocket].state # "reset")
  /\ io' = [io EXCEPT !.pc = "next"]
  /\ UNCHANGED <<kernel, shared, dropped>>

IoWriteFails ==
  /\ IoStep("write")
  /\ IoSocket \in Conn
  /\ sendq[IoSocket] > 0 /\ net[IoSocket].state = "reset"
  /\ net[IoSocket].out < SendSize
  /\ io' = [io EXCEPT !.pc = "remove"]
  /\ UNCHANGED <<kernel, shared, dropped>>

\* slam_io_thread_remove_socket, in the order the worker can observe it: the
\* descriptor is closed and the socket freed, ...
IoClose ==
  /\ IoStep("remove")
  /\ IoSocket # None /\ net[IoSocket].out < SendSize
  /\ file' = [file EXCEPT ![io.fd] = None]
  /\ interest' = [interest EXCEPT ![io.fd] = {}]
  /\ ready' = ready \ {io.fd}
  /\ backlog' = IF IoSocket = Listener THEN << >> ELSE backlog
  /\ net' = [s \in Sock |->
               IF s = IoSocket \/ (IoSocket = Listener /\ s \in Range(backlog))
               THEN Fresh("gone") ELSE net[s]]
  /\ shut' = shut \ {IoSocket}
  /\ freed' = freed \cup {IoSocket}
  /\ sendq' = [sendq EXCEPT ![IoSocket] = 0]
  /\ io' = [io EXCEPT !.pc = "forget", !.sock = IoSocket]
  /\ UNCHANGED <<sockets, mq, wakeup, dropped>>

\* mutant: the entry is not reset
Kept == sockets

Forgotten == [sockets EXCEPT ![io.fd] = None]

\* ... then the table forgets it, ...
IoForget ==
  /\ IoStep("forget")
  /\ sockets' = Forgotten
  /\ io' = [io EXCEPT !.pc = "lost"]
  /\ UNCHANGED <<kernel, freed, sendq, mq, wakeup, dropped>>

\* ... and the worker is told.
IoLost ==
  /\ IoStep("lost")
  /\ mq.pops < MqSize
  /\ PushEvent("lost", io.fd, io.sock)
  /\ io' = [io EXCEPT !.pc = AfterRead, !.on = {}, !.sock = None]
  /\ UNCHANGED <<kernel, sockets, freed, sendq, wakeup>>

Io ==
  \/ IoWait \/ IoNext \/ IoCheck \/ IoNoSocket
  \/ IoAccept \/ IoReadPackage \/ IoReadEnds \/ IoReadFails
  \/ IoSend \/ IoWriteEnds \/ IoWriteFails \/ IoClose \/ IoForget \/ IoLost

-----------------------------------------------------------------------------
(* The worker thread.  Lua runs in "lua" as the handler of a message and   *)
(* in "script" as the entry file or a timer callback.                      *)

InLua == wk.pc \in {"lua", "script"}

WkStep == fault = "none" /\ UNCHANGED <<io, dropped, fault>>

\* slam_poll_wait returns
WkWait ==
  /\ WkStep
  /\ wk.pc = "wait"
  /\ wakeup' = FALSE
  /\ wk' = [wk EXCEPT !.pc = "drain"]
  /\ UNCHANGED <<kernel, sockets, freed, sendq, mq, live>>

\* the IO thread has woken the worker, or a timer is due
WkWoken == wakeup /\ WkWait
WkTimeout == ~wakeup /\ WkWait

\* slam_runnable_do_message: one message.  Lua learns of connections by it.
WkHandle ==
  /\ WkStep
  /\ wk.pc = "drain"
  /\ mq.items # << >> /\ mq.pops < MqSize
  /\ LET m == Head(mq.items)
     IN  live' = [live EXCEPT ![m.fd] = IF m.type = "lost" THEN None ELSE m.sock]
  /\ mq' = [items |-> Tail(mq.items), pops |-> mq.pops + 1]
  /\ wk' = [wk EXCEPT !.pc = "lua", !.back = "lua"]
  /\ UNCHANGED <<kernel, sockets, freed, sendq, wakeup>>

WkDrained ==
  /\ WkStep
  /\ wk.pc = "drain"
  /\ mq.items = << >> /\ mq.pops < MqSize
  /\ wk' = [wk EXCEPT !.pc = "script", !.back = "script"]
  /\ UNCHANGED <<kernel, shared, live>>

WkLuaReturns ==
  /\ WkStep
  /\ InLua
  /\ wk' = [wk EXCEPT !.pc = IF wk.pc = "lua" THEN "drain" ELSE "wait"]
  /\ UNCHANGED <<kernel, shared, live>>

\* cc.response: slam_io_response looks the socket up, ...
Response(fd) ==
  /\ WkStep
  /\ InLua
  /\ live[fd] \in Conn
  /\ wk.calls < MaxResponse
  /\ wk' = IF sockets[fd] = None
           THEN [wk EXCEPT !.calls = @ + 1]
           ELSE [wk EXCEPT !.calls = @ + 1, !.pc = "push", !.fd = fd,
                           !.sock = sockets[fd], !.to = live[fd]]
  /\ UNCHANGED <<kernel, shared, live>>

\* ... queues the message on it, unless its queue is full, ...
WkPush ==
  /\ WkStep
  /\ wk.pc = "push"
  /\ wk.sock \notin freed /\ net[wk.sock].out < SendSize
  /\ IF sendq[wk.sock] = SendSize - 1
     THEN /\ wk' = [wk EXCEPT !.pc = wk.back, !.fd = None, !.sock = None, !.to = None]
          /\ UNCHANGED sendq
     ELSE /\ sendq' = [sendq EXCEPT ![wk.sock] = @ + 1]
          /\ wk' = [wk EXCEPT !.pc = "pollout", !.sock = None, !.to = None]
  /\ UNCHANGED <<kernel, sockets, freed, mq, wakeup, live>>

\* mutant: the descriptor is not put on the ready list again
PolloutArmed == ready

\* EPOLL_CTL_MOD looks at the socket again, so it is reported if writable
PolloutReady == ready \cup {wk.fd}

\* ... and asks epoll to report when the descriptor can be written.
WkPollout ==
  /\ WkStep
  /\ wk.pc = "pollout"
  /\ IF interest[wk.fd] # {}
     THEN /\ interest' = [interest EXCEPT ![wk.fd] = {"in", "out"}]
          /\ ready' = PolloutReady
     ELSE UNCHANGED <<interest, ready>>
  /\ wk' = [wk EXCEPT !.pc = wk.back, !.fd = None]
  /\ UNCHANGED <<file, backlog, net, shut, shared, live>>

\* cc.closesocket: shutdown of whatever is open behind the descriptor
CloseSocket(fd) ==
  /\ WkStep
  /\ InLua
  /\ live[fd] # None /\ file[fd] # None
  /\ shut' = shut \cup {file[fd]}
  /\ Edge(file[fd])
  /\ UNCHANGED <<file, interest, backlog, net, shared, wk, live>>

\* cc.newserver and cc.newclient: slam_socket_new takes a descriptor, ...
NewSocket(s) ==
  /\ WkStep
  /\ InLua
  /\ net[s].state = "none" /\ FreeFd # {}
  /\ file' = [file EXCEPT ![NewFd] = s]
  /\ wk' = [wk EXCEPT !.pc = "open", !.fd = NewFd, !.sock = s]
  /\ UNCHANGED <<interest, ready, backlog, net, shut, shared, live>>

\* ... bind or connect succeeds, ...
WkOpened ==
  /\ WkStep
  /\ wk.pc = "open"
  /\ net' = [net EXCEPT ![wk.sock].state = "open"]
  /\ wk' = [wk EXCEPT !.pc = "add"]
  /\ UNCHANGED <<file, interest, ready, backlog, shut, shared, live>>

\* ... or fails, and the socket is deleted; ...
WkOpenFails ==
  /\ WkStep
  /\ wk.pc = "open"
  /\ file' = [file EXCEPT ![wk.fd] = None]
  /\ net' = [net EXCEPT ![wk.sock].state = "gone"]
  /\ freed' = freed \cup {wk.sock}
  /\ wk' = [wk EXCEPT !.pc = wk.back, !.fd = None, !.sock = None]
  /\ UNCHANGED <<interest, ready, backlog, shut, sockets, sendq, mq, wakeup, live>>

\* ... slam_io_thread_add_socket registers it, ...
WkAdd ==
  /\ WkStep
  /\ wk.pc = "add"
  /\ sockets[wk.fd] = None
  /\ interest' = [interest EXCEPT ![wk.fd] = {"in"}]
  /\ ready' = ready \cup {wk.fd}
  /\ wk' = [wk EXCEPT !.pc = "store"]
  /\ UNCHANGED <<file, backlog, net, shut, shared, live>>

\* mutant: only the first socket is stored
StoredOnce == IF Listener \in Range(sockets) THEN sockets ELSE [sockets EXCEPT ![wk.fd] = wk.sock]

Stored == [sockets EXCEPT ![wk.fd] = wk.sock]

\* ... then stores it, and Lua gets the descriptor.
WkStore ==
  /\ WkStep
  /\ wk.pc = "store"
  /\ sockets' = Stored
  /\ live' = [live EXCEPT ![wk.fd] = wk.sock]
  /\ wk' = [wk EXCEPT !.pc = wk.back, !.fd = None, !.sock = None]
  /\ UNCHANGED <<kernel, freed, sendq, mq, wakeup>>

\* what Lua may do
Lua ==
  \/ \E fd \in Fd : Response(fd) \/ CloseSocket(fd)
  \/ \E s \in Client \cup {Listener} : NewSocket(s)

\* what the worker does by itself
Worker ==
  \/ WkWoken \/ WkHandle \/ WkDrained \/ WkLuaReturns \/ WkPush \/ WkPollout
  \/ WkOpened \/ WkOpenFails \/ WkAdd \/ WkStore

-----------------------------------------------------------------------------
(* Faults.                                                                 *)

Fails(what) ==
  /\ fault = "none"
  /\ fault' = what
  /\ UNCHANGED <<kernel, shared, io, wk, live, dropped>>

IoUsesMq ==
  \/ io.pc = "lost"
  \/ io.pc = "next" /\ \A fd \in Fd : io.events[fd] = {}
  \/ IoAccepts
  \/ IoReceives

\* ASSERT_QUEUE, of mq or of a send queue
AssertQueueFails ==
  /\ \/ mq.pops = MqSize /\ (wk.pc = "drain" \/ IoUsesMq)
     \/ io.pc \in {"write", "remove"} /\ IoSocket \in Conn /\ net[IoSocket].out = SendSize
     \/ wk.pc = "push" /\ wk.sock \notin freed /\ net[wk.sock].out = SendSize
  /\ Fails("queue")

\* one of the threads is in slam_io_thread_add_socket with this descriptor
Adding(fd) == (wk.pc = "add" /\ fd = wk.fd) \/ (IoAccepts /\ fd = NewFd)

\* assert(io->sockets[newsocket->fd] == nullptr)
AssertSlotFails ==
  /\ \E fd \in Fd : sockets[fd] # None /\ Adding(fd)
  /\ Fails("slot")

\* slam_io_response uses a socket that the IO thread has freed meanwhile
FreedUsed == wk.pc = "push" /\ wk.sock \in freed /\ Fails("freed")

\* the alarm slam_socket_connect sets goes off; SIGALRM has its default action
AlarmKills == wk.pc = "open" /\ wk.sock \in Client /\ Fails("alarm")

\* cc.newserver or cc.newclient without a descriptor: assert(socket)
AssertSocketFails ==
  /\ InLua /\ FreeFd = {}
  /\ \E s \in Client \cup {Listener} : net[s].state = "none"
  /\ Fails("socket")

Fault == AssertQueueFails \/ AssertSlotFails \/ FreedUsed

Next ==
  Remote \/ Io \/ Worker \/ WkTimeout \/ Lua \/ Fault \/ AlarmKills \/ AssertSocketFails

\* The scheduler runs both threads.  Nothing is assumed of the peers, and Lua
\* need not call anything.
Spec ==
  /\ Init /\ [][Next]_vars
  /\ WF_vars(Io) /\ WF_vars(Worker) /\ WF_vars(Fault)

-----------------------------------------------------------------------------
(* Properties.                                                             *)

\* The table names only sockets that are open behind their descriptor, except
\* while slam_io_thread_remove_socket is between close and the reset of the
\* entry: no event, response or later connection meets a stale entry outside
\* that window.
TableIsOpen ==
  \A fd \in Fd :
    sockets[fd] # None =>
      \/ file[fd] = sockets[fd] /\ sockets[fd] \notin freed
      \/ io.pc = "forget" /\ io.fd = fd

\* While the worker sleeps with messages in its queue it has been woken, or
\* the IO thread is still in the round at whose end it wakes it: no wakeup is
\* lost between the worker's last look at mq and its epoll_wait.
NoLostWakeup == wk.pc = "wait" /\ mq.items # << >> => wakeup \/ io.pc # "wait"

\* A send queue with messages is known to epoll: the descriptor waits for
\* room, is on the ready list, is in the batch the IO thread works on, or the
\* worker is about to report it.  No response is left behind.
NoForgottenResponse ==
  \A fd \in Fd :
    sockets[fd] \in Conn /\ sendq[sockets[fd]] > 0 =>
      \/ "out" \in interest[fd] /\ (net[sockets[fd]].room = 0 \/ fd \in ready)
      \/ {"out", "hup"} \cap io.events[fd] # {}
      \/ io.fd = fd /\ (io.pc \in {"write", "remove"} \/ "out" \in io.on)
      \/ wk.pc = "pollout" /\ wk.fd = fd

\* Lua is told of the connections that peers open in order: when no event was
\* dropped it gets a package or the loss of a connection only after its
\* establishment and before its loss, although descriptors are reused.
EventOrder ==
  [][mq'.pops = mq.pops + 1 /\ dropped = {} /\ Head(mq.items).sock \in Peer =>
       LET m == Head(mq.items)
       IN  IF m.type = "establish" THEN live[m.fd] \in {None} \cup Client
           ELSE live[m.fd] \in {m.sock} \cup Client]_vars

\* A response is queued on another connection than the one Lua means only
\* while Lua has not yet been told that the one it means is lost.
MisdirectedOnlyBeforeLost ==
  [][\A s \in Sock : sendq'[s] > sendq[s] =>
       \/ s = wk.to
       \/ wk.to \in dropped
       \/ io.pc = "lost" /\ io.sock = wk.to
       \/ \E i \in DOMAIN mq.items :
            mq.items[i].type = "lost" /\ mq.items[i].sock = wk.to]_vars

\* Every message in mq is handled.
MessagesHandled == mq.items # << >> ~> mq.items = << >> \/ fault # "none"

\* What arrives on a connection that a peer opened and the program accepted is
\* read, or the connection is closed: no edge is lost between two reads.
PackagesRead ==
  \A c \in Peer :
    (c \in Range(sockets) /\ net[c].in > 0) ~> (net[c].in = 0 \/ fault # "none")

\* A queued response is sent unless the connection has no room or is closed.
ResponsesSent ==
  \A c \in Conn :
    sendq[c] > 0 ~> (sendq[c] = 0 \/ net[c].room = 0 \/ fault # "none")

\* "wakeup io & trigger poll event to destroy socket" (slam_io_closesocket)
CloseDestroys == \A s \in Sock : s \in shut ~> (s \in freed \/ fault # "none")

\* assert(io->sockets[newsocket->fd] == nullptr) of slam_io_thread_add_socket
\* fails in one place only: the worker has got a descriptor that the IO thread
\* has closed and whose entry it has not yet reset.
SlotTakenOnlyWhileForgetting ==
  fault = "slot" => wk.pc = "add" /\ io.pc = "forget" /\ io.fd = wk.fd

\* "already close": a handler that finds no socket in the table has an event of
\* a closed descriptor, or of one the worker is just opening and adding.
NullMeansClosedOrOpening ==
  io.pc \in {"read", "write"} /\ sockets[io.fd] = None =>
    \/ file[io.fd] = None
    \/ wk.pc \in {"open", "add", "store"} /\ wk.fd = io.fd

\* A response meets a freed socket only while Lua has not yet been told that
\* its connection is lost.
FreedOnlyBeforeLost ==
  wk.pc = "push" /\ wk.sock \in freed =>
    \/ wk.sock \in dropped
    \/ io.pc \in {"forget", "lost"} /\ io.sock = wk.sock
    \/ \E i \in DOMAIN mq.items :
         mq.items[i].type = "lost" /\ mq.items[i].sock = wk.sock
=============================================================================
