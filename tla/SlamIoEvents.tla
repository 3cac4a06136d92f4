---------------------------- MODULE SlamIoEvents ----------------------------
(***************************************************************************)
(* What the worker and Lua are told of the connections, for any number of  *)
(* connections and descriptors and any sizes of the queues.                *)
(***************************************************************************)
EXTENDS SlamIoProof

Message == [type : {"establish", "package", "lost"}, fd : Fd, sock : Sock]

\* The types of what the threads tell each other.
QueueType ==
  /\ mq \in [items : Seq(Message), pops : Int]
  /\ live \in [Fd -> MaybeSock]

\* remove_socket remembers the socket it closes.
ClosingInv ==
  /\ io.pc = "forget" => io.sock = sockets[io.fd]
  /\ io.pc = "lost" => io.sock \in Sock /\ sockets[io.fd] \notin Peer

-----------------------------------------------------------------------------
(* The queue of events, by index.                                          *)
Appended(type, fd, s) ==
  /\ dropped' = dropped
  /\ Len(mq'.items) = Len(mq.items) + 1
  /\ \A i \in 1 .. Len(mq.items) : mq'.items[i] = mq.items[i]
  /\ mq'.items[Len(mq'.items)] = [type |-> type, fd |-> fd, sock |-> s]

Popped ==
  /\ Len(mq.items) = Len(mq'.items) + 1
  /\ \A i \in 1 .. Len(mq'.items) : mq'.items[i] = mq.items[i + 1]
  /\ Head(mq.items) = mq.items[1]

(* What is in it.                                                          *)
LEMMA QueuedEvent ==
  ASSUME QueueType, NEW i \in 1 .. Len(mq.items)
  PROVE  mq.items[i] \in Message /\ mq.items[i].fd \in Fd /\ mq.items[i].sock \in Sock
<1>1. mq.items \in Seq(Message)
  BY DEF QueueType
<1>2. mq.items[i] \in Message
  BY <1>1
<1> QED
  BY <1>2 DEF Message

(* An event is put at the end of the queue or dropped.                     *)
LEMMA Pushed ==
  ASSUME QueueType, NEW type \in {"establish", "package", "lost"}, NEW fd \in Fd, NEW s \in Sock,
         PushEvent(type, fd, s), live' = live
  PROVE  /\ QueueType'
         /\ (mq' = mq /\ dropped' = dropped \cup {s}) \/ Appended(type, fd, s)
<1> DEFINE m == [type |-> type, fd |-> fd, sock |-> s]
<1>1. m \in Message
  BY DEF Message
<1>2. CASE MqFull
  BY <1>2 DEF PushEvent, QueueType
<1>3. CASE ~MqFull
  <2>1. mq' = [mq EXCEPT !.items = Append(@, m)] /\ dropped' = dropped
    BY <1>3 DEF PushEvent
  <2> HIDE DEF m
  <2>2. mq.items \in Seq(Message)
    BY DEF QueueType
  <2>3. mq'.items = Append(mq.items, m) /\ mq'.pops = mq.pops
    BY <2>1 DEF QueueType
  <2>4. mq' \in [items : Seq(Message), pops : Int]
    BY <1>1, <2>1, <2>2, SMTT(30) DEF QueueType
  <2>5. /\ Len(mq'.items) = Len(mq.items) + 1
        /\ \A i \in 1 .. Len(mq.items) : mq'.items[i] = mq.items[i]
        /\ mq'.items[Len(mq'.items)] = m
    BY <1>1, <2>2, <2>3
  <2> QED
    BY <2>1, <2>4, <2>5 DEF QueueType, Appended, m
<1> QED
  BY <1>2, <1>3

(* The worker takes the first event.                                       *)
LEMMA Handled ==
  ASSUME QueueType, WkHandle
  PROVE  /\ Popped /\ mq'.items \in Seq(Message) /\ mq'.pops \in Int
         /\ mq.items[1] \in Message /\ mq.items[1].fd \in Fd /\ Len(mq'.items) \in Nat
         /\ live' = [live EXCEPT ![mq.items[1].fd] =
                       IF mq.items[1].type = "lost" THEN None ELSE mq.items[1].sock]
         /\ QueueType'
<1>1. mq.items \in Seq(Message) /\ mq.items # << >> /\ mq.pops \in Int
  BY DEF QueueType, WkHandle
<1>2. mq' = [items |-> Tail(mq.items), pops |-> mq.pops + 1]
  BY DEF WkHandle
<1>3. mq'.items = Tail(mq.items) /\ mq' \in [items : Seq(Message), pops : Int]
  BY <1>1, <1>2
<1>4. Popped /\ mq.items[1] \in Message
  BY <1>1, <1>3 DEF Popped
<1>5. live' = [live EXCEPT ![mq.items[1].fd] =
                 IF mq.items[1].type = "lost" THEN None ELSE mq.items[1].sock]
  BY <1>4 DEF WkHandle, Popped
<1>6. mq.items[1].fd \in Fd /\ mq.items[1].sock \in Sock
  BY ONLY <1>4 DEF Message
<1>7. live' \in [Fd -> MaybeSock]
  BY <1>5, <1>6 DEF QueueType, MaybeSock
<1>8. Len(mq'.items) \in Nat
  BY ONLY <1>3
<1> QED
  BY <1>3, <1>4, <1>5, <1>6, <1>7, <1>8, Zenon DEF QueueType

(* The types of the queue and of what Lua knows are kept.                  *)
LEMMA QueueTypeKept == ASSUME TableInv, QueueType, ClosingInv, [Next]_vars PROVE QueueType'
<1>1. CASE Silent
  BY <1>1 DEF Silent, QueueType
<1>2. CASE IoAccept
  BY <1>2, AcceptsPeer, Pushed DEF IoAccept, IoStep
<1>3. CASE IoReadPackage /\ ~MqFull
  BY <1>3, ReadsConn, Pushed DEF IoReadPackage, IoStep, IoSocket
<1>4. CASE IoClose \/ IoForget
  BY <1>4 DEF IoClose, IoForget, IoStep, QueueType
<1>5. CASE IoLost
  BY <1>5, TellsLost, Pushed DEF IoLost, IoStep, ClosingInv
<1>6. CASE WkHandle
  BY <1>6, Handled
<1>7. CASE WkStore
  BY <1>7, StoresSocket DEF WkStore, QueueType, MaybeSock
<1>8. ASSUME NEW fd \in Fd, Response(fd) PROVE QueueType'
  BY <1>8 DEF Response, shared, QueueType
<1> QED
  BY <1>1, <1>2, <1>3, <1>4, <1>5, <1>6, <1>7, <1>8, StepCases

(* The IO thread closes, forgets and reports one socket.                   *)
LEMMA ClosingKept == ASSUME TableInv, ClosingInv, [Next]_vars PROVE ClosingInv'
<1>1. CASE Silent
  BY <1>1 DEF Silent, ClosingInv
<1>2. CASE IoAccept \/ (IoReadPackage /\ ~MqFull)
  <2>1. io' = io /\ io.pc = "read"
    BY <1>2 DEF IoAccept, IoReadPackage, IoStep
  <2> QED
    BY <2>1 DEF ClosingInv
<1>4. CASE IoClose
  BY <1>4, ClosesSocket DEF IoClose, ClosingInv
<1>5. CASE IoForget
  <2>1. sockets'[io.fd] = None
    BY <1>5, ForgetsSocket DEF TableInv, TypeInv
  <2>2. None \notin Peer
    BY SockAssumption DEF Sock, Conn
  <2> QED
    BY <1>5, <2>1, <2>2, ForgetsSocket DEF ClosingInv
<1>6. CASE IoLost
  BY <1>6, TellsLost DEF ClosingInv
<1>7. CASE WkHandle
  BY <1>7 DEF WkHandle, WkStep, ClosingInv
<1>8. CASE WkStore
  <2>1. wk.sock \notin Peer
    BY <1>8, StoresSocket, SockAssumption DEF Sock, Conn
  <2>2. sockets'[wk.fd] = wk.sock /\ \A fd \in Fd : fd # wk.fd => sockets'[fd] = sockets[fd]
    BY <1>8, StoresSocket DEF TableInv, TypeInv
  <2>3. io' = io /\ (io.pc \in {"forget", "lost"} => io.fd \in Fd)
    BY <1>8 DEF WkStore, WkStep, TableInv, TypeInv
  <2> QED
    BY <1>8, <2>1, <2>2, <2>3, StoresSocket DEF ClosingInv
<1>9. ASSUME NEW fd \in Fd, Response(fd) PROVE ClosingInv'
  BY <1>9 DEF Response, WkStep, shared, ClosingInv
<1> QED
  BY <1>1, <1>2, <1>4, <1>5, <1>6, <1>7, <1>8, <1>9, StepCases

-----------------------------------------------------------------------------
(* After n events the worker has yet to be told that a connection is lost, *)
(* or it never will be.                                                    *)
LostAfter(n, c) ==
  \/ c \in dropped
  \/ io.pc = "lost" /\ io.sock = c
  \/ \E i \in n + 1 .. Len(mq.items) : mq.items[i].type = "lost" /\ mq.items[i].sock = c

Lost(c) == LostAfter(0, c)

(* It stays so until the worker handles an event.                          *)
LEMMA LostStays ==
  ASSUME TableInv, QueueType, ClosingInv, [Next]_vars,
         NEW n \in 0 .. Len(mq.items), NEW c, LostAfter(n, c)
  PROVE  LostAfter(n, c)' \/ WkHandle
<1>0. Len(mq.items) \in Nat
  BY DEF QueueType
<1>a. ASSUME NEW type, NEW fd, NEW s, Appended(type, fd, s), ~(io.pc = "lost" /\ io.sock = c)
      PROVE  LostAfter(n, c)'
  BY <1>0, <1>a DEF Appended, LostAfter
<1>b. ASSUME NEW s, mq' = mq, dropped' = dropped \cup {s}, ~(io.pc = "lost" /\ io.sock = c)
      PROVE  LostAfter(n, c)'
  BY <1>b DEF LostAfter
<1>1. CASE Silent
  BY <1>1 DEF Silent, LostAfter
<1>2. CASE IoAccept
  BY <1>2, <1>a, <1>b, AcceptsPeer, Pushed, Zenon DEF IoAccept, IoStep
<1>3. CASE IoReadPackage /\ ~MqFull
  BY <1>3, <1>a, <1>b, ReadsConn, Pushed, Zenon DEF IoReadPackage, IoStep, IoSocket
<1>4. CASE IoClose \/ IoForget
  BY <1>4 DEF IoClose, IoForget, IoStep, LostAfter
<1>5. CASE IoLost
  <2>1. (mq' = mq /\ dropped' = dropped \cup {io.sock}) \/ Appended("lost", io.fd, io.sock)
    BY <1>5, TellsLost, Pushed DEF IoLost, IoStep, ClosingInv
  <2>2. CASE io.sock # c
    BY <1>a, <1>b, <2>1, <2>2
  <2>3. CASE io.sock = c
    BY <1>0, <2>1, <2>3 DEF Appended, LostAfter
  <2> QED
    BY <2>2, <2>3
<1>6. CASE WkStore
  BY <1>6 DEF WkStore, WkStep, LostAfter
<1>7. ASSUME NEW fd \in Fd, Response(fd) PROVE LostAfter(n, c)'
  BY <1>7 DEF Response, WkStep, shared, LostAfter
<1> QED
  BY <1>1, <1>2, <1>3, <1>4, <1>5, <1>6, <1>7, StepCases

(* When it does, one event less is before the loss.                        *)
LEMMA LostShifts ==
  ASSUME QueueType, WkHandle, NEW n \in Nat, NEW c, LostAfter(n + 1, c)
  PROVE  LostAfter(n, c)'
<1>1. dropped' = dropped /\ io' = io /\ Popped /\ Len(mq'.items) \in Nat
  BY Handled DEF WkHandle, WkStep
<1>2. ASSUME NEW i \in n + 1 + 1 .. Len(mq.items)
      PROVE  i - 1 \in n + 1 .. Len(mq'.items) /\ mq'.items[i - 1] = mq.items[i]
  <2>1. i - 1 \in n + 1 .. Len(mq'.items) /\ i - 1 \in 1 .. Len(mq'.items) /\ (i - 1) + 1 = i
    BY <1>1 DEF Popped
  <2> QED
    BY <1>1, <2>1 DEF Popped
<1> QED
  BY <1>1, <1>2, Zenon DEF LostAfter

\* A response meets a freed socket only before its loss is known.
FreedInv ==
  wk.pc = "push" /\ wk.sock \in freed =>
    Lost(wk.sock) \/ (io.pc = "forget" /\ io.sock = wk.sock)

(* Only remove_socket frees a socket that the table names.                 *)
LEMMA FreedKept ==
  ASSUME TableInv, QueueType, ClosingInv, FreedInv, [Next]_vars
  PROVE  FreedInv'
<1> SUFFICES ASSUME NEW c, c = wk'.sock, wk'.pc = "push", c \in freed'
             PROVE  Lost(c)' \/ (io'.pc = "forget" /\ io'.sock = c)
  BY DEF FreedInv, Lost, LostAfter
<1>a. ~WkHandle
  <2> SUFFICES ASSUME WkHandle PROVE FALSE
    OBVIOUS
  <2>1. wk \in WkState /\ wk' = [wk EXCEPT !.pc = "lua", !.back = "lua"]
    BY DEF WkHandle, TableInv, TypeInv
  <2> QED
    BY <2>1 DEF WkState
<1>b. \A d : Lost(d) => Lost(d)'
  BY <1>a, LostStays DEF Lost, QueueType
<1>1. CASE Silent
  BY <1>1 DEF Silent, SamePush, FreedInv, Lost, LostAfter
<1>2. CASE IoAccept \/ (IoReadPackage /\ ~MqFull)
  <2>1. wk' = wk /\ freed' = freed /\ io' = io
    BY <1>2 DEF IoAccept, IoReadPackage, IoStep
  <2> QED
    BY <1>b, <2>1 DEF FreedInv
<1>3. CASE IoClose
  <2>1. wk' = wk /\ freed' = freed \cup {sockets[io.fd]}
    BY <1>3 DEF IoClose, IoStep, IoSocket
  <2> QED
    BY <1>3, <1>b, <2>1, ClosesSocket DEF FreedInv
<1>4. CASE IoForget
  <2>1. wk' = wk /\ freed' = freed
    BY <1>4 DEF IoForget, IoStep
  <2>3. CASE io.sock = wk.sock
    BY <1>4, <2>1, <2>3, ForgetsSocket DEF Lost, LostAfter
  <2>4. CASE io.sock # wk.sock
    BY <1>b, <2>1, <2>4 DEF FreedInv
  <2> QED
    BY <2>3, <2>4
<1>5. CASE IoLost
  <2>1. wk' = wk /\ freed' = freed
    BY <1>5 DEF IoLost, IoStep
  <2> QED
    BY <1>5, <1>b, <2>1, TellsLost DEF FreedInv
<1>7. CASE WkStore
  BY <1>7, StoresSocket
<1>8. ASSUME NEW fd \in Fd, Response(fd), sockets[fd] # None
      PROVE  io'.pc = "forget" /\ io'.sock = c
  <2>1. freed' = freed /\ io' = io /\ wk'.sock = sockets[fd]
    BY <1>8, AnswersSocket, Zenon DEF Response, WkStep, shared
  <2>2. file[fd] # sockets[fd]
    BY <1>8, <2>1 DEF TableInv, FileInv
  <2>3. io.pc = "forget" /\ io.fd = fd
    BY <1>8, <2>2 DEF TableInv, EntryInv
  <2> QED
    BY <2>1, <2>3 DEF ClosingInv
<1> QED
  BY <1>a, <1>1, <1>2, <1>3, <1>4, <1>5, <1>7, <1>8, StepCases

-----------------------------------------------------------------------------
(* A connection that neither thread has put in the table yet.              *)
Unborn(c) ==
  \/ net[c].state = "none"
  \/ \E i \in 1 .. Len(backlog) : backlog[i] = c
  \/ Opening /\ wk.sock = c

(* What has left that state does not come back to it: a step that leaves   *)
(* the network and the worker alone, ...                                   *)
LEMMA UnbornSame ==
  ASSUME backlog' = backlog, Opening' => Opening /\ wk'.sock = wk.sock, NEW c,
         net'[c].state = "none" => net[c].state = "none", Unborn(c)'
  PROVE  Unborn(c)
  BY DEF Unborn

(* ... one of the remote ends, ...                                         *)
LEMMA UnbornRemote ==
  ASSUME TableInv, Remote, NEW c \in Sock, Unborn(c)' PROVE Unborn(c)
<1>0. TypeInv /\ net \in [Sock -> Net] /\ backlog \in Seq(Peer) /\ wk \in WkState
  BY DEF TableInv, TypeInv
<1>1. wk' = wk
  BY DEF Remote
<1>2. ASSUME NEW d \in Peer, PeerConnect(d) PROVE Unborn(c)
  <2>1. d \in Sock /\ net' = [net EXCEPT ![d].state = "open"] /\ backlog' = Append(backlog, d)
    BY <1>2 DEF PeerConnect, Sock, Conn
  <2>2. net'[c].state = "none" => net[c].state = "none"
    BY <1>0, <2>1, NetState
  <2>3. \A i \in 1 .. Len(backlog') : backlog'[i] = d \/ \E j \in 1 .. Len(backlog) : backlog'[i] = backlog[j]
    BY <1>0, <2>1
  <2> QED
    BY <1>1, <1>2, <2>2, <2>3 DEF Unborn, Opening, PeerConnect
<1>3. ASSUME NEW d \in Conn, PeerSend(d) PROVE Unborn(c)
  <2>1. d \in Sock
    BY DEF Sock
  <2>2. net'[c].state = net[c].state
    BY <1>0, <1>3, <2>1, CountsIn, Zenon DEF PeerSend
  <2> QED
    BY UnbornSame, <1>1, <1>3, <2>2 DEF PeerSend, Opening
<1>4. ASSUME NEW d \in Conn, PeerReceive(d) PROVE Unborn(c)
  <2>1. d \in Sock
    BY DEF Sock
  <2>2. net'[c].state = net[c].state
    BY <1>0, <1>4, <2>1 DEF PeerReceive, Net
  <2> QED
    BY UnbornSame, <1>1, <1>4, <2>2 DEF PeerReceive, Opening
<1>5. ASSUME NEW d \in Conn, NEW how \in {"closed", "reset"}, PeerClose(d, how) PROVE Unborn(c)
  <2>1. d \in Sock
    BY DEF Sock
  <2>2. net'[c].state = "none" => net[c].state = "none"
    BY <1>0, <1>5, <2>1, NetState DEF PeerClose
  <2> QED
    BY UnbornSame, <1>1, <1>5, <2>2 DEF PeerClose, Opening
<1> QED
  BY <1>2, <1>3, <1>4, <1>5 DEF Remote

(* ... one of the IO thread, ...                                           *)
LEMMA UnbornIo ==
  ASSUME TableInv, Io, NEW c \in Sock, Unborn(c)' PROVE Unborn(c)
<1> USE DEF kernel
<1>0. TypeInv /\ net \in [Sock -> Net] /\ backlog \in Seq(Peer) /\ wk \in WkState
  BY DEF TableInv, TypeInv
<1>2. CASE IoAccept
  <2>1. backlog' = Tail(backlog) /\ net' = net /\ wk' = wk /\ backlog # << >>
    BY <1>2 DEF IoAccept, IoAccepts, IoStep
  <2>2. \A i \in 1 .. Len(backlog') : \E j \in 1 .. Len(backlog) : backlog'[i] = backlog[j]
    <3> SUFFICES ASSUME NEW i \in 1 .. Len(backlog') PROVE \E j \in 1 .. Len(backlog) : backlog'[i] = backlog[j]
      OBVIOUS
    <3>1. i + 1 \in 1 .. Len(backlog) /\ backlog'[i] = backlog[i + 1]
      BY <1>0, <2>1
    <3> QED
      BY <3>1
  <2> QED
    BY <2>1, <2>2 DEF Unborn, Opening
<1>3. CASE IoClose
  <2>1. /\ wk' = wk /\ backlog' = IF IoSocket = Listener THEN << >> ELSE backlog
        /\ net'[c] = Fresh("gone") \/ net'[c] = net[c]
    BY <1>3 DEF IoClose, IoStep
  <2>2. Fresh("gone").state # "none"
    BY DEF Fresh
  <2>3. CASE backlog' = backlog
    BY UnbornSame, <2>1, <2>2, <2>3 DEF Opening
  <2>4. CASE backlog' = << >>
    BY <2>1, <2>2, <2>4 DEF Unborn, Opening
  <2> QED
    BY <2>1, <2>3, <2>4
<1>4. CASE IoReadPackage \/ IoSend
  <2>1. io.fd \in Fd
    BY <1>4 DEF IoReadPackage, IoSend, IoStep, TableInv, TypeInv
  <2>2. IoSocket \in Sock
    BY <1>4 DEF IoReadPackage, IoReceives, IoSend, Sock
  <2>3. net'[c].state = net[c].state
    <3>1. CASE IoSend
      BY <1>0, <2>2, <3>1, CountsOut, Zenon DEF IoSend
    <3>2. CASE IoReadPackage
      BY <1>0, <2>2, <3>2 DEF IoReadPackage, Net
    <3> QED
      BY <1>4, <3>1, <3>2
  <2> QED
    BY <1>4, UnbornSame, <2>3 DEF IoReadPackage, IoSend, IoStep, Opening
<1>5. CASE \/ IoWait \/ IoNext \/ IoCheck \/ IoNoSocket \/ IoReadEnds \/ IoReadFails
           \/ IoWriteEnds \/ IoWriteFails \/ IoForget \/ IoLost
  <2>1. UNCHANGED <<backlog, net, wk>>
    BY <1>5, Zenon DEF IoWait, IoNext, IoCheck, IoNoSocket, IoReadEnds, IoReadFails,
         IoWriteEnds, IoWriteFails, IoForget, IoLost, IoStep
  <2> QED
    BY UnbornSame, <2>1 DEF Opening
<1> QED
  BY <1>2, <1>3, <1>4, <1>5 DEF Io

(* ... and one of the worker.                                              *)
LEMMA UnbornWorker ==
  ASSUME TableInv, Worker \/ WkTimeout \/ Lua, NEW c \in Sock, Unborn(c)' PROVE Unborn(c)
<1> USE DEF kernel
<1>0. TypeInv /\ net \in [Sock -> Net] /\ backlog \in Seq(Peer) /\ wk \in WkState
  BY DEF TableInv, TypeInv
<1>7. CASE WkOpened \/ WkOpenFails
  <2>1. wk.pc = "open" /\ backlog' = backlog
    BY <1>7 DEF WkOpened, WkOpenFails
  <2>2. wk.sock \in Sock
    BY <2>1 DEF TableInv, OpeningInv, Opening, Sock, Conn
  <2>3. net'[c].state = "none" => net[c].state = "none"
    BY <1>0, <1>7, <2>2, NetState DEF WkOpened, WkOpenFails
  <2>4. wk'.sock = wk.sock \/ ~Opening'
    BY <1>0, <1>7, Zenon DEF WkOpened, WkOpenFails, WkState, Opening
  <2> QED
    BY UnbornSame, <2>1, <2>3, <2>4 DEF Opening
<1>8. ASSUME NEW s \in Client \cup {Listener}, NewSocket(s) PROVE Unborn(c)
  <2>1. wk'.sock = s /\ net[s].state = "none" /\ UNCHANGED <<net, backlog>>
    BY <1>0, <1>8 DEF NewSocket, WkState
  <2> QED
    BY <2>1 DEF Unborn
<1>9. CASE WkAdd
  <2>1. wk.pc = "add" /\ wk'.sock = wk.sock /\ UNCHANGED <<net, backlog>>
    BY <1>0, <1>9 DEF WkAdd, WkState
  <2> QED
    BY UnbornSame, <2>1 DEF Opening
<1>b. ASSUME UNCHANGED <<net, backlog>>, ~Opening' PROVE Unborn(c)
  BY <1>b, UnbornSame
<1>10. CASE WkWait \/ WkHandle \/ WkDrained \/ WkLuaReturns
  <2>1. wk'.pc \in {"drain", "lua", "script", "wait"} /\ UNCHANGED <<net, backlog>>
    BY <1>0, <1>10, Zenon DEF WkWait, WkHandle, WkDrained, WkLuaReturns, WkState
  <2> QED
    BY <1>b, <2>1 DEF Opening
<1>11. CASE WkPush
  <2>1. wk' = [wk EXCEPT !.pc = wk.back, !.fd = None, !.sock = None, !.to = None] =>
          wk'.pc \in {"lua", "script"}
    BY ONLY <1>0 DEF WkState
  <2>2. wk' = [wk EXCEPT !.pc = "pollout", !.sock = None, !.to = None] => wk'.pc = "pollout"
    BY ONLY <1>0 DEF WkState
  <2> QED
    BY <1>11, <1>b, <2>1, <2>2 DEF WkPush, Opening
<1>12. CASE WkPollout \/ WkStore
  <2>1. wk'.pc \in {"lua", "script"} /\ UNCHANGED <<net, backlog>>
    BY <1>0, <1>12, Zenon DEF WkPollout, WkStore, WkState
  <2> QED
    BY <1>b, <2>1 DEF Opening
<1>13. ASSUME NEW fd \in Fd, Response(fd) PROVE Unborn(c)
  <2>1. CASE sockets[fd] = None
    <3>1. wk'.pc = wk.pc /\ InLua
      BY <1>0, <1>13, <2>1 DEF Response, WkState
    <3> QED
      BY <1>13, <1>b, <3>1 DEF Response, InLua, Opening
  <2>2. CASE sockets[fd] # None
    BY <1>13, <1>b, <2>2, AnswersSocket, Zenon DEF Response, Opening
  <2> QED
    BY <2>1, <2>2
<1>14. ASSUME NEW fd \in Fd, CloseSocket(fd) PROVE Unborn(c)
  BY <1>14, UnbornSame DEF CloseSocket, Opening
<1>15. CASE Worker \/ WkTimeout
  BY <1>7, <1>9, <1>10, <1>11, <1>12, <1>15 DEF Worker, WkWoken, WkTimeout
<1>16. CASE Lua
  BY <1>8, <1>13, <1>14, <1>16 DEF Lua
<1> QED
  BY <1>15, <1>16

LEMMA UnbornShrinks ==
  ASSUME TableInv, [Next]_vars, NEW c \in Sock, Unborn(c)' PROVE Unborn(c)
<1>1. CASE Fault \/ AlarmKills \/ AssertSocketFails \/ UNCHANGED vars
  <2>1. UNCHANGED <<net, backlog, wk>>
    BY <1>1 DEF Fault, AlarmKills, AssertSocketFails, AssertQueueFails,
         AssertSlotFails, FreedUsed, Fails, vars, kernel
  <2> QED
    BY UnbornSame, <2>1 DEF Opening
<1> QED
  BY <1>1, UnbornRemote, UnbornIo, UnbornWorker DEF Next

-----------------------------------------------------------------------------
(* A thread, the table, an event or Lua relates a connection to a          *)
(* descriptor.                                                             *)
Seen(c, fd) ==
  \/ live[fd] = c
  \/ sockets[fd] = c
  \/ io.pc = "lost" /\ io.sock = c /\ io.fd = fd
  \/ \E i \in 1 .. Len(mq.items) : mq.items[i].sock = c /\ mq.items[i].fd = fd

\* A connection has one descriptor in its life, and none before it is opened.
HomeInv ==
  \A c \in Sock :
    /\ \A f, g \in Fd : Seen(c, f) /\ Seen(c, g) => f = g
    /\ Unborn(c) => \A fd \in Fd : ~Seen(c, fd)

\* A connection is related to a descriptor it was not related to before only
\* when it is put in the table.
Placed(c) ==
  \/ \A fd \in Fd : Seen(c, fd)' => Seen(c, fd)
  \/ /\ Unborn(c) /\ ~Unborn(c)'
     /\ \E f \in Fd : \A fd \in Fd : Seen(c, fd)' => Seen(c, fd) \/ fd = f

(* What an event tells of a connection is known before.                    *)
LEMMA SeenPushed ==
  ASSUME QueueType, NEW type, NEW f \in Fd, NEW s \in Sock,
         (mq' = mq /\ dropped' = dropped \cup {s}) \/ Appended(type, f, s),
         live' = live, NEW c \in Sock, NEW fd \in Fd,
         io'.pc = "lost" => io' = io, Seen(c, fd)'
  PROVE  \/ Seen(c, fd) \/ sockets'[fd] = c \/ (s = c /\ f = fd)
<1>0. Len(mq.items) \in Nat
  BY DEF QueueType
<1>1. CASE \E i \in 1 .. Len(mq'.items) : mq'.items[i].sock = c /\ mq'.items[i].fd = fd
  <2>1. PICK i \in 1 .. Len(mq'.items) : mq'.items[i].sock = c /\ mq'.items[i].fd = fd
    BY <1>1
  <2>2. CASE mq' = mq
    BY <2>1, <2>2 DEF Seen
  <2>3. CASE Appended(type, f, s) /\ i = Len(mq'.items)
    BY <2>1, <2>3 DEF Appended
  <2>4. CASE Appended(type, f, s) /\ i # Len(mq'.items)
    <3>1. i \in 1 .. Len(mq.items) /\ mq'.items[i] = mq.items[i]
      BY <1>0, <2>1, <2>4 DEF Appended
    <3> QED
      BY <2>1, <3>1 DEF Seen
  <2> QED
    BY <2>2, <2>3, <2>4
<1>2. CASE ~(\E i \in 1 .. Len(mq'.items) : mq'.items[i].sock = c /\ mq'.items[i].fd = fd)
  BY <1>2 DEF Seen
<1> QED
  BY <1>1, <1>2

(* A connection that is accepted or opened is put in the table once.       *)
LEMMA PlacedOnce ==
  ASSUME TableInv, QueueType, ClosingInv, [Next]_vars, NEW c \in Sock
  PROVE  Placed(c)
<1>0. Len(mq.items) \in Nat /\ sockets \in [Fd -> MaybeSock] /\ live \in [Fd -> MaybeSock] /\ c # None
  BY SockAssumption DEF QueueType, TableInv, TypeInv
<1> SUFFICES ASSUME ~\A fd \in Fd : Seen(c, fd)' => Seen(c, fd)
             PROVE  /\ Unborn(c) /\ ~Unborn(c)'
                    /\ \E f \in Fd : \A fd \in Fd : Seen(c, fd)' => Seen(c, fd) \/ fd = f
  BY DEF Placed
<1>a. PICK fd \in Fd : Seen(c, fd)' /\ ~Seen(c, fd)
  OBVIOUS
<1>1. CASE Silent
  BY <1>1, <1>a DEF Silent, Seen
<1>2. CASE IoAccept
  <2> USE <1>2
  <2> DEFINE s == Head(backlog)
  <2>1. /\ NewFd \in Fd /\ s \in Peer /\ s \in Sock /\ Len(backlog) > 0 /\ s = backlog[1]
        /\ backlog \in Seq(Peer)
    BY AcceptsPeer DEF TableInv, TypeInv
  <2>2. /\ sockets' = [sockets EXCEPT ![NewFd] = s] /\ io' = io /\ live' = live
        /\ net' = net /\ wk' = wk /\ backlog' = Tail(backlog)
        /\ (mq' = mq /\ dropped' = dropped \cup {s}) \/ Appended("establish", NewFd, s)
    BY <2>1, Pushed DEF IoAccept, IoStep
  <2> HIDE DEF s
  <2>3. \A g \in Fd : Seen(c, g)' => Seen(c, g) \/ sockets'[g] = c \/ (s = c /\ NewFd = g)
    BY <2>1, <2>2, SeenPushed, Zenon
  <2>4. \A g \in Fd : Seen(c, g)' => Seen(c, g) \/ (s = c /\ NewFd = g)
    BY <1>0, <2>1, <2>2, <2>3 DEF Seen
  <2>5. s = c
    BY <1>a, <2>4
  <2>6. 1 \in 1 .. Len(backlog) /\ backlog[1] = c
    BY <2>1, <2>5
  <2>7. ~Unborn(c)'
    <3>1. net'[c].state # "none"
      BY <2>2, <2>6 DEF TableInv, FreshInv
    <3>2. ASSUME NEW i \in 1 .. Len(backlog') PROVE backlog'[i] # c
      <4>1. i + 1 \in 1 .. Len(backlog) /\ backlog'[i] = backlog[i + 1] /\ 1 \in 1 .. Len(backlog) /\ i + 1 # 1
        BY <2>1, <2>2, SMTT(30)
      <4> QED
        BY <2>1, <2>5, <4>1, ZenonT(30) DEF TableInv, BacklogInv
    <3>3. ~(Opening' /\ wk'.sock = c)
      BY <2>1, <2>2, <2>5, SockAssumption DEF TableInv, OpeningInv, Opening, Sock, Conn
    <3> QED
      BY <3>1, <3>2, <3>3 DEF Unborn
  <2> QED
    BY <2>1, <2>4, <2>6, <2>7 DEF Unborn
<1>3. CASE IoReadPackage /\ ~MqFull
  <2>1. /\ io.fd \in Fd /\ sockets[io.fd] \in Sock /\ live' = live /\ io' = io /\ sockets' = sockets
        /\ \/ mq' = mq /\ dropped' = dropped \cup {sockets[io.fd]}
           \/ Appended("package", io.fd, sockets[io.fd])
    BY <1>3, ReadsConn, Pushed DEF IoReadPackage, IoStep, IoSocket
  <2>2. Seen(c, fd) \/ sockets'[fd] = c \/ (sockets[io.fd] = c /\ io.fd = fd)
    BY <1>a, <2>1, SeenPushed
  <2> QED
    BY <1>a, <2>1, <2>2 DEF Seen
<1>4. CASE IoClose
  <2>1. UNCHANGED <<live, sockets, mq>> /\ io'.pc = "forget"
    BY <1>4, ClosesSocket DEF IoClose, IoStep
  <2> QED
    BY <1>a, <2>1 DEF Seen
<1>5. CASE IoForget
  <2>1. UNCHANGED <<live, mq>> /\ io'.sock = sockets[io.fd] /\ io'.fd = io.fd /\ io.fd \in Fd
    BY <1>5, ForgetsSocket DEF IoForget, IoStep, ClosingInv
  <2>2. sockets'[fd] = sockets[fd] \/ sockets'[fd] = None
    BY <1>0, <1>5, ForgetsSocket
  <2> QED
    <3>1. CASE io'.pc = "lost" /\ io'.sock = c /\ io'.fd = fd
      BY <1>a, <2>1, <3>1, ZenonT(30) DEF Seen
    <3>2. CASE ~(io'.pc = "lost" /\ io'.sock = c /\ io'.fd = fd)
      BY ONLY <1>0, <1>a, <2>1, <2>2, <3>2, c \in Sock, fd \in Fd, SMTT(30) DEF Seen
    <3> QED
      BY <3>1, <3>2
<1>6. CASE IoLost
  <2>1. /\ io.pc = "lost" /\ io.fd \in Fd /\ io.sock \in Sock /\ live' = live /\ io'.pc # "lost" /\ sockets' = sockets
        /\ \/ mq' = mq /\ dropped' = dropped \cup {io.sock}
           \/ Appended("lost", io.fd, io.sock)
    BY <1>6, TellsLost, Pushed DEF IoLost, IoStep, ClosingInv
  <2>2. Seen(c, fd) \/ sockets'[fd] = c \/ (io.sock = c /\ io.fd = fd)
    BY <1>a, <2>1, SeenPushed
  <2> QED
    BY <1>a, <2>1, <2>2 DEF Seen
<1>7. CASE WkHandle
  <2>1. UNCHANGED <<sockets, io>>
    BY <1>7 DEF WkHandle, WkStep
  <2>2. /\ Len(mq.items) = Len(mq'.items) + 1 /\ Len(mq'.items) \in Nat
        /\ \A i \in 1 .. Len(mq'.items) : mq'.items[i] = mq.items[i + 1]
        /\ mq.items[1].fd \in Fd
        /\ live' = [live EXCEPT ![mq.items[1].fd] =
                      IF mq.items[1].type = "lost" THEN None ELSE mq.items[1].sock]
    BY <1>7, Handled DEF Popped
  <2>3. CASE live'[fd] = c
    <3>1. live[fd] = c \/ (mq.items[1].fd = fd /\ mq.items[1].sock = c)
      BY <1>0, <2>2, <2>3
    <3>2. 1 \in 1 .. Len(mq.items)
      BY <2>2
    <3> QED
      BY <1>a, <3>1, <3>2, Zenon DEF Seen
  <2>4. CASE \E i \in 1 .. Len(mq'.items) : mq'.items[i].sock = c /\ mq'.items[i].fd = fd
    <3>1. PICK i \in 1 .. Len(mq'.items) : mq'.items[i].sock = c /\ mq'.items[i].fd = fd
      BY <2>4
    <3>2. i + 1 \in 1 .. Len(mq.items) /\ mq'.items[i] = mq.items[i + 1]
      BY <2>2, SMTT(30)
    <3> QED
      BY <1>a, <3>1, <3>2 DEF Seen
  <2> QED
    BY <1>a, <2>1, <2>3, <2>4 DEF Seen
<1>8. CASE WkStore
  <2>1. /\ wk.fd \in Fd /\ wk.sock \in Client \cup {Listener}
        /\ sockets' = [sockets EXCEPT ![wk.fd] = wk.sock]
        /\ live' = [live EXCEPT ![wk.fd] = wk.sock]
        /\ UNCHANGED <<io, mq, net, backlog>> /\ wk.pc = "store" /\ wk'.pc \in {"lua", "script"}
    BY <1>8, StoresSocket DEF WkStore, WkStep, kernel
  <2>2. \A g \in Fd : Seen(c, g)' => Seen(c, g) \/ (wk.sock = c /\ wk.fd = g)
    BY <1>0, <2>1 DEF Seen
  <2>3. wk.sock = c
    BY <1>a, <2>2
  <2>4. Unborn(c) /\ file[wk.fd] = c
    BY <2>1, <2>3 DEF Unborn, Opening, TableInv, OpeningInv
  <2>5. ~Unborn(c)'
    <3>1. net'[c].state # "none"
      BY <2>1, <2>4 DEF TableInv, FreshInv
    <3>2. \A i \in 1 .. Len(backlog') : backlog'[i] # c
      BY <2>1, <2>3, SockAssumption, SMTT(30) DEF TableInv, TypeInv, Sock, Conn
    <3> QED
      BY <2>1, <3>1, <3>2 DEF Unborn, Opening
  <2> QED
    BY <2>1, <2>2, <2>4, <2>5
<1>9. ASSUME NEW f \in Fd, Response(f) PROVE FALSE
  BY <1>9, <1>a DEF Response, WkStep, shared, Seen
<1> QED
  BY <1>1, <1>2, <1>3, <1>4, <1>5, <1>6, <1>7, <1>8, <1>9, StepCases

(* So a connection has one descriptor.                                     *)
LEMMA HomeKept ==
  ASSUME TableInv, QueueType, ClosingInv, HomeInv, [Next]_vars
  PROVE  HomeInv'
<1> SUFFICES ASSUME NEW c \in Sock
             PROVE  /\ \A f, g \in Fd : Seen(c, f)' /\ Seen(c, g)' => f = g
                    /\ Unborn(c)' => \A fd \in Fd : ~Seen(c, fd)'
  BY DEF HomeInv
<1>1. Placed(c) /\ (Unborn(c)' => Unborn(c))
  BY PlacedOnce, UnbornShrinks
<1> QED
  BY <1>1 DEF HomeInv, Placed

-----------------------------------------------------------------------------
\* What Lua knows of a descriptor, and what the events before the end of the
\* queue tell it, is true or corrected by a later event.
KnownInv ==
  /\ \A fd \in Fd, c \in Sock : live[fd] = c => sockets[fd] = c \/ Lost(c)
  /\ \A i \in 1 .. Len(mq.items), c \in Sock :
       mq.items[i].type # "lost" /\ mq.items[i].sock = c =>
         sockets[mq.items[i].fd] = c \/ LostAfter(i, c)

(* A step of the IO thread or of slam_io_response keeps it, when the table *)
(* only loses the socket that the IO thread is about to report and gains   *)
(* sockets where it had none, and an event tells what the table holds.     *)
LEMMA KnownPushed ==
  ASSUME TableInv, QueueType, ClosingInv, KnownInv, [Next]_vars, ~WkHandle, live' = live,
         \A fd \in Fd : \/ sockets'[fd] = sockets[fd] \/ sockets[fd] = None
                        \/ io'.pc = "lost" /\ io'.sock = sockets[fd],
         mq' = mq \/ \E type, fd, s : /\ Appended(type, fd, s)
                                      /\ type = "lost" \/ sockets'[fd] = s
  PROVE  KnownInv'
<1>0. Len(mq.items) \in Nat /\ None \notin Sock
  BY SockAssumption, SMTT(30) DEF QueueType
<1>1. ASSUME NEW fd \in Fd, NEW c \in Sock, live'[fd] = c PROVE sockets'[fd] = c \/ Lost(c)'
  <2>1. Lost(c) => Lost(c)'
    BY <1>0, LostStays DEF Lost
  <2>2. io'.pc = "lost" /\ io'.sock = c => Lost(c)'
    BY DEF Lost, LostAfter
  <2> QED
    BY <1>0, <1>1, <2>1, <2>2 DEF KnownInv
<1>2. ASSUME NEW i \in 1 .. Len(mq'.items), NEW c \in Sock,
             mq'.items[i].type # "lost", mq'.items[i].sock = c
      PROVE  sockets'[mq'.items[i].fd] = c \/ LostAfter(i, c)'
  <2>1. CASE i \in 1 .. Len(mq.items) /\ mq'.items[i] = mq.items[i]
    <3>1. sockets[mq.items[i].fd] = c \/ LostAfter(i, c)
      BY <1>2, <2>1 DEF KnownInv
    <3>2. LostAfter(i, c) => LostAfter(i, c)'
      BY <1>0, <2>1, LostStays
    <3>3. io'.pc = "lost" /\ io'.sock = c => LostAfter(i, c)'
      BY DEF LostAfter
    <3>4. mq.items[i].fd \in Fd
      BY <2>1, QueuedEvent
    <3> QED
      BY <1>0, <2>1, <3>1, <3>2, <3>3, <3>4
  <2>2. CASE ~(i \in 1 .. Len(mq.items) /\ mq'.items[i] = mq.items[i])
    <3>1. PICK type, fd, s : Appended(type, fd, s) /\ (type = "lost" \/ sockets'[fd] = s)
      BY <2>2
    <3>2. i = Len(mq'.items)
      BY <1>0, <2>2, <3>1, SMTT(30) DEF Appended
    <3> QED
      BY <1>2, <3>1, <3>2 DEF Appended
  <2> QED
    BY <2>1, <2>2
<1> QED
  BY <1>1, <1>2 DEF KnownInv

(* The worker learns what the first event tells.                           *)
LEMMA KnownHandled ==
  ASSUME TableInv, QueueType, HomeInv, KnownInv, WkHandle PROVE KnownInv'
<1> DEFINE m == mq.items[1]
<1>1. /\ sockets' = sockets /\ Len(mq.items) \in Nat /\ Len(mq'.items) \in Nat
      /\ Len(mq.items) = Len(mq'.items) + 1
      /\ \A i \in 1 .. Len(mq'.items) : mq'.items[i] = mq.items[i + 1]
      /\ 1 \in 1 .. Len(mq.items) /\ m \in Message
      /\ live' = [live EXCEPT ![m.fd] = IF m.type = "lost" THEN None ELSE m.sock]
  BY Handled DEF Popped, QueueType, WkHandle
<1>2. live \in [Fd -> MaybeSock] /\ m.fd \in Fd /\ m.sock \in Sock /\ None \notin Sock
  BY <1>1, SockAssumption DEF QueueType, Message
<1>3. ASSUME NEW fd \in Fd, NEW c \in Sock, live'[fd] = c PROVE sockets'[fd] = c \/ Lost(c)'
  <2>1. CASE fd = m.fd
    <3>1. m.type # "lost" /\ m.sock = c
      BY <1>1, <1>2, <1>3, <2>1
    <3>2. sockets[m.fd] = c \/ LostAfter(1, c)
      BY <1>1, <3>1 DEF KnownInv
    <3>3. LostAfter(0 + 1, c) => LostAfter(0, c)'
      BY LostShifts
    <3> QED
      BY <1>1, <2>1, <3>2, <3>3 DEF Lost
  <2>2. CASE fd # m.fd
    <3>1. live[fd] = c
      BY <1>1, <1>2, <1>3, <2>2
    <3>2. m.sock # c
      BY <1>1, <1>2, <2>2, <3>1 DEF HomeInv, Seen
    <3>3. Lost(c) => LostAfter(1, c)
      <4> SUFFICES ASSUME NEW i \in 0 + 1 .. Len(mq.items), mq.items[i].type = "lost", mq.items[i].sock = c
                   PROVE  i \in 1 + 1 .. Len(mq.items)
        BY DEF Lost, LostAfter
      <4>1. i # 1
        BY <3>2
      <4> QED
        BY <1>1, <4>1
    <3>4. LostAfter(0 + 1, c) => LostAfter(0, c)'
      BY LostShifts
    <3>5. sockets[fd] = c \/ Lost(c)
      BY <3>1 DEF KnownInv
    <3> QED
      BY <1>1, <3>3, <3>4, <3>5 DEF Lost
  <2> QED
    BY <2>1, <2>2
<1>4. ASSUME NEW i \in 1 .. Len(mq'.items), NEW c \in Sock,
             mq'.items[i].type # "lost", mq'.items[i].sock = c
      PROVE  sockets'[mq'.items[i].fd] = c \/ LostAfter(i, c)'
  <2>1. i \in Nat /\ i + 1 \in 1 .. Len(mq.items) /\ mq'.items[i] = mq.items[i + 1]
    BY <1>1
  <2>2. sockets[mq.items[i + 1].fd] = c \/ LostAfter(i + 1, c)
    BY <1>4, <2>1 DEF KnownInv
  <2>3. LostAfter(i + 1, c) => LostAfter(i, c)'
    BY <2>1, LostShifts
  <2> QED
    BY <1>1, <2>1, <2>2, <2>3
<1> QED
  BY <1>3, <1>4 DEF KnownInv

(* All steps keep it.                                                      *)
LEMMA KnownKept ==
  ASSUME TableInv, QueueType, ClosingInv, HomeInv, KnownInv, [Next]_vars PROVE KnownInv'
<1>0. sockets \in [Fd -> MaybeSock] /\ live \in [Fd -> MaybeSock]
  BY DEF TableInv, TypeInv, QueueType
<1>1. CASE WkHandle
  BY <1>1, KnownHandled
<1>2. CASE WkStore
  <2>1. /\ wk.fd \in Fd /\ sockets[wk.fd] = None /\ ~WkHandle
        /\ sockets' = [sockets EXCEPT ![wk.fd] = wk.sock]
        /\ live' = [live EXCEPT ![wk.fd] = wk.sock] /\ mq' = mq
    BY <1>2, StoresSocket DEF WkStore, WkHandle
  <2>2. Len(mq.items) \in Nat /\ None \notin Sock
    BY SockAssumption DEF QueueType
  <2>3. ASSUME NEW fd \in Fd, NEW c \in Sock, live'[fd] = c PROVE sockets'[fd] = c \/ Lost(c)'
    <3>1. Lost(c) => Lost(c)'
      BY <2>1, <2>2, LostStays DEF Lost
    <3> QED
      BY <1>0, <2>1, <2>3, <3>1 DEF KnownInv
  <2>4. ASSUME NEW i \in 1 .. Len(mq'.items), NEW c \in Sock,
               mq'.items[i].type # "lost", mq'.items[i].sock = c
        PROVE  sockets'[mq'.items[i].fd] = c \/ LostAfter(i, c)'
    <3>1. LostAfter(i, c) => LostAfter(i, c)'
      BY <2>1, <2>2, LostStays
    <3>2. sockets[mq.items[i].fd] = c \/ LostAfter(i, c)
      BY <2>1, <2>4 DEF KnownInv
    <3>3. mq.items[i].fd \in Fd
      BY <2>1, QueuedEvent
    <3> QED
      BY <1>0, <2>1, <2>2, <3>1, <3>2, <3>3
  <2> QED
    BY <2>3, <2>4 DEF KnownInv
<1>3. CASE ~WkHandle /\ ~WkStore
  <2>a. Silent => live' = live /\ sockets' = sockets /\ mq' = mq
    BY DEF Silent
  <2>1. CASE Silent
    BY <1>3, <2>1, <2>a, KnownPushed
  <2>2. CASE IoAccept
    <3>1. NewFd \in Fd /\ Head(backlog) \in Sock /\ live' = live
          /\ sockets' = [sockets EXCEPT ![NewFd] = Head(backlog)] /\ sockets[NewFd] = None
          /\ (mq' = mq \/ Appended("establish", NewFd, Head(backlog)))
      BY <2>2, AcceptsPeer, Pushed DEF IoAccept, IoStep
    <3>2. sockets'[NewFd] = Head(backlog) /\ \A fd \in Fd : sockets'[fd] = sockets[fd] \/ sockets[fd] = None
      BY <1>0, <3>1
    <3> QED
      BY <1>3, <3>1, <3>2, KnownPushed
  <2>3. CASE IoReadPackage /\ ~MqFull
    <3>1. /\ live' = live /\ sockets' = sockets
          /\ mq' = mq \/ Appended("package", io.fd, sockets[io.fd])
      BY <2>3, ReadsConn, Pushed DEF IoReadPackage, IoStep, IoSocket
    <3> QED
      BY <1>3, <3>1, KnownPushed
  <2>4. CASE IoClose
    <3>1. live' = live /\ sockets' = sockets /\ mq' = mq
      BY <2>4 DEF IoClose, IoStep
    <3> QED
      BY <1>3, <3>1, KnownPushed
  <2>5. CASE IoForget
    <3>1. /\ live' = live /\ mq' = mq /\ io.fd \in Fd /\ sockets' = [sockets EXCEPT ![io.fd] = None]
          /\ io'.pc = "lost" /\ io'.sock = sockets[io.fd]
      BY <2>5, ForgetsSocket DEF IoForget, IoStep, ClosingInv
    <3>2. \A fd \in Fd : sockets'[fd] = sockets[fd] \/ (io'.pc = "lost" /\ io'.sock = sockets[fd])
      BY <1>0, <3>1
    <3> QED
      BY <1>3, <3>1, <3>2, KnownPushed
  <2>6. CASE IoLost
    <3>1. live' = live /\ sockets' = sockets /\ (mq' = mq \/ Appended("lost", io.fd, io.sock))
      BY <2>6, TellsLost, Pushed DEF IoLost, IoStep, ClosingInv
    <3> QED
      BY <1>3, <3>1, KnownPushed
  <2>7. ASSUME NEW fd \in Fd, Response(fd) PROVE KnownInv'
    <3>1. live' = live /\ sockets' = sockets /\ mq' = mq
      BY <2>7 DEF Response, shared
    <3> QED
      BY <1>3, <3>1, KnownPushed
  <2> QED
    BY <1>3, <2>1, <2>2, <2>3, <2>4, <2>5, <2>6, <2>7, StepCases
<1> QED
  BY <1>1, <1>2, <1>3

\* A response goes to the connection that Lua means, or Lua has yet to be told
\* that this one is lost.
MeantInv == wk.pc = "push" => \A c : wk.to = c => wk.sock = c \/ Lost(c)

(* slam_io_response finds what Lua knows of the descriptor.                *)
LEMMA MeantKept ==
  ASSUME TableInv, QueueType, ClosingInv, KnownInv, MeantInv, [Next]_vars PROVE MeantInv'
<1> SUFFICES ASSUME NEW c, wk'.pc = "push", wk'.to = c PROVE wk'.sock = c \/ Lost(c)'
  BY DEF MeantInv
<1>1. ASSUME NEW fd \in Fd, Response(fd), sockets[fd] # None PROVE wk'.sock = c \/ Lost(c)'
  <2>1. wk'.sock = sockets[fd] /\ live[fd] = c /\ c \in Sock
    BY <1>1, AnswersSocket DEF Sock
  <2>2. UNCHANGED <<dropped, io, mq>>
    BY <1>1 DEF Response, WkStep, shared
  <2>3. Lost(c) => Lost(c)'
    BY <2>2 DEF Lost, LostAfter
  <2> QED
    BY <2>1, <2>3 DEF KnownInv
<1>2. CASE WkHandle \/ WkStore
  <2>1. wk \in WkState
    BY DEF TableInv, TypeInv
  <2>2. wk'.pc \in {"lua", "script"}
    BY <1>2, <2>1, ZenonT(30) DEF WkHandle, WkStore, WkState
  <2> QED
    BY <2>2
<1>3. CASE SamePush /\ ~WkHandle
  <2>1. Lost(c) => Lost(c)'
    BY <1>3, LostStays DEF Lost, QueueType
  <2> QED
    BY <1>3, <2>1 DEF SamePush, MeantInv
<1>4. CASE IoAccept \/ IoReadPackage \/ IoClose \/ IoForget \/ IoLost
  BY <1>2, <1>3, <1>4 DEF SamePush, IoAccept, IoReadPackage, IoClose, IoForget, IoLost, IoStep
<1> QED
  BY <1>1, <1>2, <1>3, <1>4, StepCases DEF Silent

-----------------------------------------------------------------------------
(* The order of the events.  After handling the first n events Lua takes a *)
(* descriptor for c: the last of them on the descriptor says so, or none   *)
(* is and Lua does already.                                                *)
After(m) == IF m.type = "lost" THEN None ELSE m.sock

Takes(fd, n, c) ==
  \/ live[fd] = c /\ \A k \in 1 .. n : mq.items[k].fd # fd
  \/ \E k \in 1 .. n : /\ mq.items[k].fd = fd /\ After(mq.items[k]) = c
                       /\ \A l \in k + 1 .. n : mq.items[l].fd # fd

\* What Lua may take the descriptor of an event for when it gets the event.
Accepts(c, m) == IF m.type = "establish" THEN c \in {None} \cup Client
                 ELSE c \in {m.sock} \cup Client

\* When all events are handled Lua takes a descriptor for what the table holds,
\* or for nothing when that is a socket it opened itself; the socket that the IO
\* thread has just taken out of the table is not yet reported.
Settled(fd, c) ==
  /\ c \in {None, sockets[fd]} \/ (io.pc = "lost" /\ io.fd = fd /\ c = io.sock)
  /\ sockets[fd] \in Peer => c = sockets[fd]
  /\ io.pc = "lost" /\ io.fd = fd /\ io.sock \in Peer => c \in {io.sock} \cup Client

OrderInv ==
  dropped = {} =>
    /\ \A j \in 1 .. Len(mq.items), fd \in Fd, c \in MaybeSock :
         mq.items[j].fd = fd /\ mq.items[j].sock \in Peer /\ Takes(fd, j - 1, c) =>
           Accepts(c, mq.items[j])
    /\ \A fd \in Fd, n \in Nat, c \in MaybeSock :
         n = Len(mq.items) /\ Takes(fd, n, c) => Settled(fd, c)

\* Peers have connections only after the server was opened.
ServerInv ==
  Unborn(Listener) =>
    /\ \A fd \in Fd : sockets[fd] \notin Peer
    /\ \A i \in 1 .. Len(mq.items) : mq.items[i].sock \notin Peer
    /\ io.pc \in {"forget", "lost"} => io.sock \notin Peer

(* The table has a listener when a connection is accepted.                 *)
LEMMA ServerKept ==
  ASSUME TableInv, QueueType, ClosingInv, ServerInv, [Next]_vars PROVE ServerInv'
<1> SUFFICES ASSUME Unborn(Listener)'
             PROVE  /\ \A fd \in Fd : sockets'[fd] \notin Peer
                    /\ \A i \in 1 .. Len(mq'.items) : mq'.items[i].sock \notin Peer
                    /\ io'.pc \in {"forget", "lost"} => io'.sock \notin Peer
  BY DEF ServerInv
<1>0. Listener \in Sock /\ None \notin Peer /\ Len(mq.items) \in Nat /\ sockets \in [Fd -> MaybeSock]
  BY SockAssumption DEF Sock, Conn, QueueType, TableInv, TypeInv
<1>a. /\ Unborn(Listener)
      /\ \A fd \in Fd : sockets[fd] \notin Peer
      /\ \A i \in 1 .. Len(mq.items) : mq.items[i].sock \notin Peer
      /\ io.pc \in {"forget", "lost"} => io.sock \notin Peer
  BY <1>0, UnbornShrinks DEF ServerInv
<1>b. ASSUME NEW type, NEW fd, NEW s, s \notin Peer, Appended(type, fd, s)
      PROVE  \A i \in 1 .. Len(mq'.items) : mq'.items[i].sock \notin Peer
  <2>1. ASSUME NEW i \in 1 .. Len(mq'.items), i # Len(mq'.items) PROVE i \in 1 .. Len(mq.items)
    BY ONLY <1>0, <1>b, <2>1 DEF Appended
  <2>2. mq'.items[Len(mq'.items)].sock = s
    BY ONLY <1>b DEF Appended
  <2>3. \A i \in 1 .. Len(mq.items) : mq'.items[i] = mq.items[i]
    BY ONLY <1>b DEF Appended
  <2> QED
    BY ONLY <1>a, <1>b, <2>1, <2>2, <2>3
<1>1. CASE Silent
  BY <1>1, <1>a DEF Silent
<1>2. CASE IoAccept
  <2>1. io.fd \in Fd /\ sockets[io.fd] = Listener
    BY <1>2 DEF TableInv, TypeInv, IoAccept, IoAccepts, IoStep, IoSocket
  <2>2. net[Listener].state # "none"
    BY <1>0, <2>1 DEF TableInv, FreshInv
  <2>3. ~(Opening /\ wk.sock = Listener)
    BY <2>1 DEF TableInv, OpeningInv
  <2>4. \A i \in 1 .. Len(backlog) : backlog[i] # Listener
    BY SockAssumption DEF TableInv, TypeInv, Conn
  <2> QED
    BY <1>a, <2>2, <2>3, <2>4 DEF Unborn
<1>3. CASE IoReadPackage /\ ~MqFull
  <2>1. /\ sockets' = sockets /\ io' = io /\ io.fd \in Fd
        /\ mq' = mq \/ Appended("package", io.fd, sockets[io.fd])
    BY <1>3, ReadsConn, Pushed DEF IoReadPackage, IoStep, IoSocket
  <2> QED
    BY <1>a, <1>b, <2>1
<1>4. CASE IoClose
  <2>1. sockets' = sockets /\ mq' = mq
    BY <1>4 DEF IoClose
  <2> QED
    BY <1>4, <1>a, <2>1, ClosesSocket
<1>5. CASE IoForget
  <2>1. mq' = mq
    BY <1>5 DEF IoForget
  <2>2. \A fd \in Fd : sockets'[fd] = sockets[fd] \/ sockets'[fd] = None
    BY <1>0, <1>5, ForgetsSocket
  <2> QED
    BY <1>0, <1>5, <1>a, <2>1, <2>2, ForgetsSocket
<1>6. CASE IoLost
  <2>1. sockets' = sockets /\ (mq' = mq \/ Appended("lost", io.fd, io.sock))
    BY <1>6, TellsLost, Pushed DEF IoLost, IoStep, ClosingInv
  <2> QED
    BY <1>6, <1>a, <1>b, <2>1, TellsLost
<1>7. CASE WkHandle
  <2>1. sockets' = sockets /\ io' = io
    BY <1>7 DEF WkHandle, WkStep
  <2>2. ASSUME NEW i \in 1 .. Len(mq'.items) PROVE mq'.items[i].sock \notin Peer
    <3>1. i + 1 \in 1 .. Len(mq.items) /\ mq'.items[i] = mq.items[i + 1]
      BY <1>0, <1>7, Handled, SMTT(30) DEF Popped
    <3> QED
      BY <1>a, <3>1
  <2> QED
    BY <1>a, <2>1, <2>2
<1>8. CASE WkStore
  <2>1. UNCHANGED <<mq, io>> /\ wk.sock \notin Peer
    BY <1>8, StoresSocket, SockAssumption DEF WkStore, WkStep, Conn
  <2>2. \A fd \in Fd : sockets'[fd] = sockets[fd] \/ sockets'[fd] = wk.sock
    BY <1>0, <1>8, StoresSocket
  <2> QED
    BY <1>a, <2>1, <2>2
<1>9. ASSUME NEW fd \in Fd, Response(fd) PROVE UNCHANGED <<sockets, mq, io>>
  BY <1>9 DEF Response, WkStep, shared
<1> QED
  BY <1>a, <1>1, <1>2, <1>3, <1>4, <1>5, <1>6, <1>7, <1>8, <1>9, StepCases

(* A new event is the last one.                                            *)
LEMMA TakesAppended ==
  ASSUME QueueType, NEW type, NEW f \in Fd, NEW s \in Sock, Appended(type, f, s), live' = live,
         NEW fd \in Fd, NEW n \in 0 .. Len(mq'.items), NEW c, Takes(fd, n, c)'
  PROVE  IF n = Len(mq'.items) /\ f = fd
         THEN c = IF type = "lost" THEN None ELSE s
         ELSE Takes(fd, IF n = Len(mq'.items) THEN Len(mq.items) ELSE n, c)
<1>0. /\ Len(mq.items) \in Nat /\ Len(mq'.items) = Len(mq.items) + 1
      /\ \A i \in 1 .. Len(mq.items) : mq'.items[i] = mq.items[i]
      /\ mq'.items[Len(mq'.items)].fd = f
      /\ After(mq'.items[Len(mq'.items)]) = IF type = "lost" THEN None ELSE s
  BY SMTT(30) DEF QueueType, Appended, After
<1>1. CASE n = Len(mq'.items) /\ f = fd
  <2>a. PICK q \in Nat : n = q + 1
    BY ONLY <1>0, <1>1
  <2>1. n \in 1 .. n
    BY ONLY <2>a
  <2>2. PICK k \in 1 .. n : /\ mq'.items[k].fd = fd /\ After(mq'.items[k]) = c
                            /\ \A l \in k + 1 .. n : mq'.items[l].fd # fd
    BY <1>0, <1>1, <2>1 DEF Takes, After
  <2>3. k = n
    BY <1>0, <1>1, <2>1, <2>2, SMTT(30)
  <2> QED
    BY <1>0, <1>1, <2>2, <2>3
<1>2. CASE ~(n = Len(mq'.items) /\ f = fd)
  <2> DEFINE h == IF n = Len(mq'.items) THEN Len(mq.items) ELSE n
  <2>a. PICK q \in Nat : q = Len(mq.items) /\ Len(mq'.items) = q + 1
    BY <1>0, Zenon
  <2>b. n \in 0 .. q + 1 /\ h = IF n = q + 1 THEN q ELSE n
    BY <2>a, Zenon
  <2>c. h \in 0 .. q /\ h =< n
    BY ONLY <2>a, <2>b
  <2>1. h \in 0 .. Len(mq.items) /\ h =< n
    BY <2>a, <2>c, Zenon
  <2>2. \A k \in 1 .. h : mq'.items[k] = mq.items[k] /\ k \in 1 .. n
    BY <1>0, <2>1, SMTT(30)
  <2>3. \A k \in 1 .. n : k \in 1 .. h \/ mq'.items[k].fd # fd
    BY <1>0, <1>2, SMTT(30)
  <2> HIDE DEF h
  <2>4. CASE live'[fd] = c /\ \A k \in 1 .. n : mq'.items[k].fd # fd
    <3>1. live[fd] = c /\ \A k \in 1 .. h : mq.items[k].fd # fd
      BY <2>2, <2>4
    <3> QED
      BY <1>2, <3>1 DEF Takes, h
  <2>5. CASE \E k \in 1 .. n : /\ mq'.items[k].fd = fd /\ After(mq'.items[k]) = c
                               /\ \A l \in k + 1 .. n : mq'.items[l].fd # fd
    <3>1. PICK k \in 1 .. n : /\ mq'.items[k].fd = fd /\ After(mq'.items[k]) = c
                              /\ \A l \in k + 1 .. n : mq'.items[l].fd # fd
      BY <2>5
    <3>2. k \in 1 .. h /\ mq.items[k].fd = fd /\ After(mq.items[k]) = c
      BY <2>2, <2>3, <3>1
    <3>3. ASSUME NEW l \in k + 1 .. h PROVE mq.items[l].fd # fd
      <4>1. l \in k + 1 .. n /\ l \in 1 .. h
        BY <2>1, <3>2
      <4> QED
        BY <2>2, <3>1, <4>1
    <3> QED
      BY <1>2, <3>2, <3>3 DEF Takes, h
  <2> QED
    BY <2>4, <2>5 DEF Takes, After
<1> QED
  BY <1>1, <1>2

(* One event less is to be handled.                                        *)
LEMMA TakesHandled ==
  ASSUME QueueType, WkHandle, NEW fd \in Fd, NEW n \in 0 .. Len(mq'.items), NEW c, Takes(fd, n, c)'
  PROVE  Takes(fd, n + 1, c)
<1>0. /\ Len(mq'.items) \in Nat /\ Len(mq.items) = Len(mq'.items) + 1
      /\ \A i \in 1 .. Len(mq'.items) : mq'.items[i] = mq.items[i + 1]
      /\ live \in [Fd -> MaybeSock] /\ mq.items[1].fd \in Fd
      /\ live' = [live EXCEPT ![mq.items[1].fd] = After(mq.items[1])]
  BY Handled DEF Popped, QueueType, After
<1>1. \A k \in 1 .. n : mq'.items[k] = mq.items[k + 1]
  BY <1>0
<1>2. \A k \in 2 .. n + 1 : k - 1 \in 1 .. n /\ mq'.items[k - 1] = mq.items[k]
  BY <1>0
<1>3. CASE live'[fd] = c /\ \A k \in 1 .. n : mq'.items[k].fd # fd
  <2>1. \A k \in 2 .. n + 1 : mq.items[k].fd # fd
    BY <1>2, <1>3
  <2>2. CASE mq.items[1].fd = fd
    <3>1. After(mq.items[1]) = c /\ 1 \in 1 .. n + 1 /\ \A l \in 1 + 1 .. n + 1 : mq.items[l].fd # fd
      BY <1>0, <1>3, <2>1, <2>2, SMTT(30)
    <3> QED
      BY <2>2, <3>1 DEF Takes
  <2>3. CASE mq.items[1].fd # fd
    <3>1. live[fd] = c
      BY <1>0, <1>3, <2>3
    <3>2. \A k \in 1 .. n + 1 : k = 1 \/ k \in 2 .. n + 1
      OBVIOUS
    <3>3. \A k \in 1 .. n + 1 : mq.items[k].fd # fd
      BY <2>1, <2>3, <3>2
    <3> QED
      BY <3>1, <3>3 DEF Takes
  <2> QED
    BY <2>2, <2>3
<1>4. CASE \E k \in 1 .. n : /\ mq'.items[k].fd = fd /\ After(mq'.items[k]) = c
                             /\ \A l \in k + 1 .. n : mq'.items[l].fd # fd
  <2>1. PICK k \in 1 .. n : /\ mq'.items[k].fd = fd /\ After(mq'.items[k]) = c
                            /\ \A l \in k + 1 .. n : mq'.items[l].fd # fd
    BY <1>4
  <2>2. k + 1 \in 1 .. n + 1 /\ mq.items[k + 1].fd = fd /\ After(mq.items[k + 1]) = c
    BY <1>1, <2>1
  <2>3. ASSUME NEW l \in (k + 1) + 1 .. n + 1 PROVE mq.items[l].fd # fd
    <3>1. l - 1 \in k + 1 .. n /\ l \in 2 .. n + 1
      BY <2>1
    <3> QED
      BY <1>2, <2>1, <3>1, ZenonT(30)
  <2> QED
    BY <2>2, <2>3 DEF Takes
<1> QED
  BY <1>3, <1>4 DEF Takes, After

(* The order is kept when the queue and the knowledge of Lua are.          *)
LEMMA OrderSame ==
  ASSUME OrderInv, UNCHANGED <<mq, live, dropped>>,
         dropped = {} => \A fd \in Fd, c \in MaybeSock : Settled(fd, c) => Settled(fd, c)'
  PROVE  OrderInv'
<1>1. \A fd, n, c : Takes(fd, n, c)' => Takes(fd, n, c)
  BY DEF Takes
<1>2. \A j \in 1 .. Len(mq'.items), c \in MaybeSock :
        Accepts(c, mq'.items[j]) <=> Accepts(c, mq.items[j])
  OBVIOUS
<1> QED
  BY <1>1, <1>2 DEF OrderInv

(* It is when an event is pushed that Lua accepts once it has handled      *)
(* those before.                                                           *)
LEMMA OrderPushed ==
  ASSUME OrderInv, QueueType, live' = live,
         NEW type \in {"establish", "package", "lost"}, NEW f \in Fd, NEW s \in Sock,
         (mq' = mq /\ dropped' = dropped \cup {s}) \/ Appended(type, f, s),
         \A c \in MaybeSock : dropped = {} /\ s \in Peer /\ Settled(f, c) =>
           IF type = "establish" THEN c \in {None} \cup Client ELSE c \in {s} \cup Client,
         \A c \in MaybeSock : c = (IF type = "lost" THEN None ELSE s) => Settled(f, c)',
         \A fd \in Fd, c \in MaybeSock : fd # f /\ Settled(fd, c) => Settled(fd, c)'
  PROVE  OrderInv'
<1> SUFFICES ASSUME dropped' = {} PROVE OrderInv'
  BY ZenonT(30) DEF OrderInv
<1>a. Appended(type, f, s) /\ dropped = {}
  BY Zenon DEF Appended
<1>b. Len(mq.items) \in Nat
  BY ONLY QueueType DEF QueueType
<1>0. /\ Appended(type, f, s) /\ dropped = {} /\ Len(mq.items) \in Nat
      /\ Len(mq'.items) = Len(mq.items) + 1
      /\ \A i \in 1 .. Len(mq.items) : mq'.items[i] = mq.items[i]
      /\ mq'.items[Len(mq'.items)] = [type |-> type, fd |-> f, sock |-> s]
  BY ONLY <1>a, <1>b DEF Appended
<1>1. ASSUME NEW j \in 1 .. Len(mq'.items), NEW fd \in Fd, NEW c \in MaybeSock,
             mq'.items[j].fd = fd, mq'.items[j].sock \in Peer, Takes(fd, j - 1, c)'
      PROVE  Accepts(c, mq'.items[j])
  <2>0. j - 1 \in 0 .. Len(mq'.items) /\ j - 1 \in Nat /\ j - 1 # Len(mq'.items)
    BY ONLY <1>0, <1>1
  <2>1. Takes(fd, j - 1, c)
    BY <1>0, <1>1, <2>0, TakesAppended, ZenonT(30)
  <2>2. CASE j = Len(mq'.items)
    <3>a. mq'.items[j] = [type |-> type, fd |-> f, sock |-> s] /\ mq'.items[j].fd = fd
      BY <1>0, <1>1, <2>2, ZenonT(30)
    <3>b. fd = f /\ mq'.items[j].type = type /\ mq'.items[j].sock = s
      BY ONLY <3>a, SMTT(30)
    <3>c. PICK q \in Nat : q = Len(mq.items) /\ j = q + 1
      BY <1>0, <2>2, Zenon
    <3>d. j - 1 = q
      BY ONLY <3>c
    <3>1. fd = f /\ j - 1 = Len(mq.items) /\ mq'.items[j].type = type /\ mq'.items[j].sock = s
      BY <3>b, <3>c, <3>d, Zenon
    <3>2. Settled(f, c)
      BY ONLY <1>0, <2>0, <2>1, <3>1, OrderInv DEF OrderInv
    <3> QED
      BY <1>0, <1>1, <3>1, <3>2 DEF Accepts
  <2>3. CASE j # Len(mq'.items)
    <3>a. PICK q \in Nat : q = Len(mq.items) /\ Len(mq'.items) = q + 1
      BY <1>0, ZenonT(30)
    <3>b. j \in 1 .. q + 1 /\ j # q + 1
      BY <2>3, <3>a, Zenon
    <3>c. j \in 1 .. q
      BY ONLY <3>a, <3>b
    <3>1. j \in 1 .. Len(mq.items) /\ mq'.items[j] = mq.items[j]
      BY <1>0, <3>a, <3>c, Zenon
    <3> QED
      BY <1>0, <1>1, <2>1, <3>1, ZenonT(30) DEF OrderInv
  <2> QED
    BY <2>2, <2>3
<1>2. ASSUME NEW fd \in Fd, NEW n \in Nat, NEW c \in MaybeSock,
             n = Len(mq'.items), Takes(fd, n, c)'
      PROVE  Settled(fd, c)'
  <2>1. n \in 0 .. Len(mq'.items)
    BY <1>2
  <2>2. CASE fd = f
    <3>1. c = IF type = "lost" THEN None ELSE s
      BY <1>0, <1>2, <2>1, <2>2, TakesAppended, Zenon
    <3> QED
      BY <2>2, <3>1
  <2>3. CASE fd # f
    <3>1. Takes(fd, Len(mq.items), c)
      BY ONLY <1>0, <1>2, <2>1, <2>3, TakesAppended, QueueType, live' = live, f \in Fd, s \in Sock
    <3> QED
      BY <1>0, <2>3, <3>1, ZenonT(30) DEF OrderInv
  <2> QED
    BY <2>2, <2>3
<1> QED
  BY <1>1, <1>2, Zenon DEF OrderInv

(* It is when the worker handles an event, ...                             *)
LEMMA OrderHandled ==
  ASSUME OrderInv, QueueType, WkHandle PROVE OrderInv'
<1> SUFFICES ASSUME dropped' = {} PROVE OrderInv'
  BY DEF OrderInv
<1>0. /\ dropped = {} /\ sockets' = sockets /\ io' = io /\ Len(mq'.items) \in Nat
      /\ Len(mq.items) = Len(mq'.items) + 1
      /\ \A i \in 1 .. Len(mq'.items) : mq'.items[i] = mq.items[i + 1]
  BY Handled DEF WkHandle, WkStep, Popped
<1>1. ASSUME NEW j \in 1 .. Len(mq'.items), NEW fd \in Fd, NEW c \in MaybeSock,
             mq'.items[j].fd = fd, mq'.items[j].sock \in Peer, Takes(fd, j - 1, c)'
      PROVE  Accepts(c, mq'.items[j])
  <2>1. /\ j + 1 \in 1 .. Len(mq.items) /\ mq'.items[j] = mq.items[j + 1]
        /\ j - 1 \in 0 .. Len(mq'.items) /\ (j - 1) + 1 = (j + 1) - 1
    BY <1>0
  <2>2. Takes(fd, (j - 1) + 1, c)
    BY <1>1, <2>1, TakesHandled
  <2>3. Takes(fd, (j + 1) - 1, c)
    BY <2>1, <2>2
  <2> QED
    BY <1>0, <1>1, <2>1, <2>3 DEF OrderInv
<1>2. ASSUME NEW fd \in Fd, NEW n \in Nat, NEW c \in MaybeSock,
             n = Len(mq'.items), Takes(fd, n, c)'
      PROVE  Settled(fd, c)'
  <2>a. n \in 0 .. n /\ n + 1 \in Nat
    BY ONLY n \in Nat
  <2>1. n \in 0 .. Len(mq'.items) /\ n + 1 = Len(mq.items) /\ n + 1 \in Nat
    BY <1>0, <1>2, <2>a, Zenon
  <2>2. Takes(fd, n + 1, c)
    BY <1>2, <2>1, TakesHandled
  <2>3. Settled(fd, c)
    BY <1>0, <2>1, <2>2 DEF OrderInv
  <2> QED
    BY <1>0, <2>3 DEF Settled
<1> QED
  BY <1>1, <1>2 DEF OrderInv

(* ... and when it opens a socket itself.                                  *)
LEMMA OrderStored ==
  ASSUME TableInv, QueueType, ServerInv, OrderInv, WkStore PROVE OrderInv'
<1> SUFFICES ASSUME dropped' = {} PROVE OrderInv'
  BY DEF OrderInv
<1>0. /\ wk.fd \in Fd /\ wk.sock \in Client \cup {Listener} /\ sockets[wk.fd] = None
      /\ sockets' = [sockets EXCEPT ![wk.fd] = wk.sock]
      /\ live' = [live EXCEPT ![wk.fd] = wk.sock]
      /\ UNCHANGED <<io, mq, dropped>> /\ wk.pc = "store" /\ dropped = {}
  BY StoresSocket DEF WkStore, WkStep
<1>1. /\ sockets'[wk.fd] = wk.sock /\ live'[wk.fd] = wk.sock
      /\ \A fd \in Fd : fd # wk.fd => sockets'[fd] = sockets[fd] /\ live'[fd] = live[fd]
  BY <1>0 DEF TableInv, TypeInv, QueueType
<1>2. wk.sock \notin Peer /\ None \notin Peer /\ None \notin Sock
  BY <1>0, SockAssumption DEF Sock, Conn
<1>3. wk.sock \in Client \/ Unborn(Listener)
  BY <1>0 DEF Unborn, Opening
<1>4. ASSUME NEW fd \in Fd, NEW n, NEW c, Takes(fd, n, c)'
      PROVE  Takes(fd, n, c) \/ (fd = wk.fd /\ c = wk.sock)
  BY <1>0, <1>1, <1>4 DEF Takes
<1>5. ASSUME NEW j \in 1 .. Len(mq'.items), NEW fd \in Fd, NEW c \in MaybeSock,
             mq'.items[j].fd = fd, mq'.items[j].sock \in Peer, Takes(fd, j - 1, c)'
      PROVE  Accepts(c, mq'.items[j])
  <2>1. CASE Takes(fd, j - 1, c)
    BY <1>0, <1>5, <2>1 DEF OrderInv
  <2>2. CASE c = wk.sock
    <3>1. wk.sock \in Client
      BY <1>0, <1>3, <1>5, Zenon DEF ServerInv
    <3> QED
      BY <2>2, <3>1 DEF Accepts
  <2> QED
    BY <1>4, <1>5, <2>1, <2>2
<1>6. ASSUME NEW fd \in Fd, NEW n \in Nat, NEW c \in MaybeSock,
             n = Len(mq'.items), Takes(fd, n, c)'
      PROVE  Settled(fd, c)'
  <2>1. CASE fd = wk.fd /\ c = wk.sock
    <3>1. io.pc = "lost" /\ io.sock \in Peer => wk.sock \in Client
      BY <1>3 DEF ServerInv
    <3> QED
      BY <1>0, <1>1, <1>2, <2>1, <3>1 DEF Settled
  <2>2. CASE Takes(fd, n, c)
    <3>1. Settled(fd, c)
      BY <1>0, <1>6, <2>2, ZenonT(30) DEF OrderInv
    <3>2. CASE fd = wk.fd
      BY <1>0, <1>1, <1>2, <3>1, <3>2 DEF Settled
    <3>3. CASE fd # wk.fd
      BY <1>0, <1>1, <3>1, <3>3 DEF Settled
    <3> QED
      BY <3>2, <3>3
  <2> QED
    BY <1>4, <1>6, <2>1, <2>2
<1> QED
  BY <1>5, <1>6 DEF OrderInv

(* All steps keep the order.                                               *)
LEMMA OrderKept ==
  ASSUME TableInv, QueueType, ClosingInv, ServerInv, OrderInv, [Next]_vars PROVE OrderInv'
<1>0. sockets \in [Fd -> MaybeSock] /\ None \notin Peer /\ None \in MaybeSock
  BY SockAssumption DEF TableInv, TypeInv, Sock, Conn, MaybeSock
<1>1. CASE Silent
  <2>1. \A fd \in Fd, c \in MaybeSock : Settled(fd, c) => Settled(fd, c)'
    BY <1>1 DEF Silent, Settled
  <2> QED
    BY <1>1, <2>1, OrderSame DEF Silent
<1>2. CASE IoAccept
  <2> DEFINE s == Head(backlog)
  <2>1. /\ NewFd \in Fd /\ s \in Peer /\ s \in Sock /\ live' = live /\ io' = io /\ io.pc = "read"
        /\ sockets' = [sockets EXCEPT ![NewFd] = s] /\ sockets[NewFd] = None
        /\ (mq' = mq /\ dropped' = dropped \cup {s}) \/ Appended("establish", NewFd, s)
    BY <1>2, AcceptsPeer, Pushed DEF IoAccept, IoStep
  <2> HIDE DEF s
  <2>2. sockets'[NewFd] = s /\ \A fd \in Fd : fd # NewFd => sockets'[fd] = sockets[fd]
    BY <1>0, <2>1
  <2>3. \A c \in MaybeSock : Settled(NewFd, c) => c \in {None} \cup Client
    BY <2>1 DEF Settled
  <2>4. \A f \in Fd, c \in MaybeSock : f = NewFd /\ c = s => Settled(f, c)'
    BY <2>1, <2>2 DEF Settled
  <2>5. \A fd \in Fd, c \in MaybeSock : fd # NewFd /\ Settled(fd, c) => Settled(fd, c)'
    BY <2>1, <2>2 DEF Settled
  <2>6. PICK f \in Fd : f = NewFd
    BY <2>1
  <2> QED
    BY <2>1, <2>3, <2>4, <2>5, <2>6, OrderPushed
<1>3. CASE IoReadPackage /\ ~MqFull
  <2> DEFINE s == sockets[io.fd]
  <2>1. /\ io.fd \in Fd /\ s \in Sock /\ live' = live /\ io' = io /\ io.pc = "read" /\ sockets' = sockets
        /\ (mq' = mq /\ dropped' = dropped \cup {s}) \/ Appended("package", io.fd, s)
    BY <1>3, ReadsConn, Pushed DEF IoReadPackage, IoStep, IoSocket
  <2>3. \A c \in MaybeSock : s \in Peer /\ Settled(io.fd, c) => c \in {s} \cup Client
    BY <2>1 DEF Settled
  <2>4. \A f \in Fd, c \in MaybeSock : f = io.fd /\ c = s => Settled(f, c)'
    BY <2>1 DEF Settled
  <2>5. \A fd \in Fd, c \in MaybeSock : fd # io.fd /\ Settled(fd, c) => Settled(fd, c)'
    BY <2>1 DEF Settled
  <2> HIDE DEF s
  <2>6. PICK f \in Fd : f = io.fd
    BY <2>1
  <2> QED
    BY <2>1, <2>3, <2>4, <2>5, <2>6, OrderPushed
<1>4. CASE IoClose
  <2>1. UNCHANGED <<mq, live, dropped, sockets>> /\ io.pc = "remove" /\ io'.pc = "forget"
    BY <1>4, ClosesSocket DEF IoClose, IoStep
  <2>2. \A fd \in Fd, c \in MaybeSock : Settled(fd, c) => Settled(fd, c)'
    BY <2>1 DEF Settled
  <2> QED
    BY <2>1, <2>2, OrderSame
<1>5. CASE IoForget
  <2>1. /\ UNCHANGED <<mq, live, dropped>> /\ io.pc = "forget" /\ io.fd \in Fd
        /\ io'.pc = "lost" /\ io'.fd = io.fd /\ io'.sock = sockets[io.fd]
        /\ sockets' = [sockets EXCEPT ![io.fd] = None]
    BY <1>5, ForgetsSocket DEF IoForget, IoStep, ClosingInv
  <2>2. sockets'[io.fd] = None /\ \A fd \in Fd : fd # io.fd => sockets'[fd] = sockets[fd]
    BY <1>0, <2>1
  <2>3. \A fd \in Fd, c \in MaybeSock : Settled(fd, c) => Settled(fd, c)'
    BY <1>0, <2>1, <2>2 DEF Settled
  <2> QED
    BY <2>1, <2>3, OrderSame
<1>6. CASE IoLost
  <2> DEFINE s == io.sock
  <2>1. /\ io.fd \in Fd /\ s \in Sock /\ live' = live /\ io.pc = "lost" /\ io'.pc \in {"write", "next"}
        /\ sockets' = sockets /\ sockets[io.fd] \notin Peer
        /\ (mq' = mq /\ dropped' = dropped \cup {s}) \/ Appended("lost", io.fd, s)
    BY <1>6, TellsLost, Pushed DEF IoLost, IoStep, ClosingInv
  <2>3. \A c \in MaybeSock : s \in Peer /\ Settled(io.fd, c) => c \in {s} \cup Client
    BY <2>1 DEF Settled
  <2>4. \A f \in Fd, c \in MaybeSock : f = io.fd /\ c = None => Settled(f, c)'
    BY <2>1 DEF Settled
  <2>5. \A fd \in Fd, c \in MaybeSock : fd # io.fd /\ Settled(fd, c) => Settled(fd, c)'
    BY <2>1 DEF Settled
  <2> HIDE DEF s
  <2>6. PICK f \in Fd : f = io.fd
    BY <2>1
  <2> QED
    BY <2>1, <2>3, <2>4, <2>5, <2>6, OrderPushed
<1>7. CASE WkHandle
  BY <1>7, OrderHandled
<1>8. CASE WkStore
  BY <1>8, OrderStored
<1>9. ASSUME NEW fd \in Fd, Response(fd) PROVE OrderInv'
  <2>1. UNCHANGED <<mq, live, dropped, sockets, io>>
    BY <1>9 DEF Response, WkStep, shared
  <2>2. \A f \in Fd, c \in MaybeSock : Settled(f, c) => Settled(f, c)'
    BY <2>1 DEF Settled
  <2> QED
    BY <2>1, <2>2, OrderSame
<1> QED
  BY <1>1, <1>2, <1>3, <1>4, <1>5, <1>6, <1>7, <1>8, <1>9, StepCases

-----------------------------------------------------------------------------
\* The inductive invariant of what the worker and Lua are told.
EventInv ==
  /\ QueueType /\ ClosingInv /\ FreedInv /\ HomeInv /\ KnownInv /\ MeantInv
  /\ ServerInv /\ OrderInv

(* What the worker and Lua are told is so in every reachable state.        *)
LEMMA EventInvariant == Spec => [](TableInv /\ EventInv)
<1>1. ASSUME Init PROVE EventInv
  <2>0. None \notin Sock /\ None \notin Peer
    BY SockAssumption DEF Sock, Conn
  <2>1. mq = [items |-> << >>, pops |-> 0] /\ io.pc = "wait" /\ wk.pc = "script"
    BY <1>1 DEF Init
  <2>a. mq.items = << >> /\ 1 .. Len(mq.items) = {}
    BY ONLY <2>1
  <2>b. \A fd \in Fd : live[fd] = None /\ sockets[fd] = None
    BY <1>1 DEF Init
  <2>c. live = [fd \in Fd |-> None]
    BY <1>1 DEF Init
  <2>2. QueueType
    <3>1. mq \in [items : Seq(Message), pops : Int]
      BY ONLY <2>1
    <3> QED
      BY ONLY <2>c, <3>1 DEF QueueType, MaybeSock
  <2>3. ClosingInv /\ FreedInv /\ MeantInv
    BY ONLY <2>1 DEF ClosingInv, FreedInv, MeantInv
  <2>4. HomeInv
    BY ONLY <2>0, <2>1, <2>a, <2>b DEF HomeInv, Seen
  <2>5. KnownInv
    BY ONLY <2>0, <2>a, <2>b DEF KnownInv
  <2>6. ServerInv
    BY ONLY <2>0, <2>1, <2>a, <2>b DEF ServerInv
  <2>7. OrderInv
    <3>1. ASSUME NEW fd \in Fd, NEW n \in Nat, NEW c, n = Len(mq.items), Takes(fd, n, c)
          PROVE  c = None
      BY ONLY <2>a, <2>b, <3>1 DEF Takes
    <3>2. ASSUME NEW fd \in Fd PROVE Settled(fd, None)
      BY ONLY <2>0, <2>1, <2>b, <3>2 DEF Settled
    <3> QED
      BY ONLY <2>a, <3>1, <3>2 DEF OrderInv
  <2> QED
    BY <2>2, <2>3, <2>4, <2>5, <2>6, <2>7 DEF EventInv
<1>2. TableInv /\ EventInv /\ [Next]_vars => EventInv'
  BY QueueTypeKept, ClosingKept, FreedKept, HomeKept, KnownKept, MeantKept, ServerKept,
     OrderKept DEF EventInv
<1> QED
  BY <1>1, <1>2, TableInvariant, PTL DEF Spec

(* A response meets a freed socket only while Lua has not yet been told    *)
(* that its connection is lost, whatever the interleaving of               *)
(* slam_io_response with slam_io_thread_remove_socket.                     *)
THEOREM FreedOnlyBeforeLostHolds == Spec => []FreedOnlyBeforeLost
<1>1. EventInv => FreedOnlyBeforeLost
  <2> SUFFICES ASSUME EventInv PROVE FreedOnlyBeforeLost
    OBVIOUS
  <2>1. mq.items \in Seq(Message) /\ DOMAIN mq.items = 0 + 1 .. Len(mq.items)
    BY DEF EventInv, QueueType
  <2> QED
    BY <2>1 DEF EventInv, FreedInv, Lost, LostAfter, FreedOnlyBeforeLost
<1> QED
  BY <1>1, EventInvariant, PTL

(* Lua gets the events of the connections that peers open in order,        *)
(* although slam_io_thread_accept_socket reuses the descriptors of those   *)
(* that slam_io_thread_remove_socket closed.                               *)
THEOREM EventOrderHolds == Spec => EventOrder
<1> DEFINE InOrder ==
      mq'.pops = mq.pops + 1 /\ dropped = {} /\ Head(mq.items).sock \in Peer =>
        LET m == Head(mq.items)
        IN  IF m.type = "establish" THEN live[m.fd] \in {None} \cup Client
            ELSE live[m.fd] \in {m.sock} \cup Client
<1>1. ASSUME TableInv, EventInv, [Next]_vars PROVE [InOrder]_vars
  <2>0. QueueType /\ ClosingInv /\ mq \in [items : Seq(Message), pops : Int]
    BY <1>1 DEF EventInv, QueueType
  <2>1. CASE WkHandle
    <3> SUFFICES ASSUME dropped = {}, Head(mq.items).sock \in Peer
                 PROVE  Accepts(live[Head(mq.items).fd], Head(mq.items))
      BY DEF Accepts
    <3>a. Popped /\ Len(mq'.items) \in Nat
      BY <2>0, <2>1, Handled, Zenon
    <3>b. PICK v \in Nat : Len(mq.items) = v + 1
      BY <3>a, Zenon DEF Popped
    <3>c. 1 \in 1 .. v + 1
      BY ONLY <3>b
    <3>1. 1 \in 1 .. Len(mq.items) /\ Head(mq.items) = mq.items[1]
      BY <3>a, <3>b, <3>c, Zenon DEF Popped
    <3>2. mq.items[1].fd \in Fd /\ live[mq.items[1].fd] \in MaybeSock
      BY <2>0, <3>1, QueuedEvent DEF QueueType
    <3>3. Takes(mq.items[1].fd, 1 - 1, live[mq.items[1].fd])
      BY DEF Takes
    <3> QED
      BY <1>1, <3>1, <3>2, <3>3 DEF EventInv, OrderInv
  <2>2. CASE ~WkHandle
    <3>0. mq.pops \in Int
      BY <2>0
    <3> SUFFICES ASSUME mq'.pops = mq.pops + 1 PROVE FALSE
      BY <2>2
    <3>a. ASSUME NEW type, NEW fd, NEW s, PushEvent(type, fd, s) PROVE mq'.pops = mq.pops
      BY <2>0, <3>a DEF PushEvent
    <3>1. CASE Silent
      BY <3>0, <3>1 DEF Silent
    <3>2. CASE IoAccept \/ IoReadPackage \/ IoLost
      BY <3>0, <3>2, <3>a DEF IoAccept, IoReadPackage, IoLost
    <3>3. CASE IoClose \/ IoForget \/ WkStore
      BY <3>0, <3>3 DEF IoClose, IoForget, WkStore
    <3>4. ASSUME NEW fd \in Fd, Response(fd) PROVE FALSE
      BY <3>0, <3>4 DEF Response, shared
    <3> QED
      BY <1>1, <2>2, <3>1, <3>2, <3>3, <3>4, StepCases
  <2> QED
    BY <2>1, <2>2
<1> QED
  BY <1>1, EventInvariant, PTL DEF Spec, EventOrder

(* A response is queued on another connection than the one Lua means only  *)
(* while Lua has not yet been told that the one it means is lost, although *)
(* slam_io_response looks the descriptor up without a lock.                *)
THEOREM MisdirectedOnlyBeforeLostHolds == Spec => MisdirectedOnlyBeforeLost
<1> DEFINE Meant ==
      \A s \in Sock : sendq'[s] > sendq[s] =>
        \/ s = wk.to
        \/ wk.to \in dropped
        \/ io.pc = "lost" /\ io.sock = wk.to
        \/ \E i \in DOMAIN mq.items :
             mq.items[i].type = "lost" /\ mq.items[i].sock = wk.to
<1>1. ASSUME Init PROVE SendqType
  <2>1. sendq = [s \in Sock |-> 0]
    BY <1>1 DEF Init
  <2> QED
    BY ONLY <2>1 DEF SendqType
<1>2. TableInv /\ SendqType /\ [Next]_vars => SendqType'
  BY SendqGrows
<1>3. ASSUME TableInv, EventInv, SendqType, [Next]_vars PROVE [Meant]_vars
  <2>1. DOMAIN mq.items = 0 + 1 .. Len(mq.items)
    BY <1>3 DEF EventInv, QueueType
  <2>2. wk.pc = "push" => wk.sock = wk.to \/ Lost(wk.to)
    BY <1>3, Zenon DEF EventInv, MeantInv
  <2>3. \A s \in Sock : sendq'[s] > sendq[s] => wk.pc = "push" /\ s = wk.sock
    BY <1>3, SendqGrows DEF WkPush
  <2> QED
    BY <2>1, <2>2, <2>3 DEF Lost, LostAfter
<1> QED
  BY <1>1, <1>2, <1>3, EventInvariant, PTL DEF Spec, MisdirectedOnlyBeforeLost

=============================================================================
