---------------------------- MODULE SlamIoProof ----------------------------
(***************************************************************************)
(* What the table io->sockets holds while two threads change it without a  *)
(* lock, and the wakeups of the worker, for any number of connections and  *)
(* descriptors and any sizes of the queues.  First the invariant, then     *)
(* that the remote ends, the IO thread and the worker keep it, then what   *)
(* follows from it, at last for the responses in the send queues.          *)
(***************************************************************************)
EXTENDS SlamIo, WellFoundedInduction, TLAPS

Net == [state : {"none", "open", "closed", "reset", "gone"}, in : Int, sent : Int,
        room : Int, out : Int]

Events == [Fd -> SUBSET {"in", "out", "hup"}]
On == SUBSET {"out"}
MaybeFd == Fd \cup {None}
MaybeSock == Sock \cup {None}

IoState == [pc : {"wait", "next", "read", "write", "remove", "forget", "lost"},
            events : Events, fd : MaybeFd, on : On, sock : MaybeSock]

WkState == [pc : {"wait", "drain", "lua", "script", "push", "pollout", "open", "add", "store"},
            back : {"lua", "script"}, fd : MaybeFd, sock : MaybeSock,
            to : MaybeSock, calls : Int]

\* The types that the steps rely on.
TypeInv ==
  /\ file \in [Fd -> MaybeSock]
  /\ sockets \in [Fd -> MaybeSock]
  /\ freed \subseteq Sock
  /\ backlog \in Seq(Peer)
  /\ net \in [Sock -> Net]
  /\ io \in IoState
  /\ wk \in WkState
  /\ io.pc \in {"read", "write", "remove", "forget", "lost"} => io.fd \in Fd

\* The worker is between slam_socket_new and the store to the table.
Opening == wk.pc \in {"open", "add", "store"}

\* The entries of the table are open, but for the window of remove_socket.
EntryInv ==
  \A fd \in Fd : sockets[fd] # None =>
    file[fd] = sockets[fd] \/ (io.pc = "forget" /\ io.fd = fd)

\* What is open is not freed, and open once.
FileInv ==
  /\ \A fd \in Fd : file[fd] # None => file[fd] \notin freed
  /\ \A f, g \in Fd : file[f] = file[g] /\ file[f] # None => f = g

\* The socket the worker opens is behind its descriptor and not in the table.
OpeningInv ==
  Opening =>
    /\ wk.fd \in Fd /\ wk.sock \in Client \cup {Listener}
    /\ file[wk.fd] = wk.sock
    /\ \A fd \in Fd : sockets[fd] # wk.sock
    /\ wk.pc = "store" => sockets[wk.fd] = None

\* What is open and not in the table is what the worker opens.
MissingInv ==
  \A fd \in Fd : file[fd] # None /\ sockets[fd] = None => Opening /\ wk.fd = fd

\* In the window the entry is stale, and the descriptor is free or was given
\* to the worker.
WindowInv ==
  io.pc = "forget" =>
    /\ sockets[io.fd] # None
    /\ file[io.fd] = None \/ (Opening /\ wk.fd = io.fd)

\* A connection that does not exist yet is nowhere.
FreshInv ==
  \A s \in Sock : net[s].state = "none" =>
    /\ s \notin freed
    /\ \A i \in 1 .. Len(backlog) : backlog[i] # s
    /\ \A fd \in Fd : sockets[fd] # s
    /\ \A fd \in Fd : file[fd] = s => wk.pc = "open" /\ wk.sock = s

\* A connection that waits to be accepted waits once and is nowhere else.
BacklogInv ==
  /\ \A i \in 1 .. Len(backlog) : backlog[i] \notin freed /\ \A fd \in Fd : file[fd] # backlog[i]
  /\ \A i, j \in 1 .. Len(backlog) : backlog[i] = backlog[j] => i = j

TableInv ==
  /\ TypeInv /\ EntryInv /\ FileInv /\ OpeningInv /\ MissingInv /\ WindowInv
  /\ FreshInv /\ BacklogInv

-----------------------------------------------------------------------------
(* The kernel gives out a descriptor that is free: the lowest one exists.  *)
LEMMA NewFdFree == FreeFd # {} => NewFd \in Fd /\ file[NewFd] = None
<1> SUFFICES ASSUME FreeFd # {} PROVE NewFd \in Fd /\ file[NewFd] = None
  OBVIOUS
<1>1. FreeFd \subseteq Nat
  BY FdAssumption DEF FreeFd
<1>2. \E x \in FreeFd : \A y \in FreeFd : ~(<<y, x>> \in OpToRel(<, Nat))
  BY <1>1, WFMin, NatLessThanWellFounded
<1>3. PICK x \in FreeFd : \A y \in FreeFd : ~(<<y, x>> \in OpToRel(<, Nat))
  BY <1>2
<1>4. ASSUME NEW y \in FreeFd PROVE x =< y
  <2>1. ~(y < x)
    BY <1>1, <1>3 DEF OpToRel
  <2> QED
    BY <1>1, <2>1
<1>5. NewFd \in FreeFd
  BY <1>4 DEF NewFd, Min
<1> QED
  BY <1>5 DEF FreeFd

(* epoll reports these events.                                             *)
LEMMA MaskType == ASSUME NEW fd PROVE Mask(fd) \in SUBSET {"in", "out", "hup"}
  BY DEF Mask

(* The state of a connection changes, and nothing else of the network.     *)
LEMMA NetState ==
  ASSUME TypeInv, NEW c \in Sock, NEW state \in {"open", "closed", "reset", "gone"},
         net' = [net EXCEPT ![c].state = state]
  PROVE  /\ net' \in [Sock -> Net]
         /\ net'[c].state = state
         /\ \A s \in Sock : s # c => net'[s] = net[s]
<1>1. net[c] \in Net
  BY DEF TypeInv
<1>2. [net[c] EXCEPT !.state = state] \in Net /\ [net[c] EXCEPT !.state = state].state = state
  BY <1>1 DEF Net
<1>3. net' = [net EXCEPT ![c] = [net[c] EXCEPT !.state = state]]
  OBVIOUS
<1> QED
  BY <1>2, <1>3 DEF TypeInv

(* A package arrives on a connection.                                      *)
LEMMA CountsIn ==
  ASSUME TypeInv, NEW c \in Sock,
         net' = [net EXCEPT ![c].in = @ + 1, ![c].sent = @ + 1]
  PROVE  net' \in [Sock -> Net] /\ \A s \in Sock : net'[s].state = net[s].state
<1>1. net \in [Sock -> Net] /\ net[c] \in Net
  BY DEF TypeInv
<1>2. net'[c] \in Net
  BY <1>1 DEF Net
<1>3. net'[c].state = net[c].state
  BY <1>1 DEF Net
<1>4. \A s \in Sock : s # c => net'[s] = net[s]
  BY <1>1
<1>5. net' \in [Sock -> Net]
  BY <1>1, <1>2, <1>4
<1> QED
  BY <1>3, <1>4, <1>5

(* A message leaves on a connection.                                       *)
LEMMA CountsOut ==
  ASSUME TypeInv, NEW c \in Sock,
         net' = [net EXCEPT ![c].room = @ - 1, ![c].out = @ + 1]
  PROVE  net' \in [Sock -> Net] /\ \A s \in Sock : net'[s].state = net[s].state
<1>1. net \in [Sock -> Net] /\ net[c] \in Net
  BY DEF TypeInv
<1>2. net'[c] \in Net
  BY <1>1 DEF Net
<1>3. net'[c].state = net[c].state
  BY <1>1 DEF Net
<1>4. \A s \in Sock : s # c => net'[s] = net[s]
  BY <1>1
<1>5. net' \in [Sock -> Net]
  BY <1>1, <1>2, <1>4
<1> QED
  BY <1>3, <1>4, <1>5

(* A step that only moves the threads within their code, or changes what a *)
(* connection has to read and to send.                                     *)
Quiet ==
  /\ UNCHANGED <<file, sockets, freed, backlog>>
  /\ \A s \in Sock : net'[s].state = "none" <=> net[s].state = "none"
  /\ io'.pc = "forget" <=> io.pc = "forget"
  /\ io.pc = "forget" => io'.fd = io.fd
  /\ Opening' <=> Opening
  /\ Opening => wk'.pc = wk.pc /\ wk'.fd = wk.fd /\ wk'.sock = wk.sock

(* Such a step keeps what is said of the table.                            *)
LEMMA QuietKeeps == ASSUME TableInv, TypeInv', Quiet PROVE TableInv'
<1>1. EntryInv'
  BY DEF TableInv, EntryInv, Quiet
<1>2. FileInv'
  BY DEF TableInv, FileInv, Quiet
<1>3. OpeningInv'
  BY DEF TableInv, OpeningInv, Quiet
<1>4. MissingInv'
  BY DEF TableInv, MissingInv, Quiet
<1>5. WindowInv'
  BY DEF TableInv, WindowInv, Quiet
<1>6. FreshInv'
  BY DEF TableInv, FreshInv, Quiet, Opening
<1>7. BacklogInv'
  BY DEF TableInv, BacklogInv, Quiet
<1> QED
  BY <1>1, <1>2, <1>3, <1>4, <1>5, <1>6, <1>7 DEF TableInv

-----------------------------------------------------------------------------
(* What the remote ends do keeps what is said of the table.                *)
LEMMA RemoteKeeps == ASSUME TableInv, Remote PROVE TableInv'
<1> USE DEF Remote, shared
<1>1. ASSUME NEW c \in Peer, PeerConnect(c) PROVE TableInv'
  <2> USE <1>1 DEF PeerConnect
  <2>1. c \in Sock /\ c \notin Client \cup {Listener}
    BY SockAssumption DEF Sock, Conn
  <2>2. TypeInv'
    <3>1. net' \in [Sock -> Net]
      BY <2>1, NetState DEF TableInv
    <3>2. backlog' \in Seq(Peer)
      BY DEF TableInv, TypeInv
    <3> QED
      BY <3>1, <3>2 DEF TableInv, TypeInv
  <2>3. EntryInv' /\ FileInv' /\ OpeningInv' /\ MissingInv' /\ WindowInv'
    BY DEF TableInv, EntryInv, FileInv, OpeningInv, MissingInv, WindowInv, Opening
  <2>4. c \notin freed /\ \A i \in 1 .. Len(backlog) : backlog[i] # c
    BY <2>1 DEF TableInv, FreshInv
  <2>5. \A fd \in Fd : file[fd] # c
    <3>1. wk.pc = "open" => wk.sock # c
      BY <2>1 DEF TableInv, OpeningInv, Opening
    <3> QED
      BY <2>1, <3>1 DEF TableInv, FreshInv
  <2>6. /\ Len(backlog') = Len(backlog) + 1 /\ Len(backlog) \in Nat
        /\ \A i \in 1 .. Len(backlog) : backlog'[i] = backlog[i]
        /\ backlog'[Len(backlog) + 1] = c
    BY DEF TableInv, TypeInv
  <2>7. \A s \in Sock : net'[s].state = "none" => net[s].state = "none" /\ s # c
    BY <2>1, NetState DEF TableInv
  <2>8. FreshInv'
    <3> SUFFICES ASSUME NEW s \in Sock, net'[s].state = "none"
                 PROVE  /\ s \notin freed'
                        /\ \A i \in 1 .. Len(backlog') : backlog'[i] # s
                        /\ \A fd \in Fd : sockets'[fd] # s
                        /\ \A fd \in Fd : file'[fd] = s => wk'.pc = "open" /\ wk'.sock = s
      BY DEF FreshInv
    <3>1. \A i \in 1 .. Len(backlog') : backlog'[i] # s
      BY <2>6, <2>7 DEF TableInv, FreshInv
    <3> QED
      BY <2>7, <3>1 DEF TableInv, FreshInv
  <2>9. BacklogInv'
    <3>1. \A i \in 1 .. Len(backlog') : backlog'[i] \notin freed' /\ \A fd \in Fd : file'[fd] # backlog'[i]
      BY <2>4, <2>5, <2>6 DEF TableInv, BacklogInv
    <3>2. \A i, j \in 1 .. Len(backlog') : backlog'[i] = backlog'[j] => i = j
      BY <2>4, <2>6 DEF TableInv, BacklogInv
    <3> QED
      BY <3>1, <3>2 DEF BacklogInv
  <2> QED
    BY <2>2, <2>3, <2>8, <2>9 DEF TableInv
<1>2. ASSUME NEW c \in Conn, PeerSend(c) PROVE TableInv'
  <2> USE <1>2 DEF PeerSend
  <2>1. net[c] \in Net /\ c \in Sock
    BY DEF TableInv, TypeInv, Sock
  <2>3. /\ net' \in [Sock -> Net]
        /\ \A s \in Sock : net'[s].state = net[s].state
    BY <2>1, CountsIn DEF TableInv
  <2>4. TypeInv' /\ Quiet
    BY <2>3 DEF TableInv, TypeInv, Quiet, Opening
  <2> QED
    BY <2>4, QuietKeeps
<1>3. ASSUME NEW c \in Conn, PeerReceive(c) PROVE TableInv'
  <2> USE <1>3 DEF PeerReceive
  <2>1. net[c] \in Net /\ c \in Sock
    BY DEF TableInv, TypeInv, Sock
  <2>2. [net[c] EXCEPT !.room = @ + 1] \in Net
    BY <2>1 DEF Net
  <2>3. /\ net' \in [Sock -> Net]
        /\ \A s \in Sock : net'[s].state = net[s].state
    BY <2>1, <2>2 DEF TableInv, TypeInv, Net
  <2>4. TypeInv' /\ Quiet
    BY <2>3 DEF TableInv, TypeInv, Quiet, Opening
  <2> QED
    BY <2>4, QuietKeeps
<1>4. ASSUME NEW c \in Conn, NEW how \in {"closed", "reset"}, PeerClose(c, how)
      PROVE  TableInv'
  <2> USE <1>4 DEF PeerClose
  <2>1. c \in Sock
    BY DEF Sock
  <2>2. net' \in [Sock -> Net] /\ net'[c].state = how /\ \A s \in Sock : s # c => net'[s] = net[s]
    BY <2>1, NetState DEF TableInv
  <2>3. TypeInv' /\ Quiet
    BY <2>2 DEF TableInv, TypeInv, Quiet, Opening
  <2> QED
    BY <2>3, QuietKeeps
<1> QED
  BY <1>1, <1>2, <1>3, <1>4

-----------------------------------------------------------------------------
(* The descriptor that a handler of the IO thread works on.                *)
Handling == io.pc \in {"read", "write", "remove", "forget", "lost"} => io.fd \in Fd

(* A step that only moves the IO thread, not into or out of the window.    *)
LEMMA IoMoves ==
  ASSUME TableInv, UNCHANGED <<file, sockets, freed, backlog, net, wk>>,
         io' \in IoState, Handling', io.pc # "forget", io'.pc # "forget"
  PROVE  TableInv'
<1>1. TypeInv'
  BY DEF TableInv, TypeInv, Handling
<1>2. Quiet
  BY DEF Quiet, Opening
<1> QED
  BY <1>1, <1>2, QuietKeeps

(* The steps of the IO thread that only move it.                           *)
LEMMA IoMovesKeep ==
  ASSUME TableInv,
         \/ IoWait \/ IoNext \/ IoCheck \/ IoNoSocket \/ IoReadEnds
         \/ IoReadFails \/ IoWriteEnds \/ IoWriteFails \/ IoLost
  PROVE  TableInv'
<1> USE DEF IoStep, kernel, shared
<1>0. io \in IoState /\ Handling
  BY DEF TableInv, TypeInv, Handling
<1>a. {} \in On /\ {"out"} \in On
  BY DEF On
<1>b. None \in MaybeFd /\ None \in MaybeSock /\ Fd \subseteq MaybeFd
  BY DEF MaybeFd, MaybeSock
<1>c. AfterRead \in {"write", "next"}
  BY DEF AfterRead
<1>1. CASE IoWait
  <2> DEFINE events == [fd \in Fd |-> IF fd \in ready THEN Mask(fd) ELSE {}]
  <2>1. events \in Events
    BY MaskType DEF Events
  <2>2. io' = [io EXCEPT !.pc = "next", !.events = events] /\ io.pc = "wait"
    BY <1>1 DEF IoWait
  <2> HIDE DEF events
  <2>3. io' \in IoState /\ io'.pc = "next"
    BY <1>0, <2>1, <2>2 DEF IoState
  <2> QED
    BY <1>1, <2>2, <2>3, IoMoves DEF IoWait, Handling
<1>2. CASE IoNext
  <2>1. PICK fd \in Fd :
          io' = [io EXCEPT !.pc = HandlerOf(io.events[fd]),
                           !.fd = fd, !.events[fd] = {},
                           !.on = IF {"in", "out"} = io.events[fd] THEN {"out"} ELSE {}]
    BY <1>2 DEF IoNext
  <2> DEFINE pc == HandlerOf(io.events[fd])
             on == IF {"in", "out"} = io.events[fd] THEN {"out"} ELSE {}
             events == [io.events EXCEPT ![fd] = {}]
  <2>2. pc \in {"remove", "read", "write"} /\ on \in On
    BY <1>a DEF HandlerOf
  <2>3. events \in Events
    BY <1>0 DEF IoState, Events
  <2>4. io' = [io EXCEPT !.pc = pc, !.fd = fd, !.events = events, !.on = on]
    BY <1>0, <2>1 DEF IoState
  <2> HIDE DEF pc, on, events
  <2>5. io' \in IoState /\ io'.pc \in {"remove", "read", "write"} /\ io'.fd = fd
    BY <1>0, <1>b, <2>2, <2>3, <2>4 DEF IoState
  <2>6. io.pc = "next"
    BY <1>2 DEF IoNext
  <2> QED
    BY <1>2, <2>5, <2>6, IoMoves DEF IoNext, Handling
<1>3. CASE IoCheck
  <2>1. io' = [io EXCEPT !.pc = "wait", !.fd = None] /\ io.pc = "next"
    BY <1>3 DEF IoCheck
  <2>2. io' \in IoState /\ io'.pc = "wait"
    BY <1>0, <1>b, <2>1 DEF IoState
  <2> QED
    BY <1>3, <2>1, <2>2, IoMoves DEF IoCheck, Handling
<1>4. CASE IoNoSocket \/ IoReadEnds
  <2>1. io' = [io EXCEPT !.pc = AfterRead, !.on = {}] /\ io.pc \in {"read", "write", "remove"}
    BY <1>4 DEF IoNoSocket, IoReadEnds
  <2>2. io' \in IoState /\ io'.pc \in {"write", "next"} /\ io'.fd = io.fd
    BY <1>0, <1>a, <1>c, <2>1 DEF IoState
  <2> QED
    BY <1>0, <1>4, <2>1, <2>2, IoMoves DEF IoNoSocket, IoReadEnds, Handling
<1>5. CASE IoReadFails \/ IoWriteFails
  <2>1. io' = [io EXCEPT !.pc = "remove"] /\ io.pc \in {"read", "write"}
    BY <1>5 DEF IoReadFails, IoWriteFails
  <2>2. io' \in IoState /\ io'.pc = "remove" /\ io'.fd = io.fd
    BY <1>0, <2>1 DEF IoState
  <2> QED
    BY <1>0, <1>5, <2>1, <2>2, IoMoves DEF IoReadFails, IoWriteFails, Handling
<1>6. CASE IoWriteEnds
  <2>1. io' = [io EXCEPT !.pc = "next"] /\ io.pc = "write"
    BY <1>6 DEF IoWriteEnds
  <2>2. io' \in IoState /\ io'.pc = "next"
    BY <1>0, <2>1 DEF IoState
  <2> QED
    BY <1>6, <2>1, <2>2, IoMoves DEF IoWriteEnds, Handling
<1>7. CASE IoLost
  <2>1. io' = [io EXCEPT !.pc = AfterRead, !.on = {}, !.sock = None] /\ io.pc = "lost"
    BY <1>7 DEF IoLost
  <2>2. io' \in IoState /\ io'.pc \in {"write", "next"} /\ io'.fd = io.fd
    BY <1>0, <1>a, <1>b, <1>c, <2>1 DEF IoState
  <2> QED
    BY <1>0, <1>7, <2>1, <2>2, IoMoves DEF IoLost, Handling
<1> QED
  BY <1>1, <1>2, <1>3, <1>4, <1>5, <1>6, <1>7

(* slam_socket_poll_read and slam_socket_poll_write leave the table alone. *)
LEMMA IoTransferKeeps == ASSUME TableInv, IoReadPackage \/ IoSend PROVE TableInv'
<1> USE DEF IoStep
<1>0. TypeInv /\ net \in [Sock -> Net] /\ io \in IoState /\ Conn \subseteq Sock
  BY DEF TableInv, TypeInv, Sock
<1>1. CASE IoReadPackage
  <2>1. IoSocket \in Sock /\ io.pc = "read"
    BY <1>0, <1>1 DEF IoReadPackage, IoReceives
  <2>2. net' = [net EXCEPT ![IoSocket].in = @ - 1] /\ net[IoSocket] \in Net
    BY <1>0, <1>1, <2>1 DEF IoReadPackage
  <2>3. net'[IoSocket] \in Net /\ net'[IoSocket].state = net[IoSocket].state
    BY <1>0, <2>1, <2>2 DEF Net
  <2>4. net' \in [Sock -> Net] /\ \A s \in Sock : net'[s].state = net[s].state
    BY <1>0, <2>1, <2>2, <2>3
  <2>5. io' = io \/ io' = [io EXCEPT !.pc = "remove"]
    BY <1>1 DEF IoReadPackage
  <2>6. io' \in IoState /\ io'.pc \in {"read", "remove"} /\ io'.fd = io.fd
    BY <1>0, <2>1, <2>5 DEF IoState
  <2>7. TypeInv'
    BY <1>1, <2>1, <2>4, <2>6 DEF IoReadPackage, TableInv, TypeInv
  <2>8. Quiet
    BY <1>1, <2>1, <2>4, <2>6 DEF IoReadPackage, Quiet, Opening
  <2> QED
    BY <2>7, <2>8, QuietKeeps
<1>2. CASE IoSend
  <2>1. IoSocket \in Sock
    BY <1>0, <1>2 DEF IoSend
  <2>2. net' = [net EXCEPT ![IoSocket].room = @ - 1, ![IoSocket].out = @ + 1]
    BY <1>2 DEF IoSend
  <2>3. net' \in [Sock -> Net] /\ \A s \in Sock : net'[s].state = net[s].state
    BY <1>0, <2>1, <2>2, CountsOut
  <2>4. TypeInv'
    BY <1>2, <2>3 DEF IoSend, TableInv, TypeInv
  <2>5. Quiet
    BY <1>2, <2>3 DEF IoSend, Quiet, Opening
  <2> QED
    BY <2>4, <2>5, QuietKeeps
<1> QED
  BY <1>1, <1>2

(* slam_io_thread_accept_socket gets a descriptor that the table does not  *)
(* name, for a connection that is nowhere else.                            *)
LEMMA IoAcceptKeeps == ASSUME TableInv, IoAccept PROVE TableInv'
<1> USE DEF IoStep
<1> DEFINE new == NewFd
           c == Head(backlog)
<1>1. new \in Fd /\ file[new] = None /\ sockets[new] = None
  BY NewFdFree DEF IoAccept, IoAccepts
<1>2. /\ file' = [file EXCEPT ![new] = c]
      /\ sockets' = [sockets EXCEPT ![new] = c]
      /\ backlog' = Tail(backlog)
      /\ backlog # << >> /\ backlog \in Seq(Peer) /\ io.pc = "read"
      /\ UNCHANGED <<net, freed, io, wk>>
  BY DEF IoAccept, IoAccepts, TableInv, TypeInv
<1>3. /\ Len(backlog) \in Nat /\ Len(backlog) >= 1
      /\ c = backlog[1] /\ c \in Peer
      /\ Len(backlog') = Len(backlog) - 1
      /\ \A i \in 1 .. Len(backlog') : backlog'[i] = backlog[i + 1]
      /\ backlog' \in Seq(Peer)
  BY <1>2
<1> HIDE DEF new, c
<1>4. c \in Sock /\ c # None /\ c \notin Client \cup {Listener}
  BY <1>3, SockAssumption DEF Sock, Conn
<1>5. c \notin freed /\ \A fd \in Fd : file[fd] # c
  BY <1>3 DEF TableInv, BacklogInv
<1>6. /\ file \in [Fd -> MaybeSock] /\ sockets \in [Fd -> MaybeSock]
      /\ file'[new] = c /\ \A fd \in Fd : fd # new => file'[fd] = file[fd]
      /\ sockets'[new] = c /\ \A fd \in Fd : fd # new => sockets'[fd] = sockets[fd]
  BY <1>1, <1>2 DEF TableInv, TypeInv
<1>7. TypeInv'
  <2>1. file' \in [Fd -> MaybeSock] /\ sockets' \in [Fd -> MaybeSock]
    BY <1>2, <1>4, <1>6 DEF MaybeSock
  <2> QED
    BY <1>2, <1>3, <2>1 DEF TableInv, TypeInv
<1>8. EntryInv'
  BY <1>2, <1>6 DEF TableInv, EntryInv
<1>9. FileInv'
  BY <1>1, <1>2, <1>5, <1>6 DEF TableInv, FileInv
<1>10. OpeningInv'
  <2> SUFFICES ASSUME Opening' PROVE OpeningInv'
    BY DEF OpeningInv
  <2>1. /\ wk.fd \in Fd /\ wk.sock \in Client \cup {Listener} /\ file[wk.fd] = wk.sock
        /\ \A fd \in Fd : sockets[fd] # wk.sock
        /\ wk.pc = "store" => sockets[wk.fd] = None
    BY <1>2 DEF TableInv, OpeningInv, Opening
  <2>2. wk.fd # new /\ wk.sock # c
    BY <1>1, <1>4, <2>1, SockAssumption DEF Sock, Conn
  <2> QED
    BY <1>2, <1>6, <2>1, <2>2 DEF OpeningInv
<1>11. MissingInv'
  BY <1>2, <1>4, <1>6 DEF TableInv, MissingInv, Opening
<1>12. WindowInv'
  BY <1>2 DEF WindowInv
<1>13. FreshInv'
  <2> SUFFICES ASSUME NEW s \in Sock, net'[s].state = "none"
               PROVE  /\ s \notin freed'
                      /\ \A i \in 1 .. Len(backlog') : backlog'[i] # s
                      /\ \A fd \in Fd : sockets'[fd] # s
                      /\ \A fd \in Fd : file'[fd] = s => wk'.pc = "open" /\ wk'.sock = s
    BY DEF FreshInv
  <2>1. \A i \in 1 .. Len(backlog) : backlog[i] # s
    BY <1>2 DEF TableInv, FreshInv
  <2>2. s # c
    <3>1. 1 \in 1 .. Len(backlog)
      BY <1>3
    <3> QED
      BY <1>3, <2>1, <3>1
  <2>3. ASSUME NEW i \in 1 .. Len(backlog') PROVE backlog'[i] # s
    <3>1. i + 1 \in 1 .. Len(backlog) /\ backlog'[i] = backlog[i + 1]
      BY <1>3
    <3> QED
      BY <2>1, <3>1
  <2> QED
    BY <1>2, <1>6, <2>2, <2>3 DEF TableInv, FreshInv
<1>14. BacklogInv'
  <2>1. BacklogInv
    BY DEF TableInv
  <2>2. ASSUME NEW i \in 1 .. Len(backlog')
        PROVE  backlog'[i] \notin freed' /\ \A fd \in Fd : file'[fd] # backlog'[i]
    <3>1. i + 1 \in 1 .. Len(backlog) /\ 1 \in 1 .. Len(backlog) /\ i + 1 # 1
      BY <1>3
    <3>2. backlog[i + 1] # c
      BY <1>3, <2>1, <3>1 DEF BacklogInv
    <3>3. backlog[i + 1] \notin freed /\ \A fd \in Fd : file[fd] # backlog[i + 1]
      BY <2>1, <3>1 DEF BacklogInv
    <3>4. backlog'[i] = backlog[i + 1]
      BY <1>3
    <3> QED
      BY <1>2, <1>6, <3>2, <3>3, <3>4
  <2>3. ASSUME NEW i \in 1 .. Len(backlog'), NEW j \in 1 .. Len(backlog'), backlog'[i] = backlog'[j]
        PROVE  i = j
    <3>1. i + 1 \in 1 .. Len(backlog) /\ j + 1 \in 1 .. Len(backlog) /\ backlog[i + 1] = backlog[j + 1]
      BY <1>3, <2>3
    <3>2. i + 1 = j + 1
      BY <2>1, <3>1 DEF BacklogInv
    <3> QED
      BY <3>2
  <2> QED
    BY <2>2, <2>3 DEF BacklogInv
<1> QED
  BY <1>7, <1>8, <1>9, <1>10, <1>11, <1>12, <1>13, <1>14 DEF TableInv

(* slam_io_thread_remove_socket closes what the entry names: the entry is  *)
(* the one of an open socket, and not of the one that the worker opens.    *)
LEMMA IoCloseKeeps == ASSUME TableInv, IoClose PROVE TableInv'
<1> USE DEF IoStep
<1> DEFINE x == io.fd
           s == IoSocket
<1>1. /\ io.pc = "remove" /\ x \in Fd /\ s = sockets[x] /\ s \in Sock /\ s # None
      /\ file' = [file EXCEPT ![x] = None]
      /\ freed' = freed \cup {s}
      /\ io' = [io EXCEPT !.pc = "forget", !.sock = s]
      /\ UNCHANGED <<sockets, wk>>
  BY DEF IoClose, IoSocket, TableInv, TypeInv, MaybeSock
<1>2. /\ backlog' = IF s = Listener THEN << >> ELSE backlog
      /\ net' = [t \in Sock |-> IF t = s \/ (s = Listener /\ t \in Range(backlog))
                               THEN Fresh("gone") ELSE net[t]]
  BY DEF IoClose
<1>3. backlog \in Seq(Peer) /\ net \in [Sock -> Net] /\ io \in IoState /\ file \in [Fd -> MaybeSock]
  BY DEF TableInv, TypeInv
<1> HIDE DEF x, s
<1>4. file[x] = s
  BY <1>1 DEF TableInv, EntryInv, x
<1>5. file'[x] = None /\ \A fd \in Fd : fd # x => file'[fd] = file[fd]
  BY <1>1, <1>3
<1>6. io'.pc = "forget" /\ io'.fd = x /\ io' \in IoState
  <2>1. s \in MaybeSock
    BY <1>1 DEF MaybeSock
  <2> QED
    BY <1>1, <1>3, <2>1 DEF IoState, x
<1>7. Fresh("gone") \in Net /\ Fresh("gone").state = "gone"
  BY SizeAssumption DEF Fresh, Net
<1>8. \A t \in Sock : net'[t].state = "none" => net[t].state = "none" /\ t # s
  BY <1>2, <1>7
<1>9. Opening => wk.fd # x /\ wk.sock # s
  BY <1>1, <1>4 DEF TableInv, OpeningInv
<1>10. TypeInv'
  <2>1. file' \in [Fd -> MaybeSock]
    BY <1>1, <1>3 DEF MaybeSock
  <2>2. backlog' \in Seq(Peer)
    BY <1>2, <1>3
  <2>3. net' \in [Sock -> Net]
    BY <1>2, <1>3, <1>7
  <2>4. freed' \subseteq Sock
    BY <1>1 DEF TableInv, TypeInv
  <2> QED
    BY <1>1, <1>6, <2>1, <2>2, <2>3, <2>4 DEF TableInv, TypeInv
<1>11. EntryInv'
  BY <1>1, <1>5, <1>6 DEF TableInv, EntryInv
<1>12. FileInv'
  <2>1. \A fd \in Fd : fd # x /\ file[fd] # None => file[fd] # s
    BY <1>1, <1>4 DEF TableInv, FileInv
  <2> QED
    BY <1>1, <1>5, <2>1 DEF TableInv, FileInv
<1>13. OpeningInv'
  BY <1>1, <1>5, <1>9 DEF TableInv, OpeningInv, Opening
<1>14. MissingInv'
  BY <1>1, <1>5 DEF TableInv, MissingInv, Opening
<1>15. WindowInv'
  BY <1>1, <1>5, <1>6 DEF WindowInv
<1>16. \A i \in 1 .. Len(backlog') : i \in 1 .. Len(backlog) /\ backlog'[i] = backlog[i] /\ backlog[i] # s
  <2>1. CASE s = Listener
    BY <1>2, <2>1
  <2>2. CASE s # Listener
    BY <1>1, <1>2, <1>4, <2>2 DEF TableInv, BacklogInv
  <2> QED
    BY <2>1, <2>2
<1>17. FreshInv'
  <2> SUFFICES ASSUME NEW t \in Sock, net'[t].state = "none"
               PROVE  /\ t \notin freed'
                      /\ \A i \in 1 .. Len(backlog') : backlog'[i] # t
                      /\ \A fd \in Fd : sockets'[fd] # t
                      /\ \A fd \in Fd : file'[fd] = t => wk'.pc = "open" /\ wk'.sock = t
    BY DEF FreshInv
  <2>1. t # None
    BY SockAssumption
  <2> QED
    BY <1>1, <1>5, <1>8, <1>16, <2>1 DEF TableInv, FreshInv
<1>18. BacklogInv'
  <2>1. ASSUME NEW i \in 1 .. Len(backlog')
        PROVE  backlog'[i] \notin freed' /\ \A fd \in Fd : file'[fd] # backlog'[i]
    <3>1. backlog[i] \in Peer /\ backlog[i] # None
      BY <1>3, <1>16, SockAssumption DEF Sock, Conn
    <3> QED
      BY <1>1, <1>5, <1>16, <3>1 DEF TableInv, BacklogInv
  <2>2. \A i, j \in 1 .. Len(backlog') : backlog'[i] = backlog'[j] => i = j
    BY <1>16 DEF TableInv, BacklogInv
  <2> QED
    BY <2>1, <2>2 DEF BacklogInv
<1> QED
  BY <1>10, <1>11, <1>12, <1>13, <1>14, <1>15, <1>17, <1>18 DEF TableInv

(* ... and resets it: whatever is open behind the descriptor by then is    *)
(* what the worker opens.                                                  *)
LEMMA IoForgetKeeps == ASSUME TableInv, IoForget PROVE TableInv'
<1> USE DEF IoStep, kernel
<1> DEFINE x == io.fd
<1>1. /\ io.pc = "forget" /\ x \in Fd
      /\ sockets' = [sockets EXCEPT ![x] = None]
      /\ io' = [io EXCEPT !.pc = "lost"]
      /\ UNCHANGED <<file, backlog, net, freed, wk>>
      /\ io \in IoState /\ sockets \in [Fd -> MaybeSock]
  BY DEF IoForget, Forgotten, TableInv, TypeInv
<1>2. io'.pc = "lost" /\ io'.fd = x /\ io' \in IoState
  BY <1>1 DEF IoState
<1>3. file[x] = None \/ (Opening /\ wk.fd = x)
  BY <1>1 DEF TableInv, WindowInv
<1> HIDE DEF x
<1>4. sockets'[x] = None /\ \A fd \in Fd : fd # x => sockets'[fd] = sockets[fd]
  BY <1>1
<1>5. TypeInv'
  <2>1. sockets' \in [Fd -> MaybeSock]
    BY <1>1 DEF MaybeSock
  <2> QED
    BY <1>1, <1>2, <2>1 DEF TableInv, TypeInv
<1>6. EntryInv'
  BY <1>1, <1>2, <1>4 DEF TableInv, EntryInv, x
<1>7. FileInv'
  BY <1>1 DEF TableInv, FileInv
<1>8. OpeningInv'
  <2>1. Opening => wk.sock # None
    BY SockAssumption DEF TableInv, OpeningInv, Sock, Conn
  <2> QED
    BY <1>1, <1>4, <2>1 DEF TableInv, OpeningInv, Opening
<1>9. MissingInv'
  BY <1>1, <1>3, <1>4 DEF TableInv, MissingInv, Opening
<1>10. WindowInv'
  BY <1>2 DEF WindowInv
<1>11. FreshInv'
  <2>1. \A s \in Sock : s # None
    BY SockAssumption
  <2> QED
    BY <1>1, <1>4, <2>1 DEF TableInv, FreshInv
<1>12. BacklogInv'
  BY <1>1 DEF TableInv, BacklogInv
<1> QED
  BY <1>5, <1>6, <1>7, <1>8, <1>9, <1>10, <1>11, <1>12 DEF TableInv

(* The steps of the IO thread.                                             *)
LEMMA IoKeeps == ASSUME TableInv, Io PROVE TableInv'
  BY IoMovesKeep, IoTransferKeeps, IoAcceptKeeps, IoCloseKeeps, IoForgetKeeps DEF Io

-----------------------------------------------------------------------------
(* The worker keeps the invariant.                                         *)

(* A step that only moves the worker, outside of cc.newserver and          *)
(* cc.newclient.                                                           *)
LEMMA WkMoves ==
  ASSUME TableInv, UNCHANGED <<file, sockets, freed, backlog, net, io>>,
         wk' \in WkState, ~Opening, ~Opening'
  PROVE  TableInv'
<1>1. TypeInv'
  BY DEF TableInv, TypeInv
<1>2. Quiet
  BY DEF Quiet
<1> QED
  BY <1>1, <1>2, QuietKeeps

(* The steps of the worker that only move it.                              *)
LEMMA WkMovesKeep ==
  ASSUME TableInv,
         \/ WkWait \/ WkHandle \/ WkDrained \/ WkLuaReturns \/ WkPush \/ WkPollout
         \/ \E fd \in Fd : Response(fd) \/ CloseSocket(fd)
  PROVE  TableInv'
<1> USE DEF WkStep, InLua, kernel, shared
<1>0. wk \in WkState /\ sockets \in [Fd -> MaybeSock]
  BY DEF TableInv, TypeInv
<1>a. None \in MaybeFd /\ None \in MaybeSock /\ Fd \subseteq MaybeFd /\ Conn \subseteq MaybeSock
  BY DEF MaybeFd, MaybeSock, Sock
<1>b. ASSUME NEW pc \in {"wait", "drain", "lua", "script"}, wk' = [wk EXCEPT !.pc = pc]
      PROVE  wk' \in WkState /\ wk'.pc = pc
  BY <1>0, <1>b DEF WkState
<1>1. CASE WkWait
  <2>1. wk' = [wk EXCEPT !.pc = "drain"] /\ wk.pc = "wait"
    BY <1>1 DEF WkWait
  <2>2. wk' \in WkState /\ wk'.pc = "drain"
    BY <1>b, <2>1
  <2> QED
    BY <1>1, <2>1, <2>2, WkMoves DEF WkWait, Opening
<1>2. CASE WkHandle
  <2>1. wk' = [wk EXCEPT !.pc = "lua", !.back = "lua"] /\ wk.pc = "drain"
    BY <1>2 DEF WkHandle
  <2>2. wk' \in WkState /\ wk'.pc = "lua"
    BY <1>0, <2>1 DEF WkState
  <2> QED
    BY <1>2, <2>1, <2>2, WkMoves DEF WkHandle, Opening
<1>3. CASE WkDrained
  <2>1. wk' = [wk EXCEPT !.pc = "script", !.back = "script"] /\ wk.pc = "drain"
    BY <1>3 DEF WkDrained
  <2>2. wk' \in WkState /\ wk'.pc = "script"
    BY <1>0, <2>1 DEF WkState
  <2> QED
    BY <1>3, <2>1, <2>2, WkMoves DEF WkDrained, Opening
<1>4. CASE WkLuaReturns
  <2>1. wk' = [wk EXCEPT !.pc = "drain"] \/ wk' = [wk EXCEPT !.pc = "wait"]
    BY <1>4 DEF WkLuaReturns
  <2>2. wk' \in WkState /\ wk'.pc \in {"drain", "wait"}
    BY <1>b, <2>1
  <2> QED
    BY <1>4, <2>2, WkMoves DEF WkLuaReturns, Opening
<1>5. CASE WkPush
  <2> USE <1>5 DEF WkPush
  <2>1. CASE wk' = [wk EXCEPT !.pc = wk.back, !.fd = None, !.sock = None, !.to = None]
    <3>1. wk' \in WkState /\ wk'.pc \in {"lua", "script"}
      BY ONLY <1>0, <1>a, <2>1 DEF WkState
    <3> QED
      BY <3>1, WkMoves DEF Opening
  <2>2. CASE wk' = [wk EXCEPT !.pc = "pollout", !.sock = None, !.to = None]
    <3>1. wk' \in WkState /\ wk'.pc = "pollout"
      BY ONLY <1>0, <1>a, <2>2 DEF WkState
    <3> QED
      BY <3>1, WkMoves DEF Opening
  <2> QED
    BY <2>1, <2>2
<1>6. CASE WkPollout
  <2>1. wk' = [wk EXCEPT !.pc = wk.back, !.fd = None] /\ wk.pc = "pollout"
    BY <1>6 DEF WkPollout
  <2>2. wk' \in WkState /\ wk'.pc \in {"lua", "script"}
    BY <1>0, <1>a, <2>1 DEF WkState
  <2> QED
    BY <1>6, <2>1, <2>2, WkMoves DEF WkPollout, Opening
<1>7. ASSUME NEW fd \in Fd, Response(fd) PROVE TableInv'
  <2> USE <1>7 DEF Response
  <2>1. CASE wk' = [wk EXCEPT !.calls = @ + 1]
    <3>1. wk' \in WkState /\ wk'.pc = wk.pc
      BY ONLY <1>0, <2>1 DEF WkState
    <3> QED
      BY <3>1, WkMoves DEF Opening
  <2>2. CASE wk' = [wk EXCEPT !.calls = @ + 1, !.pc = "push", !.fd = fd,
                              !.sock = sockets[fd], !.to = live[fd]]
    <3>1. sockets[fd] \in MaybeSock /\ live[fd] \in MaybeSock /\ fd \in MaybeFd
      BY <1>0, <1>a
    <3>2. wk' = [pc |-> "push", back |-> wk.back, fd |-> fd, sock |-> sockets[fd],
                 to |-> live[fd], calls |-> wk.calls + 1]
      BY ONLY <1>0, <2>2 DEF WkState
    <3>3. wk.back \in {"lua", "script"} /\ wk.calls + 1 \in Int
      BY ONLY <1>0 DEF WkState
    <3>4. wk' \in WkState /\ wk'.pc = "push"
      BY ONLY <3>1, <3>2, <3>3 DEF WkState
    <3> QED
      BY <3>4, WkMoves DEF Opening
  <2> QED
    BY <2>1, <2>2
<1>8. ASSUME NEW fd \in Fd, CloseSocket(fd) PROVE TableInv'
  BY <1>0, <1>8, WkMoves DEF CloseSocket, Opening
<1> QED
  BY <1>1, <1>2, <1>3, <1>4, <1>5, <1>6, <1>7, <1>8

(* slam_socket_new gets a descriptor that is free, though the table may    *)
(* still name the socket that had it.                                      *)
LEMMA NewSocketKeeps ==
  ASSUME TableInv, NEW s \in Client \cup {Listener}, NewSocket(s)
  PROVE  TableInv'
<1> DEFINE new == NewFd
<1>1. new \in Fd /\ file[new] = None
  BY NewFdFree DEF NewSocket
<1>2. /\ file' = [file EXCEPT ![new] = s]
      /\ wk' = [wk EXCEPT !.pc = "open", !.fd = new, !.sock = s]
      /\ UNCHANGED <<sockets, freed, backlog, net, io>>
      /\ net[s].state = "none" /\ ~Opening
  BY DEF NewSocket, WkStep, InLua, shared, Opening
<1>3. s \in Sock /\ s # None
  BY SockAssumption DEF Sock, Conn
<1> HIDE DEF new
<1>4. wk' \in WkState /\ wk'.pc = "open" /\ wk'.fd = new /\ wk'.sock = s
  <2>1. wk \in WkState /\ new \in MaybeFd /\ s \in MaybeSock
    BY <1>1, <1>3 DEF TableInv, TypeInv, MaybeFd, MaybeSock
  <2> QED
    BY <1>2, <2>1 DEF WkState
<1>5. file'[new] = s /\ \A fd \in Fd : fd # new => file'[fd] = file[fd]
  BY <1>1, <1>2 DEF TableInv, TypeInv
<1>6. /\ s \notin freed
      /\ \A i \in 1 .. Len(backlog) : backlog[i] # s
      /\ \A fd \in Fd : sockets[fd] # s
      /\ \A fd \in Fd : file[fd] # s
  BY <1>2, <1>3 DEF TableInv, FreshInv, Opening
<1>7. TypeInv'
  <2>1. file' \in [Fd -> MaybeSock]
    BY <1>2, <1>3 DEF TableInv, TypeInv, MaybeSock
  <2> QED
    BY <1>2, <1>4, <2>1 DEF TableInv, TypeInv
<1>8. EntryInv'
  BY <1>1, <1>2, <1>5 DEF TableInv, EntryInv
<1>9. FileInv'
  BY <1>2, <1>5, <1>6 DEF TableInv, FileInv
<1>10. OpeningInv'
  BY <1>1, <1>2, <1>4, <1>5, <1>6 DEF OpeningInv
<1>11. MissingInv'
  BY <1>2, <1>4, <1>5 DEF TableInv, MissingInv, Opening
<1>12. WindowInv'
  <2> SUFFICES ASSUME io.pc = "forget"
               PROVE  sockets[io.fd] # None /\ (file'[io.fd] = None \/ io.fd = new)
    BY <1>2, <1>4 DEF WindowInv, Opening
  <2>1. io.fd \in Fd /\ sockets[io.fd] # None /\ file[io.fd] = None
    BY <1>2 DEF TableInv, TypeInv, WindowInv
  <2> QED
    BY <1>5, <2>1
<1>13. FreshInv'
  <2> SUFFICES ASSUME NEW t \in Sock, net'[t].state = "none"
               PROVE  /\ t \notin freed'
                      /\ \A i \in 1 .. Len(backlog') : backlog'[i] # t
                      /\ \A fd \in Fd : sockets'[fd] # t
                      /\ \A fd \in Fd : file'[fd] = t => wk'.pc = "open" /\ wk'.sock = t
    BY DEF FreshInv
  <2>1. \A fd \in Fd : file[fd] # t
    BY <1>2 DEF TableInv, FreshInv, Opening
  <2> QED
    BY <1>2, <1>4, <1>5, <2>1 DEF TableInv, FreshInv
<1>14. BacklogInv'
  BY <1>2, <1>5, <1>6 DEF TableInv, BacklogInv
<1> QED
  BY <1>7, <1>8, <1>9, <1>10, <1>11, <1>12, <1>13, <1>14 DEF TableInv

(* bind or connect has succeeded: the connection exists.                   *)
LEMMA WkOpenedKeeps == ASSUME TableInv, WkOpened PROVE TableInv'
<1>1. /\ wk.pc = "open" /\ wk' = [wk EXCEPT !.pc = "add"] /\ wk \in WkState
      /\ net' = [net EXCEPT ![wk.sock].state = "open"]
      /\ UNCHANGED <<file, sockets, freed, backlog, io>>
  BY DEF WkOpened, WkStep, shared, TableInv, TypeInv
<1>2. wk' \in WkState /\ wk'.pc = "add" /\ wk'.fd = wk.fd /\ wk'.sock = wk.sock
  BY <1>1 DEF WkState
<1>3. Opening /\ Opening' /\ wk.sock \in Sock
  BY <1>1, <1>2 DEF TableInv, OpeningInv, Opening, Sock, Conn
<1>4. /\ net' \in [Sock -> Net]
      /\ \A s \in Sock : net'[s].state = "none" => net[s].state = "none" /\ s # wk.sock
  BY <1>1, <1>3, NetState DEF TableInv
<1>5. TypeInv'
  BY <1>1, <1>2, <1>4 DEF TableInv, TypeInv
<1>6. EntryInv' /\ FileInv' /\ BacklogInv'
  BY <1>1 DEF TableInv, EntryInv, FileInv, BacklogInv
<1>7. OpeningInv'
  BY <1>1, <1>2, <1>3 DEF TableInv, OpeningInv
<1>8. MissingInv' /\ WindowInv'
  BY <1>1, <1>2, <1>3 DEF TableInv, MissingInv, WindowInv
<1>9. FreshInv'
  BY <1>1, <1>2, <1>4 DEF TableInv, FreshInv
<1> QED
  BY <1>5, <1>6, <1>7, <1>8, <1>9 DEF TableInv

(* bind or connect has failed: nothing is left of the socket.              *)
LEMMA WkOpenFailsKeeps == ASSUME TableInv, WkOpenFails PROVE TableInv'
<1> DEFINE x == wk.fd
           s == wk.sock
<1>1. /\ wk.pc = "open" /\ wk \in WkState
      /\ wk' = [wk EXCEPT !.pc = wk.back, !.fd = None, !.sock = None]
      /\ file' = [file EXCEPT ![x] = None]
      /\ net' = [net EXCEPT ![s].state = "gone"]
      /\ freed' = freed \cup {s}
      /\ UNCHANGED <<sockets, backlog, io>>
  BY DEF WkOpenFails, WkStep, TableInv, TypeInv
<1>2. /\ Opening /\ x \in Fd /\ file[x] = s /\ s \in Sock /\ s # None
      /\ \A fd \in Fd : sockets[fd] # s
  BY <1>1, SockAssumption DEF TableInv, OpeningInv, Opening, Sock, Conn
<1>3. wk' \in WkState /\ ~Opening'
  <2>1. None \in MaybeFd /\ None \in MaybeSock
    BY DEF MaybeFd, MaybeSock
  <2>2. wk' \in WkState /\ wk'.pc \in {"lua", "script"}
    BY <1>1, <2>1 DEF WkState
  <2> QED
    BY <2>2 DEF Opening
<1>4. MissingInv /\ WindowInv
  BY DEF TableInv
<1>5. /\ \A fd \in Fd : file[fd] # None /\ sockets[fd] = None => fd = x
      /\ io.pc = "forget" => sockets[io.fd] # None /\ (file[io.fd] = None \/ io.fd = x)
  BY <1>4 DEF MissingInv, WindowInv
<1> HIDE DEF x, s
<1>6. file'[x] = None /\ \A fd \in Fd : fd # x => file'[fd] = file[fd] /\ file[fd] # s
  BY <1>1, <1>2 DEF TableInv, TypeInv, FileInv
<1>7. /\ net' \in [Sock -> Net]
      /\ \A t \in Sock : net'[t].state = "none" => net[t].state = "none" /\ t # s
  BY <1>1, <1>2, NetState DEF TableInv
<1>8. TypeInv'
  <2>1. file' \in [Fd -> MaybeSock] /\ freed' \subseteq Sock
    BY <1>1, <1>2 DEF TableInv, TypeInv, MaybeSock
  <2> QED
    BY <1>1, <1>3, <1>7, <2>1 DEF TableInv, TypeInv
<1>9. EntryInv'
  BY <1>1, <1>2, <1>6 DEF TableInv, EntryInv
<1>10. FileInv'
  BY <1>1, <1>6 DEF TableInv, FileInv
<1>11. OpeningInv'
  BY <1>3 DEF OpeningInv
<1>12. MissingInv'
  BY <1>1, <1>5, <1>6 DEF MissingInv
<1>13. WindowInv'
  <2>1. io.pc = "forget" => io.fd \in Fd
    BY DEF TableInv, TypeInv
  <2> QED
    BY <1>1, <1>5, <1>6, <2>1 DEF WindowInv
<1>14. FreshInv'
  <2> SUFFICES ASSUME NEW t \in Sock, net'[t].state = "none"
               PROVE  /\ t \notin freed'
                      /\ \A i \in 1 .. Len(backlog') : backlog'[i] # t
                      /\ \A fd \in Fd : sockets'[fd] # t
                      /\ \A fd \in Fd : file'[fd] # t
    BY DEF FreshInv
  <2>1. t # None /\ t # s /\ net[t].state = "none"
    BY <1>7, SockAssumption
  <2>2. \A fd \in Fd : file[fd] # t
    BY <2>1 DEF TableInv, FreshInv, s
  <2> QED
    BY <1>1, <1>6, <2>1, <2>2 DEF TableInv, FreshInv
<1>15. BacklogInv'
  <2>1. \A i \in 1 .. Len(backlog) : backlog[i] # s /\ backlog[i] # None
    BY <1>2, SockAssumption DEF TableInv, TypeInv, BacklogInv, Sock, Conn
  <2> QED
    BY <1>1, <1>6, <2>1 DEF TableInv, BacklogInv
<1> QED
  BY <1>8, <1>9, <1>10, <1>11, <1>12, <1>13, <1>14, <1>15 DEF TableInv

(* slam_io_thread_add_socket has found the entry empty, ...                *)
LEMMA WkAddKeeps == ASSUME TableInv, WkAdd PROVE TableInv'
<1>1. /\ wk.pc = "add" /\ wk' = [wk EXCEPT !.pc = "store"] /\ wk \in WkState
      /\ sockets[wk.fd] = None
      /\ UNCHANGED <<file, sockets, freed, backlog, net, io>>
  BY DEF WkAdd, WkStep, shared, TableInv, TypeInv
<1>2. wk' \in WkState /\ wk'.pc = "store" /\ wk'.fd = wk.fd /\ wk'.sock = wk.sock
  BY <1>1 DEF WkState
<1>3. Opening /\ Opening'
  BY <1>1, <1>2 DEF Opening
<1>4. TypeInv'
  BY <1>1, <1>2 DEF TableInv, TypeInv
<1>5. EntryInv' /\ FileInv' /\ BacklogInv'
  BY <1>1 DEF TableInv, EntryInv, FileInv, BacklogInv
<1>6. OpeningInv'
  BY <1>1, <1>2, <1>3 DEF TableInv, OpeningInv
<1>7. MissingInv' /\ WindowInv'
  BY <1>1, <1>2, <1>3 DEF TableInv, MissingInv, WindowInv
<1>8. FreshInv'
  BY <1>1 DEF TableInv, FreshInv
<1> QED
  BY <1>4, <1>5, <1>6, <1>7, <1>8 DEF TableInv

(* ... and stores the socket: it is still empty, and still of this socket. *)
LEMMA WkStoreKeeps == ASSUME TableInv, WkStore PROVE TableInv'
<1> DEFINE x == wk.fd
           s == wk.sock
<1>1. /\ wk.pc = "store" /\ wk \in WkState
      /\ wk' = [wk EXCEPT !.pc = wk.back, !.fd = None, !.sock = None]
      /\ sockets' = [sockets EXCEPT ![x] = s]
      /\ UNCHANGED <<file, freed, backlog, net, io>>
  BY DEF WkStore, Stored, WkStep, kernel, TableInv, TypeInv
<1>2. x \in Fd /\ file[x] = s /\ s \in Sock /\ s # None /\ sockets[x] = None
  BY <1>1, SockAssumption DEF TableInv, OpeningInv, Opening, Sock, Conn
<1>3. wk' \in WkState /\ ~Opening'
  <2>1. None \in MaybeFd /\ None \in MaybeSock
    BY DEF MaybeFd, MaybeSock
  <2>2. wk' \in WkState /\ wk'.pc \in {"lua", "script"}
    BY <1>1, <2>1 DEF WkState
  <2> QED
    BY <2>2 DEF Opening
<1>4. MissingInv /\ WindowInv
  BY DEF TableInv
<1>5. /\ \A fd \in Fd : file[fd] # None /\ sockets[fd] = None => fd = x
      /\ io.pc = "forget" => sockets[io.fd] # None /\ (file[io.fd] = None \/ io.fd = x)
  BY <1>4 DEF MissingInv, WindowInv
<1>6. \A t \in Sock : net[t].state = "none" => \A fd \in Fd : file[fd] # t
  BY <1>1 DEF TableInv, FreshInv
<1> HIDE DEF x, s
<1>7. sockets'[x] = s /\ \A fd \in Fd : fd # x => sockets'[fd] = sockets[fd]
  BY <1>1, <1>2 DEF TableInv, TypeInv
<1>8. TypeInv'
  <2>1. sockets' \in [Fd -> MaybeSock]
    BY <1>1, <1>2 DEF TableInv, TypeInv, MaybeSock
  <2> QED
    BY <1>1, <1>3, <2>1 DEF TableInv, TypeInv
<1>9. EntryInv'
  BY <1>1, <1>2, <1>7 DEF TableInv, EntryInv
<1>10. FileInv' /\ BacklogInv'
  BY <1>1 DEF TableInv, FileInv, BacklogInv
<1>11. OpeningInv'
  BY <1>3 DEF OpeningInv
<1>12. MissingInv'
  BY <1>1, <1>2, <1>5, <1>7 DEF MissingInv
<1>13. WindowInv'
  <2>1. io.pc = "forget" => io.fd \in Fd
    BY DEF TableInv, TypeInv
  <2> QED
    BY <1>1, <1>2, <1>5, <1>7, <2>1 DEF WindowInv
<1>14. FreshInv'
  BY <1>1, <1>2, <1>6, <1>7 DEF TableInv, FreshInv
<1> QED
  BY <1>8, <1>9, <1>10, <1>11, <1>12, <1>13, <1>14 DEF TableInv

(* The steps of the worker.                                                *)
LEMMA WorkerKeeps == ASSUME TableInv, Worker \/ WkTimeout \/ Lua PROVE TableInv'
<1>1. CASE Worker
  BY <1>1, WkMovesKeep, WkOpenedKeeps, WkOpenFailsKeeps, WkAddKeeps, WkStoreKeeps
     DEF Worker, WkWoken
<1>2. CASE WkTimeout
  BY <1>2, WkMovesKeep DEF WkTimeout
<1>3. CASE Lua
  BY <1>3, WkMovesKeep, NewSocketKeeps DEF Lua
<1> QED
  BY <1>1, <1>2, <1>3

-----------------------------------------------------------------------------
(* Nothing is open at the start.                                           *)
LEMMA InitTableInv == Init => TableInv
<1> SUFFICES ASSUME Init PROVE TableInv
  OBVIOUS
<1>1. file \in [Fd -> MaybeSock] /\ sockets \in [Fd -> MaybeSock]
  BY DEF Init, MaybeSock
<1>2. Fresh("none") \in Net
  BY SizeAssumption DEF Fresh, Net
<1>3. net \in [Sock -> Net]
  BY <1>2 DEF Init
<1>4. io \in IoState /\ io.pc = "wait"
  BY DEF Init, IoState, Events, MaybeFd, On, MaybeSock
<1>5. wk \in WkState /\ wk.pc = "script"
  BY DEF Init, WkState, MaybeFd, MaybeSock
<1>6. TypeInv
  BY <1>1, <1>3, <1>4, <1>5 DEF Init, TypeInv
<1>7. EntryInv /\ FileInv /\ MissingInv
  BY DEF Init, EntryInv, FileInv, MissingInv
<1>8. OpeningInv /\ WindowInv
  BY <1>4, <1>5 DEF OpeningInv, Opening, WindowInv
<1>9. FreshInv /\ BacklogInv
  BY SockAssumption DEF Init, FreshInv, BacklogInv
<1> QED
  BY <1>6, <1>7, <1>8, <1>9 DEF TableInv

(* What is said of the table is a state function of these variables.       *)
LEMMA StutterKeeps ==
  ASSUME TableInv, UNCHANGED <<file, sockets, freed, backlog, net, io, wk>>
  PROVE  TableInv'
<1>1. TypeInv'
  BY DEF TableInv, TypeInv
<1>2. Quiet
  BY DEF Quiet, Opening
<1> QED
  BY <1>1, <1>2, QuietKeeps

(* A failure stops the threads where they are.                             *)
LEMMA FaultStops ==
  ASSUME Fault \/ AlarmKills \/ AssertSocketFails
  PROVE  /\ UNCHANGED <<kernel, shared, io, wk>>
         /\ fault' = "slot" => AssertSlotFails
  BY DEF Fault, AlarmKills, AssertSocketFails, AssertQueueFails, AssertSlotFails, FreedUsed, Fails

(* Every step keeps what is said of the table.                             *)
LEMMA NextTableInv == TableInv /\ [Next]_vars => TableInv'
<1> SUFFICES ASSUME TableInv, [Next]_vars PROVE TableInv'
  OBVIOUS
<1>1. CASE Remote
  BY <1>1, RemoteKeeps
<1>2. CASE Io
  BY <1>2, IoKeeps
<1>3. CASE Worker \/ WkTimeout \/ Lua
  BY <1>3, WorkerKeeps
<1>4. CASE Fault \/ AlarmKills \/ AssertSocketFails
  BY <1>4, FaultStops, StutterKeeps DEF kernel, shared
<1>5. CASE UNCHANGED vars
  BY <1>5, StutterKeeps DEF vars, kernel, shared
<1> QED
  BY <1>1, <1>2, <1>3, <1>4, <1>5 DEF Next

(* The invariant of the table holds always.                                *)
LEMMA TableInvariant == Spec => []TableInv
  BY InitTableInv, NextTableInv, PTL DEF Spec

(***************************************************************************)
(* TableIsOpen: outside of the window of slam_io_thread_remove_socket the  *)
(* table io->sockets names only sockets that are open behind their         *)
(* descriptor and not freed, however the two threads interleave.           *)
(***************************************************************************)
THEOREM TableIsOpenHolds == Spec => []TableIsOpen
<1>1. TableInv => TableIsOpen
  BY DEF TableInv, EntryInv, FileInv, TableIsOpen
<1> QED
  BY <1>1, TableInvariant, PTL

(***************************************************************************)
(* NullMeansClosedOrOpening: what the handlers log as "already close" is a *)
(* closed descriptor or one that the worker is opening.                    *)
(***************************************************************************)
THEOREM NullMeansClosedOrOpeningHolds == Spec => []NullMeansClosedOrOpening
<1>1. TableInv => NullMeansClosedOrOpening
  <2> SUFFICES ASSUME TableInv, io.pc \in {"read", "write"}, sockets[io.fd] = None,
                      file[io.fd] # None
               PROVE  wk.pc \in {"open", "add", "store"} /\ wk.fd = io.fd
    BY DEF NullMeansClosedOrOpening
  <2>1. io.fd \in Fd
    BY DEF TableInv, TypeInv
  <2> QED
    BY <2>1 DEF TableInv, MissingInv, Opening
<1> QED
  BY <1>1, TableInvariant, PTL

(* The entry of a descriptor that is about to be added is taken only in    *)
(* the window of slam_io_thread_remove_socket.                             *)
LEMMA AssertSlotWindow ==
  ASSUME TableInv, AssertSlotFails
  PROVE  wk.pc = "add" /\ io.pc = "forget" /\ io.fd = wk.fd
<1>1. PICK fd \in Fd : sockets[fd] # None /\ Adding(fd)
  BY DEF AssertSlotFails
<1>2. CASE wk.pc = "add" /\ fd = wk.fd
  <2>1. file[fd] # sockets[fd]
    BY <1>2 DEF TableInv, OpeningInv, Opening
  <2> QED
    BY <1>1, <1>2, <2>1 DEF TableInv, EntryInv
<1>3. CASE IoAccepts /\ fd = NewFd
  <2>1. file[fd] = None
    BY <1>3, NewFdFree DEF IoAccepts
  <2>2. io.pc = "forget"
    BY <1>1, <2>1 DEF TableInv, EntryInv
  <2> QED
    BY <1>3, <2>2 DEF IoAccepts
<1> QED
  BY <1>1, <1>2, <1>3 DEF Adding

(***************************************************************************)
(* SlotTakenOnlyWhileForgetting: the assertion of slam_io_thread_add_socket *)
(* fails in no other place than the window of remove_socket.               *)
(***************************************************************************)
THEOREM SlotTakenOnlyWhileForgettingHolds == Spec => []SlotTakenOnlyWhileForgetting
<1>1. Init => SlotTakenOnlyWhileForgetting
  BY DEF Init, SlotTakenOnlyWhileForgetting
<1>2. TableInv /\ SlotTakenOnlyWhileForgetting /\ [Next]_vars => SlotTakenOnlyWhileForgetting'
  <2> SUFFICES ASSUME TableInv, SlotTakenOnlyWhileForgetting, [Next]_vars, fault' = "slot"
               PROVE  wk'.pc = "add" /\ io'.pc = "forget" /\ io'.fd = wk'.fd
    BY DEF SlotTakenOnlyWhileForgetting
  <2>1. CASE Fault \/ AlarmKills \/ AssertSocketFails
    BY <2>1, FaultStops, AssertSlotWindow
  <2>2. CASE UNCHANGED vars
    BY <2>2 DEF vars, SlotTakenOnlyWhileForgetting
  <2>3. CASE Remote
    BY <2>3 DEF Remote
  <2>4. CASE Io
    <3>1. fault = "none" /\ fault' = fault
      BY <2>4 DEF Io, IoStep, IoWait, IoNext, IoCheck, IoNoSocket, IoAccept, IoReadPackage,
           IoReadEnds, IoReadFails, IoSend, IoWriteEnds, IoWriteFails, IoClose, IoForget, IoLost
    <3> QED
      BY <3>1
  <2>5. CASE Worker \/ WkTimeout \/ Lua
    <3>1. fault = "none" /\ fault' = fault
      BY <2>5 DEF Worker, Lua, WkStep, WkWoken, WkTimeout, WkWait, WkHandle, WkDrained,
           WkLuaReturns, WkPush, WkPollout, WkOpened, WkOpenFails, WkAdd, WkStore, Response,
           CloseSocket, NewSocket
    <3> QED
      BY <3>1
  <2> QED
    BY <2>1, <2>2, <2>3, <2>4, <2>5 DEF Next
<1> QED
  BY <1>1, <1>2, TableInvariant, PTL DEF Spec

-----------------------------------------------------------------------------
\* The worker has yet to look at mq before it sleeps.
Draining ==
  \/ wk.pc \in {"drain", "lua"}
  \/ wk.pc \in {"push", "pollout", "open", "add", "store"} /\ wk.back = "lua"

\* Whatever mq holds the worker has yet to look at, or has been woken for, or
\* will be woken for by the batch that the IO thread works on.
WakeInv ==
  /\ mq.items # << >> /\ ~Draining => wakeup \/ io.pc # "wait"
  /\ wk.pc = "lua" => wk.back = "lua"
  /\ wk.pc = "script" => wk.back = "script"

(* The IO thread goes back to epoll_wait in IoCheck only, which wakes the  *)
(* worker for whatever mq holds.                                           *)
LEMMA IoWakes == ASSUME TableInv, WakeInv, Io PROVE WakeInv'
<1> USE DEF IoStep
<1>0. io \in IoState
  BY DEF TableInv, TypeInv
<1>1. wk' = wk
  BY DEF Io, IoWait, IoNext, IoCheck, IoNoSocket, IoAccept, IoReadPackage, IoReadEnds,
     IoReadFails, IoSend, IoWriteEnds, IoWriteFails, IoClose, IoForget, IoLost
<1>2. CASE IoCheck
  <2>1. wakeup' = (wakeup \/ mq.items # << >>) /\ mq' = mq
    BY <1>2 DEF IoCheck, CheckWakes
  <2>2. mq'.items # << >> => wakeup'
    BY <2>1
  <2> QED
    BY <1>1, <2>2 DEF WakeInv
<1>3. CASE ~IoCheck
  <2>1. io'.pc # "wait"
    <3>1. CASE IoWait
      BY <1>0, <3>1 DEF IoWait, IoState
    <3>2. CASE IoNext
      <4>1. PICK fd \in Fd :
              io' = [io EXCEPT !.pc = HandlerOf(io.events[fd]),
                               !.fd = fd, !.events[fd] = {},
                               !.on = IF {"in", "out"} = io.events[fd] THEN {"out"} ELSE {}]
        BY <3>2 DEF IoNext
      <4> QED
        BY <1>0, <4>1 DEF IoState, HandlerOf
    <3>3. CASE IoNoSocket \/ IoReadEnds
      BY <1>0, <3>3 DEF IoNoSocket, IoReadEnds, AfterRead, IoState
    <3>4. CASE IoAccept \/ IoSend
      BY <3>4 DEF IoAccept, IoSend
    <3>5. CASE IoReadPackage
      BY <1>0, <3>5 DEF IoReadPackage, IoState
    <3>6. CASE IoReadFails \/ IoWriteFails
      BY <1>0, <3>6 DEF IoReadFails, IoWriteFails, IoState
    <3>7. CASE IoWriteEnds
      BY <1>0, <3>7 DEF IoWriteEnds, IoState
    <3>8. CASE IoClose
      BY <1>0, <3>8 DEF IoClose, IoState
    <3>9. CASE IoForget
      BY <1>0, <3>9 DEF IoForget, IoState
    <3>10. CASE IoLost
      BY <1>0, <3>10 DEF IoLost, AfterRead, IoState
    <3> QED
      BY <1>3, <3>1, <3>2, <3>3, <3>4, <3>5, <3>6, <3>7, <3>8, <3>9, <3>10 DEF Io
  <2> QED
    BY <1>1, <2>1 DEF WakeInv
<1> QED
  BY <1>2, <1>3

(* Whether the worker has yet to look at mq depends on where it is and     *)
(* where it goes back to: a step that keeps the two in line keeps WakeInv. *)
LEMMA LuaSteps ==
  ASSUME WakeInv, UNCHANGED <<mq, wakeup, io>>,
         Draining' <=> Draining,
         wk'.pc = "lua" => wk'.back = "lua",
         wk'.pc = "script" => wk'.back = "script"
  PROVE  WakeInv'
  BY DEF WakeInv

(* The worker sleeps only after it has found mq empty.                     *)
LEMMA WorkerWakes == ASSUME TableInv, WakeInv, Worker \/ WkTimeout \/ Lua PROVE WakeInv'
<1> USE DEF WkStep, shared
<1>0. /\ wk \in WkState
      /\ wk.pc = "lua" => wk.back = "lua"
      /\ wk.pc = "script" => wk.back = "script"
  BY DEF TableInv, TypeInv, WakeInv
<1>1. CASE WkWait
  <2>1. wk'.pc = "drain"
    BY <1>0, <1>1 DEF WkWait, WkState
  <2> QED
    BY <2>1 DEF WakeInv, Draining
<1>2. CASE WkHandle
  <2>1. wk'.pc = "lua" /\ wk'.back = "lua"
    BY <1>0, <1>2 DEF WkHandle, WkState
  <2> QED
    BY <2>1 DEF WakeInv, Draining
<1>3. CASE WkDrained
  <2>1. wk'.pc = "script" /\ wk'.back = "script" /\ mq' = mq /\ mq.items = << >>
    BY <1>0, <1>3 DEF WkDrained, WkState
  <2> QED
    BY <2>1 DEF WakeInv
<1>4. CASE WkLuaReturns
  <2>1. \/ wk.pc = "lua" /\ wk'.pc = "drain"
        \/ wk.pc = "script" /\ wk'.pc = "wait"
    BY <1>0, <1>4 DEF WkLuaReturns, InLua, WkState
  <2>2. Draining' <=> Draining
    BY <2>1 DEF Draining
  <2> QED
    BY <1>4, <2>1, <2>2, LuaSteps DEF WkLuaReturns
<1>a. ASSUME wk.pc \in {"push", "pollout", "open", "store"}, UNCHANGED <<mq, wakeup, io>>,
             wk'.pc = wk.back, wk'.back = wk.back
      PROVE  WakeInv'
  <2>1. wk.back \in {"lua", "script"}
    BY <1>0 DEF WkState
  <2>2. Draining' <=> Draining
    BY <1>a, <2>1 DEF Draining
  <2> QED
    BY <1>a, <2>2, LuaSteps
<1>b. ASSUME wk.pc \in {"push", "open", "add"}, UNCHANGED <<mq, wakeup, io>>,
             wk'.pc \in {"pollout", "add", "store"}, wk'.back = wk.back
      PROVE  WakeInv'
  <2>1. Draining' <=> Draining
    BY <1>b DEF Draining
  <2> QED
    BY <1>b, <2>1, LuaSteps
<1>c. ASSUME InLua, UNCHANGED <<mq, wakeup, io>>,
             wk'.pc \in {wk.pc, "push", "open"}, wk'.back = wk.back
      PROVE  WakeInv'
  <2>1. Draining' <=> Draining
    BY <1>0, <1>c DEF Draining, InLua
  <2> QED
    BY <1>0, <1>c, <2>1, LuaSteps
<1>5. CASE WkPush
  <2> USE <1>5 DEF WkPush
  <2>1. CASE wk' = [wk EXCEPT !.pc = wk.back, !.fd = None, !.sock = None, !.to = None]
    <3>1. wk'.pc = wk.back /\ wk'.back = wk.back
      BY ONLY <1>0, <2>1 DEF WkState
    <3> QED
      BY <1>a, <3>1
  <2>2. CASE wk' = [wk EXCEPT !.pc = "pollout", !.sock = None, !.to = None]
    <3>1. wk'.pc = "pollout" /\ wk'.back = wk.back
      BY ONLY <1>0, <2>2 DEF WkState
    <3> QED
      BY <1>b, <3>1
  <2> QED
    BY <2>1, <2>2
<1>6. CASE WkPollout \/ WkOpenFails \/ WkStore
  <2>1. wk'.pc = wk.back /\ wk'.back = wk.back /\ wk.pc \in {"pollout", "open", "store"}
    BY <1>0, <1>6 DEF WkPollout, WkOpenFails, WkStore, WkState
  <2> QED
    BY <1>6, <1>a, <2>1 DEF WkPollout, WkOpenFails, WkStore
<1>7. CASE WkOpened \/ WkAdd
  <2>1. wk'.pc \in {"add", "store"} /\ wk'.back = wk.back /\ wk.pc \in {"open", "add"}
    BY <1>0, <1>7 DEF WkOpened, WkAdd, WkState
  <2> QED
    BY <1>7, <1>b, <2>1 DEF WkOpened, WkAdd
<1>8. ASSUME NEW fd \in Fd, Response(fd) PROVE WakeInv'
  <2>1. wk'.pc \in {wk.pc, "push"} /\ wk'.back = wk.back
    BY <1>0, <1>8 DEF Response, WkState
  <2> QED
    BY <1>8, <1>c, <2>1 DEF Response
<1>9. ASSUME NEW fd \in Fd, CloseSocket(fd) PROVE WakeInv'
  BY <1>9, <1>c DEF CloseSocket
<1>10. ASSUME NEW s \in Client \cup {Listener}, NewSocket(s) PROVE WakeInv'
  <2>1. wk'.pc = "open" /\ wk'.back = wk.back
    BY <1>0, <1>10 DEF NewSocket, WkState
  <2> QED
    BY <1>10, <1>c, <2>1 DEF NewSocket
<1>11. CASE Worker
  BY <1>1, <1>2, <1>3, <1>4, <1>5, <1>6, <1>7, <1>11 DEF Worker, WkWoken
<1>12. CASE WkTimeout
  BY <1>1, <1>12 DEF WkTimeout
<1>13. CASE Lua
  BY <1>8, <1>9, <1>10, <1>13 DEF Lua
<1> QED
  BY <1>11, <1>12, <1>13

(***************************************************************************)
(* NoLostWakeup: however the IO thread's push and check interleave with    *)
(* the worker's last look at mq, the worker does not sleep on a message    *)
(* that it has not been or will not be woken for.                          *)
(***************************************************************************)
THEOREM NoLostWakeupHolds == Spec => []NoLostWakeup
<1>1. Init => WakeInv
  <2> SUFFICES ASSUME Init PROVE WakeInv
    OBVIOUS
  <2>1. mq.items = << >>
    BY DEF Init
  <2>2. wk.pc = "script" /\ wk.back = "script"
    BY DEF Init
  <2> QED
    BY <2>1, <2>2 DEF WakeInv
<1>2. TableInv /\ WakeInv /\ [Next]_vars => WakeInv'
  <2> SUFFICES ASSUME TableInv, WakeInv, [Next]_vars PROVE WakeInv'
    OBVIOUS
  <2>1. CASE Io
    BY <2>1, IoWakes
  <2>2. CASE Worker \/ WkTimeout \/ Lua
    BY <2>2, WorkerWakes
  <2>3. CASE Remote \/ Fault \/ AlarmKills \/ AssertSocketFails \/ UNCHANGED vars
    <3>1. UNCHANGED <<mq, wakeup, io, wk>>
      BY <2>3, FaultStops DEF Remote, vars, shared
    <3> QED
      BY <3>1 DEF WakeInv, Draining
  <2> QED
    BY <2>1, <2>2, <2>3 DEF Next
<1>3. WakeInv => NoLostWakeup
  BY DEF WakeInv, Draining, NoLostWakeup
<1> QED
  BY <1>1, <1>2, <1>3, TableInvariant, PTL DEF Spec

-----------------------------------------------------------------------------
\* The worker is in slam_io_response with the same socket as before.
SamePush == wk'.pc = "push" => wk.pc = "push" /\ wk'.sock = wk.sock /\ wk'.to = wk.to

\* A step in which the IO thread neither tells the worker anything nor is in
\* remove_socket after close, and the worker learns nothing.
Silent ==
  /\ UNCHANGED <<mq, dropped, sockets, live>>
  /\ io' = io \/ (io.pc \notin {"forget", "lost"} /\ io'.pc \notin {"forget", "lost"})
  /\ SamePush
  /\ wk'.pc = "push" => freed' = freed

(* Most steps of the IO thread are silent.                                 *)
LEMMA IoSilent ==
  ASSUME TableInv, Io
  PROVE  Silent \/ IoAccept \/ (IoReadPackage /\ ~MqFull) \/ IoClose \/ IoForget \/ IoLost
<1> USE DEF IoStep, kernel, shared
<1>0. io \in IoState
  BY DEF TableInv, TypeInv
<1>a. ASSUME UNCHANGED <<mq, dropped, sockets, live, freed, wk>>,
             io.pc \notin {"forget", "lost"}, io'.pc \notin {"forget", "lost"}
      PROVE  Silent
  BY <1>a DEF Silent, SamePush
<1>1. CASE IoWait
  <2>1. io.pc = "wait" /\ io'.pc = "next"
    BY <1>0, <1>1 DEF IoWait, IoState
  <2> QED
    BY <1>1, <1>a, <2>1 DEF IoWait
<1>2. CASE IoNext
  <2>1. PICK fd \in Fd :
          io' = [io EXCEPT !.pc = HandlerOf(io.events[fd]),
                           !.fd = fd, !.events[fd] = {},
                           !.on = IF {"in", "out"} = io.events[fd] THEN {"out"} ELSE {}]
    BY <1>2 DEF IoNext
  <2>2. io.pc = "next" /\ io'.pc \in {"remove", "read", "write"}
    BY <1>0, <1>2, <2>1 DEF IoNext, IoState, HandlerOf
  <2> QED
    BY <1>2, <1>a, <2>2 DEF IoNext
<1>3. CASE IoCheck
  <2>1. io.pc = "next" /\ io'.pc = "wait"
    BY <1>0, <1>3 DEF IoCheck, IoState
  <2> QED
    BY <1>3, <1>a, <2>1 DEF IoCheck
<1>4. CASE IoNoSocket \/ IoReadEnds
  <2>1. io.pc \in {"read", "write", "remove"} /\ io'.pc \in {"write", "next"}
    BY <1>0, <1>4 DEF IoNoSocket, IoReadEnds, AfterRead, IoState
  <2> QED
    BY <1>4, <1>a, <2>1 DEF IoNoSocket, IoReadEnds
<1>5. CASE IoReadFails \/ IoWriteFails
  <2>1. io.pc \in {"read", "write"} /\ io'.pc = "remove"
    BY <1>0, <1>5 DEF IoReadFails, IoWriteFails, IoState
  <2> QED
    BY <1>5, <1>a, <2>1 DEF IoReadFails, IoWriteFails
<1>6. CASE IoWriteEnds
  <2>1. io.pc = "write" /\ io'.pc = "next"
    BY <1>0, <1>6 DEF IoWriteEnds, IoState
  <2> QED
    BY <1>6, <1>a, <2>1 DEF IoWriteEnds
<1>7. CASE IoSend
  BY <1>7 DEF IoSend, Silent, SamePush
<1>8. CASE IoReadPackage /\ MqFull
  <2>1. io.pc = "read" /\ io'.pc = "remove"
    BY <1>0, <1>8 DEF IoReadPackage, IoState
  <2> QED
    BY <1>8, <1>a, <2>1 DEF IoReadPackage
<1> QED
  BY <1>1, <1>2, <1>3, <1>4, <1>5, <1>6, <1>7, <1>8 DEF Io

(* And most of the worker.                                                 *)
LEMMA WorkerSilent ==
  ASSUME TableInv, Worker \/ WkTimeout \/ Lua
  PROVE  Silent \/ WkHandle \/ WkStore \/ \E fd \in Fd : Response(fd) /\ sockets[fd] # None
<1> USE DEF WkStep, kernel, shared
<1>0. wk \in WkState
  BY DEF TableInv, TypeInv
<1>a. ASSUME UNCHANGED <<mq, dropped, sockets, live, io>>, wk'.pc # "push"
      PROVE  Silent
  BY <1>a DEF Silent, SamePush
<1>1. CASE WkWait
  <2>1. wk'.pc = "drain"
    BY <1>0, <1>1 DEF WkWait, WkState
  <2> QED
    BY <1>1, <1>a, <2>1 DEF WkWait
<1>2. CASE WkDrained
  <2>1. wk'.pc = "script"
    BY <1>0, <1>2 DEF WkDrained, WkState
  <2> QED
    BY <1>2, <1>a, <2>1 DEF WkDrained
<1>3. CASE WkLuaReturns
  <2>1. wk'.pc \in {"drain", "wait"}
    BY <1>0, <1>3 DEF WkLuaReturns, WkState
  <2> QED
    BY <1>3, <1>a, <2>1 DEF WkLuaReturns
<1>4. CASE WkPush
  <2> USE <1>4 DEF WkPush
  <2>1. CASE wk' = [wk EXCEPT !.pc = wk.back, !.fd = None, !.sock = None, !.to = None]
    <3>1. wk'.pc \in {"lua", "script"}
      BY ONLY <1>0, <2>1 DEF WkState
    <3> QED
      BY <1>a, <3>1
  <2>2. CASE wk' = [wk EXCEPT !.pc = "pollout", !.sock = None, !.to = None]
    <3>1. wk'.pc = "pollout"
      BY ONLY <1>0, <2>2 DEF WkState
    <3> QED
      BY <1>a, <3>1
  <2> QED
    BY <2>1, <2>2
<1>5. CASE WkPollout \/ WkOpenFails
  <2>1. wk'.pc \in {"lua", "script"}
    BY <1>0, <1>5 DEF WkPollout, WkOpenFails, WkState
  <2> QED
    BY <1>5, <1>a, <2>1 DEF WkPollout, WkOpenFails
<1>6. CASE WkOpened \/ WkAdd
  <2>1. wk'.pc \in {"add", "store"}
    BY <1>0, <1>6 DEF WkOpened, WkAdd, WkState
  <2> QED
    BY <1>6, <1>a, <2>1 DEF WkOpened, WkAdd
<1>7. ASSUME NEW fd \in Fd, CloseSocket(fd) PROVE Silent
  BY <1>7 DEF CloseSocket, Silent, SamePush
<1>8. ASSUME NEW s \in Client \cup {Listener}, NewSocket(s) PROVE Silent
  <2>1. wk'.pc = "open"
    BY <1>0, <1>8 DEF NewSocket, WkState
  <2> QED
    BY <1>8, <1>a, <2>1 DEF NewSocket
<1>9. ASSUME NEW fd \in Fd, Response(fd), sockets[fd] = None PROVE Silent
  <2>1. wk'.pc = wk.pc /\ wk.pc # "push"
    BY <1>0, <1>9 DEF Response, InLua, WkState
  <2> QED
    BY <1>9, <1>a, <2>1 DEF Response
<1>10. CASE Worker
  BY <1>1, <1>2, <1>3, <1>4, <1>5, <1>6, <1>10 DEF Worker, WkWoken
<1>11. CASE WkTimeout
  BY <1>1, <1>11 DEF WkTimeout
<1>12. CASE Lua
  BY <1>7, <1>8, <1>9, <1>12 DEF Lua
<1> QED
  BY <1>10, <1>11, <1>12

(* The steps that are not silent.                                          *)
LEMMA StepCases ==
  ASSUME TableInv, [Next]_vars
  PROVE  \/ Silent
         \/ IoAccept \/ (IoReadPackage /\ ~MqFull) \/ IoClose \/ IoForget \/ IoLost
         \/ WkHandle \/ WkStore \/ \E fd \in Fd : Response(fd) /\ sockets[fd] # None
<1>1. CASE Remote \/ Fault \/ AlarmKills \/ AssertSocketFails \/ UNCHANGED vars
  <2>1. UNCHANGED <<shared, io, wk, live, dropped>>
    BY <1>1 DEF Remote, Fault, AlarmKills, AssertSocketFails, AssertQueueFails,
         AssertSlotFails, FreedUsed, Fails, vars
  <2> QED
    BY <2>1 DEF Silent, SamePush, shared
<1> QED
  BY <1>1, IoSilent, WorkerSilent DEF Next

(* What the steps that tell the worker something work on.                  *)
LEMMA AcceptsPeer ==
  ASSUME TableInv, IoAccept
  PROVE  /\ NewFd \in Fd /\ Head(backlog) \in Peer /\ Head(backlog) \in Sock
         /\ Len(backlog) > 0 /\ Head(backlog) = backlog[1]
<1>1. NewFd \in Fd
  BY NewFdFree DEF IoAccept, IoAccepts
<1>2. backlog \in Seq(Peer) /\ backlog # << >>
  BY DEF TableInv, TypeInv, IoAccept, IoAccepts
<1> QED
  BY <1>1, <1>2 DEF Sock, Conn

LEMMA ReadsConn ==
  ASSUME TableInv, IoReadPackage
  PROVE  io.fd \in Fd /\ sockets[io.fd] \in Conn /\ sockets[io.fd] \in Sock
<1>1. io.fd \in Fd
  BY DEF TableInv, TypeInv, IoReadPackage, IoStep
<1> QED
  BY <1>1 DEF IoReadPackage, IoReceives, IoSocket, Sock

LEMMA ClosesSocket ==
  ASSUME TableInv, IoClose
  PROVE  /\ io.pc = "remove" /\ io.fd \in Fd /\ sockets[io.fd] \in Sock
         /\ io'.pc = "forget" /\ io'.fd = io.fd /\ io'.sock = sockets[io.fd]
<1>1. io \in IoState /\ io.pc = "remove" /\ io.fd \in Fd
  BY DEF TableInv, TypeInv, IoClose, IoStep
<1>2. sockets[io.fd] \in Sock
  BY <1>1 DEF TableInv, TypeInv, IoClose, IoSocket, MaybeSock
<1>3. io' = [io EXCEPT !.pc = "forget", !.sock = sockets[io.fd]]
  BY DEF IoClose, IoSocket
<1> QED
  BY <1>1, <1>2, <1>3 DEF IoState

LEMMA ForgetsSocket ==
  ASSUME TableInv, IoForget
  PROVE  /\ io.pc = "forget" /\ io.fd \in Fd /\ sockets[io.fd] \in Sock
         /\ io'.pc = "lost" /\ io'.fd = io.fd /\ io'.sock = io.sock
         /\ sockets' = [sockets EXCEPT ![io.fd] = None]
<1>1. io \in IoState /\ io.pc = "forget" /\ io.fd \in Fd
  BY DEF TableInv, TypeInv, IoForget, IoStep
<1>2. sockets[io.fd] \in Sock
  BY <1>1 DEF TableInv, TypeInv, WindowInv, MaybeSock
<1>3. io' = [io EXCEPT !.pc = "lost"]
  BY DEF IoForget
<1> QED
  BY <1>1, <1>2, <1>3 DEF IoState, IoForget, Forgotten

LEMMA TellsLost ==
  ASSUME TableInv, IoLost
  PROVE  io.pc = "lost" /\ io.fd \in Fd /\ io'.pc \in {"write", "next"}
<1>1. io \in IoState /\ io.pc = "lost" /\ io.fd \in Fd
  BY DEF TableInv, TypeInv, IoLost, IoStep
<1>2. io' = [io EXCEPT !.pc = AfterRead, !.on = {}, !.sock = None]
  BY DEF IoLost
<1> QED
  BY <1>1, <1>2 DEF IoState, AfterRead

LEMMA StoresSocket ==
  ASSUME TableInv, WkStore
  PROVE  /\ wk.fd \in Fd /\ wk.sock \in Client \cup {Listener} /\ wk.sock \in Sock
         /\ sockets[wk.fd] = None /\ \A fd \in Fd : sockets[fd] # wk.sock
         /\ io.pc = "forget" => io.fd # wk.fd
         /\ sockets' = [sockets EXCEPT ![wk.fd] = wk.sock]
         /\ wk'.pc \in {"lua", "script"}
<1>1. wk \in WkState /\ wk.pc = "store" /\ Opening
  BY DEF TableInv, TypeInv, WkStore, Opening
<1>2. /\ wk.fd \in Fd /\ wk.sock \in Client \cup {Listener}
      /\ sockets[wk.fd] = None /\ \A fd \in Fd : sockets[fd] # wk.sock
  BY <1>1 DEF TableInv, OpeningInv
<1>3. io.pc = "forget" => io.fd # wk.fd
  BY <1>2 DEF TableInv, WindowInv
<1>4. wk' = [wk EXCEPT !.pc = wk.back, !.fd = None, !.sock = None]
  BY DEF WkStore
<1>5. wk'.pc \in {"lua", "script"}
  BY <1>1, <1>4 DEF WkState
<1> QED
  BY <1>2, <1>3, <1>5 DEF WkStore, Stored, Sock, Conn

LEMMA AnswersSocket ==
  ASSUME TableInv, NEW fd \in Fd, Response(fd), sockets[fd] # None
  PROVE  /\ wk'.pc = "push" /\ wk'.fd = fd /\ wk'.sock = sockets[fd] /\ wk'.to = live[fd]
         /\ sockets[fd] \in Sock /\ live[fd] \in Conn
<1>1. wk \in WkState /\ sockets[fd] \in Sock
  BY DEF TableInv, TypeInv, MaybeSock
<1>2. wk' = [wk EXCEPT !.calls = @ + 1, !.pc = "push", !.fd = fd,
                       !.sock = sockets[fd], !.to = live[fd]]
  BY DEF Response
<1>3. wk' = [pc |-> "push", back |-> wk.back, fd |-> fd, sock |-> sockets[fd],
             to |-> live[fd], calls |-> wk.calls + 1]
  BY ONLY <1>1, <1>2 DEF WkState
<1> QED
  BY <1>1, <1>3 DEF Response

SendqType == sendq \in [Sock -> Nat]

(* A send queue gets longer only where the worker pushes on it.            *)
LEMMA SendqGrows ==
  ASSUME TableInv, SendqType, [Next]_vars
  PROVE  SendqType' /\ \A s \in Sock : sendq'[s] > sendq[s] => WkPush /\ s = wk.sock
<1> USE DEF kernel, shared
<1>1. CASE sendq' = sendq
  BY <1>1 DEF SendqType
<1>2. CASE IoSend
  <2>1. io.fd \in Fd /\ IoSocket \in Sock
    BY <1>2 DEF IoSend, IoStep, TableInv, TypeInv, Sock
  <2>2. sendq[IoSocket] > 0 /\ sendq' = [sendq EXCEPT ![IoSocket] = @ - 1]
    BY <1>2 DEF IoSend
  <2> QED
    BY <2>1, <2>2 DEF SendqType
<1>3. CASE IoClose
  <2>1. sendq' = [sendq EXCEPT ![IoSocket] = 0]
    BY <1>3 DEF IoClose
  <2>2. sendq' = [s \in Sock |-> IF s = IoSocket THEN 0 ELSE sendq[s]]
    BY <2>1 DEF SendqType
  <2> QED
    BY <2>2 DEF SendqType
<1>4. CASE WkPush
  <2>1. sendq' = sendq \/ sendq' = [sendq EXCEPT ![wk.sock] = @ + 1]
    BY <1>4 DEF WkPush
  <2>2. CASE sendq' = [sendq EXCEPT ![wk.sock] = @ + 1]
    <3>1. sendq' = [s \in Sock |-> IF s = wk.sock THEN sendq[s] + 1 ELSE sendq[s]]
      BY <2>2 DEF SendqType
    <3> QED
      BY <1>4, <3>1 DEF SendqType
  <2> QED
    BY <1>1, <2>1, <2>2
<1>5. CASE Remote \/ Fault \/ AlarmKills \/ AssertSocketFails \/ UNCHANGED vars
  BY <1>1, <1>5 DEF Remote, Fault, AlarmKills, AssertSocketFails, AssertQueueFails,
       AssertSlotFails, FreedUsed, Fails, vars
<1>6. CASE Io
  BY <1>1, <1>2, <1>3, <1>6 DEF Io, IoWait, IoNext, IoCheck, IoNoSocket, IoAccept,
       IoReadPackage, IoReadEnds, IoReadFails, IoWriteEnds, IoWriteFails, IoForget, IoLost
<1>7. CASE Worker \/ WkTimeout
  BY <1>1, <1>4, <1>7 DEF Worker, WkTimeout, WkWoken, WkWait, WkHandle, WkDrained, WkLuaReturns,
       WkPollout, WkOpened, WkOpenFails, WkAdd, WkStore
<1>8. CASE Lua
  BY <1>1, <1>8 DEF Lua, Response, CloseSocket, NewSocket
<1> QED
  BY <1>5, <1>6, <1>7, <1>8 DEF Next

-----------------------------------------------------------------------------
(* No response is left behind in a send queue.                             *)

\* The types of what epoll is asked for.
RoomType == \A s \in Sock : net[s].room \in Nat
PollType == interest \in [Fd -> SUBSET {"in", "out"}] /\ SendqType /\ RoomType

\* Only an open socket of the table has messages to send.
QueuedInv == \A s \in Sock : sendq[s] # 0 => \E fd \in Fd : sockets[fd] = s /\ file[fd] = s

\* epoll is asked about every open socket of the table.
InterestInv ==
  /\ \A fd \in Fd : sockets[fd] # None /\ file[fd] = sockets[fd] => interest[fd] # {}
  /\ wk.pc = "store" => interest[wk.fd] # {}

\* The socket slam_io_response has found is in the table until it is freed.
FoundInv ==
  /\ wk.pc = "push" =>
       wk.sock \in Sock /\ wk.fd \in Fd /\ (wk.sock \notin freed => sockets[wk.fd] = wk.sock)
  /\ io.pc = "forget" => sockets[io.fd] \in freed

\* The batch of events and the event in work.
BatchInv ==
  /\ io.pc \in {"wait", "next", "write"} => io.on = {}
  /\ io.pc = "wait" => \A fd \in Fd : io.events[fd] = {}

PollInv == PollType /\ QueuedInv /\ InterestInv /\ FoundInv /\ BatchInv

\* A send queue with messages, the worker about to ask epoll, and the event
\* that the messages wait for.
Owed(fd) == sockets[fd] \in Conn /\ sendq[sockets[fd]] > 0
Asking(fd) == wk.pc = "pollout" /\ wk.fd = fd
Reported(fd) ==
  \/ net[sockets[fd]].room = 0
  \/ fd \in ready
  \/ {"out", "hup"} \cap io.events[fd] # {}
  \/ io.fd = fd /\ (io.pc \in {"write", "remove"} \/ "out" \in io.on)

OwedInv ==
  \A fd \in Fd : Owed(fd) => Asking(fd) \/ ("out" \in interest[fd] /\ Reported(fd))

-----------------------------------------------------------------------------
(* Messages wait in the queue of an open socket.                           *)
LEMMA OwedOpen ==
  ASSUME TableInv, PollInv, NEW fd \in Fd, Owed(fd)
  PROVE  /\ file[fd] = sockets[fd] /\ sockets[fd] \in Sock /\ sockets[fd] \in Conn
         /\ sockets[fd] \notin freed /\ interest[fd] # {}
         /\ \A g \in Fd : sockets[g] = sockets[fd] => g = fd
<1>0. sockets[fd] \in Conn /\ sockets[fd] \in Sock /\ sockets[fd] # None /\ sendq[sockets[fd]] # 0
  BY SockAssumption, SMTT(30) DEF Owed, Sock, PollInv, PollType, SendqType
<1>1. PICK g \in Fd : sockets[g] = sockets[fd] /\ file[g] = sockets[fd]
  BY <1>0 DEF PollInv, QueuedInv
<1>2. sockets[fd] \notin freed
  BY <1>0, <1>1 DEF TableInv, FileInv
<1>3. ASSUME NEW h \in Fd, sockets[h] = sockets[fd] PROVE file[h] = sockets[fd] /\ h = g
  <2>1. ~(io.pc = "forget" /\ io.fd = h)
    BY <1>2, <1>3 DEF PollInv, FoundInv
  <2>2. file[h] = sockets[h]
    BY <1>0, <1>3, <2>1 DEF TableInv, EntryInv
  <2> QED
    BY <1>0, <1>1, <1>3, <2>2 DEF TableInv, FileInv
<1>4. interest[fd] # {}
  BY <1>0, <1>3 DEF PollInv, InterestInv
<1> QED
  BY <1>0, <1>2, <1>3, <1>4

(* The types are kept.                                                     *)
LEMMA RoomTypeKept == ASSUME TableInv, RoomType, [Next]_vars PROVE RoomType'
<1>0. net \in [Sock -> Net] /\ Conn \subseteq Sock /\ Peer \subseteq Sock
  BY DEF TableInv, TypeInv, Sock, Conn
<1>1. CASE net' = net
  BY <1>1 DEF RoomType
<1>2. CASE Remote
  <2>1. ASSUME NEW c \in Peer, PeerConnect(c) PROVE RoomType'
    BY <1>0, <2>1 DEF PeerConnect, RoomType, Net
  <2>2. ASSUME NEW c \in Conn, PeerSend(c) PROVE RoomType'
    BY <1>0, <2>2 DEF PeerSend, RoomType, Net
  <2>3. ASSUME NEW c \in Conn, NEW how \in {"closed", "reset"}, PeerClose(c, how)
        PROVE  RoomType'
    BY <1>0, <2>3 DEF PeerClose, RoomType, Net
  <2>4. ASSUME NEW c \in Conn, PeerReceive(c) PROVE RoomType'
    BY <1>0, <2>4 DEF PeerReceive, RoomType, Net
  <2> QED
    BY <1>2, <2>1, <2>2, <2>3, <2>4 DEF Remote
<1>3. CASE IoReadPackage
  BY <1>0, <1>3 DEF IoReadPackage, RoomType, Net
<1>4. CASE IoSend
  <2>1. IoSocket \in Sock /\ net[IoSocket].room > 0
    BY <1>0, <1>4 DEF IoSend
  <2> QED
    BY <1>0, <1>4, <2>1 DEF IoSend, RoomType, Net
<1>5. CASE IoClose
  BY <1>0, <1>5, SizeAssumption DEF IoClose, RoomType, Fresh
<1>6. CASE WkOpened \/ WkOpenFails
  BY <1>0, <1>6 DEF WkOpened, WkOpenFails, RoomType, Net
<1>7. CASE Io
  <2>1. IoReadPackage \/ IoSend \/ IoClose \/ net' = net
    BY <1>7, Zenon DEF Io, IoWait, IoNext, IoCheck, IoNoSocket, IoAccept, IoReadEnds, IoReadFails,
         IoWriteEnds, IoWriteFails, IoForget, IoLost, kernel
  <2> QED
    BY <1>1, <1>3, <1>4, <1>5, <2>1
<1>8. CASE Worker \/ WkTimeout \/ Lua
  <2>1. WkOpened \/ WkOpenFails \/ net' = net
    BY <1>8, Zenon DEF Worker, WkTimeout, Lua, WkWoken, WkWait, WkHandle, WkDrained, WkLuaReturns,
         WkPush, WkPollout, WkAdd, WkStore, Response, CloseSocket, NewSocket, kernel
  <2> QED
    BY <1>1, <1>6, <2>1
<1>9. CASE Fault \/ AlarmKills \/ AssertSocketFails \/ UNCHANGED vars
  BY <1>1, <1>9, Zenon DEF Fault, AlarmKills, AssertSocketFails, AssertQueueFails,
       AssertSlotFails, FreedUsed, Fails, vars, kernel
<1> QED
  BY <1>2, <1>7, <1>8, <1>9 DEF Next

LEMMA PollTypeKept == ASSUME TableInv, PollType, [Next]_vars PROVE PollType'
<1> USE DEF kernel, shared
<1>0. SendqType' /\ RoomType'
  BY SendqGrows, RoomTypeKept DEF PollType
<1>a. interest \in [Fd -> SUBSET {"in", "out"}]
  BY DEF PollType
<1>b. ASSUME NEW f, NEW e \in SUBSET {"in", "out"}, interest' = [interest EXCEPT ![f] = e]
      PROVE  interest' \in [Fd -> SUBSET {"in", "out"}]
  <2>1. interest' = [fd \in Fd |-> IF fd = f THEN e ELSE interest[fd]]
    BY <1>a, <1>b, Zenon
  <2> QED
    BY <1>a, <2>1
<1>1. CASE Remote \/ Fault \/ AlarmKills \/ AssertSocketFails \/ UNCHANGED vars
  <2>1. interest' = interest
    BY <1>1, Zenon DEF Remote, PeerConnect, PeerSend, PeerReceive, PeerClose, Fault, AlarmKills,
         AssertSocketFails, AssertQueueFails, AssertSlotFails, FreedUsed, Fails, vars
  <2> QED
    BY <1>0, <2>1 DEF PollType
<1>2. CASE IoAccept \/ IoClose
  BY <1>0, <1>2, <1>b DEF IoAccept, IoClose, PollType
<1>3. CASE WkAdd
  BY <1>0, <1>3, <1>b, Zenon DEF WkAdd, PollType
<1>4. CASE WkPollout
  BY <1>0, <1>4, <1>a, <1>b DEF WkPollout, PollType
<1>5. CASE \/ IoWait \/ IoNext \/ IoCheck \/ IoNoSocket \/ IoReadPackage \/ IoReadEnds
           \/ IoReadFails \/ IoSend \/ IoWriteEnds \/ IoWriteFails \/ IoForget \/ IoLost
  <2>1. interest' = interest
    BY <1>5, Zenon DEF IoWait, IoNext, IoCheck, IoNoSocket, IoReadPackage, IoReadEnds, IoReadFails,
         IoSend, IoWriteEnds, IoWriteFails, IoForget, IoLost
  <2> QED
    BY <1>0, <2>1 DEF PollType
<1>6. CASE \/ WkWait \/ WkHandle \/ WkDrained \/ WkLuaReturns \/ WkPush \/ WkOpened
           \/ WkOpenFails \/ WkStore \/ Lua
  <2>1. interest' = interest
    BY <1>6, Zenon DEF WkWait, WkHandle, WkDrained, WkLuaReturns, WkPush, WkOpened, WkOpenFails,
         WkStore, Lua, Response, CloseSocket, NewSocket
  <2> QED
    BY <1>0, <2>1 DEF PollType
<1> QED
  BY <1>1, <1>2, <1>3, <1>4, <1>5, <1>6 DEF Next, Io, Worker, WkTimeout, WkWoken

-----------------------------------------------------------------------------
(* A step that leaves the table, the descriptors and what epoll is asked   *)
(* alone.                                                                  *)
Calm ==
  /\ UNCHANGED <<file, sockets, freed, interest>>
  /\ \A s \in Sock : sendq'[s] # 0 => sendq[s] # 0
  /\ wk'.pc \in {"store", "push"} => wk'.pc = wk.pc /\ wk'.fd = wk.fd /\ wk'.sock = wk.sock
  /\ io'.pc = "forget" => io.pc = "forget" /\ io'.fd = io.fd

(* Most steps are calm.                                                    *)
LEMMA CalmIo ==
  ASSUME TableInv, SendqType, Io
  PROVE  Calm \/ IoAccept \/ IoClose \/ IoForget
<1> USE DEF kernel, shared
<1> SUFFICES ASSUME ~IoAccept, ~IoClose, ~IoForget PROVE Calm
  OBVIOUS
<1>1. UNCHANGED <<file, sockets, freed, interest, wk>>
  BY Zenon DEF Io, IoStep, IoWait, IoNext, IoCheck, IoNoSocket, IoReadPackage, IoReadEnds,
       IoReadFails, IoSend, IoWriteEnds, IoWriteFails, IoLost
<1>2. CASE IoSend
  <2>1. IoSocket \in Sock /\ sendq[IoSocket] > 0 /\ sendq' = [sendq EXCEPT ![IoSocket] = @ - 1]
    BY <1>2 DEF IoSend, Sock
  <2>2. \A s \in Sock : sendq'[s] # 0 => sendq[s] # 0
    BY <2>1 DEF SendqType
  <2> QED
    BY <1>1, <1>2, <2>2 DEF Calm, IoSend
<1>3. CASE ~IoSend
  <2>1. sendq' = sendq
    BY <1>3, Zenon DEF Io, IoWait, IoNext, IoCheck, IoNoSocket, IoReadPackage, IoReadEnds,
         IoReadFails, IoWriteEnds, IoWriteFails, IoLost
  <2>2. io'.pc = "forget" => io' = io
    BY IoSilent, TellsLost DEF Silent, IoReadPackage
  <2> QED
    BY <1>1, <2>1, <2>2 DEF Calm
<1> QED
  BY <1>2, <1>3

LEMMA CalmWorker ==
  ASSUME TableInv, Worker \/ WkTimeout \/ Lua
  PROVE  \/ Calm \/ WkPush \/ WkPollout \/ WkOpenFails \/ WkAdd \/ WkStore
         \/ \E fd \in Fd : Response(fd) /\ sockets[fd] # None
         \/ \E s \in Client \cup {Listener} : NewSocket(s)
<1> USE DEF kernel, shared, WkStep
<1>0. wk \in WkState
  BY DEF TableInv, TypeInv
<1>a. ASSUME UNCHANGED <<file, sockets, freed, interest, sendq, io>>, wk'.pc \notin {"store", "push"}
      PROVE  Calm
  BY <1>a DEF Calm
<1>1. CASE WkWait \/ WkHandle \/ WkDrained \/ WkLuaReturns
  <2>1. wk'.pc \in {"drain", "lua", "script", "wait"}
    BY <1>0, <1>1, Zenon DEF WkWait, WkHandle, WkDrained, WkLuaReturns, WkState
  <2> QED
    BY <1>1, <1>a, <2>1 DEF WkWait, WkHandle, WkDrained, WkLuaReturns
<1>2. CASE WkOpened
  <2>1. wk'.pc = "add"
    BY <1>0, <1>2 DEF WkOpened, WkState
  <2> QED
    BY <1>2, <1>a, <2>1 DEF WkOpened
<1>3. ASSUME NEW fd \in Fd, CloseSocket(fd) PROVE Calm
  BY <1>3 DEF CloseSocket, Calm
<1>4. ASSUME NEW fd \in Fd, Response(fd), sockets[fd] = None PROVE Calm
  <2>1. wk'.pc = wk.pc /\ wk.pc \in {"lua", "script"}
    BY <1>0, <1>4 DEF Response, InLua, WkState
  <2> QED
    BY <1>4, <1>a, <2>1 DEF Response
<1>5. CASE Worker \/ WkTimeout
  BY <1>1, <1>2, <1>5 DEF Worker, WkWoken, WkTimeout
<1>6. CASE Lua
  BY <1>3, <1>4, <1>6 DEF Lua
<1> QED
  BY <1>5, <1>6

LEMMA CalmCases ==
  ASSUME TableInv, SendqType, [Next]_vars
  PROVE  \/ Calm \/ IoAccept \/ IoClose \/ IoForget
         \/ WkPush \/ WkPollout \/ WkOpenFails \/ WkAdd \/ WkStore
         \/ \E fd \in Fd : Response(fd) /\ sockets[fd] # None
         \/ \E s \in Client \cup {Listener} : NewSocket(s)
<1>1. CASE Remote \/ Fault \/ AlarmKills \/ AssertSocketFails \/ UNCHANGED vars
  <2>1. UNCHANGED <<file, interest, shared, io, wk>>
    BY <1>1, Zenon DEF Remote, PeerConnect, PeerSend, PeerReceive, PeerClose, Fault, AlarmKills,
         AssertSocketFails, AssertQueueFails, AssertSlotFails, FreedUsed, Fails, vars, kernel
  <2> QED
    BY <2>1 DEF Calm, shared
<1> QED
  BY <1>1, CalmIo, CalmWorker DEF Next

(* How the other steps change them.                                        *)
LEMMA AcceptChanges ==
  ASSUME TableInv, PollType, IoAccept
  PROVE  /\ NewFd \in Fd /\ file[NewFd] = None /\ sockets[NewFd] = None
         /\ Head(backlog) \in Sock /\ file'[NewFd] = Head(backlog)
         /\ sockets'[NewFd] = Head(backlog) /\ interest'[NewFd] = {"in"}
         /\ \A fd \in Fd \ {NewFd} : /\ file'[fd] = file[fd] /\ sockets'[fd] = sockets[fd]
                                     /\ interest'[fd] = interest[fd]
         /\ UNCHANGED <<freed, sendq, io, wk, net>> /\ io.pc = "read"
<1>1. NewFd \in Fd /\ file[NewFd] = None /\ Head(backlog) \in Sock
  BY NewFdFree, AcceptsPeer DEF IoAccept, IoAccepts
<1> QED
  BY <1>1 DEF IoAccept, IoStep, TableInv, TypeInv, PollType

LEMMA CloseChanges ==
  ASSUME TableInv, PollType, IoClose
  PROVE  /\ io.fd \in Fd /\ sockets[io.fd] \in Sock /\ file'[io.fd] = None /\ interest'[io.fd] = {}
         /\ \A fd \in Fd \ {io.fd} : file'[fd] = file[fd] /\ interest'[fd] = interest[fd]
         /\ sendq'[sockets[io.fd]] = 0
         /\ \A s \in Sock \ {sockets[io.fd]} : sendq'[s] = sendq[s]
         /\ freed' = freed \cup {sockets[io.fd]} /\ UNCHANGED <<sockets, wk>>
         /\ io.pc = "remove" /\ io'.pc = "forget" /\ io'.fd = io.fd
         /\ io'.events = io.events /\ io'.on = io.on
<1>1. io \in IoState /\ io' = [io EXCEPT !.pc = "forget", !.sock = IoSocket]
  BY DEF TableInv, TypeInv, IoClose
<1>2. io'.events = io.events /\ io'.on = io.on
  BY <1>1 DEF IoState
<1> QED
  BY <1>2, ClosesSocket DEF IoClose, IoStep, IoSocket, TableInv, TypeInv, PollType, SendqType

LEMMA ForgetChanges ==
  ASSUME TableInv, IoForget
  PROVE  /\ io.fd \in Fd /\ sockets'[io.fd] = None
         /\ \A fd \in Fd \ {io.fd} : sockets'[fd] = sockets[fd]
         /\ UNCHANGED <<file, interest, ready, net, freed, sendq, wk>>
         /\ io.pc = "forget" /\ io'.pc = "lost" /\ io'.fd = io.fd
         /\ io'.events = io.events /\ io'.on = io.on
<1>1. io \in IoState /\ io' = [io EXCEPT !.pc = "lost"]
  BY DEF TableInv, TypeInv, IoForget
<1>2. io'.events = io.events /\ io'.on = io.on
  BY <1>1 DEF IoState
<1> QED
  BY <1>2, ForgetsSocket DEF IoForget, IoStep, TableInv, TypeInv, kernel

LEMMA StoreChanges ==
  ASSUME TableInv, WkStore
  PROVE  /\ wk.pc = "store" /\ wk.fd \in Fd /\ wk.sock \in Sock /\ sockets[wk.fd] = None
         /\ \A fd \in Fd : sockets[fd] # wk.sock
         /\ sockets'[wk.fd] = wk.sock /\ \A fd \in Fd \ {wk.fd} : sockets'[fd] = sockets[fd]
         /\ UNCHANGED <<file, interest, ready, net, freed, sendq, io>>
         /\ io.pc = "forget" => io.fd # wk.fd
         /\ wk'.pc \in {"lua", "script"}
  BY StoresSocket DEF WkStore, WkStep, TableInv, TypeInv, kernel

LEMMA PushChanges ==
  ASSUME TableInv, PollType, FoundInv, WkPush
  PROVE  /\ wk.sock \in Sock /\ wk.fd \in Fd /\ sockets[wk.fd] = wk.sock
         /\ file[wk.fd] = wk.sock /\ wk.sock \notin freed
         /\ \A s \in Sock \ {wk.sock} : sendq'[s] = sendq[s]
         /\ UNCHANGED <<file, interest, ready, net, sockets, freed, io>> /\ wk.pc = "push"
         /\ \/ wk'.pc = "pollout" /\ wk'.fd = wk.fd
            \/ wk'.pc \in {"lua", "script"} /\ sendq' = sendq
<1>0. wk \in WkState /\ wk.pc = "push" /\ wk.sock \notin freed
  BY DEF WkPush, TableInv, TypeInv
<1>1. wk.sock \in Sock /\ wk.fd \in Fd /\ sockets[wk.fd] = wk.sock
  BY <1>0 DEF FoundInv
<1>2. file[wk.fd] = wk.sock
  BY <1>0, <1>1, SockAssumption DEF TableInv, EntryInv, FoundInv
<1>3. wk' = [wk EXCEPT !.pc = "pollout", !.sock = None, !.to = None] =>
        wk'.pc = "pollout" /\ wk'.fd = wk.fd
  BY ONLY <1>0 DEF WkState
<1>4. wk' = [wk EXCEPT !.pc = wk.back, !.fd = None, !.sock = None, !.to = None] =>
        wk'.pc \in {"lua", "script"}
  BY ONLY <1>0 DEF WkState
<1>5. \A s \in Sock \ {wk.sock} : sendq'[s] = sendq[s]
  BY DEF WkPush, PollType, SendqType
<1> QED
  BY <1>0, <1>1, <1>2, <1>3, <1>4, <1>5 DEF WkPush, WkStep, kernel

LEMMA PolloutChanges ==
  ASSUME TableInv, PollType, WkPollout
  PROVE  /\ UNCHANGED <<file, net, sockets, freed, sendq, io>>
         /\ wk.pc = "pollout" /\ wk'.pc \in {"lua", "script"}
         /\ \A fd \in Fd \ {wk.fd} : interest'[fd] = interest[fd]
         /\ ready \subseteq ready'
         /\ wk.fd \in Fd => \/ interest[wk.fd] = {} /\ interest'[wk.fd] = {}
                            \/ interest'[wk.fd] = {"in", "out"} /\ wk.fd \in ready'
<1>0. wk \in WkState /\ wk' = [wk EXCEPT !.pc = wk.back, !.fd = None]
  BY DEF WkPollout, TableInv, TypeInv
<1>1. wk'.pc \in {"lua", "script"}
  BY <1>0 DEF WkState
<1>2. interest \in [Fd -> SUBSET {"in", "out"}]
  BY DEF PollType
<1>3. CASE interest[wk.fd] # {}
  <2>1. interest' = [interest EXCEPT ![wk.fd] = {"in", "out"}] /\ ready' = ready \cup {wk.fd}
    BY <1>3 DEF WkPollout, PolloutReady
  <2>2. \A fd \in Fd : interest'[fd] = IF fd = wk.fd THEN {"in", "out"} ELSE interest[fd]
    BY <1>2, <2>1
  <2> QED
    BY <1>1, <2>1, <2>2 DEF WkPollout, WkStep, shared
<1>4. CASE interest[wk.fd] = {}
  BY <1>1, <1>4 DEF WkPollout, WkStep, shared
<1> QED
  BY <1>3, <1>4

LEMMA OpenFailsChanges ==
  ASSUME TableInv, WkOpenFails
  PROVE  /\ wk.fd \in Fd /\ file'[wk.fd] = None /\ \A fd \in Fd : sockets[fd] # file[wk.fd]
         /\ \A fd \in Fd \ {wk.fd} : file'[fd] = file[fd]
         /\ UNCHANGED <<interest, ready, sockets, sendq, io>> /\ freed \subseteq freed'
         /\ wk.pc = "open" /\ wk'.pc \in {"lua", "script"}
         /\ \A s \in Sock : s # wk.sock => net'[s] = net[s]
<1>0. wk \in WkState /\ wk.pc = "open" /\ wk' = [wk EXCEPT !.pc = wk.back, !.fd = None, !.sock = None]
  BY DEF WkOpenFails, TableInv, TypeInv
<1>1. wk'.pc \in {"lua", "script"}
  BY <1>0 DEF WkState
<1>2. wk.fd \in Fd /\ file[wk.fd] = wk.sock /\ \A fd \in Fd : sockets[fd] # wk.sock
  BY <1>0 DEF TableInv, OpeningInv, Opening
<1>3. file' = [file EXCEPT ![wk.fd] = None] /\ net' = [net EXCEPT ![wk.sock].state = "gone"]
  BY DEF WkOpenFails
<1> QED
  BY <1>0, <1>1, <1>2, <1>3 DEF WkOpenFails, WkStep, TableInv, TypeInv

LEMMA AddChanges ==
  ASSUME TableInv, PollType, WkAdd
  PROVE  /\ wk.fd \in Fd /\ sockets[wk.fd] = None /\ interest'[wk.fd] # {}
         /\ \A fd \in Fd \ {wk.fd} : interest'[fd] = interest[fd]
         /\ UNCHANGED <<file, net, sockets, freed, sendq, io>> /\ ready \subseteq ready'
         /\ wk.pc = "add" /\ wk'.pc = "store" /\ wk'.fd = wk.fd
<1>0. wk \in WkState /\ wk.pc = "add" /\ wk' = [wk EXCEPT !.pc = "store"]
  BY DEF WkAdd, TableInv, TypeInv
<1>1. wk'.pc = "store" /\ wk'.fd = wk.fd
  BY <1>0 DEF WkState
<1>2. wk.fd \in Fd
  BY <1>0 DEF TableInv, OpeningInv, Opening
<1>3. interest' = [interest EXCEPT ![wk.fd] = {"in"}]
  BY DEF WkAdd
<1> QED
  BY <1>0, <1>1, <1>2, <1>3 DEF WkAdd, WkStep, shared, PollType

LEMMA NewSocketChanges ==
  ASSUME TableInv, NEW s \in Client \cup {Listener}, NewSocket(s)
  PROVE  /\ NewFd \in Fd /\ file[NewFd] = None /\ file'[NewFd] = s
         /\ \A fd \in Fd \ {NewFd} : file'[fd] = file[fd]
         /\ \A fd \in Fd : sockets[fd] # s
         /\ UNCHANGED <<interest, ready, net, sockets, freed, sendq, io>>
         /\ wk.pc \in {"lua", "script"} /\ wk'.pc = "open"
<1>0. wk \in WkState /\ wk' = [wk EXCEPT !.pc = "open", !.fd = NewFd, !.sock = s]
  BY DEF NewSocket, TableInv, TypeInv
<1>1. wk'.pc = "open"
  BY <1>0 DEF WkState
<1>2. NewFd \in Fd /\ file[NewFd] = None
  BY NewFdFree DEF NewSocket
<1>3. s \in Sock /\ \A fd \in Fd : sockets[fd] # s
  BY DEF NewSocket, TableInv, FreshInv, Sock, Conn
<1>4. file' = [file EXCEPT ![NewFd] = s]
  BY DEF NewSocket
<1> QED
  BY <1>1, <1>2, <1>3, <1>4 DEF NewSocket, WkStep, InLua, shared, TableInv, TypeInv

-----------------------------------------------------------------------------
(* Only open sockets of the table have messages to send.                   *)
LEMMA QueuedKept == ASSUME TableInv, PollInv, [Next]_vars PROVE QueuedInv'
<1> SUFFICES ASSUME NEW s \in Sock, sendq'[s] # 0
             PROVE  \E fd \in Fd : sockets'[fd] = s /\ file'[fd] = s
  BY DEF QueuedInv
<1>0. PollType /\ SendqType /\ FoundInv /\ s # None
  BY SockAssumption DEF PollInv, PollType
<1>a. sendq[s] # 0 => \E fd \in Fd : sockets[fd] = s /\ file[fd] = s
  BY DEF PollInv, QueuedInv
<1>1. CASE Calm
  BY <1>1, <1>a DEF Calm
<1>2. CASE IoAccept
  BY <1>0, <1>2, <1>a, AcceptChanges, ZenonT(30)
<1>3. CASE IoClose
  BY <1>0, <1>3, <1>a, CloseChanges
<1>4. CASE IoForget
  <2>1. \A fd \in Fd : file[fd] = s => s \notin freed
    BY <1>0 DEF TableInv, FileInv
  <2> QED
    BY <1>0, <1>4, <1>a, <2>1, ForgetChanges DEF FoundInv
<1>5. CASE WkPush
  BY <1>0, <1>5, <1>a, PushChanges
<1>6. CASE WkPollout
  BY <1>0, <1>6, <1>a, PolloutChanges
<1>7. CASE WkOpenFails
  BY <1>0, <1>7, <1>a, OpenFailsChanges
<1>8. CASE WkAdd
  BY <1>0, <1>8, <1>a, AddChanges
<1>9. CASE WkStore
  BY <1>0, <1>9, <1>a, StoreChanges
<1>10. ASSUME NEW fd \in Fd, Response(fd) PROVE UNCHANGED <<file, sockets, sendq>>
  BY <1>10 DEF Response, kernel, shared
<1>11. ASSUME NEW c \in Client \cup {Listener}, NewSocket(c)
       PROVE  \E fd \in Fd : sockets'[fd] = s /\ file'[fd] = s
  BY <1>0, <1>11, <1>a, NewSocketChanges
<1> QED
  BY <1>0, <1>1, <1>2, <1>3, <1>4, <1>5, <1>6, <1>7, <1>8, <1>9, <1>10, <1>11, <1>a, CalmCases

(* epoll is asked about them.                                              *)
LEMMA InterestKept == ASSUME TableInv, PollInv, [Next]_vars PROVE InterestInv'
<1>0. PollType /\ SendqType /\ FoundInv /\ InterestInv /\ None \notin Sock
  BY SockAssumption DEF PollInv, PollType
<1>1. CASE Calm
  BY <1>0, <1>1 DEF Calm, InterestInv
<1>2. CASE IoAccept
  <2>1. wk.pc = "store" => wk.fd \in Fd
    BY DEF TableInv, OpeningInv, Opening
  <2>2. \A fd \in Fd : sockets'[fd] # None /\ file'[fd] = sockets'[fd] => interest'[fd] # {}
    BY <1>0, <1>2, AcceptChanges DEF InterestInv
  <2>3. wk.pc = "store" => interest'[wk.fd] # {}
    BY <1>0, <1>2, <2>1, AcceptChanges DEF InterestInv
  <2> QED
    BY <1>0, <1>2, <2>2, <2>3, AcceptChanges DEF InterestInv
<1>3. CASE IoClose
  <2>1. wk.pc = "store" => wk.fd \in Fd /\ sockets[wk.fd] = None
    BY DEF TableInv, OpeningInv, Opening
  <2> QED
    BY <1>0, <1>3, <2>1, CloseChanges DEF InterestInv
<1>4. CASE IoForget
  BY <1>0, <1>4, ForgetChanges DEF InterestInv
<1>5. CASE WkPush
  BY <1>0, <1>5, PushChanges DEF InterestInv
<1>6. CASE WkPollout
  BY <1>0, <1>6, PolloutChanges DEF InterestInv
<1>7. CASE WkOpenFails
  BY <1>0, <1>7, OpenFailsChanges DEF InterestInv
<1>8. CASE WkAdd
  BY <1>0, <1>8, AddChanges DEF InterestInv
<1>9. CASE WkStore
  BY <1>0, <1>9, StoreChanges DEF InterestInv
<1>10. ASSUME NEW fd \in Fd, Response(fd), sockets[fd] # None PROVE InterestInv'
  <2>1. wk'.pc = "push" /\ UNCHANGED <<file, sockets, interest>>
    BY <1>10, AnswersSocket, Zenon DEF Response, kernel, shared
  <2> QED
    BY <1>0, <2>1 DEF InterestInv
<1>11. ASSUME NEW c \in Client \cup {Listener}, NewSocket(c) PROVE InterestInv'
  BY <1>0, <1>11, NewSocketChanges DEF InterestInv
<1> QED
  BY <1>0, <1>1, <1>2, <1>3, <1>4, <1>5, <1>6, <1>7, <1>8, <1>9, <1>10, <1>11, CalmCases

(* What slam_io_response has found stays in the table until it is freed.   *)
LEMMA FoundKept == ASSUME TableInv, PollInv, [Next]_vars PROVE FoundInv'
<1>0. PollType /\ SendqType /\ FoundInv /\ None \notin Sock
  BY SockAssumption DEF PollInv, PollType
<1>1. CASE Calm
  BY <1>0, <1>1 DEF Calm, FoundInv
<1>2. CASE IoAccept
  BY <1>0, <1>2, AcceptChanges DEF FoundInv
<1>3. CASE IoClose
  BY <1>0, <1>3, CloseChanges DEF FoundInv
<1>4. CASE IoForget
  BY <1>0, <1>4, ForgetChanges DEF FoundInv
<1>5. CASE WkPush
  BY <1>0, <1>5, PushChanges DEF FoundInv
<1>6. CASE WkPollout
  BY <1>0, <1>6, PolloutChanges DEF FoundInv
<1>7. CASE WkOpenFails
  BY <1>0, <1>7, OpenFailsChanges DEF FoundInv
<1>8. CASE WkAdd
  BY <1>0, <1>8, AddChanges DEF FoundInv
<1>9. CASE WkStore
  <2>1. io.pc = "forget" => io.fd \in Fd
    BY DEF TableInv, TypeInv
  <2> QED
    BY <1>0, <1>9, <2>1, StoreChanges DEF FoundInv
<1>10. ASSUME NEW fd \in Fd, Response(fd), sockets[fd] # None PROVE FoundInv'
  <2>1. UNCHANGED <<freed, sockets, io>>
    BY <1>10 DEF Response, WkStep, shared
  <2> QED
    BY <1>0, <1>10, <2>1, AnswersSocket DEF FoundInv
<1>11. ASSUME NEW c \in Client \cup {Listener}, NewSocket(c) PROVE FoundInv'
  BY <1>0, <1>11, NewSocketChanges, SMTT(30) DEF FoundInv
<1> QED
  BY <1>0, <1>1, <1>2, <1>3, <1>4, <1>5, <1>6, <1>7, <1>8, <1>9, <1>10, <1>11, CalmCases

(* The batch is empty when the IO thread waits, and it works on one event  *)
(* at a time.                                                              *)
LEMMA BatchKept == ASSUME TableInv, BatchInv, [Next]_vars PROVE BatchInv'
<1> USE DEF IoStep
<1>0. io \in IoState
  BY DEF TableInv, TypeInv
<1>1. CASE io' = io
  BY <1>1 DEF BatchInv
<1>2. CASE IoWait
  <2> DEFINE events == [fd \in Fd |-> IF fd \in ready THEN Mask(fd) ELSE {}]
  <2>1. io' = [io EXCEPT !.pc = "next", !.events = events] /\ io.pc = "wait"
    BY <1>2 DEF IoWait
  <2> HIDE DEF events
  <2>2. io'.pc = "next" /\ io'.on = io.on
    BY <1>0, <2>1 DEF IoState
  <2> QED
    BY <2>1, <2>2 DEF BatchInv
<1>3. CASE IoNext
  <2>1. PICK fd \in Fd :
          io' = [io EXCEPT !.pc = HandlerOf(io.events[fd]),
                           !.fd = fd, !.events[fd] = {},
                           !.on = IF {"in", "out"} = io.events[fd] THEN {"out"} ELSE {}]
    BY <1>3, Zenon DEF IoNext
  <2>2. /\ io'.pc = HandlerOf(io.events[fd])
        /\ io'.on = IF {"in", "out"} = io.events[fd] THEN {"out"} ELSE {}
    BY <1>0, <2>1 DEF IoState
  <2>3. io'.pc = "write" => "in" \notin io.events[fd]
    BY <2>2 DEF HandlerOf
  <2>4. io'.pc \in {"remove", "read", "write"}
    BY <2>2 DEF HandlerOf
  <2> QED
    BY <2>2, <2>3, <2>4 DEF BatchInv
<1>4. CASE IoCheck
  <2>1. io'.pc = "wait" /\ io'.on = io.on /\ io'.events = io.events /\ io.pc = "next"
    BY <1>0, <1>4 DEF IoCheck, IoState
  <2> QED
    BY <1>4, <2>1 DEF BatchInv, IoCheck
<1>5. CASE IoNoSocket \/ IoReadEnds \/ IoLost
  <2>1. io'.pc \in {"write", "next"} /\ io'.on = {}
    BY <1>0, <1>5, Zenon DEF IoNoSocket, IoReadEnds, IoLost, AfterRead, IoState
  <2> QED
    BY <2>1 DEF BatchInv
<1>6. CASE IoReadFails \/ IoWriteFails \/ IoClose \/ IoForget
  <2>1. io'.pc \in {"remove", "forget", "lost"}
    BY <1>0, <1>6, Zenon DEF IoReadFails, IoWriteFails, IoClose, IoForget, IoState
  <2> QED
    BY <2>1 DEF BatchInv
<1>7. CASE IoWriteEnds
  <2>1. io'.pc = "next" /\ io'.on = io.on /\ io.pc = "write"
    BY <1>0, <1>7 DEF IoWriteEnds, IoState
  <2> QED
    BY <2>1 DEF BatchInv
<1>8. CASE IoReadPackage
  <2>1. io' = io \/ io'.pc = "remove"
    BY <1>0, <1>8 DEF IoReadPackage, IoState
  <2> QED
    BY <1>1, <2>1 DEF BatchInv
<1>9. CASE Io
  BY <1>1, <1>2, <1>3, <1>4, <1>5, <1>6, <1>7, <1>8, <1>9 DEF Io, IoAccept, IoSend
<1>10. CASE Worker \/ WkTimeout \/ Lua
  BY <1>1, <1>10, ZenonT(30) DEF Worker, WkTimeout, Lua, WkStep, WkWoken, WkWait, WkHandle, WkDrained,
       WkLuaReturns, WkPush, WkPollout, WkOpened, WkOpenFails, WkAdd, WkStore, Response,
       CloseSocket, NewSocket
<1>11. CASE Remote \/ Fault \/ AlarmKills \/ AssertSocketFails \/ UNCHANGED vars
  BY <1>1, <1>11 DEF Remote, Fault, AlarmKills, AssertSocketFails, AssertQueueFails,
       AssertSlotFails, FreedUsed, Fails, vars
<1> QED
  BY <1>9, <1>10, <1>11 DEF Next

-----------------------------------------------------------------------------
(* A descriptor with messages to send is still reported after a step that  *)
(* leaves what concerns it alone.                                          *)
StillReported(fd) == Asking(fd)' \/ ("out" \in interest'[fd] /\ Reported(fd)')

LEMMA OwedSame ==
  ASSUME OwedInv, NEW fd \in Fd, Owed(fd), sockets'[fd] = sockets[fd],
         interest'[fd] = interest[fd],
         Asking(fd) => wk'.pc = wk.pc /\ wk'.fd = wk.fd,
         net[sockets[fd]].room = 0 => net'[sockets[fd]].room = 0 \/ fd \in ready',
         fd \in ready =>
           \/ fd \in ready' \/ net'[sockets[fd]].room = 0
           \/ {"out", "hup"} \cap io'.events[fd] # {},
         {"out", "hup"} \cap io.events[fd] # {} =>
           \/ {"out", "hup"} \cap io'.events[fd] # {}
           \/ io'.fd = fd /\ (io'.pc \in {"write", "remove"} \/ "out" \in io'.on),
         io.fd = fd /\ (io.pc \in {"write", "remove"} \/ "out" \in io.on) =>
           \/ io'.fd = fd /\ (io'.pc \in {"write", "remove"} \/ "out" \in io'.on)
           \/ net'[sockets[fd]].room = 0
  PROVE  StillReported(fd)
<1>1. Asking(fd) => Asking(fd)'
  BY ZenonT(30) DEF Asking
<1>2. Reported(fd) => Reported(fd)'
  BY DEF Reported
<1> QED
  BY <1>1, <1>2, Zenon DEF OwedInv, StillReported

(* What the remote ends do.                                                *)
LEMMA OwedRemote ==
  ASSUME TableInv, PollInv, OwedInv, Remote, NEW fd \in Fd, Owed(fd)'
  PROVE  StillReported(fd)
<1>0. net \in [Sock -> Net]
  BY DEF TableInv, TypeInv
<1>1. UNCHANGED <<interest, sockets, sendq, io, wk>>
  BY Zenon DEF Remote, PeerConnect, PeerSend, PeerReceive, PeerClose, shared
<1>2. Owed(fd)
  BY <1>1 DEF Owed
<1>3. file[fd] = sockets[fd] /\ sockets[fd] \in Sock /\ interest[fd] # {}
  BY <1>2, OwedOpen
<1>4. ready \subseteq ready'
  BY Zenon DEF Remote, PeerConnect, PeerSend, PeerReceive, PeerClose, Edge
<1>5. net[sockets[fd]].room = 0 => net'[sockets[fd]].room = 0 \/ fd \in ready'
  <2>1. ASSUME NEW c \in Peer, PeerConnect(c) PROVE net'[sockets[fd]].room = net[sockets[fd]].room
    BY <1>0, <1>3, <2>1 DEF PeerConnect, Net
  <2>2. ASSUME NEW c \in Conn, PeerSend(c) PROVE net'[sockets[fd]].room = net[sockets[fd]].room
    BY <1>0, <1>3, <2>2 DEF PeerSend, Net
  <2>3. ASSUME NEW c \in Conn, NEW how \in {"closed", "reset"}, PeerClose(c, how)
        PROVE  net'[sockets[fd]].room = net[sockets[fd]].room
    BY <1>0, <1>3, <2>3 DEF PeerClose, Net
  <2>4. ASSUME NEW c \in Conn, PeerReceive(c), net[sockets[fd]].room = 0
        PROVE  net'[sockets[fd]].room = 0 \/ fd \in ready'
    <3>1. CASE c = sockets[fd]
      BY <1>3, <2>4, <3>1 DEF PeerReceive, Edge, FdsOf
    <3>2. CASE c # sockets[fd]
      BY <1>0, <1>3, <2>4, <3>2 DEF PeerReceive, Net
    <3> QED
      BY <3>1, <3>2
  <2> QED
    BY <2>1, <2>2, <2>3, <2>4, Zenon DEF Remote
<1> QED
  BY <1>1, <1>2, <1>4, <1>5, OwedSame, Zenon

(* What the IO thread does: its batch, ...                                 *)
LEMMA OwedBatch ==
  ASSUME TableInv, PollInv, OwedInv, IoWait \/ IoNext \/ IoCheck, NEW fd \in Fd, Owed(fd)'
  PROVE  StillReported(fd)
<1> USE DEF IoStep
<1>0. io \in IoState /\ io.events \in [Fd -> SUBSET {"in", "out", "hup"}] /\ net \in [Sock -> Net]
  BY DEF TableInv, TypeInv, IoState, Events
<1>1. UNCHANGED <<interest, sockets, sendq, net, wk>>
  BY ZenonT(30) DEF IoWait, IoNext, IoCheck, kernel, shared
<1>2. Owed(fd)
  BY <1>1, ZenonT(30) DEF Owed
<1>3. file[fd] = sockets[fd] /\ sockets[fd] \in Conn
  BY <1>2, OwedOpen
<1>4. CASE IoWait
  <2> DEFINE events == [f \in Fd |-> IF f \in ready THEN Mask(f) ELSE {}]
  <2>1. io' = [io EXCEPT !.pc = "next", !.events = events] /\ io.pc = "wait"
    BY <1>4 DEF IoWait
  <2>2. fd \in ready => events[fd] = Mask(fd)
    OBVIOUS
  <2> HIDE DEF events
  <2>3. io'.events = events
    BY <1>0, <2>1 DEF IoState
  <2>4. io.on = {} /\ io.events[fd] = {}
    BY <2>1 DEF PollInv, BatchInv
  <2>5. CASE Asking(fd)
    BY <1>1, <2>5 DEF StillReported, Asking
  <2>6. CASE ~Asking(fd)
    <3>1. "out" \in interest[fd] /\ Reported(fd)
      BY <1>2, <2>6 DEF OwedInv
    <3>2. net[sockets[fd]].room = 0 \/ fd \in ready
      BY <2>1, <2>4, <3>1 DEF Reported
    <3>3. CASE net[sockets[fd]].room = 0
      BY <1>1, <3>1, <3>3 DEF StillReported, Reported
    <3>4. CASE fd \in ready /\ net[sockets[fd]].room # 0
      <4>1. sockets[fd] \in Sock /\ sockets[fd] # None /\ sockets[fd] # Listener
        BY <1>3, SockAssumption DEF Sock
      <4>2. "out" \in Mask(fd)
        <5>1. net[sockets[fd]].room > 0
          BY <3>4, <4>1 DEF PollInv, PollType, RoomType
        <5> QED
          BY <1>3, <3>1, <4>1, <5>1 DEF Mask
      <4> QED
        BY <1>1, <2>2, <2>3, <3>1, <3>4, <4>2 DEF StillReported, Reported
    <3> QED
      BY <3>2, <3>3, <3>4
  <2> QED
    BY <2>5, <2>6
<1>5. CASE IoNext
  <2>0. io.pc = "next" /\ io.on = {} /\ ready' = ready
    BY <1>5, Zenon DEF PollInv, BatchInv, IoNext, kernel
  <2>1. PICK f \in Fd :
          io' = [io EXCEPT !.pc = HandlerOf(io.events[f]),
                           !.fd = f, !.events[f] = {},
                           !.on = IF {"in", "out"} = io.events[f] THEN {"out"} ELSE {}]
    BY <1>5, Zenon DEF IoNext
  <2>2. /\ io'.pc = HandlerOf(io.events[f])
        /\ io'.on = IF {"in", "out"} = io.events[f] THEN {"out"} ELSE {}
        /\ io'.fd = f /\ io'.events = [io.events EXCEPT ![f] = {}]
    BY <1>0, <2>1 DEF IoState
  <2>3. \A g \in Fd \ {f} : io'.events[g] = io.events[g]
    BY <1>0, <2>2
  <2>4. {"out", "hup"} \cap io.events[f] # {} => io'.pc \in {"write", "remove"} \/ "out" \in io'.on
    <3>1. CASE "hup" \in io.events[f]
      BY <2>2, <3>1 DEF HandlerOf
    <3>2. CASE "hup" \notin io.events[f] /\ "out" \in io.events[f] /\ "in" \in io.events[f]
      <4>1. io.events[f] = {"in", "out"}
        BY <1>0, <3>2
      <4> QED
        BY <2>2, <4>1
    <3>3. CASE "hup" \notin io.events[f] /\ "in" \notin io.events[f]
      BY <2>2, <3>3 DEF HandlerOf
    <3> QED
      BY <3>1, <3>2, <3>3
  <2> QED
    BY <1>1, <1>2, <2>0, <2>2, <2>3, <2>4, OwedSame, Zenon
<1>6. CASE IoCheck
  <2>1. /\ io.pc = "next" /\ io.on = {} /\ ready' = ready
        /\ \A f \in Fd : io.events[f] = {}
    BY <1>6 DEF PollInv, BatchInv, IoCheck, kernel
  <2> QED
    BY <1>1, <1>2, <2>1, OwedSame
<1> QED
  BY <1>4, <1>5, <1>6

(* ... what it does for one event, ...                                     *)
LEMMA OwedEvent ==
  ASSUME TableInv, PollInv, OwedInv, NEW fd \in Fd, Owed(fd)',
         \/ IoNoSocket \/ IoReadPackage \/ IoReadEnds \/ IoReadFails
         \/ IoSend \/ IoWriteEnds \/ IoWriteFails \/ IoLost
  PROVE  StillReported(fd)
<1> USE DEF IoStep
<1>0. /\ io \in IoState /\ net \in [Sock -> Net]
      /\ io.pc \in {"read", "write", "remove", "forget", "lost"} => io.fd \in Fd
  BY DEF TableInv, TypeInv
<1>1. UNCHANGED <<interest, sockets, ready, wk>>
  BY DEF IoNoSocket, IoReadPackage, IoReadEnds, IoReadFails, IoSend, IoWriteEnds,
       IoWriteFails, IoLost, kernel, shared
<1>a. CASE net' = net /\ sendq' = sendq
  <2>1. Owed(fd)
    BY <1>1, <1>a DEF Owed
  <2> QED
    <3>1. CASE IoNoSocket
      <4>1. io'.fd = io.fd /\ io'.events = io.events /\ io.fd # fd
        <5>1. sockets[io.fd] = None /\ sockets[fd] # None
          BY <2>1, <3>1, SockAssumption DEF IoNoSocket, IoSocket, Owed, Sock
        <5> QED
          BY <1>0, <3>1, <5>1 DEF IoNoSocket, IoState
      <4> QED
        BY <1>1, <1>a, <2>1, <4>1, OwedSame
    <3>2. CASE IoReadEnds \/ IoLost
      <4>1. /\ io'.fd = io.fd /\ io'.events = io.events /\ io.pc \in {"read", "lost"}
            /\ "out" \in io.on => io'.pc = "write"
        BY <1>0, <3>2, Zenon DEF IoReadEnds, IoLost, AfterRead, IoState
      <4> QED
        BY <1>1, <1>a, <2>1, <4>1, OwedSame
    <3>3. CASE IoReadFails \/ IoWriteFails
      <4>1. io'.fd = io.fd /\ io'.events = io.events /\ io'.pc = "remove"
        BY <1>0, <3>3 DEF IoReadFails, IoWriteFails, IoState
      <4> QED
        BY <1>1, <1>a, <2>1, <4>1, OwedSame
    <3>4. CASE IoWriteEnds
      <4>1. io'.fd = io.fd /\ io'.events = io.events
        BY <1>0, <3>4 DEF IoWriteEnds, IoState
      <4>2. io.fd = fd => net[sockets[fd]].room = 0
        BY <2>1, <3>4 DEF IoWriteEnds, IoSocket, Owed
      <4> QED
        BY <1>1, <1>a, <2>1, <4>1, <4>2, OwedSame
    <3>5. CASE IoReadPackage
      <4>1. io' = io \/ (io'.fd = io.fd /\ io'.events = io.events /\ io'.pc = "remove")
        BY <1>0, <3>5 DEF IoReadPackage, IoState
      <4> QED
        BY <1>1, <1>a, <2>1, <4>1, OwedSame
    <3>6. CASE IoSend
      BY <1>1, <1>a, <2>1, <3>6, OwedSame DEF IoSend
    <3> QED
      BY <3>1, <3>2, <3>3, <3>4, <3>5, <3>6
<1>2. CASE IoReadPackage
  <2>1. sendq' = sendq /\ net' = [net EXCEPT ![IoSocket].in = @ - 1]
    BY <1>2 DEF IoReadPackage
  <2>2. Owed(fd) /\ sockets[fd] \in Sock
    BY <1>1, <2>1 DEF Owed, Sock
  <2>3. net'[sockets[fd]].room = net[sockets[fd]].room
    BY <1>0, <2>1, <2>2 DEF Net
  <2>4. io' = io \/ (io'.fd = io.fd /\ io'.events = io.events /\ io'.pc = "remove")
    BY <1>0, <1>2 DEF IoReadPackage, IoState
  <2> QED
    BY <1>1, <2>2, <2>3, <2>4, OwedSame, Zenon
<1>3. CASE IoSend
  <2>1. /\ io.pc = "write" /\ io' = io /\ io.fd \in Fd /\ IoSocket \in Sock /\ sendq[IoSocket] > 0
        /\ sendq' = [sendq EXCEPT ![IoSocket] = @ - 1]
        /\ net' = [net EXCEPT ![IoSocket].room = @ - 1, ![IoSocket].out = @ + 1]
    BY <1>0, <1>3 DEF IoSend, Sock
  <2>2. Owed(fd)
    <3>1. sockets[fd] \in Conn /\ sockets[fd] \in Sock /\ sendq'[sockets[fd]] > 0
      BY <1>1 DEF Owed, Sock
    <3>2. CASE sockets[fd] = IoSocket
      BY <2>1, <3>1, <3>2 DEF Owed
    <3>3. CASE sockets[fd] # IoSocket
      BY <2>1, <3>1, <3>3 DEF Owed, PollInv, PollType, SendqType
    <3> QED
      BY <3>2, <3>3
  <2>3. CASE io.fd = fd
    <3>1. net[sockets[fd]].room # 0
      BY <1>3, <2>3 DEF IoSend, IoSocket
    <3> QED
      BY <1>1, <2>1, <2>2, <2>3, <3>1, OwedSame
  <2>4. CASE io.fd # fd
    <3>1. sockets[fd] # IoSocket /\ sockets[fd] \in Sock
      BY <2>1, <2>2, <2>4, OwedOpen DEF IoSocket
    <3>2. net'[sockets[fd]] = net[sockets[fd]]
      BY <1>0, <2>1, <3>1
    <3> QED
      BY <1>1, <2>1, <2>2, <2>4, <3>2, OwedSame, Zenon
  <2> QED
    BY <2>3, <2>4
<1> QED
  BY <1>2, <1>3, <1>a DEF IoNoSocket, IoReadEnds, IoReadFails, IoWriteEnds, IoWriteFails, IoLost,
     kernel, shared

(* ... and the sockets it accepts and removes.                             *)
LEMMA OwedTable ==
  ASSUME TableInv, PollInv, OwedInv, NEW fd \in Fd, Owed(fd)', IoAccept \/ IoClose \/ IoForget
  PROVE  StillReported(fd)
<1>0. PollType /\ None \notin Conn /\ net \in [Sock -> Net] /\ backlog \in Seq(Peer) /\ Conn \subseteq Sock
  BY SockAssumption DEF PollInv, TableInv, TypeInv, Sock
<1>1. CASE IoAccept
  <2>1. /\ sendq' = sendq /\ ready \subseteq ready' /\ UNCHANGED <<io, wk, net>>
    BY <1>0, <1>1, AcceptChanges DEF IoAccept
  <2>2. fd # NewFd
    <3>1. SUFFICES ASSUME fd = NewFd PROVE FALSE
      OBVIOUS
    <3>2. Head(backlog) \in Sock /\ sendq[Head(backlog)] # 0
      <4>1. Head(backlog) \in Sock /\ sockets'[fd] = Head(backlog)
        BY <1>0, <1>1, <3>1, AcceptChanges
      <4>2. sendq'[sockets'[fd]] > 0
        BY DEF Owed
      <4> QED
        BY ONLY <2>1, <4>1, <4>2, SMTT(30)
    <3>3. PICK g \in Fd : file[g] = Head(backlog)
      BY <3>2 DEF PollInv, QueuedInv
    <3>4. 1 \in 1 .. Len(backlog) /\ Head(backlog) = backlog[1]
      BY <1>0, <1>1 DEF IoAccept, IoAccepts
    <3> QED
      BY <3>3, <3>4 DEF TableInv, BacklogInv
  <2>3. sockets'[fd] = sockets[fd] /\ interest'[fd] = interest[fd]
    BY <1>0, <1>1, <2>2, AcceptChanges, ZenonT(30)
  <2>4. Owed(fd)
    BY <2>1, <2>3 DEF Owed
  <2> QED
    BY <2>1, <2>3, <2>4, OwedSame
<1>2. CASE IoClose
  <2>1. sockets' = sockets /\ sockets[fd] \in Sock /\ sockets[fd] # sockets[io.fd]
    <3>1. /\ sockets' = sockets /\ sendq'[sockets[io.fd]] = 0
      BY <1>0, <1>2, CloseChanges, ZenonT(30)
    <3>2. sockets'[fd] \in Conn /\ sendq'[sockets'[fd]] > 0
      BY DEF Owed
    <3> QED
      BY ONLY <1>0, <3>1, <3>2
  <2>2. Owed(fd)
    BY <1>0, <1>2, <2>1, CloseChanges DEF Owed
  <2>3. file[fd] = sockets[fd]
    BY <2>2, OwedOpen
  <2>4. sockets[fd] \notin Range(backlog)
    <3>1. DOMAIN backlog = 1 .. Len(backlog)
      BY <1>0
    <3> QED
      BY <2>3, <3>1 DEF TableInv, BacklogInv, Range
  <2>5. net'[sockets[fd]] = net[sockets[fd]]
    BY <1>2, <2>1, <2>4 DEF IoClose, IoSocket
  <2>6. ready' = ready \ {io.fd} /\ io.fd # fd
    BY <1>2, <2>1 DEF IoClose
  <2> QED
    BY <1>0, <1>2, <2>1, <2>2, <2>5, <2>6, CloseChanges, OwedSame, ZenonT(30)
<1>3. CASE IoForget
  <2>1. fd # io.fd /\ sockets'[fd] = sockets[fd]
    BY <1>0, <1>3, ForgetChanges DEF Owed
  <2>2. Owed(fd)
    BY <1>3, <2>1, ForgetChanges DEF Owed
  <2> QED
    BY <1>3, <2>1, <2>2, ForgetChanges, OwedSame
<1> QED
  BY <1>1, <1>2, <1>3

(* What the worker does.                                                   *)
LEMMA OwedWorker ==
  ASSUME TableInv, PollInv, OwedInv, NEW fd \in Fd, Owed(fd)', Worker \/ WkTimeout \/ Lua
  PROVE  StillReported(fd)
<1>0. PollType /\ FoundInv /\ None \notin Sock /\ net \in [Sock -> Net] /\ Conn \subseteq Sock /\ wk \in WkState
  BY SockAssumption DEF PollInv, TableInv, TypeInv, Sock
<1>a. ASSUME UNCHANGED <<interest, ready, sockets, sendq, io>>,
             Owed(fd) => net'[sockets[fd]].room = net[sockets[fd]].room,
             wk.pc = "pollout" => wk'.pc = wk.pc /\ wk'.fd = wk.fd
      PROVE  StillReported(fd)
  <2>1. Owed(fd)
    BY <1>a DEF Owed
  <2> QED
    BY <1>a, <2>1, OwedSame, ZenonT(30) DEF Asking
<1>1. CASE WkWait \/ WkHandle \/ WkDrained \/ WkLuaReturns
  BY <1>1, <1>a DEF WkWait, WkHandle, WkDrained, WkLuaReturns, InLua, WkStep, kernel, shared
<1>2. CASE WkPush
  <2>1. CASE sockets[fd] = wk.sock /\ wk'.pc = "pollout" /\ wk'.fd = wk.fd
    <3>1. sockets[wk.fd] = wk.sock /\ file[wk.fd] = wk.sock /\ wk.fd \in Fd /\ wk.sock \in Sock /\ wk.sock \notin freed
      BY <1>0, <1>2, PushChanges
    <3>2. file[fd] = wk.sock
      BY <1>0, <2>1, <3>1 DEF TableInv, EntryInv, FoundInv
    <3>3. fd = wk.fd
      BY <1>0, <3>1, <3>2 DEF TableInv, FileInv
    <3> QED
      BY <2>1, <3>3 DEF StillReported, Asking
  <2>2. CASE ~(sockets[fd] = wk.sock /\ wk'.pc = "pollout" /\ wk'.fd = wk.fd)
    <3>1. Owed(fd)
      BY <1>0, <1>2, <2>2, PushChanges, Zenon DEF Owed
    <3> QED
      BY <1>0, <1>2, <3>1, PushChanges, OwedSame, Zenon DEF Asking
  <2> QED
    BY <2>1, <2>2
<1>3. CASE WkPollout
  <2>1. Owed(fd)
    BY <1>0, <1>3, PolloutChanges, Zenon DEF Owed
  <2>2. CASE fd = wk.fd
    <3>1. interest'[fd] = {"in", "out"} /\ fd \in ready'
      BY <1>0, <1>3, <2>1, <2>2, OwedOpen, PolloutChanges
    <3> QED
      BY <3>1, ZenonT(30) DEF StillReported, Reported
  <2>3. CASE fd # wk.fd
    <3>1. ~Asking(fd)
      BY <2>3 DEF Asking
    <3> QED
      BY <1>0, <1>3, <2>1, <2>3, <3>1, PolloutChanges, OwedSame, Zenon
  <2> QED
    BY <2>2, <2>3
<1>4. CASE WkOpened
  <2>1. wk.sock \in Sock /\ net' = [net EXCEPT ![wk.sock].state = "open"]
    BY <1>4 DEF WkOpened, TableInv, OpeningInv, Opening, Sock, Conn
  <2>2. \A s \in Sock : net'[s].room = net[s].room
    BY <1>0, <2>1 DEF Net
  <2> QED
    BY <1>0, <1>4, <1>a, <2>2 DEF WkOpened, WkStep, shared, Owed
<1>5. CASE WkOpenFails
  <2>1. wk.sock \in Sock /\ net' = [net EXCEPT ![wk.sock].state = "gone"]
    BY <1>5 DEF WkOpenFails, TableInv, OpeningInv, Opening, Sock, Conn
  <2>2. \A s \in Sock : net'[s].room = net[s].room
    BY <1>0, <2>1 DEF Net
  <2> QED
    BY <1>0, <1>5, <1>a, <2>2 DEF WkOpenFails, WkStep, Owed
<1>6. CASE WkAdd
  <2>1. sockets[fd] # None
    BY <1>0, <1>6, AddChanges DEF Owed
  <2>2. Owed(fd) /\ fd # wk.fd
    BY <1>0, <1>6, <2>1, AddChanges DEF Owed
  <2> QED
    BY <1>0, <1>6, <2>2, AddChanges, OwedSame, ZenonT(30) DEF Asking
<1>7. CASE WkStore
  <2>1. fd # wk.fd
    <3>1. SUFFICES ASSUME fd = wk.fd PROVE FALSE
      OBVIOUS
    <3>2. wk.sock \in Sock /\ sendq[wk.sock] # 0 /\ \A f \in Fd : sockets[f] # wk.sock
      BY <1>0, <1>7, <3>1, StoreChanges, SMTT(30) DEF Owed, PollType, SendqType
    <3> QED
      BY <3>2 DEF PollInv, QueuedInv
  <2>2. Owed(fd)
    BY <1>7, <2>1, StoreChanges DEF Owed
  <2> QED
    BY <1>7, <2>1, <2>2, StoreChanges, OwedSame, ZenonT(30) DEF Asking
<1>8. ASSUME NEW f \in Fd, Response(f) PROVE StillReported(fd)
  BY <1>8, <1>a DEF Response, InLua, WkStep, kernel, shared
<1>9. ASSUME NEW f \in Fd, CloseSocket(f) PROVE StillReported(fd)
  <2>1. ready \subseteq ready' /\ UNCHANGED <<interest, net, sockets, sendq, io, wk>>
    BY <1>9, ZenonT(30) DEF CloseSocket, Edge, WkStep, shared
  <2>2. Owed(fd)
    BY <2>1 DEF Owed
  <2> QED
    BY <2>1, <2>2, OwedSame
<1>10. ASSUME NEW s \in Client \cup {Listener}, NewSocket(s) PROVE StillReported(fd)
  BY <1>10, <1>a, NewSocketChanges, Zenon
<1> QED
  BY <1>1, <1>2, <1>3, <1>4, <1>5, <1>6, <1>7, <1>8, <1>9, <1>10
     DEF Worker, WkTimeout, WkWoken, Lua

-----------------------------------------------------------------------------
(* The inductive invariant.                                                *)
LEMMA OwedKept == ASSUME TableInv, PollInv, OwedInv, [Next]_vars PROVE OwedInv'
<1> SUFFICES ASSUME NEW fd \in Fd, Owed(fd)' PROVE StillReported(fd)
  BY DEF OwedInv, StillReported
<1>1. CASE Remote
  BY <1>1, OwedRemote
<1>2. CASE Io
  BY <1>2, OwedBatch, OwedEvent, OwedTable DEF Io
<1>3. CASE Worker \/ WkTimeout \/ Lua
  BY <1>3, OwedWorker
<1>4. CASE Fault \/ AlarmKills \/ AssertSocketFails \/ UNCHANGED vars
  <2>1. UNCHANGED <<interest, ready, net, sockets, sendq, io, wk>>
    BY <1>4, ZenonT(30) DEF Fault, AlarmKills, AssertSocketFails, AssertQueueFails, AssertSlotFails,
         FreedUsed, Fails, vars, kernel, shared
  <2>2. Owed(fd)
    BY <2>1 DEF Owed
  <2> QED
    BY <2>1, <2>2, OwedSame, Zenon
<1> QED
  BY <1>1, <1>2, <1>3, <1>4 DEF Next

LEMMA PollInvariant == Spec => [](PollInv /\ OwedInv)
<1>1. Init => PollInv /\ OwedInv
  <2> SUFFICES ASSUME Init PROVE PollInv /\ OwedInv
    OBVIOUS
  <2>1. PollType
    BY SizeAssumption DEF Init, Fresh, PollType, SendqType, RoomType
  <2>2. QueuedInv /\ InterestInv /\ FoundInv /\ BatchInv
    BY DEF Init, QueuedInv, InterestInv, FoundInv, BatchInv
  <2>3. OwedInv
    BY SockAssumption DEF Init, OwedInv, Owed, Sock
  <2> QED
    BY <2>1, <2>2, <2>3 DEF PollInv
<1>2. TableInv /\ PollInv /\ OwedInv /\ [Next]_vars => (PollInv /\ OwedInv)'
  BY PollTypeKept, QueuedKept, InterestKept, FoundKept, BatchKept, OwedKept DEF PollInv
<1> QED
  BY <1>1, <1>2, TableInvariant, PTL DEF Spec

(* A response that slam_io_response has queued is never left behind: its   *)
(* descriptor waits for room, is on epoll's ready list, is in the batch of *)
(* the IO thread, or the worker is about to report it.                     *)
THEOREM NoForgottenResponseHolds == Spec => []NoForgottenResponse
<1>1. OwedInv => NoForgottenResponse
  BY DEF OwedInv, NoForgottenResponse, Owed, Asking, Reported
<1> QED
  BY <1>1, PollInvariant, PTL

=============================================================================
