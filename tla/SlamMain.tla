------------------------------ MODULE SlamMain ------------------------------
(***************************************************************************)
(* The processes of a slam server and how they start and stop: slam_main.c *)
(* (master and workers), slam_signal.c, the loops of slam_runnable_run and *)
(* slam_io_thread_run with their looks at halt, and the order in which     *)
(* slam_main_exit takes a worker process apart while its IO thread runs.   *)
(*                                                                         *)
(* A signal to a process interrupts one of its threads, whichever the      *)
(* kernel picks; epoll_wait then returns with EINTR.                       *)
(***************************************************************************)
EXTENDS Naturals, FiniteSets

CONSTANTS Worker        \* the worker processes, -w on the command line

ASSUME WorkerAssumption == Worker # {} /\ IsFiniteSet(Worker)

VARIABLES
  master,     \* where the master is
  mhalt,      \* halt of the master
  wk,         \* where the main thread of each worker process is
  io,         \* where its IO thread is
  halt,       \* its halt
  reload,     \* its reload_entryfile
  wkready,    \* an event for the main thread's epoll_wait
  ioready,    \* an event for the IO thread's epoll_wait
  runnable    \* its runnable: "none", "live" or "freed"

vars == <<master, mhalt, wk, io, halt, reload, wkready, ioready, runnable>>

Init ==
  /\ master = "fork" /\ mhalt = FALSE
  /\ wk = [w \in Worker |-> "none"]
  /\ io = [w \in Worker |-> "none"]
  /\ halt = [w \in Worker |-> FALSE]
  /\ reload = [w \in Worker |-> FALSE]
  /\ wkready = [w \in Worker |-> FALSE]
  /\ ioready = [w \in Worker |-> FALSE]
  /\ runnable = [w \in Worker |-> "none"]

-----------------------------------------------------------------------------
(* The master.                                                             *)

Running == {w \in Worker : wk[w] \notin {"none", "zombie", "reaped"}}

MasterGoes(from, to) ==
  /\ master = from
  /\ master' = to
  /\ UNCHANGED <<mhalt, io, halt, reload, wkready, ioready, runnable>>

\* slam_main_spawn_child_process: a child has what the master had at fork
Fork(w) ==
  /\ master = "fork" /\ wk[w] = "none"
  /\ wk' = [wk EXCEPT ![w] = "init"]
  /\ halt' = [halt EXCEPT ![w] = mhalt]
  /\ UNCHANGED <<master, mhalt, io, reload, wkready, ioready, runnable>>

Forked ==
  /\ \A w \in Worker : wk[w] # "none"
  /\ MasterGoes("fork", "run") /\ UNCHANGED wk

\* slam_main_run looks at halt only here
MasterEnter == ~mhalt /\ MasterGoes("run", "wait") /\ UNCHANGED wk

MasterLeave == mhalt /\ MasterGoes("run", "gone") /\ UNCHANGED wk

\* wait returns a child; an interrupted wait is called again
Reap(w) ==
  /\ wk[w] = "zombie"
  /\ MasterGoes("wait", "wait")
  /\ wk' = [wk EXCEPT ![w] = "reaped"]

\* mutant: ECHILD is taken for an interruption
WaitAgain ==
  /\ \A w \in Worker : wk[w] = "reaped"
  /\ MasterGoes("wait", "wait") /\ UNCHANGED wk

\* ECHILD
NoMoreChild ==
  /\ \A w \in Worker : wk[w] = "reaped"
  /\ MasterGoes("wait", "run") /\ UNCHANGED wk

Master ==
  \/ Forked \/ MasterEnter \/ MasterLeave \/ NoMoreChild
  \/ \E w \in Worker : Fork(w) \/ Reap(w)

-----------------------------------------------------------------------------
(* The main thread of a worker process.                                    *)

WkGoes(w, from, to) ==
  /\ wk[w] = from
  /\ wk' = [wk EXCEPT ![w] = to]
  /\ UNCHANGED <<master, mhalt, reload>>

\* slam_main_init_child_process: the runnable, the IO thread, ...
InitChild(w) ==
  /\ WkGoes(w, "init", "entry")
  /\ runnable' = [runnable EXCEPT ![w] = "live"]
  /\ io' = [io EXCEPT ![w] = "test"]
  /\ UNCHANGED <<halt, wkready, ioready>>

\* ... and the entry file, which may fail
EntryLoaded(w) ==
  \/ WkGoes(w, "entry", "test") /\ UNCHANGED <<io, halt, wkready, ioready, runnable>>
  \/ WkGoes(w, "entry", "exit") /\ UNCHANGED <<io, halt, wkready, ioready, runnable>>

\* mutant: a loop without end
SleepAlways(w) == "sleep"

SleepUnlessHalt(w) == IF halt[w] THEN "exit" ELSE "sleep"

\* while (!halt), then epoll_wait is called
LoopTest(w) ==
  /\ WkGoes(w, "test", SleepUnlessHalt(w))
  /\ UNCHANGED <<io, halt, wkready, ioready, runnable>>

Sleep(w) ==
  /\ WkGoes(w, "sleep", "wait")
  /\ UNCHANGED <<io, halt, wkready, ioready, runnable>>

Wake(w) ==
  /\ wkready[w]
  /\ WkGoes(w, "wait", "woken")
  /\ wkready' = [wkready EXCEPT ![w] = FALSE]
  /\ UNCHANGED <<io, halt, ioready, runnable>>

\* "after waking up, check the exit mark first", else messages and timers
Work(w) ==
  /\ WkGoes(w, "woken", IF halt[w] THEN "exit" ELSE "test")
  /\ UNCHANGED <<io, halt, wkready, ioready, runnable>>

Freed(w) == [runnable EXCEPT ![w] = "freed"]

\* slam_main_exit: the runnable is freed first, ...
FreeRunnable(w) ==
  /\ WkGoes(w, "exit", "wakeio")
  /\ halt' = [halt EXCEPT ![w] = TRUE]
  /\ runnable' = Freed(w)
  /\ UNCHANGED <<io, wkready, ioready>>

\* mutant: slam_io_thread_delete only joins
NotWoken(w) == ioready

Woken(w) == [ioready EXCEPT ![w] = TRUE]

\* ... then slam_io_thread_delete wakes the IO thread ...
WakeIo(w) ==
  /\ WkGoes(w, "wakeio", "join")
  /\ ioready' = Woken(w)
  /\ UNCHANGED <<io, halt, wkready, runnable>>

\* ... and waits for its end
Join(w) ==
  /\ io[w] = "ended"
  /\ WkGoes(w, "join", "zombie")
  /\ UNCHANGED <<io, halt, wkready, ioready, runnable>>

WorkerThread(w) ==
  \/ InitChild(w) \/ EntryLoaded(w) \/ LoopTest(w) \/ Sleep(w) \/ Wake(w) \/ Work(w)
  \/ FreeRunnable(w) \/ WakeIo(w) \/ Join(w)

-----------------------------------------------------------------------------
(* The IO thread.                                                          *)

IoGoes(w, from, to) ==
  /\ io[w] = from
  /\ io' = [io EXCEPT ![w] = to]
  /\ UNCHANGED <<master, mhalt, wk, halt, reload, runnable>>

IoTest(w) ==
  /\ IoGoes(w, "test", IF halt[w] THEN "ended" ELSE "wait")
  /\ UNCHANGED <<wkready, ioready>>

IoWake(w) ==
  /\ ioready[w]
  /\ IoGoes(w, "wait", "woken")
  /\ ioready' = [ioready EXCEPT ![w] = FALSE]
  /\ UNCHANGED wkready

\* mutant: the mark is not looked at after waking up
BatchAlways(w) == "batch"

BatchUnlessHalt(w) == IF halt[w] THEN "test" ELSE "batch"

IoWoken(w) == IoGoes(w, "woken", BatchUnlessHalt(w)) /\ UNCHANGED <<wkready, ioready>>

\* the batch ends with slam_runnable_wakeup when there are messages
IoBatch(w) ==
  /\ IoGoes(w, "batch", "test")
  /\ \/ wkready' = [wkready EXCEPT ![w] = TRUE]
     \/ UNCHANGED wkready
  /\ UNCHANGED ioready

\* slam_runnable_wakeup of a runnable that has been freed may end the process
IoCrash(w) ==
  /\ io[w] = "batch" /\ runnable[w] = "freed"
  /\ wk' = [wk EXCEPT ![w] = "zombie"]
  /\ io' = [io EXCEPT ![w] = "ended"]
  /\ UNCHANGED <<master, mhalt, halt, reload, wkready, ioready, runnable>>

IoThread(w) == IoTest(w) \/ IoWake(w) \/ IoWoken(w) \/ IoBatch(w)

-----------------------------------------------------------------------------
(* Signals and traffic.                                                    *)

Interrupted(place, w) == [place EXCEPT ![w] = IF place[w] = "wait" THEN "woken" ELSE @]

\* slam_signal_handler in a worker process: SIGINT, SIGTERM, SIGQUIT set halt
\* and SIGHUP reload_entryfile
Signal(w, sig) ==
  /\ w \in Running
  /\ halt' = [halt EXCEPT ![w] = @ \/ sig = "term"]
  /\ reload' = [reload EXCEPT ![w] = @ \/ sig = "hup"]
  /\ \/ wk' = Interrupted(wk, w) /\ UNCHANGED io
     \/ io' = Interrupted(io, w) /\ UNCHANGED wk
  /\ UNCHANGED <<master, mhalt, wkready, ioready, runnable>>

SignalMaster ==
  /\ master # "gone" /\ ~mhalt
  /\ mhalt' = TRUE
  /\ UNCHANGED <<master, wk, io, halt, reload, wkready, ioready, runnable>>

\* something arrives on a socket
Traffic(w) ==
  /\ io[w] \notin {"none", "ended"} /\ ~ioready[w]
  /\ ioready' = [ioready EXCEPT ![w] = TRUE]
  /\ UNCHANGED <<master, mhalt, wk, io, halt, reload, wkready, runnable>>

\* a timer of the worker is due
Timer(w) ==
  /\ wk[w] = "wait" /\ ~wkready[w]
  /\ wkready' = [wkready EXCEPT ![w] = TRUE]
  /\ UNCHANGED <<master, mhalt, wk, io, halt, reload, ioready, runnable>>

Outside ==
  \/ SignalMaster
  \/ \E w \in Worker : Traffic(w) \/ Timer(w)
  \/ \E w \in Worker, sig \in {"term", "hup"} : Signal(w, sig)

Done == master = "gone" /\ Running = {} /\ UNCHANGED vars

Next ==
  \/ Master \/ Outside \/ Done
  \/ \E w \in Worker : WorkerThread(w) \/ IoThread(w) \/ IoCrash(w)

\* Every thread is scheduled; no signal, traffic or timer need ever come.
Spec ==
  /\ Init /\ [][Next]_vars
  /\ WF_vars(Master)
  /\ \A w \in Worker : WF_vars(WorkerThread(w)) /\ WF_vars(IoThread(w))

-----------------------------------------------------------------------------
(* Properties.                                                             *)

\* Where the threads are; the runnable lives from init_child to exit.
TypeOK ==
  /\ master \in {"fork", "run", "wait", "gone"} /\ mhalt \in BOOLEAN
  /\ wk \in [Worker -> {"none", "init", "entry", "test", "sleep", "wait", "woken",
                        "exit", "wakeio", "join", "zombie", "reaped"}]
  /\ io \in [Worker -> {"none", "test", "wait", "woken", "batch", "ended"}]
  /\ halt \in [Worker -> BOOLEAN] /\ reload \in [Worker -> BOOLEAN]
  /\ wkready \in [Worker -> BOOLEAN] /\ ioready \in [Worker -> BOOLEAN]
  /\ runnable \in [Worker -> {"none", "live", "freed"}]
  /\ \A w \in Worker :
       /\ runnable[w] = "none" <=> wk[w] \in {"none", "init"}
       /\ runnable[w] = "freed" <=> wk[w] \in {"wakeio", "join", "zombie", "reaped"}

\* The IO thread can meet a runnable that slam_main_exit has freed only in the
\* batch it was working on when halt was set: it starts no batch afterwards.
NoBatchAfterHalt ==
  [][\A w \in Worker : io[w] # "batch" /\ io'[w] = "batch" => runnable[w] = "live"]_vars

\* Once the main thread is in slam_main_exit the process ends: the IO thread
\* cannot sleep through the wakeup, whatever it is doing when it comes.
ExitCompletes == \A w \in Worker : wk[w] = "exit" ~> wk[w] = "reaped" \/ mhalt

\* A worker that is told to stop while it handles messages, or while it sleeps
\* and its main thread takes the signal, ends.
AwakeWorkerStops ==
  \A w \in Worker :
    (halt[w] /\ wk[w] \in {"entry", "test", "woken"}) ~> wk[w] \in {"zombie", "reaped"}

\* A master that is told to stop ends when its workers have ended.
MasterStops ==
  (mhalt /\ master # "fork" /\ Running = {}) ~> master = "gone"

\* "exit": a worker that gets SIGINT, SIGTERM or SIGQUIT exits.
TermExits == \A w \in Worker : (halt[w] /\ w \in Running) ~> w \notin Running
=============================================================================
