--------------------------- MODULE SlamMainProof ---------------------------
(***************************************************************************)
(* For any number of worker processes: the runnable of a worker lives from *)
(* init_child to exit, and its IO thread starts no batch once it is freed. *)
(***************************************************************************)
EXTENDS SlamMain, TLAPS

(* TypeOK does not say why the IO thread's look at halt is enough: halt is *)
(* set before the runnable is freed and never reset, and there is an IO    *)
(* thread only once there is a runnable.                                   *)
MainInv ==
  /\ TypeOK
  /\ \A w \in Worker :
       /\ runnable[w] = "freed" => halt[w]
       /\ io[w] = "none" <=> wk[w] \in {"none", "init"}

(* Initially no process exists.                                            *)
LEMMA InitMainInv == Init => MainInv
<1> SUFFICES ASSUME Init PROVE MainInv
  OBVIOUS
<1>1. /\ master \in {"fork", "run", "wait", "gone"} /\ mhalt \in BOOLEAN
      /\ halt \in [Worker -> BOOLEAN] /\ reload \in [Worker -> BOOLEAN]
      /\ wkready \in [Worker -> BOOLEAN] /\ ioready \in [Worker -> BOOLEAN]
  BY DEF Init
<1>2. /\ wk \in [Worker -> {"none", "init", "entry", "test", "sleep", "wait", "woken",
                            "exit", "wakeio", "join", "zombie", "reaped"}]
      /\ io \in [Worker -> {"none", "test", "wait", "woken", "batch", "ended"}]
      /\ runnable \in [Worker -> {"none", "live", "freed"}]
  BY DEF Init
<1>3. \A w \in Worker : wk[w] = "none" /\ io[w] = "none" /\ runnable[w] = "none"
  BY DEF Init
<1> QED
  BY <1>1, <1>2, <1>3 DEF MainInv, TypeOK

(* slam_main.c: no step of the master touches a process that runs.         *)
LEMMA MasterKeeps == MainInv /\ Master => MainInv'
<1> SUFFICES ASSUME MainInv, Master PROVE MainInv'
  OBVIOUS
<1>1. CASE Forked \/ MasterEnter \/ MasterLeave \/ NoMoreChild
  BY <1>1 DEF MainInv, TypeOK, Forked, MasterEnter, MasterLeave, NoMoreChild, MasterGoes
<1>2. ASSUME NEW w \in Worker, Fork(w) PROVE MainInv'
  BY <1>2 DEF MainInv, TypeOK, Fork
<1>3. ASSUME NEW w \in Worker, Reap(w) PROVE MainInv'
  BY <1>3 DEF MainInv, TypeOK, Reap, MasterGoes
<1> QED
  BY <1>1, <1>2, <1>3 DEF Master

(* slam_main_exit sets halt before it frees the runnable.                  *)
LEMMA WorkerKeeps == ASSUME NEW w \in Worker, MainInv, WorkerThread(w) PROVE MainInv'
<1>1. CASE InitChild(w)
  BY <1>1 DEF MainInv, TypeOK, InitChild, WkGoes
<1>2. CASE EntryLoaded(w)
  BY <1>2 DEF MainInv, TypeOK, EntryLoaded, WkGoes
<1>3. CASE LoopTest(w)
  BY <1>3 DEF MainInv, TypeOK, LoopTest, SleepUnlessHalt, WkGoes
<1>4. CASE Sleep(w)
  BY <1>4 DEF MainInv, TypeOK, Sleep, WkGoes
<1>5. CASE Wake(w)
  BY <1>5 DEF MainInv, TypeOK, Wake, WkGoes
<1>6. CASE Work(w)
  BY <1>6 DEF MainInv, TypeOK, Work, WkGoes
<1>7. CASE FreeRunnable(w)
  BY <1>7 DEF MainInv, TypeOK, FreeRunnable, Freed, WkGoes
<1>8. CASE WakeIo(w)
  BY <1>8 DEF MainInv, TypeOK, WakeIo, Woken, WkGoes
<1>9. CASE Join(w)
  BY <1>9 DEF MainInv, TypeOK, Join, WkGoes
<1> QED
  BY <1>1, <1>2, <1>3, <1>4, <1>5, <1>6, <1>7, <1>8, <1>9 DEF WorkerThread

(* slam_io_thread_run only moves itself and wakes the worker.              *)
LEMMA IoKeeps ==
  ASSUME NEW w \in Worker, MainInv, IoThread(w) \/ IoCrash(w) PROVE MainInv'
<1>1. CASE IoTest(w)
  BY <1>1 DEF MainInv, TypeOK, IoTest, IoGoes
<1>2. CASE IoWake(w)
  BY <1>2 DEF MainInv, TypeOK, IoWake, IoGoes
<1>3. CASE IoWoken(w)
  BY <1>3 DEF MainInv, TypeOK, IoWoken, BatchUnlessHalt, IoGoes
<1>4. CASE IoBatch(w)
  <2>1. wkready' \in [Worker -> BOOLEAN]
    <3>1. CASE wkready' = [wkready EXCEPT ![w] = TRUE]
      BY <3>1 DEF MainInv, TypeOK
    <3>2. CASE wkready' = wkready
      BY <3>2 DEF MainInv, TypeOK
    <3> QED
      BY <1>4, <3>1, <3>2 DEF IoBatch
  <2>2. io[w] = "batch" /\ io' = [io EXCEPT ![w] = "test"]
    BY <1>4 DEF IoBatch, IoGoes
  <2>3. UNCHANGED <<master, mhalt, wk, halt, reload, runnable, ioready>>
    BY <1>4 DEF IoBatch, IoGoes
  <2> QED
    BY <2>1, <2>2, <2>3 DEF MainInv, TypeOK
<1>5. CASE IoCrash(w)
  BY <1>5 DEF MainInv, TypeOK, IoCrash
<1> QED
  BY <1>1, <1>2, <1>3, <1>4, <1>5 DEF IoThread

(* slam_signal_handler may set halt at any time and never resets it.       *)
LEMMA OutsideKeeps == MainInv /\ Outside => MainInv'
<1> SUFFICES ASSUME MainInv, Outside PROVE MainInv'
  OBVIOUS
<1>1. CASE SignalMaster
  BY <1>1 DEF MainInv, TypeOK, SignalMaster
<1>2. ASSUME NEW w \in Worker, Traffic(w) PROVE MainInv'
  BY <1>2 DEF MainInv, TypeOK, Traffic
<1>3. ASSUME NEW w \in Worker, Timer(w) PROVE MainInv'
  BY <1>3 DEF MainInv, TypeOK, Timer
<1>4. ASSUME NEW w \in Worker, NEW sig \in {"term", "hup"}, Signal(w, sig) PROVE MainInv'
  BY <1>4 DEF MainInv, TypeOK, Signal, Interrupted, Running
<1> QED
  BY <1>1, <1>2, <1>3, <1>4 DEF Outside

(* Every step keeps the invariant.                                         *)
LEMMA NextKeeps == MainInv /\ [Next]_vars => MainInv'
<1> SUFFICES ASSUME MainInv, [Next]_vars PROVE MainInv'
  OBVIOUS
<1>1. CASE UNCHANGED vars
  BY <1>1 DEF MainInv, TypeOK, vars
<1> QED
  BY <1>1, MasterKeeps, OutsideKeeps, WorkerKeeps, IoKeeps DEF Next, Done

(* A batch begins only with a look at halt, which finds it not set.        *)
LEMMA BatchBegins ==
  MainInv /\ [Next]_vars =>
    \A w \in Worker : io[w] # "batch" /\ io'[w] = "batch" => runnable[w] = "live"
<1> SUFFICES ASSUME MainInv, [Next]_vars, NEW w \in Worker, io[w] # "batch", io'[w] = "batch"
             PROVE  runnable[w] = "live"
  OBVIOUS
<1>1. io[w] = "woken" /\ ~halt[w]
  <2>1. CASE UNCHANGED vars
    BY <2>1 DEF vars
  <2>2. CASE Master
    <3>1. CASE Forked \/ MasterEnter \/ MasterLeave \/ NoMoreChild
      BY <3>1 DEF Forked, MasterEnter, MasterLeave, NoMoreChild, MasterGoes
    <3>2. ASSUME NEW v \in Worker, Fork(v) \/ Reap(v) PROVE io' = io
      BY <3>2 DEF Fork, Reap, MasterGoes
    <3> QED
      BY <2>2, <3>1, <3>2 DEF Master
  <2>3. CASE Outside
    <3>1. CASE SignalMaster
      BY <3>1 DEF SignalMaster
    <3>2. ASSUME NEW v \in Worker, Traffic(v) \/ Timer(v) PROVE io' = io
      BY <3>2 DEF Traffic, Timer
    <3>3. ASSUME NEW v \in Worker, NEW sig \in {"term", "hup"}, Signal(v, sig) PROVE FALSE
      BY <3>3 DEF Signal, Interrupted, MainInv, TypeOK
    <3> QED
      BY <2>3, <3>1, <3>2, <3>3 DEF Outside
  <2>4. ASSUME NEW v \in Worker, WorkerThread(v) PROVE FALSE
    <3>1. CASE InitChild(v)
      BY <3>1 DEF InitChild, MainInv, TypeOK
    <3>2. CASE EntryLoaded(v) \/ LoopTest(v) \/ Sleep(v) \/ Wake(v) \/ Work(v)
      BY <3>2 DEF EntryLoaded, LoopTest, Sleep, Wake, Work
    <3>3. CASE FreeRunnable(v) \/ WakeIo(v) \/ Join(v)
      BY <3>3 DEF FreeRunnable, WakeIo, Join
    <3> QED
      BY <2>4, <3>1, <3>2, <3>3 DEF WorkerThread
  <2>5. ASSUME NEW v \in Worker, IoThread(v) \/ IoCrash(v) PROVE io[w] = "woken" /\ ~halt[w]
    <3>1. CASE IoWoken(v)
      BY <3>1 DEF IoWoken, IoGoes, BatchUnlessHalt, MainInv, TypeOK
    <3>2. CASE IoTest(v) \/ IoWake(v)
      BY <3>2 DEF IoTest, IoWake, IoGoes, MainInv, TypeOK
    <3>3. CASE IoBatch(v) \/ IoCrash(v)
      BY <3>3 DEF IoBatch, IoCrash, IoGoes, MainInv, TypeOK
    <3> QED
      BY <2>5, <3>1, <3>2, <3>3 DEF IoThread
  <2> QED
    BY <2>1, <2>2, <2>3, <2>4, <2>5 DEF Next, Done
<1> QED
  BY <1>1 DEF MainInv, TypeOK

-----------------------------------------------------------------------------
(* For any number of workers the threads are where the code can be, and a  *)
(* runnable exists exactly from slam_main_init_child_process to            *)
(* slam_main_exit.                                                         *)
THEOREM MainTypeCorrect == Spec => []TypeOK
<1>1. MainInv => TypeOK
  BY DEF MainInv
<1> QED
  BY <1>1, InitMainInv, NextKeeps, PTL DEF Spec

(* For any number of workers the IO thread of a process begins no batch    *)
(* after slam_main_exit has freed the runnable that the batch's            *)
(* slam_runnable_wakeup would use.                                         *)
THEOREM NoBatchAfterHaltHolds == Spec => NoBatchAfterHalt
<1>1. MainInv /\ [Next]_vars =>
        [\A w \in Worker : io[w] # "batch" /\ io'[w] = "batch" => runnable[w] = "live"]_vars
  BY BatchBegins
<1> QED
  BY <1>1, InitMainInv, NextKeeps, PTL DEF Spec, NoBatchAfterHalt
=============================================================================
