--------------------------- MODULE SlamTimerList ----------------------------
(***************************************************************************)
(* slam_timer_list.c and the loop of slam_runnable.c that drives it.       *)
(*                                                                         *)
(* The worker thread alternates between sleeping in epoll_wait for at most *)
(* the interval slam_timer_list_min_interval returns, running the Lua      *)
(* handlers of the messages that arrived, and firing the expired timers.   *)
(* Lua handlers and timer callbacks create and remove timers.  The clock   *)
(* advances between any two steps.                                         *)
(*                                                                         *)
(* The list is modelled with its links.  A timer node is identified by its *)
(* ref, the key under which luaL_ref keeps its closure; refs are reused    *)
(* after luaL_unref.                                                       *)
(***************************************************************************)
EXTENDS Integers, Sequences, SequencesExt, FiniteSets

CONSTANTS Ref,          \* keys of the Lua registry, bounds the live timers
          Null,         \* a null pointer
          Interval,     \* intervals, in milliseconds, timers are created with
          MaxTime       \* bound: the last instant of the clock

ASSUME IntervalAssumption == Interval \subseteq Nat
ASSUME RefAssumption == IsFiniteSet(Ref) /\ Null \notin Ref

VARIABLES
  now,              \* slam_milliseconds()
  list,             \* [head, next, prev]: timer_head_node and the links
  node,             \* [interval, expire_time, forever] of each allocated node
  alloc,            \* the nodes malloc has given out and free not taken back
  registry,         \* the refs that hold a closure in the Lua registry
  pc,               \* where the worker is
  timeout,          \* what min_interval returned, -1 for none
  deadline,         \* when epoll_wait times out, -1 for never
  nowtime,          \* the instant slam_timer_list_run works with
  current,          \* the node whose callback is running
  halt

timers == <<list, node, alloc, registry>>
vars == <<now, timers, pc, timeout, deadline, nowtime, current, halt>>

-----------------------------------------------------------------------------
(* The links.                                                              *)

\* the list up to some node, and one node more unless it ends there
Longer(l) ==
  [chain \in Seq(Ref) |->
     LET r == IF chain = << >> THEN l.head ELSE l.next[Last(chain)]
     IN  IF r = Null THEN chain ELSE Append(chain, r)]

\* The nodes that the head and the next links lead to.  There is one step more than
\* there are nodes, so that a cycle shows.
Chain(l) ==
  LET chain[k \in 0 .. Cardinality(Ref) + 1] ==
        IF k = 0 THEN << >> ELSE Longer(l)[chain[k - 1]]
  IN  chain[Cardinality(Ref) + 1]

\* mutant: the prev link of the node the new one is put before is forgotten
LinkBeforeStalePrev(l, r, n) ==
  [head |-> IF n = l.head THEN r ELSE l.head,
   next |-> [m \in Ref |-> IF m = r THEN n
                           ELSE IF m = l.prev[n] THEN r ELSE l.next[m]],
   prev |-> [l.prev EXCEPT ![r] = l.prev[n]]]

LinkBefore(l, r, n) ==
  [head |-> IF n = l.head THEN r ELSE l.head,
   next |-> [m \in Ref |-> IF m = r THEN n
                           ELSE IF m = l.prev[n] THEN r ELSE l.next[m]],
   prev |-> [l.prev EXCEPT ![r] = l.prev[n], ![n] = r]]

LinkLast(l, r, n) ==
  [head |-> l.head,
   next |-> [l.next EXCEPT ![n] = r, ![r] = Null],
   prev |-> [l.prev EXCEPT ![r] = n]]

LinkOnly(l, r) ==
  [head |-> r, next |-> [l.next EXCEPT ![r] = Null],
               prev |-> [l.prev EXCEPT ![r] = Null]]

\* mutant: the list is pushed to at the back without looking for the place
ListAddBack(l, nodes, r) ==
  IF l.head = Null THEN LinkOnly(l, r) ELSE LinkLast(l, r, Last(Chain(l)))

\* slam_timer_list_add: before the first node that expires later, else last.
ListAdd(l, nodes, r) ==
  LET chain == Chain(l)
      at == SelectInSeq(chain, LAMBDA n : nodes[r].expire_time < nodes[n].expire_time)
  IN  IF l.head = Null THEN LinkOnly(l, r)
      ELSE IF at # 0 THEN LinkBefore(l, r, chain[at])
      ELSE LinkLast(l, r, Last(chain))

\* slam_timer_list_remove_by_node: the removed node keeps its own links.
ListRemove(l, r) ==
  IF l.head = r
  THEN [head |-> l.next[r],
        next |-> l.next,
        prev |-> [n \in Ref |-> IF n = l.next[r] THEN Null ELSE l.prev[n]]]
  ELSE [head |-> l.head,
        next |-> [l.next EXCEPT ![l.prev[r]] = l.next[r]],
        prev |-> [n \in Ref |-> IF n = l.next[r] THEN l.prev[r] ELSE l.prev[n]]]

-----------------------------------------------------------------------------
Blank == [interval |-> 0, expire_time |-> 0, forever |-> FALSE]

\* free(timer_node): its fields and links are gone
FreeNode(nodes, r) == [nodes EXCEPT ![r] = Blank]
FreeLinks(l, r) == [l EXCEPT !.next[r] = Null, !.prev[r] = Null]

Init ==
  /\ now = 0
  /\ list = [head |-> Null, next |-> [r \in Ref |-> Null], prev |-> [r \in Ref |-> Null]]
  /\ node = [r \in Ref |-> Blank]
  /\ alloc = {}
  /\ registry = {}
  /\ pc = "entry"       \* the entry file runs first and may create timers
  /\ timeout = -1
  /\ deadline = -1
  /\ nowtime = 0
  /\ current = Null
  /\ halt = FALSE

Tick ==
  /\ now < MaxTime
  /\ now' = now + 1
  /\ UNCHANGED <<timers, pc, timeout, deadline, nowtime, current, halt>>

\* SIGINT, SIGTERM or SIGQUIT
Halt ==
  /\ ~halt
  /\ halt' = TRUE
  /\ UNCHANGED <<now, timers, pc, timeout, deadline, nowtime, current>>

-----------------------------------------------------------------------------
(* What Lua may call from the entry file, a message handler, a timer        *)
(* callback or the stop event slam_runnable_delete triggers.               *)

InLua == pc \in {"entry", "message", "callback", "leave"}

\* cc.newtimer
NewTimer(r, interval, forever) ==
  /\ InLua
  /\ r \notin registry
  /\ registry' = registry \cup {r}
  /\ alloc' = alloc \cup {r}
  /\ node' = [node EXCEPT ![r] = [interval |-> interval,
                                  expire_time |-> now + interval,
                                  forever |-> forever]]
  /\ list' = ListAdd(list, node', r)
  /\ UNCHANGED <<now, pc, timeout, deadline, nowtime, current, halt>>

\* cc.removetimer: a ref that slam_timer_list_find does not find is only
\* logged, which is also what happens to the timer whose callback is running.
RemoveTimer(r) ==
  /\ InLua
  /\ r \in Range(Chain(list))
  /\ registry' = registry \ {r}
  /\ list' = FreeLinks(ListRemove(list, r), r)
  /\ node' = FreeNode(node, r)
  /\ alloc' = alloc \ {r}
  /\ UNCHANGED <<now, pc, timeout, deadline, nowtime, current, halt>>

-----------------------------------------------------------------------------
(* slam_runnable_run.                                                      *)

\* slam_timer_list_min_interval
MinInterval ==
  IF list.head # Null /\ node[list.head].expire_time > now
  THEN node[list.head].expire_time - now
  ELSE -1

\* slam_runnable_load_entryfile has returned
EntryDone ==
  /\ pc = "entry"
  /\ pc' = "top"
  /\ UNCHANGED <<now, timers, timeout, deadline, nowtime, current, halt>>

LoopTop ==
  /\ pc = "top"
  /\ ~halt
  /\ timeout' = MinInterval
  /\ pc' = "sleep"
  /\ UNCHANGED <<now, timers, deadline, nowtime, current, halt>>

\* epoll_wait starts to count when it is called
EpollWait ==
  /\ pc = "sleep"
  /\ deadline' = IF timeout = -1 THEN -1 ELSE now + timeout
  /\ timeout' = -1
  /\ pc' = "wait"
  /\ UNCHANGED <<now, timers, nowtime, current, halt>>

Woken ==
  /\ pc = "wait"
  /\ deadline' = -1
  /\ pc' = IF halt THEN "leave" ELSE "message"
  /\ UNCHANGED <<now, timers, timeout, nowtime, current, halt>>

WakeByTimeout == deadline # -1 /\ now >= deadline /\ Woken

\* the IO thread has queued a message, or a signal interrupted the wait
WakeByEvent == Woken

\* slam_runnable_do_message has drained the queue; slam_timer_list_run starts
MessagesDone ==
  /\ pc = "message"
  /\ nowtime' = now
  /\ pc' = "fire"
  /\ UNCHANGED <<now, timers, timeout, deadline, current, halt>>

Expired == list.head # Null /\ node[list.head].expire_time <= nowtime

\* mutant: slam_lua_event_timer releases the closure it calls
ReleasedByCall == registry \ {list.head}

\* slam_lua_event_timer calls the closure and leaves it in the registry
KeptByCall == registry

FireHead ==
  /\ pc = "fire"
  /\ Expired
  /\ current' = list.head
  /\ list' = ListRemove(list, list.head)
  /\ registry' = KeptByCall
  /\ pc' = "callback"
  /\ UNCHANGED <<now, node, alloc, timeout, deadline, nowtime, halt>>

\* mutant: a forever timer expires again at once
RearmedLate(r) == [node[r] EXCEPT !.expire_time = nowtime]

Rearmed(r) == [node[r] EXCEPT !.expire_time = nowtime + node[r].interval]

\* mutant: a one-shot timer is not freed
FreedNever == {}

\* slam_timer_delete of a one-shot timer; its closure stays in the registry
Freed == {current}

CallbackDone ==
  /\ pc = "callback"
  /\ \/ /\ node[current].forever
        /\ node' = [node EXCEPT ![current] = Rearmed(current)]
        /\ list' = ListAdd(list, node', current)
        /\ UNCHANGED alloc
     \/ /\ ~node[current].forever
        /\ alloc' = alloc \ Freed
        /\ node' = FreeNode(node, current)
        /\ list' = FreeLinks(list, current)
  /\ current' = Null
  /\ pc' = "fire"
  /\ UNCHANGED <<now, registry, timeout, deadline, nowtime, halt>>

FireDone ==
  /\ pc = "fire"
  /\ ~Expired
  /\ nowtime' = 0
  /\ pc' = "top"
  /\ UNCHANGED <<now, timers, timeout, deadline, current, halt>>

LeaveLoop ==
  /\ pc = "top"
  /\ halt
  /\ pc' = "leave"
  /\ UNCHANGED <<now, timers, timeout, deadline, nowtime, current, halt>>

\* slam_runnable_delete: the Lua state is closed and slam_timer_list_delete
\* frees every node
Leave ==
  /\ pc = "leave"
  /\ alloc' = alloc \ Range(Chain(list))
  /\ registry' = {}
  /\ pc' = "stopped"
  /\ UNCHANGED <<now, list, node, timeout, deadline, nowtime, current, halt>>

-----------------------------------------------------------------------------
Lua ==
  \/ \E r \in Ref, i \in Interval, f \in BOOLEAN : NewTimer(r, i, f)
  \/ \E r \in Ref : RemoveTimer(r)

\* The steps the worker takes by itself, without waiting for anyone.
Loop ==
  \/ EntryDone \/ LoopTop \/ EpollWait \/ WakeByTimeout
  \/ MessagesDone \/ FireHead \/ CallbackDone \/ FireDone \/ LeaveLoop \/ Leave

Stopped == pc = "stopped" /\ UNCHANGED vars

Next == Loop \/ Lua \/ WakeByEvent \/ Tick \/ Halt \/ Stopped

\* The scheduler runs the worker and time passes; nothing guarantees that a
\* message or a signal arrives.
Spec == Init /\ [][Next]_vars /\ WF_vars(Loop) /\ WF_vars(Tick)

-----------------------------------------------------------------------------
(* Properties.                                                             *)

Node == [interval : Interval \cup {0}, expire_time : Nat, forever : BOOLEAN]

\* The links form one doubly linked list: following next from the head ends,
\* visits no node twice, and prev leads back, although remove_by_node leaves
\* stale links in the nodes it takes out and add puts some of them back.
DoublyLinked ==
  LET chain == Chain(list)
  IN  /\ Len(chain) <= Cardinality(Ref)
      /\ IsInjective(chain)
      /\ chain # << >> => list.prev[chain[1]] = Null
      /\ \A i \in 2 .. Len(chain) : list.prev[chain[i]] = chain[i - 1]

\* The list is ordered by expire_time, so the head is the next timer to fire,
\* whatever timers the callbacks add and remove while the list is being run.
Ordered ==
  \A i, j \in 1 .. Len(Chain(list)) :
     i < j => node[Chain(list)[i]].expire_time <= node[Chain(list)[j]].expire_time

\* Every allocated node is in the list or is the one whose callback is
\* running, and those are allocated: nothing leaks and nothing freed is used.
NoDanglingNode ==
  alloc = IF pc = "stopped" THEN {}
          ELSE Range(Chain(list)) \cup {r \in {current} : r # Null}

\* Every timer that can fire has its closure in the registry, under a ref no
\* other timer uses.
ClosureHeld == pc # "stopped" => alloc \subseteq registry

\* A timer that has expired when the worker starts on its messages fires in
\* that round, or is removed by a handler first: no later timer hides it.
DueTimerFires ==
  \A r \in Ref :
     (pc = "message" /\ r \in Range(Chain(list)) /\ node[r].expire_time <= now)
       ~> (current = r \/ r \notin alloc)

\* slam_timer_list_run ends: with positive intervals a callback cannot make
\* the run go round for ever, because what it adds expires after nowtime.
RunEnds == pc = "fire" ~> pc \in {"top", "stopped"}

\* min_interval returns -1, and the worker sleeps without a timeout, only
\* when there is no timer.  The code also does so when the head has expired.
SleepForeverOnlyIdle == pc = "wait" /\ deadline = -1 => list.head = Null
=============================================================================
