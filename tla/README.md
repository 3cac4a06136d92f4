# slam: specifications, model checking and proofs

slam is a game server framework in C. A master process forks worker processes;
each worker runs Lua in its main thread and all socket traffic in a second
thread, the IO thread. This directory holds TLA+ modules of that machinery,
the TLC models that check them on small instances, and TLAPS proofs that hold
for every instance. Definitions keep the names of the C functions and fields
they stand for; `PROJECT.json` lists, definition by definition, the source lines
they model. Paths below are relative to `src/src/` unless they start with
`src/`.

## The system

| part | source | model |
|---|---|---|
| message queue: ring buffer between two threads, no lock | `io/slam_message_queue.c` | `SlamMessageQueue`, abstractly `SlamFifo` |
| timers and the loop that sleeps and fires them | `slam_timer_list.c`, `slam_runnable.c` | `SlamTimerList` |
| sockets: messages to bytes and back | `io/slam_socket.c`, `io/slam_message.c` | `SlamSocket` |
| IO thread, socket table, epoll, and the socket calls of Lua | `io/slam_io_thread.c`, `io/slam_socket.c`, `io/slam_poll.c`, `slam_runnable.c`, `slam_lua_func.c`, `slam_lua_event.c` | `SlamIo` |
| master, workers, signals, start and stop | `slam_main.c`, `slam_signal.c`, `slam_runnable.c` | `SlamMain` |
| protocol registry, Lua/protobuf codec, calls into Lua | `slam_protocol.c`, `MessageBuilder/`, `slam_lua_event.c`, `slam_lua_func.c` | `SlamProtocol` over `SlamCodec` |
| Lua state and values | `slam_lua.c`, `slam_lua_value.c` | in part, in `SlamProtocol` |
| byte buffer | `slam_byte_buffer.c` | `SlamByteBuffer`, abstractly `SlamByteStream` |
| database binding | `slam_lua_db.c`, `db/slam_db.c` | `SlamDb` |
| locks and conditions | `io/slam_spinlock.c`, `io/slam_thread_cond.c` | no: nothing calls them |
| logging, utilities, process title | `slam_log.c`, `slam_utils.c` | no: I/O without state |
| headers of the MySQL client library | `lib/mysql-5.6.37/` | no: not the program's code |
| the game in Lua, and example scripts | `src/common/scripts/`, `scripts/` | no: the models let Lua make any call |

How the parts interact in a worker process:

    kernel --epoll--> IO thread --mq, wakeup--> worker thread --events--> Lua
      ^                 |  ^                          |                    |
      |                 |  +-- send queues, EPOLLOUT -+<---- response, close
      +--- send, recv --+         timer list <--------+<---- newtimer, removetimer

- The IO thread accepts, reads and writes, and pushes a message for every
  connection, package and loss to the receive queue `mq`. After a batch with
  messages it wakes the worker.
- The worker drains `mq`, calls Lua for each message, then fires the expired
  timers, then sleeps until a message or the next timer.
- Lua responds (the worker pushes to the send queue of a socket and makes epoll
  report the socket writable), closes a socket (`shutdown`, the IO thread
  destroys it later), opens sockets itself and creates and removes timers.
- A package is decoded into a Lua table before the handler that `cc.bindmsg` bound
  to its id is called; `cc.response` encodes a table the same way. Both use the one
  message that is cached for the id.
- Lua reaches a MySQL server by calls that block the worker. `insert` and `update`
  put their statement together in a byte buffer.
- Nothing that the two threads share has a lock: the queues, the table
  `io->sockets`, the descriptors of the process and the epoll instance.

## Modules

### SlamFifo

What a queue promises: a bounded FIFO in which an accepted message is handed
over once and in order, or freed when the queue is deleted. `Abort` is part of
the promise, but only once more messages were accepted than the queue holds at
a time. It is the abstraction of both the ring buffer and a whole connection.

### SlamMessageQueue

One producer thread, one consumer thread, one step per access to shared memory:
`PushBegin`, `PushFull`/`PushRoom`, `PushStore`, `PushPublish`, `PushCount`; `Front`,
`PopBegin`, and the two halves of `queue[rindex++]` in both orders
(`PopAdvanceFirst`/`PopLoadLast`, `PopLoadFirst`/`PopAdvanceLast`), since C leaves the
order of the load and the store of the index to the compiler. `Delete` frees
what is left, and `Abort` is a failing `ASSERT_QUEUE`. `pushed`, `delivered` and `freed`
are history variables. `peeked` is the message that `slam_socket_poll_write`
keeps from `front` to `pop_front`.

The model has sequentially consistent memory. On x86, where loads and stores
of this code are not reordered with those of their own kind, publishing the
slot before the index is enough; weaker memory is not modelled.

### SlamTimerList

The list with its `next` and `prev` links (`ListAdd`, `ListRemove`), the registry of
Lua closures, the nodes malloc has given out, the clock, and the loop of
`slam_runnable_run` as a program counter: `LoopTop` asks for the smallest
interval, `EpollWait` starts to sleep, `WakeByTimeout`/`WakeByEvent` end it,
`MessagesDone`, `FireHead`, `CallbackDone` and `FireDone` are
`slam_timer_list_run`. Lua may create and remove timers from the entry file, a
handler, a callback and the stop event, and the clock may advance between any
two steps.

### SlamSocket

One direction of one connection, byte by byte: `slam_socket_poll_write` cuts
messages where the kernel's buffer ends (`Send(n)`), `slam_socket_poll_read` reads
the length, then the body (`Recv(n)`, `ReadLen`, `ReadBody`, `Test`), each in pieces
of any size, driven by edge-triggered events. A length out of bounds and a full
receive queue end the connection (`Lose`).

### SlamIo

Both threads of a worker with the kernel between them: descriptors (`file`),
epoll's interest and ready list, the backlog of the listener, the connections
as their peers see them (`net`), and what the threads share (`sockets`, `freed`,
`sendq`, `mq`, `wakeup`). `io` and `wk` are the program counters and locals of the IO
thread and of the worker. The grain is one access to shared state: for
instance `slam_io_thread_remove_socket` is three steps (the descriptor is
closed, the table entry is reset, the loss is pushed), and
`slam_io_thread_add_socket` by the worker is two (epoll, then the table). Packages
are units here and the queues are FIFOs that abort after as many pops as they
have slots, which is what the other two modules establish.

Undefined behaviour and failing assertions stop the model with the reason in
`fault`: a queue assertion, an occupied table slot, a response on a freed socket,
the alarm of `slam_socket_connect`, no descriptor for a new socket.

`live` is what Lua believes: the connection behind each descriptor according to
the events it was given. `dropped` are connections of which an event did not fit
into `mq`.

### SlamMain

The master (`Fork`, `Reap`, `NoMoreChild`), and for each worker process the main
thread and the IO thread with every look they take at `halt`, in the order of
`slam_main_exit`: the runnable is freed, the IO thread is woken, then joined. A
signal interrupts whichever thread the kernel picks. Traffic and timers only
matter as something that wakes a thread. `IoCrash` is what may happen when the IO
thread uses the runnable that the main thread has freed.

### SlamByteStream and SlamByteBuffer

`SlamByteStream` is what the users of a byte buffer rely on: bytes come out once
and in order, without a limit on their number. `SlamByteBuffer` is the array of
`slam_byte_buffer.c` with `capacity`, `rlength` and `wlength`; `Reserved` is the growth
rule, `Grown` is `realloc` (what it adds is `Junk`), `Copied` is `memcpy`. A copy
beyond the array is the status `overrun`, a failing assertion the status `aborted`.

### SlamDb

`slam_lua_db.c` and `db/slam_db.c` over one connection, using the byte buffer.
`CcInsert` and `CcUpdate` begin a call, `NextField` is a round of the `lua_next` loop in
any order of the fields, `WritePiece` one `slam_byte_buffer_write`, `Execute` and
`Finish` the end. `NextThrows` is the error `lua_next` raises after `lua_tolstring` has
turned a numeric key into a string. `RealQuery` is the client library: the link
may be lost at any time (`LinkLost`), a statement may run although its answer is
lost, and a result nobody takes leaves the connection out of sync. Every word,
name and value of SQL is one byte of the buffer. `ClientUses` is any other user
of a byte buffer, so that each of its functions is called in every order.

### SlamCodec and SlamProtocol

`SlamCodec` has no state: the conversion of a Lua table to a protobuf message and
back (`EncodeDescriptor`, `DecodeDescriptor`), by the descriptor of the message, with
nested and repeated messages, integers that wrap at their width, and the order
in which `lua_next` visits an array with key 0. `Says` is the reference: when a
received table says what a sent one said, stated without encoding or decoding.

`SlamProtocol` is the worker thread around it: `LoadMsg`, `BindMsg`, `Respond` are the
calls of Lua; `Event`, `TimerFires`, `Decode` the calls into Lua, which `Return` ends,
with or without an error. `messages` is the cache of one message per id that
encoding and decoding share, `stack` the Lua stack, `left` counts what the code
leaves on it. A package travels over `net`, at the other end of which is the same
program with the same bindings, or some other program (`PeerSends`).

## Runs

`tlc -config <cfg> <module>`; states are distinct states found.

| run | config | shows | states |
|---|---|---|---|
| `message_queue` | `MCSlamMessageQueue.cfg` | order, no overwrite of an unread slot, delete frees the rest, front = popped, refinement of `SlamFifo` | 7.6 thousand |
| `timers` | `MCSlamTimerList.cfg` | links, order, no leak and no dangling node, closures held; a run of the list ends; a timer due at the start of a round fires in it | 0.3 million |
| `socket_stream` | `MCSlamSocket.cfg` | conservation of bytes, refinement of `SlamFifo` (whole messages in order), arrival | 52 thousand |
| `io_threads` | `MCSlamIo.cfg` | two peers: `NoLostWakeup`, `NoForgottenResponse`, `EventOrder`, `MisdirectedOnlyBeforeLost` | 1.2 million |
| `io_clients` | `MCSlamIoClient.cfg` | a peer and a connection Lua opens, where the worker allocates descriptors too: `TableIsOpen`, `SlotTakenOnlyWhileForgetting`, `NullMeansClosedOrOpening`, `FreedOnlyBeforeLost` | 0.7 million |
| `io_liveness` | `MCSlamIoLive.cfg` | messages are handled, packages read, responses sent, closed sockets destroyed | 82 thousand |
| `processes` | `MCSlamMain.cfg` | no batch begins after the runnable is freed, exit completes, an awake worker stops, the master stops | 3.7 thousand |
| `database` | `MCSlamDb.cfg` | the byte buffer's lengths and its refinement of `SlamByteStream`; whole statements, freed buffers, true means executed, `SET NAMES` lost only by a reconnect, out of sync only by `execute` | 93 thousand |
| `protocol` | `MCSlamProtocol.cfg` | Lua gets what was given, the Lua stack is accounted for, a response is handled or lost for a known reason | 0.65 million |

Bounds, and why they are enough for what is asked:

- Message queue: 3 slots, 6 pushes, 2 messages. The writer wraps and is ahead of
  the reader by every possible distance, and the reader reaches the end of the
  ring. The theorems remove the bound.
- Timers: 3 timers (insertion at the head, in the middle, at the end; refs reused
  while a callback runs), intervals 1 and 2, 3 milliseconds, in which a timer can
  fire, re-arm itself and fire again. Intervals are positive: with an interval
  of 0 a timer that re-arms itself keeps `slam_timer_list_run` busy, in the code
  as in the model, and `RunEnds` fails.
- Socket: a length of 2 bytes, messages of 3 (the minimum), 4 and 6 bytes (the
  first size the reader rejects), 4 bytes of kernel buffer, so every message
  can be cut in its length and in its body and two can share a buffer.
- IO: 2 descriptors for up to 3 sockets, so descriptors are reused; receive
  queue of 2 messages, send queue of 1, kernel room of 1, so both fill up; one
  package per peer (none in `io_clients`) and one response per Lua call.
- Processes: 1 worker. Workers share nothing but the master; with 2 workers the
  safety properties hold as well (0.9 million states), but the liveness graph is
  too large to check routinely.
- Database: chunks of 2 bytes and a first allocation of 4, so that a statement
  makes the buffer grow several times and by both branches of the growth rule;
  all records of up to two fields over the five kinds of value, and records
  with a numeric key; up to 6 bytes for the other user of a buffer.
- Protocol: two ids and two message types, so that a cached message is reused
  and a table decoded for one id is passed on under the other; integers of 3
  bits with a value that does not fit; ten tables, each with an odd value in
  some field and one that is longer than a package may be; two slots that
  earlier events have left on the Lua stack. `start` and `lost` stand for the four
  events without a message, as they differ in the number of arguments only.
  `cc.loadmsg` is called from the entry file.

The peers of `io_threads` are interchangeable; it has no liveness property.

Deadlock checking is off for the message queue, the socket, IO and database
models: they stop legitimately (deleted, aborted, or a peer that stays silent).

Fairness. The fairness assumptions say no more than that the operating
system schedules threads that can run (`WF` of the loop of a thread), that time
passes (`WF` of `Tick`) and that a fault that is due happens. Peers, signals,
traffic and Lua's calls are never fair. `WF` of a whole thread suffices because
each is sequential.

## What the code does not do

Runs with `expect: violation` check one statement of a comment or an assertion,
and TLC shows how the code departs from it.

| run | statement | what happens |
|---|---|---|
| `message_queue_assert` | `ASSERT_QUEUE`, "ring buffer" | `pop_front` never wraps `rindex`: after `maxsize` pops the next operation aborts |
| `timer_sleep` | "-1: no more timer" | `min_interval` is also -1 for a timer that is overdue; the worker then sleeps without a timeout |
| `main_term` | "exit" | a signal between the test of `halt` and `epoll_wait`, or taken by the IO thread, leaves the worker asleep |

Two more disagreements follow from single lines and need no run. The handler of
SIGHUP sets `reload_entryfile` ("reload script file & reload protocol",
`slam_signal.c:35`) and nothing reads it. `slam_socket_connect` installs a null
`sa_handler` for SIGALRM, which is the default action: the alarm ends the worker
instead of interrupting `connect` (`io/slam_socket.c:122`; `AlarmKills` in `SlamIo`).

The passing properties say what remains true beside these, and confine what can
go wrong to the place where it does:

- `slam_io_thread_remove_socket` closes the descriptor (`io/slam_io_thread.c:54`)
  before it resets the table entry (`:55`). The worker can get the descriptor in
  between, and then `assert(io->sockets[newsocket->fd] == nullptr)` (`:40`) fails.
  `SlotTakenOnlyWhileForgetting` shows that it fails nowhere else, `TableIsOpen` that
  the entry is stale only there.
- `slam_io_thread_add_socket` tells epoll of a socket (`:41`) before it stores it
  (`:44`); the IO thread drops an event in between as "already close" (`:78`).
  `NullMeansClosedOrOpening` shows that this is the only open socket it can miss.
- `slam_io_response` may use a socket that the IO thread frees meanwhile, and may
  queue a response on a newer connection with the same descriptor.
  `FreedOnlyBeforeLost` and `MisdirectedOnlyBeforeLost` show that both happen only
  while the message that tells Lua of the loss is on its way, or was dropped.
- `DueTimerFires` holds for every timer due when a round starts, although
  `timer_sleep` shows that the round may start late; `AwakeWorkerStops` is the part
  of `main_term` that holds.
- A response of which all fields have their defaults has no payload and is refused
  at the other end; one that is too long is sent and costs the connection
  (`ResponseHandled`). A table that was decoded has arrays from 0, and passing it
  on may move the first element to the end (`LuaGetsWhatWasGiven`).
- The tables of decoded messages, and a nil for each event without a handler, stay
  on the Lua stack until a timer fires (`StackAccounted`).
- A record with a numeric key loses the byte buffer of its `insert` or `update`
  (`BufferReleased`), and a boolean in a record writes nothing after its `=`
  (`StatementWhole`).

## Proofs

All proofs are checked by `tlapm`. They assume only the named assumptions of the
modules they are about (`ASSUME`), which the runs evaluate on their instances.

**`SlamMessageQueueProof`**, for every size of the queue and every set of messages.
The invariants of the run are not inductive: that `pop_front` returns the right
message needs what the slots hold, which needs where the indices are. `QueueInv`
adds

- `IndexInv`: `rindex` never wraps and so counts pops; `windex` is the slot of the
  next push, having wrapped at most once; at most `MaxSize - 1` messages are unread;
- `SlotInv`: slots from `rindex` to `windex` hold the unread messages;
- `ProducerInv`: after the test for a full queue there is room until the store is
  published, since the consumer only makes more;
- `ConsumerInv`: the claimed slot still holds the claimed message until it is
  loaded, since the ring keeps one slot unused;
- `DeleteInv`: what was freed follows what was delivered.

One lemma per action shows that it keeps `QueueInv`. From it follow
`TypeCorrect`, `FifoOrderHolds`, `NoUnreadOverwriteHolds`,
`DeleteFreesTheRestHolds`, `FrontIsPoppedHolds` and `QueueImplementsFifo`, the last by
showing that `Unread` is the rest of `pushed` after the pops and then matching
`PushPublish` with `Put`, the step that advances `rindex` with `Take`, `Delete` with
`Discard` and a failing assertion with `Abort`; all other steps stutter.

**`SlamMainProof`**, for any number of workers. `MainInv` adds to the types that `halt`
is set before the runnable is freed, and that an IO thread exists only once there
is a runnable. It gives `MainTypeCorrect` and the action property
`NoBatchAfterHaltHolds`.

**`SlamIoProof`**, for any number of connections and
descriptors, any queue sizes, and any interleaving of the two threads with the
peers. `TableIsOpen` is not inductive: whether an entry is stale depends on who
got the descriptor. `TableInv` adds

- `EntryInv`, `FileInv`: an entry is the socket behind its descriptor, but for the
  window of `remove_socket`; what is open is not freed, and open once;
- `OpeningInv`, `MissingInv`: what the worker opens is behind its descriptor and not
  in the table, and nothing else that is open is missing from it;
- `WindowInv`: in the window the descriptor is free or was given to the worker, so
  resetting the entry forgets nothing that another thread has stored;
- `FreshInv`, `BacklogInv`: a connection that does not exist yet is nowhere, and one
  that waits to be accepted waits once.

One lemma for the peers, one for each step of the IO thread and one for each step
of the worker shows that `TableInv` is kept. From it follow `TableIsOpenHolds`,
`NullMeansClosedOrOpeningHolds` and `SlotTakenOnlyWhileForgettingHolds`.
`NoLostWakeupHolds` needs `WakeInv`: what `mq` holds the worker has yet to look at
(`Draining`), was woken for, or will be woken for by the batch that the IO thread
is in.

The second half of the module proves `NoForgottenResponseHolds` from `PollInv` (only
open sockets of the table have messages to send, and epoll is asked about every one of them; the
batch is empty while the IO thread waits) and `OwedInv`: for a send queue with
messages the worker is about to ask for `EPOLLOUT`, or epoll is asked for it and
the edge is there, in the batch or in work, unless the kernel has no room.

**`SlamIoEvents`** extends it to what the worker and Lua are told. A response is
addressed by descriptor, so whether it can meet a freed socket or another
connection depends on every event between the table and Lua. `EventInv` is

- `ClosingInv`, `FreedInv`: the socket a response has found is freed only by the
  IO thread, which then reports the loss or has reported it;
- `HomeInv`: a connection has one descriptor in its life, wherever it is named (the
  table, an event, Lua), and none before it is opened;
- `KnownInv`, `MeantInv`: what Lua takes a descriptor for, and what an event says of
  it, is what the table holds or is corrected by a later loss event, or one
  was dropped;
- `OrderInv`: while nothing was dropped, running the events of `mq` in order from
  what Lua knows (`Takes`) gives every event of a peer's connection what it expects
  (`Accepts`), and at the end what the table holds (`Settled`);
- `ServerInv`: no connection of a peer is anywhere before the listener is open.

`FreedOnlyBeforeLostHolds`, `EventOrderHolds` and `MisdirectedOnlyBeforeLostHolds`
follow.

**`SlamSequences`** is about no component: it says what `Joined` gives when a
sequence gets one more element (`JoinedAppend`). `Joined` (in `SlamJoined`, which
`SlamSocket` and `SlamDb` extend) puts sequences one behind the other by a recursive
function, so that it exists and is unique for every length has to be shown first. Where an
induction is needed the proof takes the least number for which the claim fails
(`Least`, from the well-foundedness of `<`) and refutes it, because the induction rules
of the library cannot be instantiated by the provers.

**`SlamDbProof`** begins with the byte buffer, for every chunk size, every set of texts
and every sequence of calls. `BufferInv` is `LengthsHold` (`rlength <= wlength <= capacity`,
the array has `capacity` places, and below `wlength` there is no `Junk`) and that a
buffer that does not exist has no length. Lemmas on `Grown` and `Copied` show what a
piece of the array is after a `realloc` and a `memcpy`. `LengthsCorrect` is the
invariant; `BufferImplementsStream` matches each call with a step of `SlamByteStream`,
the content being the piece between the indices.

For all records, results and sizes follows what `slam_lua_db.c` does with it. `CallInv`
says what a call of Lua has still to write and to visit; with `BufferInv` it gives
`LengthsHoldInDb` and `DbImplementsStream`, the two results on the byte buffer for the
code that uses it, and `BufferReleasedHolds`. `NamesKeptHolds` and
`OutOfSyncOnlyByExecuteHolds` need no more than the type of the handle.
`TrueMeansExecutedHolds` needs `RunInv`, which says the same of the result that `insert`
and `update` have in their hands.

`StatementWholeHolds` needs `StatementInv`: the fields that `lua_next` has visited, in
some order `ks` without repetition, are those of the record that are not left
(`Visited`), and the content of the buffer followed by the words still to be written is
the statement for `ks` (`Underway`). Visiting a field adds its assignment to both
(`OneMoreField`, from `FlattenAppend`); a write moves a word from one to the other. At the
end nothing is left, so `ks` is an order of all fields, and the only NUL of the text is
its last word, so the C string is the statement whatever the array holds behind it.

`DbAssumption` says that the words of a statement and the names of fields are texts that
can be written. `NameAssumption`, that no name has a zero byte in it, is used for
`StatementWholeHolds` only: such a name would end the C string early.

**`SlamSocketProof`**, for all sizes of messages, queues and the kernel's buffer, and
however `send` and `recv` cut the stream: `SocketImplementsFifo` and
`StreamConservedHolds`. The bytes in the
kernel have no borders, so the invariant `Inv` says where each one belongs:

- `ReaderInv`: what the reader has is the beginning of the next message, in the
  right order, and `bufsize` is its length once the length field is read;
- `WireInv`: the first byte in the kernel (or, if there is none, the one that is sent
  next) is the one the reader waits for, and behind each byte comes the rest
  of its message and then the next message (`Follows`).

`SendRoad` and `RecvRoad` show how a `send` and a `recv` move this road, `LenIsLen` and
`WholeIsNext` that the reader takes the right length and hands over exactly the next
message. `WriteMessage` is then `Put`, a completed message is `Take`, giving the
connection up is `Discard`, and all other steps stutter. `StreamConserved` is inductive
with `Inv`: a `send` moves bytes from the message in work to the kernel, a `recv` from
there to the reader, and a completed message goes to the end of what was received,
where `FlattenAppend` says that its bytes follow the others.

**`SlamTimerListProof`**, for any finite set of timers (`RefAssumption`), any intervals and
any clock. `Chain` follows `next` from the head by a recursive function, so the proof
speaks of a `Path` instead: nodes without repetition, from the head to `NULL`, linked by
`next` and back by `prev`. `ChainIs` shows that `Chain` finds exactly the path, if there is
one. `AddKeeps`, `RemoveKeeps` and `FreeKeeps` show what the assignments of `add` and
`remove_by_node` make of a path, at the head, in the middle and at the end, although a
node that was taken out keeps its stale links. `TimerInv` says that the links are a path
in the order of `expire_time` (`Good`), that the node whose callback runs is out of it, and
that those are the allocated nodes, each with its closure; one lemma per action shows
that it is kept while callbacks add and remove timers. It gives `DoublyLinkedHolds`,
`OrderedHolds`, `NoDanglingNodeHolds` and `ClosureHeldHolds`.

All inductive invariants were checked with TLC on the instances of the runs before
they were proved.

Only model-checked:

- all liveness, which is out of the prover's reach;
- the codec and the protocol above it (`StackAccounted` and the properties of messages):
  the codec is recursive over nested messages (`RECURSIVE`), and the prover loses its
  SMT backend in every module that reaches such an operator.

## Not modelled

- The headers of the MySQL client library (`lib/mysql-5.6.37/`) are about 22
  of the 26 thousand lines of C and C++ in the repository. They declare a library
  whose behaviour `SlamDb` takes from how the code uses it.
- The game in Lua and the example scripts: rules and content, driven by data
  tables, that run to their end inside one call. The models let Lua make any call
  at any time instead.
- `io/slam_spinlock.c`, `io/slam_thread_cond.c`, `db/slam_db_conf.c`, `db/slam_db_table.c` and the getters of
  `slam_lua.c` that nothing calls.
- Failing `malloc`, `epoll_ctl` and `pipe`; socket options and addresses; command
  line, limits and daemon mode; the respawning of workers, which
  `SLAM_DEF_AUTO_RELOAD_CHILD` compiles out; the wire format of protobuf; log output.
- In `SlamProtocol` a package of another message type counts as bytes that do not
  parse; strings have no NUL in them; the walk of a directory by `cc.loadmsg` is
  any set of imported types.
- Single lines that concern no interleaving and that a reader of the code can see:
  `cc.newtimer` does not free its ctx when its arguments are wrong, and cuts a
  long timeout to an `int`; `cc.response` called in a coroutine encodes from the
  stack of the main Lua state; a NULL in a numeric column is passed to `atoi`
  (`Crashes` in `SlamDb` stops there).
