# Specifications of meta_world

`meta_world` is a C++ framework for game servers. `libsvr` is its base library
(network, timers, queues, logging, MySQL client), `common` the framework on top
of it (sessions, timers, application shell, HTTP, objects), `agentserver` the
gateway between clients and game servers, `dataserver` a database front end.
This directory holds TLA+ models of the parts whose correctness depends on the
order in which threads, callbacks and messages meet, the TLC runs that check
them, and proofs checked by TLAPS.

Paths below are relative to `src/`. `PROJECT.json` maps every definition to the
lines it stands for and lists the runs, the hazards with the properties that
guard them, and, for every property, a change of the code's model that breaks it.

1. [How the parts work together](#1-how-the-parts-work-together)
2. [Inventory](#2-inventory)
3. [Modules](#3-modules)
4. [Runs](#4-runs)
5. [Fairness](#5-fairness)
6. [Proofs](#6-proofs)
7. [What the code does that a reader may not expect](#7-what-the-code-does-that-a-reader-may-not-expect)
8. [What is not modelled](#8-what-is-not-modelled)
9. [Plan](#9-plan)

## 1. How the parts work together

A server process runs one **main thread**. In every turn of its loop
(`common/app/svr_app.hpp`) it runs the timers, `net_tcp_run`, the results of the
database threads and of the HTTP threads, then sleeps for a moment. Everything
the game code does happens in callbacks on that thread. Behind it there are

- one **IO thread** per `epoll_tcp_proc` (`libsvr/src/epoll_tcp.c`), joined to
  the main thread by two rings, `list_net_req` (main to IO) and `list_net_evt`
  (IO to main), and by the fields of every socket, which both threads read and
  write without a lock;
- N **db threads** (`libsvr/src/db_mysql.cpp`), joined to every thread that
  uses the database by a ring of commands and a ring of results each;
- the **log threads** and the **HTTP threads**, with the same scheme.

All the rings are `loop_cache`s with one producer and one consumer. The
handover is therefore always the same: push into a ring, look at flags or
counters the other side moves. What is hard is what happens at the edges of
that: rings that are full or empty, objects that one side frees while the other
may still name them, states that both sides change, and shut-down.

On the main thread itself, objects are chained by callbacks: a socket points to
an `ISession`, two of which lie inside a `CAgent`; a timer points to its
`ITimer`, several of which lie in the same `CAgent`. Objects are deleted inside
callbacks of other objects.

## 2. Inventory

| component | state | operations | what is hard | what makes it correct |
|---|---|---|---|---|
| **TCP layer** `libsvr/src/epoll_tcp.c` | per socket: state word, descriptor, send and receive ring, `send_req`/`send_ack`, byte counters, `need_send_active`, `need_recv_active`, two timers; the socket pool; two queues; the epoll set | connect, accept, send, close; `timer_send`, `timer_close`; nine kinds of events on main, eight of requests and four of epoll events on IO | two threads share a socket with one compare-and-swap between them; edge-triggered epoll; a slot is freed by main while IO may know it; either side may start the end | callbacks in order and none after the end; no reference to a freed slot; counters that mean what is read from them; data accounted for and moving; every socket returns |
| **Ring buffer** `libsvr/src/loop_cache.c` | head, tail, memory | push, pop, copy, read and write in place | a producer and a consumer without atomics; wrap-around; full against empty | it is a bounded queue |
| **Timer wheel** `libsvr/src/timer.c` | five wheels of lists, `last_tick`, the work list, infos | add, modify, delete, update | cascades at coinciding boundaries; 32-bit ticks that wrap; changes inside callbacks; being late | a callback at its tick, none lost |
| **Timer system** `common/timer/` | `ITimer` and the handle of an info | callers, delay calls, modify, delete, destroy | the manager frees an info silently and uses it again, the handle stays behind | only living timers are called, each through one info |
| **MySQL client** `libsvr/src/db_mysql.cpp` | per thread of the program and db thread: command ring, result ring, result cache; request counters of a connection | post, execute, deliver, stop, destroy a connection, free | rings of limited size in both directions; a shut-down that must empty them; counters of two kinds of writers | results in order, once; connections freed late enough; shut-down complete, and it ends |
| **Database system** `common/database/` | connections by name | start, TryStop, disconnect | the order of shut-down | as above, it is the caller of the MySQL client |
| **Sessions** `common/net/session.cpp` | `m_session`, send cache, receive cache, data check timer | connect, send, disconnect, callbacks | the cache in front of a full ring; a null or stale `m_session` inside callbacks | bytes in order; no dead socket kept |
| **Gateway** `agentserver/` | `CAgent`: two session states, two sessions, timers | front and back callbacks, CheckTerminate, CheckSession | two connections that end independently; the agent deletes itself in its timer | no callback into a deleted agent, every agent deleted in the end |
| **Data server** `dataserver/` | the `WorldServer` session: `m_session`, `m_state`; tables | connect, handshake, requests, reconnect in the end callback and in the timer of INIT | one session object for all connections, whose sockets end later than it forgets them; a pool with sockets that are waiting to be freed | one live connection to the world and no dead socket kept; connected again after failures; a stop ends |
| **Application shell** `common/app/svr_app.hpp` | `m_svr_state`, `m_stop_type`, the timer of OnState | init, run, asynchronous init and uninit, stop from the console thread | a stop that is asked for in any state, also before the first connection stands | every stop ends |
| **Logger** `libsvr/src/logger.cpp`, `common/log/` | per thread of the program and log thread: ring of commands, ring and cache of used ones; counters of a logger; lines for the print thread | log, flush, reset, destroy a logger, recycle, print, stop | loggers are freed by a log thread when counters say so; used commands go back to the thread that made them; two kinds of threads to stop | no freed logger or command used; at the stop everything written in order and printed; every call returns |
| **HTTP client** `common/http/` | request and answer queues, curl handles | request, answer, stop | answers after clean-up, requests left at the stop | each request answered once |
| **Lock-free queues** `libsvr/include/lock_free_queue.hpp` | `_head`, `_tail`, and a head and a tail in each node | push, pop of several threads | a compare-and-swap in one place, the data and its release in others | it is a queue; refused only with reason |
| **GUID system** `common/guid/` | second, 16-bit counter | make a GUID | overflow in a second, clock that goes back | no GUID twice |
| **Object tables** `common/object/` | arrays and indexes of objects | add, remove, iterate | removal while iterating | sequential, unit tests |
| **Message encoding** `libsvr/include/net_data*.hpp` | none | encode, decode | short buffers | sequential, unit tests |
| **Memory pools, trees, JSON, hashes, text, shared memory** `libsvr/src/` | memory | allocate, search, parse | pointer arithmetic | sequential, unit tests |
| **TCP layer on Windows, TLS, WebSocket** `libsvr/src/` | as the TCP layer; OpenSSL objects | | completion ports; OpenSSL | see section 8 |
| **Configuration, dumps, custom variables, state machine helper** `common/` | values | load, set, get | none | sequential |
| **Generated code, Lua, tools** | | | | generated or third-party |

## 3. Modules

| module | what it is | uses |
|---|---|---|
| `SessionLife` | abstract: what the TCP layer promises its user about one socket | |
| `EpollTcp` | the TCP layer: main thread, IO thread, kernel, peer, user | implements `SessionLife` |
| `EpollTcpProofs` | proofs | `EpollTcp` |
| `Fifo` | abstract: a bounded queue | |
| `LoopCache` | the ring buffer, two threads | implements `Fifo` |
| `LoopCacheProofs` | proofs | `LoopCache` |
| `TimerWheel` | the timer manager | |
| `TimerSystem` | `ITimer`s over it | extends `TimerWheel` |
| `TimerSystemProofs` | proofs | `TimerSystem` |
| `DbManager` | the MySQL client threads and their shut-down by the database system | |
| `DbManagerProofs` | proofs | `DbManager` |
| `Agent` | a gateway agent with its two sessions | sees sockets as `SessionLife` promises them |
| `AgentProofs` | proofs | `Agent` |
| `DataServer` | the data server: application shell, connection to the world, database as seen from it | sees sockets as `SessionLife` promises them, the database as `DbManager` |
| `DataServerProofs` | proofs | `DataServer` |
| `SharedFifo` | abstract: a bounded queue of several threads | |
| `LockFreeQueue` | the queue of several producers and consumers | implements `SharedFifo` |
| `LockFreeQueueProofs` | proofs | `LockFreeQueue` |
| `Logger` | threads that log, log threads, print thread, creator | |
| `LoggerProofs` | proofs | `Logger` |
| `MCDbManager`, `MCLogger`, `MCLockFreeQueue` | constants for TLC (which connection and logger is on which thread, what is asked of a logger, symmetry) | |

The layers rest on each other by their promises. `Fifo` is what the queues of
`EpollTcp` and `DbManager` are: a push or a pop is one step there because
`LoopCache` implements `Fifo`; so are those of `Logger`. `SessionLife` is the
sockets of `Agent` and `DataServer`. `DataServer` takes from `DbManager` that what
was posted before the stop is executed and what is posted later is not, and that
a thread which is stopped ends if its results fit into its ring (its `StopEnds`
with its `Crowded`).
`TimerSystem` says that callers may be destroyed anywhere, which is what lets
`Agent` delete its timers with itself.

### EpollTcp

| variable | in the code |
|---|---|
| `allocated` | slots taken from `socket_pool` |
| `sock[s]` | `state`, the descriptor, `try_close_send_count`, `need_req_close`; `timer` says which of `timer_send` and `timer_close` runs |
| `snd[s]` | `send_req`, `send_ack`, `data_need_send`, `data_has_send`, `need_send_active`, and how full `send_loop_cache` is |
| `rcv[s]` | `data_has_recv`, `need_recv_active`, and how full `recv_loop_cache` is |
| `reqQ`, `evtQ` | `list_net_req`, `list_net_evt` |
| `main`, `io` | where each thread is inside a handler that reads what the other writes, with its locals |
| `net[s]` | the kernel: descriptor in the epoll set, edges not yet reported, the peer, data in flight |
| `opened` | history, for the bound MaxOpen |

A handler is one action unless it reads or writes a field the other thread
touches in between; those are cut there. `net_tcp_send` is `NetTcpSend` (ring
and `data_need_send`), `SendDelayCheck` (the comparison with `data_has_send`)
and `SendRequest` (`send_req` against `send_ack`, `need_send_active`).
`_epoll_tcp_socket_on_send` is `OnSend`, `SendSome`, `SendAgain` and the rest of
`IoSend`; `_on_recv` is `OnRecv`, `RecvSome`, `RecvPushData` and the rest of `IoRecv`; the
DATA event is `EvtData`, `ParsePacket`, `ParseEnd`, since the user may call the
layer from `on_recv`. The user (`NetTcpConnect`, `NetTcpSend`,
`NetTcpCloseSession`) acts between events and inside `on_recv`, on sockets it
has been given and has not been told the end of. `EpollWait` takes any pending
edges, served in the order of the code. One unit of data is a chunk of bytes.
`send_req` and `send_ack` are compared for equality only and never differ by
more than two (`SendAckCounts`), so they are kept modulo 4.

### LoopCache

`head`, `tail`, `mem`, and the two threads `w` and `r` in the middle of a call.
A store or a load of one unit is one step, the publication of the index
another: `PushData`/`GetFree`, `Store`, `Publish` for the producer,
`CopyData`/`GetData`, `Load`, `Pop`/`Leave` for the consumer. `given` and
`taken` are what the last push and pop were about. The model has sequentially
consistent memory: the code has plain stores, and the reordering a weaker
machine or compiler might do to them is not modelled.

### TimerWheel and TimerSystem

`now` is the clock, `last` is `last_tick`, `info[i]` an info with its place
(a slot of a wheel, the work list, in no list, or free). `timer_update` is
`UpdateBegin`, then for each tick `TakeTick` (cascade and splice into the work
list), `Fire`/`Return`/`Discard` for each timer and `TickDone`, then
`UpdateEnd`; between `Fire` and `Return` the callback may do anything. The sizes
of the wheels and their number are constants. `TimerSystem` adds the `ITimer`s:
`Create`, `ModifyTimer`, `DelTimer`, `DestroyCaller`, and the self-deletion of a
delay caller at the end of its callback. `Owns(t)` is the code's test that an
info found by a handle still belongs to the timer that holds it.

### DbManager

`list` is the chain of `db_proc`s, to which a thread adds itself on first use;
`cmdQ`, `retQ`, `cache` are the rings and caches between a proc and a db
thread; `thr[t]` is a db thread with its place in `_db_proc_func`; `idx[p]` is
`cur_proc_idx`; `post[p]` a proc inside a post; `conn[c]` a connection with
`db_req`, `db_req_mt` and `db_ack`; `main` what the initialising thread does
about shut-down. The plain `db_req++` is a load and a store (`CountLoad`,
`CountStore`), the atomic one a step. `posted`, `done`, `before` are history.

### Agent

One `CAgent`: `agent` (does it exist), `state` (`m_front_state`,
`m_back_state`), `sess` (per end: `m_session`, send cache, data check timer),
`seen` (what `CheckSession` compares), `ending` (the terminate timer), `net`
(per end: the socket as `SessionLife` shows it, and what is in its send ring).
`down` becomes true where the code reads through a null `m_session`; the
process is gone and nothing follows. Units a session was given carry numbers,
counted from the next one to leave, so that order can be seen with small values.
Packets are `MsgLen` units, so that the ring can cut them.

### DataServer

| variable | in the code |
|---|---|
| `pc` | where the server thread is in `SvrApp::Run`; `join`: in the first `TryStop`, waiting for the db threads; `down`: the process has crashed |
| `svr`, `stop` | `m_svr_state`, `m_stop_type` |
| `caller` | `m_async_caller`: the timer that runs `OnState` |
| `session`, `state` | `ISession::m_session` and `m_state` of the one `WorldServer` |
| `sock` | the slots: which callbacks are still to come, the state word that IO moves |
| `db` | whether the db threads have been stopped; for each thread the commands and results on their way, and the commands posted too late |
| `hist` | what the properties except: refused handshakes, connections made while another was ending, a reconnection that found no slot |

The IO thread and the world are `Connected`, `Broken` and the packets. A
callback is one action, with what it calls: `Terminate` and `ConnectFail` are
`ISession::Terminate`/`Error` with `OnTerminate`/`OnError` and `ReConnect`.
`SetState` happens at once in the code; the states whose entry does something
are the actions `Initialize`, `InitDone`, `CheckStop`, `TryStop`. The first
`TryStop` stops the db threads and joins them; it goes on with `Joined`, which
needs the results of each thread to fit into its ring (`RingCap`), since nobody
takes them meanwhile. Of what is posted for a thread it is not seen how much is
still in its ring of commands, so a full ring (`PostRefused`, the answer is
DatabaseBusy) is one of the outcomes of a post whenever there could be one.

### LockFreeQueue

`tail` and `head` are `_tail` and `_head`; `node[i]` is a node with its `tail`,
`head` and data; `call[t]` is what the thread has loaded. A load, a
compare-and-swap and a store are a step each; `compare_exchange_weak` may fail
for no reason. The refinement puts the effect of a push and of a pop at its
swap: `Content` is the values between the indices, wherever they are by then.
`LockFreeLoopQueue<T, true, false>` and `<T, false, true>` do with a plain store
what the swap does when it is alone, so they are instances with one consumer or
one producer.

### Logger

`list` is the chain of `log_proc`s; `cmdQ`, `rcyQ`, `rcyCache` the rings and the
cache between a proc and a log thread; `cmd[k]` a `log_cmd`, an object that is
given back and used again; `post[p]` a proc inside a call, `log[l]` a
`file_logger` with `log_req`, `log_req_mt` and `log_ack`; `thr[t]` a log thread
with its place in a pass; `print[t]` how many lines `m_print_data_cache` holds;
`pr` the print thread; `main` the creator inside `destroy_file_logger` or
`uninit_logger_manager`. One visit of a proc is cut into `Pop`, `Do` and
`GiveBack`, since the poster looks at the counters and at `rcyQ` meanwhile.
That nobody is in a call on a logger when it is destroyed, or in any call when
the manager is taken down, is left to the caller, as in the code.

## 4. Runs

Every run ends without an error. Times are of a two-core machine.

| run | module, instance | shows |
|---|---|---|
| `session` | `EpollTcp`; 1 socket used twice, rings of 1, a unit out and a unit in per life, 1 close attempt; 380 k states | types; `NoDanglingSocket` and `NothingAfterTheEnd` under every interleaving of the threads and every way to end |
| `send` | `EpollTcp`, fair; 1 socket, ring of 2, 2 units out, delay threshold 2; 81 k states | `SendAckCounts`, `SendDataFlows`, `ClosedSocketsAreFreed`, and `ImplementsSessionLife`, the refinement with its liveness |
| `recv` | `EpollTcp`, fair; 1 socket, ring of 2, 3 units in; 25 k states | `RecvDataAccounted`, `RecvDataFlows` |
| `ring` | `LoopCache`; memory of 4, two kinds of data, pushes of up to 2 | types, `NeverRefused`, `ReadsContent`, `ImplementsFifo` |
| `timer_time` | `TimerSystem`; wheels of 4, 2, 2: 16 ticks in a turn; up to 2 late; 81 k states, 60 s | types, `OnTime`, `TimersCome` |
| `timer_owners` | `TimerSystem`; 2 timers over 3 infos | `OwnersKnow` |
| `db` | `MCDbManager`; 2 procs, 1 db thread, rings of 1, 4 commands; 68 k states, 75 s | `InOrder`, `NoDanglingConnection`; `CommandsExecuted`, `AnswersCome`, `StopEnds`, `DestroyEnds` |
| `db_threads` | `MCDbManager`; 2 procs, 2 db threads with a connection each, 2 commands; 910 k states, 50 s | types, `StopComplete` |
| `agent` | `Agent`, fair; packets of 2, rings of 1; 171 k states, 55 s | types, `NoDanglingPointer`, `InOrder`, `CacheHasTimer`, `AgentFreed` |
| `server` | `DataServer`, fair; 3 slots, 2 db threads with rings of 1, 2 failures, 2 requests; 234 k states, 30 s | `NoDanglingSession`, `InStep`, `OrphansCounted`, `StopEnds`, `WorksAgain` |
| `queue` | `MCLockFreeQueue`; 3 threads, 2 nodes, 2 values, 4 pushes; 720 k states, 36 s | `RefusedRightly`, `ImplementsSharedFifo` |
| `logger` | `MCLogger`; 2 procs, 1 log thread, rings of 1, 2 loggers, one of which is written to, flushed or reset: 2 such commands; 364 k states, 70 s | `NoDanglingLogger`, `StoppedWritten`, `MainReturns` |

### Bounds and why they are enough

- **EpollTcp.** Sockets do not interact but through the pool and the order of
  the queues, so what can go wrong inside one life shows with one socket; a
  second connection through the same slot (`MaxOpen` 2) is what a stale
  reference needs to be seen; two sockets at a time share only the queues. A
  ring of one unit is full after one and empty after one; the ring of two in
  `send` and `recv` allows partial transfers. `Delay` 2 with two units makes one
  unit stay below the threshold, which is the case where only `timer_send`
  helps. `MaxTry` 1 has both an attempt and the giving up.
- **LoopCache.** Memory of 4 holds 3 units; pushes of 2 wrap at every
  position, and two values tell an old unit from a new one.
- **TimerWheel.** Wheels of 4, 2 and 2 have one boundary of two levels and one
  of three, and the delays 0, 3, 4, 8, 15 lie on both sides of each; sixteen
  ticks wrap soon, and `MaxLag` 2 lets several ticks, a boundary
  among them, pass in one update. The real sizes only make the wheels longer.
- **DbManager.** A ring of one command is full at once. Four commands, of one
  proc or shared by two, put a result in the ring, one in the cache, one command
  in the hands of the thread and one in the command ring at the same time. Two
  procs are needed for the two counters and for a proc that reads nothing; two
  threads for the order of stopping (`db_threads`).
- **Agent.** Packets longer than the ring, and caches that hold one unit or more
  when another packet arrives: the ring takes all of what is left, a part or
  nothing of it.
- **DataServer.** Three slots are one more than two connections at once, so
  that both the orphans and a pool that is used up occur. Two failures (of the
  handshake, the connection or the connect) are a failure during the recovery
  from another. Two requests for two db threads with rings of one put one result
  in each ring, which lets the join pass with results to be taken afterwards, or
  one more in one of them than it holds.
- **LockFreeQueue.** Two nodes are wrapped around twice by four pushes; three
  threads let one stand still in the middle of a call while two others push and
  pop past it.
- **Logger.** A ring of one command is full after one. A logger is only freed
  once a write or a reset has opened its file, so two commands are needed for
  one to be late: one opens the file, the other is on its way when the counters
  are compared. The second logger is destroyed without having been used: its
  close and that of the first are what lets the creator find its ring full in
  each of its calls. A write that does not wait (`try`) is left out of the run:
  a flush does not wait either and a write writes. One log thread: of what is
  modelled, log threads share nothing but the print thread.

The types of `DataServer` are not an invariant of its run but a theorem
(`DataServerProofs!TypeCorrect`).

`CHECK_DEADLOCK FALSE` is set where the system may stop for good: a manager that
is freed, a shut-down that hangs (section 7), a deleted agent, a server that is
over, a thread that logs no more. `EpollTcp` and
the timers are checked for deadlock; `AllDone` is the state in which the bound
on connections is used up and everything has been freed.

## 5. Fairness

Nothing is ever assumed of a user, a client or a game server, and of a peer only
what `KernelDrain` says below.

- **EpollTcp** (`FairSpec`): the main thread calls `net_tcp_run` in every turn
  of its loop, hence weak fairness of `DoNetEvt`, `SendChecks` and, since timers
  are periodic, of `OnTimer(s)`. The IO thread waits at most 3 ms in
  `epoll_wait`, hence of `DoNetReq`, `DoEpollEvt`, `IoSend`, `IoRecv`. The
  kernel answers a connect, if only by a timeout (`PeerAnswer`), and goes on
  sending as long as the connection stands (`KernelDrain`). That is two things:
  TCP retransmits until it succeeds or resets the connection, and the peer goes
  on reading. The second is an assumption: a peer that keeps its window closed for
  ever and answers the probes makes nobody end the connection, and what waits in
  `send_loop_cache` is then never sent. Only what says that data is sent, `SendDataFlows`,
  needs it: without this fairness TLC refutes it, and still confirms
  `ClosedSocketsAreFreed`, thanks to the give-up, and the refinement of `SessionLife`.
- **TimerSystem**: `timer_update` goes on (its callbacks return) and the clock
  goes on.
- **DbManager**: the db threads and the posts that have begun go on; Main reads
  its results, takes part in the stop it has asked for and destroys what it
  has begun to destroy. The other procs may never read a result.
- **Agent** (`FairSpec`): the timers of the agent run, the TCP layer delivers the
  end of a connection that ends, and the result of a connect. A client that
  sends for ever and a server that reads for ever too slowly are allowed, and the
  properties name exactly this exception (`BackStays`, `FrontStays`).
- **DataServer** (`FairSpec`): the loop of `SvrApp::Run` goes on, hence its timer,
  the results of the database and the steps of start and stop. The db threads end
  if they can, which is `DbManager!StopEnds`. A connect is
  answered, the end of a socket is told and its slot freed: that is
  `SessionLife` with `ClosedSocketsAreFreed`. A standing connection and a world
  that answers handshakes are assumed only in so far as failures are bounded by
  `MaxFaults`; nobody has to stop the server.
- **Logger** (`Spec`): the log threads, the print thread and the calls that have
  begun go on.

## 6. Proofs

TLC checks instances; the theorems hold for all values of the constants that
satisfy the named assumption of the module. The assumptions say that constants
are numbers of the right sign and that null values are not elements, and besides:

- `LockFreeQueueAssumption`: the capacity is a power of two, which the mask
  `_capacityMask` needs (`lock_free_queue.hpp` rounds it up to one). The proofs
  use only that it is positive: the module has `% Cap` for the mask.
- `TimerWheelAssumption`: `Width(1) = TvrSize` and `Width(l) = TvnSize * Width(l - 1)`.
  That is what the power in `Width` means; the provers have no rules for `^`.
- `DbManagerAssumption`: the main thread is a thread, and every connection is
  on a db thread.
- `LoggerAssumption`: the creator is a thread that logs, every logger is on a log
  thread, and threads and loggers are finitely many (the proof counts those who
  have pushed and not yet counted).

| theorem | says |
|---|---|
| `EpollTcpProofs!TypeCorrect` | `Spec => []TypeOK` |
| `EpollTcpProofs!NoUseAfterFree` | `Spec => []NoDanglingSocket` |
| `EpollTcpProofs!EndIsLast` | `Spec => []NothingAfterTheEnd` |
| `EpollTcpProofs!AckCounts` | `Spec => []SendAckCounts` |
| `EpollTcpProofs!DataAccounted` | `Spec => []RecvDataAccounted` |
| `EpollTcpProofs!LivesAsPromised` | `Spec => Life!Init /\ [][Life!Next]_AllPhases` |
| `LoopCacheProofs!TypeCorrect` | `Spec => []TypeOK` |
| `LoopCacheProofs!NotRefused` | `Spec => []NeverRefused` |
| `LoopCacheProofs!ReadsRight` | `Spec => []ReadsContent` |
| `LoopCacheProofs!Refinement` | `Spec => ImplementsFifo` |
| `LockFreeQueueProofs!NoFalseRefusal` | `Spec => []RefusedRightly` |
| `LockFreeQueueProofs!Refinement` | `Spec => ImplementsSharedFifo` |
| `TimerSystemProofs!TypeCorrect` | `Spec => []TypeOK` |
| `TimerSystemProofs!CalledOnTime` | `Spec => []OnTime` |
| `TimerSystemProofs!OnlyLivingOwners` | `Spec => []OwnersKnow` |
| `DbManagerProofs!TypeCorrect` | `Spec => []TypeOK` |
| `DbManagerProofs!ResultsInOrder` | `Spec => []InOrder` |
| `DbManagerProofs!FreedIsUnused` | `Spec => []NoDanglingConnection` |
| `DbManagerProofs!NothingLeftByStop` | `Spec => []StopComplete` |
| `AgentProofs!TypeCorrect` | `Spec => []TypeOK` |
| `AgentProofs!NothingDangles` | `Spec => []NoDanglingPointer` |
| `AgentProofs!UnitsInOrder` | `Spec => []InOrder` |
| `AgentProofs!CachesAreSent` | `Spec => []CacheHasTimer` |
| `DataServerProofs!TypeCorrect` | `Spec => []TypeOK` |
| `DataServerProofs!SessionAlive` | `Spec => []NoDanglingSession` |
| `DataServerProofs!SessionInStep` | `Spec => []InStep` |
| `DataServerProofs!OrphansBounded` | `Spec => []OrphansCounted` |
| `LoggerProofs!LoggerSafe` | `Spec => []NoDanglingLogger` |
| `LoggerProofs!LoggerWritten` | `Spec => []StoppedWritten` |

So every invariant that a run checks is a theorem, and every refinement as far
as safety goes.

Every strengthened invariant below was checked by TLC on the runs of its module
before it was proved.

**EpollTcpProofs.** `TypeOK` is not inductive: a handler that is cut into
actions works on the head of its queue, and must find one. `Heads` says that
while `main` is inside a DATA event, or `io` inside a request, the queue is not
empty; `TypeOK` with `Heads` is inductive.

For the other theorems the invariant is `TypeOK`, where the two threads are
(`Shape`), and for every socket `SockInv`, which is what each thread may rely on
while the other one moves:

- `FreeUnknown`: nothing names a free slot. This is `NoDanglingSocket`; the
  rest is why it stays true.
- `Young`, `Unmet`: until it is established a socket has no events and no
  requests but the CONNECT or ACCEPT that makes it known, and IO has not met it.
- `EndsOnce`: the end is told once, by the request of `main` that is on its way,
  by the final event, or it has been told and `timer_close` runs; the three
  exclude each other.
- `ReadsAlive`: while IO reads, only `main` can have begun to end the session, so
  IO's compare-and-swap decides who queues the final event.
- `LetsGo`: CLOSE_SOCKET is the last request, and once it is served neither IO
  nor the epoll set knows the socket. `need_req_close` tells the two phases
  apart: a slot is freed only after it was cleared and `send_ack` caught up.
- `Acks`: `send_req` is `send_ack` plus the outstanding SEND, plus the outstanding
  CLOSE_SOCKET, modulo `AckMod`; there is at most one of each. So equality in
  `timer_close` says that none is left, also after a wrap-around.
- `EstablishFirst`: ESTABLISH is the first event.

Most steps touch one socket. A step is *calm* for a socket when it changes
nothing of it but queue entries of a harmless type; one lemma says that a calm
step keeps `SockInv`, and every handler's lemma then deals with its own socket
only. `LivesAsPromised` maps the steps to `SessionLife`: `ConnectMoves`,
`AcceptMoves`, `EstablishMoves`, `FinalMoves` and `FreeMoves` are its five moves,
everything else leaves every `Phase` alone. It needs the invariant: that ESTABLISH
is the first event and the final one the last is what forbids the moves
`SessionLife` does not have.

`DataAccounted` adds `DataInv` to the invariant. What the DATA events of a socket
announce is the number of pairs of an event and a unit in it (`Amount`), a
cardinality and not a sum, because a sum over a queue needs an induction. `AmountPushed`
and `AmountPopped` say what a push and a pop do to it; after a pop the events
have moved up by one place, hence the bijection there. `Balanced` is the
property for all states of a socket, with what makes it start right: until it is
established its ring is empty and nothing is unparsed. That no event is left from
the former use of the slot, and that IO does not read for a socket that has
ended, comes from `FreeUnknown`, `Young` and `ReadsAlive`. Where IO has read data
that it does not announce any more, the session has begun to end, which is why the
equation becomes an inequality there.

**LoopCacheProofs.** What each thread knows while the other one moves:
`Producing` (the room the producer found is still there, since the consumer
only makes more, and what it has stored lies behind the content), `Consuming` (the
units the consumer found are still there, since the producer only adds, and what
it has read is the content) and `Filled` (the cells of the content hold data).
With `TypeOK` these are inductive, and they imply both safety properties. For
the refinement, `Publish` is the `Enqueue` of `Fifo`, `Pop` its `Dequeue`, and
every other step leaves `Content` alone, `Store` because it writes outside it.
The arithmetic of wrap-around is in lemmas about `Wrap` and `Used`.

**LockFreeQueueProofs.** At any time the `Cap` nodes serve the `Cap` indices from
`_head` on, one each. `Window` says for each of them what the two numbers in its
node are: those of a pushed index (`Full`), where the head is only set when the
pusher has finished, or of one to come (`Empty`), where the tail is only set when the
former popper has finished. `PushKnows` and `PopKnows` say what a thread knows at
each place of a call: after its test, *if* the index it loaded is still the latest
one, the node is ready, which is what its compare-and-swap then decides; after its
swap the index is its own (`Alone`). The invariant needs that two indices of the
window are never on the same node, an argument about `% Cap` in the first lemmas.
The swap of a push is the `Enqueue` of `SharedFifo` and the swap of a pop its
`Dequeue`: the data a popper will read is determined at its swap, though the
pusher may store it later.

**TimerSystemProofs.** `OwnersKnow` excepts the info whose callback runs, which
may be about to be freed. So the invariant (`IInv` there) also says that a timer that
was destroyed knows no info (`Forgotten`), that an info is in no list only
while its callback runs (`Calling`), and that the info that is called still
belongs to its timer if it is going to be put back (`OwnerWaits`). Every change
of the wheels is of the form "some infos change their place", which is proved
once, so the proof does not depend on the number or the length of the wheels.
`TypeCorrect` adds the ranges, of which the one that takes an argument is that
`SlotFor` yields a slot that exists: the level is a cardinality of a subset of
`1 .. Levels - 1`, and the index a remainder by the size of that wheel.

`CalledOnTime` is the correctness of the wheels. Its invariant `InTime` says of
every info what its slot tells: in the first wheel (`Near`) that it expires within a
turn, at the tick that has its slot; in wheel `l` (`Far`) that the unit of
`Width(l - 1)` ticks in which it expires has not begun, or begins with the tick that
is next. So it is cascaded before `last_tick` passes the beginning of that unit
(`UnitBegins`: at that tick the cascade of wheel `l` runs and reaches its slot), and
what `_add_timer` then chooses is in time again (`SlotTimed`, from `LevelFits`: a
wheel is only chosen when the delay is at least one of its units). `Due` says that
the work list holds nothing else than infos of this tick. `busy` tells
the ticks that are worked on from the next one, which is where delay 0 in a callback
becomes a turn of tv1. That the widths grow is an induction over the wheels; since the
provers cannot use the induction theorems, `Least` derives from the
well-foundedness of finite subsets that a set of numbers has a least element, and
the induction looks for the least counterexample.

**DbManagerProofs.** `InOrder` is nearly inductive: a handler moves the head of
one sequence to the end of the next, and the concatenation
`done \o retQ \o cache \o cmd \o cmdQ` stays what was posted (the lemmas on `Cat`). The
other two theorems need the rest of the invariant. For freed connections it is
`Balance`: for every connection, what is counted in `req` and `reqMt` plus what is
posted and not yet counted is `ack` plus what is neither executed nor being
executed. So equal counters mean that nothing is waiting, provided that nobody is
between posting and counting, which `PostingOpen` gives once the connection is
closing; two kinds of writers and the lost update they must avoid are in
`PostingOpen` (only `main` stores `req`, and what it read is still there).
For the stop it is `LastPass`: once a db thread has seen `run` cleared it makes one
more pass over its posters, and those it has behind it are executed and
have an empty cache, provided that the pass was not `busy`. `JoinedInTurn` and
`Answered` carry this through the joins of `main`. `Bounded` shows that the
model's bound on posts bounds the sequences the model keeps, as `TypeOK` says.

**AgentProofs.** Whether a socket can still call back is not visible to the
agent, which decides by `m_front_state` and `m_back_state`. `KnownFront` and
`KnownBack` say what each value of the two states implies for the two sockets;
`Life` that a deleted agent has both states in TERMINATE and no terminate timer;
`Held` that `m_session` is only set for a socket that can call back. The crucial
step is `CheckTerminate`: it deletes the agent only when both states are
TERMINATE, which by `KnownFront` and `KnownBack` means that neither socket has a
callback left.

The second half of the module is about the data, with the invariant `Whole`. `Sent`
says of a socket that is up that ring and cache are the units from the handshake
on, in order. It has a second case: a server whose connection stands only after
the client has left is sent no handshake, so its cache starts with unit 1. What
keeps these units from being sent without a handshake is only that
`m_data_check_timer` does not run (`~check`): no state and no test in
`BackSession` does. With it go what the cache holds before the connection
stands (`Early`) and before there is an agent (`Blank`), and `Timers`, which is
`CacheHasTimer` for each end.

**DataServerProofs.** `Stands`, `NoDanglingSession` and `InStep` say how `m_session`,
`m_state` and the sockets agree, `Stages` in which states of the server thread
there are sockets and a timer at all. `OrphansCounted` bounds the sockets that can call
the one `WorldServer` by the refused handshakes, plus one. Its strengthening
`Paid` says that in INIT with no session the plus one is already free: the
connect of the timer has been paid for by the refusal that cleared `m_session`.
Every step changes the finite set `Pending` by at most one element.

**LoggerProofs.** A `log_cmd` has no owner written down: it belongs to whoever
holds the pointer. `Alone` says that a command that is in use is in one place
only: with a poster or the creator, in one command ring, in the hands of a
log thread, or on its way back, and that one that came back is in one of the rings
or caches of one proc. `InOrder` says that what was done, what is being done and
what is queued are the numbers `1 .. posted`, in this order. A logger is freed by
its close command, which the creator posts in its own ring when the counters agree.
`Balance` makes the counters say what they should: `log_req` and `log_req_mt` with
those who have pushed and not counted yet are `log_ack` with the commands that
wait. `InCalls` adds that nobody is between the push and the count of a logger that is
not open, so equal counters mean that no command waits; then `Endings` follows: the
one close command of a logger comes after all its other commands, although these
are in other rings. For the stop `LastPass` follows a log thread through its last
pass: the procs it has behind it gave nothing since, unless the pass was `busy`,
and a thread that is over has left nothing. `Stopped` and `Printed` carry this through
the joins of the creator and the end of the print thread. `Cmds` has one
command for each post and each close that the bounds allow, where the program
allocates one more when it needs it.

**Only model-checked** is every liveness property, the fairness of `SessionLife` and
what follows from it: TLAPS does not do ENABLED. No safety property is left.

## 7. What the code does that a reader may not expect

Each of these was met while modelling. None contradicts a statement in the
repository, so they are recorded here, as hazards, and as the exceptions the
properties name.

- **A timer set with elapse 0 inside a callback** comes 256 ticks late: its
  slot is the one that has just been emptied, since `last_tick` moves after the
  callbacks (`libsvr/src/timer.c:384`). `OnTime` names the case.
- **Shut-down of the database can hang**: the main thread joins the db thread,
  which does not end before its results are in the result rings, which only
  main empties (`libsvr/src/db_mysql.cpp:467`). It takes more outstanding
  results than a ring holds. `DbManager!StopEnds` excepts it by `Crowded`, and so
  does `DataServer!StopEnds`: the data server stops by this call
  (`common/database/database_system.cpp:137`).
- **A command posted after the stop** (say by a result callback during the
  shut-down) is never executed, and `destroy_mysql_connection` waits for it for
  ever (`db_mysql.cpp:636`). `DestroyEnds` excepts it by `TooLate`.
- **`try_count` 0** is decremented before it is tested (`db_mysql.cpp:892`).
- **`Connect` of the database system** makes every connection twice
  (`common/database/database_system.cpp:262`).
- **A cron caller destroyed in its own callback** is used afterwards
  (`common/timer/timer_system.hpp:105`).
- **A refused handshake** in the gateway reads the client's address after
  `Disconnect` has cleared `m_session` (`agentserver/agent/front_session.cpp:142`
  and `:189`); so does the answer of a server to a client that was disconnected as
  silent meanwhile (`back_session.cpp:37`), and a session that goes on
  measuring packets after its callback disconnected it
  (`common/net/session.cpp:280`). `Agent` stops there, in `down`.
- **A client that leaves while its server is being connected**, with data in
  the send cache of that server session, leaves an agent that `CheckTerminate`
  does not end; the 60 s check of silent sessions does. `AgentFreed`
  holds thanks to that check.
- **The first check of silent sessions** compares with receive times that start
  at 0, so a session that has not received anything by then is disconnected at
  once.
- **A refused handshake in INIT** lets the data server have two connections to
  the world: the timer of INIT connects again as soon as `m_session` is null
  (`dataserver/application/data_server_app.cpp:70`), and when the refused socket
  ends, `ISession::Terminate` (`common/net/session.cpp:62`) sets `m_session`, by
  then the new connection, to null, and `OnTerminate` makes a third one. The
  orphan goes on calling the same object, and no `Disconnect` reaches it.
  `InStep` excepts it by `hist.doubled`; `OrphansCounted` says that each refusal
  makes at most one. A connect that is still in progress cannot be
  disconnected either: `_epoll_tcp_socket_close` only closes an established
  socket.
- **The data server may give up its world**: in RUN it connects again only in the
  callback of the end, once (`dataserver/net/world_server.cpp:76`); when the pool
  has no slot at that moment, because ended sockets stay in it for
  `DELAY_CLOSE_SOCKET`, nobody tries again. `WorksAgain` excepts it by `denied`.
- **A request of the world during the stop** becomes a command that no thread
  executes, and the stop waits for it for ever. `StopEnds` excepts it by `Late`.
- **A start that fails before there is a logger** ends the process:
  `OnUninitialized` logs (`dataserver/application/data_server_app.cpp:61`), and the
  default logger is null then (`common/app/svr_app.hpp:171`). `DataServer` stops
  in `down`.
- **A reconnected session keeps its send cache**: what did not fit before is sent
  on the new connection, before the handshake (`common/net/session.cpp:195`).
- **The lock-free queue refuses without need**: a push or pop that has loaded an
  index which others have used up meanwhile tests a node that has moved on, and
  reports a full or an empty queue. `RefusedRightly` says what holds for the
  latest index.
- **The time of a line** is formatted in the `log_proc`, which all log threads
  that serve this thread of the program write without a lock
  (`libsvr/src/logger.cpp:802`): with several log threads a time may be garbled.
- **A logger that never opened its file** is not freed by `opt_close`
  (`libsvr/src/logger.cpp:1166`), and a flush that finds its ring full is dropped.
- **`net_tcp_close_listener`** waits on the main thread for a counter that only
  the main thread increments (`epoll_tcp.c:3222`).

## 8. What is not modelled

- Of the TCP layer: TLS sockets, the closing of listeners, starting and stopping the
  IO thread, and full request and event queues, which end the process by
  `CRUSH_CODE`.
- Of the sessions: putting packets together that are larger than the receive
  ring (`m_recv_cache`).
- Of the timer system: cron expressions. A cron caller is a caller that
  modifies its own timer in its callback.
- Of the MySQL client: SQL, and synchronous commands.
- Of the data server: the tables. `common/dbtable` is generated for a row code
  (`db_table.hpp`) that is not in the repository. Packets are whole, so the
  caches of its session are not there.
- Of the logger: formatting, file names and rotation, the start of its threads.
- Of the lock-free queue: `<T, false, false>`, which no thread shares, and the
  C++ memory model: the loads of `node->head` and `node->tail` are relaxed, so
  on a machine weaker than x86 a pop may see the index before the data.
- HTTP: no server of the tree makes a request. GUIDs, object tables: a few lines
  of sequential arithmetic and containers.
- The Windows TCP layer is the twin of the Linux one behind the same header.
  The TLS handshake happens inside OpenSSL. Nothing in the tree uses the WebSocket
  layer or the state machine helper.
- Memory pools, trees, JSON, hashes, encoding, configuration: sequential code
  over memory or text, which unit tests reach better than a model.
- Generated code (`common/protocol`, `common/dbtable`) and `lua-5.4.4`. The
  headers of `common/protocol` alone are more than half of all lines of the
  repository; they hold message structures and their encoding, no control. So
  the share of all lines that the map covers is small and stays so: what is
  modelled is the code in which threads, callbacks and messages meet.
- Memory models weaker than sequential consistency, in all modules.

## 9. Plan

Done: the TCP layer with `SessionLife`; the ring with `Fifo`; the timers; the
MySQL client; the gateway; the data server with the application shell; the
lock-free queue with `SharedFifo`; the logger.

Models that could follow: the closing of a listener and the start and stop of
the IO thread; bounded queues between main and IO; reassembly in `ISession` as a
refinement of a stream of packets.

Proofs: every invariant of the runs is proved. What a new model adds, its invariant
should be.
