----------------------------- MODULE DbManager ------------------------------
(***************************************************************************)
(* The MySQL threads of libsvr/src/db_mysql.cpp.  Every thread of the      *)
(* program that uses the manager has a db_proc, with one command queue and *)
(* one result queue to each db thread; a db thread that finds the result   *)
(* queue full keeps the results in a queue of its own without bound.       *)
(* Main, the thread that initialised the manager, also creates and         *)
(* destroys the connections, stops the manager and frees it.               *)
(* The queues are rings of loop_cache.c with one producer and one consumer *)
(* (LoopCache): a push and a pop are single steps.                         *)
(***************************************************************************)
EXTENDS Integers, Sequences, FiniteSets

CONSTANTS
  Procs,    \* the threads that use the manager
  Main,     \* the one that initialised it
  N,        \* db_thread_num
  Conns,    \* the asynchronous connections, all created by Main
  ThreadOf, \* their db_thread_idx
  Cap,      \* what a queue of db_queue_size pointers holds: one less
  MaxTries, \* bound: try_count of a post
  MaxPosts  \* bound: commands altogether

Threads == 1 .. N

ASSUME DbManagerAssumption ==
  /\ Main \in Procs
  /\ N \in Nat \ {0} /\ ThreadOf \in [Conns -> Threads]
  /\ Cap \in Nat \ {0} /\ MaxTries \in Nat \ {0} /\ MaxPosts \in Nat

NoCmd == [conn |-> "none", no |-> 0]

VARIABLES
  list,   \* db_proc_head and the next_proc of each
  cmdQ,   \* [proc][thread]: cmd_queue
  retQ,   \* ret_queue
  cache,  \* ret_cache_queue
  thr,    \* the db threads: m_is_run, and where _db_proc_func is
  idx,    \* cur_proc_idx
  post,   \* where a proc is in db_manager_post_..._cmd
  conn,   \* the connections and their counters
  main,   \* what Main does besides
  posted, \* history: the commands a proc has posted to a thread
  done,   \* history: those whose OnResult was called
  before  \* history: how many were posted when the thread was stopped

queues == <<cmdQ, retQ, cache>>
history == <<posted, done, before>>
vars == <<list, queues, thr, idx, post, conn, main, history>>

-----------------------------------------------------------------------------
Outstanding(p, t) == Len(posted[p][t]) - Len(done[p][t])

Executed(p, t) == Len(posted[p][t]) - Len(cmdQ[p][t])

Registered == {list[i] : i \in 1 .. Len(list)}

(* p may call the manager: it is in no other call of it                    *)
Free(p) ==
  /\ main.pc # "gone" /\ p \in Registered /\ post[p].pc = "idle"
  /\ p = Main => main.pc \in {"work", "drain", "done"}

-----------------------------------------------------------------------------
(***************************************************************************)
(* A thread that uses the manager.                                         *)
(***************************************************************************)

(* CThreadDBProc, on the first use                                         *)
Register(p) ==
  /\ p \notin Registered
  /\ main.pc # "gone"
  /\ list' = <<p>> \o list
  /\ UNCHANGED <<queues, thr, idx, post, conn, main, history>>

(* for the bound: what was posted and what is being posted                 *)
Posts ==
  Cardinality({p \in Procs : post[p].pc = "push"}) +
  Cardinality({x \in Procs \X Threads \X (1 .. MaxPosts) : x[3] <= Len(posted[x[1]][x[2]])})

(* Nobody posts on a connection that is being destroyed.                   *)
Post(p, c, tries) ==
  /\ Free(p) /\ conn[c].state = "open"
  /\ Posts < MaxPosts
  /\ post' = [post EXCEPT ![p] =
       [pc |-> "push", tries |-> tries, old |-> 0,
        cmd |-> [conn |-> c, no |-> Len(posted[p][ThreadOf[c]]) + 1]]]
  /\ UNCHANGED <<list, queues, thr, idx, conn, main, history>>

Push(p) ==
  LET cmd == post[p].cmd
      t == ThreadOf[cmd.conn]
  IN /\ post[p].pc = "push" /\ Len(cmdQ[p][t]) < Cap
     /\ cmdQ' = [cmdQ EXCEPT ![p][t] = Append(@, cmd)]
     /\ posted' = [posted EXCEPT ![p][t] = Append(@, cmd)]
     /\ post' = [post EXCEPT ![p].pc = "count"]
     /\ UNCHANGED <<list, retQ, cache, thr, idx, conn, main, done, before>>

(* a full queue: after a while the next try; in the end it is given up     *)
PushFull(p) ==
  /\ post[p].pc = "push" /\ Len(cmdQ[p][ThreadOf[post[p].cmd.conn]]) = Cap
  /\ post' = [post EXCEPT ![p].tries = @ - 1,
                          ![p].pc = IF post[p].tries > 1 THEN "push" ELSE "idle"]
  /\ UNCHANGED <<list, queues, thr, idx, conn, main, history>>

(* db_req++ is a load and a store                                          *)
CountLoadAll(p) == \* mutant: every proc does it that way
  /\ post[p].pc = "count"
  /\ post' = [post EXCEPT ![p].pc = "store", ![p].old = conn[post[p].cmd.conn].req]
  /\ UNCHANGED <<list, queues, thr, idx, conn, main, history>>

CountLoad(p) ==
  /\ post[p].pc = "count" /\ p = Main
  /\ post' = [post EXCEPT ![p].pc = "store", ![p].old = conn[post[p].cmd.conn].req]
  /\ UNCHANGED <<list, queues, thr, idx, conn, main, history>>

CountStore(p) ==
  /\ post[p].pc = "store"
  /\ conn' = [conn EXCEPT ![post[p].cmd.conn].req = post[p].old + 1]
  /\ post' = [post EXCEPT ![p].pc = "idle"]
  /\ UNCHANGED <<list, queues, thr, idx, main, history>>

(* db_req_mt is counted atomically                                         *)
CountOther(p) ==
  /\ post[p].pc = "count" /\ p # Main
  /\ conn' = [conn EXCEPT ![post[p].cmd.conn].reqMt = @ + 1]
  /\ post' = [post EXCEPT ![p].pc = "idle"]
  /\ UNCHANGED <<list, queues, thr, idx, main, history>>

NextThreadLate(t) == IF t > N THEN 1 ELSE t + 1 \* mutant: > for >=

NextThread(t) == IF t >= N THEN 1 ELSE t + 1

(* One turn of the loop of db_manager_run.  A call of it is some turns.    *)
RunStep(p) ==
  LET t == idx[p] IN
  /\ Free(p)
  /\ IF retQ[p][t] = <<>>
       THEN UNCHANGED <<retQ, done>>
       ELSE /\ done' = [done EXCEPT ![p][t] = Append(@, Head(retQ[p][t]))]
            /\ retQ' = [retQ EXCEPT ![p][t] = Tail(@)]
  /\ idx' = [idx EXCEPT ![p] = NextThread(t)]
  /\ UNCHANGED <<list, cmdQ, cache, thr, post, conn, main, posted, before>>

-----------------------------------------------------------------------------
(***************************************************************************)
(* A db thread: _proc_db_cmd visits every db_proc once, _proc_db_cmd_end   *)
(* again and again until there is nothing left to do.                      *)
(***************************************************************************)
Step(t, r) == thr' = [thr EXCEPT ![t] = r]

Visited(t) == Head(thr[t].rest)

Pop(t) ==
  LET p == Visited(t) IN
  /\ thr[t].pc = "visit" /\ thr[t].rest # <<>> /\ cmdQ[p][t] # <<>>
  /\ cmdQ' = [cmdQ EXCEPT ![p][t] = Tail(@)]
  /\ Step(t, [thr[t] EXCEPT !.pc = "exec", !.cmd = Head(cmdQ[p][t]), !.busy = TRUE])
  /\ UNCHANGED <<list, retQ, cache, idx, post, conn, main, history>>

PopNone(t) ==
  LET p == Visited(t) IN
  /\ thr[t].pc = "visit" /\ thr[t].rest # <<>> /\ cmdQ[p][t] = <<>>
  /\ Step(t, [thr[t] EXCEPT !.pc = "flush"])
  /\ UNCHANGED <<list, queues, idx, post, conn, main, history>>

(* OnExecute: the query is sent and answered, then db_ack++                *)
Execute(t) ==
  /\ thr[t].pc = "exec"
  /\ conn' = [conn EXCEPT ![thr[t].cmd.conn].ack = @ + 1]
  /\ Step(t, [thr[t] EXCEPT !.pc = "put"])
  /\ UNCHANGED <<list, queues, idx, post, main, history>>

PutAnyway(t) == \* mutant: a result overtakes those in the cache
  LET p == Visited(t) IN
  /\ thr[t].pc = "put"
  /\ IF Len(retQ[p][t]) < Cap
       THEN retQ' = [retQ EXCEPT ![p][t] = Append(@, thr[t].cmd)] /\ UNCHANGED cache
       ELSE cache' = [cache EXCEPT ![p][t] = Append(@, thr[t].cmd)] /\ UNCHANGED retQ
  /\ Step(t, [thr[t] EXCEPT !.pc = "flush", !.cmd = NoCmd])
  /\ UNCHANGED <<list, cmdQ, idx, post, conn, main, history>>

PutWaits(t) == \* mutant: no cache
  LET p == Visited(t) IN
  /\ thr[t].pc = "put" /\ Len(retQ[p][t]) < Cap
  /\ retQ' = [retQ EXCEPT ![p][t] = Append(@, thr[t].cmd)]
  /\ Step(t, [thr[t] EXCEPT !.pc = "flush", !.cmd = NoCmd])
  /\ UNCHANGED <<list, cmdQ, cache, idx, post, conn, main, history>>

Put(t) ==
  LET p == Visited(t) IN
  /\ thr[t].pc = "put"
  /\ IF cache[p][t] = <<>> /\ Len(retQ[p][t]) < Cap
       THEN retQ' = [retQ EXCEPT ![p][t] = Append(@, thr[t].cmd)] /\ UNCHANGED cache
       ELSE cache' = [cache EXCEPT ![p][t] = Append(@, thr[t].cmd)] /\ UNCHANGED retQ
  /\ Step(t, [thr[t] EXCEPT !.pc = "flush", !.cmd = NoCmd])
  /\ UNCHANGED <<list, cmdQ, idx, post, conn, main, history>>

FlushAfter(t) == \* mutant: only in a pass that executes a command
  LET p == Visited(t) IN
  /\ thr[t].pc = "flush" /\ cache[p][t] # <<>> /\ Len(retQ[p][t]) < Cap /\ thr[t].busy
  /\ retQ' = [retQ EXCEPT ![p][t] = Append(@, Head(cache[p][t]))]
  /\ cache' = [cache EXCEPT ![p][t] = Tail(@)]
  /\ UNCHANGED <<list, cmdQ, thr, idx, post, conn, main, history>>

Flush(t) ==
  LET p == Visited(t) IN
  /\ thr[t].pc = "flush" /\ cache[p][t] # <<>> /\ Len(retQ[p][t]) < Cap
  /\ retQ' = [retQ EXCEPT ![p][t] = Append(@, Head(cache[p][t]))]
  /\ cache' = [cache EXCEPT ![p][t] = Tail(@)]
  /\ Step(t, [thr[t] EXCEPT !.busy = TRUE])
  /\ UNCHANGED <<list, cmdQ, idx, post, conn, main, history>>

NextProc(t) ==
  LET p == Visited(t) IN
  /\ thr[t].pc = "flush" /\ (cache[p][t] = <<>> \/ Len(retQ[p][t]) = Cap)
  /\ Step(t, [thr[t] EXCEPT !.pc = "visit", !.rest = Tail(@),
                            !.busy = @ \/ cache[p][t] # <<>>])
  /\ UNCHANGED <<list, queues, idx, post, conn, main, history>>

NextPassBusy(t) == \* mutant: is_busy is not reset
  /\ thr[t].pc = "visit" /\ thr[t].rest = <<>>
  /\ thr[t].run \/ ~thr[t].ending \/ thr[t].busy
  /\ Step(t, [thr[t] EXCEPT !.rest = list, !.ending = ~thr[t].run])
  /\ UNCHANGED <<list, queues, idx, post, conn, main, history>>

(* The end of a pass.                                                      *)
NextPass(t) ==
  /\ thr[t].pc = "visit" /\ thr[t].rest = <<>>
  /\ thr[t].run \/ ~thr[t].ending \/ thr[t].busy
  /\ Step(t, [thr[t] EXCEPT !.rest = list, !.busy = FALSE, !.ending = ~thr[t].run])
  /\ UNCHANGED <<list, queues, idx, post, conn, main, history>>

OverBusy(t) == \* mutant: one pass is enough
  /\ thr[t].pc = "visit" /\ thr[t].rest = <<>> /\ thr[t].ending
  /\ Step(t, [thr[t] EXCEPT !.pc = "over"])
  /\ UNCHANGED <<list, queues, idx, post, conn, main, history>>

Over(t) ==
  /\ thr[t].pc = "visit" /\ thr[t].rest = <<>> /\ thr[t].ending /\ ~thr[t].busy
  /\ Step(t, [thr[t] EXCEPT !.pc = "over"])
  /\ UNCHANGED <<list, queues, idx, post, conn, main, history>>

ThreadStep(t) ==
  Pop(t) \/ PopNone(t) \/ Execute(t) \/ Put(t) \/ Flush(t) \/ NextProc(t)
  \/ NextPass(t) \/ Over(t)

-----------------------------------------------------------------------------
(***************************************************************************)
(* Main, in TryStop and DisConnect of database_system.cpp.                 *)
(***************************************************************************)
StopThread(k, back) ==
  /\ thr' = [thr EXCEPT ![k].run = FALSE]
  /\ before' = [p \in Procs |-> [before[p] EXCEPT ![k] = Len(posted[p][k])]]
  /\ main' = [main EXCEPT !.pc = "join", !.k = k, !.back = back]
  /\ UNCHANGED <<list, queues, idx, post, conn, posted, done>>

(* db_manager_stop: the destructors join one thread after the other        *)
Stop == Free(Main) /\ main.pc = "work" /\ StopThread(N, "drain")

Join ==
  /\ main.pc = "join" /\ thr[main.k].pc = "over"
  /\ IF main.k > 1
       THEN StopThread(main.k - 1, main.back)
       ELSE /\ main' = [main EXCEPT !.pc = main.back]
            /\ UNCHANGED <<list, queues, thr, idx, post, conn, history>>

(* db_manager_complete_run looks at the results of its own proc            *)
Complete ==
  /\ Free(Main) /\ main.pc = "drain"
  /\ \A t \in Threads : retQ[Main][t] = <<>> /\ cache[Main][t] = <<>>
  /\ main' = [main EXCEPT !.pc = "done"]
  /\ UNCHANGED <<list, queues, thr, idx, post, conn, history>>

(* destroy_mysql_connection; the caller has seen to it that nobody is      *)
(* posting on the connection                                               *)
Destroy(c) ==
  /\ Free(Main) /\ main.pc \in {"work", "done"} /\ conn[c].state = "open"
  /\ \A p \in Procs : post[p].pc # "idle" => post[p].cmd.conn # c
  /\ conn' = [conn EXCEPT ![c].state = "closing"]
  /\ main' = [main EXCEPT !.pc = "wait", !.back = main.pc]
  /\ UNCHANGED <<list, queues, thr, idx, post, history>>

DestroyedOwn(c) == \* mutant: the commands of the other procs are forgotten
  /\ conn[c].state = "closing"
  /\ conn[c].req <= conn[c].ack
  /\ conn' = [conn EXCEPT ![c].state = "gone"]
  /\ main' = [main EXCEPT !.pc = main.back]
  /\ UNCHANGED <<list, queues, thr, idx, post, history>>

Destroyed(c) ==
  /\ conn[c].state = "closing"
  /\ conn[c].req + conn[c].reqMt = conn[c].ack
  /\ conn' = [conn EXCEPT ![c].state = "gone"]
  /\ main' = [main EXCEPT !.pc = main.back]
  /\ UNCHANGED <<list, queues, thr, idx, post, history>>

(* uninit_db_manager, after all connections; joins threads that still run  *)
Uninit ==
  /\ Free(Main) /\ \A c \in Conns : conn[c].state = "gone"
  /\ \/ main.pc = "work" /\ StopThread(N, "gone")
     \/ /\ main.pc = "done"
        /\ main' = [main EXCEPT !.pc = "gone"]
        /\ UNCHANGED <<list, queues, thr, idx, post, conn, history>>

-----------------------------------------------------------------------------
(* init_db_manager by Main, then its connections                           *)
Init ==
  /\ list = <<Main>>
  /\ cmdQ = [p \in Procs |-> [t \in Threads |-> <<>>]]
  /\ retQ = cmdQ /\ cache = cmdQ /\ posted = cmdQ /\ done = cmdQ
  /\ thr = [t \in Threads |-> [run |-> TRUE, ending |-> FALSE, pc |-> "visit",
                               rest |-> <<>>, cmd |-> NoCmd, busy |-> FALSE]]
  /\ idx = [p \in Procs |-> 1]
  /\ post = [p \in Procs |-> [pc |-> "idle", tries |-> 0, old |-> 0, cmd |-> NoCmd]]
  /\ conn = [c \in Conns |-> [state |-> "open", req |-> 0, reqMt |-> 0, ack |-> 0]]
  /\ main = [pc |-> "work", k |-> 0, back |-> "work"]
  /\ before = [p \in Procs |-> [t \in Threads |-> MaxPosts]]

Posting(p) == Push(p) \/ PushFull(p) \/ CountLoad(p) \/ CountStore(p) \/ CountOther(p)

Next ==
  \/ \E p \in Procs :
       \/ Register(p) \/ Posting(p) \/ RunStep(p)
       \/ \E c \in Conns, tries \in 1 .. MaxTries : Post(p, c, tries)
  \/ \E t \in Threads : ThreadStep(t)
  \/ Stop \/ Join \/ Complete \/ Uninit
  \/ \E c \in Conns : Destroy(c) \/ Destroyed(c)

(* The threads run.  Main calls db_manager_run again and again, before and *)
(* after it has stopped the manager, and asks whether all is answered.     *)
(* Nothing is asked of the other procs: they may never read a result.      *)
Spec ==
  /\ Init /\ [][Next]_vars
  /\ \A t \in Threads : WF_vars(ThreadStep(t))
  /\ \A p \in Procs : WF_vars(Posting(p))
  /\ WF_vars(RunStep(Main)) /\ WF_vars(Join) /\ WF_vars(Complete)
  /\ \A c \in Conns : WF_vars(Destroyed(c))

-----------------------------------------------------------------------------
TypeOK ==
  /\ Registered \subseteq Procs
  /\ \A p \in Procs, t \in Threads :
       /\ Len(cmdQ[p][t]) <= Cap /\ Len(retQ[p][t]) <= Cap
       /\ before[p][t] \in 0 .. MaxPosts
  /\ \A t \in Threads :
       thr[t].pc \in {"visit", "exec", "put", "flush", "over"}
  /\ idx \in [Procs -> Threads]
  /\ \A p \in Procs : post[p].pc \in {"idle", "push", "count", "store"}
  /\ conn \in [Conns -> [state : {"open", "closing", "gone"},
                         req : Nat, reqMt : Nat, ack : Nat]]
  /\ main.pc \in {"work", "join", "drain", "wait", "done", "gone"}

Held(p, t) ==
  IF thr[t].pc \in {"exec", "put"} /\ Visited(t) = p THEN <<thr[t].cmd>> ELSE <<>>

(* The results come back in the order of the commands, each of them once,  *)
(* and no command is lost on the way through the two rings and the cache.  *)
InOrder ==
  \A p \in Procs, t \in Threads :
    posted[p][t] = done[p][t] \o retQ[p][t] \o cache[p][t] \o Held(p, t) \o cmdQ[p][t]

(* A connection is freed when no db thread will touch it again.            *)
NoDanglingConnection ==
  \A c \in Conns : conn[c].state = "gone" =>
    \A p \in Procs, t \in Threads :
      /\ \A i \in 1 .. Len(cmdQ[p][t]) : cmdQ[p][t][i].conn # c
      /\ thr[t].pc = "exec" => thr[t].cmd.conn # c

(* When a thread has ended, what was posted before it was stopped has been *)
(* executed, for every proc, and nothing is left in a cache that nobody    *)
(* empties any more.  When the stop is complete, Main has had every answer *)
(* that it asked for before the stop, from all threads.                    *)
StopComplete ==
  /\ \A p \in Procs, t \in Threads : thr[t].pc = "over" =>
       Executed(p, t) >= before[p][t] /\ cache[p][t] = <<>>
  /\ main.pc = "done" /\ (\A t \in Threads : ~thr[t].run) =>
       \A t \in Threads : Len(done[Main][t]) >= before[Main][t]

(* Commands are executed even when nobody takes the results.               *)
CommandsExecuted ==
  \A p \in Procs, t \in Threads, n \in 1 .. MaxPosts :
    (Len(posted[p][t]) >= n /\ thr[t].run) ~> Executed(p, t) >= n

(* Main is answered unless it stops the manager first.                     *)
AnswersCome ==
  \A t \in Threads, n \in 1 .. MaxPosts :
    (Len(posted[Main][t]) >= n /\ thr[t].run) ~>
      (Len(done[Main][t]) >= n \/ main.pc = "join")

(* The stop ends if the results that are outstanding fit in the rings.     *)
(* Otherwise the thread waits for room that Main, which waits for the      *)
(* thread, does not make.                                                  *)
Crowded == \E p \in Procs, t \in Threads : Outstanding(p, t) > Cap

StopEnds == (main.pc = "join") ~> (main.pc # "join" \/ Crowded)

(* destroy_mysql_connection returns, unless a command was posted on the    *)
(* connection after its thread was stopped: nobody executes it.            *)
TooLate(c) ==
  \E p \in Procs : LET t == ThreadOf[c] IN Len(posted[p][t]) > before[p][t]

DestroyEnds ==
  \A c \in Conns : (conn[c].state = "closing") ~> (conn[c].state = "gone" \/ TooLate(c))
=============================================================================
