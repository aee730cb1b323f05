------------------------------- MODULE Logger -------------------------------
(***************************************************************************)
(* The logger of libsvr/src/logger.cpp.  Every thread that logs has a      *)
(* log_proc with two rings for each log thread: its commands go there, and *)
(* the used ones come back to be used again or freed.  Each log thread     *)
(* visits all procs, and what it has written goes through one more ring to *)
(* the print thread.  The thread that made the loggers, Main, destroys     *)
(* them and stops everything.  A log_cmd is one object all its life: what  *)
(* it says changes when it is used again.                                  *)
(* Nobody else is in a call of a logger when Main destroys it or begins    *)
(* one later, nor in any call when Main takes the manager down: that is    *)
(* left to the caller.                                                     *)
(***************************************************************************)
EXTENDS Integers, Sequences, FiniteSets

CONSTANTS
  Procs,    \* the threads that log
  Main,     \* the one that calls init_logger_manager and makes the loggers
  N,        \* log_thread_num
  Loggers,
  ThreadOf, \* their log_thread_idx
  Options,  \* bound: what is asked of each, of those in Known
  Cap,      \* what a ring of log_queue_size pointers holds: one less
  PrintCap, \* bound: lines that fit in m_print_data_cache
  MaxPosts  \* bound: commands altogether, without those that close

(* write waits for room; try is the same without waiting (is_block false)  *)
Known == {"write", "try", "flush", "reset"}

ASSUME LoggerAssumption ==
  /\ Options \in [Loggers -> SUBSET Known]
  /\ Main \in Procs
  /\ N \in Nat \ {0} /\ ThreadOf \in [Loggers -> 1 .. N]
  /\ IsFiniteSet(Procs) /\ IsFiniteSet(Loggers)
  /\ {Cap, PrintCap} \subseteq Nat \ {0} /\ MaxPosts \in Nat

Threads == 1 .. N

(* bound: the log_cmds there can be, one for each command                  *)
Cmds == 1 .. MaxPosts + Cardinality(Loggers)

VARIABLES
  run,      \* g_logger_manager->is_run
  list,     \* log_proc_head: the registered procs, the newest first
  cmdQ,     \* cmd_queue of a proc for a thread
  rcyQ,     \* rcy_queue
  rcyCache, \* rcy_cache_queue
  cmd,      \* the log_cmds
  post,     \* the call each proc is in; over when the thread has ended
  log,      \* the file_loggers
  thr,      \* the log threads
  print,    \* the lines in m_print_data_cache
  pr,       \* the print thread
  main,     \* what Main does besides logging
  posted,   \* history: how many commands each proc gave to each thread
  done      \* history: those that were done, as they were numbered

rings == <<cmdQ, rcyQ, rcyCache>>
history == <<posted, done>>
vars == <<run, list, rings, cmd, post, log, thr, print, pr, main, history>>

-----------------------------------------------------------------------------
Unused == [option |-> "unused", logger |-> 0, no |-> 0]
Idle == [pc |-> "idle", cmd |-> 0, logger |-> 0]

Registered == {list[i] : i \in 1 .. Len(list)}
Elems(q) == {q[i] : i \in 1 .. Len(q)}
Room(q) == Len(q) < Cap
Delete(ks, c) == [k \in Cmds |-> IF k \in ks THEN Unused ELSE c[k]]

(* nobody takes the manager down                                           *)
InUse == main.pc \in {"idle", "wait", "close"}

Init ==
  /\ run = TRUE /\ list = <<Main>>
  /\ cmdQ = [p \in Procs |-> [t \in Threads |-> <<>>]]
  /\ rcyQ = cmdQ /\ rcyCache = cmdQ /\ done = cmdQ
  /\ cmd = [k \in Cmds |-> Unused]
  /\ post = [p \in Procs |-> Idle]
  /\ log = [l \in Loggers |-> [state |-> "open", file |-> FALSE,
                               req |-> 0, reqMt |-> 0, ack |-> 0]]
  /\ thr = [t \in Threads |-> [pc |-> "pass", end |-> FALSE, busy |-> FALSE,
                               at |-> 1, cmd |-> 0]]
  /\ print = [t \in Threads |-> 0]
  /\ pr = [pc |-> "run", at |-> 1, any |-> FALSE]
  /\ main = Idle
  /\ posted = [p \in Procs |-> [t \in Threads |-> 0]]

-----------------------------------------------------------------------------
(***************************************************************************)
(* A thread that logs.                                                     *)
(***************************************************************************)
(* CThreadLogProc, at the first call of the thread                         *)
Register(p) ==
  /\ p \notin Registered /\ InUse
  /\ list' = <<p>> \o list
  /\ UNCHANGED <<run, rings, cmd, post, log, thr, print, pr, main, history>>

(* and at its end                                                          *)
Exit(p) ==
  /\ p \in Registered \ {Main} /\ post[p].pc = "idle" /\ main.pc # "gone"
  /\ post' = [post EXCEPT ![p].pc = "over"]
  /\ UNCHANGED <<run, list, rings, cmd, log, thr, print, pr, main, history>>

Came(p) == UNION {Elems(rcyQ[p][t]) : t \in Threads}
TakeBack(p) == rcyQ' = [rcyQ EXCEPT ![p] = [t \in Threads |-> <<>>]]

(* _get_log_cmd: one of those that came back, and the others are deleted,  *)
(* or a new one; which it is makes no difference                           *)
ToUse(p) == IF Came(p) # {} THEN Came(p) ELSE {k \in Cmds : cmd[k] = Unused}
Got(p) == CHOOSE k \in ToUse(p) : TRUE

GetCmd(p, option, l) ==
  /\ ToUse(p) # {}
  /\ TakeBack(p)
  /\ cmd' = [Delete(Came(p), cmd) EXCEPT ![Got(p)] =
               [option |-> option, logger |-> l, no |-> posted[p][ThreadOf[l]] + 1]]

(* for the bound: what was and is being posted, without what closes        *)
Posts ==
  Cardinality({p \in Procs : post[p].pc = "push"}) +
  Cardinality({x \in Procs \X Threads \X Cmds : x[3] <= posted[x[1]][x[2]]}) -
  Cardinality({l \in Loggers : log[l].state # "open" /\ main.logger # l})

(* file_logger_async_log, file_logger_flush, reset_file_logger             *)
Post(p, l, option) ==
  /\ p \in Registered /\ post[p].pc = "idle" /\ log[l].state = "open" /\ InUse
  /\ p = Main => main.pc = "idle"
  /\ Posts < MaxPosts
  /\ GetCmd(p, option, l)
  /\ post' = [post EXCEPT ![p] = [pc |-> "push", cmd |-> Got(p), logger |-> l]]
  /\ UNCHANGED <<run, list, cmdQ, rcyCache, log, thr, print, pr, main, history>>

Give(p, k, t) ==
  /\ Room(cmdQ[p][t])
  /\ cmdQ' = [cmdQ EXCEPT ![p][t] = Append(@, k)]
  /\ posted' = [posted EXCEPT ![p][t] = @ + 1]

Push(p) ==
  /\ post[p].pc = "push" /\ Give(p, post[p].cmd, ThreadOf[post[p].logger])
  /\ post' = [post EXCEPT ![p].pc = "count"]
  /\ UNCHANGED <<run, list, rcyQ, rcyCache, cmd, log, thr, print, pr, main, done>>

(* _free_log_cmd, and the next try                                         *)
FreeBack(p) == TakeBack(p) /\ cmd' = Delete(Came(p), cmd)

PushFull(p) ==
  /\ post[p].pc = "push" /\ ~Room(cmdQ[p][ThreadOf[post[p].logger]])
  /\ \/ cmd[post[p].cmd].option = "write" /\ FreeBack(p) /\ UNCHANGED post
     \/ /\ cmd[post[p].cmd].option # "write"
        /\ cmd' = Delete({post[p].cmd}, cmd)
        /\ post' = [post EXCEPT ![p] = Idle]
        /\ UNCHANGED rcyQ
  /\ UNCHANGED <<run, list, cmdQ, rcyCache, log, thr, print, pr, main, history>>

(* log_req of the creator, log_req_mt of all others                        *)
Count(p) ==
  LET l == post[p].logger
  IN /\ post[p].pc = "count"
     /\ log' = IF p = Main THEN [log EXCEPT ![l].req = @ + 1]
                           ELSE [log EXCEPT ![l].reqMt = @ + 1]
     /\ post' = [post EXCEPT ![p] = Idle]
     /\ UNCHANGED <<run, list, rings, cmd, thr, print, pr, main, history>>

-----------------------------------------------------------------------------
(***************************************************************************)
(* A log thread.  at counts from the end of the list, which grows at its   *)
(* head.                                                                   *)
(***************************************************************************)
At(t) == list[Len(list) + 1 - thr[t].at]
Visits(t, pc) == thr[t].pc = pc

(* the next proc, or at the end of a pass the next one: while is_run, then  *)
(* more (_proc_log_end) until one finds nothing.  A visit looks neither at *)
(* is_run nor at the head of the list, so both may be one step.            *)
Onward(r) ==
  LET pass == [r EXCEPT !.pc = "pass", !.cmd = 0, !.at = Len(list), !.busy = FALSE]
  IN CASE r.at > 1         -> [r EXCEPT !.pc = "pass", !.cmd = 0, !.at = @ - 1]
       [] r.at = 1 /\ ~r.end -> [pass EXCEPT !.end = ~run]
       [] r.at = 1 /\ r.end  -> IF r.busy THEN pass ELSE [pass EXCEPT !.pc = "over"]

Pop(t) ==
  /\ Visits(t, "pass") /\ cmdQ[At(t)][t] # <<>>
  /\ cmdQ' = [cmdQ EXCEPT ![At(t)][t] = Tail(@)]
  /\ thr' = [thr EXCEPT ![t].pc = "do", ![t].cmd = Head(cmdQ[At(t)][t]), ![t].busy = thr[t].end]
  /\ UNCHANGED <<run, list, rcyQ, rcyCache, cmd, post, log, print, pr, main, history>>

(* rcy_queue and what is left of the cache once what fits has been moved   *)
Moved(p, t, all) ==
  LET n == IF Len(all) < Cap THEN Len(all) ELSE Cap
  IN /\ rcyQ' = [rcyQ EXCEPT ![p][t] = SubSeq(all, 1, n)]
     /\ rcyCache' = [rcyCache EXCEPT ![p][t] = SubSeq(all, n + 1, Len(all))]

(* nothing from this proc: once its thread is over, what it had for use    *)
(* is deleted; _proc_log_end does not refill rcy_queue                     *)
PopNone(t) ==
  LET p == At(t)
      all == rcyQ[p][t] \o rcyCache[p][t]
  IN /\ Visits(t, "pass") /\ cmdQ[p][t] = <<>>
     /\ IF post[p].pc = "over" THEN Moved(p, t, <<>>) /\ cmd' = Delete(Elems(all), cmd)
        ELSE /\ UNCHANGED cmd
             /\ IF thr[t].end THEN UNCHANGED <<rcyQ, rcyCache>> ELSE Moved(p, t, all)
     /\ thr' = [thr EXCEPT ![t] = Onward(@)]
     /\ UNCHANGED <<run, list, cmdQ, post, log, print, pr, main, history>>

(* _check_log and _reset_log open the file, or fail to                     *)
Opened(option, file) ==
  IF option \in {"write", "try", "reset"} THEN BOOLEAN ELSE {file}

(* an error is printed too                                                 *)
Lines(option, ok) ==
  CASE option \in {"write", "try"} -> IF ok THEN 1 ELSE 2
    [] option = "reset" -> IF ok THEN 0 ELSE 1
    [] OTHER -> 0

DoneUnacked(t, l, option, ok) == \* mutant: only what is written is acked
  /\ log' = [log EXCEPT ![l].file = ok, ![l].ack = IF ok THEN @ + 1 ELSE @]
  /\ print' = [print EXCEPT ![t] = IF @ + Lines(option, ok) < PrintCap
                                     THEN @ + Lines(option, ok) ELSE PrintCap]

Done(t, l, option, ok) ==
  /\ log' = [log EXCEPT ![l].file = ok, ![l].ack = @ + 1]
  /\ print' = [print EXCEPT ![t] = IF @ + Lines(option, ok) < PrintCap
                                     THEN @ + Lines(option, ok) ELSE PrintCap]

(* a logger whose file was never opened is not freed                       *)
Closed(l) ==
  /\ log' = [log EXCEPT ![l].state = IF log[l].file THEN "freed" ELSE @]
  /\ UNCHANGED print

(* _do_cmd                                                                 *)
Do(t) ==
  LET c == cmd[thr[t].cmd]
  IN /\ Visits(t, "do")
     /\ IF c.option = "close" THEN Closed(c.logger)
        ELSE \E ok \in Opened(c.option, log[c.logger].file) : Done(t, c.logger, c.option, ok)
     /\ done' = [done EXCEPT ![At(t)][t] = Append(@, c.no)]
     /\ thr' = [thr EXCEPT ![t].pc = "back"]
     /\ UNCHANGED <<run, list, rings, cmd, post, pr, main, posted>>

GiveBack(t) ==
  LET p == At(t)
  IN /\ Visits(t, "back")
     /\ IF thr[t].end
          THEN IF rcyCache[p][t] = <<>> /\ Room(rcyQ[p][t])
                 THEN rcyQ' = [rcyQ EXCEPT ![p][t] = Append(@, thr[t].cmd)] /\ UNCHANGED rcyCache
                 ELSE rcyCache' = [rcyCache EXCEPT ![p][t] = Append(@, thr[t].cmd)] /\ UNCHANGED rcyQ
          ELSE Moved(p, t, Append(rcyQ[p][t] \o rcyCache[p][t], thr[t].cmd))
     /\ thr' = [thr EXCEPT ![t] = Onward(@)]
     /\ UNCHANGED <<run, list, cmdQ, cmd, post, log, print, pr, main, history>>

LogThread(t) == Pop(t) \/ PopNone(t) \/ Do(t) \/ GiveBack(t)

-----------------------------------------------------------------------------
(***************************************************************************)
(* The print thread: a line of each log thread in turn; when is_run has    *)
(* gone it waits for all log threads and prints what is left.              *)
(***************************************************************************)
PrintLine ==
  LET n == print[pr.at]
      any == pr.any \/ (pr.pc = "end" /\ n > 0)
      pass == [pc |-> pr.pc, at |-> 1, any |-> FALSE]
  IN /\ pr.pc \in {"run", "end"}
     /\ print' = [print EXCEPT ![pr.at] = IF n > 0 THEN n - 1 ELSE n]
     /\ pr' = CASE pr.at < N                    -> [pr EXCEPT !.at = @ + 1, !.any = any]
                [] pr.at = N /\ pr.pc = "run" -> IF run THEN pass ELSE [pass EXCEPT !.pc = "wait"]
                [] pr.at = N /\ pr.pc = "end" -> IF any THEN pass ELSE [pass EXCEPT !.pc = "over"]
     /\ UNCHANGED <<run, list, rings, cmd, post, log, thr, main, history>>

PrintWaitNot == \* mutant: the log threads may still be writing
  /\ pr.pc = "wait"
  /\ pr' = [pr EXCEPT !.pc = "end"]
  /\ UNCHANGED <<run, list, rings, cmd, post, log, thr, print, main, history>>

PrintWait ==
  /\ pr.pc = "wait"
  /\ pr' = CASE thr[pr.at].pc # "over"             -> [pr EXCEPT !.at = 1]
             [] thr[pr.at].pc = "over" /\ pr.at < N -> [pr EXCEPT !.at = @ + 1]
             [] thr[pr.at].pc = "over" /\ pr.at = N -> [pr EXCEPT !.at = 1, !.pc = "end"]
  /\ UNCHANGED <<run, list, rings, cmd, post, log, thr, print, main, history>>

PrintThread == PrintLine \/ PrintWait

-----------------------------------------------------------------------------
(***************************************************************************)
(* Main: destroy_file_logger and uninit_logger_manager.                    *)
(***************************************************************************)
Calling(p) == post[p].pc \in {"push", "count"}

Destroy(l) ==
  /\ main.pc = "idle" /\ log[l].state = "open"
  /\ ~Calling(Main) /\ \A p \in Procs : Calling(p) => post[p].logger # l
  /\ GetCmd(Main, "close", l)
  /\ log' = [log EXCEPT ![l].state = "closing"]
  /\ main' = [pc |-> "wait", cmd |-> Got(Main), logger |-> l]
  /\ UNCHANGED <<run, list, cmdQ, rcyCache, post, thr, print, pr, history>>

AllAckedOwn(r) == r.req = r.ack \* mutant: the counter of the other threads is forgotten

AllAcked(r) == r.req + r.reqMt = r.ack

Acked ==
  /\ main.pc = "wait" /\ AllAcked(log[main.logger])
  /\ main' = [main EXCEPT !.pc = "close"]
  /\ UNCHANGED <<run, list, rings, cmd, post, log, thr, print, pr, history>>

Close ==
  /\ main.pc = "close"
  /\ LET t == ThreadOf[main.logger]
     IN IF Room(cmdQ[Main][t])
          THEN /\ Give(Main, main.cmd, t)
               /\ main' = Idle
               /\ UNCHANGED <<rcyQ, cmd>>
          ELSE FreeBack(Main) /\ UNCHANGED <<cmdQ, main, posted>>
  /\ UNCHANGED <<run, list, rcyCache, post, log, thr, print, pr, done>>

Stop ==
  /\ main.pc = "idle" /\ \A p \in Procs : ~Calling(p)
  /\ run' = FALSE
  /\ main' = [main EXCEPT !.pc = "join"]
  /\ UNCHANGED <<list, rings, cmd, post, log, thr, print, pr, history>>

(* the print thread, then the log threads, then all rings and procs        *)
Joined ==
  /\ main.pc = "join" /\ pr.pc = "over" /\ \A t \in Threads : thr[t].pc = "over"
  /\ cmd' = [k \in Cmds |-> Unused]
  /\ cmdQ' = [p \in Procs |-> [t \in Threads |-> <<>>]] /\ rcyQ' = cmdQ' /\ rcyCache' = cmdQ'
  /\ main' = [main EXCEPT !.pc = "gone"]
  /\ UNCHANGED <<run, list, post, log, thr, print, pr, history>>

-----------------------------------------------------------------------------
MainDoes == Acked \/ Close \/ Joined
Calls(p) == Push(p) \/ PushFull(p) \/ Count(p)

Next ==
  \/ \E p \in Procs : Register(p) \/ Exit(p) \/ Calls(p)
  \/ \E p \in Procs, l \in Loggers : \E option \in Options[l] : Post(p, l, option)
  \/ \E t \in Threads : LogThread(t)
  \/ PrintThread
  \/ \E l \in Loggers : Destroy(l)
  \/ Stop \/ MainDoes

(* A thread goes on until it is over or its call returns; nobody has to    *)
(* make a call.                                                            *)
Spec ==
  /\ Init /\ [][Next]_vars
  /\ \A p \in Procs : WF_vars(Calls(p))
  /\ \A t \in Threads : WF_vars(LogThread(t))
  /\ WF_vars(PrintThread) /\ WF_vars(MainDoes)

-----------------------------------------------------------------------------
(* A logger is freed by its log thread, and the counts of its creator and  *)
(* of all others, made after the push, with its acks decide when: nobody   *)
(* who still has to do with the logger finds it freed, and no command that *)
(* is under way has been deleted or given back.                            *)
NoDanglingLogger ==
  LET under == {post[p].cmd : p \in {q \in Procs : post[q].pc = "push"}} \cup
               (UNION {Elems(cmdQ[p][t]) : p \in Procs, t \in Threads}) \cup
               {thr[t].cmd : t \in {u \in Threads : thr[u].pc = "do"}}
  IN /\ \A k \in under : cmd[k] # Unused /\ log[cmd[k].logger].state # "freed"
     /\ \A p \in Procs : post[p].pc = "count" => log[post[p].logger].state # "freed"
     /\ main.pc \in {"wait", "close"} => log[main.logger].state # "freed"

(* When the manager has been taken down, every command that any thread     *)
(* gave before has been done, in the order it was given, and every line    *)
(* has been printed.                                                       *)
StoppedWritten ==
  main.pc = "gone" =>
    /\ \A p \in Procs, t \in Threads : done[p][t] = [i \in 1 .. posted[p][t] |-> i]
    /\ \A t \in Threads : print[t] = 0

(* destroy_file_logger and uninit_logger_manager return.                   *)
MainReturns == main.pc \in {"wait", "close", "join"} ~> main.pc \in {"idle", "gone"}
=============================================================================
