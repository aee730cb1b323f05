----------------------------- MODULE TimerWheel -----------------------------
(***************************************************************************)
(* The timer manager of libsvr/src/timer.c: a hierarchy of wheels, tv1 of  *)
(* TVR_SIZE slots for the next ticks and tv2 .. tv5 of TVN_SIZE slots for  *)
(* coarser and coarser times, filled again from above as time passes.      *)
(* Ticks are unsigned numbers that wrap round.  One thread uses a manager. *)
(* The timers of one slot are a set here: nothing is said of the order of  *)
(* the callbacks of one tick.  TimerSystem adds the callers.               *)
(***************************************************************************)
EXTENDS Integers, FiniteSets

CONSTANTS
  TvrSize, \* TVR_SIZE, 256 in the code
  TvnSize, \* TVN_SIZE, 64 in the code
  Levels,  \* the number of wheels, 5 in the code
  Infos,   \* the memory of timer_info_unit
  Timers,  \* what the data of an info may point to
  NoData,  \* a null data
  NoInfo,  \* a null info
  RunTime, \* run_time of timer_update
  MaxLag   \* bound: how far the clock may be ahead of the manager

(* the ticks that the first l wheels cover                                 *)
Width(l) == TvrSize * TvnSize ^ (l - 1)

(* ticks are counted modulo this, 2^32 in the code                         *)
Ticks == Width(Levels)

ASSUME TimerWheelAssumption ==
  /\ {TvrSize, TvnSize, Levels} \subseteq Nat \ {0, 1}
  /\ Width(1) = TvrSize \* this and the next line are what ^ means
  /\ \A l \in 2 .. Levels : Width(l) = TvnSize * Width(l - 1)
  /\ Ticks % 2 = 0
  /\ RunTime \in Nat
  /\ MaxLag \in 1 .. Ticks \div 2 - 1
  /\ NoData \notin Timers /\ NoInfo \notin Infos

VARIABLES
  now,     \* what func_get_tick answers
  last,    \* last_tick: the tick that is looked at next
  pc,      \* where timer_update is
  tick,    \* its local tick
  timeOut, \* its local time_out
  cur,     \* the info whose callback runs
  info     \* the allocated and the free infos

wheel == <<now, last, pc, tick, timeOut, cur, info>>

-----------------------------------------------------------------------------
Since(a, b) == (a - b) % Ticks

(* where an info may be besides the slots of the wheels: not allocated,    *)
(* allocated and in no list, in the work_list                              *)
Free == <<0, 0>>
Out == <<0, 1>>
Work == <<0, 2>>

Slots == {<<1, k>> : k \in 0 .. TvrSize - 1}
         \cup {<<l, k>> : l \in 2 .. Levels, k \in 0 .. TvnSize - 1}

FreeInfo == [slot |-> Free, expires |-> 0, elapse |-> 0, count |-> 0, data |-> NoData]

Pending(i) == info[i].slot \notin {Free, Out}

(* the wheels that do not reach idx ticks ahead; the last one takes all    *)
Beyond(idx) == {l \in 1 .. Levels - 1 : idx >= Width(l)}

Level(idx) == Cardinality(Beyond(idx)) + 1

(* _add_timer *)
SlotFor(expires) ==
  LET l == Level(Since(expires, last))
  IN <<l, IF l = 1 THEN expires % TvrSize ELSE (expires \div Width(l - 1)) % TvnSize>>

(* what timer_mod and timer_add do with a timer that is in no list         *)
Placed(elapse, count, data) ==
  LET expires == (last + elapse) % Ticks
  IN [slot |-> SlotFor(expires), expires |-> expires,
      elapse |-> elapse, count |-> count, data |-> data]

(* the slots whose timers go one wheel down at last_tick                   *)
CascadedOnce == \* mutant: only tv2 is looked at
  IF last % TvrSize = 0 THEN {<<2, (last \div TvrSize) % TvnSize>>} ELSE {}

Cascaded ==
  {<<l, (last \div Width(l - 1)) % TvnSize>> :
     l \in {m \in 2 .. Levels : last % Width(m - 1) = 0}}

-----------------------------------------------------------------------------
(***************************************************************************)
(* The operations; the caller gives the new info function to its action.   *)
(***************************************************************************)
TimerAdd(i, elapse, count, data) ==
  [info EXCEPT ![i] = Placed(elapse, count, data)]

(* a timer whose callback runs is in no list: it is put back afterwards    *)
TimerMod(i, elapse, count) ==
  IF Pending(i)
    THEN [info EXCEPT ![i] = Placed(elapse, count, @.data)]
    ELSE [info EXCEPT ![i].expires = (last + elapse) % Ticks,
                      ![i].elapse = elapse,
                      ![i].count = count]

TimerDel(i) ==
  IF Pending(i)
    THEN [info EXCEPT ![i] = FreeInfo]
    ELSE [info EXCEPT ![i].count = 0]

-----------------------------------------------------------------------------
(***************************************************************************)
(* timer_update.                                                           *)
(***************************************************************************)
UpdateBegin ==
  /\ pc = "idle"
  /\ pc' = "tick" /\ tick' = now /\ timeOut' = FALSE
  /\ UNCHANGED <<now, last, cur, info>>

BehindUnsigned == tick >= last \* mutant: the numbers are compared

(* the signed difference is not negative                                   *)
Behind == Since(tick, last) < Ticks \div 2

UpdateEnd ==
  /\ pc = "tick" /\ ~Behind
  /\ pc' = "idle"
  /\ UNCHANGED <<now, last, tick, timeOut, cur, info>>

(* the cascades, and tv1[index] becomes the work_list                      *)
TakeTick ==
  /\ pc = "tick" /\ Behind
  /\ LET down(i) == IF info[i].slot \in Cascaded THEN SlotFor(info[i].expires)
                                                 ELSE info[i].slot
         slot(i) == IF down(i) = <<1, last % TvrSize>> THEN Work ELSE down(i)
     IN info' = [i \in Infos |-> [info[i] EXCEPT !.slot = slot(i)]]
  /\ pc' = "work"
  /\ UNCHANGED <<now, last, tick, timeOut, cur>>

(* func_on_timer is called                                                 *)
Fire(i) ==
  /\ pc = "work" /\ info[i].slot = Work /\ info[i].count # 0
  /\ info' = [info EXCEPT ![i].slot = Out,
                          ![i].count = IF @ > 0 THEN @ - 1 ELSE @]
  /\ pc' = "call" /\ cur' = i
  /\ UNCHANGED <<now, last, tick, timeOut>>

(* a timer of which no call is left                                        *)
Discard(i) ==
  /\ pc = "work" /\ info[i].slot = Work /\ info[i].count = 0
  /\ info' = [info EXCEPT ![i] = FreeInfo]
  /\ UNCHANGED <<now, last, pc, tick, timeOut, cur>>

(* func_on_timer has returned                                              *)
Return ==
  /\ pc = "call"
  /\ info' = [info EXCEPT ![cur] =
                IF @.count = 0 THEN FreeInfo ELSE Placed(@.elapse, @.count, @.data)]
  /\ timeOut' = (timeOut \/ (RunTime # 0 /\ Since(now, tick) > RunTime))
  /\ pc' = "work" /\ cur' = NoInfo
  /\ UNCHANGED <<now, last, tick>>

TickDoneUnbounded == \* mutant: last_tick is wider than the ticks
  /\ pc = "work"
  /\ \A i \in Infos : info[i].slot # Work
  /\ last' = last + 1
  /\ pc' = IF timeOut THEN "idle" ELSE "tick"
  /\ UNCHANGED <<now, tick, timeOut, cur, info>>

TickDone ==
  /\ pc = "work"
  /\ \A i \in Infos : info[i].slot # Work
  /\ last' = (last + 1) % Ticks
  /\ pc' = IF timeOut THEN "idle" ELSE "tick"
  /\ UNCHANGED <<now, tick, timeOut, cur, info>>

(* time passes                                                             *)
Clock ==
  /\ Since(now + 1, last) <= MaxLag
  /\ now' = (now + 1) % Ticks
  /\ UNCHANGED <<last, pc, tick, timeOut, cur, info>>

-----------------------------------------------------------------------------
(* create_timer_manager; the clock shows anything                          *)
WheelInit ==
  /\ now \in 0 .. Ticks - 1 /\ last = now
  /\ pc = "idle" /\ tick = now /\ timeOut = FALSE /\ cur = NoInfo
  /\ info = [i \in Infos |-> FreeInfo]
=============================================================================
