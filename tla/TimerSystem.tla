---------------------------- MODULE TimerSystem -----------------------------
(***************************************************************************)
(* common/timer/timer_system.cpp over the timer manager of TimerWheel: an  *)
(* ITimer holds the handle of an info of the manager, and the info points  *)
(* back to the ITimer.  The manager frees an info whose calls are used up  *)
(* and says so to nobody, and uses its memory again; an ITimer may be      *)
(* changed, stopped or destroyed anywhere, its own callback included.      *)
(***************************************************************************)
EXTENDS TimerWheel

CONSTANTS
  Elapses, \* bound: the elapse arguments
  MaxCount \* bound: the largest count argument

ASSUME TimerSystemAssumption ==
  /\ Elapses \subseteq 0 .. Ticks - 1
  /\ MaxCount \in Nat

(* the count arguments: a negative one is for ever                         *)
Counts == -1 .. MaxCount

VARIABLES
  kind,  \* the ITimers: "none", a "caller" or a self-deleting "delay"
  handle \* ITimer::m_timer

vars == <<now, last, pc, tick, timeOut, cur, info, kind, handle>>

-----------------------------------------------------------------------------
(* timer == timer_get_data(timer->GetTimerInfo()) *)
Owns(t) == handle[t] # NoInfo /\ info[handle[t]].data = t

(* the program is outside timer_update, or in a callback                   *)
Running == pc \in {"idle", "call"}

InWheel == UNCHANGED <<now, last, pc, tick, timeOut, cur>>

(* AddTimer of an ITimer without an info of its own                        *)
AddTimer(t, elapse, count) ==
  \E i \in Infos :
    /\ info[i].slot = Free
    /\ info' = TimerAdd(i, elapse, count, t)
    /\ handle' = [handle EXCEPT ![t] = i]

(* CreateTimeCaller, DelayCall *)
Create(t, k, elapse, count) ==
  /\ Running /\ kind[t] = "none"
  /\ kind' = [kind EXCEPT ![t] = k]
  /\ AddTimer(t, elapse, count)
  /\ InWheel

ModifyTimer(t, elapse, count) ==
  /\ Running /\ kind[t] = "caller"
  /\ IF Owns(t)
       THEN info' = TimerMod(handle[t], elapse, count) /\ UNCHANGED handle
       ELSE AddTimer(t, elapse, count)
  /\ UNCHANGED kind
  /\ InWheel

Forget(t) == handle' = [handle EXCEPT ![t] = NoInfo]

DelTimer(t) ==
  /\ Running /\ kind[t] = "caller" /\ handle[t] # NoInfo
  /\ info' = IF Owns(t) THEN TimerDel(handle[t]) ELSE info
  /\ Forget(t)
  /\ UNCHANGED kind
  /\ InWheel

DestroyCallerOnly(t) == \* mutant: the timer goes on
  /\ Running /\ kind[t] = "caller"
  /\ Forget(t)
  /\ kind' = [kind EXCEPT ![t] = "none"]
  /\ UNCHANGED info
  /\ InWheel

(* DestroyCaller; the destructor of a session does the same to its timer   *)
DestroyCaller(t) ==
  /\ Running /\ kind[t] = "caller"
  /\ info' = IF Owns(t) THEN TimerDel(handle[t]) ELSE info
  /\ Forget(t)
  /\ kind' = [kind EXCEPT ![t] = "none"]
  /\ InWheel

(* TimerSystem::OnTimer *)
OnTimer(i) == Fire(i) /\ UNCHANGED <<kind, handle>>

DelayedNow == {t \in Timers : pc = "call" /\ kind[t] = "delay" /\ handle[t] = cur}

(* the callback ends; a DelayCaller without further calls deletes itself   *)
OnTimerEnd ==
  /\ Return
  /\ LET dead == {t \in DelayedNow : info[cur].count = 0}
     IN  /\ kind' = [t \in Timers |-> IF t \in dead THEN "none" ELSE kind[t]]
         /\ handle' = [t \in Timers |-> IF t \in dead THEN NoInfo ELSE handle[t]]

-----------------------------------------------------------------------------
Init ==
  /\ WheelInit
  /\ kind = [t \in Timers |-> "none"]
  /\ handle = [t \in Timers |-> NoInfo]

Update ==
  \/ (UpdateBegin \/ UpdateEnd \/ TakeTick \/ TickDone) /\ UNCHANGED <<kind, handle>>
  \/ \E i \in Infos : Discard(i) /\ UNCHANGED <<kind, handle>>
  \/ \E i \in Infos : OnTimer(i)
  \/ OnTimerEnd

Call(t) ==
  \/ \E elapse \in Elapses, count \in Counts :
       \/ \E k \in {"caller", "delay"} : Create(t, k, elapse, count)
       \/ ModifyTimer(t, elapse, count)
  \/ DelTimer(t)
  \/ DestroyCaller(t)

Next ==
  \/ Update
  \/ \E t \in Timers : Call(t)
  \/ Clock /\ UNCHANGED <<kind, handle>>

(* The main loop calls timer_update again and again, its callbacks return, *)
(* and time passes.                                                        *)
Spec ==
  /\ Init /\ [][Next]_vars
  /\ WF_vars(Update)
  /\ WF_vars(Clock /\ UNCHANGED <<kind, handle>>)

-----------------------------------------------------------------------------
TypeOK ==
  /\ {now, last, tick} \subseteq 0 .. Ticks - 1
  /\ pc \in {"idle", "tick", "work", "call"}
  /\ timeOut \in BOOLEAN
  /\ cur \in Infos \cup {NoInfo}
  /\ info \in [Infos -> [slot : Slots \cup {Free, Out, Work},
                         expires : 0 .. Ticks - 1, elapse : 0 .. Ticks - 1,
                         count : Int, data : Timers \cup {NoData}]]
  /\ kind \in [Timers -> {"none", "caller", "delay"}]
  /\ handle \in [Timers -> Infos \cup {NoInfo}]

(* A callback is called at the tick it was set for, through every wheel    *)
(* and every wrap of the ticks, and no timer is left behind by last_tick.  *)
(* A timer that is set with no delay at all inside a callback comes a turn *)
(* of tv1 late: its slot is the one that has just been emptied.            *)
OnTime ==
  \A i \in Infos : LET late == Since(last, info[i].expires) IN
    /\ info[i].slot = Work =>
         late = 0 \/ (info[i].elapse = 0 /\ late = TvrSize)
    /\ Pending(i) =>
         \/ Since(info[i].expires, last) <= info[i].elapse
         \/ (info[i].elapse = 0 /\ late <= TvrSize)

(* Every info that the manager may call belongs to a living ITimer that    *)
(* knows it: nothing that was destroyed is called, no ITimer is called     *)
(* through two infos, and no info is lost.                                 *)
OwnersKnow ==
  \A i \in Infos :
    info[i].slot # Free /\ i # cur =>
      /\ info[i].data \in Timers
      /\ kind[info[i].data] # "none"
      /\ handle[info[i].data] = i

(* A timer that is left alone is called.                                   *)
TimersCome ==
  \A i \in Infos, expires \in 0 .. Ticks - 1 :
    (Pending(i) /\ info[i].expires = expires) ~>
      (info[i].slot \in {Free, Out} \/ info[i].expires # expires)
=============================================================================
