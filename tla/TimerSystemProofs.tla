------------------------- MODULE TimerSystemProofs --------------------------
(***************************************************************************)
(* The timer manager calls nothing but living ITimers that know it, and    *)
(* calls them at their tick, for every number of ITimers and infos, every  *)
(* number and size of the wheels and every range of delays and counts.     *)
(***************************************************************************)
EXTENDS TimerSystem, FiniteSetTheorems, TLAPS

-----------------------------------------------------------------------------
(***************************************************************************)
(* The inductive invariant.                                                *)
(***************************************************************************)
IsInfo(r) ==
  r = [slot |-> r.slot, expires |-> r.expires, elapse |-> r.elapse,
       count |-> r.count, data |-> r.data]

Shape ==
  /\ info = [i \in Infos |-> info[i]]
  /\ \A i \in Infos : IsInfo(info[i])
  /\ kind \in [Timers -> {"none", "caller", "delay"}]
  /\ handle \in [Timers -> Infos \cup {NoInfo}]

(* What was destroyed knows no info.                                       *)
Forgotten == \A t \in Timers : kind[t] = "none" => handle[t] = NoInfo

(* An info is in no list only while its callback runs.                     *)
Calling ==
  /\ cur \in Infos \cup {NoInfo}
  /\ pc = "call" <=> cur # NoInfo
  /\ \A i \in Infos : info[i].slot = Out => i = cur

Belongs(i) ==
  /\ info[i].data \in Timers
  /\ kind[info[i].data] # "none"
  /\ handle[info[i].data] = i

(* The info whose callback runs may be about to be freed: then its ITimer  *)
(* may be gone.  If it is to be put back, its ITimer is there.             *)
OwnerWaits == cur # NoInfo /\ info[cur].count # 0 => Belongs(cur)

IInv == Shape /\ Forgotten /\ Calling /\ OwnersKnow /\ OwnerWaits

-----------------------------------------------------------------------------
LEMMA LevelRange == \A idx : Level(idx) \in Nat /\ Level(idx) >= 1
<1> TAKE idx
<1>1. IsFiniteSet(1 .. Levels - 1)
  BY FS_Interval, TimerWheelAssumption
<1>2. Beyond(idx) \in SUBSET (1 .. Levels - 1)
  BY DEF Beyond
<1>3. IsFiniteSet(Beyond(idx))
  BY <1>1, <1>2, FS_Subset
<1>4. Cardinality(Beyond(idx)) \in Nat
  BY <1>3, FS_CardinalityType
<1> QED
  BY <1>4 DEF Level

(* A slot of a wheel is none of the other places.                          *)
LEMMA SlotForPlace == \A e : SlotFor(e) \notin {Free, Out, Work}
<1> TAKE e
<1>1. Level(Since(e, last)) # 0
  BY LevelRange
<1> QED
  BY <1>1 DEF SlotFor, Free, Out, Work

LEMMA PlacedFacts ==
  ASSUME NEW e, NEW c, NEW d
  PROVE  /\ IsInfo(Placed(e, c, d))
         /\ Placed(e, c, d).slot \notin {Free, Out, Work}
         /\ Placed(e, c, d).count = c
         /\ Placed(e, c, d).data = d
BY SlotForPlace DEF Placed, IsInfo

LEMMA FreeFacts ==
  /\ IsInfo(FreeInfo)
  /\ FreeInfo.slot = Free /\ FreeInfo.count = 0 /\ FreeInfo.data = NoData
BY DEF FreeInfo, IsInfo

LEMMA Places == Free # Out /\ Free # Work /\ Out # Work
BY DEF Free, Out, Work

(* What writing one info changes.                                          *)
LEMMA PutInfo ==
  ASSUME Shape, NEW i \in Infos, NEW r, IsInfo(r),
         info' = [info EXCEPT ![i] = r]
  PROVE  /\ info' = [j \in Infos |-> info'[j]]
         /\ \A j \in Infos : IsInfo(info'[j])
         /\ info'[i] = r
         /\ \A j \in Infos \ {i} : info'[j] = info[j]
BY DEF Shape

(* timer_mod changes neither the owner nor, of an info in no list, the     *)
(* place.                                                                  *)
LEMMA ModFacts ==
  ASSUME Shape, NEW i \in Infos, NEW e, NEW c
  PROVE  \E r : /\ IsInfo(r)
                /\ TimerMod(i, e, c) = [info EXCEPT ![i] = r]
                /\ r.data = info[i].data
                /\ r.slot = Free => info[i].slot = Free
                /\ r.slot = Out => info[i].slot = Out
<1> DEFINE x == (last + e) % Ticks
           s == [slot |-> info[i].slot, expires |-> x, elapse |-> e,
                 count |-> c, data |-> info[i].data]
<1>1. CASE Pending(i)
  <2>1. TimerMod(i, e, c) = [info EXCEPT ![i] = Placed(e, c, info[i].data)]
    BY <1>1 DEF TimerMod, Shape
  <2>2. WITNESS Placed(e, c, info[i].data)
  <2> QED
    BY <2>1, PlacedFacts
<1>2. CASE ~Pending(i)
  <2>1. IsInfo(info[i]) /\ info = [j \in Infos |-> info[j]]
    BY DEF Shape
  <2>2. [info[i] EXCEPT !.expires = x, !.elapse = e, !.count = c] = s
    <3> DEFINE a == [slot |-> info[i].slot, expires |-> x, elapse |-> info[i].elapse,
                     count |-> info[i].count, data |-> info[i].data]
               b == [slot |-> info[i].slot, expires |-> x, elapse |-> e,
                     count |-> info[i].count, data |-> info[i].data]
    <3>1. [info[i] EXCEPT !.expires = x] = a
      BY <2>1 DEF IsInfo
    <3>2. [a EXCEPT !.elapse = e] = b
      OBVIOUS
    <3>3. [b EXCEPT !.count = c] = s
      OBVIOUS
    <3>4. [info[i] EXCEPT !.expires = x, !.elapse = e, !.count = c]
            = [[[info[i] EXCEPT !.expires = x] EXCEPT !.elapse = e] EXCEPT !.count = c]
      OBVIOUS
    <3> HIDE DEF a, b, s
    <3> QED
      BY <3>1, <3>2, <3>3, <3>4
  <2>3. TimerMod(i, e, c) =
          [info EXCEPT ![i] = [info[i] EXCEPT !.expires = x, !.elapse = e, !.count = c]]
    BY <1>2, <2>1 DEF TimerMod
  <2>4. IsInfo(s) /\ s.data = info[i].data /\ s.slot = info[i].slot
    BY DEF IsInfo
  <2>5. WITNESS s
  <2> QED
    BY <2>2, <2>3, <2>4
<1> QED
  BY <1>1, <1>2

(* timer_del frees the info, or leaves it where it is without calls.       *)
LEMMA DelFacts ==
  ASSUME Shape, NEW i \in Infos
  PROVE  \E r : /\ IsInfo(r)
                /\ TimerDel(i) = [info EXCEPT ![i] = r]
                /\ r.count = 0
                /\ r.slot = Free \/ (r.slot = Out /\ info[i].slot = Out)
<1> DEFINE s == [slot |-> info[i].slot, expires |-> info[i].expires,
                 elapse |-> info[i].elapse, count |-> 0, data |-> info[i].data]
<1>1. CASE Pending(i)
  <2>1. TimerDel(i) = [info EXCEPT ![i] = FreeInfo]
    BY <1>1 DEF TimerDel
  <2>2. WITNESS FreeInfo
  <2> QED
    BY <2>1, FreeFacts
<1>2. CASE ~Pending(i)
  <2>1. IsInfo(info[i]) /\ info = [j \in Infos |-> info[j]]
    BY DEF Shape
  <2>2. [info[i] EXCEPT !.count = 0] = s
    BY <2>1 DEF IsInfo
  <2>3. TimerDel(i) = [info EXCEPT ![i] = [info[i] EXCEPT !.count = 0]]
    BY <1>2, <2>1 DEF TimerDel
  <2>4. IsInfo(s) /\ s.count = 0 /\ s.slot = info[i].slot
    BY DEF IsInfo
  <2>5. s.slot \in {Free, Out}
    BY <1>2, <2>4 DEF Pending
  <2>6. WITNESS s
  <2> QED
    BY <2>2, <2>3, <2>4, <2>5
<1> QED
  BY <1>1, <1>2

-----------------------------------------------------------------------------
(***************************************************************************)
(* Every action keeps the invariant.                                       *)
(***************************************************************************)
LEMMA IInvInit == Init => IInv
<1> SUFFICES ASSUME Init PROVE IInv
  OBVIOUS
<1> USE DEF Init, WheelInit
<1>1. \A i \in Infos : info[i] = FreeInfo
  OBVIOUS
<1>2. Shape
  BY <1>1, FreeFacts DEF Shape
<1>3. Calling
  BY <1>1, FreeFacts, Places DEF Calling
<1>4. OwnersKnow
  BY <1>1, FreeFacts DEF OwnersKnow
<1>5. OwnerWaits /\ Forgotten
  BY DEF OwnerWaits, Forgotten
<1> QED
  BY <1>2, <1>3, <1>4, <1>5 DEF IInv

(* A new timer: no info knows its ITimer, unless it is about to be freed.  *)
LEMMA AddKeeps ==
  ASSUME IInv, NEW t \in Timers, NEW e, NEW c, AddTimer(t, e, c), ~Owns(t),
         UNCHANGED <<pc, cur>>,
         kind' \in [Timers -> {"none", "caller", "delay"}], kind'[t] # "none",
         \A u \in Timers \ {t} : kind'[u] = kind[u]
  PROVE  IInv'
<1> USE DEF IInv
<1>1. PICK i \in Infos : /\ info[i].slot = Free
                         /\ info' = [info EXCEPT ![i] = Placed(e, c, t)]
                         /\ handle' = [handle EXCEPT ![t] = i]
  BY DEF AddTimer, TimerAdd
<1>2. /\ info' = [j \in Infos |-> info'[j]]
      /\ \A j \in Infos : IsInfo(info'[j])
      /\ info'[i] = Placed(e, c, t)
      /\ \A j \in Infos \ {i} : info'[j] = info[j]
  <2> DEFINE r == Placed(e, c, t)
  <2>1. IsInfo(r) /\ info' = [info EXCEPT ![i] = r] /\ Shape
    BY <1>1, PlacedFacts
  <2> HIDE DEF r
  <2>2. QED
    BY <2>1, PutInfo DEF r
<1>3. /\ handle' \in [Timers -> Infos \cup {NoInfo}]
      /\ handle'[t] = i
      /\ \A u \in Timers \ {t} : handle'[u] = handle[u]
  BY <1>1 DEF Shape
<1>4. info'[i].slot \notin {Free, Out} /\ info'[i].data = t
  BY <1>2, PlacedFacts
<1>5. Belongs(i)'
  BY <1>3, <1>4 DEF Belongs
<1>6. \A j \in Infos \ {i} : Belongs(j) => info[j].data # t
  BY TimerWheelAssumption DEF Belongs, Owns
<1>7. \A j \in Infos \ {i} : Belongs(j) => Belongs(j)'
  BY <1>2, <1>3, <1>6 DEF Belongs
<1>8. Shape'
  BY <1>2, <1>3 DEF Shape
<1>9. Calling'
  BY <1>2, <1>4 DEF Calling
<1>10. OwnersKnow'
  BY <1>2, <1>5, <1>7 DEF OwnersKnow, Belongs
<1>11. OwnerWaits'
  BY <1>2, <1>5, <1>7 DEF OwnerWaits, Calling
<1>12. Forgotten'
  BY <1>3 DEF Forgotten
<1> QED
  BY <1>8, <1>9, <1>10, <1>11, <1>12

LEMMA CreateKeeps ==
  ASSUME IInv, NEW t \in Timers, NEW k \in {"caller", "delay"}, NEW e, NEW c,
         Create(t, k, e, c)
  PROVE  IInv'
<1>1. kind' = [kind EXCEPT ![t] = k] /\ kind[t] = "none" /\ AddTimer(t, e, c)
      /\ UNCHANGED <<pc, cur>>
  BY DEF Create, InWheel
<1>2. kind' \in [Timers -> {"none", "caller", "delay"}] /\ kind'[t] # "none"
      /\ \A u \in Timers \ {t} : kind'[u] = kind[u]
  BY <1>1 DEF IInv, Shape
<1>3. ~Owns(t)
  BY <1>1 DEF IInv, Forgotten, Owns
<1> QED
  BY <1>1, <1>2, <1>3, AddKeeps

LEMMA ModifyKeeps ==
  ASSUME IInv, NEW t \in Timers, NEW e, NEW c, ModifyTimer(t, e, c)
  PROVE  IInv'
<1> USE DEF IInv
<1>1. kind[t] = "caller" /\ kind' = kind /\ UNCHANGED <<pc, cur>>
  BY DEF ModifyTimer, InWheel
<1>2. CASE ~Owns(t)
  <2>1. AddTimer(t, e, c)
    BY <1>2 DEF ModifyTimer
  <2>2. kind' \in [Timers -> {"none", "caller", "delay"}] /\ kind'[t] # "none"
        /\ \A u \in Timers \ {t} : kind'[u] = kind[u]
    BY <1>1 DEF Shape
  <2> QED
    BY <1>1, <1>2, <2>1, <2>2, AddKeeps
<1>3. CASE Owns(t)
  <2> DEFINE h == handle[t]
  <2>1. /\ handle' = handle /\ info' = TimerMod(h, e, c)
        /\ h \in Infos /\ info[h].data = t
    BY <1>3 DEF ModifyTimer, Owns, Shape
  <2> HIDE DEF h
  <2>2. PICK r : /\ IsInfo(r)
                 /\ info' = [info EXCEPT ![h] = r]
                 /\ r.data = info[h].data
                 /\ r.slot = Free => info[h].slot = Free
                 /\ r.slot = Out => info[h].slot = Out
    BY <2>1, ModFacts
  <2>3. /\ info' = [j \in Infos |-> info'[j]]
        /\ \A j \in Infos : IsInfo(info'[j])
        /\ info'[h] = r
        /\ \A j \in Infos \ {h} : info'[j] = info[j]
    BY <2>1, <2>2, PutInfo
  <2>4. \A j \in Infos : info'[j].data = info[j].data
    BY <2>1, <2>2, <2>3
  <2>5. \A j \in Infos : Belongs(j) => Belongs(j)'
    BY <1>1, <2>1, <2>4 DEF Belongs
  <2>6. Belongs(h)
    BY <1>1, <2>1 DEF Belongs, h
  <2>7. Shape'
    BY <1>1, <2>1, <2>3 DEF Shape
  <2>8. Forgotten'
    BY <1>1, <2>1 DEF Forgotten
  <2>9. Calling'
    BY <1>1, <2>2, <2>3 DEF Calling
  <2>10. OwnersKnow'
    BY <1>1, <2>3, <2>5, <2>6 DEF OwnersKnow, Belongs
  <2>11. OwnerWaits'
    BY <1>1, <2>3, <2>5, <2>6 DEF OwnerWaits, Calling
  <2> QED
    BY <2>7, <2>8, <2>9, <2>10, <2>11
<1> QED
  BY <1>2, <1>3

(* An ITimer is stopped, and may be destroyed as well.                     *)
LEMMA DropKeeps ==
  ASSUME IInv, NEW t \in Timers,
         info' = (IF Owns(t) THEN TimerDel(handle[t]) ELSE info), Forget(t),
         UNCHANGED <<pc, cur>>,
         kind' \in [Timers -> {"none", "caller", "delay"}],
         \A u \in Timers \ {t} : kind'[u] = kind[u]
  PROVE  IInv'
<1> USE DEF IInv
<1> DEFINE h == handle[t]
<1>1. /\ handle' \in [Timers -> Infos \cup {NoInfo}]
      /\ handle'[t] = NoInfo
      /\ \A u \in Timers \ {t} : handle'[u] = handle[u]
  BY DEF Shape, Forget
<1>2. Forgotten'
  BY <1>1 DEF Forgotten
<1>3. \A j \in Infos : Belongs(j) /\ info[j].data = t => Owns(t) /\ h = j
  BY TimerWheelAssumption DEF Belongs, Owns
<1>4. CASE ~Owns(t)
  <2>1. info' = info
    BY <1>4
  <2>2. \A j \in Infos : Belongs(j) => Belongs(j)'
    BY <1>1, <1>3, <1>4, <2>1 DEF Belongs
  <2>3. Shape'
    BY <1>1, <2>1 DEF Shape
  <2>4. Calling'
    BY <2>1 DEF Calling
  <2>5. OwnersKnow'
    BY <2>1, <2>2 DEF OwnersKnow, Belongs
  <2>6. OwnerWaits'
    BY <2>1, <2>2 DEF OwnerWaits, Calling
  <2> QED
    BY <1>2, <2>3, <2>4, <2>5, <2>6
<1>5. CASE Owns(t)
  <2>1. info' = TimerDel(h) /\ h \in Infos /\ info[h].data = t
    BY <1>5 DEF Owns, Shape
  <2>2. \A j \in Infos \ {h} : Belongs(j) => info[j].data # t
    BY <1>3
  <2> HIDE DEF h
  <2>3. PICK r : /\ IsInfo(r)
                 /\ info' = [info EXCEPT ![h] = r]
                 /\ r.count = 0
                 /\ r.slot = Free \/ (r.slot = Out /\ info[h].slot = Out)
    BY <2>1, DelFacts
  <2>4. /\ info' = [j \in Infos |-> info'[j]]
        /\ \A j \in Infos : IsInfo(info'[j])
        /\ info'[h] = r
        /\ \A j \in Infos \ {h} : info'[j] = info[j]
    BY <2>1, <2>3, PutInfo
  <2>5. \A j \in Infos \ {h} : Belongs(j) => Belongs(j)'
    BY <1>1, <2>2, <2>4 DEF Belongs
  <2>6. Shape'
    BY <1>1, <2>4 DEF Shape
  <2>7. Calling'
    BY <2>3, <2>4, Places DEF Calling
  <2>8. OwnersKnow'
    BY <2>3, <2>4, <2>5 DEF OwnersKnow, Belongs, Calling
  <2>9. OwnerWaits'
    BY <2>3, <2>4, <2>5 DEF OwnerWaits, Calling
  <2> QED
    BY <1>2, <2>6, <2>7, <2>8, <2>9
<1> QED
  BY <1>4, <1>5

LEMMA DelKeeps ==
  ASSUME IInv, NEW t \in Timers, DelTimer(t)
  PROVE  IInv'
<1>1. kind' \in [Timers -> {"none", "caller", "delay"}]
      /\ \A u \in Timers \ {t} : kind'[u] = kind[u]
  BY DEF IInv, Shape, DelTimer
<1> QED
  BY <1>1, DropKeeps DEF DelTimer, InWheel

LEMMA DestroyKeeps ==
  ASSUME IInv, NEW t \in Timers, DestroyCaller(t)
  PROVE  IInv'
<1>1. kind' \in [Timers -> {"none", "caller", "delay"}]
      /\ \A u \in Timers \ {t} : kind'[u] = kind[u]
  BY DEF IInv, Shape, DestroyCaller
<1> QED
  BY <1>1, DropKeeps DEF DestroyCaller, InWheel

LEMMA TakeTickKeeps ==
  ASSUME IInv, TakeTick, UNCHANGED <<kind, handle>>
  PROVE  IInv'
<1> USE DEF IInv
<1> DEFINE down(i) == IF info[i].slot \in Cascaded THEN SlotFor(info[i].expires)
                                                   ELSE info[i].slot
           slot(i) == IF down(i) = <<1, last % TvrSize>> THEN Work ELSE down(i)
<1>1. /\ info' = [i \in Infos |-> [info[i] EXCEPT !.slot = slot(i)]]
      /\ pc = "tick" /\ pc' = "work" /\ cur' = cur
  BY DEF TakeTick
<1>2. cur = NoInfo
  BY <1>1 DEF Calling
<1>3. Free \notin Cascaded
  BY DEF Free, Cascaded
<1>4. \A i \in Infos : slot(i) = Free <=> info[i].slot = Free
  <2> TAKE i \in Infos
  <2>1. <<1, last % TvrSize>> # Free
    BY DEF Free
  <2>2. SlotFor(info[i].expires) # Free
    BY SlotForPlace
  <2> QED
    BY <1>3, <2>1, <2>2, Places
<1>5. \A i \in Infos : slot(i) # Out
  <2> TAKE i \in Infos
  <2>1. info[i].slot # Out
    BY <1>2, TimerWheelAssumption DEF Calling
  <2>2. SlotFor(info[i].expires) # Out
    BY SlotForPlace
  <2> QED
    BY <2>1, <2>2, Places
<1> HIDE DEF slot
<1>6. \A i \in Infos :
        info'[i] = [slot |-> slot(i), expires |-> info[i].expires,
                    elapse |-> info[i].elapse, count |-> info[i].count,
                    data |-> info[i].data]
  <2> TAKE i \in Infos
  <2>1. info'[i] = [info[i] EXCEPT !.slot = slot(i)]
    BY <1>1
  <2>2. IsInfo(info[i])
    BY DEF Shape
  <2> QED
    BY <2>1, <2>2 DEF IsInfo
<1>7. \A i \in Infos : /\ IsInfo(info'[i])
                       /\ info'[i].slot = slot(i)
                       /\ info'[i].data = info[i].data
  <2> TAKE i \in Infos
  <2> DEFINE s == slot(i)
             r == info'[i]
  <2>1. r = [slot |-> s, expires |-> info[i].expires, elapse |-> info[i].elapse,
             count |-> info[i].count, data |-> info[i].data]
    BY <1>6
  <2> HIDE DEF s, r
  <2>2. IsInfo(r) /\ r.slot = s /\ r.data = info[i].data
    BY <2>1 DEF IsInfo
  <2> QED
    BY <2>2 DEF s, r
<1>8. Shape'
  <2>1. info' = [i \in Infos |-> info'[i]]
    BY <1>1
  <2> QED
    BY <1>7, <2>1 DEF Shape
<1>9. Calling'
  BY <1>1, <1>2, <1>5, <1>7 DEF Calling
<1>10. \A i \in Infos : Belongs(i) => Belongs(i)'
  BY <1>7 DEF Belongs
<1>11. OwnersKnow'
  BY <1>1, <1>4, <1>7, <1>10 DEF OwnersKnow, Belongs
<1>12. OwnerWaits' /\ Forgotten'
  BY <1>1, <1>2 DEF OwnerWaits, Forgotten
<1> QED
  BY <1>8, <1>9, <1>11, <1>12

LEMMA DiscardKeeps ==
  ASSUME IInv, NEW i \in Infos, Discard(i), UNCHANGED <<kind, handle>>
  PROVE  IInv'
<1> USE DEF IInv
<1>1. info' = [info EXCEPT ![i] = FreeInfo] /\ pc = "work" /\ UNCHANGED <<pc, cur>>
  BY DEF Discard
<1>2. /\ info' = [j \in Infos |-> info'[j]]
      /\ \A j \in Infos : IsInfo(info'[j])
      /\ info'[i] = FreeInfo
      /\ \A j \in Infos \ {i} : info'[j] = info[j]
  BY <1>1, PutInfo, FreeFacts
<1>3. Shape'
  BY <1>2 DEF Shape
<1>4. Calling'
  BY <1>1, <1>2, FreeFacts, Places DEF Calling
<1>5. OwnersKnow'
  BY <1>1, <1>2, FreeFacts DEF OwnersKnow
<1>6. OwnerWaits' /\ Forgotten'
  BY <1>1 DEF OwnerWaits, Calling, Forgotten
<1> QED
  BY <1>3, <1>4, <1>5, <1>6

LEMMA FireKeeps ==
  ASSUME IInv, NEW i \in Infos, OnTimer(i)
  PROVE  IInv'
<1> USE DEF IInv
<1> DEFINE n == IF info[i].count > 0 THEN info[i].count - 1 ELSE info[i].count
           r == [slot |-> Out, expires |-> info[i].expires,
                 elapse |-> info[i].elapse, count |-> n, data |-> info[i].data]
<1>1. /\ pc = "work" /\ info[i].slot = Work
      /\ pc' = "call" /\ cur' = i /\ UNCHANGED <<kind, handle>>
  BY DEF OnTimer, Fire
<1>2. cur = NoInfo
  BY <1>1 DEF Calling
<1>3. info' = [info EXCEPT ![i] = r]
  <2>1. IsInfo(info[i]) /\ info = [j \in Infos |-> info[j]]
    BY DEF Shape
  <2> DEFINE a == [slot |-> Out, expires |-> info[i].expires, elapse |-> info[i].elapse,
                   count |-> info[i].count, data |-> info[i].data]
  <2>2. info' = [info EXCEPT ![i] = [[info[i] EXCEPT !.slot = Out] EXCEPT !.count = n]]
    BY <2>1 DEF OnTimer, Fire
  <2>3. [info[i] EXCEPT !.slot = Out] = a
    BY <2>1 DEF IsInfo
  <2>4. [a EXCEPT !.count = n] = r
    OBVIOUS
  <2> HIDE DEF a, r, n
  <2> QED
    BY <2>2, <2>3, <2>4
<1>4. IsInfo(r) /\ r.slot = Out /\ r.data = info[i].data
  BY DEF IsInfo
<1> HIDE DEF r
<1>5. /\ info' = [j \in Infos |-> info'[j]]
      /\ \A j \in Infos : IsInfo(info'[j])
      /\ info'[i] = r
      /\ \A j \in Infos \ {i} : info'[j] = info[j]
  BY <1>3, <1>4, PutInfo
<1>6. \A j \in Infos : Belongs(j) => Belongs(j)'
  BY <1>1, <1>4, <1>5 DEF Belongs
<1>7. Belongs(i)
  BY <1>1, <1>2, Places, TimerWheelAssumption DEF OwnersKnow, Belongs
<1>8. Shape'
  BY <1>1, <1>5 DEF Shape
<1>9. Calling'
  BY <1>1, <1>2, <1>5, TimerWheelAssumption DEF Calling
<1>10. OwnersKnow'
  BY <1>1, <1>2, <1>5, <1>6, TimerWheelAssumption DEF OwnersKnow, Belongs
<1>11. OwnerWaits' /\ Forgotten'
  BY <1>1, <1>6, <1>7 DEF OwnerWaits, Forgotten
<1> QED
  BY <1>8, <1>9, <1>10, <1>11

(* A DelayCall that deletes itself is not known to another info.           *)
LEMMA ReturnKeeps ==
  ASSUME IInv, OnTimerEnd
  PROVE  IInv'
<1> USE DEF IInv
<1> DEFINE r == IF info[cur].count = 0
                  THEN FreeInfo
                  ELSE Placed(info[cur].elapse, info[cur].count, info[cur].data)
           dead == {t \in DelayedNow : info[cur].count = 0}
<1>1. /\ pc = "call" /\ pc' = "work" /\ cur' = NoInfo
      /\ kind' = [t \in Timers |-> IF t \in dead THEN "none" ELSE kind[t]]
      /\ handle' = [t \in Timers |-> IF t \in dead THEN NoInfo ELSE handle[t]]
  BY DEF OnTimerEnd, Return
<1>2. cur \in Infos /\ cur # NoInfo
  BY <1>1 DEF Calling
<1>3. info' = [info EXCEPT ![cur] = r]
  BY <1>2 DEF OnTimerEnd, Return, Shape
<1>4. /\ IsInfo(r) /\ r.slot # Out
      /\ info[cur].count = 0 => r.slot = Free
      /\ info[cur].count # 0 => r.data = info[cur].data
  BY FreeFacts, PlacedFacts, Places
<1>5. \A t \in dead : info[cur].count = 0 /\ handle[t] = cur
  BY DEF DelayedNow
<1> HIDE DEF r, dead
<1>6. /\ info' = [j \in Infos |-> info'[j]]
      /\ \A j \in Infos : IsInfo(info'[j])
      /\ info'[cur] = r
      /\ \A j \in Infos \ {cur} : info'[j] = info[j]
  BY <1>2, <1>3, <1>4, PutInfo
<1>7. \A j \in Infos \ {cur} : Belongs(j) => Belongs(j)'
  BY <1>1, <1>5, <1>6 DEF Belongs
<1>8. ASSUME info[cur].count # 0 PROVE \A j \in Infos : j = cur => Belongs(j)'
  <2>1. Belongs(cur)
    BY <1>2, <1>8 DEF OwnerWaits
  <2>2. kind' = kind /\ handle' = handle
    <3>1. \A t \in Timers : t \notin dead
      BY <1>5, <1>8
    <3> QED
      BY <1>1, <3>1 DEF Shape
  <2>3. info'[cur].data = info[cur].data
    BY <1>4, <1>6, <1>8
  <2> QED
    BY <2>1, <2>2, <2>3 DEF Belongs
<1>9. Shape'
  BY <1>1, <1>6 DEF Shape
<1>10. Calling'
  BY <1>1, <1>2, <1>4, <1>6 DEF Calling
<1>11. OwnersKnow'
  <2> SUFFICES ASSUME NEW j \in Infos, info'[j].slot # Free PROVE Belongs(j)'
    BY DEF OwnersKnow, Belongs
  <2>1. CASE j = cur
    BY <1>4, <1>6, <1>8, <2>1
  <2>2. CASE j # cur
    BY <1>6, <1>7, <2>2 DEF OwnersKnow, Belongs
  <2> QED
    BY <2>1, <2>2
<1>12. OwnerWaits' /\ Forgotten'
  BY <1>1 DEF OwnerWaits, Forgotten
<1> QED
  BY <1>9, <1>10, <1>11, <1>12

LEMMA IInvNext == IInv /\ [Next]_vars => IInv'
<1> SUFFICES ASSUME IInv, [Next]_vars PROVE IInv'
  OBVIOUS
<1>1. ASSUME UNCHANGED <<pc, cur, info, kind, handle>> PROVE IInv'
  BY <1>1 DEF IInv, Shape, Forgotten, Calling, OwnersKnow, OwnerWaits, Belongs
<1>2. CASE UNCHANGED vars
  BY <1>1, <1>2 DEF vars
<1>3. CASE Clock /\ UNCHANGED <<kind, handle>>
  BY <1>1, <1>3 DEF Clock
<1>4. CASE Update
  <2>1. ASSUME UNCHANGED <<cur, info, kind, handle>>,
               pc # "call" /\ pc' # "call"
        PROVE  IInv'
    BY <2>1 DEF IInv, Shape, Forgotten, Calling, OwnersKnow, OwnerWaits, Belongs
  <2>2. CASE (UpdateBegin \/ UpdateEnd \/ TickDone) /\ UNCHANGED <<kind, handle>>
    BY <2>1, <2>2 DEF UpdateBegin, UpdateEnd, TickDone
  <2>3. CASE TakeTick /\ UNCHANGED <<kind, handle>>
    BY <2>3, TakeTickKeeps
  <2>4. CASE \E i \in Infos : Discard(i) /\ UNCHANGED <<kind, handle>>
    BY <2>4, DiscardKeeps
  <2>5. CASE \E i \in Infos : OnTimer(i)
    BY <2>5, FireKeeps
  <2>6. CASE OnTimerEnd
    BY <2>6, ReturnKeeps
  <2> QED
    BY <1>4, <2>2, <2>3, <2>4, <2>5, <2>6 DEF Update
<1>5. ASSUME NEW t \in Timers, Call(t) PROVE IInv'
  BY <1>5, CreateKeeps, ModifyKeeps, DelKeeps, DestroyKeeps DEF Call
<1> QED
  BY <1>2, <1>3, <1>4, <1>5 DEF Next

-----------------------------------------------------------------------------
(* Whatever is set, changed, stopped and destroyed, inside callbacks and   *)
(* outside them, every info that timer_update may call belongs to a living *)
(* ITimer that knows it.                                                   *)
THEOREM OnlyLivingOwners == Spec => []OwnersKnow
<1>1. IInv => OwnersKnow
  BY DEF IInv
<1> QED
  BY <1>1, IInvInit, IInvNext, PTL DEF Spec

-----------------------------------------------------------------------------
(***************************************************************************)
(* The ranges.                                                             *)
(***************************************************************************)
Tick == 0 .. Ticks - 1
InfoRec == [slot : Slots \cup {Free, Out, Work}, expires : Tick, elapse : Tick,
            count : Int, data : Timers \cup {NoData}]

(* A set of numbers has a least element: with this, induction is a search  *)
(* for the least counterexample.                                           *)
LEMMA Least == ASSUME NEW A \in SUBSET Nat, A # {} PROVE \E n \in A : \A m \in A : n <= m
<1> DEFINE U == {0 .. n : n \in A}
<1>1. IsWellFoundedOn(StrictSubsetOrdering(Nat), FiniteSubsetsOf(Nat))
  BY FS_StrictSubsetOrderingWellFounded
<1>2. U \subseteq FiniteSubsetsOf(Nat) /\ U # {}
  <2>1. \A n \in A : IsFiniteSet(0 .. n) /\ (0 .. n) \in SUBSET Nat
    BY FS_Interval
  <2> QED BY <2>1 DEF FiniteSubsetsOf
<1>3. \E x \in U : \A y \in U : ~ (<<y, x>> \in StrictSubsetOrdering(Nat))
  <2> HIDE DEF U
  <2> QED BY <1>1, <1>2, WFMin
<1>4. PICK n \in A : \A m \in A : ~ (<<0 .. m, 0 .. n>> \in StrictSubsetOrdering(Nat))
  BY <1>3
<1>5. ASSUME NEW m \in A, m < n PROVE FALSE
  <2> DEFINE a == 0 .. m
             b == 0 .. n
  <2>1. a \in SUBSET Nat /\ b \in SUBSET Nat /\ a \subseteq b /\ a # b
    <3>1. n \in 0 .. n /\ n \notin 0 .. m
      BY <1>5
    <3> QED BY <1>5, <3>1
  <2>2. <<a, b>> \in StrictSubsetOrdering(Nat)
    <3> HIDE DEF a, b
    <3> QED BY <2>1 DEF StrictSubsetOrdering
  <2> QED BY <2>2, <1>4
<1> QED BY <1>5

LEMMA Grows ==
  ASSUME NEW a \in Nat \ {0}, NEW n \in Nat \ {0, 1}
  PROVE  n * a \in Nat \ {0} /\ a < n * a
OBVIOUS

(* Each wheel is TvnSize times as wide as the one below.                   *)
LEMMA WidthsArePositive == \A l \in 1 .. Levels : Width(l) \in Nat \ {0}
<1> DEFINE A == {l \in 1 .. Levels : Width(l) \notin Nat \ {0}}
<1>1. Levels \in Nat /\ TvnSize \in Nat \ {0, 1} /\ TvrSize \in Nat \ {0, 1}
  BY TimerWheelAssumption
<1> SUFFICES ASSUME A # {} PROVE FALSE
  OBVIOUS
<1>2. PICK n \in A : \A m \in A : n <= m
  <2>1. A \in SUBSET Nat
    BY <1>1
  <2> QED BY <2>1, Least
<1>3. CASE n = 1
  BY <1>1, <1>2, <1>3, TimerWheelAssumption
<1>4. CASE n # 1
  <2>1. n \in 2 .. Levels /\ n - 1 \in 1 .. Levels /\ n - 1 \notin A
    BY <1>1, <1>2, <1>4
  <2>2. Width(n) = TvnSize * Width(n - 1) /\ Width(n - 1) \in Nat \ {0}
    BY <2>1, TimerWheelAssumption
  <2> QED BY <1>1, <1>2, <2>2, Grows
<1> QED BY <1>3, <1>4

LEMMA WidthsGrow ==
  ASSUME NEW a \in 1 .. Levels, NEW b \in 1 .. Levels, a <= b
  PROVE  Width(a) <= Width(b)
<1> DEFINE A == {l \in a .. Levels : Width(l) < Width(a)}
<1>1. Levels \in Nat /\ TvnSize \in Nat \ {0, 1}
  BY TimerWheelAssumption
<1>2. ASSUME A # {} PROVE FALSE
  <2>1. PICK n \in A : \A m \in A : n <= m
    <3>1. A \in SUBSET Nat
      BY <1>1
    <3> QED BY <1>2, <3>1, Least
  <2>2. Width(n) < Width(a) /\ n # a
    BY <2>1, WidthsArePositive
  <2>3. n \in 2 .. Levels /\ n - 1 \in a .. Levels /\ n - 1 \in 1 .. Levels /\ n - 1 \notin A
    BY <1>1, <2>1, <2>2
  <2>4. Width(n) = TvnSize * Width(n - 1) /\ Width(n - 1) \in Nat \ {0} /\ Width(a) \in Nat
    BY <2>3, TimerWheelAssumption, WidthsArePositive
  <2>5. Width(n - 1) >= Width(a)
    BY <2>3, <2>4
  <2>6. Width(n - 1) < Width(n) /\ Width(n) \in Nat
    BY <1>1, <2>4, Grows
  <2> QED BY <2>2, <2>4, <2>5, <2>6
<1>3. b \in a .. Levels /\ Width(a) \in Nat /\ Width(b) \in Nat
  BY <1>1, WidthsArePositive
<1> QED BY <1>2, <1>3

LEMMA Sizes ==
  /\ Ticks \in Nat \ {0} /\ TvrSize \in Nat \ {0, 1} /\ TvnSize \in Nat \ {0, 1}
  /\ Levels \in Nat \ {0, 1} /\ \A l \in 1 .. Levels : Width(l) \in Nat \ {0}
  /\ Width(1) = TvrSize /\ TvrSize < Ticks
  /\ \E q \in Nat : Ticks = TvrSize * q
<1>1. TvrSize \in Nat \ {0, 1} /\ TvnSize \in Nat \ {0, 1} /\ Levels \in Nat \ {0, 1}
  BY TimerWheelAssumption
<1>2. 1 \in 1 .. Levels /\ 2 \in 1 .. Levels /\ 2 \in 2 .. Levels /\ Levels \in 1 .. Levels
  BY <1>1
<1>3. Width(1) = TvrSize
  BY TimerWheelAssumption
<1>4. Width(2) = TvnSize * Width(1)
  BY <1>2, TimerWheelAssumption
<1>5. Width(2) \in Nat /\ TvrSize < Width(2)
  BY <1>1, <1>3, <1>4, Grows
<1>6. Ticks \in Nat \ {0} /\ Width(2) <= Ticks
  BY <1>2, WidthsArePositive, WidthsGrow DEF Ticks
<1>7. \E q \in Nat : Ticks = TvrSize * q
  <2> DEFINE q == TvnSize ^ (Levels - 1)
  <2>1. q \in Int /\ Ticks = TvrSize * q
    BY <1>1 DEF Ticks, Width
  <2>2. q \in Nat
    <3> HIDE DEF q
    <3> QED BY <1>1, <1>6, <2>1
  <2> QED BY <2>1, <2>2
<1> QED BY <1>1, <1>3, <1>5, <1>6, <1>7, WidthsArePositive

LEMMA InTicks == \A n \in Int : n % Ticks \in Tick
BY Sizes DEF Tick

(* Ticks that wrap round.                                                  *)
LEMMA SinceIs ==
  ASSUME NEW a \in Tick, NEW b \in Tick
  PROVE  /\ Since(a, b) \in Tick
         /\ Since(a, b) = IF b <= a THEN a - b ELSE a - b + Ticks
<1>1. Ticks \in Nat \ {0}
  BY Sizes
<1>2. a - b \in Int /\ -Ticks < a - b /\ a - b < Ticks
  BY <1>1 DEF Tick
<1>3. \A n \in 0 .. Ticks - 1 : n % Ticks = n
  BY <1>1
<1>4. \A n \in -Ticks .. -1 : n % Ticks = n + Ticks
  BY <1>1
<1> QED BY <1>1, <1>2, <1>3, <1>4 DEF Tick, Since

LEMMA PlusIs ==
  ASSUME NEW a \in Tick, NEW n \in Tick
  PROVE  /\ (a + n) % Ticks \in Tick
         /\ (a + n) % Ticks = IF a + n < Ticks THEN a + n ELSE a + n - Ticks
         /\ Since((a + n) % Ticks, a) = n
<1>1. Ticks \in Nat \ {0}
  BY Sizes
<1>2. a \in Int /\ n \in Int /\ a + n \in 0 .. 2 * Ticks - 2
  BY <1>1 DEF Tick
<1>3. \A m \in 0 .. 2 * Ticks - 2 : m % Ticks = IF m < Ticks THEN m ELSE m - Ticks
  BY <1>1
<1>4. (a + n) % Ticks = IF a + n < Ticks THEN a + n ELSE a + n - Ticks
  <2>1. CASE a + n < Ticks
    <3>1. a + n \in 0 .. Ticks - 1
      BY <1>1, <1>2, <2>1
    <3> QED BY <1>1, <2>1, <3>1
  <2>2. CASE ~ (a + n < Ticks)
    <3>1. a + n - Ticks \in 0 .. Ticks - 1 /\ a + n = Ticks * 1 + (a + n - Ticks)
      BY <1>1, <1>2, <2>2
    <3> QED BY <1>1, <2>2, <3>1
  <2> QED BY <2>1, <2>2
<1>5. (a + n) % Ticks \in Tick
  BY <1>1, <1>2, <1>4 DEF Tick
<1>6. Since((a + n) % Ticks, a) = n
  <2> DEFINE e == (a + n) % Ticks
  <2> HIDE DEF e
  <2>1. Since(e, a) = IF a <= e THEN e - a ELSE e - a + Ticks
    BY <1>5, SinceIs DEF e
  <2>2. e = IF a + n < Ticks THEN a + n ELSE a + n - Ticks
    BY <1>4 DEF e
  <2> QED BY <1>1, <1>2, <2>1, <2>2 DEF e, Tick
<1> QED BY <1>4, <1>5, <1>6

LEMMA Division ==
  ASSUME NEW n \in Nat, NEW d \in Nat \ {0}
  PROVE  n \div d \in Int /\ n % d \in 0 .. d - 1 /\ n = d * (n \div d) + (n % d)
BY SMT

LEMMA Multiples ==
  ASSUME NEW d \in Nat \ {0}, NEW m \in Int
  PROVE  /\ 0 <= d * m /\ d * m < d => m = 0
         /\ 0 < d * m /\ d * m <= d => m = 1
<1>1. m < 0 => d * m < 0
  OBVIOUS
<1>2. m >= 1 => d * m >= d
  OBVIOUS
<1>3. m >= 2 => d * m >= 2 * d
  OBVIOUS
<1> QED BY <1>1, <1>2, <1>3

LEMMA Quotient ==
  ASSUME NEW d \in Nat \ {0}, NEW q \in Int
  PROVE  (d * q) \div d = q /\ (d * q) % d = 0
OBVIOUS

(* Where two ticks in the first wheel are the same slot of it.             *)
LEMMA SameSlot ==
  ASSUME NEW a \in Tick, NEW b \in Tick
  PROVE  /\ a % TvrSize = b % TvrSize /\ Since(a, b) < TvrSize => Since(a, b) = 0
         /\ a % TvrSize = b % TvrSize /\ Since(a, b) \in 1 .. TvrSize => Since(a, b) = TvrSize
         /\ Since(a, b) = TvrSize => a % TvrSize = b % TvrSize
<1>1. PICK q \in Nat : Ticks = TvrSize * q
  BY Sizes
<1> DEFINE t == TvrSize
           x == a \div t
           y == b \div t
           r == a % t
           s == b % t
<1>2. t \in Nat \ {0}
  BY Sizes
<1>3. /\ x \in Int /\ r \in 0 .. t - 1 /\ a = t * x + r
      /\ y \in Int /\ s \in 0 .. t - 1 /\ b = t * y + s
  BY <1>2, Division DEF Tick
<1>4. PICK c \in {0, 1} : Since(a, b) = a - b + c * (t * q)
  BY <1>1, <1>2, SinceIs DEF Tick
<1> DEFINE m == x - y + c * q
<1> HIDE DEF x, y, r, s, t
<1>5. m \in Int /\ Since(a, b) = t * m + (r - s)
  BY <1>2, <1>3, <1>4
<1> HIDE DEF m
<1>6. r = s /\ Since(a, b) < t => Since(a, b) = 0
  <2>1. Since(a, b) >= 0
    BY SinceIs DEF Tick
  <2> QED BY <1>2, <1>3, <1>5, <2>1, Multiples
<1>7. r = s /\ Since(a, b) \in 1 .. t => Since(a, b) = t
  BY <1>2, <1>3, <1>5, Multiples
<1>8. Since(a, b) = t => r = s
  <2> SUFFICES ASSUME t * m + (r - s) = t PROVE r = s
    BY <1>5
  <2> DEFINE k == m - 1
  <2>1. k \in Int /\ t * k = s - r
    BY <1>2, <1>3, <1>5
  <2>2. -t < t * k /\ t * k < t
    BY <1>2, <1>3, <2>1
  <2>3. k >= 1 => t * k >= t
    BY <1>2, <2>1
  <2>4. k <= -1 => t * k <= -t
    BY <1>2, <2>1
  <2>5. k = 0
    <3> HIDE DEF k
    <3> QED BY <2>1, <2>2, <2>3, <2>4, <1>2
  <2> QED BY <1>2, <1>3, <2>1, <2>5
<1> QED BY <1>6, <1>7, <1>8 DEF r, s, t

(* What is left of a coarse time is over when last_tick stands at a        *)
(* multiple of its unit.                                                   *)
LEMMA UnitBegins ==
  ASSUME NEW e \in Tick, NEW b \in Tick, NEW w \in Nat \ {0}, Since(e, b) = e % w
  PROVE  b % w = 0 /\ b \div w = e \div w
<1> DEFINE q == e \div w
           r == e % w
<1>1. q \in Int /\ r \in 0 .. w - 1 /\ e = w * q + r
  BY Division DEF Tick
<1>2. q >= 0
  <2> HIDE DEF q, r
  <2>1. q <= -1 => w * q <= -w
    BY <1>1
  <2> QED BY <1>1, <2>1 DEF Tick
<1>3. w * q >= 0
  <2> HIDE DEF q, r
  <2> QED BY <1>1, <1>2
<1>4. r = IF b <= e THEN e - b ELSE e - b + Ticks
  BY SinceIs
<1>5. b = w * q
  <2> HIDE DEF q, r
  <2>1. Ticks \in Nat
    BY Sizes
  <2>2. b \in Int /\ b < Ticks /\ e \in Int
    BY <2>1 DEF Tick
  <2> QED BY <1>1, <1>3, <1>4, <2>1, <2>2
<1>6. (w * q) \div w = q /\ (w * q) % w = 0
  <2> HIDE DEF q, r
  <2> QED BY <1>1, Quotient
<1> QED BY <1>5, <1>6

LEMMA LevelIs == \A idx : Level(idx) \in 1 .. Levels
<1> TAKE idx
<1>1. IsFiniteSet(1 .. Levels - 1) /\ Cardinality(1 .. Levels - 1) = Levels - 1
  <2>1. 1 \in Int /\ Levels - 1 \in Int /\ Levels - 1 >= 1
    BY Sizes
  <2> DEFINE n == Levels - 1
  <2>2. Cardinality(1 .. n) = (IF 1 > n THEN 0 ELSE n - 1 + 1) /\ IsFiniteSet(1 .. n)
    BY <2>1, FS_Interval
  <2> QED BY <2>1, <2>2
<1>2. Beyond(idx) \in SUBSET (1 .. Levels - 1)
  BY DEF Beyond
<1>3. IsFiniteSet(Beyond(idx)) /\ Cardinality(Beyond(idx)) <= Levels - 1
  <2>1. IsFiniteSet(Beyond(idx)) /\ Cardinality(Beyond(idx)) <= Cardinality(1 .. Levels - 1)
    BY ZenonT(60), <1>1, <1>2, FS_Subset
  <2> QED BY <1>1, <2>1
<1>4. Cardinality(Beyond(idx)) \in Nat
  BY <1>3, FS_CardinalityType
<1> QED
  BY <1>3, <1>4, Sizes DEF Level

(* The wheel that _add_timer chooses is coarse enough and not too coarse.  *)
LEMMA LevelFits ==
  ASSUME NEW idx \in Tick
  PROVE  /\ Level(idx) \in 1 .. Levels
         /\ Level(idx) = 1 => idx < TvrSize
         /\ \A l \in 2 .. Levels : Level(idx) = l => Width(l - 1) <= idx
<1> DEFINE top == Levels - 1
           B == Beyond(idx)
<1>1. /\ top \in Nat \ {0} /\ Levels = top + 1 /\ idx \in Int
      /\ \A l \in 1 .. Levels : Width(l) \in Nat \ {0}
  BY Sizes DEF Tick
<1>2. \A n \in Nat : IsFiniteSet(1 .. n) /\ Cardinality(1 .. n) = n
  <2> TAKE n \in Nat
  <2>1. Cardinality(1 .. n) = (IF 1 > n THEN 0 ELSE n - 1 + 1) /\ IsFiniteSet(1 .. n)
    BY FS_Interval
  <2> QED BY <2>1
<1> HIDE DEF top
<1>3. B \in SUBSET (1 .. top) /\ B = {l \in 1 .. top : idx >= Width(l)}
  BY DEF Beyond, top
<1> HIDE DEF B
<1>4. IsFiniteSet(B) /\ Cardinality(B) \in Nat /\ Cardinality(B) <= top
  BY <1>1, <1>2, <1>3, FS_Subset, FS_CardinalityType
<1>5. Level(idx) = Cardinality(B) + 1
  BY DEF Level, B
<1>6. Level(idx) = 1 => idx < TvrSize
  <2> SUFFICES ASSUME Cardinality(B) = 0 PROVE idx < TvrSize
    BY <1>4, <1>5
  <2>1. B = {}
    BY <1>4, FS_EmptySet
  <2>2. 1 \in 1 .. top /\ 1 \in 1 .. Levels /\ Width(1) = TvrSize
    BY <1>1, Sizes
  <2> QED BY <1>1, <1>3, <2>1, <2>2
<1>7. ASSUME NEW l \in 2 .. Levels, Level(idx) = l PROVE Width(l - 1) <= idx
  <2> DEFINE k == l - 1
  <2>1. k \in 1 .. top /\ k \in 1 .. Levels /\ Cardinality(B) = k
    BY <1>1, <1>4, <1>5, <1>7
  <2> HIDE DEF k
  <2>2. CASE k \in B
    BY <1>1, <1>3, <2>1, <2>2 DEF k
  <2>3. CASE k \notin B
    <3>1. \E m \in B : m > k
      <4> SUFFICES ASSUME \A m \in B : ~ (m > k) PROVE FALSE
        OBVIOUS
      <4>1. B \in SUBSET (1 .. k - 1)
        BY <1>1, <1>3, <2>1, <2>3
      <4>2. k - 1 \in Nat
        BY <2>1
      <4>3. Cardinality(B) <= k - 1
        <5> DEFINE j == k - 1
        <5> HIDE DEF j
        <5>1. IsFiniteSet(1 .. j) /\ Cardinality(1 .. j) = j /\ B \in SUBSET (1 .. j)
          BY <1>2, <4>1, <4>2 DEF j
        <5>2. Cardinality(B) <= j
          BY <5>1, FS_Subset
        <5> QED BY <5>2 DEF j
      <4> QED BY <2>1, <4>3, <4>2
    <3>2. PICK m \in B : m > k
      BY <3>1
    <3>3. m \in 1 .. Levels /\ k <= m /\ Width(m) <= idx
      BY <1>1, <1>3, <2>1, <3>2
    <3>4. Width(k) <= Width(m)
      BY <2>1, <3>3, WidthsGrow
    <3>5. Width(k) <= idx
      BY <1>1, <2>1, <3>3, <3>4
    <3> QED BY <3>5 DEF k
  <2> QED BY <2>2, <2>3
<1> QED BY <1>1, <1>4, <1>5, <1>6, <1>7

LEMMA SlotIs == \A e \in Tick : SlotFor(e) \in Slots
<1> TAKE e \in Tick
<1> DEFINE l == Level(Since(e, last))
<1>1. l \in 1 .. Levels /\ e \in Int
  BY LevelIs DEF Tick
<1>2. SlotFor(e) = <<l, IF l = 1 THEN e % TvrSize ELSE (e \div Width(l - 1)) % TvnSize>>
  BY DEF SlotFor
<1> HIDE DEF l
<1>3. CASE l = 1
  <2>1. e % TvrSize \in 0 .. TvrSize - 1
    BY <1>1, Sizes
  <2> QED BY <1>2, <1>3, <2>1 DEF Slots
<1>4. CASE l # 1
  <2> DEFINE w == Width(l - 1)
             q == e \div w
  <2>1. l - 1 \in 1 .. Levels /\ l \in 2 .. Levels
    BY <1>1, <1>4, Sizes
  <2>2. w \in Nat \ {0}
    BY <2>1, Sizes
  <2> HIDE DEF w
  <2>3. q \in Int
    BY <1>1, <2>2
  <2> HIDE DEF q
  <2>4. q % TvnSize \in 0 .. TvnSize - 1
    BY <2>3, Sizes
  <2>5. SlotFor(e) = <<l, q % TvnSize>>
    BY <1>2, <1>4 DEF q, w
  <2> QED BY <2>1, <2>4, <2>5 DEF Slots
<1> QED
  BY <1>3, <1>4

LEMMA TypeOKIs ==
  TypeOK <=> /\ {now, last, tick} \subseteq Tick
             /\ pc \in {"idle", "tick", "work", "call"} /\ timeOut \in BOOLEAN
             /\ cur \in Infos \cup {NoInfo} /\ info \in [Infos -> InfoRec]
             /\ kind \in [Timers -> {"none", "caller", "delay"}]
             /\ handle \in [Timers -> Infos \cup {NoInfo}]
BY DEF TypeOK, Tick, InfoRec

LEMMA PlacedIs ==
  ASSUME TypeOK, NEW elapse \in Tick, NEW count \in Int, NEW data \in Timers \cup {NoData}
  PROVE  Placed(elapse, count, data) \in InfoRec
<1> DEFINE e == (last + elapse) % Ticks
<1>1. e \in Tick
  <2>1. last \in Int /\ elapse \in Int
    BY TypeOKIs DEF Tick
  <2>2. last + elapse \in Int
    BY <2>1
  <2> QED BY <2>2, InTicks
<1>2. Placed(elapse, count, data) =
        [slot |-> SlotFor(e), expires |-> e, elapse |-> elapse, count |-> count, data |-> data]
  BY DEF Placed
<1> HIDE DEF e
<1>3. SlotFor(e) \in Slots
  BY <1>1, SlotIs
<1> QED
  BY <1>1, <1>2, <1>3 DEF InfoRec

LEMMA FreeIs == FreeInfo \in InfoRec
<1>1. 0 \in Tick
  BY Sizes DEF Tick
<1> QED
  BY <1>1 DEF FreeInfo, InfoRec

(* one info becomes another record                                         *)
LEMMA OneInfo ==
  ASSUME info \in [Infos -> InfoRec], NEW i \in Infos, NEW r \in InfoRec
  PROVE  [info EXCEPT ![i] = r] \in [Infos -> InfoRec]
OBVIOUS

LEMMA AddIs ==
  ASSUME TypeOK, NEW i \in Infos, NEW elapse \in Elapses, NEW count \in Counts, NEW t \in Timers
  PROVE  TimerAdd(i, elapse, count, t) \in [Infos -> InfoRec]
<1>1. elapse \in Tick /\ count \in Int
  BY TimerSystemAssumption DEF Tick, Counts
<1> QED
  BY <1>1, PlacedIs, TypeOKIs, OneInfo DEF TimerAdd

LEMMA ModIs ==
  ASSUME TypeOK, NEW i \in Infos, NEW elapse \in Elapses, NEW count \in Counts
  PROVE  TimerMod(i, elapse, count) \in [Infos -> InfoRec]
<1>1. /\ elapse \in Tick /\ count \in Int /\ info \in [Infos -> InfoRec]
      /\ info[i].data \in Timers \cup {NoData}
  BY TimerSystemAssumption, TypeOKIs DEF Tick, Counts, InfoRec
<1>2. CASE Pending(i)
  BY <1>1, <1>2, PlacedIs, OneInfo DEF TimerMod
<1>3. CASE ~ Pending(i)
  <2> DEFINE e == (last + elapse) % Ticks
  <2>1. e \in Tick
    <3>1. last + elapse \in Int
      BY <1>1, TypeOKIs DEF Tick
    <3> QED BY <3>1, InTicks
  <2>2. TimerMod(i, elapse, count) =
          [info EXCEPT ![i].expires = e, ![i].elapse = elapse, ![i].count = count]
    BY <1>3 DEF TimerMod
  <2> HIDE DEF e
  <2>3. \A r \in InfoRec :
          [r EXCEPT !.expires = e, !.elapse = elapse, !.count = count] \in InfoRec
    BY <1>1, <2>1 DEF InfoRec
  <2> DEFINE r == [info[i] EXCEPT !.expires = e, !.elapse = elapse, !.count = count]
  <2>4. r \in InfoRec
    BY <1>1, <2>3
  <2>5. TimerMod(i, elapse, count) = [info EXCEPT ![i] = r]
    BY <1>1, <2>2
  <2> HIDE DEF r
  <2> QED BY <1>1, <2>4, <2>5
<1> QED
  BY <1>2, <1>3

LEMMA DelIs ==
  ASSUME TypeOK, NEW i \in Infos
  PROVE  TimerDel(i) \in [Infos -> InfoRec]
<1>1. info \in [Infos -> InfoRec]
  BY TypeOKIs
<1>2. CASE Pending(i)
  BY <1>1, <1>2, FreeIs, OneInfo DEF TimerDel
<1>3. CASE ~ Pending(i)
  BY <1>1, <1>3 DEF TimerDel, InfoRec
<1> QED
  BY <1>2, <1>3

LEMMA TypeInit == Init => TypeOK
<1> SUFFICES ASSUME Init PROVE TypeOK
  OBVIOUS
<1>1. {now, last, tick} \subseteq Tick
  BY DEF Init, WheelInit, Tick
<1> QED
  BY <1>1, FreeIs, TypeOKIs DEF Init, WheelInit

CallersTyped ==
  /\ info' \in [Infos -> InfoRec] /\ handle' \in [Timers -> Infos \cup {NoInfo}]
  /\ kind' \in [Timers -> {"none", "caller", "delay"}]

LEMMA CallTypes ==
  ASSUME TypeOK, NEW t \in Timers, Call(t)
  PROVE  TypeOK'
<1>1. UNCHANGED <<now, last, pc, tick, timeOut, cur>>
  BY DEF Call, Create, ModifyTimer, DelTimer, DestroyCaller, InWheel
<1>2. /\ handle \in [Timers -> Infos \cup {NoInfo}] /\ info \in [Infos -> InfoRec]
      /\ kind \in [Timers -> {"none", "caller", "delay"}]
  BY TypeOKIs
<1>3. ASSUME NEW elapse \in Elapses, NEW count \in Counts, AddTimer(t, elapse, count)
      PROVE  info' \in [Infos -> InfoRec] /\ handle' \in [Timers -> Infos \cup {NoInfo}]
  BY <1>2, <1>3, AddIs DEF AddTimer
<1>4. \A i \in Infos : TimerDel(i) \in [Infos -> InfoRec]
  BY DelIs
<1>5. Owns(t) => handle[t] \in Infos
  BY <1>2 DEF Owns
<1>6. CallersTyped
  <2>1. ASSUME NEW elapse \in Elapses, NEW count \in Counts, NEW k \in {"caller", "delay"},
               Create(t, k, elapse, count)
        PROVE  CallersTyped
    BY <1>2, <1>3, <2>1 DEF Create, CallersTyped
  <2>2. ASSUME NEW elapse \in Elapses, NEW count \in Counts, ModifyTimer(t, elapse, count)
        PROVE  CallersTyped
    BY <1>2, <1>3, <1>5, <2>2, ModIs DEF ModifyTimer, CallersTyped
  <2>3. CASE DelTimer(t)
    BY <1>2, <1>4, <1>5, <2>3 DEF DelTimer, Forget, CallersTyped
  <2>4. CASE DestroyCaller(t)
    BY <1>2, <1>4, <1>5, <2>4 DEF DestroyCaller, Forget, CallersTyped
  <2> QED BY <2>1, <2>2, <2>3, <2>4 DEF Call
<1> QED
  BY <1>1, <1>6, TypeOKIs DEF TypeOK, Tick, InfoRec, CallersTyped

LEMMA UpdateTypes ==
  ASSUME TypeOK, IInv, Update
  PROVE  TypeOK'
<1>1. /\ handle \in [Timers -> Infos \cup {NoInfo}] /\ info \in [Infos -> InfoRec]
      /\ kind \in [Timers -> {"none", "caller", "delay"}]
      /\ {now, last, tick} \subseteq Tick /\ timeOut \in BOOLEAN
  BY TypeOKIs
<1>2. ASSUME UNCHANGED <<info, kind, handle>>, {now', last', tick'} \subseteq Tick,
             pc' \in {"idle", "tick", "work", "call"}, timeOut' \in BOOLEAN, cur' = cur
      PROVE  TypeOK'
  BY <1>2, TypeOKIs DEF TypeOK, Tick, InfoRec
<1>3. ASSUME UNCHANGED <<now, last, tick>>, info' \in [Infos -> InfoRec],
             kind' \in [Timers -> {"none", "caller", "delay"}],
             handle' \in [Timers -> Infos \cup {NoInfo}], cur' \in Infos \cup {NoInfo},
             pc' \in {"idle", "tick", "work", "call"}, timeOut' \in BOOLEAN
      PROVE  TypeOK'
  BY <1>1, <1>3 DEF TypeOK, Tick, InfoRec
<1>4. CASE (UpdateBegin \/ UpdateEnd) /\ UNCHANGED <<kind, handle>>
  BY <1>1, <1>2, <1>4, TypeOKIs DEF UpdateBegin, UpdateEnd
<1>5. CASE TickDone /\ UNCHANGED <<kind, handle>>
  <2>1. last' \in Tick
    <3>1. last + 1 \in Int
      BY <1>1 DEF Tick
    <3> QED BY <1>5, <3>1, InTicks DEF TickDone
  <2> QED BY <1>1, <1>2, <1>5, <2>1 DEF TickDone
<1>6. CASE TakeTick /\ UNCHANGED <<kind, handle>>
  <2> DEFINE down(i) == IF info[i].slot \in Cascaded THEN SlotFor(info[i].expires)
                                                     ELSE info[i].slot
             slot(i) == IF down(i) = <<1, last % TvrSize>> THEN Work ELSE down(i)
  <2>1. info' = [i \in Infos |-> [info[i] EXCEPT !.slot = slot(i)]]
    BY <1>6 DEF TakeTick
  <2>2. ASSUME NEW i \in Infos PROVE slot(i) \in Slots \cup {Free, Out, Work}
    <3>1. info[i].expires \in Tick /\ info[i].slot \in Slots \cup {Free, Out, Work}
      BY <1>1 DEF InfoRec
    <3>2. SlotFor(info[i].expires) \in Slots
      BY <3>1, SlotIs
    <3> QED BY <3>1, <3>2
  <2> HIDE DEF slot
  <2>3. ASSUME NEW i \in Infos PROVE [info[i] EXCEPT !.slot = slot(i)] \in InfoRec
    BY <1>1, <2>2 DEF InfoRec
  <2>4. info' \in [Infos -> InfoRec]
    BY <2>1, <2>3
  <2> QED BY <1>1, <1>3, <1>6, <2>4, TypeOKIs DEF TakeTick
<1>7. ASSUME NEW i \in Infos, Discard(i), UNCHANGED <<kind, handle>> PROVE TypeOK'
  <2>1. info' \in [Infos -> InfoRec]
    BY <1>1, <1>7, FreeIs, OneInfo DEF Discard
  <2> QED BY <1>1, <1>3, <1>7, <2>1, TypeOKIs DEF Discard
<1>8. ASSUME NEW i \in Infos, OnTimer(i) PROVE TypeOK'
  <2> DEFINE n == IF info[i].count > 0 THEN info[i].count - 1 ELSE info[i].count
  <2>1. n \in Int
    BY <1>1 DEF InfoRec
  <2>2. info' = [info EXCEPT ![i].slot = Out, ![i].count = n]
    BY <1>8 DEF OnTimer, Fire
  <2> HIDE DEF n
  <2>3. \A r \in InfoRec : [r EXCEPT !.slot = Out, !.count = n] \in InfoRec
    BY <2>1 DEF InfoRec
  <2> DEFINE r == [info[i] EXCEPT !.slot = Out, !.count = n]
  <2>4. r \in InfoRec
    BY <1>1, <2>3
  <2>5. info' = [info EXCEPT ![i] = r]
    BY <1>1, <2>2
  <2> HIDE DEF r
  <2>6. info' \in [Infos -> InfoRec]
    BY <1>1, <2>4, <2>5
  <2> QED BY <1>1, <1>3, <1>8, <2>6 DEF OnTimer, Fire
<1>9. CASE OnTimerEnd
  <2>1. cur \in Infos /\ Return
    BY <1>9 DEF OnTimerEnd, Return, IInv, Calling
  <2>2. /\ info[cur].elapse \in Tick /\ info[cur].count \in Int
        /\ info[cur].data \in Timers \cup {NoData}
    BY <1>1, <2>1 DEF InfoRec
  <2>3. Placed(info[cur].elapse, info[cur].count, info[cur].data) \in InfoRec
    BY <2>2, PlacedIs
  <2>4. info' = [info EXCEPT ![cur] = IF info[cur].count = 0 THEN FreeInfo
                   ELSE Placed(info[cur].elapse, info[cur].count, info[cur].data)]
    BY <2>1 DEF Return
  <2>5. info' \in [Infos -> InfoRec]
    BY <1>1, <2>1, <2>3, <2>4, FreeIs, OneInfo
  <2>6. /\ kind' \in [Timers -> {"none", "caller", "delay"}]
        /\ handle' \in [Timers -> Infos \cup {NoInfo}]
    BY <1>1, <1>9 DEF OnTimerEnd
  <2>7. timeOut' \in BOOLEAN
    BY <1>1, <2>1 DEF Return
  <2> QED BY <1>3, <2>1, <2>5, <2>6, <2>7 DEF Return
<1> QED
  BY <1>4, <1>5, <1>6, <1>7, <1>8, <1>9 DEF Update, OnTimer

LEMMA TypeNext == TypeOK /\ IInv /\ [Next]_vars => TypeOK'
<1> SUFFICES ASSUME TypeOK, IInv, [Next]_vars PROVE TypeOK'
  OBVIOUS
<1>1. CASE Update
  BY <1>1, UpdateTypes
<1>2. ASSUME NEW t \in Timers, Call(t) PROVE TypeOK'
  BY <1>2, CallTypes
<1>3. CASE Clock /\ UNCHANGED <<kind, handle>>
  <2>1. now' \in Tick
    <3>1. now + 1 \in Int
      BY TypeOKIs DEF Tick
    <3> QED BY <1>3, <3>1, InTicks DEF Clock
  <2> QED BY <1>3, <2>1, TypeOKIs DEF TypeOK, Tick, InfoRec, Clock
<1>4. CASE UNCHANGED vars
  BY <1>4 DEF vars, TypeOK
<1> QED
  BY <1>1, <1>2, <1>3, <1>4 DEF Next

-----------------------------------------------------------------------------
(* Every tick stays a number of 32 bits, every info in a slot that exists  *)
(* (the wheels are never left by a level or an index), and every handle    *)
(* names an info.                                                          *)
THEOREM TypeCorrect == Spec => []TypeOK
<1>1. Init => TypeOK /\ IInv
  BY TypeInit, IInvInit
<1>2. (TypeOK /\ IInv) /\ [Next]_vars => (TypeOK /\ IInv)'
  BY TypeNext, IInvNext
<1> QED
  BY <1>1, <1>2, PTL DEF Spec

-----------------------------------------------------------------------------
(***************************************************************************)
(* Time.  Where an info lies says when it is taken: in the first wheel at  *)
(* the tick that has its slot, in another one at the latest when the unit  *)
(* of that wheel begins that it expires in.  busy says that last_tick is   *)
(* being worked on, and not the next one to be.                            *)
(***************************************************************************)
Near(r, now0, busy) ==
  r.slot[1] = 1 =>
    /\ r.slot[2] = r.expires % TvrSize
    /\ \/ /\ Since(r.expires, now0) < TvrSize /\ Since(r.expires, now0) <= r.elapse
          /\ busy /\ Since(r.expires, now0) = 0 => r.elapse = 0
       \/ /\ r.elapse = 0 /\ Since(now0, r.expires) \in 1 .. TvrSize
          /\ busy => Since(now0, r.expires) < TvrSize

Far(r, now0, busy) ==
  \A l \in 2 .. Levels : r.slot[1] = l =>
    /\ r.slot[2] = (r.expires \div Width(l - 1)) % TvnSize
    /\ Since(r.expires, now0) <= r.elapse
    /\ r.expires % Width(l - 1) <= Since(r.expires, now0)
    /\ busy => r.expires % Width(l - 1) # Since(r.expires, now0)

Due(r, now0, busy) ==
  r.slot = Work => /\ busy
                   /\ \/ Since(now0, r.expires) = 0
                      \/ r.elapse = 0 /\ Since(now0, r.expires) = TvrSize

Timed(r, now0, busy) == Near(r, now0, busy) /\ Far(r, now0, busy) /\ Due(r, now0, busy)

Busy == pc \in {"work", "call"}
InTime == \A i \in Infos : Timed(info[i], last, Busy)

(* An info in no wheel waits for no tick.                                  *)
LEMMA Untimed ==
  ASSUME NEW r, r.slot \in {Free, Out}, NEW now0, NEW busy
  PROVE  Timed(r, now0, busy)
BY DEF Timed, Near, Far, Due, Free, Out, Work

LEMMA SinceZero ==
  ASSUME NEW a \in Tick, NEW b \in Tick
  PROVE  /\ Since(a, b) = 0 <=> a = b
         /\ Since(a, b) # 0 => Since(b, a) = Ticks - Since(a, b)
<1>1. Ticks \in Nat \ {0}
  BY Sizes
<1>2. /\ Since(a, b) = IF b <= a THEN a - b ELSE a - b + Ticks
      /\ Since(b, a) = IF a <= b THEN b - a ELSE b - a + Ticks
  BY SinceIs
<1>3. a \in Int /\ b \in Int /\ a - b < Ticks /\ b - a < Ticks
  BY <1>1 DEF Tick
<1> QED BY <1>1, <1>2, <1>3

(* What _add_timer does is in time.                                        *)
LEMMA SlotTimed ==
  ASSUME last \in Tick, NEW e \in Tick, NEW elapse \in Tick, NEW busy \in BOOLEAN,
         Since(e, last) <= elapse, busy /\ Since(e, last) = 0 => elapse = 0,
         NEW r, r.slot = SlotFor(e), r.expires = e, r.elapse = elapse
  PROVE  Timed(r, last, busy)
<1> DEFINE d == Since(e, last)
           l == Level(d)
           k == IF l = 1 THEN e % TvrSize ELSE (e \div Width(l - 1)) % TvnSize
<1>1. d \in Tick /\ d \in Int
  BY SinceIs DEF Tick
<1>2. SlotFor(e) = <<l, k>>
  BY DEF SlotFor
<1>3. /\ l \in 1 .. Levels
      /\ l = 1 => d < TvrSize
      /\ \A m \in 2 .. Levels : l = m => Width(m - 1) <= d
  BY <1>1, LevelFits
<1> HIDE DEF d, l
<1>4. r.slot[1] = l /\ r.slot[2] = k
  BY <1>2
<1>5. r.slot # Work
  BY <1>2, <1>3 DEF Work
<1>6. Near(r, last, busy)
  BY <1>3, <1>4 DEF Near, d
<1>7. Far(r, last, busy)
  <2> SUFFICES ASSUME NEW m \in 2 .. Levels, l = m
               PROVE  /\ k = (e \div Width(m - 1)) % TvnSize
                      /\ e % Width(m - 1) <= d /\ e % Width(m - 1) # d
    BY <1>4 DEF Far, d
  <2>1. m # 1 /\ m - 1 \in 1 .. Levels
    BY Sizes
  <2> DEFINE w == Width(m - 1)
  <2>2. w \in Nat \ {0} /\ w <= d
    BY <1>3, <2>1, Sizes
  <2> HIDE DEF w
  <2>3. e % w \in 0 .. w - 1
    BY <2>2, Division DEF Tick
  <2>4. e % w <= d /\ e % w # d
    BY <1>1, <2>2, <2>3
  <2> QED BY <2>1, <2>4 DEF w
<1> QED BY <1>5, <1>6, <1>7 DEF Timed, Due

LEMMA PlacedTimed ==
  ASSUME TypeOK, NEW elapse \in Tick, NEW count, NEW data, NEW busy \in BOOLEAN
  PROVE  Timed(Placed(elapse, count, data), last, busy)
<1> DEFINE e == (last + elapse) % Ticks
<1>1. last \in Tick
  BY TypeOKIs
<1>2. e \in Tick /\ Since(e, last) = elapse
  BY <1>1, PlusIs
<1>3. Placed(elapse, count, data) =
        [slot |-> SlotFor(e), expires |-> e, elapse |-> elapse, count |-> count, data |-> data]
  BY DEF Placed
<1> HIDE DEF e
<1>4. Since(e, last) <= elapse
  BY <1>2 DEF Tick
<1> DEFINE r == Placed(elapse, count, data)
<1>5. r.slot = SlotFor(e) /\ r.expires = e /\ r.elapse = elapse
  BY <1>3
<1> HIDE DEF r
<1>6. Timed(r, last, busy)
  BY <1>1, <1>2, <1>4, <1>5, SlotTimed
<1> QED BY <1>6 DEF r

(* One info is written, and last_tick stays.                               *)
LEMMA OneTimed ==
  ASSUME info \in [Infos -> InfoRec], InTime, NEW i \in Infos, NEW r,
         info' = [info EXCEPT ![i] = r], last' = last, Busy' = Busy, Timed(r, last, Busy)
  PROVE  InTime'
<1> SUFFICES ASSUME NEW j \in Infos PROVE Timed(info'[j], last, Busy)
  BY DEF InTime
<1>1. CASE j = i
  BY <1>1
<1>2. CASE j # i
  BY <1>2 DEF InTime
<1> QED BY <1>1, <1>2

(* The cascades, and the slot of this tick is taken.                       *)
LEMMA TakeTickTimed ==
  ASSUME TypeOK, InTime, TakeTick
  PROVE  InTime'
<1> DEFINE down(i) == IF info[i].slot \in Cascaded THEN SlotFor(info[i].expires)
                                                   ELSE info[i].slot
           slot(i) == IF down(i) = <<1, last % TvrSize>> THEN Work ELSE down(i)
<1>1. /\ info' = [i \in Infos |-> [info[i] EXCEPT !.slot = slot(i)]]
      /\ last' = last /\ ~ Busy /\ Busy'
  BY DEF TakeTick, Busy
<1> SUFFICES ASSUME NEW i \in Infos PROVE Timed(info'[i], last, TRUE)
  BY <1>1 DEF InTime
<1> DEFINE e == info[i].expires
           el == info[i].elapse
           d == Since(e, last)
           s == info'[i].slot
<1>2. /\ e \in Tick /\ el \in Tick /\ last \in Tick
      /\ info[i].slot \in Slots \cup {Free, Out, Work}
  BY TypeOKIs DEF InfoRec
<1>3. info'[i].expires = e /\ info'[i].elapse = el /\ s = slot(i)
  <2> HIDE DEF slot
  <2>1. info[i] \in InfoRec
    BY TypeOKIs
  <2>2. \A x : LET q == [info[i] EXCEPT !.slot = x]
               IN  q.slot = x /\ q.expires = e /\ q.elapse = el
    BY <2>1 DEF InfoRec
  <2>3. info'[i] = [info[i] EXCEPT !.slot = slot(i)]
    BY <1>1
  <2> QED BY <2>2, <2>3
<1>4. Timed(info[i], last, FALSE)
  <2>1. Busy = FALSE
    BY DEF TakeTick, Busy
  <2> QED BY <2>1 DEF InTime
<1>5. info[i].slot # Work
  BY <1>4 DEF Timed, Due
<1>6. d \in Tick /\ d \in Int /\ (d = 0 <=> e = last)
      /\ Since(last, e) \in Tick /\ (d = 0 => Since(last, e) = 0)
  <2> HIDE DEF e
  <2>1. d \in Tick /\ Since(last, e) \in Tick /\ (d = 0 <=> e = last)
        /\ (Since(last, e) = 0 <=> last = e)
    BY <1>2, SinceIs, SinceZero
  <2> QED BY <2>1 DEF Tick
<1>7. TvrSize \in Nat \ {0, 1} /\ Ticks \in Nat \ {0}
  BY Sizes
<1>8. ASSUME s = Work, d = 0 \/ (el = 0 /\ Since(last, e) = TvrSize)
      PROVE  Timed(info'[i], last, TRUE)
  <2>1. s[1] = 0
    BY <1>8 DEF Work
  <2>2. Near(info'[i], last, TRUE) /\ Far(info'[i], last, TRUE)
    BY <2>1 DEF Near, Far
  <2>3. Due(info'[i], last, TRUE)
    BY <1>3, <1>6, <1>8 DEF Due
  <2> QED BY <2>2, <2>3 DEF Timed
<1>9. CASE info[i].slot \in Cascaded
  <2>1. PICK l \in 2 .. Levels : info[i].slot[1] = l
    BY <1>9 DEF Cascaded
  <2>2. d <= el
    BY <1>4, <2>1 DEF Timed, Far
  <2>3. down(i) = SlotFor(e)
    BY <1>9
  <2> HIDE DEF down
  <2>4. CASE down(i) = <<1, last % TvrSize>>
    <3>1. LET r == [slot |-> SlotFor(e), expires |-> e, elapse |-> el]
          IN  Timed(r, last, FALSE)
      BY <1>2, <2>2, SlotTimed
    <3> DEFINE r == [slot |-> SlotFor(e), expires |-> e, elapse |-> el]
    <3>2. r.slot = <<1, last % TvrSize>> /\ r.expires = e /\ r.elapse = el /\ Near(r, last, FALSE)
      BY <2>3, <2>4, <3>1 DEF Timed
    <3> HIDE DEF r, e, el
    <3>3. last % TvrSize = e % TvrSize
      BY <3>2 DEF Near
    <3>4. d < TvrSize \/ (el = 0 /\ Since(last, e) \in 1 .. TvrSize)
      BY <3>2 DEF Near
    <3>5. d = 0 \/ (el = 0 /\ Since(last, e) = TvrSize)
      BY <1>2, <3>3, <3>4, SameSlot
    <3>6. s = Work
      BY <1>3, <2>4
    <3> QED BY <1>8, <3>5, <3>6
  <2>5. CASE down(i) # <<1, last % TvrSize>>
    <3>1. s = SlotFor(e)
      BY <1>3, <2>3, <2>5
    <3>2. CASE d # 0
      BY <1>2, <1>3, <2>2, <3>1, <3>2, SlotTimed
    <3>3. CASE d = 0
      <4>1. Level(d) = 1
        <5>1. /\ Level(d) \in 1 .. Levels
              /\ \A m \in 2 .. Levels : Level(d) = m => Width(m - 1) <= d
          BY <1>6, LevelFits
        <5>2. \A m \in 2 .. Levels : Width(m - 1) > 0
          <6> TAKE m \in 2 .. Levels
          <6>1. m - 1 \in 1 .. Levels
            BY Sizes
          <6> QED BY <6>1, Sizes
        <5> HIDE DEF d
        <5>3. \A m \in 2 .. Levels : Width(m - 1) > 0 /\ (Level(d) = m => Width(m - 1) <= 0)
          BY <3>3, <5>1, <5>2
        <5>4. \A m \in 2 .. Levels : Width(m - 1) \in Nat
          <6> TAKE m \in 2 .. Levels
          <6>1. m - 1 \in 1 .. Levels
            BY Sizes
          <6> QED BY <6>1, Sizes
        <5>5. Level(d) \notin 2 .. Levels
          BY <5>3, <5>4
        <5> QED BY <5>1, <5>5, Sizes
      <4>2. SlotFor(e) = <<1, e % TvrSize>>
        BY <4>1 DEF SlotFor
      <4> QED BY <1>6, <2>3, <2>5, <3>3, <4>2
    <3> QED BY <3>2, <3>3
  <2> QED BY <2>4, <2>5
<1>10. CASE info[i].slot \notin Cascaded
  <2>1. down(i) = info[i].slot
    BY <1>10
  <2> HIDE DEF down
  <2>2. CASE info[i].slot = <<1, last % TvrSize>>
    <3>1. /\ last % TvrSize = e % TvrSize
          /\ d < TvrSize \/ (el = 0 /\ Since(last, e) \in 1 .. TvrSize)
      BY <1>4, <2>2 DEF Timed, Near
    <3>2. d = 0 \/ (el = 0 /\ Since(last, e) = TvrSize)
      <4> HIDE DEF e, el
      <4> QED BY <1>2, <3>1, SameSlot
    <3> QED BY <1>3, <1>8, <2>1, <2>2, <3>2
  <2>3. CASE info[i].slot # <<1, last % TvrSize>>
    <3>1. s = info[i].slot
      BY <1>3, <2>1, <2>3
    <3>2. Near(info'[i], last, TRUE)
      <4> SUFFICES ASSUME info[i].slot[1] = 1
                   PROVE  /\ s[2] = e % TvrSize
                          /\ \/ d < TvrSize /\ d <= el /\ (d = 0 => el = 0)
                             \/ el = 0 /\ Since(last, e) \in 1 .. TvrSize /\ Since(last, e) < TvrSize
        BY <1>3, <3>1 DEF Near
      <4>1. /\ s[2] = e % TvrSize
            /\ \/ d < TvrSize /\ d <= el
               \/ el = 0 /\ Since(last, e) \in 1 .. TvrSize
        BY <1>4, <3>1 DEF Timed, Near
      <4>2. info[i].slot = <<1, s[2]>>
        BY <1>2, <3>1 DEF Slots, Free, Out, Work
      <4>3. e % TvrSize # last % TvrSize
        BY <2>3, <4>1, <4>2
      <4> HIDE DEF e, el, s
      <4>4. e # last /\ Since(last, e) # TvrSize
        BY <1>2, <4>3, SameSlot
      <4> QED BY <1>6, <1>7, <4>1, <4>4
    <3>3. Far(info'[i], last, TRUE)
      <4> SUFFICES ASSUME NEW l \in 2 .. Levels, info[i].slot[1] = l
                   PROVE  /\ s[2] = (e \div Width(l - 1)) % TvnSize
                          /\ d <= el /\ e % Width(l - 1) <= d /\ e % Width(l - 1) # d
        BY <1>3, <3>1 DEF Far
      <4>1. /\ s[2] = (e \div Width(l - 1)) % TvnSize
            /\ d <= el /\ e % Width(l - 1) <= d
        BY <1>4, <3>1 DEF Timed, Far
      <4> SUFFICES ASSUME e % Width(l - 1) = d PROVE FALSE
        BY <4>1
      <4>2. l - 1 \in 1 .. Levels /\ l # 1
        BY Sizes
      <4>3. Width(l - 1) \in Nat \ {0}
        BY <4>2, Sizes
      <4>4. last % Width(l - 1) = 0 /\ last \div Width(l - 1) = e \div Width(l - 1)
        BY <1>2, <4>3, UnitBegins
      <4>5. info[i].slot = <<l, s[2]>>
        BY <1>2, <3>1, <4>2 DEF Slots, Free, Out, Work
      <4>6. info[i].slot = <<l, (last \div Width(l - 1)) % TvnSize>>
        BY <4>1, <4>4, <4>5
      <4> QED BY <1>10, <4>4, <4>6 DEF Cascaded
    <3> QED BY <1>5, <3>1, <3>2, <3>3 DEF Timed, Due
  <2> QED BY <2>2, <2>3
<1> QED BY <1>9, <1>10

(* last_tick moves on.                                                     *)
LEMMA TickMoves ==
  ASSUME NEW a \in Tick, NEW e \in Tick
  PROVE  LET n == (a + 1) % Ticks
         IN  /\ n \in Tick
             /\ Since(e, a) >= 1 => Since(e, n) = Since(e, a) - 1
             /\ Since(a, e) < Ticks - 1 => Since(n, e) = Since(a, e) + 1
<1> DEFINE n == (a + 1) % Ticks
<1>1. Ticks \in Nat \ {0, 1} /\ a \in 0 .. Ticks - 1 /\ e \in 0 .. Ticks - 1
  BY Sizes DEF Tick
<1>2. 1 \in Tick
  BY <1>1 DEF Tick
<1>3. n \in Tick /\ n = IF a + 1 < Ticks THEN a + 1 ELSE a + 1 - Ticks
  BY <1>2, PlusIs
<1> HIDE DEF n
<1>4. /\ Since(e, a) = IF a <= e THEN e - a ELSE e - a + Ticks
      /\ Since(a, e) = IF e <= a THEN a - e ELSE a - e + Ticks
      /\ Since(e, n) = IF n <= e THEN e - n ELSE e - n + Ticks
      /\ Since(n, e) = IF e <= n THEN n - e ELSE n - e + Ticks
  BY <1>3, SinceIs
<1>5. Since(e, a) >= 1 => Since(e, n) = Since(e, a) - 1
  BY <1>1, <1>3, <1>4
<1>6. Since(a, e) < Ticks - 1 => Since(n, e) = Since(a, e) + 1
  BY <1>1, <1>3, <1>4
<1> QED BY <1>3, <1>5, <1>6 DEF n

LEMMA TickDoneTimed ==
  ASSUME TypeOK, InTime, TickDone
  PROVE  InTime'
<1> DEFINE n == (last + 1) % Ticks
<1>1. info' = info /\ last' = n /\ Busy = TRUE /\ Busy' = FALSE
  BY DEF TickDone, Busy
<1> SUFFICES ASSUME NEW i \in Infos PROVE Timed(info[i], n, FALSE)
  BY <1>1 DEF InTime
<1> HIDE DEF n
<1> DEFINE e == info[i].expires
           el == info[i].elapse
           s == info[i].slot
           d == Since(e, last)
           late == Since(last, e)
<1>2. e \in Tick /\ el \in Tick /\ last \in Tick /\ Ticks \in Nat /\ TvrSize \in Nat
      /\ TvrSize > 1 /\ TvrSize < Ticks
  BY TypeOKIs, Sizes DEF InfoRec
<1>3. /\ d >= 1 => Since(e, n) = d - 1
      /\ late < Ticks - 1 => Since(n, e) = late + 1
  <2> HIDE DEF e
  <2> QED BY <1>2, TickMoves DEF n
<1>4. Near(info[i], last, TRUE) /\ Far(info[i], last, TRUE) /\ s # Work
  <2>1. Timed(info[i], last, TRUE)
    BY <1>1 DEF InTime
  <2> QED BY <2>1 DEF Timed, TickDone
<1>5. d \in Nat /\ late \in Nat /\ el \in Nat /\ (d = 0 => late = 0)
  <2> HIDE DEF e
  <2>1. d \in Tick /\ late \in Tick /\ (d = 0 <=> e = last) /\ (late = 0 <=> last = e)
    BY <1>2, SinceIs, SinceZero
  <2> QED BY <1>2, <2>1 DEF Tick
<1>6. Near(info[i], n, FALSE)
  <2> SUFFICES ASSUME s[1] = 1
               PROVE  /\ s[2] = e % TvrSize
                      /\ \/ Since(e, n) < TvrSize /\ Since(e, n) <= el
                         \/ el = 0 /\ Since(n, e) \in 1 .. TvrSize
    BY DEF Near
  <2>1. /\ s[2] = e % TvrSize
        /\ \/ d < TvrSize /\ d <= el /\ (d = 0 => el = 0)
           \/ el = 0 /\ late \in 1 .. TvrSize /\ late < TvrSize
    BY <1>4 DEF Near
  <2> HIDE DEF e, el, d, late
  <2>2. CASE d >= 1 /\ d < TvrSize /\ d <= el
    BY <1>2, <1>3, <1>5, <2>1, <2>2
  <2>3. CASE d = 0 /\ el = 0
    BY <1>2, <1>3, <1>5, <2>1, <2>3
  <2>4. CASE el = 0 /\ late \in 1 .. TvrSize /\ late < TvrSize
    BY <1>2, <1>3, <1>5, <2>1, <2>4
  <2> QED BY <1>5, <2>1, <2>2, <2>3, <2>4
<1>7. Far(info[i], n, FALSE)
  <2> SUFFICES ASSUME NEW l \in 2 .. Levels, s[1] = l
               PROVE  /\ s[2] = (e \div Width(l - 1)) % TvnSize
                      /\ Since(e, n) <= el
                      /\ e % Width(l - 1) <= Since(e, n)
    BY DEF Far
  <2>1. /\ s[2] = (e \div Width(l - 1)) % TvnSize
        /\ d <= el /\ e % Width(l - 1) <= d /\ e % Width(l - 1) # d
    BY <1>4 DEF Far
  <2> DEFINE r == e % Width(l - 1)
  <2>2. r \in Nat
    <3>1. l - 1 \in 1 .. Levels
      BY Sizes
    <3>2. Width(l - 1) \in Nat \ {0}
      BY <3>1, Sizes
    <3>3. e \in Nat
      BY <1>2 DEF Tick
    <3> DEFINE w == Width(l - 1)
    <3> HIDE DEF e, w
    <3>4. e % w \in 0 .. w - 1 /\ w \in Nat
      BY <3>2, <3>3, Division DEF w
    <3>5. e % w \in Nat
      BY <3>4
    <3> QED BY <3>5 DEF w
  <2> HIDE DEF e, el, d, r
  <2> QED BY <1>3, <1>5, <2>1, <2>2 DEF r
<1> QED BY <1>4, <1>6, <1>7 DEF Timed, Due

(* What the callers do.                                                    *)
LEMMA CallTimed ==
  ASSUME TypeOK, InTime, NEW t \in Timers, Call(t)
  PROVE  InTime'
<1>1. last' = last /\ Busy' = Busy /\ Busy \in BOOLEAN
  BY DEF Call, Create, ModifyTimer, DelTimer, DestroyCaller, InWheel, Busy
<1>2. info \in [Infos -> InfoRec] /\ handle \in [Timers -> Infos \cup {NoInfo}]
  BY TypeOKIs
<1>3. Owns(t) => handle[t] \in Infos
  BY <1>2 DEF Owns
<1>4. Elapses \subseteq Tick
  BY TimerSystemAssumption DEF Tick
<1>5. ASSUME NEW elapse \in Elapses, NEW count, AddTimer(t, elapse, count) PROVE InTime'
  <2>1. PICK i \in Infos : info' = [info EXCEPT ![i] = Placed(elapse, count, t)]
    BY <1>5 DEF AddTimer, TimerAdd
  <2>2. Timed(Placed(elapse, count, t), last, Busy)
    BY <1>1, <1>4, PlacedTimed
  <2> QED BY <1>1, <1>2, <2>1, <2>2, OneTimed
<1>6. ASSUME NEW i \in Infos, NEW elapse \in Elapses, NEW count,
             info' = TimerMod(i, elapse, count)
      PROVE  InTime'
  <2>1. CASE Pending(i)
    <3>1. info' = [info EXCEPT ![i] = Placed(elapse, count, info[i].data)]
      BY <1>2, <1>6, <2>1 DEF TimerMod
    <3>2. Timed(Placed(elapse, count, info[i].data), last, Busy)
      BY <1>1, <1>4, PlacedTimed
    <3> QED BY <1>1, <1>2, <3>1, <3>2, OneTimed
  <2>2. CASE ~ Pending(i)
    <3> DEFINE x == (last + elapse) % Ticks
               r == [info[i] EXCEPT !.expires = x, !.elapse = elapse, !.count = count]
    <3>1. info' = [info EXCEPT ![i] = r]
      BY <1>2, <1>6, <2>2 DEF TimerMod
    <3> HIDE DEF x
    <3>2. r.slot = info[i].slot
      BY <1>2 DEF InfoRec
    <3> HIDE DEF r
    <3>3. Timed(r, last, Busy)
      BY <2>2, <3>2, Untimed DEF Pending
    <3> QED BY <1>1, <1>2, <3>1, <3>3, OneTimed
  <2> QED BY <2>1, <2>2
<1>7. ASSUME NEW i \in Infos, info' = TimerDel(i) PROVE InTime'
  <2>1. CASE Pending(i)
    <3>1. info' = [info EXCEPT ![i] = FreeInfo] /\ Timed(FreeInfo, last, Busy)
      BY <1>7, <2>1, FreeFacts, Untimed DEF TimerDel
    <3> QED BY <1>1, <1>2, <3>1, OneTimed
  <2>2. CASE ~ Pending(i)
    <3> DEFINE r == [info[i] EXCEPT !.count = 0]
    <3>1. info' = [info EXCEPT ![i] = r]
      BY <1>2, <1>7, <2>2 DEF TimerDel
    <3>2. r.slot = info[i].slot
      BY <1>2 DEF InfoRec
    <3> HIDE DEF r
    <3>3. Timed(r, last, Busy)
      BY <2>2, <3>2, Untimed DEF Pending
    <3> QED BY <1>1, <1>2, <3>1, <3>3, OneTimed
  <2> QED BY <2>1, <2>2
<1>8. CASE UNCHANGED info
  BY <1>1, <1>8 DEF InTime
<1>9. ASSUME NEW elapse \in Elapses, NEW count \in Counts,
             \/ \E k \in {"caller", "delay"} : Create(t, k, elapse, count)
             \/ ModifyTimer(t, elapse, count)
      PROVE  InTime'
  BY <1>3, <1>5, <1>6, <1>9 DEF Create, ModifyTimer
<1>10. CASE DelTimer(t) \/ DestroyCaller(t)
  BY <1>3, <1>7, <1>8, <1>10 DEF DelTimer, DestroyCaller
<1> QED BY <1>9, <1>10 DEF Call

LEMMA InTimeInit == Init => InTime
<1> SUFFICES ASSUME Init, NEW i \in Infos PROVE Timed(info[i], last, Busy)
  BY DEF InTime
<1>1. info[i] = FreeInfo
  BY DEF Init, WheelInit
<1> QED BY <1>1, FreeFacts, Untimed

LEMMA InTimeNext == TypeOK /\ IInv /\ InTime /\ [Next]_vars => InTime'
<1> SUFFICES ASSUME TypeOK, IInv, InTime, [Next]_vars PROVE InTime'
  OBVIOUS
<1>1. info \in [Infos -> InfoRec]
  BY TypeOKIs
<1>2. ASSUME UNCHANGED <<info, last>>, Busy' = Busy PROVE InTime'
  BY <1>2 DEF InTime
<1>3. CASE UpdateBegin \/ UpdateEnd \/ Clock \/ UNCHANGED vars
  BY <1>2, <1>3 DEF UpdateBegin, UpdateEnd, Clock, vars, Busy
<1>4. CASE TakeTick \/ TickDone
  BY <1>4, TakeTickTimed, TickDoneTimed
<1>5. ASSUME NEW i \in Infos, Discard(i) PROVE InTime'
  <2>1. info' = [info EXCEPT ![i] = FreeInfo] /\ last' = last /\ Busy' = Busy
    BY <1>5 DEF Discard, Busy
  <2>2. Timed(FreeInfo, last, Busy)
    BY FreeFacts, Untimed
  <2> QED BY <1>1, <2>1, <2>2, OneTimed
<1>6. ASSUME NEW i \in Infos, OnTimer(i) PROVE InTime'
  <2> DEFINE c == IF info[i].count > 0 THEN info[i].count - 1 ELSE info[i].count
             r == [info[i] EXCEPT !.slot = Out, !.count = c]
  <2>1. /\ info' = [info EXCEPT ![i].slot = Out, ![i].count = c]
        /\ last' = last /\ Busy' = Busy
    BY <1>6 DEF OnTimer, Fire, Busy
  <2> HIDE DEF c
  <2>2. info' = [info EXCEPT ![i] = r]
    BY <1>1, <2>1
  <2>3. r.slot = Out
    BY <1>1 DEF InfoRec
  <2> HIDE DEF r
  <2>4. Timed(r, last, Busy)
    BY <2>3, Untimed
  <2> QED BY <1>1, <2>1, <2>2, <2>4, OneTimed
<1>7. CASE OnTimerEnd
  <2> DEFINE r == IF info[cur].count = 0 THEN FreeInfo
                  ELSE Placed(info[cur].elapse, info[cur].count, info[cur].data)
  <2>1. /\ cur \in Infos /\ info' = [info EXCEPT ![cur] = r]
        /\ last' = last /\ Busy' = Busy /\ Busy \in BOOLEAN
    BY <1>7 DEF OnTimerEnd, Return, IInv, Calling, Busy
  <2>2. info[cur].elapse \in Tick
    BY <1>1, <2>1 DEF InfoRec
  <2>3. Timed(FreeInfo, last, Busy)
    BY FreeFacts, Untimed
  <2>4. Timed(Placed(info[cur].elapse, info[cur].count, info[cur].data), last, Busy)
    BY <2>1, <2>2, PlacedTimed
  <2>5. Timed(r, last, Busy)
    BY <2>3, <2>4
  <2> HIDE DEF r
  <2> QED BY <1>1, <2>1, <2>5, OneTimed
<1>8. ASSUME NEW t \in Timers, Call(t) PROVE InTime'
  BY <1>8, CallTimed
<1> QED
  BY <1>3, <1>4, <1>5, <1>6, <1>7, <1>8 DEF Next, Update

(* However far time runs ahead of timer_update and wherever its ticks wrap *)
(* round: a callback is called at the tick its timer was set for, through  *)
(* every cascade of every wheel, and last_tick passes no timer by; except  *)
(* for one set with no delay in a callback, which comes one turn of tv1    *)
(* late.                                                                   *)
THEOREM CalledOnTime == Spec => []OnTime
<1>1. Init => TypeOK /\ IInv /\ InTime
  BY TypeInit, IInvInit, InTimeInit
<1>2. (TypeOK /\ IInv /\ InTime) /\ [Next]_vars => (TypeOK /\ IInv /\ InTime)'
  BY TypeNext, IInvNext, InTimeNext
<1>3. TypeOK /\ InTime => OnTime
  <2> SUFFICES ASSUME TypeOK, InTime, NEW i \in Infos
               PROVE  LET late == Since(last, info[i].expires) IN
                        /\ info[i].slot = Work =>
                             late = 0 \/ (info[i].elapse = 0 /\ late = TvrSize)
                        /\ Pending(i) =>
                             \/ Since(info[i].expires, last) <= info[i].elapse
                             \/ (info[i].elapse = 0 /\ late <= TvrSize)
    BY DEF OnTime
  <2> DEFINE e == info[i].expires
             el == info[i].elapse
             late == Since(last, e)
             d == Since(e, last)
  <2>1. /\ e \in Tick /\ el \in Tick /\ last \in Tick /\ TvrSize \in Nat /\ Levels \in Nat
        /\ info[i].slot \in Slots \cup {Free, Out, Work}
    BY TypeOKIs, Sizes DEF InfoRec
  <2>2. Timed(info[i], last, Busy)
    BY DEF InTime
  <2>3. info[i].slot = Work => late = 0 \/ (el = 0 /\ late = TvrSize)
    BY <2>2 DEF Timed, Due
  <2>4. late = 0 => d = 0
    <3> HIDE DEF e
    <3> QED BY <2>1, SinceZero
  <2>5. CASE info[i].slot = Work
    <3> HIDE DEF e, el, d, late
    <3>1. el \in Nat /\ (late = 0 => d <= el)
      BY <2>1, <2>4 DEF Tick
    <3> QED BY <2>1, <2>3, <2>5, <3>1 DEF e, el, d, late
  <2>6. CASE info[i].slot[1] = 1
    <3>1. d <= el \/ (el = 0 /\ late \in 1 .. TvrSize)
      BY <2>2, <2>6 DEF Timed, Near
    <3> HIDE DEF e, el, d, late
    <3>2. d <= el \/ (el = 0 /\ late <= TvrSize)
      BY <2>1, <3>1
    <3> QED BY <2>3, <3>2 DEF e, el, d, late
  <2>7. ASSUME NEW l \in 2 .. Levels, info[i].slot[1] = l PROVE d <= el
    BY <2>2, <2>7 DEF Timed, Far
  <2>8. \/ ~ Pending(i) /\ info[i].slot # Work
        \/ info[i].slot = Work
        \/ info[i].slot[1] = 1
        \/ info[i].slot[1] \in 2 .. Levels
    BY <2>1 DEF Pending, Slots, Free, Out, Work
  <2> QED BY <2>3, <2>5, <2>6, <2>7, <2>8
<1> QED
  BY <1>1, <1>2, <1>3, PTL DEF Spec
=============================================================================
