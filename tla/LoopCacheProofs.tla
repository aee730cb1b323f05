-------------------------- MODULE LoopCacheProofs ---------------------------
(***************************************************************************)
(* The ring of loop_cache.c implements a bounded queue, for every size of  *)
(* the memory and every set of data units.                                 *)
(***************************************************************************)
EXTENDS LoopCache, SequenceTheorems, TLAPS

-----------------------------------------------------------------------------
(***************************************************************************)
(* The inductive invariant.                                                *)
(***************************************************************************)

(* What the producer has found to fit still fits, and what it has stored   *)
(* lies behind the content of the ring.                                    *)
Producing ==
  /\ w.pc = "idle" => w.data = <<>>
  /\ w.pc # "idle" => Fits(Len(w.data))
  /\ w.pc = "direct" => tail + Len(w.data) <= Size
  /\ w.done <= Len(w.data)
  /\ \A j \in 1 .. w.done : mem[Wrap(tail + j - 1)] = w.data[j]

(* What the consumer has read is a prefix of the content of the ring.      *)
Consuming ==
  /\ r.pc = "idle" => r.got = <<>>
  /\ r.pc # "idle" => r.len <= Used
  /\ r.pc = "direct" => head + r.len <= Size
  /\ Len(r.got) <= r.len
  /\ \A i \in 1 .. Len(r.got) : r.got[i] = mem[Wrap(head + i - 1)]

(* No unit of the content is uninitialised memory.                         *)
Filled == \A i \in 1 .. Used : mem[Wrap(head + i - 1)] \in Val

IInv == TypeOK /\ Producing /\ Consuming /\ Filled

WRec == [pc : {"idle", "copy", "direct"}, data : Seq(Val), done : Nat]
RRec == [pc : {"idle", "copy", "direct"}, len : Nat, got : Seq(Val)]

-----------------------------------------------------------------------------
(***************************************************************************)
(* The arithmetic of the two indices.                                      *)
(***************************************************************************)
LEMMA UsedRange ==
  ASSUME head \in Cells, tail \in Cells
  PROVE  Used \in 0 .. Size - 1
BY LoopCacheAssumption DEF Used, Cells

LEMMA WrapRange ==
  \A i \in 0 .. 2 * Size - 1 : Wrap(i) \in Cells
BY LoopCacheAssumption DEF Wrap, Cells

(* The unit behind the content is the one at tail.                         *)
LEMMA TailPosition ==
  ASSUME head \in Cells, tail \in Cells, NEW j \in Nat, Used + j < Size
  PROVE  /\ Wrap(tail + j) = Wrap(head + Used + j)
         /\ tail + j \in 0 .. 2 * Size - 1
         /\ head + Used + j \in 0 .. 2 * Size - 1
BY LoopCacheAssumption DEF Used, Cells, Wrap

(* Two different places in the ring are two different cells.               *)
LEMMA Distinct ==
  ASSUME head \in Cells, NEW i \in 0 .. Size - 1, NEW j \in 0 .. Size - 1, i # j
  PROVE  Wrap(head + i) # Wrap(head + j)
BY LoopCacheAssumption DEF Cells, Wrap

LEMMA HeadMoved ==
  ASSUME head \in Cells, NEW n \in 0 .. Size - 1, NEW i \in Nat, n + i < Size
  PROVE  /\ Wrap(head + n) \in Cells
         /\ Wrap(Wrap(head + n) + i) = Wrap(head + n + i)
BY LoopCacheAssumption DEF Cells, Wrap

LEMMA PublishUsed ==
  ASSUME head \in Cells, tail \in Cells, NEW n \in Nat, Fits(n),
         head' = head, tail' = Wrap(tail + n)
  PROVE  tail' \in Cells /\ Used' = Used + n
BY LoopCacheAssumption DEF Cells, Wrap, Used, Fits

LEMMA PopUsed ==
  ASSUME head \in Cells, tail \in Cells, NEW n \in Nat, n <= Used,
         tail' = tail, head' = Wrap(head + n)
  PROVE  head' \in Cells /\ Used' = Used - n
BY LoopCacheAssumption DEF Cells, Wrap, Used

LEMMA DataType ==
  ASSUME NEW d \in Data
  PROVE  d \in Seq(Val)
BY LoopCacheAssumption DEF Data

(* What the offers of loop_cache_get_free and loop_cache_get_data are good for. *)
LEMMA FreeRunFits ==
  ASSUME head \in Cells, tail \in Cells, NEW n \in Nat, n <= FreeRun
  PROVE  Fits(n) /\ tail + n <= Size
BY LoopCacheAssumption DEF Cells, FreeRun, Used, Fits

LEMMA DataRunThere ==
  ASSUME head \in Cells, tail \in Cells, NEW n \in Nat, n <= DataRun
  PROVE  n <= Used /\ head + n <= Size
BY LoopCacheAssumption DEF Cells, DataRun, Used

LEMMA InvInit == Init => IInv
<1> SUFFICES ASSUME Init PROVE IInv
  OBVIOUS
<1>1. Used = 0
  BY LoopCacheAssumption DEF Init, Used
<1>2. TypeOK
  BY LoopCacheAssumption DEF Init, TypeOK, Cells, IdleW, IdleR
<1>3. Producing /\ Consuming /\ Filled
  BY <1>1 DEF Init, Producing, Consuming, Filled, IdleW, IdleR
<1>4. QED
  BY <1>2, <1>3 DEF IInv

-----------------------------------------------------------------------------
(***************************************************************************)
(* Every step preserves the invariant.                                     *)
(***************************************************************************)

(* Facts about the state that the steps below start from.                  *)
LEMMA Typed ==
  ASSUME TypeOK
  PROVE  /\ head \in Cells /\ tail \in Cells /\ Used \in 0 .. Size - 1
         /\ mem \in [Cells -> Val \cup {None}]
         /\ w \in WRec /\ w.data \in Seq(Val) /\ w.done \in Nat
         /\ Len(w.data) \in Nat
         /\ r \in RRec /\ r.got \in Seq(Val) /\ r.len \in Nat
         /\ Len(r.got) \in Nat
         /\ given \in Seq(Val) /\ taken \in Seq(Val)
<1>1. head \in Cells /\ tail \in Cells
  BY DEF TypeOK
<1>2. Used \in 0 .. Size - 1
  BY <1>1, UsedRange
<1>3. /\ w \in WRec /\ w.data \in Seq(Val) /\ w.done \in Nat
      /\ r \in RRec /\ r.got \in Seq(Val) /\ r.len \in Nat
  BY DEF TypeOK, WRec, RRec
<1>4. Len(w.data) \in Nat /\ Len(r.got) \in Nat
  BY <1>3, LenProperties
<1>5. QED
  BY <1>1, <1>2, <1>3, <1>4 DEF TypeOK

(* A step that moves neither index and leaves the memory alone changes     *)
(* what is asked of the other thread's call in nothing.                    *)
LEMMA StoreCell ==
  ASSUME IInv, w.pc \in {"copy", "direct"}, w.done < Len(w.data)
  PROVE  LET i == IF w.pc = "copy" THEN Wrap(tail + w.done) ELSE tail + w.done
         IN  /\ i = Wrap(tail + w.done)
             /\ i \in Cells
             /\ i = Wrap(head + Used + w.done)
             /\ Used + Len(w.data) < Size
<1>0. TypeOK /\ Producing
  BY DEF IInv
<1>1. Used + Len(w.data) < Size
  BY <1>0, Typed, LoopCacheAssumption DEF Producing, Fits, Cells
<1>2. Used + w.done < Size
  BY <1>0, <1>1, Typed, LoopCacheAssumption DEF Cells
<1>3. /\ Wrap(tail + w.done) = Wrap(head + Used + w.done)
      /\ tail + w.done \in 0 .. 2 * Size - 1
  BY <1>0, <1>2, Typed, TailPosition
<1>4. w.pc = "direct" => tail + w.done = Wrap(tail + w.done)
  BY <1>0, Typed, LoopCacheAssumption DEF Producing, Wrap, Cells
<1>5. QED
  BY <1>1, <1>3, <1>4, WrapRange

(* Storing a unit behind the content leaves the content as it is.          *)
LEMMA StoreKeeps ==
  ASSUME IInv, Store
  PROVE  /\ Used' = Used
         /\ \A i \in 1 .. Used : mem'[Wrap(head + i - 1)] = mem[Wrap(head + i - 1)]
         /\ \A j \in 1 .. w.done : mem'[Wrap(tail + j - 1)] = mem[Wrap(tail + j - 1)]
         /\ mem'[Wrap(tail + w.done)] = w.data[w.done + 1]
         /\ mem' \in [Cells -> Val \cup {None}]
<1> DEFINE k == IF w.pc = "copy" THEN Wrap(tail + w.done) ELSE tail + w.done
<1>0. TypeOK /\ Producing
  BY DEF IInv
<1>0a. /\ head \in Cells /\ tail \in Cells /\ Used \in 0 .. Size - 1
       /\ w.done \in Nat /\ Len(w.data) \in Nat
  BY <1>0, Typed
<1>1. /\ w.pc \in {"copy", "direct"} /\ w.done < Len(w.data)
      /\ mem' = [mem EXCEPT ![k] = w.data[w.done + 1]]
  BY DEF Store
<1>2. /\ k = Wrap(tail + w.done) /\ k \in Cells
      /\ k = Wrap(head + Used + w.done)
      /\ Used + Len(w.data) < Size
  BY <1>1, StoreCell
<1> HIDE DEF k
<1>3. w.data[w.done + 1] \in Val
  BY <1>0, <1>1, Typed, ElementOfSeq
<1>4. \A i \in 1 .. Used : Wrap(head + i - 1) # k
  <2> SUFFICES ASSUME NEW i \in 1 .. Used
               PROVE  Wrap(head + i - 1) # k
    OBVIOUS
  <2>1. i - 1 \in 0 .. Size - 1 /\ Used + w.done \in 0 .. Size - 1 /\ i - 1 # Used + w.done
    BY SMTT(30), <1>0, <1>1, <1>2, Typed, LoopCacheAssumption
  <2>2. Wrap(head + (i - 1)) # Wrap(head + (Used + w.done))
    BY <1>0, <2>1, Typed, Distinct
  <2>3. head + (i - 1) = head + i - 1 /\ head + (Used + w.done) = head + Used + w.done
    BY <1>0, Typed, LoopCacheAssumption DEF Cells
  <2>4. QED
    BY <1>2, <2>2, <2>3
<1>5. \A j \in 1 .. w.done : Wrap(tail + j - 1) # k
  <2> SUFFICES ASSUME NEW j \in 1 .. w.done
               PROVE  Wrap(tail + j - 1) # k
    OBVIOUS
  <2>1. j - 1 \in 0 .. Size - 1 /\ Used + (j - 1) < Size /\ j - 1 \in Nat
    BY SMTT(30), <1>0, <1>1, <1>2, Typed, LoopCacheAssumption
  <2>2. Wrap(tail + (j - 1)) = Wrap(head + Used + (j - 1))
    BY <1>0, <2>1, Typed, TailPosition
  <2>3. /\ Used + (j - 1) \in 0 .. Size - 1 /\ Used + w.done \in 0 .. Size - 1
        /\ Used + (j - 1) # Used + w.done
    BY <1>0a, <1>1, <1>2, LoopCacheAssumption
  <2>4. Wrap(head + (Used + (j - 1))) # Wrap(head + (Used + w.done))
    BY <1>0, <2>3, Typed, Distinct
  <2>5. /\ tail + (j - 1) = tail + j - 1
        /\ head + (Used + (j - 1)) = head + Used + (j - 1)
        /\ head + (Used + w.done) = head + Used + w.done
    BY <1>0, Typed, LoopCacheAssumption DEF Cells
  <2>6. QED
    BY <1>2, <2>2, <2>4, <2>5
<1>6. \A c \in Cells : mem'[c] = IF c = k THEN w.data[w.done + 1] ELSE mem[c]
  BY <1>0, <1>1, Typed
<1>7. \A i \in 1 .. Used : Wrap(head + i - 1) \in Cells
  BY <1>0a, LoopCacheAssumption DEF Wrap, Cells
<1>8. \A j \in 1 .. w.done : Wrap(tail + j - 1) \in Cells
  BY SMTT(30), <1>0a, <1>1, <1>2, LoopCacheAssumption DEF Wrap, Cells
<1>9. Used' = Used
  BY DEF Store, Used
<1>10. mem' \in [Cells -> Val \cup {None}]
  BY <1>0, <1>1, <1>3, Typed
<1>11. QED
  BY <1>2, <1>4, <1>5, <1>6, <1>7, <1>8, <1>9, <1>10

LEMMA InvPushData ==
  ASSUME IInv, NEW d \in Data, PushData(d)
  PROVE  IInv'
<1>1. TypeOK'
  BY DataType DEF IInv, TypeOK, PushData, Cells
<1>2. Producing'
  BY DataType, LenProperties DEF IInv, Producing, PushData, Fits, Used
<1>3. Consuming' /\ Filled'
  BY DEF IInv, Consuming, Filled, PushData, Used
<1>4. QED
  BY <1>1, <1>2, <1>3 DEF IInv

LEMMA InvGetFree ==
  ASSUME IInv, NEW d \in Data, GetFree(d)
  PROVE  IInv'
<1>1. TypeOK'
  BY DataType DEF IInv, TypeOK, GetFree, Cells
<1>2. Fits(Len(d)) /\ tail + Len(d) <= Size /\ Len(d) \in Nat
  <2>1. d \in Seq(Val) /\ Len(d) \in Nat
    BY DataType, LenProperties
  <2>2. head \in Cells /\ tail \in Cells /\ Len(d) <= FreeRun
    BY DEF IInv, TypeOK, GetFree
  <2>3. QED
    BY <2>1, <2>2, FreeRunFits
<1>3. Producing'
  BY <1>2 DEF IInv, Producing, GetFree, Fits, Used
<1>4. Consuming' /\ Filled'
  BY DEF IInv, Consuming, Filled, GetFree, Used
<1>5. QED
  BY <1>1, <1>3, <1>4 DEF IInv

LEMMA InvStore ==
  ASSUME IInv, Store
  PROVE  IInv'
<1>0. TypeOK /\ Producing /\ Consuming /\ Filled
  BY DEF IInv
<1>1. /\ head \in Cells /\ tail \in Cells /\ Used \in 0 .. Size - 1
      /\ w \in WRec /\ w.done \in Nat /\ Len(w.data) \in Nat
      /\ Len(r.got) \in Nat /\ r.len \in Nat
  BY <1>0, Typed
<1>2. /\ w.pc \in {"copy", "direct"} /\ w.done < Len(w.data)
      /\ w' = [w EXCEPT !.done = w.done + 1]
      /\ UNCHANGED <<head, tail, r, given, taken>>
  BY DEF Store
<1>3. /\ w'.pc = w.pc /\ w'.data = w.data /\ w'.done = w.done + 1 /\ w' \in WRec
  BY <1>1, <1>2 DEF WRec
<1>4. TypeOK'
  BY <1>0, <1>2, <1>3, StoreKeeps DEF TypeOK, WRec, Cells
<1>5. Producing'
  <2>1. w.pc # "idle" /\ Fits(Len(w.data)) /\ (w.pc = "direct" => tail + Len(w.data) <= Size)
    BY <1>0, <1>2 DEF Producing
  <2>2. Fits(Len(w.data))'
    BY <1>2, <1>3, <2>1, StoreKeeps DEF Fits
  <2>3. \A j \in 1 .. w.done + 1 : mem'[Wrap(tail + j - 1)] = w.data[j]
    <3> SUFFICES ASSUME NEW j \in 1 .. w.done + 1
                 PROVE  mem'[Wrap(tail + j - 1)] = w.data[j]
      OBVIOUS
    <3>1. CASE j \in 1 .. w.done
      BY <1>0, <3>1, StoreKeeps DEF Producing
    <3>2. CASE j = w.done + 1
      <4>1. tail + j - 1 = tail + w.done
        BY <1>1, <3>2 DEF Cells
      <4>2. QED
        BY <3>2, <4>1, StoreKeeps
    <3>3. QED
      BY <1>1, <3>1, <3>2
  <2>4. w'.done <= Len(w'.data)
    BY <1>1, <1>2, <1>3
  <2>5. \A j \in 1 .. w'.done : mem'[Wrap(tail' + j - 1)] = w'.data[j]
    BY <1>2, <1>3, <2>3
  <2>6. (w'.pc = "idle" => w'.data = <<>>) /\ (w'.pc = "direct" => tail' + Len(w'.data) <= Size)
    BY <1>2, <1>3, <2>1
  <2>7. QED
    BY <1>3, <2>2, <2>4, <2>5, <2>6 DEF Producing, Wrap
<1>6. Consuming'
  <2>1. \A i \in 1 .. Len(r.got) : i \in 1 .. Used
    BY <1>0, <1>1 DEF Consuming
  <2>2. QED
    BY <1>0, <1>2, <2>1, StoreKeeps DEF Consuming, Wrap
<1>7. Filled'
  BY <1>0, <1>2, StoreKeeps DEF Filled, Wrap
<1>8. QED
  BY <1>4, <1>5, <1>6, <1>7 DEF IInv

(* Publishing adds the stored units to the content and keeps the others.   *)
LEMMA PublishMoves ==
  ASSUME IInv, Publish
  PROVE  /\ w.data \in Seq(Val) /\ Len(w.data) \in Nat
         /\ tail' \in Cells /\ Used' = Used + Len(w.data) /\ Used' <= Size - 1
         /\ \A j \in 1 .. Len(w.data) : mem[Wrap(head + Used + j - 1)] = w.data[j]
<1>0. TypeOK /\ Producing
  BY DEF IInv
<1>1. /\ head \in Cells /\ tail \in Cells /\ Used \in 0 .. Size - 1
      /\ w.data \in Seq(Val) /\ Len(w.data) \in Nat
  BY <1>0, Typed
<1>2. w.pc # "idle" /\ w.done = Len(w.data) /\ head' = head /\ tail' = Wrap(tail + Len(w.data))
  BY DEF Publish
<1>3. Fits(Len(w.data))
  BY <1>0, <1>2 DEF Producing
<1>4. tail' \in Cells /\ Used' = Used + Len(w.data)
  BY <1>1, <1>2, <1>3, PublishUsed
<1>5. Used + Len(w.data) + 1 <= Size
  BY <1>1, <1>3, LoopCacheAssumption DEF Fits
<1>6. ASSUME NEW j \in 1 .. Len(w.data)
      PROVE  mem[Wrap(head + Used + j - 1)] = w.data[j]
  <2>1. mem[Wrap(tail + j - 1)] = w.data[j]
    BY <1>0, <1>2 DEF Producing
  <2>2. j - 1 \in Nat /\ Used + (j - 1) < Size
    BY <1>1, <1>5, LoopCacheAssumption
  <2>3. Wrap(tail + (j - 1)) = Wrap(head + Used + (j - 1))
    BY <1>1, <2>2, TailPosition
  <2>4. tail + (j - 1) = tail + j - 1 /\ head + Used + (j - 1) = head + Used + j - 1
    BY <1>1, LoopCacheAssumption DEF Cells
  <2>5. QED
    BY <2>1, <2>3, <2>4
<1>7. QED
  BY <1>1, <1>4, <1>5, <1>6, LoopCacheAssumption

LEMMA InvPublish ==
  ASSUME IInv, Publish
  PROVE  IInv'
<1>0. TypeOK /\ Producing /\ Consuming /\ Filled
  BY DEF IInv
<1>1. /\ head \in Cells /\ Used \in 0 .. Size - 1 /\ r.len \in Nat /\ Len(r.got) \in Nat
      /\ Len(w.data) \in Nat /\ w.data \in Seq(Val)
  BY <1>0, Typed
<1>2. /\ UNCHANGED <<head, mem, r, taken>>
      /\ w' = IdleW /\ given' = w.data
  BY DEF Publish
<1>3. TypeOK'
  BY <1>0, <1>1, <1>2, PublishMoves DEF TypeOK, IdleW, Cells
<1>4. Producing'
  BY <1>2 DEF Producing, IdleW
<1>5. Consuming'
  BY <1>0, <1>1, <1>2, PublishMoves DEF Consuming, Wrap
<1>6. Filled'
  <2> SUFFICES ASSUME NEW i \in 1 .. Used + Len(w.data)
               PROVE  mem[Wrap(head + i - 1)] \in Val
    BY <1>2, PublishMoves DEF Filled, Wrap
  <2>1. CASE i <= Used
    BY <1>0, <1>1, <2>1 DEF Filled
  <2>2. CASE i > Used
    <3>1. i - Used \in 1 .. Len(w.data)
      BY <1>1, <2>2
    <3>2. head + Used + (i - Used) - 1 = head + i - 1
      BY <1>1 DEF Cells
    <3>3. mem[Wrap(head + i - 1)] = w.data[i - Used]
      BY <3>1, <3>2, PublishMoves
    <3>4. w.data[i - Used] \in Val
      BY <1>1, <3>1, ElementOfSeq
    <3>5. QED
      BY <3>3, <3>4
  <2>3. QED
    BY <1>1, <2>1, <2>2
<1>7. QED
  BY <1>3, <1>4, <1>5, <1>6 DEF IInv

LEMMA InvCopyData ==
  ASSUME IInv, NEW n \in 1 .. Size, CopyData(n)
  PROVE  IInv'
<1>1. TypeOK'
  BY LoopCacheAssumption DEF IInv, TypeOK, CopyData, Cells
<1>2. Producing' /\ Filled'
  BY DEF IInv, Producing, Filled, CopyData, Fits, Used
<1>3. Consuming'
  BY LoopCacheAssumption DEF IInv, Consuming, CopyData, Used
<1>4. QED
  BY <1>1, <1>2, <1>3 DEF IInv

LEMMA InvGetData ==
  ASSUME IInv, NEW n \in 1 .. Size, GetData(n)
  PROVE  IInv'
<1>1. TypeOK'
  BY LoopCacheAssumption DEF IInv, TypeOK, GetData, Cells
<1>2. Producing' /\ Filled'
  BY DEF IInv, Producing, Filled, GetData, Fits, Used
<1>3. n <= Used /\ head + n <= Size
  <2>1. head \in Cells /\ tail \in Cells /\ n <= DataRun /\ n \in Nat
    BY LoopCacheAssumption DEF IInv, TypeOK, GetData
  <2>2. QED
    BY <2>1, DataRunThere
<1>4. Consuming'
  BY <1>3, LoopCacheAssumption DEF IInv, Consuming, GetData, Used
<1>5. QED
  BY <1>1, <1>2, <1>4 DEF IInv

LEMMA InvLeave ==
  ASSUME IInv, Leave
  PROVE  IInv'
<1>1. TypeOK'
  BY DEF IInv, TypeOK, Leave, Cells, IdleR
<1>2. Producing' /\ Filled'
  BY DEF IInv, Producing, Filled, Leave, Fits, Used
<1>3. Consuming'
  <2>1. r' = IdleR
    BY DEF Leave
  <2>2. QED
    BY <2>1 DEF Consuming, IdleR
<1>4. QED
  BY <1>1, <1>2, <1>3 DEF IInv

LEMMA InvLoad ==
  ASSUME IInv, Load
  PROVE  IInv'
<1> DEFINE k == IF r.pc = "copy" THEN Wrap(head + Len(r.got)) ELSE head + Len(r.got)
<1>0. TypeOK /\ Producing /\ Consuming /\ Filled
  BY DEF IInv
<1>1. /\ head \in Cells /\ Used \in 0 .. Size - 1 /\ r \in RRec
      /\ r.len \in Nat /\ r.got \in Seq(Val) /\ Len(r.got) \in Nat
  BY <1>0, Typed
<1>2. /\ r.pc \in {"copy", "direct"} /\ Len(r.got) < r.len
      /\ r' = [r EXCEPT !.got = Append(r.got, mem[k])]
      /\ UNCHANGED <<head, tail, mem, w, given, taken>>
  BY DEF Load
<1>3. r.len <= Used /\ (r.pc = "direct" => head + r.len <= Size)
  BY <1>0, <1>2 DEF Consuming
<1>4. k = Wrap(head + (Len(r.got) + 1) - 1)
  BY <1>1, <1>2, <1>3, LoopCacheAssumption DEF Wrap, Cells
<1>5. mem[k] \in Val
  <2>1. Len(r.got) + 1 \in 1 .. Used
    BY <1>1, <1>2, <1>3, LoopCacheAssumption
  <2>2. QED
    BY <1>0, <1>4, <2>1 DEF Filled
<1> DEFINE got == Append(r.got, mem[k])
<1>6. /\ got \in Seq(Val) /\ Len(got) = Len(r.got) + 1
      /\ \A i \in 1 .. Len(r.got) : got[i] = r.got[i]
      /\ got[Len(r.got) + 1] = mem[k]
  BY <1>1, <1>5, AppendProperties
<1>7. r'.pc = r.pc /\ r'.len = r.len /\ r'.got = got
  BY <1>1, <1>2 DEF RRec
<1> HIDE DEF k, got
<1>8. r' \in RRec
  BY <1>1, <1>2, <1>5, AppendProperties DEF RRec, k
<1>9. TypeOK'
  BY <1>0, <1>2, <1>8 DEF TypeOK, RRec, Cells
<1>10. Producing' /\ Filled'
  BY <1>0, <1>2 DEF Producing, Filled, Fits, Used, Wrap
<1>11. \A i \in 1 .. Len(got) : got[i] = mem[Wrap(head + i - 1)]
  <2> SUFFICES ASSUME NEW i \in 1 .. Len(got)
               PROVE  got[i] = mem[Wrap(head + i - 1)]
    OBVIOUS
  <2>1. CASE i \in 1 .. Len(r.got)
    BY <1>0, <1>6, <2>1 DEF Consuming
  <2>2. CASE i = Len(r.got) + 1
    BY <1>4, <1>6, <2>2
  <2>3. QED
    BY <1>1, <1>6, <2>1, <2>2
<1>12. Consuming'
  BY <1>1, <1>2, <1>3, <1>6, <1>7, <1>11 DEF Consuming, Used, Wrap
<1>13. QED
  BY <1>9, <1>10, <1>12 DEF IInv

(* Popping takes the oldest units out of the content and keeps the others. *)
LEMMA PopMoves ==
  ASSUME IInv, NEW n \in 1 .. Size, Pop(n)
  PROVE  /\ n <= Used /\ head' \in Cells /\ Used' = Used - n
         /\ n <= Len(r.got) /\ Len(r.got) <= Used
         /\ \A i \in 1 .. Used - n : Wrap(head' + i - 1) = Wrap(head + (n + i) - 1)
<1>0. TypeOK /\ Consuming
  BY DEF IInv
<1>1. /\ head \in Cells /\ tail \in Cells /\ Used \in 0 .. Size - 1
      /\ r.len \in Nat /\ Len(r.got) \in Nat /\ n \in Nat
  BY <1>0, Typed
<1>2. /\ r.pc # "idle" /\ Len(r.got) = r.len /\ n <= r.len /\ n <= Used
      /\ head' = Wrap(head + n) /\ tail' = tail
  BY DEF Pop
<1>3. head' \in Cells /\ Used' = Used - n
  BY <1>1, <1>2, PopUsed
<1>4. ASSUME NEW i \in 1 .. Used - n
      PROVE  Wrap(head' + i - 1) = Wrap(head + (n + i) - 1)
  BY <1>1, <1>2, LoopCacheAssumption DEF Cells, Wrap
<1>5. QED
  BY <1>0, <1>1, <1>2, <1>3, <1>4 DEF Consuming

LEMMA InvPop ==
  ASSUME IInv, NEW n \in 1 .. Size, Pop(n)
  PROVE  IInv'
<1>0. TypeOK /\ Producing /\ Consuming /\ Filled
  BY DEF IInv
<1>1. /\ head \in Cells /\ tail \in Cells /\ Used \in 0 .. Size - 1
      /\ Len(w.data) \in Nat /\ r.got \in Seq(Val) /\ Len(r.got) \in Nat
  BY <1>0, Typed
<1>2. /\ r' = IdleR /\ taken' = SubSeq(r.got, 1, n)
      /\ UNCHANGED <<tail, mem, w, given>>
  BY DEF Pop
<1>3. SubSeq(r.got, 1, n) \in Seq(Val)
  BY <1>1, PopMoves, SubSeqProperties
<1>4. TypeOK'
  BY <1>0, <1>2, <1>3, PopMoves DEF TypeOK, IdleR, Cells
<1>5. Producing'
  <2>1. Fits(Len(w.data)) => Fits(Len(w.data))'
    BY <1>1, <1>2, PopMoves, LoopCacheAssumption DEF Fits
  <2>2. QED
    BY <1>0, <1>2, <2>1 DEF Producing, Wrap
<1>6. Consuming'
  BY <1>2 DEF Consuming, IdleR
<1>7. Filled'
  <2> SUFFICES ASSUME NEW i \in 1 .. Used - n
               PROVE  mem[Wrap(head' + i - 1)] \in Val
    BY <1>2, PopMoves DEF Filled, Wrap
  <2>1. n + i \in 1 .. Used
    BY <1>1
  <2>2. mem[Wrap(head + (n + i) - 1)] \in Val
    BY <1>0, <2>1 DEF Filled
  <2>3. QED
    BY <2>2, PopMoves
<1>8. QED
  BY <1>4, <1>5, <1>6, <1>7 DEF IInv

LEMMA InvNext == IInv /\ [Next]_vars => IInv'
<1> SUFFICES ASSUME IInv, [Next]_vars
             PROVE  IInv'
  OBVIOUS
<1>1. ASSUME NEW d \in Data, PushData(d) PROVE IInv'
  BY <1>1, InvPushData
<1>2. ASSUME NEW d \in Data, GetFree(d) PROVE IInv'
  BY <1>2, InvGetFree
<1>3. CASE Store
  BY <1>3, InvStore
<1>4. CASE Publish
  BY <1>4, InvPublish
<1>5. ASSUME NEW n \in 1 .. Size, CopyData(n) PROVE IInv'
  BY <1>5, InvCopyData
<1>6. ASSUME NEW n \in 1 .. Size, GetData(n) PROVE IInv'
  BY <1>6, InvGetData
<1>7. ASSUME NEW n \in 1 .. Size, Pop(n) PROVE IInv'
  BY <1>7, InvPop
<1>8. CASE Load
  BY <1>8, InvLoad
<1>9. CASE Leave
  BY <1>9, InvLeave
<1>10. CASE UNCHANGED vars
  BY <1>10 DEF vars, IInv, TypeOK, Producing, Consuming, Filled, Fits, Used, Wrap, Cells
<1>11. QED
  BY <1>1, <1>2, <1>3, <1>4, <1>5, <1>6, <1>7, <1>8, <1>9, <1>10
  DEF Next, Produce, Consume

LEMMA Invariant == Spec => []IInv
<1>1. QED
  BY InvInit, InvNext, PTL DEF Spec

-----------------------------------------------------------------------------
(***************************************************************************)
(* The results.                                                            *)
(***************************************************************************)

(* The indices of the ring never leave its memory.                         *)
THEOREM TypeCorrect == Spec => []TypeOK
<1>1. IInv => TypeOK
  BY DEF IInv
<1>2. QED
  BY <1>1, Invariant, PTL

(* loop_cache_push after get_free and loop_cache_pop after get_data never  *)
(* refuse.                                                                 *)
THEOREM NotRefused == Spec => []NeverRefused
<1>1. IInv => NeverRefused
  BY DEF IInv, Producing, Consuming, NeverRefused
<1>2. QED
  BY <1>1, Invariant, PTL

LEMMA ReadsInv == IInv => ReadsContent
<1> SUFFICES ASSUME IInv, r.pc # "idle", NEW i \in 1 .. Len(r.got)
             PROVE  i <= Used /\ r.got[i] = Content[i]
  BY DEF ReadsContent
<1>0. TypeOK /\ Consuming
  BY DEF IInv
<1>1. Used \in 0 .. Size - 1 /\ r.len \in Nat /\ Len(r.got) \in Nat
  BY <1>0, Typed
<1>2. i \in 1 .. Used
  BY <1>0, <1>1 DEF Consuming
<1>3. QED
  BY <1>0, <1>2 DEF Consuming, Content

(* What the consumer reads is what lies in the ring.                       *)
THEOREM ReadsRight == Spec => []ReadsContent
<1>1. QED
  BY ReadsInv, Invariant, PTL

-----------------------------------------------------------------------------
(***************************************************************************)
(* The ring implements the queue of Fifo.                                  *)
(***************************************************************************)
LEMMA ContentType ==
  ASSUME IInv
  PROVE  /\ Content \in Seq(Val) /\ Len(Content) = Used
         /\ \A i \in 1 .. Used : Content[i] = mem[Wrap(head + i - 1)]
<1>1. Used \in Nat
  BY Typed DEF IInv
<1>2. Content \in [1 .. Used -> Val]
  BY DEF IInv, Filled, Content
<1>3. QED
  BY <1>1, <1>2 DEF Content

LEMMA ContentAfter ==
  ASSUME Filled', Used' \in Nat
  PROVE  /\ Content' \in Seq(Val) /\ Len(Content') = Used'
         /\ \A i \in 1 .. Used' : Content'[i] = mem'[Wrap(head' + i - 1)]
<1>1. Content' = [i \in 1 .. Used' |-> mem'[Wrap(head' + i - 1)]]
  BY DEF Content, Wrap
<1>2. \A i \in 1 .. Used' : mem'[Wrap(head' + i - 1)] \in Val
  BY DEF Filled, Wrap
<1>3. Content' \in [1 .. Used' -> Val]
  BY <1>1, <1>2
<1>4. QED
  BY <1>1, <1>3

LEMMA ContentInit == Init => Abstract!Init
<1> SUFFICES ASSUME Init
             PROVE  Content = <<>>
  BY DEF Init, Abstract!Init
<1>1. Used = 0
  BY LoopCacheAssumption DEF Init, Used
<1>2. IInv
  BY InvInit
<1>3. Content \in Seq(Val) /\ Len(Content) = 0
  BY <1>1, <1>2, ContentType
<1>4. QED
  BY <1>3, EmptySeq

LEMMA PublishEnqueues ==
  ASSUME IInv, IInv', Publish
  PROVE  Abstract!Enqueue
<1>1. /\ w.data \in Seq(Val) /\ Len(w.data) \in Nat /\ Used \in Nat /\ Size \in Nat
      /\ Used' = Used + Len(w.data) /\ Used' <= Size - 1
  BY PublishMoves, Typed, LoopCacheAssumption DEF IInv
<1>2. given' = w.data /\ UNCHANGED <<head, mem, taken>>
  BY DEF Publish
<1>3. /\ Content \in Seq(Val) /\ Len(Content) = Used
      /\ \A i \in 1 .. Used : Content[i] = mem[Wrap(head + i - 1)]
  BY ContentType
<1>4. /\ Content' \in Seq(Val) /\ Len(Content') = Used'
      /\ \A i \in 1 .. Used' : Content'[i] = mem[Wrap(head + i - 1)]
  <2>1. Filled' /\ Used' \in Nat
    BY <1>1 DEF IInv
  <2>2. QED
    BY <1>2, <2>1, ContentAfter
<1> DEFINE both == Content \o w.data
<1>5. /\ both \in Seq(Val) /\ Len(both) = Used + Len(w.data)
      /\ \A i \in 1 .. Used + Len(w.data) :
           both[i] = IF i <= Used THEN Content[i] ELSE w.data[i - Used]
  BY <1>1, <1>3, ConcatProperties
<1> HIDE DEF both
<1>6. ASSUME NEW i \in 1 .. Used'
      PROVE  Content'[i] = both[i]
  <2>1. CASE i <= Used
    <3>1. i \in 1 .. Used /\ i \in 1 .. Used + Len(w.data)
      BY <1>1, <2>1
    <3>2. Content'[i] = mem[Wrap(head + i - 1)]
      BY <1>4
    <3>3. both[i] = Content[i]
      BY <1>5, <2>1, <3>1
    <3>4. QED
      BY <1>3, <3>1, <3>2, <3>3
  <2>2. CASE i > Used
    <3>1. i - Used \in 1 .. Len(w.data)
      BY <1>1, <2>2
    <3>2. head + Used + (i - Used) - 1 = head + i - 1
      BY <1>1 DEF IInv, TypeOK, Cells
    <3>3. mem[Wrap(head + i - 1)] = w.data[i - Used]
      BY <3>1, <3>2, PublishMoves
    <3>4. QED
      BY <1>1, <1>4, <1>5, <2>2, <3>3
  <2>3. QED
    BY <1>1, <2>1, <2>2
<1>7. Content' = both
  BY <1>1, <1>4, <1>5, <1>6, SeqEqual
<1>8. QED
  BY <1>1, <1>2, <1>4, <1>7 DEF Abstract!Enqueue, both

LEMMA PopDequeues ==
  ASSUME IInv, IInv', NEW n \in 1 .. Size, Pop(n)
  PROVE  Abstract!Dequeue
<1>1. /\ n <= Used /\ Used' = Used - n /\ n <= Len(r.got) /\ Len(r.got) \in Nat
      /\ Used \in Nat /\ n \in Nat /\ r.got \in Seq(Val)
      /\ \A i \in 1 .. Used - n : Wrap(head' + i - 1) = Wrap(head + (n + i) - 1)
  BY PopMoves, Typed, LoopCacheAssumption DEF IInv
<1>2. taken' = SubSeq(r.got, 1, n) /\ UNCHANGED <<tail, mem, w, given>>
  BY DEF Pop
<1>3. /\ Content \in Seq(Val) /\ Len(Content) = Used
      /\ \A i \in 1 .. Used : Content[i] = mem[Wrap(head + i - 1)]
  BY ContentType
<1>4. /\ Content' \in Seq(Val) /\ Len(Content') = Used - n
      /\ \A i \in 1 .. Used - n : Content'[i] = mem[Wrap(head' + i - 1)]
  <2>1. Filled' /\ Used' \in Nat
    BY <1>1 DEF IInv
  <2>2. QED
    BY <1>1, <1>2, <2>1, ContentAfter
<1>5. taken' = SubSeq(Content, 1, n)
  <2>1. r.pc # "idle"
    BY DEF Pop
  <2>2. \A i \in 1 .. n : r.got[i] = Content[i]
    BY <1>1, <2>1, ReadsInv DEF ReadsContent
  <2>3. \A i \in 1 .. n : r.got[i] \in Val /\ Content[i] \in Val
    BY <1>1, <1>3, ElementOfSeq
  <2>4. /\ SubSeq(r.got, 1, n) \in Seq(Val) /\ Len(SubSeq(r.got, 1, n)) = n
        /\ \A i \in 1 .. n : SubSeq(r.got, 1, n)[i] = r.got[i]
    BY <1>1, <2>3, SubSeqProperties
  <2>5. /\ SubSeq(Content, 1, n) \in Seq(Val) /\ Len(SubSeq(Content, 1, n)) = n
        /\ \A i \in 1 .. n : SubSeq(Content, 1, n)[i] = Content[i]
    BY <1>1, <1>3, <2>3, SubSeqProperties
  <2>6. SubSeq(r.got, 1, n) = SubSeq(Content, 1, n)
    BY <2>2, <2>4, <2>5, SeqEqual
  <2>7. QED
    BY <1>2, <2>6
<1>6. Content' = SubSeq(Content, n + 1, Used)
  <2>1. \A i \in n + 1 .. Used : Content[i] \in Val
    BY <1>1, <1>3, ElementOfSeq
  <2>2. /\ SubSeq(Content, n + 1, Used) \in Seq(Val)
        /\ Len(SubSeq(Content, n + 1, Used)) = Used - n
        /\ \A i \in 1 .. Used - n : SubSeq(Content, n + 1, Used)[i] = Content[n + i]
    BY <1>1, <2>1, SubSeqProperties
  <2>3. \A i \in 1 .. Used - n : Content'[i] = Content[n + i]
    <3> SUFFICES ASSUME NEW i \in 1 .. Used - n
                 PROVE  Content'[i] = Content[n + i]
      OBVIOUS
    <3>1. n + i \in 1 .. Used
      BY <1>1
    <3>2. QED
      BY <1>1, <1>3, <1>4, <3>1
  <2>4. QED
    BY <1>4, <2>2, <2>3, SeqEqual
<1>7. n \in 1 .. Len(Content)
  BY <1>1, <1>3
<1>8. QED
  BY <1>2, <1>3, <1>5, <1>6, <1>7 DEF Abstract!Dequeue

(* A step that moves neither index is none of the queue's.                 *)
LEMMA ContentStays ==
  ASSUME UNCHANGED <<head, tail, mem, given, taken>>
  PROVE  UNCHANGED Abstract!vars
BY DEF Abstract!vars, Content, Used, Wrap

LEMMA StoreStutters ==
  ASSUME IInv, IInv', Store
  PROVE  UNCHANGED Abstract!vars
<1>1. UNCHANGED <<head, tail, r, given, taken>>
  BY DEF Store
<1>2. /\ Used' = Used
      /\ \A i \in 1 .. Used : mem'[Wrap(head + i - 1)] = mem[Wrap(head + i - 1)]
  BY StoreKeeps
<1>3. Content' = Content
  BY <1>1, <1>2 DEF Content, Wrap
<1>4. QED
  BY <1>1, <1>3 DEF Abstract!vars

LEMMA StepRefines ==
  IInv /\ IInv' /\ [Next]_vars => [Abstract!Next]_Abstract!vars
<1> SUFFICES ASSUME IInv, IInv', [Next]_vars
             PROVE  Abstract!Next \/ UNCHANGED Abstract!vars
  OBVIOUS
<1>1. CASE Store
  BY <1>1, StoreStutters
<1>2. CASE Publish
  BY <1>2, PublishEnqueues DEF Abstract!Next
<1>3. ASSUME NEW n \in 1 .. Size, Pop(n)
      PROVE  Abstract!Next
  BY <1>3, PopDequeues DEF Abstract!Next
<1>4. ASSUME NEW d \in Data, PushData(d) \/ GetFree(d)
      PROVE  UNCHANGED Abstract!vars
  BY <1>4, ContentStays DEF PushData, GetFree
<1>5. ASSUME NEW n \in 1 .. Size, CopyData(n) \/ GetData(n)
      PROVE  UNCHANGED Abstract!vars
  BY <1>5, ContentStays DEF CopyData, GetData
<1>6. CASE Load \/ Leave
  BY <1>6, ContentStays DEF Load, Leave
<1>7. CASE UNCHANGED vars
  BY <1>7, ContentStays DEF vars
<1>8. QED
  BY <1>1, <1>2, <1>3, <1>4, <1>5, <1>6, <1>7 DEF Next, Produce, Consume

(* The ring is a bounded queue of Size - 1 units: what is popped is what   *)
(* was pushed, each unit once and in order.                                *)
THEOREM Refinement == Spec => ImplementsFifo
<1>1. QED
  BY ContentInit, StepRefines, Invariant, PTL DEF Spec, ImplementsFifo, Abstract!Spec
=============================================================================
