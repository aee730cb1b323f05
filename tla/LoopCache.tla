----------------------------- MODULE LoopCache ------------------------------
(***************************************************************************)
(* The ring buffer of libsvr/src/loop_cache.c, used by one producer thread *)
(* and one consumer thread without a lock: every queue and every socket    *)
(* cache of libsvr is one.  A thread reads the other's index once, works,  *)
(* and publishes its own index last.  head and tail are offsets from       *)
(* cache_begin; one unit of data is one byte.  Loads and stores of the two *)
(* indices are atomic and are seen in program order (x86).                 *)
(***************************************************************************)
EXTENDS Integers, Sequences

CONSTANTS
  Size,    \* cache->size
  Val,     \* the data units
  None,    \* what the memory holds at the beginning
  MaxLen   \* bound: length of the data of one push

ASSUME LoopCacheAssumption ==
  /\ Size \in Nat \ {0}
  /\ MaxLen \in Nat
  /\ None \notin Val

VARIABLES
  head,  \* written by the consumer
  tail,  \* written by the producer
  mem,   \* the memory from cache_begin to cache_end
  w,     \* the producer's call in progress
  r,     \* the consumer's call in progress
  given, \* what the producer's last completed push put in
  taken  \* what the consumer's last completed pop took out

vars == <<head, tail, mem, w, r, given, taken>>

-----------------------------------------------------------------------------
Cells == 0 .. Size - 1

Data == UNION {[1 .. n -> Val] : n \in 1 .. MaxLen}

WrapLate(i) == IF i > Size THEN i - Size ELSE i \* mutant: > for >=

(* cache_end is where the memory begins again                              *)
Wrap(i) == IF i >= Size THEN i - Size ELSE i

(* the local used, from one read of head and of tail                       *)
Used ==
  LET dist == tail + Size - head
  IN IF dist >= Size THEN dist - Size ELSE dist

FitsFull(n) == n + Used <= Size \* mutant: fills the last unit

(* head = tail means empty, so one unit is never filled                    *)
Fits(n) == n + Used + 1 <= Size

FreeRunFull == \* mutant: offers the unit that is never filled
  LET free == Size - Used
  IN IF tail + free >= Size THEN Size - tail ELSE free

(* what loop_cache_get_free and loop_cache_get_data offer: up to the end   *)
(* of the memory, with 0 as the wanted length                              *)
FreeRun ==
  LET free == Size - Used - 1
  IN IF tail + free >= Size THEN Size - tail ELSE free

DataRun == IF head + Used >= Size THEN Size - head ELSE Used

IdleW == [pc |-> "idle", data |-> <<>>, done |-> 0]
IdleR == [pc |-> "idle", len |-> 0, got |-> <<>>]

-----------------------------------------------------------------------------
(***************************************************************************)
(* The producer.                                                           *)
(***************************************************************************)

(* loop_cache_push_data, when there is room; otherwise it changes nothing  *)
PushData(d) ==
  /\ w.pc = "idle"
  /\ Fits(Len(d))
  /\ w' = [pc |-> "copy", data |-> d, done |-> 0]
  /\ UNCHANGED <<head, tail, mem, r, given, taken>>

(* loop_cache_get_free: the caller writes at most that much in place       *)
GetFree(d) ==
  /\ w.pc = "idle"
  /\ Len(d) <= FreeRun
  /\ w' = [pc |-> "direct", data |-> d, done |-> 0]
  /\ UNCHANGED <<head, tail, mem, r, given, taken>>

(* one unit of the two memcpys, or of what the caller writes in place      *)
Store ==
  /\ w.pc \in {"copy", "direct"}
  /\ w.done < Len(w.data)
  /\ LET i == IF w.pc = "copy" THEN Wrap(tail + w.done) ELSE tail + w.done
     IN mem' = [mem EXCEPT ![i] = w.data[w.done + 1]]
  /\ w' = [w EXCEPT !.done = @ + 1]
  /\ UNCHANGED <<head, tail, r, given, taken>>

PublishEarly == \* mutant: tail is moved before the data is there
  /\ w.pc \in {"copy", "direct"}
  /\ w.pc = "direct" => Fits(Len(w.data))
  /\ tail' = Wrap(tail + Len(w.data))
  /\ given' = w.data
  /\ w' = IdleW
  /\ UNCHANGED <<head, mem, r, taken>>

(* tail is moved last; loop_cache_push, after get_free, tests again        *)
Publish ==
  /\ w.pc \in {"copy", "direct"}
  /\ w.done = Len(w.data)
  /\ w.pc = "direct" => Fits(Len(w.data))
  /\ tail' = Wrap(tail + Len(w.data))
  /\ given' = w.data
  /\ w' = IdleW
  /\ UNCHANGED <<head, mem, r, taken>>

-----------------------------------------------------------------------------
(***************************************************************************)
(* The consumer.                                                           *)
(***************************************************************************)

(* loop_cache_pop_data and loop_cache_copy_data: n units, wherever they lie *)
CopyData(n) ==
  /\ r.pc = "idle"
  /\ n <= Used
  /\ r' = [pc |-> "copy", len |-> n, got |-> <<>>]
  /\ UNCHANGED <<head, tail, mem, w, given, taken>>

(* loop_cache_get_data: the caller reads in place                          *)
GetData(n) ==
  /\ r.pc = "idle"
  /\ n <= DataRun
  /\ r' = [pc |-> "direct", len |-> n, got |-> <<>>]
  /\ UNCHANGED <<head, tail, mem, w, given, taken>>

Load ==
  /\ r.pc \in {"copy", "direct"}
  /\ Len(r.got) < r.len
  /\ LET i == IF r.pc = "copy" THEN Wrap(head + Len(r.got)) ELSE head + Len(r.got)
     IN r' = [r EXCEPT !.got = Append(@, mem[i])]
  /\ UNCHANGED <<head, tail, mem, w, given, taken>>

(* loop_cache_pop of n of the units that were read, after testing again    *)
Pop(n) ==
  /\ r.pc \in {"copy", "direct"}
  /\ Len(r.got) = r.len
  /\ n <= r.len
  /\ n <= Used
  /\ head' = Wrap(head + n)
  /\ taken' = SubSeq(r.got, 1, n)
  /\ r' = IdleR
  /\ UNCHANGED <<tail, mem, w, given>>

(* the caller leaves everything in the ring (copy_data, get_data)          *)
Leave ==
  /\ r.pc \in {"copy", "direct"}
  /\ Len(r.got) = r.len
  /\ r' = IdleR
  /\ UNCHANGED <<head, tail, mem, w, given, taken>>

-----------------------------------------------------------------------------
(* create_loop_cache *)
Init ==
  /\ head = 0 /\ tail = 0
  /\ mem = [i \in Cells |-> None]
  /\ w = IdleW
  /\ r = IdleR
  /\ given = <<>> /\ taken = <<>>

Produce == (\E d \in Data : PushData(d) \/ GetFree(d)) \/ Store \/ Publish

Consume ==
  \/ \E n \in 1 .. Size : CopyData(n) \/ GetData(n) \/ Pop(n)
  \/ Load
  \/ Leave

Next == Produce \/ Consume

Spec == Init /\ [][Next]_vars

-----------------------------------------------------------------------------
(* The indices stay inside the memory and the calls in their ranges.       *)
TypeOK ==
  /\ head \in Cells /\ tail \in Cells
  /\ mem \in [Cells -> Val \cup {None}]
  /\ w \in [pc : {"idle", "copy", "direct"}, data : Seq(Val), done : Nat]
  /\ r \in [pc : {"idle", "copy", "direct"}, len : Nat, got : Seq(Val)]
  /\ {given, taken} \subseteq Seq(Val)

(* What was found to fit, or to be there, still does when the index is     *)
(* moved, however far the other thread has got: loop_cache_push after      *)
(* get_free and loop_cache_pop after get_data never refuse, and the        *)
(* CRUSH_CODE of their callers is not reached.                             *)
NeverRefused ==
  /\ w.pc # "idle" => Fits(Len(w.data))
  /\ r.pc # "idle" => r.len <= Used

(* The data units that lie in the ring, oldest first.                      *)
Content == [i \in 1 .. Used |-> mem[Wrap(head + i - 1)]]

(* What the consumer reads is what lies there, while the producer writes.  *)
ReadsContent ==
  r.pc # "idle" => \A i \in 1 .. Len(r.got) : i <= Used /\ r.got[i] = Content[i]

Abstract == INSTANCE Fifo WITH Cap <- Size - 1, queue <- Content

(* The ring is a bounded queue: nothing is lost, repeated or reordered.    *)
ImplementsFifo == Abstract!Spec
=============================================================================
