---------------------------- MODULE LoggerProofs ----------------------------
(***************************************************************************)
(* What the users of the logger rest on, for any number of threads,        *)
(* loggers and commands: no thread touches a logger or a command that was  *)
(* freed, and when the manager is gone everything logged has been written  *)
(* in order and printed.                                                   *)
(***************************************************************************)
EXTENDS Logger, FiniteSetTheorems, SequenceTheorems, TLAPS

CmdRec == [option : Known \cup {"close"}, logger : Loggers, no : Nat]
PostRec == [pc : {"idle", "push", "count", "over"}, cmd : Cmds \cup {0},
            logger : Loggers \cup {0}]
LogRec == [state : {"open", "closing", "freed"}, file : BOOLEAN,
           req : Nat, reqMt : Nat, ack : Nat]
ThrRec == [pc : {"pass", "do", "back", "over"}, end : BOOLEAN, busy : BOOLEAN,
           at : Nat, cmd : Cmds \cup {0}]
PrRec == [pc : {"run", "wait", "end", "over"}, at : Threads, any : BOOLEAN]
MainRec == [pc : {"idle", "wait", "close", "join", "gone"}, cmd : Cmds \cup {0},
            logger : Loggers \cup {0}]
Queues == [Procs -> [Threads -> Seq(Cmds)]]

RingTypes ==
  /\ cmdQ \in Queues /\ rcyQ \in Queues /\ rcyCache \in Queues
  /\ posted \in [Procs -> [Threads -> Nat]] /\ done \in [Procs -> [Threads -> Seq(Nat)]]
CmdTypes == cmd \in [Cmds -> CmdRec \cup {Unused}]
Types ==
  /\ RingTypes /\ CmdTypes
  /\ run \in BOOLEAN /\ list \in Seq(Procs)
  /\ post \in [Procs -> PostRec]
  /\ log \in [Loggers -> LogRec]
  /\ thr \in [Threads -> ThrRec]
  /\ print \in [Threads -> Nat]
  /\ pr \in PrRec
  /\ main \in MainRec

(* The threads in a call are registered, their logger is open, and what    *)
(* they are about to give bears the next number.                           *)
Closing == main.pc \in {"wait", "close"}
NextNo(p, l) == posted[p][ThreadOf[l]] + 1
InCalls ==
  /\ \A p \in Procs : Calling(p) =>
       p \in Registered /\ post[p].logger \in Loggers /\ log[post[p].logger].state = "open"
  /\ \A p \in Procs : post[p].pc = "push" =>
       /\ post[p].cmd \in Cmds /\ cmd[post[p].cmd].option \in Known
       /\ cmd[post[p].cmd].logger = post[p].logger
       /\ cmd[post[p].cmd].no = NextNo(p, post[p].logger)
  /\ Closing =>
       /\ main.cmd \in Cmds /\ main.logger \in Loggers
       /\ cmd[main.cmd] = [option |-> "close", logger |-> main.logger,
                           no |-> NextNo(Main, main.logger)]
       /\ log[main.logger].state = "closing"
       /\ ~Calling(Main)

(* Log threads are somewhere in the list; who is not in it gave nothing.   *)
Listed ==
  /\ list # <<>> /\ Main \in Registered
  /\ \A t \in Threads : thr[t].at \in 1 .. Len(list)
  /\ \A t \in Threads : thr[t].pc \in {"do", "back"} => thr[t].cmd \in Cmds
  /\ \A p \in Procs \ Registered, t \in Threads : cmdQ[p][t] = <<>>

(* A log_cmd that is in use is in one place: with the thread that is about *)
(* to give it, with Main that is about to, with a log thread, in a         *)
(* cmd_queue or in what comes back.                                        *)
Cat(s, u) == s \o u
Lane(p, t) == Cat(rcyQ[p][t], rcyCache[p][t])
Once(s) == \A i, j \in DOMAIN s : s[i] = s[j] => i = j
InHand(k, p) == post[p].pc = "push" /\ post[p].cmd = k
InMain(k) == Closing /\ main.cmd = k
InWork(k, t) == thr[t].pc \in {"do", "back"} /\ thr[t].cmd = k
InQue(k, p, t) == k \in Elems(cmdQ[p][t])
InBack(k, p, t) == k \in Elems(Lane(p, t))
Kinds == {"hand", "main", "work", "que", "back"}
In(k, c, p, t) ==
  \/ c = "hand" /\ t = 1 /\ InHand(k, p)
  \/ c = "main" /\ p = Main /\ t = 1 /\ InMain(k)
  \/ c = "work" /\ p = Main /\ InWork(k, t)
  \/ c = "que" /\ InQue(k, p, t)
  \/ c = "back" /\ InBack(k, p, t)
OnePlace(k) ==
  \A c, d \in Kinds, p, q \in Procs, t, u \in Threads :
    In(k, c, p, t) /\ In(k, d, q, u) => c = d /\ p = q /\ t = u
Used(k) == \A c \in Kinds, p \in Procs, t \in Threads : In(k, c, p, t) => cmd[k] # Unused
Alone ==
  /\ \A k \in Cmds : OnePlace(k) /\ Used(k)
  /\ \A p \in Procs, t \in Threads : Once(cmdQ[p][t]) /\ Once(Lane(p, t))

(* What a proc gave to a thread is done in order: first what was done,     *)
(* then what the thread is doing, then what is in the queue.               *)
Held(p, t) == IF thr[t].pc = "do" /\ At(t) = p THEN 1 ELSE 0
Ordered(p, t) ==
  /\ \A i \in 1 .. Len(done[p][t]) : done[p][t][i] = i
  /\ Len(done[p][t]) + Held(p, t) + Len(cmdQ[p][t]) = posted[p][t]
  /\ Held(p, t) = 1 => cmd[thr[t].cmd].no = Len(done[p][t]) + 1
  /\ \A i \in 1 .. Len(cmdQ[p][t]) :
       cmd[cmdQ[p][t][i]].no = Len(done[p][t]) + Held(p, t) + i
InOrder == \A p \in Procs, t \in Threads : Ordered(p, t)

(* req + reqMt counts the commands given to a logger, and ack those done:  *)
(* what is given and not counted yet makes up for what is not done.        *)
Under(k) == \/ \E p \in Procs, t \in Threads : k \in Elems(cmdQ[p][t])
            \/ \E t \in Threads : thr[t].pc = "do" /\ thr[t].cmd = k
Waiting(l) == {k \in Cmds : Under(k) /\ cmd[k].option # "close" /\ cmd[k].logger = l}
Counting(l) == {p \in Procs : post[p].pc = "count" /\ post[p].logger = l}
Balanced(l) ==
  log[l].req + log[l].reqMt + Cardinality(Counting(l)) = log[l].ack + Cardinality(Waiting(l))
Balance == \A l \in Loggers : Balanced(l)

(* One command closes a logger, and after everything else.                 *)
Closer(k, l) == (Under(k) \/ InMain(k)) /\ cmd[k].option = "close" /\ cmd[k].logger = l
Ending(l) ==
  /\ \A j, k \in Cmds : Closer(j, l) /\ Closer(k, l) => j = k
  /\ \A k \in Cmds : Closer(k, l) => log[l].state = "closing"
  /\ log[l].state # "open" /\ ~(main.pc = "wait" /\ main.logger = l) => Waiting(l) = {}
Endings == \A l \in Loggers : Ending(l)

(* The last pass of a log thread: the procs behind it have given nothing.  *)
LastPass ==
  \A t \in Threads :
    /\ thr[t].end => ~run
    /\ thr[t].pc = "pass" /\ thr[t].end /\ ~thr[t].busy =>
         \A j \in 1 .. Len(list) : j > thr[t].at => cmdQ[list[Len(list) + 1 - j]][t] = <<>>
    /\ thr[t].pc \in {"do", "back"} /\ thr[t].end => thr[t].busy
    /\ thr[t].pc = "over" => thr[t].end /\ \A p \in Procs : cmdQ[p][t] = <<>>

(* Nobody is in a call once is_run is gone; the print thread goes on until *)
(* the log threads are over and it finds nothing; then Main is done.       *)
Over(t) == thr[t].pc = "over"
Stopped ==
  /\ ~run <=> main.pc \in {"join", "gone"}
  /\ ~run => \A p \in Procs : ~Calling(p)
  /\ main.pc = "gone" => pr.pc = "over" /\ \A t \in Threads : Over(t)
Printed ==
  /\ pr.pc = "wait" => \A t \in 1 .. pr.at - 1 : Over(t)
  /\ pr.pc \in {"end", "over"} => \A t \in Threads : Over(t)
  /\ pr.pc = "end" /\ ~pr.any => \A t \in 1 .. pr.at - 1 : print[t] = 0
  /\ pr.pc = "over" => \A t \in Threads : print[t] = 0

IInv ==
  /\ Types /\ InCalls /\ Listed /\ Alone /\ InOrder
  /\ Balance /\ Endings /\ LastPass /\ Stopped /\ Printed

-----------------------------------------------------------------------------
(***************************************************************************)
(* Sequences, and what is in them.                                         *)
(***************************************************************************)
LEMMA Tails ==
  ASSUME NEW S, NEW s \in Seq(S), s # <<>>
  PROVE  /\ Head(s) \in S /\ Tail(s) \in Seq(S) /\ Head(s) = s[1]
         /\ Len(s) \in Nat \ {0} /\ Len(Tail(s)) = Len(s) - 1
         /\ \A i \in 1 .. Len(s) - 1 : Tail(s)[i] = s[i + 1]
BY HeadTailProperties, EmptySeq

LEMMA Appended ==
  ASSUME NEW S, NEW s \in Seq(S), NEW e \in S
  PROVE  /\ Append(s, e) \in Seq(S) /\ Len(s) \in Nat
         /\ Len(Append(s, e)) = Len(s) + 1
         /\ \A i \in 1 .. Len(s) : Append(s, e)[i] = s[i]
         /\ Append(s, e)[Len(s) + 1] = e
OBVIOUS

LEMMA Joins ==
  ASSUME NEW S, NEW s \in Seq(S), NEW u \in Seq(S)
  PROVE  /\ Cat(s, u) \in Seq(S) /\ Len(s) \in Nat /\ Len(u) \in Nat
         /\ Len(Cat(s, u)) = Len(s) + Len(u)
         /\ \A i \in 1 .. Len(s) + Len(u) :
              Cat(s, u)[i] = IF i <= Len(s) THEN s[i] ELSE u[i - Len(s)]
BY ConcatProperties, LenProperties DEF Cat

LEMMA Domain ==
  ASSUME NEW S, NEW s \in Seq(S)
  PROVE  DOMAIN s = 1 .. Len(s) /\ Len(s) \in Nat /\ Elems(s) \subseteq S
         /\ \A i \in 1 .. Len(s) : s[i] \in Elems(s) /\ s[i] \in S
BY LenProperties, ElementOfSeq DEF Elems

LEMMA NoElems == Elems(<<>>) = {} /\ Once(<<>>) /\ Len(<<>>) = 0
BY DEF Elems, Once

LEMMA ElemsAppend ==
  ASSUME NEW S, NEW s \in Seq(S), NEW e \in S
  PROVE  /\ Elems(Append(s, e)) = Elems(s) \cup {e}
         /\ Once(s) /\ e \notin Elems(s) => Once(Append(s, e))
<1> DEFINE a == Append(s, e)
           n == Len(s)
<1>1. /\ a \in Seq(S) /\ n \in Nat /\ Len(a) = n + 1
      /\ \A i \in 1 .. n : a[i] = s[i]
      /\ a[n + 1] = e
  BY Appended
<1>2. DOMAIN a = 1 .. n + 1 /\ DOMAIN s = 1 .. n
  BY <1>1, Domain
<1> HIDE DEF a
<1>3. Elems(a) = Elems(s) \cup {e}
  <2> HIDE DEF n
  <2>1. Elems(a) = {a[i] : i \in 1 .. n + 1} /\ Elems(s) = {s[i] : i \in 1 .. n}
    BY <1>1 DEF Elems, n
  <2>2. 1 .. n + 1 = (1 .. n) \cup {n + 1}
    BY <1>1
  <2>3. \A x : x \in Elems(a) <=> (\E i \in 1 .. n : a[i] = x) \/ a[n + 1] = x
    BY <2>1, <2>2
  <2>4. \A x : x \in Elems(s) <=> \E i \in 1 .. n : s[i] = x
    BY <2>1
  <2> QED BY <1>1, <2>3, <2>4
<1>4. ASSUME Once(s), e \notin Elems(s) PROVE Once(a)
  <2>1. \A i \in 1 .. n : s[i] # e
    BY <1>4 DEF Elems
  <2>2. \A i, j \in 1 .. n : s[i] = s[j] => i = j
    BY <1>2, <1>4 DEF Once
  <2>3. 1 .. n + 1 = (1 .. n) \cup {n + 1}
    BY <1>1
  <2>4. \A i, j \in 1 .. n + 1 : a[i] = a[j] => i = j
    <3> HIDE DEF n
    <3> QED BY <1>1, <2>1, <2>2, <2>3
  <2> QED BY <1>2, <2>4 DEF Once
<1> QED BY <1>3, <1>4 DEF a

LEMMA ElemsTail ==
  ASSUME NEW S, NEW s \in Seq(S), s # <<>>
  PROVE  /\ Head(s) \in Elems(s) /\ Tail(s) \in Seq(S)
         /\ Elems(s) = Elems(Tail(s)) \cup {Head(s)}
         /\ Once(s) => Once(Tail(s)) /\ Head(s) \notin Elems(Tail(s))
<1> DEFINE v == Tail(s)
           h == Head(s)
           n == Len(s)
<1>1. /\ h = s[1] /\ v \in Seq(S) /\ n \in Nat \ {0} /\ Len(v) = n - 1
      /\ \A i \in 1 .. n - 1 : v[i] = s[i + 1]
  BY Tails
<1>2. DOMAIN v = 1 .. n - 1 /\ DOMAIN s = 1 .. n
  BY <1>1, Domain
<1> HIDE DEF v, h
<1>3. Elems(v) = {v[i] : i \in 1 .. n - 1} /\ Elems(s) = {s[i] : i \in 1 .. n}
  BY <1>1 DEF Elems
<1> HIDE DEF n
<1>4. Elems(s) \subseteq Elems(v) \cup {h}
  <2>1. ASSUME NEW i \in 1 .. n PROVE s[i] \in Elems(v) \cup {h}
    <3>1. CASE i = 1
      BY <1>1, <3>1
    <3>2. CASE i # 1
      <4>1. i - 1 \in 1 .. n - 1 /\ (i - 1) + 1 = i
        BY <1>1, <3>2
      <4>2. v[i - 1] = s[i]
        BY <1>1, <4>1
      <4> QED BY <1>3, <4>1, <4>2
    <3> QED BY <3>1, <3>2
  <2> QED BY <1>3, <2>1
<1>5. Elems(v) \subseteq Elems(s) /\ h \in Elems(s)
  <2>1. ASSUME NEW i \in 1 .. n - 1 PROVE v[i] \in Elems(s)
    <3>1. i + 1 \in 1 .. n
      BY <1>1
    <3> QED BY <1>1, <1>3, <3>1
  <2>2. 1 \in 1 .. n
    BY <1>1
  <2> QED BY <1>1, <1>3, <2>1, <2>2
<1>6. ASSUME Once(s) PROVE Once(v) /\ h \notin Elems(v)
  <2>1. \A i, j \in 1 .. n : s[i] = s[j] => i = j
    BY <1>2, <1>6 DEF Once
  <2>2. \A i \in 1 .. n - 1 : i + 1 \in 1 .. n /\ v[i] = s[i + 1]
    BY <1>1
  <2>3. \A i, j \in 1 .. n - 1 : v[i] = v[j] => i + 1 = j + 1
    BY <2>1, <2>2
  <2>4. \A i \in 1 .. n - 1 : v[i] # h
    <3>1. 1 \in 1 .. n /\ \A i \in 1 .. n - 1 : i + 1 # 1
      BY <1>1
    <3> QED BY <1>1, <2>1, <2>2, <3>1
  <2>5. \A i, j \in 1 .. n - 1 : v[i] = v[j] => i = j
    BY <1>1, <2>3
  <2> QED BY <1>2, <1>3, <2>4, <2>5 DEF Once
<1> QED BY <1>1, <1>4, <1>5, <1>6 DEF v, h

LEMMA ElemsCat ==
  ASSUME NEW S, NEW s \in Seq(S), NEW u \in Seq(S)
  PROVE  /\ Cat(s, u) \in Seq(S) /\ Elems(Cat(s, u)) = Elems(s) \cup Elems(u)
         /\ Once(Cat(s, u)) => Once(u) /\ Elems(s) \cap Elems(u) = {}
<1> DEFINE m == Len(s)
           n == Len(u)
           w == Cat(s, u)
<1>1. /\ w \in Seq(S) /\ m \in Nat /\ n \in Nat /\ Len(w) = m + n
      /\ \A i \in 1 .. m + n : w[i] = IF i <= m THEN s[i] ELSE u[i - m]
  BY Joins
<1>2. DOMAIN w = 1 .. m + n /\ DOMAIN s = 1 .. m /\ DOMAIN u = 1 .. n
  BY <1>1, Domain
<1> HIDE DEF w
<1>3. /\ Elems(w) = {w[i] : i \in 1 .. m + n}
      /\ Elems(s) = {s[i] : i \in 1 .. m} /\ Elems(u) = {u[i] : i \in 1 .. n}
  BY <1>1 DEF Elems
<1> HIDE DEF m, n
<1>4. \A i \in 1 .. m : i \in 1 .. m + n /\ w[i] = s[i]
  BY <1>1
<1>5. \A i \in 1 .. n : i + m \in 1 .. m + n /\ w[i + m] = u[i]
  <2>1. ASSUME NEW i \in 1 .. n PROVE i + m \in 1 .. m + n /\ ~ (i + m <= m) /\ (i + m) - m = i
    BY <1>1
  <2> QED BY <1>1, <2>1
<1>6. \A i \in 1 .. m + n : i \in 1 .. m \/ (i - m \in 1 .. n /\ (i - m) + m = i)
  BY <1>1
<1>7. Elems(w) = Elems(s) \cup Elems(u)
  <2>1. Elems(s) \subseteq Elems(w) /\ Elems(u) \subseteq Elems(w)
    BY <1>3, <1>4, <1>5
  <2>2. ASSUME NEW i \in 1 .. m + n PROVE w[i] \in Elems(s) \cup Elems(u)
    <3>1. CASE i \in 1 .. m
      BY <1>3, <1>4, <3>1
    <3>2. CASE i - m \in 1 .. n /\ (i - m) + m = i
      <4>1. w[i] = u[i - m]
        BY <1>5, <3>2
      <4> QED BY <1>3, <3>2, <4>1
    <3> QED BY <1>6, <3>1, <3>2
  <2> QED BY <1>3, <2>1, <2>2
<1>8. ASSUME Once(w) PROVE Once(u) /\ Elems(s) \cap Elems(u) = {}
  <2>1. \A i, j \in 1 .. m + n : w[i] = w[j] => i = j
    BY <1>2, <1>8 DEF Once
  <2>2. \A i, j \in 1 .. n : u[i] = u[j] => i + m = j + m
    BY <1>5, <2>1
  <2>3. \A i, j \in 1 .. n : u[i] = u[j] => i = j
    BY <1>1, <2>2
  <2>4. ASSUME NEW i \in 1 .. m, NEW j \in 1 .. n PROVE s[i] # u[j]
    <3>1. i # j + m
      BY <1>1
    <3> QED BY <1>4, <1>5, <2>1, <3>1
  <2> QED BY <1>2, <1>3, <2>3, <2>4 DEF Once
<1> QED BY <1>1, <1>7, <1>8 DEF w

LEMMA CatNone ==
  ASSUME NEW S, NEW s \in Seq(S)
  PROVE  Cat(s, <<>>) = s /\ Cat(<<>>, s) = s /\ <<>> \in Seq(S)
BY ConcatEmptySeq, EmptySeq DEF Cat

LEMMA Splits ==
  ASSUME NEW S, NEW s \in Seq(S), NEW n \in 0 .. Len(s)
  PROVE  /\ SubSeq(s, 1, n) \in Seq(S) /\ SubSeq(s, n + 1, Len(s)) \in Seq(S)
         /\ Cat(SubSeq(s, 1, n), SubSeq(s, n + 1, Len(s))) = s
<1> DEFINE m == Len(s)
           a == SubSeq(s, 1, n)
           b == SubSeq(s, n + 1, m)
           w == Cat(a, b)
<1>1. m \in Nat /\ n \in Int
  BY LenProperties
<1>2. /\ a \in Seq(S) /\ Len(a) = n /\ \A i \in 1 .. n : a[i] = s[i]
  <2>1. \A i \in 1 .. n : s[i] \in S
    BY <1>1, ElementOfSeq
  <2> QED BY <1>1, <2>1, SubSeqProperties
<1>3. /\ b \in Seq(S) /\ Len(b) = m - n /\ \A i \in 1 .. m - n : b[i] = s[n + i]
  <2>1. \A i \in n + 1 .. m : s[i] \in S
    BY <1>1, ElementOfSeq
  <2>2. /\ Len(b) = IF n + 1 <= m THEN m - (n + 1) + 1 ELSE 0
        /\ \A i \in 1 .. m - (n + 1) + 1 : b[i] = s[n + 1 + i - 1]
    BY <1>1, SubSeqProperties
  <2>3. b \in Seq(S)
    BY <1>1, <2>1, SubSeqProperties
  <2> HIDE DEF m, b
  <2>4. Len(b) = m - n
    BY <1>1, <2>2 DEF m
  <2>5. \A i \in 1 .. m - n : i \in 1 .. m - (n + 1) + 1 /\ n + 1 + i - 1 = n + i
    BY <1>1
  <2> QED BY <2>2, <2>3, <2>4, <2>5
<1> HIDE DEF a, b
<1>4. /\ w \in Seq(S) /\ Len(w) = Len(a) + Len(b)
      /\ \A i \in 1 .. Len(a) + Len(b) : w[i] = IF i <= Len(a) THEN a[i] ELSE b[i - Len(a)]
  BY <1>2, <1>3, Joins
<1> HIDE DEF w
<1>5. Len(w) = m /\ \A i \in 1 .. m : w[i] = s[i]
  <2>1. Len(a) + Len(b) = m
    BY <1>1, <1>2, <1>3
  <2>2. ASSUME NEW i \in 1 .. m PROVE w[i] = s[i]
    <3>1. CASE i \in 1 .. n
      <4>1. i <= n
        BY <1>1, <3>1
      <4> QED BY <1>2, <1>4, <2>1, <3>1, <4>1
    <3>2. CASE ~ (i <= n)
      <4>1. i - n \in 1 .. m - n /\ n + (i - n) = i
        BY <1>1, <3>2
      <4>2. w[i] = b[i - n]
        BY <1>2, <1>4, <2>1, <3>2
      <4> QED BY <1>3, <4>1, <4>2
    <3> QED BY <1>1, <3>1, <3>2
  <2> QED BY <1>4, <2>1, <2>2
<1>6. w = s
  BY <1>1, <1>4, <1>5, SeqEqual
<1> QED BY <1>2, <1>3, <1>6 DEF w, a, b, m

LEMMA CatAppend ==
  ASSUME NEW S, NEW s \in Seq(S), NEW u \in Seq(S), NEW e \in S
  PROVE  Cat(s, Append(u, e)) = Append(Cat(s, u), e)
<1> DEFINE m == Len(s)
           n == Len(u)
           a == Append(u, e)
           l == Cat(s, a)
           w == Cat(s, u)
           r == Append(w, e)
<1>1. /\ a \in Seq(S) /\ m \in Nat /\ n \in Nat /\ Len(a) = n + 1
      /\ (\A i \in 1 .. n : a[i] = u[i]) /\ a[n + 1] = e
  BY Appended, LenProperties
<1>2. /\ w \in Seq(S) /\ Len(w) = m + n
      /\ \A i \in 1 .. m + n : w[i] = IF i <= m THEN s[i] ELSE u[i - m]
  BY Joins
<1> HIDE DEF a, w
<1>3. /\ l \in Seq(S) /\ Len(l) = m + Len(a)
      /\ \A i \in 1 .. m + Len(a) : l[i] = IF i <= m THEN s[i] ELSE a[i - m]
  BY <1>1, Joins
<1>4. /\ r \in Seq(S) /\ Len(r) = Len(w) + 1
      /\ (\A i \in 1 .. Len(w) : r[i] = w[i]) /\ r[Len(w) + 1] = e
  BY <1>2, Appended
<1> HIDE DEF l, r, m, n
<1>5. Len(l) = (m + n) + 1 /\ Len(r) = (m + n) + 1
  BY <1>1, <1>2, <1>3, <1>4
<1>6. ASSUME NEW i \in 1 .. (m + n) + 1 PROVE l[i] = r[i]
  <2>1. CASE i = (m + n) + 1
    <3>1. ~ (i <= m) /\ i - m = n + 1 /\ i \in 1 .. m + Len(a)
      BY <1>1, <2>1
    <3>2. l[i] = a[n + 1]
      BY <1>3, <3>1
    <3> QED BY <1>1, <1>2, <1>4, <2>1, <3>2
  <2>2. CASE i \in 1 .. m + n
    <3>1. i \in 1 .. m + Len(a) /\ (i <= m \/ i - m \in 1 .. n)
      BY <1>1, <2>2
    <3>2. ~ (i <= m) => a[i - m] = u[i - m]
      BY <1>1, <3>1
    <3> QED BY <1>2, <1>3, <1>4, <2>2, <3>1, <3>2
  <2> QED BY <1>1, <2>1, <2>2
<1>7. l = r
  BY <1>3, <1>4, <1>5, <1>6, SeqEqual
<1> QED BY <1>7 DEF l, a, r, w

-----------------------------------------------------------------------------
(***************************************************************************)
(* What the steps do to what they change.                                  *)
(***************************************************************************)
LEMMA Consts ==
  /\ Main \in Procs /\ N \in Nat \ {0} /\ Threads = 1 .. N /\ 1 \in Threads
  /\ Cap \in Nat \ {0} /\ PrintCap \in Nat \ {0}
  /\ ThreadOf \in [Loggers -> Threads]
  /\ \A l \in Loggers : Options[l] \subseteq Known
  /\ IsFiniteSet(Procs) /\ IsFiniteSet(Loggers) /\ IsFiniteSet(Cmds)
  /\ Cmds \subseteq Nat \ {0}
<1>1. Cardinality(Loggers) \in Nat
  BY LoggerAssumption, FS_CardinalityType
<1>2. MaxPosts + Cardinality(Loggers) \in Nat
  BY <1>1, LoggerAssumption
<1>3. IsFiniteSet(Cmds) /\ Cmds \subseteq Nat \ {0}
  <2> PICK n \in Nat : n = MaxPosts + Cardinality(Loggers)
    BY <1>2
  <2>1. IsFiniteSet(1 .. n)
    BY FS_Interval
  <2> QED BY <2>1 DEF Cmds
<1> QED BY <1>3, LoggerAssumption DEF Threads

Puts(R, Q, p, t, v) == R = [Q EXCEPT ![p][t] = v]

Tables(S) == [Procs -> [Threads -> S]]

LEMMA Updated ==
  ASSUME NEW S, NEW Q, Q \in Tables(S), NEW R, NEW p \in Procs, NEW t \in Threads,
         NEW v \in S, Puts(R, Q, p, t, v)
  PROVE  /\ R \in Tables(S) /\ R[p][t] = v
         /\ \A q \in Procs, u \in Threads : ~ (q = p /\ u = t) => R[q][u] = Q[q][u]
BY DEF Puts, Tables

LEMMA QueuesAt ==
  ASSUME RingTypes, NEW p \in Procs, NEW t \in Threads
  PROVE  /\ cmdQ[p][t] \in Seq(Cmds) /\ rcyQ[p][t] \in Seq(Cmds) /\ rcyCache[p][t] \in Seq(Cmds)
         /\ Lane(p, t) \in Seq(Cmds)
         /\ Elems(Lane(p, t)) = Elems(rcyQ[p][t]) \cup Elems(rcyCache[p][t])
         /\ posted[p][t] \in Nat /\ done[p][t] \in Seq(Nat)
<1>1. /\ cmdQ[p][t] \in Seq(Cmds) /\ rcyQ[p][t] \in Seq(Cmds) /\ rcyCache[p][t] \in Seq(Cmds)
      /\ posted[p][t] \in Nat /\ done[p][t] \in Seq(Nat)
  BY DEF RingTypes, Queues
<1> QED BY <1>1, ElemsCat DEF Lane

LEMMA AtIn ==
  ASSUME Types, Listed, NEW t \in Threads
  PROVE  At(t) \in Registered /\ At(t) \in Procs
<1>1. /\ list \in Seq(Procs) /\ Len(list) \in Nat /\ thr[t].at \in 1 .. Len(list)
  BY LenProperties DEF Types, Listed
<1>2. Len(list) + 1 - thr[t].at \in 1 .. Len(list)
  BY <1>1
<1> QED BY <1>1, <1>2, ElementOfSeq DEF At, Registered

LEMMA GiveEffect ==
  ASSUME RingTypes, NEW p \in Procs, NEW t \in Threads, NEW k \in Cmds, Give(p, k, t)
  PROVE  /\ cmdQ' \in Queues /\ posted' \in [Procs -> [Threads -> Nat]]
         /\ cmdQ'[p][t] = Append(cmdQ[p][t], k) /\ posted'[p][t] = posted[p][t] + 1
         /\ \A q \in Procs, u \in Threads : ~ (q = p /\ u = t) =>
              cmdQ'[q][u] = cmdQ[q][u] /\ posted'[q][u] = posted[q][u]
<1>1. /\ cmdQ \in Tables(Seq(Cmds)) /\ posted \in Tables(Nat)
      /\ Append(cmdQ[p][t], k) \in Seq(Cmds) /\ posted[p][t] + 1 \in Nat
  BY QueuesAt, Appended DEF RingTypes, Queues, Tables
<1>2. /\ Puts(cmdQ', cmdQ, p, t, Append(cmdQ[p][t], k))
      /\ Puts(posted', posted, p, t, posted[p][t] + 1)
  BY <1>1 DEF Give, Puts
<1>3. /\ cmdQ' \in Tables(Seq(Cmds)) /\ cmdQ'[p][t] = Append(cmdQ[p][t], k)
      /\ \A q \in Procs, u \in Threads : ~ (q = p /\ u = t) => cmdQ'[q][u] = cmdQ[q][u]
  <2> DEFINE n == Append(cmdQ[p][t], k)
             S == Seq(Cmds)
  <2> HIDE DEF n, S
  <2>1. cmdQ' \in Tables(S) /\ cmdQ'[p][t] = n
        /\ \A q \in Procs, u \in Threads : ~ (q = p /\ u = t) => cmdQ'[q][u] = cmdQ[q][u]
    <3>1. n \in S /\ cmdQ \in Tables(S) /\ Puts(cmdQ', cmdQ, p, t, n)
      BY <1>1, <1>2 DEF n, S
    <3> QED BY <3>1, Updated
  <2> QED BY <2>1 DEF n, S
<1>4. /\ posted' \in Tables(Nat) /\ posted'[p][t] = posted[p][t] + 1
      /\ \A q \in Procs, u \in Threads : ~ (q = p /\ u = t) => posted'[q][u] = posted[q][u]
  <2> DEFINE n == posted[p][t] + 1
  <2> HIDE DEF n
  <2>1. posted' \in Tables(Nat) /\ posted'[p][t] = n
        /\ \A q \in Procs, u \in Threads : ~ (q = p /\ u = t) => posted'[q][u] = posted[q][u]
    <3>1. n \in Nat /\ Puts(posted', posted, p, t, n)
      BY <1>1, <1>2 DEF n
    <3> QED BY <1>1, <3>1, Updated
  <2> QED BY <2>1 DEF n
<1> QED BY <1>3, <1>4 DEF Queues, Tables

LEMMA PopEffect ==
  ASSUME Types, Listed, NEW t \in Threads, Pop(t)
  PROVE  /\ cmdQ[At(t)][t] # <<>> /\ cmdQ' \in Queues
         /\ cmdQ'[At(t)][t] = Tail(cmdQ[At(t)][t])
         /\ \A q \in Procs, u \in Threads : ~ (q = At(t) /\ u = t) => cmdQ'[q][u] = cmdQ[q][u]
         /\ thr[t].pc = "pass" /\ thr' \in [Threads -> ThrRec]
         /\ thr'[t].pc = "do" /\ thr'[t].cmd = Head(cmdQ[At(t)][t])
         /\ thr'[t].busy = thr[t].end /\ thr'[t].end = thr[t].end /\ thr'[t].at = thr[t].at
         /\ \A u \in Threads \ {t} : thr'[u] = thr[u]
         /\ Head(cmdQ[At(t)][t]) \in Cmds
<1> PICK p \in Procs : p = At(t)
  BY AtIn
<1>1. cmdQ[p][t] # <<>> /\ cmdQ[p][t] \in Seq(Cmds)
  BY QueuesAt DEF Pop, Types
<1>2. Head(cmdQ[p][t]) \in Cmds /\ Tail(cmdQ[p][t]) \in Seq(Cmds)
  BY <1>1, Tails
<1>3. /\ cmdQ \in Tables(Seq(Cmds))
      /\ Puts(cmdQ', cmdQ, p, t, Tail(cmdQ[p][t]))
  BY DEF Pop, Puts, Types, RingTypes, Queues, Tables
<1>4. /\ cmdQ' \in Tables(Seq(Cmds)) /\ cmdQ'[p][t] = Tail(cmdQ[p][t])
      /\ \A q \in Procs, u \in Threads : ~ (q = p /\ u = t) => cmdQ'[q][u] = cmdQ[q][u]
  <2> DEFINE n == Tail(cmdQ[p][t])
             S == Seq(Cmds)
  <2> HIDE DEF n, S
  <2>1. cmdQ' \in Tables(S) /\ cmdQ'[p][t] = n
        /\ \A q \in Procs, u \in Threads : ~ (q = p /\ u = t) => cmdQ'[q][u] = cmdQ[q][u]
    <3>1. n \in S /\ cmdQ \in Tables(S) /\ Puts(cmdQ', cmdQ, p, t, n)
      BY <1>2, <1>3 DEF n, S
    <3> QED BY <3>1, Updated
  <2> QED BY <2>1 DEF n, S
<1> PICK k \in Cmds : k = Head(cmdQ[p][t])
  BY <1>2
<1>5. /\ thr[t].pc = "pass" /\ thr \in [Threads -> ThrRec]
      /\ thr' = [thr EXCEPT ![t].pc = "do", ![t].cmd = k, ![t].busy = thr[t].end]
  BY DEF Pop, Visits, Types
<1>6. /\ thr' \in [Threads -> ThrRec]
      /\ thr'[t].pc = "do" /\ thr'[t].cmd = k
      /\ thr'[t].busy = thr[t].end /\ thr'[t].end = thr[t].end /\ thr'[t].at = thr[t].at
      /\ \A u \in Threads \ {t} : thr'[u] = thr[u]
  BY <1>5 DEF ThrRec
<1> QED BY <1>1, <1>2, <1>4, <1>5, <1>6 DEF Queues, Tables

(* what Onward makes of the state of a log thread                          *)
Goes(r, s) ==
  \/ r.at > 1 /\ s.pc = "pass" /\ s.at = r.at - 1 /\ s.end = r.end /\ s.busy = r.busy
  \/ r.at = 1 /\ ~r.end /\ s.pc = "pass" /\ s.at = Len(list) /\ s.end = ~run /\ s.busy = FALSE
  \/ r.at = 1 /\ r.end /\ r.busy /\ s.pc = "pass" /\ s.at = Len(list) /\ s.end = r.end
     /\ s.busy = FALSE
  \/ r.at = 1 /\ r.end /\ ~r.busy /\ s.pc = "over" /\ s.at = Len(list) /\ s.end = r.end

LEMMA OnwardGoes ==
  ASSUME Types, Listed, NEW t \in Threads
  PROVE  Onward(thr[t]) \in ThrRec /\ Goes(thr[t], Onward(thr[t]))
<1>1. thr[t] \in ThrRec /\ thr[t].at \in 1 .. Len(list) /\ Len(list) \in Nat /\ run \in BOOLEAN
  BY LenProperties DEF Types, Listed
<1> PICK r \in ThrRec : r = thr[t]
  BY <1>1
<1> DEFINE pass == [r EXCEPT !.pc = "pass", !.cmd = 0, !.at = Len(list), !.busy = FALSE]
<1>2. /\ pass \in ThrRec /\ pass.pc = "pass" /\ pass.at = Len(list) /\ pass.busy = FALSE
      /\ pass.end = r.end
  BY <1>1 DEF ThrRec
<1>3. CASE r.at > 1
  <2>1. r.at - 1 \in Nat
    BY <1>1, <1>3
  <2>2. Onward(r) = [r EXCEPT !.pc = "pass", !.cmd = 0, !.at = r.at - 1]
    BY <1>1, <1>3 DEF Onward
  <2> DEFINE n == r.at - 1
  <2>3. n \in Nat
    BY <2>1
  <2> HIDE DEF n
  <2>4. \A s : s = [r EXCEPT !.pc = "pass", !.cmd = 0, !.at = n] =>
          s \in ThrRec /\ s.pc = "pass" /\ s.at = n /\ s.end = r.end /\ s.busy = r.busy
    BY <2>3 DEF ThrRec
  <2>5. Onward(r) \in ThrRec /\ Onward(r).pc = "pass" /\ Onward(r).at = r.at - 1
        /\ Onward(r).end = r.end /\ Onward(r).busy = r.busy
    BY <2>2, <2>4 DEF n
  <2> QED BY <1>3, <2>5 DEF Goes
<1>4. CASE r.at = 1 /\ ~r.end
  <2>1. Onward(r) = [pass EXCEPT !.end = ~run]
    BY <1>4 DEF Onward
  <2> HIDE DEF pass
  <2>2. \A e \in BOOLEAN : \A s : s = [pass EXCEPT !.end = e] =>
          s \in ThrRec /\ s.pc = pass.pc /\ s.at = pass.at /\ s.end = e /\ s.busy = pass.busy
    BY <1>2 DEF ThrRec
  <2>3. (~run) \in BOOLEAN
    OBVIOUS
  <2>4. Onward(r) \in ThrRec /\ Onward(r).pc = pass.pc /\ Onward(r).at = pass.at
        /\ Onward(r).end = ~run /\ Onward(r).busy = pass.busy
    BY ZenonT(60), <2>1, <2>2, <2>3
  <2> QED BY <1>2, <1>4, <2>4 DEF Goes
<1>5. CASE r.at = 1 /\ r.end /\ r.busy
  <2>1. Onward(r) = pass
    BY <1>5 DEF Onward
  <2> HIDE DEF pass
  <2> QED BY <1>2, <1>5, <2>1 DEF Goes
<1>6. CASE r.at = 1 /\ r.end /\ ~r.busy
  <2>1. Onward(r) = [pass EXCEPT !.pc = "over"]
    BY <1>6 DEF Onward
  <2> HIDE DEF pass
  <2>2. Onward(r) \in ThrRec /\ Onward(r).pc = "over" /\ Onward(r).at = pass.at
        /\ Onward(r).end = pass.end
    BY <1>2, <2>1 DEF ThrRec
  <2> QED BY <1>2, <1>6, <2>2 DEF Goes
<1> QED BY <1>1, <1>3, <1>4, <1>5, <1>6

LEMMA TakeBackEffect ==
  ASSUME RingTypes, NEW p \in Procs, TakeBack(p), rcyCache' = rcyCache
  PROVE  /\ rcyQ' \in Queues
         /\ \A u \in Threads : Lane(p, u)' = rcyCache[p][u]
         /\ \A q \in Procs, u \in Threads : q # p => Lane(q, u)' = Lane(q, u)
<1>1. /\ rcyQ \in [Procs -> [Threads -> Seq(Cmds)]]
      /\ rcyQ' = [rcyQ EXCEPT ![p] = [t \in Threads |-> <<>>]]
  BY DEF RingTypes, Queues, TakeBack
<1>2. [t \in Threads |-> <<>>] \in [Threads -> Seq(Cmds)]
  BY EmptySeq
<1>3. /\ rcyQ' \in [Procs -> [Threads -> Seq(Cmds)]]
      /\ \A u \in Threads : rcyQ'[p][u] = <<>>
      /\ \A q \in Procs, u \in Threads : q # p => rcyQ'[q][u] = rcyQ[q][u]
  BY <1>1, <1>2
<1>4. ASSUME NEW u \in Threads PROVE Lane(p, u)' = rcyCache[p][u]
  <2>1. Cat(<<>>, rcyCache[p][u]) = rcyCache[p][u]
    BY QueuesAt, CatNone
  <2>2. Lane(p, u)' = Cat(rcyQ'[p][u], rcyCache'[p][u])
    BY DEF Lane, Cat
  <2>3. rcyQ'[p][u] = <<>>
    BY <1>3
  <2> QED BY <2>1, <2>2, <2>3
<1>5. ASSUME NEW q \in Procs, NEW u \in Threads, q # p PROVE Lane(q, u)' = Lane(q, u)
  <2>1. rcyQ'[q][u] = rcyQ[q][u]
    BY <1>3, <1>5
  <2> QED BY <2>1 DEF Lane, Cat
<1> QED BY <1>3, <1>4, <1>5 DEF Queues

LEMMA LaneSet ==
  ASSUME RingTypes, NEW p \in Procs, NEW t \in Threads, NEW a \in Seq(Cmds), NEW b \in Seq(Cmds),
         Puts(rcyQ', rcyQ, p, t, a), Puts(rcyCache', rcyCache, p, t, b)
  PROVE  /\ rcyQ' \in Queues /\ rcyCache' \in Queues /\ Lane(p, t)' = Cat(a, b)
         /\ \A q \in Procs, u \in Threads : ~ (q = p /\ u = t) => Lane(q, u)' = Lane(q, u)
<1> DEFINE S == Seq(Cmds)
<1>1. /\ rcyQ \in Tables(S) /\ rcyCache \in Tables(S) /\ a \in S /\ b \in S
  BY DEF RingTypes, Queues, Tables
<1> HIDE DEF S
<1>2. /\ rcyQ' \in Tables(S) /\ rcyQ'[p][t] = a
      /\ \A q \in Procs, u \in Threads : ~ (q = p /\ u = t) => rcyQ'[q][u] = rcyQ[q][u]
  BY <1>1, Updated, SMTT(30)
<1>3. /\ rcyCache' \in Tables(S) /\ rcyCache'[p][t] = b
      /\ \A q \in Procs, u \in Threads : ~ (q = p /\ u = t) => rcyCache'[q][u] = rcyCache[q][u]
  BY <1>1, Updated, SMTT(30)
<1>4. rcyQ' \in Queues /\ rcyCache' \in Queues
  BY <1>2, <1>3 DEF S, Queues, Tables
<1>5. \A q \in Procs, u \in Threads : Lane(q, u)' = Cat(rcyQ'[q][u], rcyCache'[q][u])
  BY DEF Lane, Cat
<1>6. \A q \in Procs, u \in Threads : Lane(q, u) = Cat(rcyQ[q][u], rcyCache[q][u])
  BY DEF Lane
<1> QED BY <1>2, <1>3, <1>4, <1>5, <1>6

LEMMA MovedEffect ==
  ASSUME RingTypes, NEW p \in Procs, NEW t \in Threads, NEW all \in Seq(Cmds), Moved(p, t, all)
  PROVE  /\ rcyQ' \in Queues /\ rcyCache' \in Queues /\ Lane(p, t)' = all
         /\ \A q \in Procs, u \in Threads : ~ (q = p /\ u = t) => Lane(q, u)' = Lane(q, u)
<1>1. Len(all) \in Nat /\ Cap \in Nat
  BY LenProperties, Consts
<1> DEFINE n == IF Len(all) < Cap THEN Len(all) ELSE Cap
           a == SubSeq(all, 1, n)
           b == SubSeq(all, n + 1, Len(all))
<1>2. n \in 0 .. Len(all)
  BY <1>1
<1>3. Puts(rcyQ', rcyQ, p, t, a) /\ Puts(rcyCache', rcyCache, p, t, b)
  BY DEF Moved, Puts
<1> HIDE DEF n
<1>4. a \in Seq(Cmds) /\ b \in Seq(Cmds) /\ Cat(a, b) = all
  BY <1>2, Splits
<1> HIDE DEF a, b
<1> QED BY <1>3, <1>4, LaneSet

LEMMA GiveBackEffect ==
  ASSUME Types, Listed, NEW t \in Threads, GiveBack(t), NEW p \in Procs, p = At(t)
  PROVE  /\ rcyQ' \in Queues /\ rcyCache' \in Queues /\ thr[t].cmd \in Cmds
         /\ Lane(p, t)' = Append(Lane(p, t), thr[t].cmd)
         /\ \A q \in Procs, u \in Threads : ~ (q = p /\ u = t) => Lane(q, u)' = Lane(q, u)
<1> PICK k \in Cmds : k = thr[t].cmd
  BY DEF GiveBack, Visits, Listed
<1> DEFINE r == rcyQ[p][t]
           s == rcyCache[p][t]
<1>0. RingTypes /\ r \in Seq(Cmds) /\ s \in Seq(Cmds) /\ Lane(p, t) = Cat(r, s)
      /\ Cat(r, s) \in Seq(Cmds)
  BY QueuesAt DEF Types, Lane
<1>1. CASE thr[t].end /\ s = <<>> /\ Room(rcyQ[p][t])
  <2>1. rcyQ' = [rcyQ EXCEPT ![p][t] = Append(@, k)] /\ rcyCache' = rcyCache
    BY <1>1 DEF GiveBack
  <2>2. Append(r, k) \in Seq(Cmds)
    BY <1>0, Appended
  <2> DEFINE a == Append(r, k)
  <2>3. Puts(rcyQ', rcyQ, p, t, a) /\ Puts(rcyCache', rcyCache, p, t, s)
    <3>1. rcyCache' = [rcyCache EXCEPT ![p][t] = s]
      BY <2>1 DEF RingTypes, Types, Queues
    <3>2. rcyQ' = [rcyQ EXCEPT ![p][t] = Append(rcyQ[p][t], k)]
      BY <2>1, <1>0 DEF RingTypes, Queues
    <3> QED BY <3>1, <3>2 DEF Puts
  <2>4. Cat(a, s) = a /\ Cat(r, s) = r
    BY <1>0, <1>1, <2>2, CatNone
  <2>5. Append(Lane(p, t), k) = Cat(a, s)
    BY <1>0, <2>4
  <2> HIDE DEF a, s, r
  <2>6. /\ rcyQ' \in Queues /\ rcyCache' \in Queues /\ Lane(p, t)' = Cat(a, s)
        /\ \A q \in Procs, u \in Threads : ~ (q = p /\ u = t) => Lane(q, u)' = Lane(q, u)
    <3>1. a \in Seq(Cmds)
      BY <2>2 DEF a
    <3> QED BY <1>0, <2>3, <3>1, LaneSet
  <2> QED BY <2>5, <2>6
<1>2. CASE thr[t].end /\ ~ (s = <<>> /\ Room(rcyQ[p][t]))
  <2>1. rcyCache' = [rcyCache EXCEPT ![p][t] = Append(@, k)] /\ rcyQ' = rcyQ
    BY <1>2 DEF GiveBack
  <2>2. Append(s, k) \in Seq(Cmds)
    BY <1>0, Appended
  <2> DEFINE a == Append(s, k)
  <2>3. Puts(rcyQ', rcyQ, p, t, r) /\ Puts(rcyCache', rcyCache, p, t, a)
    <3>1. rcyQ' = [rcyQ EXCEPT ![p][t] = r]
      BY <2>1 DEF RingTypes, Types, Queues
    <3>2. rcyCache' = [rcyCache EXCEPT ![p][t] = Append(rcyCache[p][t], k)]
      BY <2>1, <1>0 DEF RingTypes, Queues
    <3> QED BY <3>1, <3>2 DEF Puts
  <2>5. Append(Lane(p, t), k) = Cat(r, a)
    <3>1. Cat(r, a) = Append(Cat(r, s), k)
      <4> HIDE DEF r, s
      <4> QED BY <1>0, CatAppend
    <3> QED BY <1>0, <3>1
  <2> HIDE DEF a, s, r
  <2>6. /\ rcyQ' \in Queues /\ rcyCache' \in Queues /\ Lane(p, t)' = Cat(r, a)
        /\ \A q \in Procs, u \in Threads : ~ (q = p /\ u = t) => Lane(q, u)' = Lane(q, u)
    <3>1. a \in Seq(Cmds)
      BY <2>2 DEF a
    <3> QED BY <1>0, <2>3, <3>1, LaneSet
  <2> QED BY <2>5, <2>6
<1>3. CASE ~thr[t].end
  <2>1. Moved(p, t, Append(Cat(r, s), k))
    BY <1>3 DEF GiveBack, Cat
  <2> HIDE DEF r, s
  <2>2. Append(Cat(r, s), k) \in Seq(Cmds)
    BY <1>0, Appended
  <2> DEFINE a == Append(Cat(r, s), k)
  <2>3. a \in Seq(Cmds) /\ Moved(p, t, a)
    BY <2>1, <2>2
  <2> HIDE DEF a
  <2>4. /\ rcyQ' \in Queues /\ rcyCache' \in Queues /\ Lane(p, t)' = a
        /\ \A q \in Procs, u \in Threads : ~ (q = p /\ u = t) => Lane(q, u)' = Lane(q, u)
    BY <1>0, <2>3, MovedEffect
  <2> QED BY <1>0, <2>4 DEF a
<1> QED BY <1>1, <1>2, <1>3

LEMMA PopNoneEffect ==
  ASSUME Types, Listed, NEW t \in Threads, PopNone(t), NEW p \in Procs, p = At(t)
  PROVE  /\ rcyQ' \in Queues /\ rcyCache' \in Queues
         /\ \A q \in Procs, u \in Threads : ~ (q = p /\ u = t) => Lane(q, u)' = Lane(q, u)
         /\ \/ Lane(p, t)' = <<>> /\ cmd' = Delete(Elems(Lane(p, t)), cmd)
            \/ Lane(p, t)' = Lane(p, t) /\ cmd' = cmd
<1> DEFINE r == rcyQ[p][t]
           s == rcyCache[p][t]
           all == Cat(r, s)
<1>0. RingTypes /\ all \in Seq(Cmds) /\ Lane(p, t) = all
  BY QueuesAt DEF Types, Lane
<1>1. CASE post[p].pc = "over"
  <2>1. Moved(p, t, <<>>) /\ cmd' = Delete(Elems(all), cmd)
    BY <1>1 DEF PopNone, Cat
  <2>2. <<>> \in Seq(Cmds)
    BY EmptySeq
  <2>3. /\ rcyQ' \in Queues /\ rcyCache' \in Queues /\ Lane(p, t)' = <<>>
        /\ \A q \in Procs, u \in Threads : ~ (q = p /\ u = t) => Lane(q, u)' = Lane(q, u)
    BY <1>0, <2>1, <2>2, MovedEffect
  <2> QED BY <1>0, <2>1, <2>3
<1>2. CASE post[p].pc # "over" /\ thr[t].end
  <2>1. rcyQ' = rcyQ /\ rcyCache' = rcyCache /\ cmd' = cmd
    BY <1>2 DEF PopNone
  <2>2. \A q \in Procs, u \in Threads : Lane(q, u)' = Lane(q, u)
    BY <2>1 DEF Lane, Cat
  <2> QED BY <1>0, <2>1, <2>2 DEF RingTypes
<1>3. CASE post[p].pc # "over" /\ ~thr[t].end
  <2>1. Moved(p, t, all) /\ cmd' = cmd
    BY <1>3 DEF PopNone, Cat
  <2> HIDE DEF all
  <2>3. /\ rcyQ' \in Queues /\ rcyCache' \in Queues /\ Lane(p, t)' = all
        /\ \A q \in Procs, u \in Threads : ~ (q = p /\ u = t) => Lane(q, u)' = Lane(q, u)
    BY <1>0, <2>1, MovedEffect
  <2> QED BY <1>0, <2>1, <2>3
<1> QED BY <1>1, <1>2, <1>3

LEMMA DeleteEffect ==
  ASSUME CmdTypes, NEW ks, cmd' = Delete(ks, cmd)
  PROVE  /\ CmdTypes'
         /\ \A k \in Cmds : (k \in ks => cmd'[k] = Unused) /\ (k \notin ks => cmd'[k] = cmd[k])
BY DEF CmdTypes, Delete

LEMMA GetEffect ==
  ASSUME RingTypes, CmdTypes, NEW p \in Procs, NEW o \in Known \cup {"close"}, NEW l \in Loggers,
         GetCmd(p, o, l)
  PROVE  /\ CmdTypes' /\ Got(p) \in Cmds /\ (Got(p) \in Came(p) \/ cmd[Got(p)] = Unused)
         /\ TakeBack(p)
         /\ cmd'[Got(p)] = [option |-> o, logger |-> l, no |-> NextNo(p, l)]
         /\ \A k \in Cmds \ {Got(p)} : /\ k \in Came(p) => cmd'[k] = Unused
                                       /\ k \notin Came(p) => cmd'[k] = cmd[k]
<1>1. Came(p) \subseteq Cmds
  <2>1. \A t \in Threads : Elems(rcyQ[p][t]) \subseteq Cmds
    BY QueuesAt, Domain
  <2> QED BY <2>1 DEF Came
<1>2. Got(p) \in ToUse(p) /\ ToUse(p) # {}
  BY DEF GetCmd, Got
<1>3. Got(p) \in Cmds /\ (Got(p) \in Came(p) \/ cmd[Got(p)] = Unused)
  BY <1>1, <1>2 DEF ToUse
<1> PICK k \in Cmds : k = Got(p)
  BY <1>3
<1> DEFINE r == [option |-> o, logger |-> l, no |-> NextNo(p, l)]
<1>4. NextNo(p, l) \in Nat
  <2>1. ThreadOf[l] \in Threads
    BY Consts
  <2>2. posted[p][ThreadOf[l]] \in Nat
    BY <2>1, QueuesAt
  <2> QED BY <2>2 DEF NextNo
<1>5. r \in CmdRec
  BY <1>4 DEF CmdRec
<1>6. TakeBack(p) /\ cmd' = [Delete(Came(p), cmd) EXCEPT ![k] = r]
  BY DEF GetCmd, NextNo
<1> HIDE DEF r
<1>7. /\ cmd' \in [Cmds -> CmdRec \cup {Unused}] /\ cmd'[k] = r
      /\ \A j \in Cmds \ {k} : /\ j \in Came(p) => cmd'[j] = Unused
                               /\ j \notin Came(p) => cmd'[j] = cmd[j]
  BY <1>5, <1>6 DEF CmdTypes, Delete
<1> QED BY <1>3, <1>6, <1>7 DEF CmdTypes, r

(* post, log and thr after a step                                          *)
LEMMA PostSet ==
  ASSUME Types, NEW p \in Procs
  PROVE  /\ \A r \in PostRec : post' = [post EXCEPT ![p] = r] =>
              /\ post' \in [Procs -> PostRec] /\ post'[p] = r
              /\ \A q \in Procs \ {p} : post'[q] = post[q]
         /\ \A pc \in {"idle", "push", "count", "over"} : post' = [post EXCEPT ![p].pc = pc] =>
              /\ post' \in [Procs -> PostRec] /\ post'[p].pc = pc
              /\ post'[p].cmd = post[p].cmd /\ post'[p].logger = post[p].logger
              /\ \A q \in Procs \ {p} : post'[q] = post[q]
<1>1. post \in [Procs -> PostRec] /\ post[p] \in PostRec
  BY DEF Types
<1>2. ASSUME NEW pc \in {"idle", "push", "count", "over"}, post' = [post EXCEPT ![p].pc = pc]
      PROVE  /\ post' \in [Procs -> PostRec] /\ post'[p].pc = pc
             /\ post'[p].cmd = post[p].cmd /\ post'[p].logger = post[p].logger
             /\ \A q \in Procs \ {p} : post'[q] = post[q]
  BY <1>1, <1>2 DEF PostRec
<1>3. ASSUME NEW r \in PostRec, post' = [post EXCEPT ![p] = r]
      PROVE  /\ post' \in [Procs -> PostRec] /\ post'[p] = r
             /\ \A q \in Procs \ {p} : post'[q] = post[q]
  BY <1>1, <1>3
<1> QED BY <1>2, <1>3

LEMMA IdleRec == Idle \in PostRec /\ Idle \in MainRec /\ Idle.pc = "idle" /\ Idle.cmd = 0
BY DEF Idle, PostRec, MainRec

LEMMA InUseRec ==
  ASSUME IInv
  PROVE  /\ \A t \in Threads : thr[t].pc \in {"do", "back"} =>
              /\ thr[t].cmd \in Cmds /\ cmd[thr[t].cmd] \in CmdRec
              /\ cmd[thr[t].cmd].logger \in Loggers
         /\ \A p \in Procs, t \in Threads : \A k \in Elems(cmdQ[p][t]) :
              k \in Cmds /\ cmd[k] \in CmdRec /\ cmd[k].logger \in Loggers
<1>1. ASSUME NEW k \in Cmds, cmd[k] # Unused PROVE cmd[k] \in CmdRec /\ cmd[k].logger \in Loggers
  BY <1>1 DEF IInv, Types, CmdTypes, CmdRec
<1>2. Main \in Procs /\ 1 \in Threads
  BY Consts
<1>3. \A k \in Cmds, c \in Kinds, p \in Procs, t \in Threads : In(k, c, p, t) => cmd[k] # Unused
  BY DEF IInv, Alone, Used
<1>4. ASSUME NEW t \in Threads, thr[t].pc \in {"do", "back"}
      PROVE  /\ thr[t].cmd \in Cmds /\ cmd[thr[t].cmd] # Unused
  <2>1. thr[t].cmd \in Cmds
    BY <1>4 DEF IInv, Listed
  <2>2. In(thr[t].cmd, "work", Main, t) /\ "work" \in Kinds
    BY <1>4 DEF In, InWork, Kinds
  <2> QED BY <1>2, <1>3, <2>1, <2>2
<1>5. ASSUME NEW p \in Procs, NEW t \in Threads, NEW k \in Elems(cmdQ[p][t])
      PROVE  k \in Cmds /\ cmd[k] # Unused
  <2>1. k \in Cmds
    BY QueuesAt, Domain DEF IInv, Types
  <2>2. In(k, "que", p, t) /\ "que" \in Kinds
    BY DEF In, InQue, Kinds
  <2> QED BY <1>3, <2>1, <2>2
<1> QED BY <1>1, <1>4, <1>5

LEMMA CountEffect ==
  ASSUME IInv, NEW p \in Procs, Count(p)
  PROVE  /\ post[p].pc = "count" /\ post[p].logger \in Loggers
         /\ log' \in [Loggers -> LogRec]
         /\ \A l \in Loggers :
              /\ log'[l].state = log[l].state /\ log'[l].ack = log[l].ack
              /\ l # post[p].logger => log'[l] = log[l]
              /\ l = post[p].logger =>
                   log'[l].req + log'[l].reqMt = log[l].req + log[l].reqMt + 1
         /\ post' \in [Procs -> PostRec] /\ post'[p] = Idle
         /\ \A q \in Procs \ {p} : post'[q] = post[q]
<1>1. post[p].pc = "count" /\ post[p].logger \in Loggers
  BY DEF Count, IInv, InCalls, Calling
<1> PICK l \in Loggers : l = post[p].logger
  BY <1>1
<1>2. log \in [Loggers -> LogRec] /\ log[l] \in LogRec /\ log[l].req \in Nat /\ log[l].reqMt \in Nat
  BY DEF IInv, Types, LogRec
<1>3. \/ log' = [log EXCEPT ![l].req = @ + 1]
      \/ log' = [log EXCEPT ![l].reqMt = @ + 1]
  BY DEF Count
<1>4. post' \in [Procs -> PostRec] /\ post'[p] = Idle
      /\ \A q \in Procs \ {p} : post'[q] = post[q]
  BY PostSet, IdleRec DEF Count, IInv
<1>5. CASE log' = [log EXCEPT ![l].req = @ + 1]
  <2> DEFINE n == log[l].req + 1
  <2>1. n \in Nat /\ log' = [log EXCEPT ![l].req = n]
    BY <1>2, <1>5
  <2>2. n + log[l].reqMt = log[l].req + log[l].reqMt + 1
    BY <1>2
  <2> HIDE DEF n
  <2>3. /\ log' \in [Loggers -> LogRec] /\ log'[l].req = n /\ log'[l].reqMt = log[l].reqMt
        /\ log'[l].state = log[l].state /\ log'[l].ack = log[l].ack
        /\ \A m \in Loggers \ {l} : log'[m] = log[m]
    BY <1>2, <2>1 DEF LogRec
  <2> QED BY <1>1, <1>4, <2>2, <2>3
<1>6. CASE log' = [log EXCEPT ![l].reqMt = @ + 1]
  <2> DEFINE n == log[l].reqMt + 1
  <2>1. n \in Nat /\ log' = [log EXCEPT ![l].reqMt = n]
    BY <1>2, <1>6
  <2>2. log[l].req + n = log[l].req + log[l].reqMt + 1
    BY <1>2
  <2> HIDE DEF n
  <2>3. /\ log' \in [Loggers -> LogRec] /\ log'[l].req = log[l].req /\ log'[l].reqMt = n
        /\ log'[l].state = log[l].state /\ log'[l].ack = log[l].ack
        /\ \A m \in Loggers \ {l} : log'[m] = log[m]
    BY <1>2, <2>1 DEF LogRec
  <2> QED BY <1>1, <1>4, <2>2, <2>3
<1> QED BY <1>3, <1>5, <1>6

(* l is the logger of what t does                                          *)
LEMMA DoEffect ==
  ASSUME IInv, NEW t \in Threads, Do(t), NEW p \in Procs, p = At(t), NEW k \in Cmds,
         k = thr[t].cmd, NEW l \in Loggers, l = cmd[k].logger
  PROVE  /\ thr[t].pc = "do" /\ log' \in [Loggers -> LogRec]
         /\ \A m \in Loggers \ {l} : log'[m] = log[m]
         /\ log'[l].req = log[l].req /\ log'[l].reqMt = log[l].reqMt
         /\ cmd[k].option = "close" =>
              log'[l].ack = log[l].ack /\ log'[l].state \in {log[l].state, "freed"}
         /\ cmd[k].option # "close" =>
              log'[l].ack = log[l].ack + 1 /\ log'[l].state = log[l].state
         /\ print' \in [Threads -> Nat] /\ \A u \in Threads \ {t} : print'[u] = print[u]
         /\ thr' \in [Threads -> ThrRec] /\ thr'[t].pc = "back"
         /\ thr'[t].cmd = k /\ thr'[t].busy = thr[t].busy
         /\ thr'[t].end = thr[t].end /\ thr'[t].at = thr[t].at
         /\ \A u \in Threads \ {t} : thr'[u] = thr[u]
         /\ done' \in [Procs -> [Threads -> Seq(Nat)]] /\ cmd[k].no \in Nat
         /\ done'[p][t] = Append(done[p][t], cmd[k].no)
         /\ \A q \in Procs, u \in Threads : ~ (q = p /\ u = t) => done'[q][u] = done[q][u]
<1>0. thr[t].pc = "do" /\ cmd[k] \in CmdRec /\ cmd[k].no \in Nat
  BY InUseRec DEF Do, Visits, CmdRec
<1>1. /\ thr' \in [Threads -> ThrRec] /\ thr'[t].pc = "back"
      /\ thr'[t].cmd = k /\ thr'[t].busy = thr[t].busy
      /\ thr'[t].end = thr[t].end /\ thr'[t].at = thr[t].at
      /\ \A u \in Threads \ {t} : thr'[u] = thr[u]
  BY DEF Do, IInv, Types, ThrRec
<1>2. /\ log \in [Loggers -> LogRec] /\ log[l] \in LogRec /\ print \in [Threads -> Nat]
      /\ log[l].ack \in Nat
  BY DEF IInv, Types, LogRec
<1>3. /\ log' \in [Loggers -> LogRec]
      /\ \A m \in Loggers \ {l} : log'[m] = log[m]
      /\ log'[l].req = log[l].req /\ log'[l].reqMt = log[l].reqMt
      /\ cmd[k].option = "close" =>
           log'[l].ack = log[l].ack /\ log'[l].state \in {log[l].state, "freed"}
      /\ cmd[k].option # "close" =>
           log'[l].ack = log[l].ack + 1 /\ log'[l].state = log[l].state
      /\ print' \in [Threads -> Nat] /\ \A u \in Threads \ {t} : print'[u] = print[u]
  <2>1. CASE cmd[k].option = "close"
    <3>1. log' = [log EXCEPT ![l].state = IF log[l].file THEN "freed" ELSE @] /\ print' = print
      BY <2>1 DEF Do, Closed
    <3> DEFINE s == IF log[l].file THEN "freed" ELSE log[l].state
    <3>2. log' = [log EXCEPT ![l].state = s] /\ s \in {log[l].state, "freed"}
      BY <3>1
    <3> HIDE DEF s
    <3>3. /\ log' \in [Loggers -> LogRec] /\ \A m \in Loggers \ {l} : log'[m] = log[m]
          /\ log'[l].req = log[l].req /\ log'[l].reqMt = log[l].reqMt
          /\ log'[l].ack = log[l].ack /\ log'[l].state = s
      <4>1. s \in {"open", "closing", "freed"}
        BY <1>2, <3>2 DEF LogRec
      <4> QED BY <1>2, <3>2, <4>1 DEF LogRec
    <3> QED BY <1>2, <2>1, <3>1, <3>2, <3>3
  <2>2. CASE cmd[k].option # "close"
    <3>1. PICK ok \in BOOLEAN : Done(t, l, cmd[k].option, ok)
      BY <1>2, <2>2 DEF Do, Opened, LogRec
    <3> DEFINE n == log[l].ack + 1
               o == cmd[k].option
               x == IF print[t] + Lines(o, ok) < PrintCap THEN print[t] + Lines(o, ok) ELSE PrintCap
    <3>2. n \in Nat /\ log' = [log EXCEPT ![l].file = ok, ![l].ack = n]
      <4>1. n \in Nat
        BY <1>2 DEF LogRec
      <4>2. log' = [log EXCEPT ![l].file = ok, ![l].ack = n]
        BY <3>1 DEF Done
      <4> QED BY <4>1, <4>2
    <3> HIDE DEF n
    <3>3. /\ log' \in [Loggers -> LogRec] /\ \A m \in Loggers \ {l} : log'[m] = log[m]
          /\ log'[l].req = log[l].req /\ log'[l].reqMt = log[l].reqMt
          /\ log'[l].ack = n /\ log'[l].state = log[l].state
      BY <1>2, <3>2 DEF LogRec
    <3>4. print' = [print EXCEPT ![t] = x]
      BY <1>2, <3>1 DEF Done
    <3>5. x \in Nat
      <4>1. Lines(o, ok) \in Nat
        BY DEF Lines
      <4> QED BY <1>2, <4>1, Consts
    <3> HIDE DEF x, o
    <3>6. print' \in [Threads -> Nat] /\ \A u \in Threads \ {t} : print'[u] = print[u]
      BY <1>2, <3>4, <3>5
    <3> QED BY <2>2, <3>3, <3>6 DEF n
  <2> QED BY <2>1, <2>2
<1>5. /\ done' \in [Procs -> [Threads -> Seq(Nat)]]
      /\ done'[p][t] = Append(done[p][t], cmd[k].no)
      /\ \A q \in Procs, u \in Threads : ~ (q = p /\ u = t) => done'[q][u] = done[q][u]
  <2> DEFINE a == Append(done[p][t], cmd[k].no)
             S == Seq(Nat)
  <2>1. a \in S /\ done \in Tables(S) /\ Puts(done', done, p, t, a)
    <3>1. done[p][t] \in Seq(Nat) /\ done \in Tables(S)
      BY DEF IInv, Types, RingTypes, Tables
    <3>2. done' = [done EXCEPT ![p][t] = Append(done[p][t], cmd[k].no)]
      BY <3>1 DEF Do, Tables
    <3> QED BY <1>0, <3>1, <3>2, Appended DEF Puts
  <2> HIDE DEF a, S
  <2>2. /\ done' \in Tables(S) /\ done'[p][t] = a
        /\ \A q \in Procs, u \in Threads : ~ (q = p /\ u = t) => done'[q][u] = done[q][u]
    BY <2>1, Updated
  <2> QED BY <2>2 DEF a, S, Tables
<1> QED BY <1>0, <1>1, <1>3, <1>5

-----------------------------------------------------------------------------
(***************************************************************************)
(* Types.                                                                  *)
(***************************************************************************)
LEMMA MainSet ==
  ASSUME Types
  PROVE  /\ \A pc \in {"idle", "wait", "close", "join", "gone"} :
              main' = [main EXCEPT !.pc = pc] => main' \in MainRec /\ main'.pc = pc
                /\ main'.cmd = main.cmd /\ main'.logger = main.logger
BY DEF Types, MainRec

LEMMA PostGiven ==
  ASSUME IInv, NEW p \in Procs, post[p].pc \in {"push", "count"}
  PROVE  /\ post[p].logger \in Loggers /\ ThreadOf[post[p].logger] \in Threads
         /\ post[p].pc = "push" => post[p].cmd \in Cmds
BY Consts DEF IInv, InCalls, Calling

LEMMA TypesNext ==
  ASSUME IInv, Next
  PROVE  Types'
<1> USE DEF history, rings
<1>0. Types /\ RingTypes /\ CmdTypes /\ Listed
  BY DEF IInv, Types
<1>1. ASSUME NEW p \in Procs, Register(p) PROVE Types'
  <2>1. <<p>> \o list \in Seq(Procs)
    BY <1>0, ConcatProperties DEF Types
  <2> QED BY <1>0, <1>1, <2>1 DEF Register, Types, RingTypes, CmdTypes
<1>2. ASSUME NEW p \in Procs, Exit(p) PROVE Types'
  <2>1. post' \in [Procs -> PostRec]
    BY <1>0, <1>2, PostSet DEF Exit
  <2> QED BY <1>0, <1>2, <2>1 DEF Exit, Types, RingTypes, CmdTypes
<1>3. ASSUME NEW p \in Procs, NEW l \in Loggers, NEW o \in Options[l], Post(p, l, o) PROVE Types'
  <2>1. o \in Known
    BY Consts
  <2>2. GetCmd(p, o, l) /\ rcyCache' = rcyCache
    BY <1>3 DEF Post
  <2>3. CmdTypes' /\ Got(p) \in Cmds /\ TakeBack(p)
    BY <1>0, <2>1, <2>2, GetEffect
  <2>4. rcyQ' \in Queues
    BY <1>0, <2>2, <2>3, TakeBackEffect
  <2>5. [pc |-> "push", cmd |-> Got(p), logger |-> l] \in PostRec
    BY <2>3 DEF PostRec
  <2>6. post' \in [Procs -> PostRec]
    BY <1>0, <1>3, <2>5, PostSet DEF Post
  <2> QED BY <1>0, <1>3, <2>3, <2>4, <2>6 DEF Post, Types, RingTypes
<1>4. ASSUME NEW p \in Procs, Push(p) PROVE Types'
  <2>1. /\ post[p].logger \in Loggers /\ ThreadOf[post[p].logger] \in Threads
        /\ post[p].cmd \in Cmds
    BY <1>4, PostGiven DEF Push
  <2>2. cmdQ' \in Queues /\ posted' \in [Procs -> [Threads -> Nat]]
    BY <1>0, <1>4, <2>1, GiveEffect DEF Push
  <2>3. post' \in [Procs -> PostRec]
    BY <1>0, <1>4, PostSet DEF Push
  <2> QED BY <1>0, <1>4, <2>2, <2>3 DEF Push, Types, RingTypes, CmdTypes
<1>5. ASSUME NEW p \in Procs, PushFull(p) PROVE Types'
  <2>1. CASE cmd[post[p].cmd].option = "write"
    <3>1. FreeBack(p) /\ post' = post /\ rcyCache' = rcyCache
      BY <1>5, <2>1 DEF PushFull
    <3>2. CmdTypes' /\ rcyQ' \in Queues
      BY <1>0, <3>1, DeleteEffect, TakeBackEffect DEF FreeBack
    <3> QED BY <1>0, <1>5, <3>1, <3>2 DEF PushFull, Types, RingTypes
  <2>2. CASE cmd[post[p].cmd].option # "write"
    <3>1. cmd' = Delete({post[p].cmd}, cmd) /\ rcyQ' = rcyQ
      BY <1>5, <2>2 DEF PushFull
    <3>2. CmdTypes'
      BY <1>0, <3>1, DeleteEffect
    <3>3. post' \in [Procs -> PostRec]
      BY <1>0, <1>5, <2>2, PostSet, IdleRec DEF PushFull
    <3> QED BY <1>0, <1>5, <3>1, <3>2, <3>3 DEF PushFull, Types, RingTypes
  <2> QED BY <2>1, <2>2
<1>6. ASSUME NEW p \in Procs, Count(p) PROVE Types'
  <2>1. log' \in [Loggers -> LogRec] /\ post' \in [Procs -> PostRec]
    BY <1>6, CountEffect
  <2> QED BY <1>0, <1>6, <2>1 DEF Count, Types, RingTypes, CmdTypes
<1>7. ASSUME NEW t \in Threads, Pop(t) PROVE Types'
  <2>1. cmdQ' \in Queues /\ thr' \in [Threads -> ThrRec]
    BY <1>0, <1>7, PopEffect
  <2> QED BY <1>0, <1>7, <2>1 DEF Pop, Types, RingTypes, CmdTypes
<1>8. ASSUME NEW t \in Threads, PopNone(t) PROVE Types'
  <2> PICK p \in Procs : p = At(t)
    BY <1>0, AtIn
  <2>1. /\ rcyQ' \in Queues /\ rcyCache' \in Queues
        /\ cmd' = Delete(Elems(Lane(p, t)), cmd) \/ cmd' = cmd
    BY <1>0, <1>8, PopNoneEffect
  <2>2. CmdTypes'
    BY <1>0, <2>1, DeleteEffect DEF CmdTypes
  <2>3. thr' \in [Threads -> ThrRec]
    <3>1. Onward(thr[t]) \in ThrRec
      BY <1>0, OnwardGoes
    <3>2. thr' = [thr EXCEPT ![t] = Onward(thr[t])]
      BY <1>0, <1>8 DEF PopNone, Types
    <3> QED BY <1>0, <3>1, <3>2 DEF Types
  <2> QED BY <1>0, <1>8, <2>1, <2>2, <2>3 DEF PopNone, Types, RingTypes
<1>9. ASSUME NEW t \in Threads, Do(t) PROVE Types'
  <2> PICK p \in Procs : p = At(t)
    BY <1>0, AtIn
  <2>0. thr[t].pc \in {"do", "back"}
    BY <1>9 DEF Do, Visits
  <2> PICK k \in Cmds : k = thr[t].cmd
    BY <2>0, InUseRec
  <2> PICK l \in Loggers : l = cmd[k].logger
    BY <2>0, InUseRec
  <2>1. /\ log' \in [Loggers -> LogRec] /\ print' \in [Threads -> Nat]
        /\ thr' \in [Threads -> ThrRec] /\ done' \in [Procs -> [Threads -> Seq(Nat)]]
    BY <1>9, DoEffect
  <2> QED BY <1>0, <1>9, <2>1 DEF Do, Types, RingTypes, CmdTypes
<1>10. ASSUME NEW t \in Threads, GiveBack(t) PROVE Types'
  <2> PICK p \in Procs : p = At(t)
    BY <1>0, AtIn
  <2>1. /\ rcyQ' \in Queues /\ rcyCache' \in Queues
    BY <1>0, <1>10, GiveBackEffect
  <2>3. thr' \in [Threads -> ThrRec]
    <3>1. Onward(thr[t]) \in ThrRec
      BY <1>0, OnwardGoes
    <3>2. thr' = [thr EXCEPT ![t] = Onward(thr[t])]
      BY <1>0, <1>10 DEF GiveBack, Types
    <3> QED BY <1>0, <3>1, <3>2 DEF Types
  <2> QED BY <1>0, <1>10, <2>1, <2>3 DEF GiveBack, Types, RingTypes, CmdTypes
<1>11. CASE PrintLine
  <2>1. pr.at \in Threads /\ pr \in PrRec /\ print[pr.at] \in Nat
    BY <1>0 DEF Types, PrRec
  <2>2. print' \in [Threads -> Nat]
    <3> DEFINE n == IF print[pr.at] > 0 THEN print[pr.at] - 1 ELSE print[pr.at]
    <3>1. n \in Nat /\ print' = [print EXCEPT ![pr.at] = n]
      BY <1>11, <2>1 DEF PrintLine
    <3> HIDE DEF n
    <3> QED BY <1>0, <2>1, <3>1 DEF Types
  <2>3. pr' \in PrRec
    <3> DEFINE any == pr.any \/ (pr.pc = "end" /\ print[pr.at] > 0)
               pass == [pc |-> pr.pc, at |-> 1, any |-> FALSE]
    <3>1. any \in BOOLEAN /\ pass \in PrRec
      BY <2>1, Consts DEF PrRec
    <3>2. \/ pr.at < N /\ pr' = [pr EXCEPT !.at = @ + 1, !.any = any]
          \/ pr' = pass \/ pr' = [pass EXCEPT !.pc = "wait"] \/ pr' = [pass EXCEPT !.pc = "over"]
      <4>1. pr.at < N \/ pr.at = N
        BY <2>1, Consts
      <4>2. CASE pr.at < N
        BY <1>11, <4>2, Consts DEF PrintLine
      <4>3. CASE pr.at = N
        <5>1. ~ (pr.at < N)
          BY <4>3, Consts
        <5> QED BY <1>11, <4>3, <5>1 DEF PrintLine
      <4> QED BY <4>1, <4>2, <4>3
    <3>3. pr.at < N => pr.at + 1 \in Threads
      BY <2>1, Consts
    <3> HIDE DEF any
    <3>4. \A i \in Threads : [pr EXCEPT !.at = i, !.any = any] \in PrRec
      BY <2>1, <3>1 DEF PrRec
    <3>5. [pass EXCEPT !.pc = "wait"] \in PrRec /\ [pass EXCEPT !.pc = "over"] \in PrRec
      BY <3>1 DEF PrRec
    <3> QED BY <3>1, <3>2, <3>3, <3>4, <3>5
  <2> QED BY <1>0, <1>11, <2>2, <2>3 DEF PrintLine, Types, RingTypes, CmdTypes
<1>12. CASE PrintWait
  <2>1. pr.at \in Threads /\ pr \in PrRec
    BY <1>0 DEF Types, PrRec
  <2>2. pr' \in PrRec
    <3>1. \/ pr' = [pr EXCEPT !.at = 1]
          \/ pr.at < N /\ pr' = [pr EXCEPT !.at = @ + 1]
          \/ pr' = [pr EXCEPT !.at = 1, !.pc = "end"]
      <4>1. pr.at < N \/ pr.at = N
        BY <2>1, Consts
      <4>2. ~ (pr.at < N /\ pr.at = N)
        BY Consts
      <4> QED BY <1>12, <4>1, <4>2 DEF PrintWait
    <3>2. pr.at < N => pr.at + 1 \in Threads
      BY <2>1, Consts
    <3>3. \A i \in Threads : [pr EXCEPT !.at = i] \in PrRec
      BY <2>1 DEF PrRec
    <3>4. [pr EXCEPT !.at = 1, !.pc = "end"] \in PrRec
      BY <2>1, Consts DEF PrRec
    <3> QED BY <3>1, <3>2, <3>3, <3>4, Consts
  <2> QED BY <1>0, <1>12, <2>2 DEF PrintWait, Types, RingTypes, CmdTypes
<1>13. ASSUME NEW l \in Loggers, Destroy(l) PROVE Types'
  <2>1. GetCmd(Main, "close", l) /\ rcyCache' = rcyCache /\ Main \in Procs
    BY <1>13, Consts DEF Destroy
  <2>2. CmdTypes' /\ Got(Main) \in Cmds /\ TakeBack(Main)
    BY <1>0, <2>1, GetEffect
  <2>3. rcyQ' \in Queues
    BY <1>0, <2>1, <2>2, TakeBackEffect
  <2>4. main' \in MainRec
    BY <1>13, <2>2 DEF Destroy, MainRec
  <2>5. log' \in [Loggers -> LogRec]
    BY <1>0, <1>13 DEF Destroy, Types, LogRec
  <2> QED BY <1>0, <1>13, <2>2, <2>3, <2>4, <2>5 DEF Destroy, Types, RingTypes
<1>14. CASE Acked
  BY <1>0, <1>14, MainSet DEF Acked, Types, RingTypes, CmdTypes
<1>15. CASE Close
  <2>1. /\ Main \in Procs /\ main.cmd \in Cmds /\ main.logger \in Loggers
        /\ ThreadOf[main.logger] \in Threads
    BY <1>15, Consts DEF Close, IInv, InCalls, Closing
  <2>2. CASE Room(cmdQ[Main][ThreadOf[main.logger]])
    <3>1. Give(Main, main.cmd, ThreadOf[main.logger]) /\ main' = Idle /\ rcyQ' = rcyQ /\ cmd' = cmd
      BY <1>15, <2>2 DEF Close
    <3>2. cmdQ' \in Queues /\ posted' \in [Procs -> [Threads -> Nat]]
      BY <1>0, <2>1, <3>1, GiveEffect
    <3> QED BY <1>0, <1>15, <3>1, <3>2, IdleRec DEF Close, Types, RingTypes, CmdTypes
  <2>3. CASE ~Room(cmdQ[Main][ThreadOf[main.logger]])
    <3>1. FreeBack(Main) /\ cmdQ' = cmdQ /\ main' = main /\ posted' = posted /\ rcyCache' = rcyCache
      BY <1>15, <2>3 DEF Close
    <3>2. CmdTypes' /\ rcyQ' \in Queues
      BY <1>0, <2>1, <3>1, DeleteEffect, TakeBackEffect DEF FreeBack
    <3> QED BY <1>0, <1>15, <3>1, <3>2 DEF Close, Types, RingTypes
  <2> QED BY <2>2, <2>3
<1>16. CASE Stop
  <2>1. main' \in MainRec
    BY <1>0, <1>16, MainSet DEF Stop
  <2> QED BY <1>0, <1>16, <2>1 DEF Stop, Types, RingTypes, CmdTypes
<1>17. CASE Joined
  <2>1. main' \in MainRec
    BY <1>0, <1>17, MainSet DEF Joined
  <2>2. [p \in Procs |-> [t \in Threads |-> <<>>]] \in Queues
    BY EmptySeq DEF Queues
  <2>3. cmdQ' \in Queues /\ rcyQ' \in Queues /\ rcyCache' \in Queues
    BY <1>17, <2>2 DEF Joined
  <2>4. CmdTypes'
    BY <1>17 DEF Joined, CmdTypes
  <2> QED BY <1>0, <1>17, <2>1, <2>3, <2>4 DEF Joined, Types, RingTypes
<1> QED BY <1>1, <1>2, <1>3, <1>4, <1>5, <1>6, <1>7, <1>8, <1>9, <1>10, <1>11, <1>12, <1>13,
           <1>14, <1>15, <1>16, <1>17
        DEF Next, Calls, LogThread, PrintThread, MainDoes

-----------------------------------------------------------------------------
(***************************************************************************)
(* What can become of a log thread, of the list and of a cmd_queue.        *)
(***************************************************************************)
LEMMA ThrNext ==
  ASSUME IInv, Next, NEW t \in Threads
  PROVE  \/ thr'[t] = thr[t]
         \/ Pop(t)
         \/ Do(t)
         \/ (PopNone(t) \/ GiveBack(t)) /\ Goes(thr[t], thr'[t])
<1>0. Types /\ Listed /\ thr \in [Threads -> ThrRec]
  BY DEF IInv, Types
<1>1. CASE thr' = thr
  BY <1>1
<1>2. ASSUME NEW u \in Threads, Pop(u) \/ Do(u)
      PROVE  u = t \/ thr'[t] = thr[t]
  BY <1>0, <1>2 DEF Pop, Do
<1>3. ASSUME NEW u \in Threads, PopNone(u) \/ GiveBack(u)
      PROVE  \/ u # t /\ thr'[t] = thr[t]
             \/ u = t /\ Goes(thr[t], thr'[t])
  <2>1. thr' = [thr EXCEPT ![u] = Onward(thr[u])]
    BY <1>0, <1>3 DEF PopNone, GiveBack
  <2>2. Goes(thr[u], Onward(thr[u]))
    BY <1>0, OnwardGoes
  <2>3. u # t => thr'[t] = thr[t]
    BY <1>0, <2>1
  <2>4. u = t => thr'[t] = Onward(thr[t])
    BY <1>0, <2>1
  <2> QED BY <2>2, <2>3, <2>4
<1>4. \/ thr' = thr \/ \E u \in Threads : Pop(u) \/ Do(u) \/ PopNone(u) \/ GiveBack(u)
  <2>1. ASSUME NEW p \in Procs, Register(p) \/ Exit(p) \/ Calls(p) PROVE thr' = thr
    BY <2>1 DEF Register, Exit, Calls, Push, PushFull, Count
  <2>2. ASSUME NEW p \in Procs, NEW l \in Loggers, NEW o \in Options[l], Post(p, l, o)
        PROVE  thr' = thr
    BY <2>2 DEF Post
  <2>3. ASSUME NEW l \in Loggers, Destroy(l) PROVE thr' = thr
    BY <2>3 DEF Destroy
  <2>4. CASE PrintThread \/ Stop \/ MainDoes
    BY <2>4 DEF PrintThread, PrintLine, PrintWait, Stop, MainDoes, Acked, Close, Joined
  <2> QED BY <2>1, <2>2, <2>3, <2>4 DEF Next, LogThread
<1> QED BY <1>1, <1>2, <1>3, <1>4

LEMMA RegisterEffect ==
  ASSUME Types, NEW p \in Procs, Register(p)
  PROVE  /\ Len(list) \in Nat /\ Len(list') = Len(list) + 1
         /\ \A j \in 1 .. Len(list) : list'[Len(list') + 1 - j] = list[Len(list) + 1 - j]
         /\ list'[1] = p /\ Registered' = Registered \cup {p}
<1>1. /\ list \in Seq(Procs) /\ <<p>> \in Seq(Procs) /\ list' = Cat(<<p>>, list)
      /\ Len(<<p>>) = 1 /\ <<p>>[1] = p
  BY DEF Types, Register, Cat
<1> DEFINE s == <<p>>
           n == Len(list)
<1> HIDE DEF s
<1>2. /\ n \in Nat /\ Len(list') = 1 + n /\ Elems(list') = Elems(s) \cup Elems(list)
      /\ \A i \in 1 .. 1 + n : list'[i] = IF i <= 1 THEN s[i] ELSE list[i - 1]
  <2>1. s \in Seq(Procs) /\ list' = Cat(s, list) /\ Len(s) = 1
    BY <1>1 DEF s
  <2>2. /\ Cat(s, list) \in Seq(Procs) /\ Len(s) \in Nat /\ Len(list) \in Nat
        /\ Len(Cat(s, list)) = Len(s) + Len(list)
        /\ \A i \in 1 .. Len(s) + Len(list) :
             Cat(s, list)[i] = IF i <= Len(s) THEN s[i] ELSE list[i - Len(s)]
    BY <1>1, <2>1, Joins
  <2>3. Elems(Cat(s, list)) = Elems(s) \cup Elems(list)
    BY <1>1, <2>1, ElemsCat
  <2> QED BY <2>1, <2>2, <2>3
<1>3. list'[1] = p
  <2>1. 1 \in 1 .. 1 + n
    BY <1>2
  <2>2. s[1] = p
    BY <1>1 DEF s
  <2> QED BY <1>2, <2>1, <2>2
<1>4. ASSUME NEW j \in 1 .. n PROVE list'[Len(list') + 1 - j] = list[n + 1 - j]
  <2> DEFINE i == Len(list') + 1 - j
  <2>1. i \in 1 .. 1 + n /\ ~ (i <= 1) /\ i - 1 = n + 1 - j
    BY <1>2
  <2> HIDE DEF i
  <2>2. list'[i] = list[i - 1]
    BY <1>2, <2>1
  <2> QED BY <2>1, <2>2 DEF i
<1>5. Registered' = Registered \cup {p}
  <2>1. Elems(s) = {p}
    BY DEF s, Elems
  <2>2. Registered = Elems(list) /\ Registered' = Elems(list')
    BY DEF Registered, Elems
  <2> QED BY <1>2, <2>1, <2>2
<1> QED BY <1>2, <1>3, <1>4, <1>5

LEMMA ListNext ==
  ASSUME Next
  PROVE  list' = list \/ \E p \in Procs : Register(p) /\ thr' = thr /\ cmdQ' = cmdQ
<1>1. ASSUME NEW p \in Procs, Register(p) \/ Exit(p) \/ Calls(p)
      PROVE  list' = list \/ (Register(p) /\ thr' = thr /\ cmdQ' = cmdQ)
  BY <1>1 DEF Register, Exit, Calls, Push, PushFull, Count, rings
<1>2. ASSUME NEW p \in Procs, NEW l \in Loggers, NEW o \in Options[l], Post(p, l, o)
      PROVE  list' = list
  BY <1>2 DEF Post
<1>3. ASSUME NEW l \in Loggers, Destroy(l) PROVE list' = list
  BY <1>3 DEF Destroy
<1>4. CASE PrintThread \/ Stop \/ MainDoes
  BY <1>4 DEF PrintThread, PrintLine, PrintWait, Stop, MainDoes, Acked, Close, Joined
<1>5. ASSUME NEW t \in Threads, LogThread(t) PROVE list' = list
  BY <1>5 DEF LogThread, Pop, PopNone, Do, GiveBack
<1> QED BY <1>1, <1>2, <1>3, <1>4, <1>5 DEF Next

LEMMA AtNext ==
  ASSUME IInv, Next, NEW t \in Threads, thr'[t].at = thr[t].at
  PROVE  At(t)' = At(t)
<1>1. CASE list' = list
  BY <1>1 DEF At
<1>2. ASSUME NEW p \in Procs, Register(p) PROVE At(t)' = At(t)
  <2>1. thr[t].at \in 1 .. Len(list) /\ Types
    BY DEF IInv, Listed
  <2>2. list'[Len(list') + 1 - thr[t].at] = list[Len(list) + 1 - thr[t].at]
    BY <1>2, <2>1, RegisterEffect
  <2> QED BY <2>2 DEF At
<1> QED BY <1>1, <1>2, ListNext

(* k is given by q to u                                                    *)
Gives(q, u, k) ==
  \/ Push(q) /\ u = ThreadOf[post[q].logger] /\ k = post[q].cmd
  \/ /\ Close /\ Room(cmdQ[Main][ThreadOf[main.logger]])
     /\ q = Main /\ u = ThreadOf[main.logger] /\ k = main.cmd

LEMMA GivesEffect ==
  ASSUME IInv, NEW q \in Procs, NEW u \in Threads, NEW k, Gives(q, u, k)
  PROVE  /\ k \in Cmds /\ cmd[k].no = posted[q][u] + 1 /\ q \in Registered
         /\ cmdQ'[q][u] = Append(cmdQ[q][u], k) /\ posted'[q][u] = posted[q][u] + 1
         /\ \A p \in Procs, t \in Threads : ~ (p = q /\ t = u) =>
              cmdQ'[p][t] = cmdQ[p][t] /\ posted'[p][t] = posted[p][t]
         /\ cmd' = cmd /\ thr' = thr /\ list' = list /\ done' = done /\ run' = run /\ log' = log
         /\ run /\ rcyQ' = rcyQ /\ rcyCache' = rcyCache
<1>0. RingTypes
  BY DEF IInv, Types
<1>1. CASE Push(q) /\ u = ThreadOf[post[q].logger] /\ k = post[q].cmd
  <2>1. /\ k \in Cmds /\ cmd[k].no = posted[q][u] + 1 /\ q \in Registered /\ Calling(q)
    BY <1>1 DEF Push, IInv, InCalls, Calling, NextNo
  <2>2. Give(q, k, u)
    BY <1>1 DEF Push
  <2>3. run
    BY <2>1 DEF IInv, Stopped, Types
  <2>4. /\ cmd' = cmd /\ thr' = thr /\ list' = list /\ done' = done /\ run' = run /\ log' = log
        /\ rcyQ' = rcyQ /\ rcyCache' = rcyCache
    BY <1>1 DEF Push
  <2> QED BY <1>0, <2>1, <2>2, <2>3, <2>4, GiveEffect
<1>2. CASE /\ Close /\ Room(cmdQ[Main][ThreadOf[main.logger]])
           /\ q = Main /\ u = ThreadOf[main.logger] /\ k = main.cmd
  <2>1. main.pc = "close"
    BY <1>2 DEF Close
  <2>2. /\ k \in Cmds /\ cmd[k].no = posted[q][u] + 1 /\ q \in Registered
    BY <1>2, <2>1 DEF IInv, InCalls, Closing, NextNo, Listed
  <2>3. Give(q, k, u) /\ cmd' = cmd /\ rcyQ' = rcyQ
    BY <1>2 DEF Close
  <2>4. run
    BY <2>1 DEF IInv, Stopped, Types
  <2>5. /\ thr' = thr /\ list' = list /\ done' = done /\ run' = run /\ log' = log
        /\ rcyCache' = rcyCache
    BY <1>2 DEF Close
  <2> QED BY <1>0, <2>2, <2>3, <2>4, <2>5, GiveEffect
<1> QED BY <1>1, <1>2 DEF Gives

LEMMA QueueNext ==
  ASSUME IInv, Next
  PROVE  \/ cmdQ' = cmdQ /\ posted' = posted
         \/ \E q \in Procs, u \in Threads, k \in Cmds : Gives(q, u, k)
         \/ \E t \in Threads : Pop(t) /\ posted' = posted
         \/ Joined
<1> USE DEF history, rings
<1>1. ASSUME NEW p \in Procs, Register(p) \/ Exit(p) \/ PushFull(p) \/ Count(p)
      PROVE  cmdQ' = cmdQ /\ posted' = posted
  BY <1>1 DEF Register, Exit, PushFull, Count
<1>2. ASSUME NEW p \in Procs, NEW l \in Loggers, NEW o \in Options[l], Post(p, l, o)
      PROVE  cmdQ' = cmdQ /\ posted' = posted
  BY <1>2 DEF Post
<1>3. ASSUME NEW l \in Loggers, Destroy(l) PROVE cmdQ' = cmdQ /\ posted' = posted
  BY <1>3 DEF Destroy
<1>4. CASE PrintThread \/ Stop \/ Acked
  BY <1>4 DEF PrintThread, PrintLine, PrintWait, Stop, Acked
<1>5. ASSUME NEW t \in Threads, PopNone(t) \/ Do(t) \/ GiveBack(t)
      PROVE  cmdQ' = cmdQ /\ posted' = posted
  BY <1>5 DEF PopNone, Do, GiveBack
<1>6. ASSUME NEW t \in Threads, Pop(t) PROVE posted' = posted
  BY <1>6 DEF Pop
<1>7. ASSUME NEW p \in Procs, Push(p)
      PROVE  \E q \in Procs, u \in Threads, k \in Cmds : Gives(q, u, k)
  <2>1. ThreadOf[post[p].logger] \in Threads /\ post[p].cmd \in Cmds
    BY <1>7, PostGiven DEF Push
  <2>2. Gives(p, ThreadOf[post[p].logger], post[p].cmd)
    BY <1>7 DEF Gives
  <2> QED BY <2>1, <2>2
<1>8. CASE Close
  <2>1. CASE Room(cmdQ[Main][ThreadOf[main.logger]])
    <3>1. Gives(Main, ThreadOf[main.logger], main.cmd)
      BY <1>8, <2>1 DEF Gives
    <3>2. Main \in Procs /\ ThreadOf[main.logger] \in Threads /\ main.cmd \in Cmds
      BY <1>8, Consts DEF Close, IInv, InCalls, Closing
    <3> QED BY <3>1, <3>2
  <2>2. CASE ~Room(cmdQ[Main][ThreadOf[main.logger]])
    BY <1>8, <2>2 DEF Close
  <2> QED BY <2>1, <2>2
<1> QED BY <1>1, <1>2, <1>3, <1>4, <1>5, <1>6, <1>7, <1>8
        DEF Next, Calls, LogThread, PrintThread, MainDoes

LEMMA ListedNext ==
  ASSUME IInv, Next
  PROVE  Listed'
<1>0. Types /\ Listed /\ RingTypes
  BY DEF IInv, Types
<1>1. Registered \subseteq Registered' /\ list' # <<>> /\ Main \in Registered' /\ Len(list) \in Nat
      /\ Len(list') \in Nat /\ Len(list) <= Len(list')
  <2>1. CASE list' = list
    <3>1. Len(list) \in Nat
      BY <1>0, LenProperties DEF Types
    <3> QED BY <1>0, <2>1, <3>1 DEF Listed, Registered
  <2>2. ASSUME NEW p \in Procs, Register(p)
        PROVE  Registered \subseteq Registered' /\ list' # <<>> /\ Main \in Registered'
               /\ Len(list) \in Nat /\ Len(list') \in Nat /\ Len(list) <= Len(list')
    <3>1. /\ Registered' = Registered \cup {p} /\ Len(list) \in Nat /\ Len(list') = Len(list) + 1
      BY <1>0, <2>2, RegisterEffect
    <3>2. list' # <<>>
      BY <3>1
    <3> QED BY <1>0, <3>1, <3>2 DEF Listed
  <2> QED BY <2>1, <2>2, ListNext
<1>2. ASSUME NEW t \in Threads
      PROVE  /\ thr'[t].at \in 1 .. Len(list')
             /\ thr'[t].pc \in {"do", "back"} => thr'[t].cmd \in Cmds
  <2>0. thr[t].at \in 1 .. Len(list) /\ (thr[t].pc \in {"do", "back"} => thr[t].cmd \in Cmds)
    BY <1>0 DEF Listed
  <2>1. CASE thr'[t] = thr[t]
    BY <1>1, <2>0, <2>1
  <2>2. CASE Pop(t)
    <3>1. thr'[t].at = thr[t].at /\ thr'[t].cmd \in Cmds
      BY <1>0, <2>2, PopEffect
    <3> QED BY <1>1, <2>0, <3>1
  <2>3. CASE Do(t)
    <3>1. thr'[t].at = thr[t].at /\ thr'[t].cmd = thr[t].cmd /\ thr[t].pc = "do"
      BY <1>0, <2>3 DEF Do, Visits, Types, ThrRec
    <3> QED BY <1>1, <2>0, <3>1
  <2>4. CASE (PopNone(t) \/ GiveBack(t)) /\ Goes(thr[t], thr'[t])
    <3>1. thr'[t].pc \notin {"do", "back"} /\ thr'[t].at \in {thr[t].at - 1, Len(list)}
          /\ (thr'[t].at = Len(list) \/ thr[t].at > 1)
      BY <2>4 DEF Goes
    <3>2. Len(list) >= 1
      BY <1>1, <2>0
    <3> QED BY <1>1, <2>0, <3>1, <3>2
  <2> QED BY <2>1, <2>2, <2>3, <2>4, ThrNext
<1>3. ASSUME NEW p \in Procs \ Registered', NEW t \in Threads PROVE cmdQ'[p][t] = <<>>
  <2>0. p \in Procs /\ p \notin Registered /\ cmdQ[p][t] = <<>>
    BY <1>0, <1>1, <1>3 DEF Listed
  <2>1. CASE cmdQ' = cmdQ
    BY <2>0, <2>1
  <2>2. ASSUME NEW q \in Procs, NEW u \in Threads, NEW k \in Cmds, Gives(q, u, k)
        PROVE  cmdQ'[p][t] = <<>>
    <3>1. p # q
      BY <2>0, <2>2, GivesEffect
    <3>2. cmdQ'[p][t] = cmdQ[p][t]
      BY <2>0, <2>2, <3>1, GivesEffect
    <3> QED BY <2>0, <3>2
  <2>3. ASSUME NEW u \in Threads, Pop(u) PROVE cmdQ'[p][t] = <<>>
    <3>1. p # At(u)
      BY <1>0, <2>0, AtIn
    <3>2. cmdQ'[p][t] = cmdQ[p][t]
      BY <1>0, <2>0, <2>3, <3>1, PopEffect
    <3> QED BY <2>0, <3>2
  <2>4. CASE Joined
    BY <2>0, <2>4 DEF Joined
  <2> QED BY <2>1, <2>2, <2>3, <2>4, QueueNext
<1> QED BY <1>1, <1>2, <1>3 DEF Listed

-----------------------------------------------------------------------------
(***************************************************************************)
(* Stop: the last passes, and the last lines.                              *)
(***************************************************************************)
LEMMA RunNext ==
  ASSUME Next
  PROVE  \/ run' = run /\ main' = main
         \/ run' = run /\ ((\E l \in Loggers : Destroy(l)) \/ Acked \/ Close \/ Joined)
         \/ Stop
<1>1. ASSUME NEW p \in Procs, Register(p) \/ Exit(p) \/ Calls(p)
      PROVE  run' = run /\ main' = main
  BY <1>1 DEF Register, Exit, Calls, Push, PushFull, Count
<1>2. ASSUME NEW p \in Procs, NEW l \in Loggers, NEW o \in Options[l], Post(p, l, o)
      PROVE  run' = run /\ main' = main
  BY <1>2 DEF Post
<1>3. ASSUME NEW l \in Loggers, Destroy(l) PROVE run' = run
  BY <1>3 DEF Destroy
<1>4. CASE PrintThread
  BY <1>4 DEF PrintThread, PrintLine, PrintWait
<1>5. ASSUME NEW t \in Threads, LogThread(t) PROVE run' = run /\ main' = main
  BY <1>5 DEF LogThread, Pop, PopNone, Do, GiveBack
<1>6. CASE MainDoes
  BY <1>6 DEF MainDoes, Acked, Close, Joined
<1> QED BY <1>1, <1>2, <1>3, <1>4, <1>5, <1>6 DEF Next, MainDoes

LEMMA OverStays ==
  ASSUME IInv, Next, NEW t \in Threads, Over(t)
  PROVE  Over(t)'
<1>1. ~ Pop(t) /\ ~ Do(t) /\ ~ PopNone(t) /\ ~ GiveBack(t)
  BY DEF Over, Pop, Do, PopNone, GiveBack, Visits
<1> QED BY <1>1, ThrNext DEF Over

(* who is in a call after a step                                           *)
LEMMA CallNext ==
  ASSUME IInv, Next, NEW p \in Procs, Calling(p)'
  PROVE  Calling(p) \/ \E l \in Loggers : \E o \in Options[l] : Post(p, l, o)
<1>0. Types
  BY DEF IInv
<1>1. ASSUME post'[p] = post[p] PROVE Calling(p)
  BY <1>1 DEF Calling
<1>2. ASSUME NEW q \in Procs, Exit(q) PROVE Calling(p)
  <2>1. post' = [post EXCEPT ![q].pc = "over"]
    BY <1>2 DEF Exit
  <2>2. post'[q].pc = "over" /\ \A r \in Procs \ {q} : post'[r] = post[r]
    BY <1>0, <2>1, PostSet
  <2>3. q # p
    BY <2>2 DEF Calling
  <2> QED BY <1>1, <2>2, <2>3
<1>3. ASSUME NEW q \in Procs, NEW l \in Loggers, NEW o \in Options[l], Post(q, l, o), q # p
      PROVE  Calling(p)
  <2>1. post'[p] = post[p]
    BY <1>0, <1>3 DEF Post, Types
  <2> QED BY <1>1, <2>1
<1>4. ASSUME NEW q \in Procs, Calls(q) PROVE Calling(p)
  <2>1. CASE q = p
    BY <1>4, <2>1 DEF Calls, Push, PushFull, Count, Calling
  <2>2. CASE q # p
    <3>1. post'[p] = post[p]
      BY <1>0, <1>4, <2>2 DEF Calls, Push, PushFull, Count, Types
    <3> QED BY <1>1, <3>1
  <2> QED BY <2>1, <2>2
<1>5. ASSUME NEW q \in Procs, Register(q) PROVE post' = post
  BY <1>5 DEF Register
<1>6. ASSUME NEW l \in Loggers, Destroy(l) PROVE post' = post
  BY <1>6 DEF Destroy
<1>7. CASE PrintThread \/ Stop \/ MainDoes
  <2>1. post' = post
    BY <1>7 DEF PrintThread, PrintLine, PrintWait, Stop, MainDoes, Acked, Close, Joined
  <2> QED BY <1>1, <2>1
<1>8. ASSUME NEW t \in Threads, LogThread(t) PROVE post' = post
  BY <1>8 DEF LogThread, Pop, PopNone, Do, GiveBack
<1> QED BY <1>1, <1>2, <1>3, <1>4, <1>5, <1>6, <1>7, <1>8 DEF Next

LEMMA StoppedNext ==
  ASSUME IInv, Next
  PROVE  Stopped'
<1>0. Types /\ Types' /\ Stopped
  BY TypesNext DEF IInv
<1>1. ~run' <=> main'.pc \in {"join", "gone"}
  <2>1. CASE run' = run /\ main' = main
    BY <1>0, <2>1 DEF Stopped
  <2>2. CASE Stop
    <3>1. main'.pc = "join" /\ run' = FALSE
      BY <1>0, <2>2, MainSet DEF Stop
    <3> QED BY <3>1
  <2>3. ASSUME NEW l \in Loggers, Destroy(l), run' = run PROVE ~run' <=> main'.pc \in {"join", "gone"}
    BY <1>0, <2>3 DEF Destroy, Stopped
  <2>4. CASE Acked /\ run' = run
    <3>1. main'.pc = "close" /\ main.pc = "wait"
      BY <1>0, <2>4, MainSet DEF Acked
    <3> QED BY <1>0, <2>4, <3>1 DEF Stopped
  <2>5. CASE Close /\ run' = run
    <3>1. main.pc = "close" /\ main'.pc \in {"idle", "close"}
      BY <2>5, IdleRec DEF Close
    <3> QED BY <1>0, <2>5, <3>1 DEF Stopped
  <2>6. CASE Joined /\ run' = run
    <3>1. main'.pc = "gone" /\ main.pc = "join"
      BY <1>0, <2>6, MainSet DEF Joined
    <3> QED BY <1>0, <2>6, <3>1 DEF Stopped
  <2> QED BY <2>1, <2>2, <2>3, <2>4, <2>5, <2>6, RunNext
<1>2. ASSUME ~run', NEW p \in Procs PROVE ~Calling(p)'
  <2>1. SUFFICES ASSUME Calling(p)' PROVE FALSE
    OBVIOUS
  <2>2. ASSUME Calling(p) PROVE FALSE
    <3>1. run
      BY <1>0, <2>2 DEF Stopped, Types
    <3>2. Stop
      BY <1>2, <3>1, RunNext
    <3> QED BY <2>2, <3>2 DEF Stop
  <2>3. ASSUME NEW l \in Loggers, NEW o \in Options[l], Post(p, l, o) PROVE FALSE
    <3>1. run /\ run' = run
      BY <1>0, <2>3 DEF Post, InUse, Stopped, Types
    <3> QED BY <1>2, <3>1
  <2> QED BY <2>1, <2>2, <2>3, CallNext
<1>3. ASSUME main'.pc = "gone" PROVE pr'.pc = "over" /\ \A t \in Threads : Over(t)'
  <2>1. \/ main.pc = "gone" /\ ~ PrintLine /\ ~ PrintWait
        \/ Joined
    <3>1. CASE main' = main
      BY <1>0, <1>3, <3>1 DEF Stopped, PrintLine, PrintWait
    <3>2. ~ Stop
      <4>1. Stop => main'.pc = "join"
        BY <1>0, MainSet DEF Stop
      <4> QED BY <1>3, <4>1
    <3>3. ASSUME NEW l \in Loggers, Destroy(l) PROVE FALSE
      BY <1>3, <3>3 DEF Destroy
    <3>4. ~ Acked
      <4>1. Acked => main'.pc = "close"
        BY <1>0, MainSet DEF Acked
      <4> QED BY <1>3, <4>1
    <3>5. ~ Close
      <4>1. Close => main'.pc \in {"idle", "close"}
        BY IdleRec DEF Close
      <4> QED BY <1>3, <4>1
    <3> QED BY <3>1, <3>2, <3>3, <3>4, <3>5, RunNext
  <2>2. CASE Joined
    <3>1. pr' = pr /\ thr' = thr /\ pr.pc = "over" /\ \A t \in Threads : thr[t].pc = "over"
      BY <2>2 DEF Joined
    <3> QED BY <3>1 DEF Over
  <2>3. CASE main.pc = "gone" /\ ~ PrintLine /\ ~ PrintWait
    <3>1. pr.pc = "over" /\ \A t \in Threads : Over(t)
      BY <1>0, <2>3 DEF Stopped
    <3>2. \A t \in Threads : Over(t)'
      BY <3>1, OverStays
    <3>3. pr' = pr
      <4>1. ASSUME NEW p \in Procs, Register(p) \/ Exit(p) \/ Calls(p) PROVE pr' = pr
        BY <4>1 DEF Register, Exit, Calls, Push, PushFull, Count
      <4>2. ASSUME NEW p \in Procs, NEW l \in Loggers, NEW o \in Options[l], Post(p, l, o)
            PROVE  pr' = pr
        BY <4>2 DEF Post
      <4>3. ASSUME NEW l \in Loggers, Destroy(l) PROVE pr' = pr
        BY <4>3 DEF Destroy
      <4>4. ASSUME NEW t \in Threads, LogThread(t) PROVE pr' = pr
        BY <4>4 DEF LogThread, Pop, PopNone, Do, GiveBack
      <4>5. CASE Stop \/ MainDoes
        BY <4>5 DEF Stop, MainDoes, Acked, Close, Joined
      <4> QED BY <2>3, <4>1, <4>2, <4>3, <4>4, <4>5 DEF Next, PrintThread
    <3> QED BY <3>1, <3>2, <3>3
  <2> QED BY <2>1, <2>2, <2>3
<1> QED BY <1>1, <1>2, <1>3 DEF Stopped, Calling, Over

LEMMA LastPassNext ==
  ASSUME IInv, Next
  PROVE  LastPass'
<1>0. Types /\ Types' /\ Listed /\ Listed' /\ LastPass /\ Stopped
  BY TypesNext, ListedNext DEF IInv
<1>1. ~run => ~run' /\ list' = list
  <2>1. ~run => ~run'
    BY RunNext DEF Stop
  <2>2. ASSUME NEW p \in Procs, Register(p) PROVE run
    BY <1>0, <2>2 DEF Register, InUse, Stopped, Types
  <2> QED BY <2>1, <2>2, ListNext
<1> SUFFICES ASSUME NEW t \in Threads
             PROVE  /\ thr'[t].end => ~run'
                    /\ thr'[t].pc = "pass" /\ thr'[t].end /\ ~thr'[t].busy =>
                         \A j \in 1 .. Len(list') : j > thr'[t].at =>
                           cmdQ'[list'[Len(list') + 1 - j]][t] = <<>>
                    /\ thr'[t].pc \in {"do", "back"} /\ thr'[t].end => thr'[t].busy
                    /\ thr'[t].pc = "over" => thr'[t].end /\ \A p \in Procs : cmdQ'[p][t] = <<>>
  BY DEF LastPass
<1>2. /\ thr[t] \in ThrRec /\ thr'[t] \in ThrRec /\ Len(list) \in Nat /\ list \in Seq(Procs)
      /\ thr[t].end => ~run
      /\ thr[t].pc = "pass" /\ thr[t].end /\ ~thr[t].busy =>
           \A j \in 1 .. Len(list) : j > thr[t].at => cmdQ[list[Len(list) + 1 - j]][t] = <<>>
      /\ thr[t].pc \in {"do", "back"} /\ thr[t].end => thr[t].busy
      /\ thr[t].pc = "over" => thr[t].end /\ \A p \in Procs : cmdQ[p][t] = <<>>
  BY <1>0, LenProperties DEF LastPass, Types
<1>3. \A j \in 1 .. Len(list) :
        list[Len(list) + 1 - j] \in Procs /\ Len(list) + 1 - j \in 1 .. Len(list)
  <2>1. \A j \in 1 .. Len(list) : Len(list) + 1 - j \in 1 .. Len(list)
    BY <1>2
  <2> QED BY <1>2, <2>1, ElementOfSeq
<1>4. ASSUME ~run, ~ Pop(t), NEW p \in Procs, cmdQ[p][t] = <<>> PROVE cmdQ'[p][t] = <<>>
  <2>1. CASE cmdQ' = cmdQ
    BY <1>4, <2>1
  <2>2. ASSUME NEW q \in Procs, NEW u \in Threads, NEW k \in Cmds, Gives(q, u, k) PROVE FALSE
    BY <1>4, <2>2, GivesEffect
  <2>3. ASSUME NEW u \in Threads, Pop(u) PROVE cmdQ'[p][t] = <<>>
    <3>1. u # t
      BY <1>4, <2>3
    <3>2. cmdQ'[p][t] = cmdQ[p][t]
      BY <1>0, <2>3, <3>1, PopEffect
    <3> QED BY <1>4, <3>2
  <2>4. CASE Joined
    BY <2>4 DEF Joined
  <2> QED BY <2>1, <2>2, <2>3, <2>4, QueueNext
<1>5. CASE Pop(t)
  <2>1. /\ thr'[t].pc = "do" /\ thr'[t].end = thr[t].end /\ thr'[t].busy = thr[t].end
    BY <1>0, <1>5, PopEffect
  <2> QED BY <1>1, <1>2, <2>1
<1>6. CASE Do(t)
  <2>1. /\ thr'[t].pc = "back" /\ thr'[t].end = thr[t].end /\ thr'[t].busy = thr[t].busy
        /\ thr[t].pc = "do"
    BY <1>0, <1>6 DEF Do, Visits, Types, ThrRec
  <2> QED BY <1>1, <1>2, <2>1
<1>7. CASE thr'[t] = thr[t] /\ ~ Pop(t)
  <2>1. thr'[t].end => ~run'
    BY <1>1, <1>2, <1>7
  <2>2. ASSUME thr'[t].pc = "pass", thr'[t].end, ~thr'[t].busy, NEW j \in 1 .. Len(list'),
               j > thr'[t].at
        PROVE  cmdQ'[list'[Len(list') + 1 - j]][t] = <<>>
    <3>1. ~run /\ list' = list
      BY <1>1, <1>2, <1>7, <2>2
    <3>2. cmdQ[list[Len(list) + 1 - j]][t] = <<>>
      BY <1>2, <1>7, <2>2, <3>1
    <3>3. list[Len(list) + 1 - j] \in Procs
      BY <1>3, <2>2, <3>1
    <3> QED BY <1>4, <1>7, <3>1, <3>2, <3>3
  <2>3. ASSUME thr'[t].pc = "over", NEW p \in Procs PROVE cmdQ'[p][t] = <<>>
    BY <1>2, <1>4, <1>7, <2>3
  <2> QED BY <1>2, <1>7, <2>1, <2>2, <2>3
<1>8. CASE (PopNone(t) \/ GiveBack(t)) /\ Goes(thr[t], thr'[t])
  <2>1. run' = run /\ list' = list /\ cmdQ' = cmdQ
    BY <1>8 DEF PopNone, GiveBack
  <2>2. \/ PopNone(t) /\ thr[t].pc = "pass" /\ cmdQ[At(t)][t] = <<>>
        \/ thr[t].pc = "back"
    BY <1>8 DEF PopNone, GiveBack, Visits
  <2>3. thr[t].at \in 1 .. Len(list)
    BY <1>0 DEF Listed
  <2>4. thr'[t].end => ~run'
    BY <1>2, <1>8, <2>1 DEF Goes
  <2>5. ASSUME thr[t].end, ~thr[t].busy, NEW j \in 1 .. Len(list), j >= thr[t].at
        PROVE  cmdQ[list[Len(list) + 1 - j]][t] = <<>>
    <3>1. thr[t].pc = "pass" /\ cmdQ[At(t)][t] = <<>>
      BY <1>2, <2>2, <2>5
    <3>2. CASE j = thr[t].at
      BY <3>1, <3>2 DEF At
    <3>3. CASE j > thr[t].at
      BY <1>2, <2>5, <3>1, <3>3
    <3> QED BY <2>3, <2>5, <3>2, <3>3
  <2>6. ASSUME thr'[t].pc = "pass", thr'[t].end, ~thr'[t].busy, NEW j \in 1 .. Len(list),
               j > thr'[t].at
        PROVE  cmdQ[list[Len(list) + 1 - j]][t] = <<>>
    <3>1. thr'[t].at # Len(list)
      BY <1>2, <2>6
    <3>2. thr'[t].at = thr[t].at - 1 /\ thr'[t].end = thr[t].end /\ thr'[t].busy = thr[t].busy
      BY <1>8, <3>1 DEF Goes
    <3>3. j >= thr[t].at
      BY <2>3, <2>6, <3>2
    <3> QED BY <2>5, <2>6, <3>2, <3>3
  <2>7. ASSUME thr'[t].pc = "over" PROVE thr'[t].end /\ \A p \in Procs : cmdQ[p][t] = <<>>
    <3>1. thr[t].at = 1 /\ thr[t].end /\ ~thr[t].busy /\ thr'[t].end
      BY <1>8, <2>7 DEF Goes
    <3>2. ASSUME NEW p \in Registered PROVE cmdQ[p][t] = <<>>
      <4>1. PICK i \in 1 .. Len(list) : p = list[i]
        BY <3>2 DEF Registered
      <4> DEFINE j == Len(list) + 1 - i
      <4>2. j \in 1 .. Len(list) /\ j >= 1 /\ Len(list) + 1 - j = i
        BY <1>2, <4>1
      <4> HIDE DEF j
      <4>3. cmdQ[list[Len(list) + 1 - j]][t] = <<>>
        BY <2>5, <3>1, <4>2
      <4> QED BY <4>1, <4>2, <4>3
    <3> QED BY <1>0, <3>1, <3>2 DEF Listed
  <2>8. thr'[t].pc \in {"pass", "over"}
    BY <1>8 DEF Goes
  <2> QED BY <2>1, <2>4, <2>6, <2>7, <2>8
<1> QED BY <1>5, <1>6, <1>7, <1>8, ThrNext

LEMMA PrintKept ==
  ASSUME IInv, Next, NEW t \in Threads, Over(t)
  PROVE  print'[t] = print[t] \/ (PrintLine /\ pr.at = t)
<1>0. Types
  BY DEF IInv
<1>1. ASSUME NEW p \in Procs, Register(p) \/ Exit(p) \/ Calls(p) PROVE print' = print
  BY <1>1 DEF Register, Exit, Calls, Push, PushFull, Count
<1>2. ASSUME NEW p \in Procs, NEW l \in Loggers, NEW o \in Options[l], Post(p, l, o)
      PROVE  print' = print
  BY <1>2 DEF Post
<1>3. ASSUME NEW l \in Loggers, Destroy(l) PROVE print' = print
  BY <1>3 DEF Destroy
<1>4. ASSUME NEW u \in Threads, Pop(u) \/ PopNone(u) \/ GiveBack(u) PROVE print' = print
  BY <1>4 DEF Pop, PopNone, GiveBack
<1>5. ASSUME NEW u \in Threads, Do(u) PROVE print'[t] = print[t]
  <2>0. thr[u].pc \in {"do", "back"} /\ u # t
    BY <1>5 DEF Do, Visits, Over
  <2> PICK p \in Procs : p = At(u)
    BY <1>0, AtIn DEF IInv
  <2> PICK k \in Cmds : k = thr[u].cmd
    BY <2>0, InUseRec
  <2> PICK l \in Loggers : l = cmd[k].logger
    BY <2>0, InUseRec
  <2> QED BY <1>5, <2>0, DoEffect
<1>6. CASE PrintLine
  <2>1. pr.at # t => print'[t] = print[t]
    BY <1>0, <1>6 DEF PrintLine, Types
  <2> QED BY <1>6, <2>1
<1>7. CASE PrintWait \/ Stop \/ MainDoes
  BY <1>7 DEF PrintWait, Stop, MainDoes, Acked, Close, Joined
<1> QED BY <1>1, <1>2, <1>3, <1>4, <1>5, <1>6, <1>7 DEF Next, LogThread, PrintThread

LEMMA PrNext ==
  ASSUME Next
  PROVE  pr' = pr \/ PrintLine \/ PrintWait
<1>1. ASSUME NEW p \in Procs, Register(p) \/ Exit(p) \/ Calls(p) PROVE pr' = pr
  BY <1>1 DEF Register, Exit, Calls, Push, PushFull, Count
<1>2. ASSUME NEW p \in Procs, NEW l \in Loggers, NEW o \in Options[l], Post(p, l, o)
      PROVE  pr' = pr
  BY <1>2 DEF Post
<1>3. ASSUME NEW l \in Loggers, Destroy(l) PROVE pr' = pr
  BY <1>3 DEF Destroy
<1>4. ASSUME NEW t \in Threads, LogThread(t) PROVE pr' = pr
  BY <1>4 DEF LogThread, Pop, PopNone, Do, GiveBack
<1>5. CASE Stop \/ MainDoes
  BY <1>5 DEF Stop, MainDoes, Acked, Close, Joined
<1> QED BY <1>1, <1>2, <1>3, <1>4, <1>5 DEF Next, PrintThread

(* The print thread after it has looked at one thread, and after it has    *)
(* seen whether one is over.                                               *)
LEMMA LineEffect ==
  ASSUME Types, PrintLine
  PROVE  /\ pr.at \in Threads /\ pr.pc \in {"run", "end"} /\ print[pr.at] \in Nat
         /\ \/ /\ pr.at < N /\ pr'.pc = pr.pc /\ pr'.at = pr.at + 1
               /\ pr'.any <=> pr.any \/ (pr.pc = "end" /\ print[pr.at] > 0)
            \/ pr'.pc = pr.pc /\ pr'.at = 1
            \/ pr.pc = "run" /\ pr'.pc = "wait" /\ pr'.at = 1
            \/ /\ pr.pc = "end" /\ pr.at = N /\ pr'.pc = "over"
               /\ ~ (pr.any \/ (pr.pc = "end" /\ print[pr.at] > 0))
         /\ print[pr.at] = 0 => print'[pr.at] = 0
<1> DEFINE any == pr.any \/ (pr.pc = "end" /\ print[pr.at] > 0)
           pass == [pc |-> pr.pc, at |-> 1, any |-> FALSE]
<1>1. pr.at \in Threads /\ pr \in PrRec /\ print[pr.at] \in Nat /\ pr.pc \in {"run", "end"}
  BY DEF Types, PrRec, PrintLine
<1>2. print[pr.at] = 0 => print'[pr.at] = 0
  BY <1>1 DEF PrintLine, Types
<1>3. CASE pr.at < N
  <2>1. pr' = [pr EXCEPT !.at = pr.at + 1, !.any = any]
    BY <1>1, <1>3, Consts DEF PrintLine
  <2> DEFINE i == pr.at + 1
  <2> HIDE DEF any, i
  <2>2. pr'.pc = pr.pc /\ pr'.at = i /\ pr'.any = any
    BY <1>1, <2>1 DEF PrRec, i
  <2> QED BY <1>1, <1>2, <1>3, <2>2 DEF any, i
<1>4. CASE pr.at = N
  <2>1. ~ (pr.at < N)
    BY <1>4, Consts
  <2>2. CASE pr.pc = "run"
    <3>1. pr' = pass \/ pr' = [pass EXCEPT !.pc = "wait"]
      BY <1>4, <2>1, <2>2 DEF PrintLine
    <3> QED BY <1>1, <1>2, <2>2, <3>1
  <2>3. CASE pr.pc = "end"
    <3>1. \/ pr' = pass
          \/ pr' = [pass EXCEPT !.pc = "over"] /\ ~any
      BY <1>4, <2>1, <2>3 DEF PrintLine
    <3> QED BY <1>1, <1>2, <1>4, <2>3, <3>1
  <2> QED BY <1>1, <2>2, <2>3
<1> QED BY <1>1, <1>3, <1>4, Consts

LEMMA WaitEffect ==
  ASSUME Types, PrintWait
  PROVE  /\ pr.at \in Threads /\ pr.pc = "wait"
         /\ \/ pr'.pc = "wait" /\ pr'.at = 1
            \/ pr'.pc = "wait" /\ pr.at < N /\ pr'.at = pr.at + 1 /\ Over(pr.at)
            \/ pr'.pc = "end" /\ pr'.at = 1 /\ pr.at = N /\ Over(pr.at)
<1>1. pr.at \in Threads /\ pr \in PrRec /\ pr.pc = "wait"
  BY DEF Types, PrRec, PrintWait
<1>2. pr.at < N \/ (pr.at = N /\ ~ (pr.at < N))
  BY <1>1, Consts
<1>3. CASE thr[pr.at].pc # "over"
  <2>1. pr' = [pr EXCEPT !.at = 1]
    BY <1>3 DEF PrintWait
  <2>2. pr'.pc = "wait" /\ pr'.at = 1
    BY <1>1, <2>1 DEF PrRec
  <2> QED BY <1>1, <2>2
<1>4. CASE thr[pr.at].pc = "over" /\ pr.at < N
  <2> DEFINE i == pr.at + 1
  <2>1. pr' = [pr EXCEPT !.at = i]
    BY <1>4, Consts DEF PrintWait
  <2> HIDE DEF i
  <2>2. pr'.pc = "wait" /\ pr'.at = i
    BY <1>1, <2>1 DEF PrRec
  <2> QED BY <1>1, <1>4, <2>2 DEF i, Over
<1>5. CASE thr[pr.at].pc = "over" /\ pr.at = N /\ ~ (pr.at < N)
  <2>1. pr' = [pr EXCEPT !.at = 1, !.pc = "end"]
    BY <1>5 DEF PrintWait
  <2>2. pr'.pc = "end" /\ pr'.at = 1
    BY <1>1, <2>1 DEF PrRec
  <2> QED BY <1>1, <1>5, <2>2 DEF Over
<1> QED BY <1>2, <1>3, <1>4, <1>5

LEMMA PrintedNext ==
  ASSUME IInv, Next
  PROVE  Printed'
<1>0. Types /\ Types' /\ Printed /\ pr.at \in Threads /\ pr'.at \in Threads
  BY TypesNext DEF IInv, Types, PrRec
<1>c. N \in Nat \ {0} /\ Threads = 1 .. N
  BY Consts
<1>1. \A t \in Threads : Over(t) => Over(t)'
  BY OverStays
<1>2. CASE pr' = pr /\ ~ PrintLine
  <2>1. \A t \in 1 .. pr.at - 1 : t \in Threads
    BY <1>0, <1>c
  <2>2. pr.pc = "wait" => \A t \in 1 .. pr.at - 1 : Over(t)'
    BY <1>0, <1>1, <2>1 DEF Printed
  <2>3. pr.pc \in {"end", "over"} =>
          \A t \in Threads : Over(t) /\ Over(t)' /\ print'[t] = print[t]
    BY <1>0, <1>1, <1>2, PrintKept DEF Printed
  <2>4. pr.pc = "end" /\ ~pr.any => \A t \in 1 .. pr.at - 1 : print'[t] = 0
    BY <1>0, <2>1, <2>3 DEF Printed
  <2>5. pr.pc = "over" => \A t \in Threads : print'[t] = 0
    BY <1>0, <2>3 DEF Printed
  <2> QED BY <1>2, <2>2, <2>3, <2>4, <2>5 DEF Printed, Over
<1>3. CASE PrintLine
  <2>0. /\ pr.pc \in {"run", "end"} /\ print[pr.at] \in Nat
        /\ \/ /\ pr.at < N /\ pr'.pc = pr.pc /\ pr'.at = pr.at + 1
              /\ pr'.any <=> pr.any \/ (pr.pc = "end" /\ print[pr.at] > 0)
           \/ pr'.pc = pr.pc /\ pr'.at = 1
           \/ pr.pc = "run" /\ pr'.pc = "wait" /\ pr'.at = 1
           \/ /\ pr.pc = "end" /\ pr.at = N /\ pr'.pc = "over"
              /\ ~ (pr.any \/ (pr.pc = "end" /\ print[pr.at] > 0))
        /\ print[pr.at] = 0 => print'[pr.at] = 0
    BY <1>0, <1>3, LineEffect
  <2>1. pr'.pc = "wait" => pr'.at = 1
    BY <2>0
  <2>2. pr'.pc \in {"end", "over"} => pr.pc = "end"
    BY <2>0
  <2>3. pr'.pc \in {"end", "over"} =>
          \A t \in Threads : Over(t) /\ Over(t)' /\ (t = pr.at \/ print'[t] = print[t])
    BY <1>0, <1>1, <2>2, PrintKept DEF Printed
  <2>4. ASSUME pr'.pc = "end", ~pr'.any, NEW t \in 1 .. pr'.at - 1 PROVE print'[t] = 0
    <3>1. pr'.at # 1
      BY <1>0, <1>c, <2>4
    <3>2. /\ pr'.at = pr.at + 1 /\ ~pr.any /\ ~ (print[pr.at] > 0) /\ pr.pc = "end"
      BY <2>0, <2>4, <3>1
    <3>3. print'[pr.at] = 0
      BY <2>0, <3>2
    <3>4. t = pr.at \/ t \in 1 .. pr.at - 1
      BY <1>0, <1>c, <2>4, <3>2
    <3>5. t \in Threads
      BY <1>0, <1>c, <3>4
    <3>6. t # pr.at => print[t] = 0
      BY <1>0, <3>2, <3>4 DEF Printed
    <3> QED BY <2>3, <2>4, <3>3, <3>5, <3>6
  <2>5. ASSUME pr'.pc = "over", NEW t \in Threads PROVE print'[t] = 0
    <3>1. pr.at = N /\ ~pr.any /\ ~ (print[pr.at] > 0) /\ pr.pc = "end"
      BY <2>0, <2>5
    <3>2. print'[pr.at] = 0
      BY <2>0, <3>1
    <3>3. t # pr.at => t \in 1 .. pr.at - 1
      BY <1>c, <3>1
    <3>4. t # pr.at => print[t] = 0
      BY <1>0, <3>1, <3>3 DEF Printed
    <3> QED BY <2>3, <2>5, <3>2, <3>4
  <2>6. 1 .. 1 - 1 = {}
    OBVIOUS
  <2> QED BY <2>1, <2>3, <2>4, <2>5, <2>6 DEF Printed, Over
<1>4. CASE PrintWait
  <2>0. /\ pr.pc = "wait"
        /\ \/ pr'.pc = "wait" /\ pr'.at = 1
           \/ pr'.pc = "wait" /\ pr.at < N /\ pr'.at = pr.at + 1 /\ Over(pr.at)
           \/ pr'.pc = "end" /\ pr'.at = 1 /\ pr.at = N /\ Over(pr.at)
    BY <1>0, <1>4, WaitEffect
  <2>1. \A t \in 1 .. pr.at - 1 : t \in Threads /\ Over(t) /\ Over(t)'
    <3>1. \A t \in 1 .. pr.at - 1 : t \in Threads
      BY <1>0, <1>c
    <3> QED BY <1>0, <1>1, <2>0, <3>1 DEF Printed
  <2>2. ASSUME pr'.pc = "wait", NEW t \in 1 .. pr'.at - 1 PROVE Over(t)'
    <3>1. pr'.at = pr.at + 1 /\ Over(pr.at)
      <4>1. pr'.at # 1
        BY <1>0, <1>c, <2>2
      <4> QED BY <2>0, <2>2, <4>1
    <3>2. t = pr.at \/ t \in 1 .. pr.at - 1
      BY <1>0, <1>c, <2>2, <3>1
    <3> QED BY <1>0, <1>1, <2>1, <3>1, <3>2
  <2>3. ASSUME pr'.pc = "end", NEW t \in Threads PROVE Over(t)'
    <3>1. pr.at = N /\ Over(pr.at)
      BY <2>0, <2>3
    <3>2. t = pr.at \/ t \in 1 .. pr.at - 1
      BY <1>c, <3>1
    <3> QED BY <1>0, <1>1, <2>1, <3>1, <3>2
  <2>4. pr'.pc # "over" /\ (pr'.pc = "end" => pr'.at = 1)
    BY <2>0
  <2>5. 1 .. 1 - 1 = {}
    OBVIOUS
  <2> QED BY <2>2, <2>3, <2>4, <2>5 DEF Printed, Over
<1> QED BY <1>2, <1>3, <1>4, PrNext

-----------------------------------------------------------------------------
(***************************************************************************)
(* Where a log_cmd is.                                                     *)
(***************************************************************************)
LEMMA Apart ==
  ASSUME IInv, NEW k \in Cmds
  PROVE  /\ \A p \in Procs : InHand(k, p) =>
              /\ ~InMain(k) /\ \A q \in Procs : InHand(k, q) => q = p
              /\ \A q \in Procs, u \in Threads :
                   ~InWork(k, u) /\ ~InQue(k, q, u) /\ ~InBack(k, q, u)
         /\ InMain(k) => \A q \in Procs, u \in Threads :
              ~InWork(k, u) /\ ~InQue(k, q, u) /\ ~InBack(k, q, u)
         /\ \A t \in Threads : InWork(k, t) => \A q \in Procs, u \in Threads :
              ~InQue(k, q, u) /\ ~InBack(k, q, u) /\ (InWork(k, u) => u = t)
         /\ \A p \in Procs, t \in Threads : InQue(k, p, t) => \A q \in Procs, u \in Threads :
              ~InBack(k, q, u) /\ (InQue(k, q, u) => q = p /\ u = t)
         /\ \A p \in Procs, t \in Threads : InBack(k, p, t) => \A q \in Procs, u \in Threads :
              InBack(k, q, u) => q = p /\ u = t
<1>1. \A c, d \in Kinds, p, q \in Procs, t, u \in Threads :
        In(k, c, p, t) /\ In(k, d, q, u) => c = d /\ p = q /\ t = u
  BY DEF IInv, Alone, OnePlace
<1>2. Main \in Procs /\ 1 \in Threads
  BY Consts
<1>3. /\ "hand" \in Kinds /\ "main" \in Kinds /\ "work" \in Kinds /\ "que" \in Kinds
      /\ "back" \in Kinds
      /\ "hand" # "main" /\ "hand" # "work" /\ "hand" # "que" /\ "hand" # "back"
      /\ "main" # "work" /\ "main" # "que" /\ "main" # "back"
      /\ "work" # "que" /\ "work" # "back" /\ "que" # "back"
  BY DEF Kinds
<1>4. /\ \A p \in Procs : InHand(k, p) => In(k, "hand", p, 1)
      /\ InMain(k) => In(k, "main", Main, 1)
      /\ \A t \in Threads : InWork(k, t) => In(k, "work", Main, t)
      /\ \A p \in Procs, t \in Threads : InQue(k, p, t) => In(k, "que", p, t)
      /\ \A p \in Procs, t \in Threads : InBack(k, p, t) => In(k, "back", p, t)
  BY DEF In
<1>5. ASSUME NEW p \in Procs, InHand(k, p)
      PROVE  /\ ~InMain(k) /\ \A q \in Procs : InHand(k, q) => q = p
             /\ \A q \in Procs, u \in Threads :
                  ~InWork(k, u) /\ ~InQue(k, q, u) /\ ~InBack(k, q, u)
  <2>1. In(k, "hand", p, 1)
    BY <1>4, <1>5
  <2>2. \A d \in Kinds, r \in Procs, v \in Threads :
          In(k, d, r, v) => d = "hand" /\ r = p /\ v = 1
    BY <1>1, <1>2, <1>3, <2>1
  <2> QED BY <1>2, <1>3, <1>4, <1>5, <2>2
<1>6. ASSUME InMain(k), NEW q \in Procs, NEW u \in Threads
      PROVE  ~InWork(k, u) /\ ~InQue(k, q, u) /\ ~InBack(k, q, u)
  <2>1. In(k, "main", Main, 1)
    BY <1>4, <1>6
  <2>2. \A d \in Kinds, r \in Procs, v \in Threads :
          In(k, d, r, v) => d = "main" /\ r = Main /\ v = 1
    BY <1>1, <1>2, <1>3, <2>1
  <2> QED BY <1>2, <1>3, <1>4, <1>6, <2>2
<1>7. ASSUME NEW t \in Threads, InWork(k, t), NEW q \in Procs, NEW u \in Threads
      PROVE  ~InQue(k, q, u) /\ ~InBack(k, q, u) /\ (InWork(k, u) => u = t)
  <2>1. In(k, "work", Main, t)
    BY <1>4, <1>7
  <2>2. \A d \in Kinds, r \in Procs, v \in Threads :
          In(k, d, r, v) => d = "work" /\ r = Main /\ v = t
    BY <1>1, <1>2, <1>3, <2>1
  <2> QED BY <1>2, <1>3, <1>4, <1>7, <2>2
<1>8. ASSUME NEW p \in Procs, NEW t \in Threads, InQue(k, p, t), NEW q \in Procs, NEW u \in Threads
      PROVE  ~InBack(k, q, u) /\ (InQue(k, q, u) => q = p /\ u = t)
  <2>1. In(k, "que", p, t)
    BY <1>4, <1>8
  <2>2. \A d \in Kinds, r \in Procs, v \in Threads :
          In(k, d, r, v) => d = "que" /\ r = p /\ v = t
    BY <1>1, <1>2, <1>3, <2>1
  <2> QED BY <1>2, <1>3, <1>4, <1>8, <2>2
<1>9. ASSUME NEW p \in Procs, NEW t \in Threads, InBack(k, p, t), NEW q \in Procs, NEW u \in Threads,
             InBack(k, q, u)
      PROVE  q = p /\ u = t
  <2>1. In(k, "back", p, t)
    BY <1>4, <1>9
  <2>2. \A d \in Kinds, r \in Procs, v \in Threads :
          In(k, d, r, v) => d = "back" /\ r = p /\ v = t
    BY <1>1, <1>2, <1>3, <2>1
  <2> QED BY <1>2, <1>3, <1>4, <1>9, <2>2
<1> QED BY <1>5, <1>6, <1>7, <1>8, <1>9

LEMMA InUsed ==
  ASSUME IInv, NEW k \in Cmds, cmd[k] = Unused
  PROVE  /\ ~InMain(k) /\ \A p \in Procs : ~InHand(k, p)
         /\ \A p \in Procs, t \in Threads :
              ~InWork(k, t) /\ ~InQue(k, p, t) /\ ~InBack(k, p, t)
<1>1. \A c \in Kinds, p \in Procs, t \in Threads : ~ In(k, c, p, t)
  BY DEF IInv, Alone, Used
<1>2. Main \in Procs /\ 1 \in Threads
  BY Consts
<1> QED BY <1>1, <1>2 DEF In, Kinds

(* Nothing more than it was: k stays where it is, or is in no place.       *)
Stays(k) ==
  /\ \A p \in Procs : InHand(k, p)' => InHand(k, p)
  /\ InMain(k)' => InMain(k)
  /\ \A t \in Threads : InWork(k, t)' => InWork(k, t)
  /\ \A p \in Procs, t \in Threads : InQue(k, p, t)' => InQue(k, p, t)
  /\ \A p \in Procs, t \in Threads : InBack(k, p, t)' => InBack(k, p, t)
Settled(k) == OnePlace(k)' /\ Used(k)'

LEMMA StaysSettled ==
  ASSUME IInv, NEW k \in Cmds, Stays(k),
         cmd'[k] # Unused \/ cmd'[k] = cmd[k]
  PROVE  Settled(k)
<1>1. \A c \in Kinds, p \in Procs, t \in Threads : In(k, c, p, t)' => In(k, c, p, t)
  BY Consts DEF Stays, In
<1>2. OnePlace(k) /\ Used(k)
  BY DEF IInv, Alone
<1>3. OnePlace(k)'
  BY <1>1, <1>2 DEF OnePlace
<1>4. Used(k)'
  BY <1>1, <1>2 DEF Used
<1> QED BY <1>3, <1>4 DEF Settled

LEMMA OnlySettled ==
  ASSUME NEW k, cmd'[k] # Unused, NEW d, NEW q, NEW u,
         \A c \in Kinds, p \in Procs, t \in Threads : In(k, c, p, t)' => c = d /\ p = q /\ t = u
  PROVE  Settled(k)
<1>1. OnePlace(k)'
  BY DEF OnePlace
<1>2. Used(k)'
  BY DEF Used
<1> QED BY <1>1, <1>2 DEF Settled

LEMMA NowhereSettled ==
  ASSUME NEW k, ~InMain(k)', \A p \in Procs : ~InHand(k, p)',
         \A p \in Procs, t \in Threads : ~InWork(k, t)' /\ ~InQue(k, p, t)' /\ ~InBack(k, p, t)'
  PROVE  Settled(k)
<1>1. \A c \in Kinds, p \in Procs, t \in Threads : ~ In(k, c, p, t)'
  BY Consts DEF In
<1>2. OnePlace(k)'
  BY <1>1 DEF OnePlace
<1>3. Used(k)'
  BY <1>1 DEF Used
<1> QED BY <1>2, <1>3 DEF Settled

(* k was at most among what comes back, and is taken from there.           *)
Loose(k) ==
  /\ ~InMain(k) /\ \A p \in Procs : ~InHand(k, p)
  /\ \A p \in Procs, t \in Threads : ~InWork(k, t) /\ ~InQue(k, p, t) /\ ~InBack(k, p, t)'

LEMMA TakeBackPlaces ==
  ASSUME IInv, NEW p \in Procs, TakeBack(p), rcyCache' = rcyCache
  PROVE  /\ \A k \in Cmds, q \in Procs, u \in Threads : InBack(k, q, u)' => InBack(k, q, u)
         /\ \A k \in Came(p) : Loose(k)
         /\ \A q \in Procs, u \in Threads : Once(Lane(q, u)')
<1>0. RingTypes
  BY DEF IInv, Types
<1>1. /\ \A u \in Threads : Lane(p, u)' = rcyCache[p][u]
      /\ \A q \in Procs, u \in Threads : q # p => Lane(q, u)' = Lane(q, u)
  BY <1>0, TakeBackEffect
<1>2. ASSUME NEW u \in Threads
      PROVE  /\ Elems(Lane(p, u)) = Elems(rcyQ[p][u]) \cup Elems(rcyCache[p][u])
             /\ Once(rcyCache[p][u]) /\ Elems(rcyQ[p][u]) \cap Elems(rcyCache[p][u]) = {}
             /\ Elems(rcyQ[p][u]) \subseteq Cmds
  <2>1. rcyQ[p][u] \in Seq(Cmds) /\ rcyCache[p][u] \in Seq(Cmds)
    BY <1>0, QueuesAt
  <2>2. Once(Cat(rcyQ[p][u], rcyCache[p][u]))
    BY DEF IInv, Alone, Lane
  <2>3. Elems(rcyQ[p][u]) \subseteq Cmds
    BY <2>1, Domain
  <2> QED BY <2>1, <2>2, <2>3, ElemsCat DEF Lane
<1>3. ASSUME NEW q \in Procs, NEW u \in Threads
      PROVE  Elems(Lane(q, u)') \subseteq Elems(Lane(q, u)) /\ Once(Lane(q, u)')
  <2>1. CASE q = p
    BY <1>1, <1>2, <2>1
  <2>2. CASE q # p
    BY <1>1, <2>2 DEF IInv, Alone
  <2> QED BY <2>1, <2>2
<1>4. \A k \in Cmds, q \in Procs, u \in Threads : InBack(k, q, u)' => InBack(k, q, u)
  <2>1. \A k, q, u : InBack(k, q, u)' <=> k \in Elems(Lane(q, u)')
    BY DEF InBack, Elems
  <2> QED BY <1>3, <2>1 DEF InBack
<1>5. ASSUME NEW k \in Came(p) PROVE Loose(k)
  <2>1. PICK t \in Threads : k \in Elems(rcyQ[p][t])
    BY <1>5 DEF Came
  <2>2. k \in Cmds /\ InBack(k, p, t)
    BY <1>2, <2>1 DEF InBack
  <2>3. /\ ~InMain(k) /\ \A q \in Procs : ~InHand(k, q)
        /\ \A q \in Procs, u \in Threads :
             ~InWork(k, u) /\ ~InQue(k, q, u) /\ (InBack(k, q, u) => q = p /\ u = t)
    BY <2>2, Apart
  <2>4. ~InBack(k, p, t)'
    <3>1. k \notin Elems(Lane(p, t)')
      BY <1>1, <1>2, <2>1
    <3> QED BY <3>1 DEF InBack, Elems
  <2>5. \A q \in Procs, u \in Threads : ~InBack(k, q, u)'
    BY <1>4, <2>2, <2>3, <2>4
  <2> QED BY <2>3, <2>5 DEF Loose
<1> QED BY <1>3, <1>4, <1>5

LEMMA GetPlaces ==
  ASSUME IInv, NEW p \in Procs, NEW o \in Known \cup {"close"}, NEW l \in Loggers,
         GetCmd(p, o, l), rcyCache' = rcyCache
  PROVE  /\ \A k \in Cmds, q \in Procs, u \in Threads : InBack(k, q, u)' => InBack(k, q, u)
         /\ \A k \in Cmds : k = Got(p) \/ cmd'[k] = cmd[k] \/ Loose(k)
         /\ Got(p) \in Cmds /\ Loose(Got(p)) /\ cmd'[Got(p)] # Unused
         /\ cmd'[Got(p)] = [option |-> o, logger |-> l, no |-> NextNo(p, l)]
         /\ \A q \in Procs, u \in Threads : Once(Lane(q, u)')
<1>1. /\ Got(p) \in Cmds /\ (Got(p) \in Came(p) \/ cmd[Got(p)] = Unused)
      /\ TakeBack(p)
      /\ cmd'[Got(p)] = [option |-> o, logger |-> l, no |-> NextNo(p, l)]
      /\ \A k \in Cmds \ {Got(p)} : /\ k \in Came(p) => cmd'[k] = Unused
                                    /\ k \notin Came(p) => cmd'[k] = cmd[k]
  BY GetEffect DEF IInv, Types
<1>2. /\ \A k \in Cmds, q \in Procs, u \in Threads : InBack(k, q, u)' => InBack(k, q, u)
      /\ \A k \in Came(p) : Loose(k)
      /\ \A q \in Procs, u \in Threads : Once(Lane(q, u)')
  BY <1>1, TakeBackPlaces
<1>3. Loose(Got(p))
  <2>1. CASE Got(p) \in Came(p)
    BY <1>2, <2>1
  <2>2. CASE cmd[Got(p)] = Unused
    <3> PICK k \in Cmds : k = Got(p)
      BY <1>1
    <3>1. /\ ~InMain(k) /\ \A q \in Procs : ~InHand(k, q)
          /\ \A q \in Procs, t \in Threads :
               ~InWork(k, t) /\ ~InQue(k, q, t) /\ ~InBack(k, q, t)
      BY <2>2, InUsed
    <3>2. Loose(k)
      BY <1>2, <3>1 DEF Loose
    <3> QED BY <3>2
  <2> QED BY <1>1, <2>1, <2>2
<1>4. cmd'[Got(p)] # Unused
  <2>1. cmd'[Got(p)].option = o /\ Unused.option = "unused" /\ o # "unused"
    BY <1>1 DEF Unused, Known
  <2> QED BY <2>1
<1> QED BY <1>1, <1>2, <1>3, <1>4

LEMMA FreePlaces ==
  ASSUME IInv, NEW p \in Procs, FreeBack(p), rcyCache' = rcyCache
  PROVE  /\ \A k \in Cmds, q \in Procs, u \in Threads : InBack(k, q, u)' => InBack(k, q, u)
         /\ \A k \in Cmds : cmd'[k] = cmd[k] \/ Loose(k)
         /\ \A q \in Procs, u \in Threads : Once(Lane(q, u)')
<1>1. /\ TakeBack(p) /\ \A k \in Cmds : k \notin Came(p) => cmd'[k] = cmd[k]
  BY DeleteEffect DEF FreeBack, IInv, Types
<1> QED BY <1>1, TakeBackPlaces

LEMMA SameAlone ==
  ASSUME IInv, UNCHANGED <<cmdQ, rcyQ, rcyCache, cmd>>,
         \A k \in Cmds : /\ \A p \in Procs : InHand(k, p)' => InHand(k, p)
                         /\ InMain(k)' => InMain(k)
                         /\ \A t \in Threads : InWork(k, t)' => InWork(k, t)
  PROVE  Alone'
<1>1. /\ \A k, p, t : InQue(k, p, t)' <=> InQue(k, p, t)
      /\ \A k, p, t : InBack(k, p, t)' <=> InBack(k, p, t)
  BY DEF InQue, InBack, Elems, Lane, Cat
<1>2. ASSUME NEW k \in Cmds PROVE Settled(k)
  <2>1. Stays(k)
    BY <1>1 DEF Stays
  <2> QED BY <2>1, StaysSettled
<1>3. \A p \in Procs, t \in Threads : Once(cmdQ[p][t])' /\ Once(Lane(p, t))'
  <2>1. \A p \in Procs, t \in Threads : Once(cmdQ[p][t]) /\ Once(Lane(p, t))
    BY DEF IInv, Alone
  <2>2. \A p, t : /\ Once(cmdQ[p][t])' <=> Once(cmdQ[p][t])
                 /\ Once(Lane(p, t))' <=> Once(Lane(p, t))
    BY DEF Once, Lane, Cat
  <2> QED BY <2>1, <2>2
<1> QED BY <1>2, <1>3 DEF Alone, Settled

LEMMA StillAlone ==
  ASSUME IInv,
         \/ \E p \in Procs : Register(p) \/ Exit(p) \/ Count(p)
         \/ PrintThread \/ Acked \/ Stop
         \/ \E t \in Threads : Do(t)
  PROVE  Alone'
<1>0. Types
  BY DEF IInv
<1>1. ASSUME NEW p \in Procs, Register(p) PROVE Alone'
  <2>1. UNCHANGED <<cmdQ, rcyQ, rcyCache, cmd, post, main, thr>>
    BY <1>1 DEF Register, rings
  <2> QED BY <2>1, SameAlone DEF InHand, InMain, Closing, InWork
<1>2. ASSUME NEW p \in Procs, Exit(p) PROVE Alone'
  <2>1. UNCHANGED <<cmdQ, rcyQ, rcyCache, cmd, main, thr>>
    BY <1>2 DEF Exit, rings
  <2>2. post' = [post EXCEPT ![p].pc = "over"]
    BY <1>2 DEF Exit
  <2>3. post'[p].pc = "over" /\ \A q \in Procs \ {p} : post'[q] = post[q]
    BY <1>0, <2>2, PostSet
  <2>4. \A k \in Cmds, q \in Procs : InHand(k, q)' => InHand(k, q)
    BY <2>3 DEF InHand
  <2> QED BY <2>1, <2>4, SameAlone DEF InMain, Closing, InWork
<1>3. ASSUME NEW p \in Procs, Count(p) PROVE Alone'
  <2>1. UNCHANGED <<cmdQ, rcyQ, rcyCache, cmd, main, thr>>
    BY <1>3 DEF Count, rings
  <2>3. post'[p].pc = "idle" /\ \A q \in Procs \ {p} : post'[q] = post[q]
    BY <1>3, CountEffect, IdleRec
  <2>4. \A k \in Cmds, q \in Procs : InHand(k, q)' => InHand(k, q)
    BY <2>3 DEF InHand
  <2> QED BY <2>1, <2>4, SameAlone DEF InMain, Closing, InWork
<1>4. CASE PrintThread
  <2>1. UNCHANGED <<cmdQ, rcyQ, rcyCache, cmd, post, main, thr>>
    BY <1>4 DEF PrintThread, PrintLine, PrintWait, rings
  <2> QED BY <2>1, SameAlone DEF InHand, InMain, Closing, InWork
<1>5. CASE Acked
  <2>1. UNCHANGED <<cmdQ, rcyQ, rcyCache, cmd, post, thr>> /\ Closing
        /\ main' = [main EXCEPT !.pc = "close"]
    BY <1>5 DEF Acked, rings, Closing
  <2>2. main'.cmd = main.cmd
    BY <1>0, <2>1, MainSet
  <2> QED BY <2>1, <2>2, SameAlone DEF InHand, InMain, InWork
<1>6. CASE Stop
  <2>1. UNCHANGED <<cmdQ, rcyQ, rcyCache, cmd, post, thr>> /\ main' = [main EXCEPT !.pc = "join"]
    BY <1>6 DEF Stop, rings
  <2>2. main'.pc = "join"
    BY <1>0, <2>1, MainSet
  <2> QED BY <2>1, <2>2, SameAlone DEF InHand, InMain, Closing, InWork
<1>7. ASSUME NEW t \in Threads, Do(t) PROVE Alone'
  <2>1. UNCHANGED <<cmdQ, rcyQ, rcyCache, cmd, post, main>>
    BY <1>7 DEF Do, rings
  <2>2. PICK p \in Procs : p = At(t)
    BY AtIn DEF IInv
  <2>3. PICK k \in Cmds : k = thr[t].cmd
    BY <1>7, InUseRec DEF Do, Visits
  <2>4. PICK l \in Loggers : l = cmd[k].logger
    BY <1>7, <2>3, InUseRec DEF Do, Visits
  <2>5. thr[t].pc = "do" /\ thr'[t].cmd = k /\ \A u \in Threads \ {t} : thr'[u] = thr[u]
    BY <1>7, <2>2, <2>3, <2>4, DoEffect
  <2>6. \A j \in Cmds, u \in Threads : InWork(j, u)' => InWork(j, u)
    BY <2>3, <2>5 DEF InWork
  <2> QED BY <2>1, <2>6, SameAlone DEF InHand, InMain, Closing
<1> QED BY <1>1, <1>2, <1>3, <1>4, <1>5, <1>6, <1>7

LEMMA TakenAlone == \* who gets a command has it alone
  ASSUME IInv, UNCHANGED <<cmdQ, rcyCache, thr>>,
         NEW p \in Procs, NEW o \in Known \cup {"close"}, NEW l \in Loggers, GetCmd(p, o, l),
         NEW g \in Cmds, g = Got(p),
         \/ main' = main /\ InHand(g, p)' /\ \A q \in Procs \ {p} : post'[q] = post[q]
         \/ post' = post /\ main'.cmd = g
  PROVE  Alone'
<1>1. /\ \A k \in Cmds, q \in Procs, u \in Threads : InBack(k, q, u)' => InBack(k, q, u)
      /\ \A k \in Cmds : k = g \/ cmd'[k] = cmd[k] \/ Loose(k)
      /\ Loose(g) /\ cmd'[g] # Unused
      /\ \A q \in Procs, u \in Threads : Once(Lane(q, u)')
  BY GetPlaces
<1>2. \A k, q, u : (InQue(k, q, u)' <=> InQue(k, q, u)) /\ (InWork(k, u)' <=> InWork(k, u))
  BY DEF InQue, Elems, InWork
<1>3. \A k \in Cmds \ {g} : /\ \A q \in Procs : InHand(k, q)' => InHand(k, q)
                            /\ InMain(k)' => InMain(k)
  <2>1. CASE main' = main /\ InHand(g, p)' /\ \A q \in Procs \ {p} : post'[q] = post[q]
    BY <2>1 DEF InHand, InMain, Closing
  <2>2. CASE post' = post /\ main'.cmd = g
    BY <2>2 DEF InHand, InMain
  <2> QED BY <2>1, <2>2
<1>4. ASSUME NEW k \in Cmds \ {g} PROVE Settled(k)
  <2>1. Stays(k)
    BY <1>1, <1>2, <1>3 DEF Stays
  <2>2. CASE cmd'[k] = cmd[k]
    BY <2>1, <2>2, StaysSettled
  <2>3. CASE Loose(k)
    <3>1. /\ ~InMain(k)' /\ \A q \in Procs : ~InHand(k, q)'
          /\ \A q \in Procs, t \in Threads :
               ~InWork(k, t)' /\ ~InQue(k, q, t)' /\ ~InBack(k, q, t)'
      BY <1>2, <1>3, <2>3 DEF Loose
    <3> QED BY <3>1, NowhereSettled
  <2> QED BY <1>1, <2>2, <2>3
<1>5. Settled(g)
  <2>0. /\ ~InMain(g) /\ \A q \in Procs : ~InHand(g, q)
        /\ \A q \in Procs, t \in Threads :
             ~InWork(g, t)' /\ ~InQue(g, q, t)' /\ ~InBack(g, q, t)'
    BY <1>1, <1>2 DEF Loose
  <2>1. CASE main' = main /\ InHand(g, p)' /\ \A q \in Procs \ {p} : post'[q] = post[q]
    <3>1. ~InMain(g)' /\ \A q \in Procs \ {p} : ~InHand(g, q)'
      BY <2>0, <2>1 DEF InMain, Closing, InHand
    <3>2. \A c \in Kinds, q \in Procs, t \in Threads :
            In(g, c, q, t)' => c = "hand" /\ q = p /\ t = 1
      BY <2>0, <3>1, Consts DEF In
    <3> QED BY <1>1, <3>2, OnlySettled
  <2>2. CASE post' = post /\ main'.cmd = g
    <3>1. \A q \in Procs : ~InHand(g, q)'
      BY <2>0, <2>2 DEF InHand
    <3>2. \A c \in Kinds, q \in Procs, t \in Threads :
            In(g, c, q, t)' => c = "main" /\ q = Main /\ t = 1
      BY <2>0, <3>1, Consts DEF In
    <3> QED BY <1>1, <3>2, OnlySettled
  <2> QED BY <2>1, <2>2
<1>6. \A q \in Procs, t \in Threads : Once(cmdQ[q][t])' /\ Once(Lane(q, t))'
  <2>1. \A q, t : Once(cmdQ[q][t])' <=> Once(cmdQ[q][t])
    BY DEF Once
  <2>2. \A q, t : Once(Lane(q, t))' <=> Once(Lane(q, t)')
    BY DEF Once
  <2> QED BY <1>1, <2>1, <2>2 DEF IInv, Alone
<1> QED BY <1>4, <1>5, <1>6 DEF Alone, Settled

LEMMA PostAlone ==
  ASSUME IInv, NEW p \in Procs, NEW l \in Loggers, NEW o \in Options[l], Post(p, l, o)
  PROVE  Alone'
<1>1. /\ GetCmd(p, o, l) /\ UNCHANGED <<cmdQ, rcyCache, thr, main>>
      /\ post' = [post EXCEPT ![p] = [pc |-> "push", cmd |-> Got(p), logger |-> l]]
  BY DEF Post
<1>2. o \in Known \cup {"close"}
  BY LoggerAssumption
<1>3. PICK g \in Cmds : g = Got(p)
  BY <1>1, <1>2, GetPlaces
<1>4. [pc |-> "push", cmd |-> g, logger |-> l] \in PostRec
  BY DEF PostRec
<1>5. /\ post'[p] = [pc |-> "push", cmd |-> g, logger |-> l]
      /\ \A q \in Procs \ {p} : post'[q] = post[q]
  BY <1>1, <1>3, <1>4, PostSet DEF IInv
<1>6. InHand(g, p)'
  BY <1>5 DEF InHand
<1> QED BY <1>1, <1>2, <1>3, <1>5, <1>6, TakenAlone

LEMMA DestroyAlone ==
  ASSUME IInv, NEW l \in Loggers, Destroy(l)
  PROVE  Alone'
<1>1. /\ GetCmd(Main, "close", l) /\ UNCHANGED <<cmdQ, rcyCache, thr, post>>
      /\ main' = [pc |-> "wait", cmd |-> Got(Main), logger |-> l]
  BY DEF Destroy
<1>2. "close" \in Known \cup {"close"} /\ Main \in Procs
  BY Consts
<1>3. PICK g \in Cmds : g = Got(Main)
  BY <1>1, <1>2, GetPlaces
<1>4. main'.cmd = g
  BY <1>1, <1>3
<1> QED BY <1>1, <1>2, <1>3, <1>4, TakenAlone

LEMMA FreedAlone == \* _free_log_cmd
  ASSUME IInv, UNCHANGED <<cmdQ, rcyCache, thr, main, post>>, NEW p \in Procs, FreeBack(p)
  PROVE  Alone'
<1>1. /\ \A k \in Cmds, q \in Procs, u \in Threads : InBack(k, q, u)' => InBack(k, q, u)
      /\ \A k \in Cmds : cmd'[k] = cmd[k] \/ Loose(k)
      /\ \A q \in Procs, u \in Threads : Once(Lane(q, u)')
  BY FreePlaces
<1>2. \A k, q, u : /\ (InQue(k, q, u)' <=> InQue(k, q, u)) /\ (InWork(k, u)' <=> InWork(k, u))
                   /\ (InHand(k, q)' <=> InHand(k, q)) /\ (InMain(k)' <=> InMain(k))
  BY DEF InQue, Elems, InWork, InHand, InMain, Closing
<1>4. ASSUME NEW k \in Cmds PROVE Settled(k)
  <2>1. Stays(k)
    BY <1>1, <1>2 DEF Stays
  <2>2. CASE cmd'[k] = cmd[k]
    BY <2>1, <2>2, StaysSettled
  <2>3. CASE Loose(k)
    <3>1. /\ ~InMain(k)' /\ \A q \in Procs : ~InHand(k, q)'
          /\ \A q \in Procs, t \in Threads :
               ~InWork(k, t)' /\ ~InQue(k, q, t)' /\ ~InBack(k, q, t)'
      BY <1>2, <2>3, Consts DEF Loose
    <3> QED BY <3>1, NowhereSettled
  <2> QED BY <1>1, <2>2, <2>3
<1>6. \A q \in Procs, t \in Threads : Once(cmdQ[q][t])' /\ Once(Lane(q, t))'
  <2>1. \A q, t : Once(cmdQ[q][t])' <=> Once(cmdQ[q][t])
    BY DEF Once
  <2>2. \A q, t : Once(Lane(q, t))' <=> Once(Lane(q, t)')
    BY DEF Once
  <2> QED BY <1>1, <2>1, <2>2 DEF IInv, Alone
<1> QED BY <1>4, <1>6 DEF Alone, Settled

LEMMA FullAlone ==
  ASSUME IInv, NEW p \in Procs, PushFull(p)
  PROVE  Alone'
<1>1. CASE FreeBack(p) /\ UNCHANGED post
  BY <1>1, FreedAlone DEF PushFull
<1>2. CASE /\ cmd' = Delete({post[p].cmd}, cmd) /\ post' = [post EXCEPT ![p] = Idle]
           /\ UNCHANGED rcyQ
  <2>1. UNCHANGED <<cmdQ, rcyQ, rcyCache, thr, main>> /\ post[p].pc = "push"
    BY <1>2 DEF PushFull
  <2>2. PICK g \in Cmds : g = post[p].cmd
    BY <2>1, PostGiven
  <2>3. InHand(g, p)
    BY <2>1, <2>2 DEF InHand
  <2>4. post'[p].pc = "idle" /\ \A q \in Procs \ {p} : post'[q] = post[q]
    BY <1>2, IdleRec, PostSet DEF IInv
  <2>5. \A k \in Cmds \ {g} : cmd'[k] = cmd[k]
    BY <1>2, <2>2, DeleteEffect DEF IInv, Types
  <2>6. \A k, q, u : /\ (InQue(k, q, u)' <=> InQue(k, q, u)) /\ (InWork(k, u)' <=> InWork(k, u))
                     /\ (InBack(k, q, u)' <=> InBack(k, q, u)) /\ (InMain(k)' <=> InMain(k))
    BY <2>1 DEF InQue, Elems, InWork, InBack, Lane, Cat, InMain, Closing
  <2>7. \A k \in Cmds, q \in Procs : InHand(k, q)' => InHand(k, q) /\ q # p
    BY <2>4 DEF InHand
  <2>8. ASSUME NEW k \in Cmds \ {g} PROVE Settled(k)
    <3>1. Stays(k)
      BY <2>6, <2>7 DEF Stays
    <3> QED BY <2>5, <3>1, StaysSettled
  <2>9. Settled(g)
    <3>1. /\ ~InMain(g) /\ \A q \in Procs : InHand(g, q) => q = p
          /\ \A q \in Procs, u \in Threads :
               ~InWork(g, u) /\ ~InQue(g, q, u) /\ ~InBack(g, q, u)
      BY <2>3, Apart
    <3> QED BY <2>6, <2>7, <3>1, NowhereSettled
  <2>10. \A q \in Procs, t \in Threads : Once(cmdQ[q][t])' /\ Once(Lane(q, t))'
    <3>1. \A q, t : /\ Once(cmdQ[q][t])' <=> Once(cmdQ[q][t])
                    /\ Once(Lane(q, t))' <=> Once(Lane(q, t))
      BY <2>1 DEF Once, Lane, Cat
    <3>2. \A q \in Procs, t \in Threads : Once(cmdQ[q][t]) /\ Once(Lane(q, t))
      BY DEF IInv, Alone
    <3> QED BY <3>1, <3>2
  <2> QED BY <2>8, <2>9, <2>10 DEF Alone, Settled
<1> QED BY <1>1, <1>2 DEF PushFull

LEMMA GivesPlaces ==
  ASSUME IInv, NEW q \in Procs, NEW u \in Threads, NEW k \in Cmds, Gives(q, u, k)
  PROVE  /\ \A j \in Cmds : /\ \A p \in Procs : InHand(j, p)' => InHand(j, p)
                            /\ InMain(j)' => InMain(j)
         /\ ~InMain(k)' /\ \A p \in Procs : ~InHand(k, p)'
         /\ \A p \in Procs, t \in Threads : ~InWork(k, t) /\ ~InQue(k, p, t) /\ ~InBack(k, p, t)
<1>1. CASE Push(q) /\ u = ThreadOf[post[q].logger] /\ k = post[q].cmd
  <2>1. post[q].pc = "push" /\ main' = main /\ post' = [post EXCEPT ![q].pc = "count"]
    BY <1>1 DEF Push
  <2>2. post'[q].pc = "count" /\ \A p \in Procs \ {q} : post'[p] = post[p]
    BY <2>1, PostSet DEF IInv
  <2>3. InHand(k, q)
    BY <1>1, <2>1 DEF InHand
  <2>4. /\ ~InMain(k) /\ \A p \in Procs : InHand(k, p) => p = q
        /\ \A p \in Procs, t \in Threads : ~InWork(k, t) /\ ~InQue(k, p, t) /\ ~InBack(k, p, t)
    BY <2>3, Apart
  <2>5. \A j \in Cmds : /\ \A p \in Procs : InHand(j, p)' => InHand(j, p) /\ p # q
                        /\ InMain(j)' => InMain(j)
    BY <2>1, <2>2 DEF InHand, InMain, Closing
  <2> QED BY <2>4, <2>5
<1>2. CASE /\ Close /\ Room(cmdQ[Main][ThreadOf[main.logger]])
           /\ q = Main /\ u = ThreadOf[main.logger] /\ k = main.cmd
  <2>1. main.pc = "close" /\ main' = Idle /\ post' = post
    BY <1>2 DEF Close
  <2>2. InMain(k)
    BY <1>2, <2>1 DEF InMain, Closing
  <2>3. \A p \in Procs, t \in Threads : ~InWork(k, t) /\ ~InQue(k, p, t) /\ ~InBack(k, p, t)
    BY <2>2, Apart
  <2>4. \A p \in Procs : ~InHand(k, p)
    BY <2>2, Apart
  <2>5. \A j \in Cmds : ~InMain(j)' /\ \A p \in Procs : InHand(j, p)' <=> InHand(j, p)
    BY <2>1, IdleRec DEF InHand, InMain, Closing
  <2> QED BY <2>3, <2>4, <2>5
<1> QED BY <1>1, <1>2 DEF Gives

LEMMA GivesAlone ==
  ASSUME IInv, NEW q \in Procs, NEW u \in Threads, NEW k \in Cmds, Gives(q, u, k)
  PROVE  Alone'
<1>1. /\ cmdQ'[q][u] = Append(cmdQ[q][u], k)
      /\ \A p \in Procs, t \in Threads : ~ (p = q /\ t = u) => cmdQ'[p][t] = cmdQ[p][t]
      /\ UNCHANGED <<cmd, thr, rcyQ, rcyCache>>
  BY GivesEffect
<1>2. /\ \A j \in Cmds : /\ \A p \in Procs : InHand(j, p)' => InHand(j, p)
                         /\ InMain(j)' => InMain(j)
      /\ ~InMain(k)' /\ \A p \in Procs : ~InHand(k, p)'
      /\ \A p \in Procs, t \in Threads : ~InWork(k, t) /\ ~InQue(k, p, t) /\ ~InBack(k, p, t)
  BY GivesPlaces
<1>3. cmdQ[q][u] \in Seq(Cmds)
  BY QueuesAt DEF IInv, Types
<1>4. /\ Elems(Append(cmdQ[q][u], k)) = Elems(cmdQ[q][u]) \cup {k}
      /\ Once(cmdQ[q][u]) /\ k \notin Elems(cmdQ[q][u]) => Once(Append(cmdQ[q][u], k))
  BY <1>3, ElemsAppend
<1>5. \A j, p, t : /\ InQue(j, p, t)' <=> j \in Elems(cmdQ'[p][t])
                   /\ Once(cmdQ[p][t])' <=> Once(cmdQ'[p][t])
                   /\ Once(Lane(p, t))' <=> Once(Lane(p, t))
                   /\ (InWork(j, t)' <=> InWork(j, t)) /\ (InBack(j, p, t)' <=> InBack(j, p, t))
  BY <1>1 DEF InQue, Elems, InWork, InBack, Lane, Cat, Once
<1>6. \A j \in Cmds, p \in Procs, t \in Threads :
        InQue(j, p, t)' => InQue(j, p, t) \/ (j = k /\ p = q /\ t = u)
  BY <1>1, <1>4, <1>5 DEF InQue
<1>7. ASSUME NEW j \in Cmds \ {k} PROVE Settled(j)
  <2>1. Stays(j)
    BY <1>2, <1>5, <1>6 DEF Stays
  <2> QED BY <1>1, <2>1, StaysSettled
<1>8. Settled(k)
  <2>1. cmd'[k] # Unused
    <3>1. cmd[k] # Unused
      <4>1. CASE Push(q) /\ k = post[q].cmd
        <5>1. InHand(k, q)
          BY <4>1 DEF Push, InHand
        <5> QED BY <5>1, InUsed
      <4>2. CASE Close /\ k = main.cmd
        <5>1. InMain(k)
          BY <4>2 DEF Close, InMain, Closing
        <5> QED BY <5>1, InUsed
      <4> QED BY <4>1, <4>2 DEF Gives
    <3> QED BY <1>1, <3>1
  <2>2. \A c \in Kinds, p \in Procs, t \in Threads : In(k, c, p, t)' => c = "que" /\ p = q /\ t = u
    BY <1>2, <1>5, <1>6, Consts DEF In
  <2> QED BY <2>1, <2>2, OnlySettled
<1>9. ASSUME NEW p \in Procs, NEW t \in Threads PROVE Once(cmdQ[p][t])' /\ Once(Lane(p, t))'
  <2>1. Once(cmdQ[p][t]) /\ Once(Lane(p, t)) /\ Once(cmdQ[q][u])
    BY DEF IInv, Alone
  <2>2. k \notin Elems(cmdQ[q][u])
    BY <1>2 DEF InQue
  <2> QED BY <1>1, <1>4, <1>5, <2>1, <2>2
<1> QED BY <1>7, <1>8, <1>9 DEF Alone, Settled

LEMMA PopAlone ==
  ASSUME IInv, NEW t \in Threads, Pop(t)
  PROVE  Alone'
<1>0. Types /\ Listed
  BY DEF IInv
<1>1. PICK p \in Procs : p = At(t)
  BY <1>0, AtIn
<1>2. /\ cmdQ[p][t] # <<>> /\ cmdQ'[p][t] = Tail(cmdQ[p][t])
      /\ \A q \in Procs, u \in Threads : ~ (q = p /\ u = t) => cmdQ'[q][u] = cmdQ[q][u]
      /\ thr[t].pc = "pass" /\ thr'[t].pc = "do" /\ thr'[t].cmd = Head(cmdQ[p][t])
      /\ \A u \in Threads \ {t} : thr'[u] = thr[u]
      /\ Head(cmdQ[p][t]) \in Cmds
  BY <1>0, <1>1, PopEffect
<1>3. UNCHANGED <<cmd, rcyQ, rcyCache, post, main>>
  BY DEF Pop
<1> DEFINE s == cmdQ[p][t]
<1>k. PICK k \in Cmds : k = Head(s)
  BY <1>2
<1>4. /\ k \in Elems(s) /\ Elems(s) = Elems(Tail(s)) \cup {k}
      /\ Once(s) => Once(Tail(s)) /\ k \notin Elems(Tail(s))
  <2>1. s \in Seq(Cmds)
    BY <1>0, QueuesAt DEF Types
  <2> QED BY <1>2, <1>k, <2>1, ElemsTail
<1>5. \A q \in Procs, u \in Threads : Once(cmdQ[q][u]) /\ Once(Lane(q, u))
  BY DEF IInv, Alone
<1>6. \A j, q, u : /\ InQue(j, q, u)' <=> j \in Elems(cmdQ'[q][u])
                   /\ Once(cmdQ[q][u])' <=> Once(cmdQ'[q][u])
                   /\ Once(Lane(q, u))' <=> Once(Lane(q, u))
                   /\ (InHand(j, q)' <=> InHand(j, q)) /\ (InBack(j, q, u)' <=> InBack(j, q, u))
                   /\ (InMain(j)' <=> InMain(j))
  BY <1>3 DEF InQue, Elems, InHand, InMain, Closing, InBack, Lane, Cat, Once
<1>7. InQue(k, p, t) /\ k \in Cmds
  BY <1>2, <1>4 DEF InQue
<1>8. /\ ~InMain(k) /\ \A q \in Procs : ~InHand(k, q)
      /\ \A q \in Procs, u \in Threads :
           ~InWork(k, u) /\ ~InBack(k, q, u) /\ (InQue(k, q, u) => q = p /\ u = t)
  BY <1>7, Apart
<1>9. \A j \in Cmds, q \in Procs, u \in Threads : InQue(j, q, u)' => InQue(j, q, u) /\ j # k
  <2>1. \A j \in Cmds : InQue(j, p, t)' => InQue(j, p, t) /\ j # k
    BY <1>2, <1>4, <1>5, <1>6, <1>k DEF InQue
  <2>2. \A j \in Cmds, q \in Procs, u \in Threads : ~ (q = p /\ u = t) =>
          (InQue(j, q, u)' <=> InQue(j, q, u))
    BY <1>2, <1>6 DEF InQue
  <2> QED BY <1>8, <2>1, <2>2
<1>10. \A j \in Cmds, u \in Threads : InWork(j, u)' => InWork(j, u) \/ (j = k /\ u = t)
  BY <1>2, <1>k DEF InWork
<1>11. ASSUME NEW j \in Cmds \ {k} PROVE Settled(j)
  <2>1. Stays(j)
    BY <1>6, <1>9, <1>10 DEF Stays
  <2> QED BY <1>3, <2>1, StaysSettled
<1>12. Settled(k)
  <2>1. cmd'[k] # Unused
    BY <1>3, <1>7, InUsed
  <2>2. \A c \in Kinds, q \in Procs, u \in Threads :
          In(k, c, q, u)' => c = "work" /\ q = Main /\ u = t
    BY <1>6, <1>7, <1>8, <1>9, <1>10, Consts DEF In
  <2> QED BY <2>1, <2>2, OnlySettled
<1>13. \A q \in Procs, u \in Threads : Once(cmdQ[q][u])' /\ Once(Lane(q, u))'
  BY <1>2, <1>4, <1>5, <1>6, <1>k
<1> QED BY <1>7, <1>11, <1>12, <1>13 DEF Alone, Settled

LEMMA GoesOn == \* a log thread that goes on has no command
  ASSUME IInv, NEW t \in Threads, thr' = [thr EXCEPT ![t] = Onward(@)]
  PROVE  /\ \A j : ~InWork(j, t)'
         /\ \A j : \A u \in Threads \ {t} : InWork(j, u)' <=> InWork(j, u)
<1>1. Types /\ Listed
  BY DEF IInv
<1>2. Onward(thr[t]) \in ThrRec /\ Goes(thr[t], Onward(thr[t]))
  BY <1>1, OnwardGoes
<1>3. thr'[t] = Onward(thr[t]) /\ \A u \in Threads \ {t} : thr'[u] = thr[u]
  BY <1>1 DEF Types
<1>4. thr'[t].pc \in {"pass", "over"}
  BY <1>2, <1>3 DEF Goes
<1> QED BY <1>3, <1>4 DEF InWork

LEMMA PopNoneAlone ==
  ASSUME IInv, NEW t \in Threads, PopNone(t)
  PROVE  Alone'
<1>0. Types /\ Listed
  BY DEF IInv
<1>1. PICK p \in Procs : p = At(t)
  BY <1>0, AtIn
<1>2. UNCHANGED <<cmdQ, post, main>> /\ thr' = [thr EXCEPT ![t] = Onward(@)]
  BY DEF PopNone
<1>3. /\ \A q \in Procs, u \in Threads : ~ (q = p /\ u = t) => Lane(q, u)' = Lane(q, u)
      /\ \/ Lane(p, t)' = <<>> /\ cmd' = Delete(Elems(Lane(p, t)), cmd)
         \/ Lane(p, t)' = Lane(p, t) /\ cmd' = cmd
  BY <1>0, <1>1, PopNoneEffect
<1>4. \A j, q, u : /\ InBack(j, q, u)' <=> j \in Elems(Lane(q, u)')
                   /\ Once(cmdQ[q][u])' <=> Once(cmdQ[q][u])
                   /\ Once(Lane(q, u))' <=> Once(Lane(q, u)')
                   /\ (InHand(j, q)' <=> InHand(j, q)) /\ (InQue(j, q, u)' <=> InQue(j, q, u))
                   /\ (InMain(j)' <=> InMain(j))
  BY <1>2 DEF InQue, Elems, InHand, InMain, Closing, InBack, Once
<1>5. \A j : \A u \in Threads : InWork(j, u)' => InWork(j, u)
  BY <1>2, GoesOn
<1>6. \A q \in Procs, u \in Threads : Lane(q, u)' = Lane(q, u) \/ Lane(q, u)' = <<>>
  BY <1>3
<1>7. \A j \in Cmds, q \in Procs, u \in Threads : InBack(j, q, u)' => InBack(j, q, u)
  BY <1>4, <1>6, NoElems DEF InBack
<1>8. ASSUME NEW j \in Cmds PROVE Settled(j)
  <2>1. Stays(j)
    BY <1>4, <1>5, <1>7 DEF Stays
  <2>2. CASE cmd'[j] = cmd[j]
    BY <2>1, <2>2, StaysSettled
  <2>3. CASE cmd'[j] # cmd[j]
    <3>1. Lane(p, t)' = <<>> /\ cmd' = Delete(Elems(Lane(p, t)), cmd)
      BY <1>3, <2>3
    <3>2. j \in Elems(Lane(p, t))
      BY <1>0, <2>3, <3>1, DeleteEffect DEF Types
    <3>3. InBack(j, p, t)
      BY <3>2 DEF InBack
    <3>4. /\ ~InMain(j) /\ \A q \in Procs : ~InHand(j, q)
          /\ \A q \in Procs, u \in Threads :
               ~InWork(j, u) /\ ~InQue(j, q, u) /\ (InBack(j, q, u) => q = p /\ u = t)
      BY <3>3, Apart
    <3>5. ~InBack(j, p, t)'
      BY <1>4, <3>1, NoElems
    <3> QED BY <1>4, <1>5, <1>7, <3>4, <3>5, NowhereSettled
  <2> QED BY <2>2, <2>3
<1>9. ASSUME NEW q \in Procs, NEW u \in Threads PROVE Once(cmdQ[q][u])' /\ Once(Lane(q, u))'
  <2>1. Once(cmdQ[q][u]) /\ Once(Lane(q, u))
    BY DEF IInv, Alone
  <2>2. Once(Lane(q, u)')
    BY <1>6, <2>1, NoElems
  <2> QED BY <1>4, <2>1, <2>2
<1> QED BY <1>8, <1>9 DEF Alone, Settled

LEMMA BackAlone ==
  ASSUME IInv, NEW t \in Threads, GiveBack(t)
  PROVE  Alone'
<1>0. Types /\ Listed
  BY DEF IInv
<1>1. PICK p \in Procs : p = At(t)
  BY <1>0, AtIn
<1>2. /\ UNCHANGED <<cmdQ, cmd, post, main>> /\ thr' = [thr EXCEPT ![t] = Onward(@)]
      /\ thr[t].pc = "back"
  BY DEF GiveBack, Visits
<1>3. /\ thr[t].cmd \in Cmds
      /\ Lane(p, t)' = Append(Lane(p, t), thr[t].cmd)
      /\ \A q \in Procs, u \in Threads : ~ (q = p /\ u = t) => Lane(q, u)' = Lane(q, u)
  BY <1>0, <1>1, GiveBackEffect
<1>k. PICK k \in Cmds : k = thr[t].cmd
  BY <1>3
<1>4. \A j, q, u : /\ InBack(j, q, u)' <=> j \in Elems(Lane(q, u)')
                   /\ Once(cmdQ[q][u])' <=> Once(cmdQ[q][u])
                   /\ Once(Lane(q, u))' <=> Once(Lane(q, u)')
                   /\ (InHand(j, q)' <=> InHand(j, q)) /\ (InQue(j, q, u)' <=> InQue(j, q, u))
                   /\ (InMain(j)' <=> InMain(j))
  BY <1>2 DEF InQue, Elems, InHand, InMain, Closing, InBack, Once
<1>5. \A j : \A u \in Threads : InWork(j, u)' => InWork(j, u) /\ u # t
  BY <1>2, GoesOn
<1>6. InWork(k, t)
  BY <1>2, <1>k DEF InWork
<1>7. /\ ~InMain(k) /\ \A q \in Procs : ~InHand(k, q)
      /\ \A q \in Procs, u \in Threads :
           ~InQue(k, q, u) /\ ~InBack(k, q, u) /\ (InWork(k, u) => u = t)
  BY <1>6, Apart
<1>8. /\ Elems(Append(Lane(p, t), k)) = Elems(Lane(p, t)) \cup {k}
      /\ Once(Lane(p, t)) /\ k \notin Elems(Lane(p, t)) => Once(Append(Lane(p, t), k))
  <2>1. Lane(p, t) \in Seq(Cmds)
    BY <1>0, QueuesAt DEF Types
  <2> QED BY <2>1, ElemsAppend
<1>9. \A j \in Cmds, q \in Procs, u \in Threads :
        InBack(j, q, u)' => InBack(j, q, u) \/ (j = k /\ q = p /\ u = t)
  BY <1>3, <1>4, <1>8, <1>k DEF InBack
<1>10. ASSUME NEW j \in Cmds \ {k} PROVE Settled(j)
  <2>1. Stays(j)
    BY <1>4, <1>5, <1>9 DEF Stays
  <2> QED BY <1>2, <2>1, StaysSettled
<1>11. Settled(k)
  <2>1. cmd'[k] # Unused
    BY <1>2, <1>6, InUsed
  <2>2. \A c \in Kinds, q \in Procs, u \in Threads :
          In(k, c, q, u)' => c = "back" /\ q = p /\ u = t
    BY <1>4, <1>5, <1>7, <1>9, Consts DEF In
  <2> QED BY <2>1, <2>2, OnlySettled
<1>12. ASSUME NEW q \in Procs, NEW u \in Threads PROVE Once(cmdQ[q][u])' /\ Once(Lane(q, u))'
  <2>1. Once(cmdQ[q][u]) /\ Once(Lane(q, u))
    BY DEF IInv, Alone
  <2>2. k \notin Elems(Lane(p, t))
    BY <1>7 DEF InBack
  <2>3. Once(Lane(q, u)')
    BY <1>3, <1>8, <1>k, <2>1, <2>2
  <2> QED BY <1>4, <2>1, <2>3
<1> QED BY <1>10, <1>11, <1>12 DEF Alone, Settled

LEMMA JoinedAlone ==
  ASSUME IInv, Joined
  PROVE  Alone'
<1>1. /\ \A t \in Threads : thr[t].pc = "over"
      /\ main.pc = "join" /\ main' = [main EXCEPT !.pc = "gone"] /\ UNCHANGED <<post, thr>>
      /\ cmdQ' = [p \in Procs |-> [t \in Threads |-> <<>>]] /\ rcyQ' = cmdQ' /\ rcyCache' = cmdQ'
  BY DEF Joined
<1>2. main'.pc = "gone" /\ \A p \in Procs : ~Calling(p)
  BY <1>1, MainSet DEF IInv, Stopped
<1>3. \A p \in Procs, t \in Threads : /\ cmdQ'[p][t] = <<>> /\ rcyQ'[p][t] = <<>>
                                      /\ rcyCache'[p][t] = <<>>
  BY <1>1
<1>4. <<>> \o <<>> = <<>>
  BY CatNone DEF Cat
<1>5. \A p \in Procs, t \in Threads : Lane(p, t)' = <<>>
  BY <1>3, <1>4 DEF Lane, Cat
<1>6. ASSUME NEW k \in Cmds PROVE Settled(k)
  <2>1. ~InMain(k)' /\ \A p \in Procs : ~InHand(k, p)'
    BY <1>1, <1>2 DEF InMain, Closing, InHand, Calling
  <2>2. \A p \in Procs, t \in Threads : ~InWork(k, t)' /\ ~InQue(k, p, t)' /\ ~InBack(k, p, t)'
    <3>1. \A p, t : /\ InQue(k, p, t)' <=> k \in Elems(cmdQ'[p][t])
                    /\ InBack(k, p, t)' <=> k \in Elems(Lane(p, t)')
      BY DEF InQue, InBack, Elems
    <3> QED BY <1>1, <1>3, <1>5, <3>1, NoElems DEF InWork
  <2> QED BY <2>1, <2>2, NowhereSettled
<1>7. \A p \in Procs, t \in Threads : Once(cmdQ[p][t])' /\ Once(Lane(p, t))'
  <2>1. \A p, t : /\ Once(cmdQ[p][t])' <=> Once(cmdQ'[p][t])
                  /\ Once(Lane(p, t))' <=> Once(Lane(p, t)')
    BY DEF Once
  <2> QED BY <1>3, <1>5, <2>1, NoElems
<1> QED BY <1>6, <1>7 DEF Alone, Settled

LEMMA AloneNext ==
  ASSUME IInv, Next
  PROVE  Alone'
<1>1. ASSUME NEW p \in Procs, Register(p) \/ Exit(p) \/ Calls(p) PROVE Alone'
  <2>1. CASE Push(p)
    <3>1. ThreadOf[post[p].logger] \in Threads /\ post[p].cmd \in Cmds
      BY <2>1, PostGiven DEF Push
    <3>2. Gives(p, ThreadOf[post[p].logger], post[p].cmd)
      BY <2>1 DEF Gives
    <3> QED BY <3>1, <3>2, GivesAlone
  <2>2. CASE PushFull(p)
    BY <2>2, FullAlone
  <2> QED BY <1>1, <2>1, <2>2, StillAlone DEF Calls
<1>2. ASSUME NEW p \in Procs, NEW l \in Loggers, NEW o \in Options[l], Post(p, l, o)
      PROVE  Alone'
  BY <1>2, PostAlone
<1>3. ASSUME NEW t \in Threads, LogThread(t) PROVE Alone'
  BY <1>3, PopAlone, PopNoneAlone, BackAlone, StillAlone DEF LogThread
<1>4. CASE PrintThread
  BY <1>4, StillAlone
<1>5. ASSUME NEW l \in Loggers, Destroy(l) PROVE Alone'
  BY <1>5, DestroyAlone
<1>6. CASE Stop \/ MainDoes
  <2>1. CASE Close
    <3>1. CASE Room(cmdQ[Main][ThreadOf[main.logger]])
      <4>1. Gives(Main, ThreadOf[main.logger], main.cmd)
        BY <2>1, <3>1 DEF Gives
      <4>2. Main \in Procs /\ ThreadOf[main.logger] \in Threads /\ main.cmd \in Cmds
        BY <2>1, Consts DEF Close, IInv, InCalls, Closing
      <4> QED BY <4>1, <4>2, GivesAlone
    <3>2. CASE ~Room(cmdQ[Main][ThreadOf[main.logger]])
      BY <2>1, <3>2, Consts, FreedAlone DEF Close
    <3> QED BY <3>1, <3>2
  <2> QED BY <1>6, <2>1, JoinedAlone, StillAlone DEF MainDoes
<1> QED BY <1>1, <1>2, <1>3, <1>4, <1>5, <1>6 DEF Next

-----------------------------------------------------------------------------
(***************************************************************************)
(* What is in use does not change.                                         *)
(***************************************************************************)
Kept(k) ==
  \/ InMain(k)
  \/ \E t \in Threads : InWork(k, t)
  \/ \E p \in Procs, t \in Threads : InQue(k, p, t)
  \/ \E p \in Procs : InHand(k, p) /\ post'[p].pc # "idle"

LEMMA KeptAs == \* nothing was taken from Main, a log thread or a cmd_queue
  ASSUME NEW k, Loose(k)
  PROVE  ~Kept(k)
BY Consts DEF Loose, Kept

LEMMA CmdNext ==
  ASSUME IInv, Next, ~Joined, NEW k \in Cmds, Kept(k)
  PROVE  cmd'[k] = cmd[k]
<1>0. ~Loose(k) /\ Main \in Procs /\ Types /\ Listed
  BY KeptAs, Consts DEF IInv
<1>1. ASSUME NEW p \in Procs, Register(p) \/ Exit(p) \/ Push(p) \/ Count(p)
      PROVE  cmd' = cmd
  BY <1>1 DEF Register, Exit, Push, Count
<1>2. ASSUME NEW p \in Procs, PushFull(p) PROVE cmd'[k] = cmd[k]
  <2>1. CASE FreeBack(p)
    BY <1>0, <1>2, <2>1, FreePlaces DEF PushFull
  <2>2. CASE cmd' = Delete({post[p].cmd}, cmd) /\ post' = [post EXCEPT ![p] = Idle]
    <3>1. post'[p].pc = "idle" /\ \A q \in Procs \ {p} : post'[q] = post[q]
      BY <1>0, <2>2, IdleRec, PostSet
    <3>2. CASE k = post[p].cmd
      <4>1. InHand(k, p)
        BY <1>2, <3>2 DEF PushFull, InHand
      <4>2. /\ ~InMain(k) /\ \A q \in Procs : InHand(k, q) => q = p
            /\ \A q \in Procs, u \in Threads : ~InWork(k, u) /\ ~InQue(k, q, u)
        BY <4>1, Apart
      <4> QED BY <3>1, <4>2 DEF Kept
    <3>3. CASE k # post[p].cmd
      <4>1. k \notin {post[p].cmd}
        BY <3>3
      <4> QED BY <1>0, <2>2, <4>1, DeleteEffect DEF Types
    <3> QED BY <3>2, <3>3
  <2> QED BY <1>2, <2>1, <2>2 DEF PushFull
<1>3. ASSUME NEW p \in Procs, NEW l \in Loggers, NEW o \in Options[l], Post(p, l, o)
      PROVE  cmd'[k] = cmd[k]
  <2>1. o \in Known \cup {"close"}
    BY LoggerAssumption
  <2>2. GetCmd(p, o, l) /\ rcyCache' = rcyCache
    BY <1>3 DEF Post
  <2>3. (k = Got(p) \/ cmd'[k] = cmd[k] \/ Loose(k)) /\ Loose(Got(p))
    BY <2>1, <2>2, GetPlaces
  <2>4. k # Got(p)
    BY <1>0, <2>3
  <2> QED BY <1>0, <2>3, <2>4
<1>4. ASSUME NEW l \in Loggers, Destroy(l) PROVE cmd'[k] = cmd[k]
  <2>1. GetCmd(Main, "close", l) /\ rcyCache' = rcyCache /\ "close" \in Known \cup {"close"}
    BY <1>4 DEF Destroy
  <2>2. (k = Got(Main) \/ cmd'[k] = cmd[k] \/ Loose(k)) /\ Loose(Got(Main))
    BY <1>0, <2>1, GetPlaces
  <2>3. k # Got(Main)
    BY <1>0, <2>2
  <2> QED BY <1>0, <2>2, <2>3
<1>5. CASE PrintThread \/ Stop \/ Acked
  BY <1>5 DEF PrintThread, PrintLine, PrintWait, Stop, Acked
<1>6. ASSUME NEW t \in Threads, Pop(t) \/ Do(t) \/ GiveBack(t) PROVE cmd' = cmd
  BY <1>6 DEF Pop, Do, GiveBack
<1>7. ASSUME NEW t \in Threads, PopNone(t) PROVE cmd'[k] = cmd[k]
  <2>1. PICK p \in Procs : p = At(t)
    BY <1>0, AtIn
  <2>2. cmd' = Delete(Elems(Lane(p, t)), cmd) \/ cmd' = cmd
    BY <1>0, <1>7, <2>1, PopNoneEffect
  <2>3. k \notin Elems(Lane(p, t))
    <3>1. SUFFICES ASSUME InBack(k, p, t) PROVE FALSE
      BY DEF InBack
    <3>2. /\ ~InMain(k) /\ \A q \in Procs : ~InHand(k, q)
          /\ \A q \in Procs, u \in Threads : ~InWork(k, u) /\ ~InQue(k, q, u)
      BY <3>1, Apart
    <3> QED BY <3>2 DEF Kept
  <2> QED BY <1>0, <2>2, <2>3, DeleteEffect DEF Types
<1>8. CASE Close
  <2>1. CASE cmd' = cmd
    BY <2>1
  <2>2. CASE FreeBack(Main)
    BY <1>0, <1>8, <2>2, FreePlaces DEF Close
  <2> QED BY <1>8, <2>1, <2>2 DEF Close
<1> QED BY <1>1, <1>2, <1>3, <1>4, <1>5, <1>6, <1>7, <1>8
        DEF Next, Calls, LogThread, MainDoes

LEMMA JoinedNone ==
  ASSUME IInv, Joined
  PROVE  /\ \A k : ~Under(k) /\ ~Under(k)'
         /\ \A p \in Procs, t \in Threads : cmdQ[p][t] = <<>> /\ cmdQ'[p][t] = <<>>
         /\ UNCHANGED <<post, log, thr, list, history>> /\ main.pc = "join" /\ main'.pc = "gone"
<1>1. /\ \A t \in Threads : thr[t].pc = "over"
      /\ main.pc = "join" /\ main' = [main EXCEPT !.pc = "gone"]
      /\ UNCHANGED <<post, log, thr, list, history>>
      /\ cmdQ' = [p \in Procs |-> [t \in Threads |-> <<>>]]
  BY DEF Joined
<1>2. main'.pc = "gone"
  BY <1>1, MainSet DEF IInv
<1>3. \A p \in Procs, t \in Threads : cmdQ[p][t] = <<>> /\ cmdQ'[p][t] = <<>>
  BY <1>1 DEF IInv, LastPass
<1>4. \A k : ~Under(k)
  BY <1>1, <1>3, NoElems DEF Under
<1>5. \A k : ~Under(k)'
  <2>1. \A k, p, t : k \in Elems(cmdQ[p][t])' <=> k \in Elems(cmdQ'[p][t])
    BY DEF Elems
  <2> QED BY <1>1, <1>3, <2>1, NoElems DEF Under
<1> QED BY <1>1, <1>2, <1>3, <1>4, <1>5

LEMMA UnderKept ==
  ASSUME NEW k, Under(k)
  PROVE  Kept(k)
BY DEF Under, Kept, InQue, InWork

LEMMA UnderGives ==
  ASSUME IInv, NEW q \in Procs, NEW u \in Threads, NEW j \in Cmds, Gives(q, u, j), NEW k
  PROVE  Under(k)' <=> Under(k) \/ k = j
<1>0. \A p, t : /\ k \in Elems(cmdQ[p][t])' <=> k \in Elems(cmdQ'[p][t])
  BY DEF Elems
<1>1. /\ cmdQ'[q][u] = Append(cmdQ[q][u], j) /\ thr' = thr
      /\ \A p \in Procs, t \in Threads : ~ (p = q /\ t = u) => cmdQ'[p][t] = cmdQ[p][t]
  BY GivesEffect
<1>2. Elems(cmdQ'[q][u]) = Elems(cmdQ[q][u]) \cup {j}
  <2>1. cmdQ[q][u] \in Seq(Cmds)
    BY QueuesAt DEF IInv, Types
  <2> QED BY <1>1, <2>1, ElemsAppend
<1>3. (\E p \in Procs, t \in Threads : k \in Elems(cmdQ'[p][t])) <=>
        (\E p \in Procs, t \in Threads : k \in Elems(cmdQ[p][t])) \/ k = j
  <2>1. \A p \in Procs, t \in Threads :
          k \in Elems(cmdQ'[p][t]) <=> k \in Elems(cmdQ[p][t]) \/ (k = j /\ p = q /\ t = u)
    BY <1>1, <1>2
  <2> QED BY <2>1
<1> QED BY <1>0, <1>1, <1>3 DEF Under

LEMMA UnderNext ==
  ASSUME IInv, Next, NEW k \in Cmds
  PROVE  /\ Under(k)' => /\ cmd'[k] = cmd[k]
                         /\ Under(k) \/ \E q \in Procs, u \in Threads : Gives(q, u, k)
         /\ Under(k) => Under(k)' \/ \E t \in Threads : Do(t) /\ thr[t].cmd = k
<1>0. Types /\ Listed
  BY DEF IInv
<1>1. CASE Joined
  BY <1>1, JoinedNone
<1>2. CASE ~Joined
  <2>1. \A p, t : /\ k \in Elems(cmdQ[p][t])' <=> k \in Elems(cmdQ'[p][t])
    BY DEF Elems
  <2>2. ASSUME NEW t \in Threads, Pop(t) PROVE Under(k)' <=> Under(k)
    <3>1. PICK p \in Procs : p = At(t)
      BY <1>0, AtIn
    <3>2. /\ cmdQ[p][t] # <<>> /\ cmdQ'[p][t] = Tail(cmdQ[p][t])
          /\ \A q \in Procs, u \in Threads : ~ (q = p /\ u = t) => cmdQ'[q][u] = cmdQ[q][u]
          /\ thr[t].pc = "pass" /\ thr'[t].pc = "do" /\ thr'[t].cmd = Head(cmdQ[p][t])
          /\ \A u \in Threads \ {t} : thr'[u] = thr[u]
      BY <1>0, <2>2, <3>1, PopEffect
    <3>3. Elems(cmdQ[p][t]) = Elems(cmdQ'[p][t]) \cup {thr'[t].cmd}
      <4>1. cmdQ[p][t] \in Seq(Cmds)
        BY <1>0, QueuesAt DEF Types
      <4> QED BY <3>2, <4>1, ElemsTail
    <3>4. ASSUME Under(k) PROVE Under(k)'
      <4>1. CASE \E q \in Procs, u \in Threads : k \in Elems(cmdQ[q][u])
        <5>1. PICK q \in Procs, u \in Threads : k \in Elems(cmdQ[q][u])
          BY <4>1
        <5>2. CASE q = p /\ u = t
          BY <2>1, <3>2, <3>3, <5>1, <5>2 DEF Under
        <5>3. CASE ~ (q = p /\ u = t)
          BY <2>1, <3>2, <5>1, <5>3 DEF Under
        <5> QED BY <5>2, <5>3
      <4>2. CASE \E u \in Threads : thr[u].pc = "do" /\ thr[u].cmd = k
        BY <3>2, <4>2 DEF Under
      <4> QED BY <3>4, <4>1, <4>2 DEF Under
    <3>5. ASSUME Under(k)' PROVE Under(k)
      <4>1. CASE \E q \in Procs, u \in Threads : k \in Elems(cmdQ'[q][u])
        <5>1. PICK q \in Procs, u \in Threads : k \in Elems(cmdQ'[q][u])
          BY <4>1
        <5>2. k \in Elems(cmdQ[q][u])
          BY <3>2, <3>3, <5>1
        <5> QED BY <5>2 DEF Under
      <4>2. CASE \E u \in Threads : thr'[u].pc = "do" /\ thr'[u].cmd = k
        BY <3>2, <3>3, <4>2 DEF Under
      <4> QED BY <2>1, <3>5, <4>1, <4>2 DEF Under
    <3> QED BY <3>4, <3>5
  <2>3. ASSUME NEW q \in Procs, NEW u \in Threads, NEW j \in Cmds, Gives(q, u, j)
        PROVE  Under(k)' <=> Under(k) \/ k = j
    BY <2>3, UnderGives
  <2>4. ASSUME cmdQ' = cmdQ
        PROVE  /\ Under(k)' => Under(k)
               /\ Under(k) => Under(k)' \/ \E t \in Threads : Do(t) /\ thr[t].cmd = k
    <3>1. ASSUME NEW t \in Threads, thr'[t].pc = "do", thr'[t].cmd = k
          PROVE  Under(k)
      <4>1. ~Pop(t)
        <5>1. SUFFICES ASSUME Pop(t) PROVE FALSE
          OBVIOUS
        <5>2. cmdQ[At(t)][t] # <<>> /\ cmdQ'[At(t)][t] = Tail(cmdQ[At(t)][t]) /\ At(t) \in Procs
          BY <1>0, <5>1, PopEffect, AtIn
        <5>3. cmdQ[At(t)][t] \in Seq(Cmds)
          BY <1>0, <5>2, QueuesAt DEF Types
        <5>4. Len(Tail(cmdQ[At(t)][t])) = Len(cmdQ[At(t)][t]) - 1 /\ Len(cmdQ[At(t)][t]) \in Nat
          BY <5>2, <5>3, Tails
        <5> DEFINE s == cmdQ[At(t)][t]
        <5>5. Tail(s) = s
          BY <2>4, <5>2
        <5> HIDE DEF s
        <5>6. Len(s) = Len(s) - 1 /\ Len(s) \in Nat
          BY <5>4, <5>5 DEF s
        <5> QED BY <5>6
      <4>2. ~Do(t) /\ ~Goes(thr[t], thr'[t])
        <5>1. thr'[t].pc = "back" \/ ~Do(t)
          BY <1>0 DEF Do, Types, ThrRec
        <5> QED BY <3>1, <5>1 DEF Goes
      <4>3. thr'[t] = thr[t]
        BY <4>1, <4>2, ThrNext
      <4> QED BY <3>1, <4>3 DEF Under
    <3>2. ASSUME NEW t \in Threads, thr[t].pc = "do", thr[t].cmd = k
          PROVE  Under(k)' \/ Do(t)
      <4>1. ~Pop(t) /\ ~PopNone(t) /\ ~GiveBack(t)
        BY <3>2 DEF Pop, PopNone, GiveBack, Visits
      <4>2. thr'[t] = thr[t] \/ Do(t)
        BY <4>1, ThrNext
      <4> QED BY <3>2, <4>2 DEF Under
    <3> QED BY <2>1, <2>4, <3>1, <3>2 DEF Under
  <2>5. /\ Under(k)' => Under(k) \/ \E q \in Procs, u \in Threads : Gives(q, u, k)
        /\ Under(k) => Under(k)' \/ \E t \in Threads : Do(t) /\ thr[t].cmd = k
    BY <1>2, <2>2, <2>3, <2>4, QueueNext
  <2>6. ASSUME Under(k)' PROVE cmd'[k] = cmd[k]
    <3>1. CASE Under(k)
      BY <1>2, <3>1, UnderKept, CmdNext
    <3>2. CASE \E q \in Procs, u \in Threads : Gives(q, u, k)
      BY <3>2, GivesEffect
    <3> QED BY <2>5, <2>6, <3>1, <3>2
  <2> QED BY <2>5, <2>6
<1> QED BY <1>1, <1>2

-----------------------------------------------------------------------------
(***************************************************************************)
(* The loggers.                                                            *)
(***************************************************************************)
LEMMA DestroyEffect ==
  ASSUME IInv, NEW l \in Loggers, Destroy(l)
  PROVE  /\ log[l].state = "open" /\ log'[l].state = "closing"
         /\ log'[l].req = log[l].req /\ log'[l].reqMt = log[l].reqMt
         /\ log'[l].ack = log[l].ack
         /\ \A m \in Loggers \ {l} : log'[m] = log[m]
<1>1. log \in [Loggers -> LogRec] /\ log' = [log EXCEPT ![l].state = "closing"]
      /\ log[l].state = "open"
  BY DEF IInv, Types, Destroy
<1> QED BY <1>1 DEF LogRec

LEMMA DoWhat ==
  ASSUME IInv, NEW t \in Threads, Do(t)
  PROVE  \E k \in Cmds, l \in Loggers :
           /\ k = thr[t].cmd /\ l = cmd[k].logger /\ thr[t].pc = "do"
           /\ Under(k) /\ InWork(k, t) /\ cmd[k] \in CmdRec
           /\ \A m \in Loggers \ {l} : log'[m] = log[m]
           /\ log'[l].req = log[l].req /\ log'[l].reqMt = log[l].reqMt
           /\ cmd[k].option = "close" =>
                log'[l].ack = log[l].ack /\ log'[l].state \in {log[l].state, "freed"}
           /\ cmd[k].option # "close" =>
                log'[l].ack = log[l].ack + 1 /\ log'[l].state = log[l].state
           /\ thr'[t].pc = "back" /\ thr'[t].cmd = k
           /\ \A u \in Threads \ {t} : thr'[u] = thr[u]
           /\ UNCHANGED <<cmd, cmdQ, post, main>>
<1>1. PICK k \in Cmds : k = thr[t].cmd /\ cmd[k] \in CmdRec
  BY InUseRec DEF Do, Visits
<1>2. PICK l \in Loggers : l = cmd[k].logger
  BY <1>1 DEF CmdRec
<1>3. PICK p \in Procs : p = At(t)
  BY AtIn DEF IInv
<1>4. /\ thr[t].pc = "do" /\ \A m \in Loggers \ {l} : log'[m] = log[m]
      /\ log'[l].req = log[l].req /\ log'[l].reqMt = log[l].reqMt
      /\ cmd[k].option = "close" =>
           log'[l].ack = log[l].ack /\ log'[l].state \in {log[l].state, "freed"}
      /\ cmd[k].option # "close" =>
           log'[l].ack = log[l].ack + 1 /\ log'[l].state = log[l].state
      /\ thr'[t].pc = "back" /\ thr'[t].cmd = k
      /\ \A u \in Threads \ {t} : thr'[u] = thr[u]
  BY <1>1, <1>2, <1>3, DoEffect
<1>5. Under(k) /\ InWork(k, t)
  BY <1>1, <1>4 DEF Under, InWork
<1>6. UNCHANGED <<cmd, cmdQ, post, main>>
  BY DEF Do, rings
<1> QED BY <1>1, <1>2, <1>4, <1>5, <1>6

LEMMA LogNext ==
  ASSUME IInv, Next
  PROVE  \/ log' = log
         \/ \E p \in Procs : Count(p)
         \/ \E l \in Loggers : Destroy(l)
         \/ \E t \in Threads : Do(t)
<1>1. ASSUME NEW p \in Procs, Register(p) \/ Exit(p) \/ Push(p) \/ PushFull(p)
      PROVE  log' = log
  BY <1>1 DEF Register, Exit, Push, PushFull
<1>2. ASSUME NEW p \in Procs, NEW l \in Loggers, NEW o \in Options[l], Post(p, l, o)
      PROVE  log' = log
  BY <1>2 DEF Post
<1>3. ASSUME NEW t \in Threads, Pop(t) \/ PopNone(t) \/ GiveBack(t) PROVE log' = log
  BY <1>3 DEF Pop, PopNone, GiveBack
<1>4. CASE PrintThread \/ Stop \/ MainDoes
  BY <1>4 DEF PrintThread, PrintLine, PrintWait, Stop, MainDoes, Acked, Close, Joined
<1> QED BY <1>1, <1>2, <1>3, <1>4 DEF Next, Calls, LogThread

LEMMA StateNext ==
  ASSUME IInv, Next, NEW l \in Loggers
  PROVE  \/ log'[l].state = log[l].state
         \/ Destroy(l) /\ log[l].state = "open" /\ log'[l].state = "closing"
         \/ \E t \in Threads, k \in Cmds :
              Do(t) /\ k = thr[t].cmd /\ InWork(k, t) /\ Closer(k, l) /\ log'[l].state = "freed"
<1>1. CASE log' = log
  BY <1>1
<1>2. ASSUME NEW p \in Procs, Count(p) PROVE log'[l].state = log[l].state
  BY <1>2, CountEffect
<1>3. ASSUME NEW m \in Loggers, Destroy(m)
      PROVE  \/ log'[l].state = log[l].state
             \/ m = l /\ log[l].state = "open" /\ log'[l].state = "closing"
  BY <1>3, DestroyEffect
<1>4. ASSUME NEW t \in Threads, Do(t)
      PROVE  \/ log'[l].state = log[l].state
             \/ \E k \in Cmds :
                  k = thr[t].cmd /\ InWork(k, t) /\ Closer(k, l) /\ log'[l].state = "freed"
  <2>1. PICK k \in Cmds, m \in Loggers :
          /\ k = thr[t].cmd /\ m = cmd[k].logger /\ InWork(k, t) /\ Under(k)
          /\ \A n \in Loggers \ {m} : log'[n] = log[n]
          /\ cmd[k].option = "close" => log'[m].state \in {log[m].state, "freed"}
          /\ cmd[k].option # "close" => log'[m].state = log[m].state
    BY <1>4, DoWhat
  <2> QED BY <2>1 DEF Closer
<1> QED BY <1>1, <1>2, <1>3, <1>4, LogNext

LEMMA InCallOpen == \* what a thread in a call has to do with stays open
  ASSUME IInv, Next, NEW p \in Procs, Calling(p)
  PROVE  /\ post[p].logger \in Loggers /\ p \in Registered
         /\ log[post[p].logger].state = "open" /\ log'[post[p].logger].state = "open"
<1>1. /\ post[p].logger \in Loggers /\ p \in Registered
      /\ log[post[p].logger].state = "open"
  BY DEF IInv, InCalls
<1> DEFINE l == post[p].logger
<1>2. ~Destroy(l)
  BY DEF Destroy
<1>3. \A k \in Cmds : ~Closer(k, l)
  BY <1>1 DEF IInv, Endings, Ending
<1> HIDE DEF l
<1>4. log'[l].state = log[l].state
  <2>1. PICK m \in Loggers : m = l
    BY <1>1 DEF l
  <2> QED BY <1>2, <1>3, <2>1, StateNext
<1> QED BY <1>1, <1>4 DEF l

LEMMA PostNext ==
  ASSUME IInv, Next, NEW p \in Procs, Calling(p)'
  PROVE  \/ post'[p] = post[p]
         \/ Push(p) /\ post'[p].pc = "count" /\ post'[p].logger = post[p].logger
         \/ \E l \in Loggers : \E o \in Options[l] : Post(p, l, o)
<1>0. Types
  BY DEF IInv
<1>1. ASSUME NEW q \in Procs, Register(q) PROVE post' = post
  BY <1>1 DEF Register
<1>2. ASSUME NEW q \in Procs, Exit(q) PROVE post'[p] = post[p]
  <2>1. post' = [post EXCEPT ![q].pc = "over"]
    BY <1>2 DEF Exit
  <2>2. post'[q].pc = "over" /\ \A r \in Procs \ {q} : post'[r] = post[r]
    BY <1>0, <2>1, PostSet
  <2> QED BY <2>2 DEF Calling
<1>3. ASSUME NEW q \in Procs, Push(q)
      PROVE  \/ post'[p] = post[p]
             \/ q = p /\ post'[p].pc = "count" /\ post'[p].logger = post[p].logger
  <2>1. post' = [post EXCEPT ![q].pc = "count"]
    BY <1>3 DEF Push
  <2>2. /\ post'[q].pc = "count" /\ post'[q].logger = post[q].logger
        /\ \A r \in Procs \ {q} : post'[r] = post[r]
    BY <1>0, <2>1, PostSet
  <2> QED BY <2>2
<1>4. ASSUME NEW q \in Procs, PushFull(q) \/ Count(q) PROVE post'[p] = post[p]
  <2>1. post' = post \/ post' = [post EXCEPT ![q] = Idle]
    BY <1>4 DEF PushFull, Count
  <2>2. post' = post \/ (post'[q] = Idle /\ \A r \in Procs \ {q} : post'[r] = post[r])
    BY <1>0, <2>1, IdleRec, PostSet
  <2> QED BY <2>2, IdleRec DEF Calling
<1>5. ASSUME NEW q \in Procs, NEW l \in Loggers, NEW o \in Options[l], Post(q, l, o), q # p
      PROVE  post'[p] = post[p]
  BY <1>5 DEF Post
<1>6. ASSUME NEW l \in Loggers, Destroy(l) PROVE post' = post
  BY <1>6 DEF Destroy
<1>7. CASE PrintThread \/ Stop \/ MainDoes
  BY <1>7 DEF PrintThread, PrintLine, PrintWait, Stop, MainDoes, Acked, Close, Joined
<1>8. ASSUME NEW t \in Threads, LogThread(t) PROVE post' = post
  BY <1>8 DEF LogThread, Pop, PopNone, Do, GiveBack
<1> QED BY <1>1, <1>2, <1>3, <1>4, <1>5, <1>6, <1>7, <1>8 DEF Next, Calls

LEMMA PostedNext ==
  ASSUME IInv, Next, NEW p \in Procs, ~Push(p), p = Main => ~Close
  PROVE  \A t \in Threads : posted'[p][t] = posted[p][t]
<1>1. ASSUME NEW q \in Procs, NEW u \in Threads, NEW k \in Cmds, Gives(q, u, k)
      PROVE  q # p /\ \A t \in Threads : posted'[p][t] = posted[p][t]
  <2>1. q # p
    BY <1>1 DEF Gives
  <2> QED BY <1>1, <2>1, GivesEffect
<1>2. CASE Joined
  BY <1>2, JoinedNone DEF history
<1> QED BY <1>1, <1>2, QueueNext

LEMMA MainNext ==
  ASSUME IInv, Next, Closing'
  PROVE  \/ main' = main
         \/ Closing /\ main'.cmd = main.cmd /\ main'.logger = main.logger
         \/ \E l \in Loggers : Destroy(l)
<1>1. CASE Acked
  <2>1. main' = [main EXCEPT !.pc = "close"] /\ Closing
    BY <1>1 DEF Acked, Closing
  <2> QED BY <2>1, MainSet DEF IInv
<1>2. CASE Close
  <2>1. main' = main \/ main' = Idle
    BY <1>2 DEF Close
  <2> QED BY <2>1, IdleRec DEF Closing
<1>3. CASE Joined
  BY <1>3, JoinedNone DEF Closing
<1>4. CASE Stop
  <2>1. main' = [main EXCEPT !.pc = "join"]
    BY <1>4 DEF Stop
  <2>2. main'.pc = "join"
    BY <2>1, MainSet DEF IInv
  <2> QED BY <2>2 DEF Closing
<1> QED BY <1>1, <1>2, <1>3, <1>4, RunNext

LEMMA NotJoined ==
  ASSUME IInv, Next, (\E p \in Procs : Calling(p)') \/ Closing'
  PROVE  ~Joined
<1>1. SUFFICES ASSUME Joined PROVE FALSE
  OBVIOUS
<1>2. post' = post /\ main.pc = "join" /\ main'.pc = "gone"
  BY <1>1, JoinedNone
<1>3. \A p \in Procs : ~Calling(p)
  BY <1>2 DEF IInv, Stopped, Types
<1> QED BY <1>2, <1>3 DEF Calling, Closing

LEMMA PostEffect ==
  ASSUME IInv, NEW p \in Procs, NEW l \in Loggers, NEW o \in Options[l], Post(p, l, o)
  PROVE  /\ p \in Registered /\ log[l].state = "open" /\ post[p].pc = "idle"
         /\ UNCHANGED <<log, main, list, cmdQ, thr, posted, done>> /\ InUse
         /\ p = Main => main.pc = "idle"
         /\ \A q \in Procs \ {p} : post'[q] = post[q]
         /\ \E g \in Cmds :
              /\ post'[p] = [pc |-> "push", cmd |-> g, logger |-> l]
              /\ cmd'[g] = [option |-> o, logger |-> l, no |-> NextNo(p, l)] /\ o \in Known
<1>1. /\ p \in Registered /\ log[l].state = "open" /\ post[p].pc = "idle" /\ InUse
      /\ UNCHANGED <<log, main, list, cmdQ, thr, posted, done>>
      /\ p = Main => main.pc = "idle"
      /\ GetCmd(p, o, l) /\ rcyCache' = rcyCache
      /\ post' = [post EXCEPT ![p] = [pc |-> "push", cmd |-> Got(p), logger |-> l]]
  BY DEF Post, history
<1>2. o \in Known \cup {"close"} /\ o \in Known
  BY LoggerAssumption
<1>3. PICK g \in Cmds : g = Got(p)
  BY <1>1, <1>2, GetPlaces
<1>4. [pc |-> "push", cmd |-> g, logger |-> l] \in PostRec
  BY DEF PostRec
<1>5. /\ post'[p] = [pc |-> "push", cmd |-> g, logger |-> l]
      /\ \A q \in Procs \ {p} : post'[q] = post[q]
  BY <1>1, <1>3, <1>4, PostSet DEF IInv
<1>6. cmd'[g] = [option |-> o, logger |-> l, no |-> NextNo(p, l)]
  BY <1>1, <1>2, <1>3, GetPlaces
<1> QED BY <1>1, <1>2, <1>5, <1>6

LEMMA DestroyGets ==
  ASSUME IInv, NEW l \in Loggers, Destroy(l)
  PROVE  /\ UNCHANGED <<post, list, cmdQ, thr, posted, done>>
         /\ main.pc = "idle" /\ ~Calling(Main)
         /\ main'.pc = "wait" /\ main'.logger = l
         /\ \E g \in Cmds :
              /\ main'.cmd = g /\ cmd'[g] = [option |-> "close", logger |-> l, no |-> NextNo(Main, l)]
              /\ Loose(g)
<1>1. /\ GetCmd(Main, "close", l) /\ rcyCache' = rcyCache
      /\ UNCHANGED <<post, list, cmdQ, thr, posted, done>>
      /\ main' = [pc |-> "wait", cmd |-> Got(Main), logger |-> l]
      /\ main.pc = "idle" /\ ~Calling(Main)
  BY DEF Destroy, history
<1>2. "close" \in Known \cup {"close"} /\ Main \in Procs
  BY Consts
<1>3. /\ Got(Main) \in Cmds /\ Loose(Got(Main))
      /\ cmd'[Got(Main)] = [option |-> "close", logger |-> l, no |-> NextNo(Main, l)]
  BY <1>1, <1>2, GetPlaces
<1> QED BY <1>1, <1>3

LEMMA RegisteredStay ==
  ASSUME IInv, Next
  PROVE  Registered \subseteq Registered'
<1>1. CASE list' = list
  BY <1>1 DEF Registered
<1>2. ASSUME NEW p \in Procs, Register(p) PROVE Registered \subseteq Registered'
  BY <1>2, RegisterEffect DEF IInv
<1> QED BY <1>1, <1>2, ListNext

LEMMA InCallsNext ==
  ASSUME IInv, Next
  PROVE  InCalls'
<1>0. /\ Types /\ InCalls /\ Listed /\ Main \in Procs
      /\ \A l \in Loggers : ThreadOf[l] \in Threads
  BY Consts DEF IInv
<1>1. ASSUME NEW p \in Procs, Calling(p)'
      PROVE  /\ p \in Registered' /\ post'[p].logger \in Loggers
             /\ log'[post'[p].logger].state = "open"
  <2>1. CASE \E l \in Loggers : \E o \in Options[l] : Post(p, l, o)
    <3> PICK l \in Loggers : \E o \in Options[l] : Post(p, l, o)
      BY <2>1
    <3> PICK o \in Options[l] : Post(p, l, o)
      OBVIOUS
    <3>1. /\ p \in Registered /\ log[l].state = "open" /\ log' = log
          /\ \E g \in Cmds : post'[p] = [pc |-> "push", cmd |-> g, logger |-> l]
      BY PostEffect
    <3>2. /\ p \in Registered /\ log[l].state = "open" /\ log' = log
          /\ post'[p].logger = l
      BY <3>1
    <3> QED BY <3>2, RegisteredStay
  <2>2. CASE Calling(p) /\ post'[p].logger = post[p].logger
    BY <2>2, InCallOpen, RegisteredStay
  <2>3. post'[p] = post[p] => Calling(p)
    BY <1>1 DEF Calling
  <2>4. Push(p) => Calling(p)
    BY DEF Push, Calling
  <2> QED BY <1>1, <2>1, <2>2, <2>3, <2>4, PostNext
<1>2. ASSUME NEW p \in Procs, post'[p].pc = "push"
      PROVE  /\ post'[p].cmd \in Cmds /\ cmd'[post'[p].cmd].option \in Known
             /\ cmd'[post'[p].cmd].logger = post'[p].logger
             /\ cmd'[post'[p].cmd].no = posted'[p][ThreadOf[post'[p].logger]] + 1
  <2>0. Calling(p)'
    BY <1>2 DEF Calling
  <2>1. CASE \E l \in Loggers : \E o \in Options[l] : Post(p, l, o)
    <3>0. PICK l \in Loggers : \E o \in Options[l] : Post(p, l, o)
      BY <2>1
    <3> PICK o \in Options[l] : Post(p, l, o)
      BY <3>0
    <3>1. PICK g \in Cmds :
            /\ o \in Known
            /\ post'[p] = [pc |-> "push", cmd |-> g, logger |-> l]
            /\ cmd'[g] = [option |-> o, logger |-> l, no |-> NextNo(p, l)]
            /\ posted' = posted
      BY PostEffect
    <3> QED BY <3>1 DEF NextNo
  <2>2. CASE post'[p] = post[p]
    <3>1. PICK k \in Cmds, l \in Loggers :
            /\ k = post[p].cmd /\ l = post[p].logger /\ post[p].pc = "push"
            /\ cmd[k].option \in Known /\ cmd[k].logger = l /\ cmd[k].no = NextNo(p, l)
      BY <1>0, <1>2, <2>2 DEF InCalls, Calling
    <3>2. InHand(k, p) /\ Kept(k)
      BY <1>2, <2>2, <3>1 DEF InHand, Kept
    <3>3. cmd'[k] = cmd[k]
      BY <2>0, <3>2, NotJoined, CmdNext
    <3>4. ~Push(p)
      <4>1. SUFFICES ASSUME Push(p) PROVE FALSE
        OBVIOUS
      <4>2. post' = [post EXCEPT ![p].pc = "count"]
        BY <4>1 DEF Push
      <4>3. post'[p].pc = "count"
        BY <1>0, <4>2, PostSet
      <4> QED BY <1>2, <4>3
    <3>5. p = Main => ~Close
      BY <1>0, <3>1 DEF Close, InCalls, Closing, Calling
    <3>6. posted'[p][ThreadOf[l]] = posted[p][ThreadOf[l]]
      BY <1>0, <3>4, <3>5, PostedNext
    <3> QED BY <2>2, <3>1, <3>3, <3>6 DEF NextNo
  <2>3. CASE Push(p) /\ post'[p].pc = "count"
    BY <1>2, <2>3
  <2> QED BY <2>0, <2>1, <2>2, <2>3, PostNext
<1>3. ASSUME Closing'
      PROVE  /\ main'.cmd \in Cmds /\ main'.logger \in Loggers
             /\ cmd'[main'.cmd] = [option |-> "close", logger |-> main'.logger,
                                   no |-> posted'[Main][ThreadOf[main'.logger]] + 1]
             /\ log'[main'.logger].state = "closing"
             /\ ~Calling(Main)'
  <2>1. CASE \E l \in Loggers : Destroy(l)
    <3>1. PICK l \in Loggers : Destroy(l)
      BY <2>1
    <3>2. PICK g \in Cmds :
            /\ main'.cmd = g /\ main'.logger = l /\ UNCHANGED <<post, posted>>
            /\ cmd'[g] = [option |-> "close", logger |-> l, no |-> NextNo(Main, l)]
            /\ ~Calling(Main)
      BY <3>1, DestroyGets
    <3>3. log'[l].state = "closing"
      BY <3>1, DestroyEffect
    <3> QED BY <3>2, <3>3 DEF NextNo, Calling
  <2>2. CASE Closing /\ main'.cmd = main.cmd /\ main'.logger = main.logger
    <3>1. PICK k \in Cmds, l \in Loggers :
            /\ k = main.cmd /\ l = main.logger /\ log[l].state = "closing" /\ ~Calling(Main)
            /\ cmd[k] = [option |-> "close", logger |-> l, no |-> NextNo(Main, l)]
      BY <1>0, <2>2 DEF InCalls
    <3>2. InMain(k) /\ Kept(k) /\ Closer(k, l)
      BY <2>2, <3>1 DEF InMain, Kept, Closer
    <3>3. cmd'[k] = cmd[k]
      BY <1>3, <3>2, NotJoined, CmdNext
    <3>4. ~Calling(Main)'
      <4>1. SUFFICES ASSUME Calling(Main)' PROVE FALSE
        OBVIOUS
      <4>2. \E m \in Loggers : \E o \in Options[m] : Post(Main, m, o)
        BY <1>0, <3>1, <4>1, CallNext
      <4>3. main.pc = "idle"
        BY <1>0, <4>2, PostEffect
      <4> QED BY <2>2, <4>3 DEF Closing
    <3>5. ~Push(Main)
      BY <3>1 DEF Push, Calling
    <3>6. posted'[Main][ThreadOf[l]] = posted[Main][ThreadOf[l]]
      <4>1. CASE Close
        <5>1. CASE Room(cmdQ[Main][ThreadOf[main.logger]])
          BY <1>3, <4>1, <5>1, IdleRec DEF Close, Closing
        <5>2. CASE ~Room(cmdQ[Main][ThreadOf[main.logger]])
          BY <4>1, <5>2 DEF Close
        <5> QED BY <5>1, <5>2
      <4>2. CASE ~Close
        BY <1>0, <3>5, <4>2, PostedNext
      <4> QED BY <4>1, <4>2
    <3>7. log'[l].state = "closing"
      <4>1. ASSUME NEW t \in Threads, NEW j \in Cmds, InWork(j, t), Closer(j, l)
            PROVE  FALSE
        <5>1. j = k
          BY <3>2, <4>1 DEF IInv, Endings, Ending
        <5> QED BY <3>2, <4>1, <5>1, <1>0, Apart
      <4> QED BY <3>1, <4>1, StateNext
    <3> QED BY <2>2, <3>1, <3>3, <3>4, <3>6, <3>7 DEF NextNo
  <2>3. CASE main' = main
    <3>1. Closing
      BY <1>3, <2>3 DEF Closing
    <3> QED BY <2>2, <2>3, <3>1
  <2> QED BY <1>3, <2>1, <2>2, <2>3, MainNext
<1> QED BY <1>1, <1>2, <1>3 DEF InCalls, NextNo

-----------------------------------------------------------------------------
(***************************************************************************)
(* The order of the commands.                                              *)
(***************************************************************************)
LEMMA DoneNext ==
  ASSUME IInv, Next, NEW p \in Procs, NEW t \in Threads, ~ (Do(t) /\ p = At(t))
  PROVE  done'[p][t] = done[p][t]
<1>1. ASSUME NEW q \in Procs, Register(q) \/ Exit(q) \/ Calls(q) PROVE done' = done
  BY <1>1 DEF Register, Exit, Calls, Push, PushFull, Count, history
<1>2. ASSUME NEW q \in Procs, NEW l \in Loggers, NEW o \in Options[l], Post(q, l, o)
      PROVE  done' = done
  BY <1>2 DEF Post, history
<1>3. ASSUME NEW u \in Threads, Pop(u) \/ PopNone(u) \/ GiveBack(u) PROVE done' = done
  BY <1>3 DEF Pop, PopNone, GiveBack, history
<1>4. ASSUME NEW u \in Threads, Do(u) PROVE done'[p][t] = done[p][t]
  <2>1. PICK k \in Cmds, l \in Loggers : k = thr[u].cmd /\ l = cmd[k].logger
    BY <1>4, DoWhat
  <2>2. PICK q \in Procs : q = At(u)
    BY AtIn DEF IInv
  <2>3. \A r \in Procs, v \in Threads : ~ (r = q /\ v = u) => done'[r][v] = done[r][v]
    BY <1>4, <2>1, <2>2, DoEffect
  <2>4. ~ (p = q /\ t = u)
    BY <1>4, <2>2
  <2> QED BY <2>3, <2>4
<1>5. ASSUME NEW l \in Loggers, Destroy(l) PROVE done' = done
  BY <1>5 DEF Destroy, history
<1>6. CASE PrintThread \/ Stop \/ MainDoes
  BY <1>6 DEF PrintThread, PrintLine, PrintWait, Stop, MainDoes, Acked, Close, Joined, history
<1> QED BY <1>1, <1>2, <1>3, <1>4, <1>5, <1>6 DEF Next, LogThread

LEMMA HeldNext ==
  ASSUME IInv, Next, NEW p \in Procs, NEW t \in Threads,
         ~ ((Pop(t) \/ Do(t)) /\ p = At(t))
  PROVE  Held(p, t)' = Held(p, t) /\ (Held(p, t) = 1 => thr'[t] = thr[t])
<1>0. Types /\ Listed
  BY DEF IInv
<1>1. CASE thr'[t] = thr[t]
  <2>1. At(t)' = At(t)
    BY <1>1, AtNext
  <2> QED BY <1>1, <2>1 DEF Held
<1>2. CASE Pop(t) \/ Do(t)
  <2>1. thr'[t].at = thr[t].at
    <3>1. CASE Pop(t)
      BY <1>0, <3>1, PopEffect
    <3>2. CASE Do(t)
      BY <1>0, <3>2 DEF Do, Types, ThrRec
    <3> QED BY <1>2, <3>1, <3>2
  <2>2. At(t)' = At(t) /\ At(t) # p
    BY <1>2, <2>1, AtNext
  <2> QED BY <2>2 DEF Held
<1>3. CASE (PopNone(t) \/ GiveBack(t)) /\ Goes(thr[t], thr'[t])
  <2>1. thr'[t].pc \in {"pass", "over"} /\ thr[t].pc \in {"pass", "back"}
    BY <1>3 DEF Goes, PopNone, GiveBack, Visits
  <2> QED BY <2>1 DEF Held
<1> QED BY <1>1, <1>2, <1>3, ThrNext

LEMMA OrderStays ==
  ASSUME NEW p, NEW t, Ordered(p, t), done'[p][t] = done[p][t], posted'[p][t] = posted[p][t],
         cmdQ'[p][t] = cmdQ[p][t], Held(p, t)' = Held(p, t),
         Held(p, t) = 1 => thr'[t].cmd = thr[t].cmd /\ cmd'[thr[t].cmd] = cmd[thr[t].cmd],
         \A i \in 1 .. Len(cmdQ[p][t]) : cmd'[cmdQ[p][t][i]] = cmd[cmdQ[p][t][i]]
  PROVE  Ordered(p, t)'
<1>1. \A i \in 1 .. Len(done'[p][t]) : done'[p][t][i] = i
  BY DEF Ordered
<1>2. Len(done'[p][t]) + Held(p, t)' + Len(cmdQ'[p][t]) = posted'[p][t]
  BY DEF Ordered
<1>3. Held(p, t)' = 1 => cmd'[thr'[t].cmd].no = Len(done'[p][t]) + 1
  BY DEF Ordered
<1>4. \A i \in 1 .. Len(cmdQ'[p][t]) :
        cmd'[cmdQ'[p][t][i]].no = Len(done'[p][t]) + Held(p, t)' + i
  BY DEF Ordered
<1> QED BY <1>1, <1>2, <1>3, <1>4 DEF Ordered

LEMMA GivesOrder ==
  ASSUME IInv, Next, NEW p \in Procs, NEW t \in Threads, NEW k \in Cmds, Gives(p, t, k)
  PROVE  Ordered(p, t)'
<1>0. RingTypes /\ Ordered(p, t)
  BY DEF IInv, Types, InOrder
<1>1. /\ cmd[k].no = posted[p][t] + 1
      /\ cmdQ'[p][t] = Append(cmdQ[p][t], k) /\ posted'[p][t] = posted[p][t] + 1
      /\ cmd' = cmd /\ thr' = thr /\ list' = list /\ done' = done
  BY GivesEffect
<1>2. Held(p, t)' = Held(p, t) /\ Held(p, t) \in {0, 1}
  BY <1>1 DEF Held, At
<1> DEFINE s == cmdQ[p][t]
           s2 == cmdQ'[p][t]
           n == Len(s)
           h == Held(p, t)
           d == done[p][t]
<1>3. s \in Seq(Cmds) /\ d \in Seq(Nat)
  BY <1>0, QueuesAt
<1>4. n \in Nat /\ Len(s2) = n + 1 /\ (\A i \in 1 .. n : s2[i] = s[i]) /\ s2[n + 1] = k
  BY <1>1, <1>3, Appended
<1>5. Len(d) \in Nat
  BY <1>3, LenProperties
<1>6. /\ \A i \in 1 .. Len(d) : d[i] = i
      /\ Len(d) + h + n = posted[p][t]
      /\ h = 1 => cmd[thr[t].cmd].no = Len(d) + 1
      /\ \A i \in 1 .. n : cmd[s[i]].no = Len(d) + h + i
  BY <1>0 DEF Ordered
<1>7. \A i \in 1 .. n + 1 : cmd[s2[i]].no = Len(d) + h + i
  <2> HIDE DEF s, s2, n, h, d
  <2> TAKE i \in 1 .. n + 1
  <2>1. CASE i \in 1 .. n
    BY <1>4, <1>6, <2>1
  <2>2. CASE i = n + 1
    <3>1. cmd[s2[i]].no = posted[p][t] + 1
      BY <1>1, <1>4, <2>2
    <3>2. h \in {0, 1}
      BY <1>2 DEF h
    <3> QED BY <1>4, <1>5, <1>6, <2>2, <3>1, <3>2
  <2> QED BY <1>4, <2>1, <2>2
<1>8. Len(d) + h + (n + 1) = posted[p][t] + 1
  <2> HIDE DEF s, n, h, d
  <2>1. h \in {0, 1}
    BY <1>2 DEF h
  <2> QED BY <1>4, <1>5, <1>6, <2>1
<1> QED BY <1>1, <1>2, <1>4, <1>6, <1>7, <1>8 DEF Ordered

LEMMA PopOrder ==
  ASSUME IInv, Next, NEW p \in Procs, NEW t \in Threads, Pop(t), p = At(t)
  PROVE  Ordered(p, t)'
<1>0. Types /\ RingTypes /\ Listed /\ Ordered(p, t)
  BY DEF IInv, Types, InOrder
<1>1. /\ cmdQ[p][t] # <<>> /\ cmdQ'[p][t] = Tail(cmdQ[p][t])
      /\ thr[t].pc = "pass" /\ thr'[t].pc = "do" /\ thr'[t].at = thr[t].at
      /\ thr'[t].cmd = Head(cmdQ[p][t])
  BY <1>0, PopEffect
<1>2. cmd' = cmd /\ posted' = posted /\ done' = done
  BY DEF Pop, history
<1>3. At(t)' = p
  BY <1>1, AtNext
<1>4. Held(p, t)' = 1 /\ Held(p, t) = 0
  BY <1>1, <1>3 DEF Held
<1> DEFINE s == cmdQ[p][t]
           s2 == cmdQ'[p][t]
           n == Len(s)
           d == done[p][t]
<1>5. s \in Seq(Cmds) /\ d \in Seq(Nat)
  BY <1>0, QueuesAt
<1>6. /\ n \in Nat \ {0} /\ Len(s2) = n - 1 /\ thr'[t].cmd = s[1]
      /\ \A i \in 1 .. n - 1 : s2[i] = s[i + 1]
  BY <1>1, <1>5, Tails
<1>7. Len(d) \in Nat
  BY <1>5, LenProperties
<1>8. /\ \A i \in 1 .. Len(d) : d[i] = i
      /\ Len(d) + 0 + n = posted[p][t]
      /\ \A i \in 1 .. n : cmd[s[i]].no = Len(d) + 0 + i
  BY <1>0, <1>4 DEF Ordered
<1>9. cmd[thr'[t].cmd].no = Len(d) + 1
  <2> HIDE DEF s, s2, n, d
  <2>1. 1 \in 1 .. n
    BY <1>6
  <2> QED BY <1>6, <1>7, <1>8, <2>1
<1>10. \A i \in 1 .. n - 1 : cmd[s2[i]].no = Len(d) + 1 + i
  <2> HIDE DEF s, s2, n, d
  <2> TAKE i \in 1 .. n - 1
  <2>1. i + 1 \in 1 .. n
    BY <1>6
  <2>2. cmd[s2[i]].no = Len(d) + 0 + (i + 1)
    BY <1>6, <1>8, <2>1
  <2> QED BY <1>6, <1>7, <2>2
<1>11. Len(d) + 1 + (n - 1) = posted[p][t]
  <2> HIDE DEF s, n, d
  <2> QED BY <1>6, <1>7, <1>8
<1>12. \A i \in 1 .. Len(done'[p][t]) : done'[p][t][i] = i
  BY <1>2, <1>8
<1>13. Len(done'[p][t]) + Held(p, t)' + Len(cmdQ'[p][t]) = posted'[p][t]
  BY <1>2, <1>4, <1>6, <1>11
<1>14. cmd'[thr'[t].cmd].no = Len(done'[p][t]) + 1
  BY <1>2, <1>9
<1>15. \A i \in 1 .. Len(cmdQ'[p][t]) :
         cmd'[cmdQ'[p][t][i]].no = Len(done'[p][t]) + Held(p, t)' + i
  <2>1. Len(cmdQ'[p][t]) = n - 1 /\ Len(done'[p][t]) = Len(d)
    BY <1>2, <1>6
  <2> QED BY <1>2, <1>4, <1>10, <2>1
<1> QED BY <1>12, <1>13, <1>14, <1>15 DEF Ordered

LEMMA DoOrder ==
  ASSUME IInv, Next, NEW p \in Procs, NEW t \in Threads, Do(t), p = At(t)
  PROVE  Ordered(p, t)'
<1>0. Types /\ RingTypes /\ Listed /\ Ordered(p, t)
  BY DEF IInv, Types, InOrder
<1>1. PICK k \in Cmds, l \in Loggers : k = thr[t].cmd /\ l = cmd[k].logger
  BY DoWhat
<1>2. /\ thr[t].pc = "do" /\ thr'[t].pc = "back" /\ cmd[k].no \in Nat
      /\ done'[p][t] = Append(done[p][t], cmd[k].no)
  <2>1. thr[t].pc = "do" /\ thr'[t].pc = "back"
    BY <1>1, DoWhat
  <2>2. cmd[k].no \in Nat
    BY <1>1, DoWhat DEF CmdRec
  <2>3. done'[p][t] = Append(done[p][t], cmd[k].no)
    <3>1. k = thr[t].cmd /\ l = cmd[k].logger
      BY <1>1
    <3> HIDE <1>0, <1>1
    <3> QED BY <3>1, DoEffect, SMTT(30)
  <2> QED BY <2>1, <2>2, <2>3
<1>3. cmd' = cmd /\ posted' = posted /\ cmdQ' = cmdQ
  BY DEF Do, rings
<1>4. Held(p, t) = 1 /\ Held(p, t)' = 0
  BY <1>2 DEF Held
<1> DEFINE s == cmdQ[p][t]
           n == Len(s)
           d == done[p][t]
           d2 == done'[p][t]
<1>5. s \in Seq(Cmds) /\ d \in Seq(Nat)
  BY <1>0, QueuesAt
<1>6. Len(d) \in Nat /\ n \in Nat
  BY <1>5, LenProperties
<1>7. Len(d2) = Len(d) + 1 /\ (\A i \in 1 .. Len(d) : d2[i] = d[i]) /\ d2[Len(d) + 1] = cmd[k].no
  BY <1>2, <1>5, Appended
<1>8. /\ \A i \in 1 .. Len(d) : d[i] = i
      /\ Len(d) + 1 + n = posted[p][t]
      /\ cmd[k].no = Len(d) + 1
      /\ \A i \in 1 .. n : cmd[s[i]].no = Len(d) + 1 + i
  BY <1>0, <1>1, <1>4 DEF Ordered
<1>9. \A i \in 1 .. Len(d2) : d2[i] = i
  <2> HIDE DEF d, d2
  <2> QED BY <1>6, <1>7, <1>8
<1>10. Len(d2) + 0 + n = posted[p][t] /\ \A i \in 1 .. n : cmd[s[i]].no = Len(d2) + 0 + i
  <2> HIDE DEF s, n, d, d2
  <2> QED BY <1>6, <1>7, <1>8
<1>11. Len(done'[p][t]) + Held(p, t)' + Len(cmdQ'[p][t]) = posted'[p][t]
  BY <1>3, <1>4, <1>10
<1>12. Held(p, t)' # 1
  BY <1>4
<1>13. \A i \in 1 .. Len(cmdQ'[p][t]) :
         cmd'[cmdQ'[p][t][i]].no = Len(done'[p][t]) + Held(p, t)' + i
  BY <1>3, <1>4, <1>10
<1> QED BY <1>9, <1>11, <1>12, <1>13 DEF Ordered

LEMMA InOrderNext ==
  ASSUME IInv, Next
  PROVE  InOrder'
<1> SUFFICES ASSUME NEW p \in Procs, NEW t \in Threads PROVE Ordered(p, t)'
  BY DEF InOrder
<1>0. Types /\ Listed /\ Ordered(p, t) /\ InOrder
  BY DEF IInv, InOrder
<1>1. CASE (Pop(t) \/ Do(t)) /\ p = At(t)
  BY <1>1, PopOrder, DoOrder
<1>2. CASE \E k \in Cmds : Gives(p, t, k)
  BY <1>2, GivesOrder
<1>3. CASE ~ ((Pop(t) \/ Do(t)) /\ p = At(t)) /\ ~ \E k \in Cmds : Gives(p, t, k)
  <2>1. done'[p][t] = done[p][t]
    BY <1>3, DoneNext
  <2>2. Held(p, t)' = Held(p, t) /\ (Held(p, t) = 1 => thr'[t] = thr[t])
    BY <1>3, HeldNext
  <2>3. cmdQ'[p][t] = cmdQ[p][t] /\ posted'[p][t] = posted[p][t]
    <3>1. ASSUME NEW q \in Procs, NEW u \in Threads, NEW k \in Cmds, Gives(q, u, k)
          PROVE  cmdQ'[p][t] = cmdQ[p][t] /\ posted'[p][t] = posted[p][t]
      <4>1. ~ (p = q /\ t = u)
        BY <1>3, <3>1
      <4> QED BY <3>1, <4>1, GivesEffect
    <3>2. ASSUME NEW u \in Threads, Pop(u) PROVE cmdQ'[p][t] = cmdQ[p][t]
      <4>1. ~ (p = At(u) /\ t = u)
        BY <1>3, <3>2
      <4> QED BY <1>0, <3>2, <4>1, PopEffect
    <3>3. CASE Joined
      BY <3>3, JoinedNone DEF history
    <3> QED BY <3>1, <3>2, <3>3, QueueNext
  <2>4. Held(p, t) = 1 => thr'[t].cmd = thr[t].cmd /\ cmd'[thr[t].cmd] = cmd[thr[t].cmd]
    <3>1. SUFFICES ASSUME Held(p, t) = 1 PROVE cmd'[thr[t].cmd] = cmd[thr[t].cmd]
      BY <2>2
    <3>2. thr[t].pc = "do"
      BY <3>1 DEF Held
    <3>3. PICK k \in Cmds : k = thr[t].cmd
      BY <1>0, <3>2 DEF Listed
    <3>4. Under(k)
      BY <3>2, <3>3 DEF Under
    <3>5. ~Joined
      BY <3>4, JoinedNone
    <3> QED BY <3>3, <3>4, <3>5, UnderKept, CmdNext
  <2>5. ASSUME NEW i \in 1 .. Len(cmdQ[p][t])
        PROVE  cmd'[cmdQ[p][t][i]] = cmd[cmdQ[p][t][i]]
    <3>1. cmdQ[p][t] \in Seq(Cmds)
      BY <1>0, QueuesAt DEF Types
    <3>2. PICK k \in Cmds : k = cmdQ[p][t][i] /\ k \in Elems(cmdQ[p][t])
      BY <3>1, Domain
    <3>3. Under(k)
      BY <3>2 DEF Under
    <3>4. ~Joined
      BY <3>3, JoinedNone
    <3> QED BY <3>2, <3>3, <3>4, UnderKept, CmdNext
  <2> QED BY <1>0, <2>1, <2>2, <2>3, <2>4, <2>5, OrderStays
<1> QED BY <1>1, <1>2, <1>3

-----------------------------------------------------------------------------
(***************************************************************************)
(* The counts of a logger.                                                 *)
(***************************************************************************)
LEMMA OneMore ==
  ASSUME NEW S, IsFiniteSet(S), NEW x, x \notin S
  PROVE  Cardinality(S) \in Nat /\ Cardinality(S \cup {x}) = Cardinality(S) + 1
BY FS_AddElement, FS_CardinalityType

LEMMA OneLess ==
  ASSUME NEW S, IsFiniteSet(S), NEW x \in S
  PROVE  Cardinality(S) \in Nat /\ Cardinality(S \ {x}) = Cardinality(S) - 1
BY FS_RemoveElement, FS_CardinalityType

LEMMA Counts ==
  ASSUME IInv, NEW l \in Loggers
  PROVE  /\ IsFiniteSet(Counting(l)) /\ IsFiniteSet(Waiting(l))
         /\ Cardinality(Counting(l)) \in Nat /\ Cardinality(Waiting(l)) \in Nat
         /\ log[l].req \in Nat /\ log[l].reqMt \in Nat /\ log[l].ack \in Nat
         /\ log[l].req + log[l].reqMt + Cardinality(Counting(l))
              = log[l].ack + Cardinality(Waiting(l))
<1>1. Counting(l) \subseteq Procs /\ Waiting(l) \subseteq Cmds
  BY DEF Counting, Waiting
<1>2. IsFiniteSet(Counting(l)) /\ IsFiniteSet(Waiting(l))
  BY <1>1, Consts, FS_Subset
<1>3. Cardinality(Counting(l)) \in Nat /\ Cardinality(Waiting(l)) \in Nat
  BY <1>2, FS_CardinalityType
<1>4. log[l].req \in Nat /\ log[l].reqMt \in Nat /\ log[l].ack \in Nat
  BY DEF IInv, Types, LogRec
<1> QED BY <1>2, <1>3, <1>4 DEF IInv, Balance, Balanced

LEMMA SameBalance ==
  ASSUME IInv, NEW l \in Loggers, Counting(l)' = Counting(l), Waiting(l)' = Waiting(l),
         log'[l].req = log[l].req, log'[l].reqMt = log[l].reqMt, log'[l].ack = log[l].ack
  PROVE  Balanced(l)'
BY DEF IInv, Balance, Balanced

LEMMA WaitingNext ==
  ASSUME IInv, Next, NEW l \in Loggers, \A q \in Procs : ~Push(q), \A t \in Threads : ~Do(t)
  PROVE  Waiting(l)' = Waiting(l)
<1>1. ASSUME NEW k \in Cmds, Under(k)', cmd'[k].option # "close" PROVE Under(k)
  <2>1. ASSUME NEW q \in Procs, NEW u \in Threads, Gives(q, u, k) PROVE FALSE
    <3>1. k = main.cmd /\ main.pc = "close" /\ cmd' = cmd
      BY <2>1 DEF Gives, Close
    <3>2. cmd[k].option = "close"
      BY <3>1 DEF IInv, InCalls, Closing
    <3> QED BY <1>1, <3>1, <3>2
  <2> QED BY <1>1, <2>1, UnderNext
<1>2. \A k \in Cmds : Under(k) => Under(k)'
  BY UnderNext
<1>3. \A k \in Cmds : Under(k)' => cmd'[k] = cmd[k]
  BY UnderNext
<1>4. ASSUME NEW k \in Cmds
      PROVE  (Under(k)' /\ cmd'[k].option # "close" /\ cmd'[k].logger = l)
             <=> (Under(k) /\ cmd[k].option # "close" /\ cmd[k].logger = l)
  BY <1>1, <1>2, <1>3
<1>5. Waiting(l)' = {k \in Cmds : Under(k)' /\ cmd'[k].option # "close" /\ cmd'[k].logger = l}
  BY DEF Waiting
<1> QED BY <1>4, <1>5 DEF Waiting

LEMMA CountingNext ==
  ASSUME IInv, Next, NEW l \in Loggers, \A q \in Procs : ~Push(q) /\ ~Count(q)
  PROVE  Counting(l)' = Counting(l)
<1>0. Types
  BY DEF IInv
<1>1. ASSUME NEW p \in Procs, post'[p].pc = "count" PROVE post'[p] = post[p]
  <2>1. Calling(p)'
    BY <1>1 DEF Calling
  <2>2. ASSUME NEW m \in Loggers, NEW o \in Options[m], Post(p, m, o) PROVE FALSE
    <3>1. \E g \in Cmds : post'[p] = [pc |-> "push", cmd |-> g, logger |-> m]
      BY <2>2, PostEffect
    <3> QED BY <1>1, <3>1
  <2> QED BY <2>1, <2>2, PostNext
<1>2. ASSUME NEW p \in Procs, post[p].pc = "count" PROVE post'[p] = post[p]
  <2>1. ASSUME NEW q \in Procs, Exit(q) PROVE post'[p] = post[p]
    <3>1. post' = [post EXCEPT ![q].pc = "over"] /\ post[q].pc = "idle"
      BY <2>1 DEF Exit
    <3>2. q # p /\ \A r \in Procs \ {q} : post'[r] = post[r]
      BY <1>0, <1>2, <3>1, PostSet
    <3> QED BY <3>2
  <2>2. ASSUME NEW q \in Procs, PushFull(q) PROVE post'[p] = post[p]
    <3>1. (post' = post \/ post' = [post EXCEPT ![q] = Idle]) /\ post[q].pc = "push"
      BY <2>2 DEF PushFull
    <3>2. q # p /\ (post' = post \/ \A r \in Procs \ {q} : post'[r] = post[r])
      BY <1>0, <1>2, <3>1, IdleRec, PostSet
    <3> QED BY <3>2
  <2>3. ASSUME NEW q \in Procs, NEW m \in Loggers, NEW o \in Options[m], Post(q, m, o)
        PROVE  post'[p] = post[p]
    <3>1. post[q].pc = "idle" /\ \A r \in Procs \ {q} : post'[r] = post[r]
      BY <2>3, PostEffect
    <3>2. q # p
      BY <1>2, <3>1
    <3> QED BY <3>1, <3>2
  <2>4. ASSUME NEW q \in Procs, Register(q) PROVE post' = post
    BY <2>4 DEF Register
  <2>5. ASSUME NEW m \in Loggers, Destroy(m) PROVE post' = post
    BY <2>5 DEF Destroy
  <2>6. CASE PrintThread \/ Stop \/ MainDoes
    BY <2>6 DEF PrintThread, PrintLine, PrintWait, Stop, MainDoes, Acked, Close, Joined
  <2>7. ASSUME NEW t \in Threads, LogThread(t) PROVE post' = post
    BY <2>7 DEF LogThread, Pop, PopNone, Do, GiveBack
  <2> QED BY <2>1, <2>2, <2>3, <2>4, <2>5, <2>6, <2>7 DEF Next, Calls
<1>3. Counting(l)' = {p \in Procs : post'[p].pc = "count" /\ post'[p].logger = l}
  BY DEF Counting
<1> QED BY <1>1, <1>2, <1>3 DEF Counting

LEMMA PushBalance ==
  ASSUME IInv, Next, NEW q \in Procs, Push(q), NEW l \in Loggers
  PROVE  Balanced(l)'
<1>1. PICK m \in Loggers, u \in Threads, k \in Cmds :
        m = post[q].logger /\ u = ThreadOf[m] /\ k = post[q].cmd
  BY PostGiven DEF Push
<1>2. Gives(q, u, k)
  BY <1>1 DEF Gives
<1>3. post[q].pc = "push" /\ log' = log /\ cmd' = cmd /\ post' = [post EXCEPT ![q].pc = "count"]
  BY DEF Push
<1>4. cmd[k].option \in Known /\ cmd[k].logger = m
  BY <1>1, <1>3 DEF IInv, InCalls
<1>5. \A j \in Cmds : Under(j)' <=> Under(j) \/ j = k
  BY <1>2, UnderGives
<1>6. ~Under(k)
  <2>1. InHand(k, q)
    BY <1>1, <1>3 DEF InHand
  <2>2. \A p \in Procs, t \in Threads : ~InWork(k, t) /\ ~InQue(k, p, t)
    BY <2>1, Apart
  <2> QED BY <2>2 DEF Under, InWork, InQue
<1>7. post'[q].pc = "count" /\ post'[q].logger = m /\ \A p \in Procs \ {q} : post'[p] = post[p]
  BY <1>1, <1>3, PostSet DEF IInv
<1>8. /\ Waiting(l)' = {j \in Cmds : Under(j)' /\ cmd'[j].option # "close" /\ cmd'[j].logger = l}
      /\ Counting(l)' = {p \in Procs : post'[p].pc = "count" /\ post'[p].logger = l}
  BY DEF Waiting, Counting
<1>9. CASE l # m
  <2>1. Waiting(l)' = Waiting(l)
    BY <1>3, <1>4, <1>5, <1>8, <1>9 DEF Waiting
  <2>2. Counting(l)' = Counting(l)
    BY <1>1, <1>3, <1>7, <1>8, <1>9 DEF Counting
  <2> QED BY <1>3, <2>1, <2>2, SameBalance
<1>10. CASE l = m
  <2>1. Waiting(l)' = Waiting(l) \cup {k} /\ k \notin Waiting(l)
    <3>1. cmd[k].option # "close"
      BY <1>4 DEF Known
    <3> QED BY <1>3, <1>4, <1>5, <1>6, <1>8, <1>10, <3>1 DEF Waiting
  <2>2. Counting(l)' = Counting(l) \cup {q} /\ q \notin Counting(l)
    BY <1>3, <1>7, <1>8, <1>10 DEF Counting
  <2>3. /\ IsFiniteSet(Counting(l)) /\ IsFiniteSet(Waiting(l))
        /\ Cardinality(Counting(l)) \in Nat /\ Cardinality(Waiting(l)) \in Nat
        /\ log[l].req \in Nat /\ log[l].reqMt \in Nat /\ log[l].ack \in Nat
        /\ log[l].req + log[l].reqMt + Cardinality(Counting(l))
             = log[l].ack + Cardinality(Waiting(l))
    BY Counts
  <2>4. Cardinality(Waiting(l)') = Cardinality(Waiting(l)) + 1
    BY <2>1, <2>3, OneMore
  <2>5. Cardinality(Counting(l)') = Cardinality(Counting(l)) + 1
    BY <2>2, <2>3, OneMore
  <2>6. log[l].req + log[l].reqMt + Cardinality(Counting(l)')
          = log[l].ack + Cardinality(Waiting(l)')
    BY <2>3, <2>4, <2>5
  <2> QED BY <1>3, <2>6 DEF Balanced
<1> QED BY <1>9, <1>10

LEMMA CountBalance ==
  ASSUME IInv, NEW q \in Procs, Count(q), NEW l \in Loggers
  PROVE  Balanced(l)'
<1>1. PICK m \in Loggers : m = post[q].logger
  BY CountEffect
<1>2. /\ post[q].pc = "count"
      /\ log' \in [Loggers -> LogRec]
      /\ \A n \in Loggers :
           /\ log'[n].ack = log[n].ack
           /\ n # m => log'[n] = log[n]
           /\ n = m => log'[n].req + log'[n].reqMt = log[n].req + log[n].reqMt + 1
      /\ post'[q].pc = "idle" /\ \A p \in Procs \ {q} : post'[p] = post[p]
  BY <1>1, CountEffect, IdleRec
<1>3. UNCHANGED <<cmd, cmdQ, thr>>
  BY DEF Count, rings
<1>4. Waiting(l)' = Waiting(l)
  BY <1>3 DEF Waiting, Under, Elems
<1>5. Counting(l)' = {p \in Procs : post'[p].pc = "count" /\ post'[p].logger = l}
  BY DEF Counting
<1>6. CASE l # m
  <2>1. Counting(l)' = Counting(l)
    BY <1>1, <1>2, <1>5, <1>6 DEF Counting
  <2> QED BY <1>2, <1>4, <1>6, <2>1, SameBalance
<1>7. CASE l = m
  <2>1. Counting(l)' = Counting(l) \ {q} /\ q \in Counting(l)
    BY <1>1, <1>2, <1>5, <1>7 DEF Counting
  <2>2. /\ IsFiniteSet(Counting(l))
        /\ Cardinality(Counting(l)) \in Nat /\ Cardinality(Waiting(l)) \in Nat
        /\ log[l].req \in Nat /\ log[l].reqMt \in Nat /\ log[l].ack \in Nat
        /\ log[l].req + log[l].reqMt + Cardinality(Counting(l))
             = log[l].ack + Cardinality(Waiting(l))
    BY Counts
  <2>3. Cardinality(Counting(l)') = Cardinality(Counting(l)) - 1
    BY <2>1, <2>2, OneLess
  <2>4. log'[l].req + log'[l].reqMt = log[l].req + log[l].reqMt + 1 /\ log'[l].ack = log[l].ack
    BY <1>2, <1>7
  <2>5. log'[l].req \in Nat /\ log'[l].reqMt \in Nat
    BY <1>2 DEF LogRec
  <2>6. log'[l].req + log'[l].reqMt + Cardinality(Counting(l)')
          = log'[l].ack + Cardinality(Waiting(l)')
    BY <1>4, <2>2, <2>3, <2>4, <2>5
  <2> QED BY <2>6 DEF Balanced
<1> QED BY <1>6, <1>7

LEMMA DoUnder == \* a command that is done is no longer under way
  ASSUME IInv, NEW t \in Threads, Do(t), NEW k \in Cmds, k = thr[t].cmd
  PROVE  \A j \in Cmds : Under(j)' <=> Under(j) /\ j # k
<1>1. PICK l \in Loggers :
        /\ thr[t].pc = "do" /\ InWork(k, t) /\ Under(k)
        /\ thr'[t].pc = "back" /\ \A u \in Threads \ {t} : thr'[u] = thr[u]
        /\ cmdQ' = cmdQ
  BY DoWhat
<1>2. \A q \in Procs, u \in Threads : ~InQue(k, q, u) /\ (InWork(k, u) => u = t)
  BY <1>1, Apart
<1>3. \A j, p, u : j \in Elems(cmdQ[p][u])' <=> j \in Elems(cmdQ[p][u])
  BY <1>1 DEF Elems
<1>4. ~Under(k)'
  <2>1. \A p \in Procs, u \in Threads : k \notin Elems(cmdQ[p][u])
    BY <1>2 DEF InQue
  <2>2. \A u \in Threads : ~ (thr'[u].pc = "do" /\ thr'[u].cmd = k)
    <3>1. \A u \in Threads : InWork(k, u) => u = t
      BY <1>2, Consts
    <3>2. ~ (thr'[t].pc = "do")
      BY <1>1
    <3>3. ASSUME NEW u \in Threads \ {t} PROVE ~ (thr'[u].pc = "do" /\ thr'[u].cmd = k)
      BY <1>1, <3>1, <3>3 DEF InWork
    <3> QED BY <3>2, <3>3
  <2> QED BY <1>3, <2>1, <2>2 DEF Under
<1>5. ASSUME NEW j \in Cmds \ {k} PROVE Under(j)' <=> Under(j)
  <2>1. \A u \in Threads : thr'[u].pc = "do" /\ thr'[u].cmd = j <=> thr[u].pc = "do" /\ thr[u].cmd = j
    BY <1>1, <1>5
  <2> QED BY <1>3, <2>1 DEF Under
<1> QED BY <1>4, <1>5

LEMMA DoBalance ==
  ASSUME IInv, NEW t \in Threads, Do(t), NEW l \in Loggers
  PROVE  Balanced(l)'
<1>1. PICK k \in Cmds, m \in Loggers :
        /\ k = thr[t].cmd /\ m = cmd[k].logger /\ Under(k)
        /\ \A n \in Loggers \ {m} : log'[n] = log[n]
        /\ log'[m].req = log[m].req /\ log'[m].reqMt = log[m].reqMt
        /\ cmd[k].option = "close" => log'[m].ack = log[m].ack
        /\ cmd[k].option # "close" => log'[m].ack = log[m].ack + 1
        /\ UNCHANGED <<cmd, post>>
  BY DoWhat
<1>2. \A j \in Cmds : Under(j)' <=> Under(j) /\ j # k
  BY <1>1, DoUnder
<1>3. Counting(l)' = Counting(l)
  BY <1>1 DEF Counting
<1>4. Waiting(l)' = {j \in Cmds : Under(j)' /\ cmd[j].option # "close" /\ cmd[j].logger = l}
  BY <1>1 DEF Waiting
<1>5. CASE l # m
  <2>1. Waiting(l)' = Waiting(l)
    BY <1>1, <1>2, <1>4, <1>5 DEF Waiting
  <2> QED BY <1>1, <1>3, <1>5, <2>1, SameBalance
<1>6. CASE cmd[k].option = "close"
  <2>1. Waiting(l)' = Waiting(l)
    BY <1>2, <1>4, <1>6 DEF Waiting
  <2>2. /\ log'[l].req = log[l].req /\ log'[l].reqMt = log[l].reqMt
        /\ log'[l].ack = log[l].ack
    BY <1>1, <1>6
  <2> QED BY <1>3, <2>1, <2>2, SameBalance
<1>7. CASE l = m /\ cmd[k].option # "close"
  <2>1. Waiting(l)' = Waiting(l) \ {k} /\ k \in Waiting(l)
    BY <1>1, <1>2, <1>4, <1>7 DEF Waiting
  <2>2. /\ IsFiniteSet(Waiting(l))
        /\ Cardinality(Counting(l)) \in Nat /\ Cardinality(Waiting(l)) \in Nat
        /\ log[l].req \in Nat /\ log[l].reqMt \in Nat /\ log[l].ack \in Nat
        /\ log[l].req + log[l].reqMt + Cardinality(Counting(l))
             = log[l].ack + Cardinality(Waiting(l))
    BY Counts
  <2>3. Cardinality(Waiting(l)') = Cardinality(Waiting(l)) - 1
    BY <2>1, <2>2, OneLess
  <2>4. /\ log'[l].req = log[l].req /\ log'[l].reqMt = log[l].reqMt
        /\ log'[l].ack = log[l].ack + 1
    BY <1>1, <1>7
  <2>5. log'[l].req + log'[l].reqMt + Cardinality(Counting(l)')
          = log'[l].ack + Cardinality(Waiting(l)')
    BY <1>3, <2>2, <2>3, <2>4
  <2> QED BY <2>5 DEF Balanced
<1> QED BY <1>5, <1>6, <1>7

LEMMA BalanceNext ==
  ASSUME IInv, Next
  PROVE  Balance'
<1> SUFFICES ASSUME NEW l \in Loggers PROVE Balanced(l)'
  BY DEF Balance
<1>1. CASE \E q \in Procs : Push(q)
  BY <1>1, PushBalance
<1>2. CASE \E q \in Procs : Count(q)
  BY <1>2, CountBalance
<1>3. CASE \E t \in Threads : Do(t)
  BY <1>3, DoBalance
<1>4. CASE (\A q \in Procs : ~Push(q) /\ ~Count(q)) /\ \A t \in Threads : ~Do(t)
  <2>1. Counting(l)' = Counting(l)
    BY <1>4, CountingNext
  <2>2. Waiting(l)' = Waiting(l)
    BY <1>4, WaitingNext
  <2>3. /\ log'[l].req = log[l].req /\ log'[l].reqMt = log[l].reqMt
        /\ log'[l].ack = log[l].ack
    <3>1. CASE log' = log
      BY <3>1
    <3>2. ASSUME NEW m \in Loggers, Destroy(m)
          PROVE  /\ log'[l].req = log[l].req /\ log'[l].reqMt = log[l].reqMt
                 /\ log'[l].ack = log[l].ack
      BY <3>2, DestroyEffect
    <3> QED BY <1>4, <3>1, <3>2, LogNext
  <2> QED BY <2>1, <2>2, <2>3, SameBalance
<1> QED BY <1>1, <1>2, <1>3, <1>4

LEMMA CloserNext ==
  ASSUME IInv, Next, NEW k \in Cmds, NEW l \in Loggers, Closer(k, l)'
  PROVE  Closer(k, l) \/ (Destroy(l) /\ main'.cmd = k)
<1>0. Types
  BY DEF IInv
<1>1. CASE Under(k)'
  <2>1. cmd'[k] = cmd[k] /\ (Under(k) \/ \E q \in Procs, u \in Threads : Gives(q, u, k))
    BY <1>1, UnderNext
  <2>2. cmd[k].option = "close" /\ cmd[k].logger = l
    BY <2>1 DEF Closer
  <2>3. ASSUME NEW q \in Procs, NEW u \in Threads, Gives(q, u, k)
        PROVE  InMain(k)
    <3>1. CASE Push(q) /\ k = post[q].cmd
      <4>1. cmd[k].option \in Known
        BY <3>1 DEF Push, IInv, InCalls
      <4> QED BY <2>2, <4>1 DEF Known
    <3>2. CASE Close /\ k = main.cmd
      BY <3>2 DEF Close, InMain, Closing
    <3> QED BY <2>3, <3>1, <3>2 DEF Gives
  <2> QED BY <2>1, <2>2, <2>3 DEF Closer
<1>2. CASE InMain(k)'
  <2>1. Closing' /\ main'.cmd = k
    BY <1>2 DEF InMain, Closing
  <2>2. CASE InMain(k)
    <3>1. Kept(k) /\ ~Joined
      BY <2>1, <2>2, NotJoined DEF Kept
    <3>2. cmd'[k] = cmd[k]
      BY <3>1, CmdNext
    <3> QED BY <2>2, <3>2 DEF Closer
  <2>3. ASSUME NEW m \in Loggers, Destroy(m) PROVE m = l
    <3>1. PICK g \in Cmds :
            main'.cmd = g /\ cmd'[g] = [option |-> "close", logger |-> m, no |-> NextNo(Main, m)]
      BY <2>3, DestroyGets
    <3>2. cmd'[k].logger = m
      BY <2>1, <3>1
    <3> QED BY <3>2 DEF Closer
  <2>4. main' = main => InMain(k)
    BY <2>1 DEF InMain, Closing
  <2>5. Closing /\ main'.cmd = main.cmd => InMain(k)
    BY <2>1 DEF InMain
  <2> QED BY <2>1, <2>2, <2>3, <2>4, <2>5, MainNext
<1> QED BY <1>1, <1>2 DEF Closer

LEMMA EndingsNext ==
  ASSUME IInv, Next
  PROVE  Endings'
<1> SUFFICES ASSUME NEW l \in Loggers PROVE Ending(l)'
  BY DEF Endings
<1>0. /\ \A j, k \in Cmds : Closer(j, l) /\ Closer(k, l) => j = k
      /\ \A k \in Cmds : Closer(k, l) => log[l].state = "closing"
      /\ log[l].state # "open" /\ ~(main.pc = "wait" /\ main.logger = l) => Waiting(l) = {}
      /\ Types
  BY DEF IInv, Endings, Ending
<1>1. \A j, k \in Cmds : Closer(j, l)' /\ Closer(k, l)' => j = k
  <2>1. CASE Destroy(l)
    <3>1. \A k \in Cmds : ~Closer(k, l)
      BY <1>0, <2>1, DestroyEffect
    <3> QED BY <3>1, CloserNext
  <2>2. CASE ~Destroy(l)
    BY <1>0, <2>2, CloserNext
  <2> QED BY <2>1, <2>2
<1>2. ASSUME NEW k \in Cmds, Closer(k, l)' PROVE log'[l].state = "closing"
  <2>1. CASE Destroy(l)
    BY <2>1, DestroyEffect
  <2>2. CASE Closer(k, l) /\ ~Destroy(l)
    <3>1. ASSUME NEW t \in Threads, NEW j \in Cmds,
                 Do(t), j = thr[t].cmd, InWork(j, t), Closer(j, l)
          PROVE  FALSE
      <4>1. j = k
        BY <1>0, <2>2, <3>1
      <4>2. ~Under(k)'
        BY <3>1, <4>1, DoUnder
      <4>3. ~InMain(k)
        BY <3>1, <4>1, Apart, Consts
      <4>4. main' = main
        BY <3>1 DEF Do
      <4>5. ~InMain(k)'
        BY <4>3, <4>4 DEF InMain, Closing
      <4> QED BY <1>2, <4>2, <4>5 DEF Closer
    <3> QED BY <1>0, <2>2, <3>1, StateNext
  <2> QED BY <1>2, <2>1, <2>2, CloserNext
<1>3. ASSUME log'[l].state # "open", ~(main'.pc = "wait" /\ main'.logger = l)
      PROVE  Waiting(l)' = {}
  <2>0. ~Destroy(l)
    BY <1>3, DestroyGets
  <2>1. log[l].state # "open"
    <3>1. SUFFICES ASSUME log[l].state = "open" PROVE FALSE
      OBVIOUS
    <3>2. \A k \in Cmds : ~Closer(k, l)
      BY <1>0, <3>1
    <3> QED BY <1>3, <2>0, <3>1, <3>2, StateNext
  <2>2. Waiting(l) = {}
    <3>1. CASE main.pc = "wait" /\ main.logger = l
      <4>1. Acked
        <5>1. main' # main
          BY <1>3, <3>1
        <5>2. ~Close /\ ~Joined /\ ~Stop /\ \A m \in Loggers : ~Destroy(m)
          BY <3>1 DEF Close, Joined, Stop, Destroy
        <5> QED BY <5>1, <5>2, RunNext
      <4>2. log[l].req + log[l].reqMt = log[l].ack
        BY <3>1, <4>1 DEF Acked, AllAcked
      <4>3. Counting(l) = {}
        <5>1. \A p \in Procs : post[p].pc = "count" => log[post[p].logger].state = "open"
          BY DEF IInv, InCalls, Calling
        <5> QED BY <2>1, <5>1 DEF Counting
      <4>4. Cardinality(Counting(l)) = 0
        BY <4>3, FS_EmptySet
      <4>5. /\ IsFiniteSet(Waiting(l)) /\ Cardinality(Waiting(l)) \in Nat
            /\ log[l].req \in Nat /\ log[l].reqMt \in Nat /\ log[l].ack \in Nat
            /\ log[l].req + log[l].reqMt + Cardinality(Counting(l))
                 = log[l].ack + Cardinality(Waiting(l))
        BY Counts
      <4>6. Cardinality(Waiting(l)) = 0
        BY <4>2, <4>4, <4>5
      <4> QED BY <4>5, <4>6, FS_EmptySet
    <3>2. CASE ~ (main.pc = "wait" /\ main.logger = l)
      BY <1>0, <2>1, <3>2
    <3> QED BY <3>1, <3>2
  <2>3. ASSUME NEW k \in Waiting(l)' PROVE FALSE
    <3>1. k \in Cmds /\ Under(k)' /\ cmd'[k].option # "close" /\ cmd'[k].logger = l
      BY <2>3 DEF Waiting
    <3>2. cmd'[k] = cmd[k] /\ (Under(k) \/ \E q \in Procs, u \in Threads : Gives(q, u, k))
      BY <3>1, UnderNext
    <3>3. ~Under(k)
      BY <2>2, <3>1, <3>2 DEF Waiting
    <3>4. PICK q \in Procs, u \in Threads : Gives(q, u, k)
      BY <3>2, <3>3
    <3>5. CASE Push(q) /\ k = post[q].cmd
      <4>1. Calling(q) /\ cmd[k].logger = post[q].logger
        BY <3>5 DEF Push, Calling, IInv, InCalls
      <4>2. log[l].state = "open"
        BY <3>1, <3>2, <4>1, InCallOpen
      <4> QED BY <2>1, <4>2
    <3>6. CASE Close /\ k = main.cmd
      <4>1. cmd[k].option = "close"
        BY <3>6 DEF Close, IInv, InCalls, Closing
      <4> QED BY <3>1, <3>2, <4>1
    <3> QED BY <3>4, <3>5, <3>6 DEF Gives
  <2> QED BY <2>3
<1> QED BY <1>1, <1>2, <1>3 DEF Ending

-----------------------------------------------------------------------------
(***************************************************************************)
(* The invariant.                                                          *)
(***************************************************************************)
LEMMA InitTypes ==
  ASSUME Init
  PROVE  /\ Types
         /\ \A p \in Procs, t \in Threads :
              /\ cmdQ[p][t] = <<>> /\ rcyQ[p][t] = <<>> /\ rcyCache[p][t] = <<>>
              /\ done[p][t] = <<>> /\ posted[p][t] = 0
         /\ \A p \in Procs : post[p].pc = "idle"
         /\ \A t \in Threads : thr[t].pc = "pass" /\ thr[t].end = FALSE /\ thr[t].at = 1
<1>1. Main \in Procs /\ 1 \in Threads
  BY Consts
<1>2. <<>> \in Seq(Cmds) /\ <<>> \in Seq(Nat)
  BY EmptySeq
<1>3. RingTypes
  BY <1>2 DEF Init, RingTypes, Queues
<1>4. CmdTypes
  BY DEF Init, CmdTypes
<1>5. run \in BOOLEAN /\ list \in Seq(Procs)
  BY <1>1 DEF Init
<1>6. post \in [Procs -> PostRec] /\ main \in MainRec
  BY IdleRec DEF Init
<1>7. log \in [Loggers -> LogRec]
  BY DEF Init, LogRec
<1>8. thr \in [Threads -> ThrRec] /\ print \in [Threads -> Nat] /\ pr \in PrRec
  BY <1>1 DEF Init, ThrRec, PrRec
<1>9. \A p \in Procs, t \in Threads :
        /\ cmdQ[p][t] = <<>> /\ rcyQ[p][t] = <<>> /\ rcyCache[p][t] = <<>>
        /\ done[p][t] = <<>> /\ posted[p][t] = 0
  BY DEF Init
<1>10. \A p \in Procs : post[p].pc = "idle"
  BY IdleRec DEF Init
<1>11. \A t \in Threads : thr[t].pc = "pass" /\ thr[t].end = FALSE /\ thr[t].at = 1
  BY DEF Init
<1> QED BY <1>3, <1>4, <1>5, <1>6, <1>7, <1>8, <1>9, <1>10, <1>11 DEF Types

LEMMA InitHolds == Init => IInv
<1> SUFFICES ASSUME Init PROVE IInv
  OBVIOUS
<1>0. /\ Types
      /\ \A p \in Procs, t \in Threads :
           /\ cmdQ[p][t] = <<>> /\ rcyQ[p][t] = <<>> /\ rcyCache[p][t] = <<>>
           /\ done[p][t] = <<>> /\ posted[p][t] = 0
      /\ \A p \in Procs : post[p].pc = "idle"
      /\ \A t \in Threads : thr[t].pc = "pass" /\ thr[t].end = FALSE /\ thr[t].at = 1
      /\ main.pc = "idle" /\ pr.pc = "run" /\ run = TRUE
  BY InitTypes, IdleRec DEF Init
<1>1. (\A p \in Procs : ~Calling(p)) /\ ~Closing
  BY <1>0 DEF Calling, Closing
<1>2. InCalls
  BY <1>0, <1>1 DEF InCalls
<1>3. list = <<Main>> /\ Len(list) = 1 /\ list # <<>> /\ Main \in Registered
  BY DEF Init, Registered
<1>4. Listed
  BY <1>0, <1>3 DEF Listed
<1>5. \A p \in Procs, t \in Threads : Lane(p, t) = <<>>
  <2>1. <<>> \o <<>> = <<>>
    BY CatNone DEF Cat
  <2> QED BY <1>0, <2>1 DEF Lane, Cat
<1>6. ASSUME NEW k \in Cmds PROVE OnePlace(k) /\ Used(k)
  <2>1. \A c \in Kinds, p \in Procs, t \in Threads : ~ In(k, c, p, t)
    BY <1>0, <1>1, <1>5, NoElems DEF In, InHand, InMain, InWork, InQue, InBack
  <2> QED BY <2>1 DEF OnePlace, Used
<1>7. Alone
  BY <1>0, <1>5, <1>6, NoElems DEF Alone
<1>8. ASSUME NEW p \in Procs, NEW t \in Threads PROVE Ordered(p, t)
  <2>1. Held(p, t) = 0
    BY <1>0 DEF Held
  <2>2. Len(done[p][t]) = 0 /\ Len(cmdQ[p][t]) = 0 /\ posted[p][t] = 0
    BY <1>0, NoElems
  <2> QED BY <2>1, <2>2 DEF Ordered
<1>9. \A k : ~Under(k)
  BY <1>0, NoElems DEF Under
<1>10. ASSUME NEW l \in Loggers PROVE Balanced(l) /\ Ending(l)
  <2>1. log[l].state = "open" /\ log[l].req = 0 /\ log[l].reqMt = 0 /\ log[l].ack = 0
    BY DEF Init
  <2>2. Counting(l) = {} /\ Waiting(l) = {}
    BY <1>0, <1>9 DEF Counting, Waiting
  <2>3. Balanced(l)
    <3>1. Cardinality(Counting(l)) = 0 /\ Cardinality(Waiting(l)) = 0
      BY <2>2, FS_EmptySet
    <3> QED BY <2>1, <3>1 DEF Balanced
  <2>4. Ending(l)
    BY <1>1, <1>9, <2>1 DEF Ending, Closer, InMain
  <2> QED BY <2>3, <2>4
<1>11. LastPass
  BY <1>0 DEF LastPass
<1>12. Stopped
  BY <1>0 DEF Stopped
<1>13. Printed
  BY <1>0 DEF Printed
<1> QED BY <1>0, <1>2, <1>4, <1>7, <1>8, <1>10, <1>11, <1>12, <1>13
        DEF IInv, InOrder, Balance, Endings

LEMMA StutterHolds == IInv /\ UNCHANGED vars => IInv'
<1> SUFFICES ASSUME IInv, UNCHANGED vars PROVE IInv'
  OBVIOUS
<1>0. UNCHANGED <<run, list, cmdQ, rcyQ, rcyCache, cmd, post, log, thr, print, pr, main, posted, done>>
  BY DEF vars, rings, history
<1>1. Types'
  BY <1>0 DEF IInv, Types, RingTypes, CmdTypes
<1>2. Listed' /\ InCalls'
  <2>1. Registered' = Registered /\ \A p : Calling(p)' <=> Calling(p)
    BY <1>0 DEF Registered, Calling
  <2>2. Listed'
    BY <1>0, <2>1 DEF IInv, Listed
  <2>3. InCalls'
    BY <1>0, <2>1 DEF IInv, InCalls, Closing, NextNo
  <2> QED BY <2>2, <2>3
<1>3. Stopped' /\ Printed' /\ LastPass'
  <2>1. Stopped'
    BY <1>0 DEF IInv, Stopped, Over, Calling
  <2>2. Printed'
    BY <1>0 DEF IInv, Printed, Over
  <2>3. LastPass'
    BY <1>0 DEF IInv, LastPass
  <2> QED BY <2>1, <2>2, <2>3
<1>4. Alone'
  BY <1>0, SameAlone DEF InHand, InMain, Closing, InWork
<1>5. ASSUME NEW p \in Procs, NEW t \in Threads PROVE Ordered(p, t)'
  <2>1. Ordered(p, t)
    BY DEF IInv, InOrder
  <2>2. Held(p, t)' = Held(p, t)
    BY <1>0 DEF Held, At
  <2> QED BY <1>0, <2>1, <2>2, OrderStays
<1>6. \A k : Under(k)' <=> Under(k)
  BY <1>0 DEF Under, Elems
<1>7. ASSUME NEW l \in Loggers PROVE Balanced(l)' /\ Ending(l)'
  <2>1. Counting(l)' = Counting(l) /\ Waiting(l)' = Waiting(l)
    BY <1>0, <1>6 DEF Counting, Waiting
  <2>2. Balanced(l)'
    BY <1>0, <2>1, SameBalance
  <2>3. \A k : Closer(k, l)' <=> Closer(k, l)
    BY <1>0, <1>6 DEF Closer, InMain, Closing
  <2>4. Ending(l)'
    BY <1>0, <2>1, <2>3 DEF IInv, Endings, Ending
  <2> QED BY <2>2, <2>4
<1> QED BY <1>1, <1>2, <1>3, <1>4, <1>5, <1>7 DEF IInv, InOrder, Balance, Endings

LEMMA NextHolds == IInv /\ [Next]_vars => IInv'
<1>1. ASSUME IInv, Next PROVE IInv'
  BY <1>1, TypesNext, InCallsNext, ListedNext, AloneNext, InOrderNext, BalanceNext,
     EndingsNext, LastPassNext, StoppedNext, PrintedNext DEF IInv
<1> QED BY <1>1, StutterHolds

LEMMA Invariance == Spec => []IInv
BY InitHolds, NextHolds, PTL DEF Spec

-----------------------------------------------------------------------------
LEMMA UnderOpen == \* what is under way belongs to a logger that is there
  ASSUME IInv, NEW k, Under(k)
  PROVE  cmd[k] # Unused /\ log[cmd[k].logger].state # "freed"
<1>1. k \in Cmds /\ cmd[k] \in CmdRec /\ cmd[k].logger \in Loggers
  BY InUseRec DEF Under
<1>2. cmd[k].option # Unused.option
  BY <1>1 DEF CmdRec, Unused, Known
<1> PICK l \in Loggers : l = cmd[k].logger
  BY <1>1
<1>3. CASE cmd[k].option = "close"
  <2>1. Closer(k, l)
    BY <1>3 DEF Closer
  <2> QED BY <1>1, <1>2, <2>1 DEF IInv, Endings, Ending
<1>4. CASE cmd[k].option # "close"
  <2>1. Waiting(l) # {}
    BY <1>1, <1>4 DEF Waiting
  <2>2. log[l].state = "open" \/ (main.pc = "wait" /\ main.logger = l)
    BY <2>1 DEF IInv, Endings, Ending
  <2>3. main.pc = "wait" => log[main.logger].state = "closing"
    BY DEF IInv, InCalls, Closing
  <2> QED BY <1>2, <2>2, <2>3
<1> QED BY <1>3, <1>4

(* Whatever the threads, the loggers, the rings and the commands: nobody   *)
(* who has to do with a logger (a thread in a call, a command that is      *)
(* given, queued or done, Main while it waits) finds it freed or finds its *)
(* command used again.  The counts of the logger decide it: what is queued *)
(* and not done is what was given and not counted or not acked.            *)
THEOREM LoggerSafe == Spec => []NoDanglingLogger
<1>1. IInv => NoDanglingLogger
  <2> SUFFICES ASSUME IInv PROVE NoDanglingLogger
    OBVIOUS
  <2>1. ASSUME NEW p \in Procs, post[p].pc = "push"
        PROVE  cmd[post[p].cmd] # Unused /\ log[cmd[post[p].cmd].logger].state # "freed"
    <3>1. /\ cmd[post[p].cmd].option \in Known /\ cmd[post[p].cmd].logger = post[p].logger
          /\ log[post[p].logger].state = "open"
      BY <2>1 DEF IInv, InCalls, Calling
    <3>2. Unused.option \notin Known
      BY DEF Unused, Known
    <3> QED BY <3>1, <3>2
  <2>2. ASSUME NEW p \in Procs, NEW t \in Threads, NEW k \in Elems(cmdQ[p][t])
        PROVE  cmd[k] # Unused /\ log[cmd[k].logger].state # "freed"
    BY UnderOpen DEF Under
  <2>3. ASSUME NEW t \in Threads, thr[t].pc = "do"
        PROVE  cmd[thr[t].cmd] # Unused /\ log[cmd[thr[t].cmd].logger].state # "freed"
    BY <2>3, UnderOpen DEF Under
  <2>4. \A p \in Procs : post[p].pc = "count" => log[post[p].logger].state # "freed"
    BY DEF IInv, InCalls, Calling
  <2>5. main.pc \in {"wait", "close"} => log[main.logger].state # "freed"
    BY DEF IInv, InCalls, Closing
  <2> DEFINE Good(k) == cmd[k] # Unused /\ log[cmd[k].logger].state # "freed"
             Pushed == {post[p].cmd : p \in {q \in Procs : post[q].pc = "push"}}
             Queued == UNION {Elems(cmdQ[p][t]) : p \in Procs, t \in Threads}
             Doing == {thr[t].cmd : t \in {u \in Threads : thr[u].pc = "do"}}
  <2>6. \A k \in Pushed : Good(k)
    BY <2>1
  <2>7. \A k \in Queued : Good(k)
    BY <2>2
  <2>8. \A k \in Doing : Good(k)
    BY <2>3
  <2>9. \A k \in Pushed \cup Queued \cup Doing : Good(k)
    BY <2>6, <2>7, <2>8
  <2> HIDE DEF Good, Pushed, Queued, Doing
  <2>10. /\ \A k \in Pushed \cup Queued \cup Doing : Good(k)
         /\ \A p \in Procs : post[p].pc = "count" => log[post[p].logger].state # "freed"
         /\ main.pc \in {"wait", "close"} => log[main.logger].state # "freed"
    BY <2>4, <2>5, <2>9
  <2> USE DEF Good, Pushed, Queued, Doing
  <2> QED BY <2>10 DEF NoDanglingLogger
<1> QED BY <1>1, Invariance, PTL

(* When uninit_logger_manager has returned, every command that any thread  *)
(* gave to any log thread before has been done, in the order it was given, *)
(* and every line that was to be printed has been.                         *)
THEOREM LoggerWritten == Spec => []StoppedWritten
<1>1. IInv => StoppedWritten
  <2> SUFFICES ASSUME IInv, main.pc = "gone" PROVE /\ \A p \in Procs, t \in Threads :
                                                      done[p][t] = [i \in 1 .. posted[p][t] |-> i]
                                                   /\ \A t \in Threads : print[t] = 0
    BY DEF StoppedWritten
  <2>1. pr.pc = "over" /\ \A t \in Threads : Over(t)
    BY DEF IInv, Stopped
  <2>2. \A t \in Threads : print[t] = 0
    BY <2>1 DEF IInv, Printed
  <2>3. ASSUME NEW p \in Procs, NEW t \in Threads
        PROVE  done[p][t] = [i \in 1 .. posted[p][t] |-> i]
    <3>1. cmdQ[p][t] = <<>> /\ Held(p, t) = 0
      BY <2>1 DEF IInv, LastPass, Over, Held
    <3>2. done[p][t] \in Seq(Nat)
      BY QueuesAt DEF IInv, Types
    <3> DEFINE d == done[p][t]
    <3>3. d \in [1 .. Len(d) -> Nat] /\ Len(d) \in Nat
      BY <3>2, LenProperties
    <3>4. Len(d) + 0 + 0 = posted[p][t] /\ \A i \in 1 .. Len(d) : d[i] = i
      BY <3>1, NoElems DEF IInv, InOrder, Ordered
    <3> HIDE DEF d
    <3>5. posted[p][t] = Len(d)
      BY <3>3, <3>4
    <3>6. d = [i \in 1 .. Len(d) |-> i]
      BY <3>3, <3>4
    <3> QED BY <3>5, <3>6 DEF d
  <2> QED BY <2>2, <2>3
<1> QED BY <1>1, Invariance, PTL
=============================================================================
