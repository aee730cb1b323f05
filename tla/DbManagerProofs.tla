-------------------------- MODULE DbManagerProofs ---------------------------
(***************************************************************************)
(* What the users of the MySQL threads rest on, for any number of threads, *)
(* db threads, connections and commands: no result is lost, doubled or     *)
(* overtaken, no db thread touches a connection that was freed, and the    *)
(* stop is complete when it says so.                                       *)
(***************************************************************************)
EXTENDS DbManager, FiniteSetTheorems, SequenceTheorems, TLAPS

-----------------------------------------------------------------------------
(***************************************************************************)
(* Sequences that lie one behind the other.                                *)
(***************************************************************************)
Cat(s, u) == s \o u
Flow(a, b, c, h, q) == Cat(Cat(Cat(Cat(a, b), c), h), q)

LEMMA Tails ==
  ASSUME NEW S, NEW s \in Seq(S), s # <<>>
  PROVE  /\ Head(s) \in S /\ Tail(s) \in Seq(S) /\ Head(s) = s[1]
         /\ Len(s) \in Nat \ {0} /\ Len(Tail(s)) = Len(s) - 1
         /\ \A i \in 1 .. Len(s) - 1 : Tail(s)[i] = s[i + 1]
BY HeadTailProperties, EmptySeq

LEMMA Appended ==
  ASSUME NEW S, NEW s \in Seq(S), NEW e \in S
  PROVE  /\ Append(s, e) \in Seq(S) /\ Len(s) \in Nat
         /\ Len(Append(s, e)) = Len(s) + 1 /\ Append(s, e) # <<>>
         /\ \A i \in 1 .. Len(s) : Append(s, e)[i] = s[i]
         /\ Append(s, e)[Len(s) + 1] = e
OBVIOUS

LEMMA Joined ==
  ASSUME NEW S, NEW s \in Seq(S), NEW u \in Seq(S)
  PROVE  /\ Cat(s, u) \in Seq(S) /\ Len(s) \in Nat /\ Len(u) \in Nat
         /\ Len(Cat(s, u)) = Len(s) + Len(u)
         /\ \A i \in 1 .. Len(s) + Len(u) :
              Cat(s, u)[i] = IF i <= Len(s) THEN s[i] ELSE u[i - Len(s)]
BY ConcatProperties, LenProperties DEF Cat

LEMMA Alone ==
  ASSUME NEW S, NEW s \in Seq(S)
  PROVE  <<>> \in Seq(S) /\ Cat(s, <<>>) = s
BY ConcatEmptySeq, EmptySeq DEF Cat

(* s and u are joined, l and r are what becomes of them.                   *)
LEMMA SamePoints ==
  ASSUME NEW S, NEW l \in Seq(S), NEW r \in Seq(S), NEW k \in Nat, Len(l) = k, Len(r) = k,
         \A i \in 1 .. k : l[i] = r[i]
  PROVE  l = r
BY SeqEqual

LEMMA MovesOver ==
  ASSUME NEW S, NEW s \in Seq(S), NEW u \in Seq(S), u # <<>>
  PROVE  Cat(Append(s, Head(u)), Tail(u)) = Cat(s, u)
<1> DEFINE h == Head(u)
           v == Tail(u)
           w == Append(s, h)
           l == Cat(w, v)
           r == Cat(s, u)
           m == Len(s)
           n == Len(u)
<1>1. /\ h \in S /\ v \in Seq(S) /\ n \in Nat \ {0} /\ Len(v) = n - 1
      /\ h = u[1] /\ \A i \in 1 .. n - 1 : v[i] = u[i + 1]
  BY Tails
<1>2. /\ w \in Seq(S) /\ m \in Nat /\ Len(w) = m + 1
      /\ \A i \in 1 .. m : w[i] = s[i]
      /\ w[m + 1] = h
  <2> HIDE DEF h
  <2> QED BY <1>1, Appended
<1> HIDE DEF h, v, w
<1>3. /\ l \in Seq(S) /\ Len(l) = m + n
      /\ \A i \in 1 .. m + n : l[i] = IF i <= m + 1 THEN w[i] ELSE v[i - (m + 1)]
  <2>1. Len(w) + Len(v) = m + n
    BY <1>1, <1>2
  <2>2. /\ l \in Seq(S) /\ Len(l) = Len(w) + Len(v)
        /\ \A i \in 1 .. Len(w) + Len(v) : l[i] = IF i <= Len(w) THEN w[i] ELSE v[i - Len(w)]
    BY <1>1, <1>2, Joined
  <2> HIDE DEF l, m, n
  <2> QED BY <1>2, <2>1, <2>2
<1>4. /\ r \in Seq(S) /\ Len(r) = m + n
      /\ \A i \in 1 .. m + n : r[i] = IF i <= m THEN s[i] ELSE u[i - m]
  BY Joined
<1> HIDE DEF l, r, m, n
<1>5. ASSUME NEW i \in 1 .. m + n PROVE l[i] = r[i]
  <2>1. CASE i \in 1 .. m
    <3>1. i <= m /\ i <= m + 1
      BY <1>2, <2>1
    <3>2. l[i] = w[i] /\ r[i] = s[i] /\ w[i] = s[i]
      BY <1>2, <1>3, <1>4, <2>1, <3>1
    <3> QED BY <3>2
  <2>2. CASE i = m + 1
    <3>1. ~ (i <= m) /\ i <= m + 1 /\ i - m = 1
      BY <1>2, <2>2
    <3>2. l[i] = w[m + 1] /\ r[i] = u[1]
      BY <1>3, <1>4, <2>2, <3>1
    <3> QED BY <1>1, <1>2, <3>2
  <2>3. CASE i \in m + 2 .. m + n
    <3>1. /\ i - (m + 1) \in 1 .. n - 1 /\ (i - (m + 1)) + 1 = i - m
          /\ ~ (i <= m) /\ ~ (i <= m + 1)
      BY <1>1, <1>2, <2>3
    <3>2. l[i] = v[i - (m + 1)] /\ r[i] = u[i - m]
      BY <1>3, <1>4, <3>1
    <3> DEFINE k == i - (m + 1)
    <3>3. v[k] = u[k + 1]
      BY <1>1, <3>1
    <3> QED BY <3>1, <3>2, <3>3
  <2> QED BY <1>1, <1>2, <2>1, <2>2, <2>3
<1>6. l = r
  BY <1>1, <1>2, <1>3, <1>4, <1>5, SamePoints
<1> QED BY <1>6 DEF l, w, r, h, v

LEMMA AppendsBehind ==
  ASSUME NEW S, NEW s \in Seq(S), NEW u \in Seq(S), NEW e \in S
  PROVE  Append(Cat(s, u), e) = Cat(s, Append(u, e))
<1> DEFINE z == Cat(s, u)
           l == Append(z, e)
           a == Append(u, e)
           r == Cat(s, a)
           m == Len(s)
           n == Len(u)
           k == m + n + 1
<1>1. /\ z \in Seq(S) /\ m \in Nat /\ n \in Nat /\ Len(z) = m + n
      /\ \A i \in 1 .. m + n : z[i] = IF i <= m THEN s[i] ELSE u[i - m]
  BY Joined
<1> HIDE DEF z
<1>2. /\ l \in Seq(S) /\ Len(l) = k
      /\ \A i \in 1 .. m + n : l[i] = z[i]
      /\ l[k] = e
  <2> HIDE DEF m, n
  <2> QED BY <1>1, Appended
<1>3. /\ a \in Seq(S) /\ Len(a) = n + 1
      /\ \A i \in 1 .. n : a[i] = u[i]
      /\ a[n + 1] = e
  BY Appended
<1> HIDE DEF a, l
<1>4. /\ r \in Seq(S) /\ Len(r) = k
      /\ \A i \in 1 .. k : r[i] = IF i <= m THEN s[i] ELSE a[i - m]
  <2>1. Len(s) + Len(a) = k
    BY <1>1, <1>3
  <2>2. /\ r \in Seq(S) /\ Len(r) = Len(s) + Len(a)
        /\ \A i \in 1 .. Len(s) + Len(a) : r[i] = IF i <= Len(s) THEN s[i] ELSE a[i - Len(s)]
    BY <1>3, Joined
  <2> HIDE DEF k, r
  <2> QED BY <2>1, <2>2
<1> HIDE DEF r, m, n
<1>5. ASSUME NEW i \in 1 .. k PROVE l[i] = r[i]
  <2>1. CASE i \in 1 .. m
    <3>1. i <= m /\ i \in 1 .. m + n
      BY <1>1, <2>1
    <3>2. l[i] = z[i] /\ z[i] = s[i] /\ r[i] = s[i]
      BY <1>1, <1>2, <1>4, <3>1
    <3> QED BY <3>2
  <2>2. CASE i \in m + 1 .. m + n
    <3>1. ~ (i <= m) /\ i \in 1 .. m + n /\ i - m \in 1 .. n
      BY <1>1, <2>2
    <3>2. l[i] = z[i] /\ z[i] = u[i - m] /\ r[i] = a[i - m] /\ a[i - m] = u[i - m]
      BY <1>1, <1>2, <1>3, <1>4, <3>1
    <3> QED BY <3>2
  <2>3. CASE i = k
    <3>1. ~ (i <= m) /\ i - m = n + 1
      BY <1>1, <2>3
    <3>2. l[i] = e /\ r[i] = a[n + 1]
      BY <1>2, <1>4, <2>3, <3>1
    <3> QED BY <1>3, <3>2
  <2> QED BY <1>1, <2>1, <2>2, <2>3
<1>6. l = r /\ k \in Nat
  BY <1>1, <1>2, <1>4, <1>5, SamePoints
<1> QED BY <1>6 DEF l, r, a, z

LEMMA OneBehind ==
  ASSUME NEW S, NEW s \in Seq(S), NEW e \in S
  PROVE  Cat(s, <<e>>) = Append(s, e)
<1> DEFINE o == <<>>
<1>1. o \in Seq(S) /\ Cat(s, o) = s
  BY Alone
<1>2. Append(o, e) = <<e>>
  OBVIOUS
<1> HIDE DEF o
<1>3. Append(Cat(s, o), e) = Cat(s, Append(o, e))
  BY <1>1, AppendsBehind
<1> QED BY <1>1, <1>2, <1>3

(* A command is posted, popped, answered, taken out of the cache, taken by *)
(* its proc: it stays where it is between the others.                      *)
LEMMA FlowPosted ==
  ASSUME NEW S, NEW q \in Seq(S), NEW e \in S
  PROVE  \A a, b, c, h \in Seq(S) :
           Cat(Flow(a, b, c, h, q), <<e>>) = Flow(a, b, c, h, Append(q, e))
<1> TAKE a, b, c, h \in Seq(S)
<1> DEFINE x == Cat(Cat(Cat(a, b), c), h)
<1>1. x \in Seq(S)
  BY Joined
<1> HIDE DEF x
<1>2. Append(Cat(x, q), e) = Cat(x, Append(q, e))
  BY <1>1, AppendsBehind
<1>5. Cat(x, q) \in Seq(S)
  BY <1>1, Joined
<1>3. Cat(Cat(x, q), <<e>>) = Append(Cat(x, q), e)
  BY <1>5, OneBehind
<1>4. Cat(Cat(x, q), <<e>>) = Cat(x, Append(q, e))
  BY <1>2, <1>3
<1> QED BY <1>4 DEF Flow, x

LEMMA FlowTaken ==
  ASSUME NEW S, NEW a \in Seq(S), NEW b \in Seq(S), b # <<>>, NEW c, NEW h, NEW q
  PROVE  Flow(Append(a, Head(b)), Tail(b), c, h, q) = Flow(a, b, c, h, q)
BY MovesOver DEF Flow

LEMMA FlowFlushed ==
  ASSUME NEW S, NEW a \in Seq(S), NEW b \in Seq(S), NEW c \in Seq(S), c # <<>>, NEW h, NEW q
  PROVE  Flow(a, Append(b, Head(c)), Tail(c), h, q) = Flow(a, b, c, h, q)
<1> DEFINE x == Cat(a, b)
           e == Head(c)
<1>1. x \in Seq(S) /\ e \in S
  BY Joined, Tails
<1>2. Cat(Append(x, e), Tail(c)) = Cat(x, c)
  <2> HIDE DEF x
  <2> QED BY <1>1, MovesOver
<1> HIDE DEF e
<1>3. Cat(a, Append(b, e)) = Append(x, e)
  BY <1>1, AppendsBehind
<1> QED BY <1>2, <1>3 DEF Flow, x, e

LEMMA FlowPopped ==
  ASSUME NEW S, NEW a \in Seq(S), NEW b \in Seq(S), NEW c \in Seq(S), NEW q \in Seq(S), q # <<>>
  PROVE  Flow(a, b, c, <<Head(q)>>, Tail(q)) = Flow(a, b, c, <<>>, q)
<1> DEFINE x == Cat(Cat(a, b), c)
<1>1. x \in Seq(S) /\ Head(q) \in S
  BY Joined, Tails
<1> HIDE DEF x
<1>2. Cat(x, <<Head(q)>>) = Append(x, Head(q)) /\ Cat(x, <<>>) = x
  BY <1>1, OneBehind, Alone
<1>3. Cat(Append(x, Head(q)), Tail(q)) = Cat(x, q)
  BY <1>1, MovesOver
<1> QED BY <1>2, <1>3 DEF Flow, x

LEMMA FlowCached ==
  ASSUME NEW S, NEW a \in Seq(S), NEW b \in Seq(S), NEW c \in Seq(S), NEW q, NEW e \in S
  PROVE  Flow(a, b, Append(c, e), <<>>, q) = Flow(a, b, c, <<e>>, q)
<1> DEFINE x == Cat(a, b)
           y == Cat(x, c)
           z == Append(c, e)
<1>1. x \in Seq(S)
  BY Joined
<1> HIDE DEF x
<1>2. y \in Seq(S) /\ z \in Seq(S)
  BY <1>1, Joined, Appended
<1>3. Cat(x, z) = Append(y, e)
  BY <1>1, AppendsBehind
<1> HIDE DEF y, z
<1>4. Cat(y, <<e>>) = Append(y, e)
  BY <1>2, OneBehind
<1>5. Cat(Cat(x, z), <<>>) = Cat(x, z)
  BY <1>1, <1>2, Joined, Alone
<1> QED BY <1>3, <1>4, <1>5 DEF Flow, x, y, z

LEMMA FlowAnswered ==
  ASSUME NEW S, NEW a \in Seq(S), NEW b \in Seq(S), NEW q, NEW e \in S
  PROVE  Flow(a, Append(b, e), <<>>, <<>>, q) = Flow(a, b, <<>>, <<e>>, q)
<1> DEFINE y == Cat(a, b)
           z == Append(b, e)
<1>1. y \in Seq(S) /\ z \in Seq(S) /\ Cat(a, z) \in Seq(S)
  BY Joined, Appended
<1>2. Cat(a, z) = Append(y, e)
  BY AppendsBehind
<1> HIDE DEF y, z
<1>3. Cat(y, <<e>>) = Append(y, e)
  BY <1>1, OneBehind
<1>4. Cat(Cat(a, z), <<>>) = Cat(a, z) /\ Cat(y, <<>>) = y
  BY <1>1, Alone
<1> QED BY <1>2, <1>3, <1>4 DEF Flow, y, z

(* Where the last two of them are found.                                   *)
Flows(f, a, b, c, h, q) == f = Flow(a, b, c, h, q)

LEMMA FlowAt ==
  ASSUME NEW S, NEW a \in Seq(S), NEW b \in Seq(S), NEW c \in Seq(S), NEW h \in Seq(S),
         NEW q \in Seq(S), NEW f, Flows(f, a, b, c, h, q)
  PROVE  /\ f \in Seq(S)
         /\ {Len(a), Len(b), Len(c), Len(h), Len(q), Len(f)} \subseteq Nat
         /\ Len(f) = Len(a) + Len(b) + Len(c) + Len(h) + Len(q)
         /\ \A i \in 1 .. Len(q) : f[Len(f) - Len(q) + i] = q[i]
         /\ \A e \in S : h = <<e>> => f[Len(f) - Len(q)] = e
<1> DEFINE x == Cat(Cat(a, b), c)
           y == Cat(x, h)
<1>1. /\ x \in Seq(S) /\ Len(x) = Len(a) + Len(b) + Len(c)
      /\ {Len(a), Len(b), Len(c), Len(h), Len(q)} \subseteq Nat
  <2>1. /\ Cat(a, b) \in Seq(S) /\ Len(Cat(a, b)) = Len(a) + Len(b)
        /\ Len(a) \in Nat /\ Len(b) \in Nat
    BY Joined
  <2>2. x \in Seq(S) /\ Len(x) = Len(Cat(a, b)) + Len(c) /\ Len(c) \in Nat
    BY <2>1, Joined
  <2> QED BY <2>1, <2>2, LenProperties
<1> HIDE DEF x
<1>2. /\ y \in Seq(S) /\ Len(y) = Len(x) + Len(h)
      /\ \A i \in 1 .. Len(x) + Len(h) : y[i] = IF i <= Len(x) THEN x[i] ELSE h[i - Len(x)]
  BY ZenonT(60), <1>1, Joined
<1>3. /\ f = Cat(y, q) /\ f \in Seq(S) /\ Len(f) = Len(y) + Len(q)
      /\ \A i \in 1 .. Len(y) + Len(q) : f[i] = IF i <= Len(y) THEN y[i] ELSE q[i - Len(y)]
  <2>1. f = Cat(y, q)
    BY DEF Flows, Flow, x, y
  <2>2. y \in Seq(S)
    BY <1>2
  <2> HIDE DEF y
  <2>3. /\ Cat(y, q) \in Seq(S) /\ Len(Cat(y, q)) = Len(y) + Len(q)
        /\ \A i \in 1 .. Len(y) + Len(q) :
             Cat(y, q)[i] = IF i <= Len(y) THEN y[i] ELSE q[i - Len(y)]
    BY <2>2, Joined
  <2> QED BY <2>1, <2>3
<1> HIDE DEF y
<1>4. ASSUME NEW i \in 1 .. Len(q) PROVE f[Len(f) - Len(q) + i] = q[i]
  <2>1. /\ Len(f) - Len(q) + i = Len(y) + i /\ (Len(y) + i) - Len(y) = i
        /\ Len(y) + i \in 1 .. Len(y) + Len(q) /\ ~ (Len(y) + i <= Len(y))
    BY <1>1, <1>2, <1>3
  <2> QED BY <1>3, <2>1
<1>5. ASSUME NEW e \in S, h = <<e>> PROVE f[Len(f) - Len(q)] = e
  <2>1. Len(h) = 1 /\ h[1] = e
    BY <1>5
  <2>2. /\ Len(f) - Len(q) = Len(x) + 1 /\ Len(x) + 1 = Len(y) /\ (Len(x) + 1) - Len(x) = 1
        /\ Len(x) + 1 \in 1 .. Len(y) + Len(q)
    BY <1>1, <1>2, <1>3, <2>1
  <2>3. f[Len(x) + 1] = y[Len(x) + 1]
    BY <1>3, <2>2
  <2>4. y[Len(x) + 1] = h[1]
    <3>1. Len(x) + 1 \in 1 .. Len(x) + Len(h) /\ ~ (Len(x) + 1 <= Len(x))
      BY <1>1, <2>1
    <3> QED BY <1>2, <2>2, <3>1
  <2> QED BY <2>1, <2>2, <2>3, <2>4
<1>6. Len(f) \in Nat /\ Len(f) = Len(a) + Len(b) + Len(c) + Len(h) + Len(q)
  BY <1>1, <1>2, <1>3
<1> QED BY <1>1, <1>3, <1>4, <1>5, <1>6

-----------------------------------------------------------------------------
(***************************************************************************)
(* The inductive invariant.                                                *)
(***************************************************************************)
Cmds == [conn : Conns, no : Nat]
Queues == [Procs -> [Threads -> Seq(Cmds)]]

ThrRec ==
  [run : BOOLEAN, ending : BOOLEAN, pc : {"visit", "exec", "put", "flush", "over"},
   rest : Seq(Procs), cmd : Cmds \cup {NoCmd}, busy : BOOLEAN]
PostRec ==
  [pc : {"idle", "push", "count", "store"}, tries : Int, old : Nat, cmd : Cmds \cup {NoCmd}]
ConnRec == [state : {"open", "closing", "gone"}, req : Nat, reqMt : Nat, ack : Nat]
MainRec ==
  [pc : {"work", "join", "drain", "wait", "done", "gone"}, k : 0 .. N,
   back : {"work", "drain", "done", "gone"}]

QueueTypes ==
  /\ list \in Seq(Procs)
  /\ cmdQ \in Queues /\ retQ \in Queues /\ cache \in Queues
  /\ posted \in Queues /\ done \in Queues
  /\ before \in [Procs -> [Threads -> Nat]]
Types ==
  /\ QueueTypes
  /\ thr \in [Threads -> ThrRec]
  /\ idx \in [Procs -> Threads]
  /\ post \in [Procs -> PostRec]
  /\ conn \in [Conns -> ConnRec]
  /\ main \in MainRec

Room == \A p \in Procs, t \in Threads : Len(cmdQ[p][t]) <= Cap /\ Len(retQ[p][t]) <= Cap

(* Where a db thread is: it has a command while it executes it, and it has *)
(* seen the end of its last pass when it is over.                          *)
Working ==
  \A t \in Threads :
    /\ thr[t].pc \in {"exec", "put"} => thr[t].cmd \in Cmds /\ thr[t].busy
    /\ thr[t].pc \in {"exec", "put", "flush"} => thr[t].rest # <<>>
    /\ thr[t].pc = "over" => thr[t].rest = <<>> /\ thr[t].ending /\ ~thr[t].busy
    /\ thr[t].ending => ~thr[t].run

(* A connection that is posted on is open, and only Main writes req.       *)
PostingOpen ==
  \A p \in Procs : post[p].pc # "idle" =>
    /\ post[p].cmd \in Cmds /\ conn[post[p].cmd.conn].state = "open"
    /\ p \in Registered
    /\ post[p].pc = "store" => p = Main /\ post[p].old = conn[post[p].cmd.conn].req

Unused == \A p \in Procs \ Registered, t \in Threads : posted[p][t] = <<>>

(* Main waits for one connection at a time.                                *)
OneClosing ==
  /\ \A c \in Conns : conn[c].state = "closing" => main.pc = "wait"
  /\ \A c, d \in Conns : conn[c].state = "closing" /\ conn[d].state = "closing" => c = d
  /\ main.pc = "wait" => main.back \in {"work", "done"}

(* The threads are joined one after the other, and Main has its answers    *)
(* when the stop is done.                                                  *)
BeforeStop == main.pc = "work" \/ (main.pc = "wait" /\ main.back = "work")
AfterStop == main.pc = "done" \/ (main.pc = "wait" /\ main.back = "done")
JoinedInTurn ==
  /\ BeforeStop => \A t \in Threads : thr[t].run
  /\ main.pc = "join" =>
       /\ main.k \in Threads /\ main.back \in {"drain", "gone"}
       /\ \A t \in Threads : /\ t < main.k => thr[t].run
                             /\ t > main.k => thr[t].pc = "over"
  /\ main.pc = "drain" \/ AfterStop => \A t \in Threads : thr[t].pc = "over"
Answered == AfterStop => \A t \in Threads : Len(done[Main][t]) >= before[Main][t]

(* The last pass of a db thread: what it has behind it is done.            *)
Within(s, p) == \E i \in DOMAIN s : s[i] = p
Served(p, t) == Executed(p, t) >= before[p][t]
LastPass ==
  \A p \in Procs, t \in Threads :
    /\ ~thr[t].run => before[p][t] <= Len(posted[p][t])
    /\ thr[t].ending /\ ~thr[t].busy =>
         /\ ~Within(thr[t].rest, p) => Served(p, t) /\ cache[p][t] = <<>>
         /\ thr[t].pc = "flush" /\ p = Visited(t) => Served(p, t)

(* req + reqMt counts the commands posted on a connection, and ack those   *)
(* executed: what is posted and not counted yet makes up for what is       *)
(* neither executed nor being executed.                                    *)
Ran(p, t) == Executed(p, t) - (IF thr[t].pc = "exec" /\ Visited(t) = p THEN 1 ELSE 0)
Waiting(c) ==
  {x \in Procs \X Threads \X Nat :
     /\ Ran(x[1], x[2]) < x[3] /\ x[3] <= Len(posted[x[1]][x[2]])
     /\ posted[x[1]][x[2]][x[3]].conn = c}
Counting(c) == {p \in Procs : post[p].pc \in {"count", "store"} /\ post[p].cmd.conn = c}
Balanced(c) ==
  /\ IsFiniteSet(Counting(c)) /\ IsFiniteSet(Waiting(c))
  /\ conn[c].req + conn[c].reqMt + Cardinality(Counting(c))
       = conn[c].ack + Cardinality(Waiting(c))
  /\ conn[c].state = "gone" => Waiting(c) = {}
Balance == \A c \in Conns : Balanced(c)

(* Posts is what it is called.                                             *)
Pushing == {p \in Procs : post[p].pc = "push"}
Listed == {x \in Procs \X Threads \X (1 .. MaxPosts) : x[3] <= Len(posted[x[1]][x[2]])}
Bounded ==
  /\ IsFiniteSet(Pushing) /\ IsFiniteSet(Listed)
  /\ Cardinality(Pushing) + Cardinality(Listed) <= MaxPosts
  /\ \A p \in Procs, t \in Threads :
       Len(posted[p][t]) <= Cardinality(Listed) /\ before[p][t] <= MaxPosts

IInv ==
  /\ Types /\ Room /\ InOrder
  /\ Working /\ PostingOpen /\ Unused /\ OneClosing /\ JoinedInTurn /\ Answered
  /\ LastPass /\ Balance /\ Bounded

LEMMA Consts == /\ Main \in Procs /\ N \in Nat \ {0} /\ Cap \in Nat \ {0} /\ MaxPosts \in Nat
                /\ ThreadOf \in [Conns -> Threads] /\ Threads = 1 .. N /\ N \in Threads
BY DbManagerAssumption DEF Threads

-----------------------------------------------------------------------------
(***************************************************************************)
(* Types.                                                                  *)
(***************************************************************************)
LEMMA TakeHead ==
  ASSUME Types, NEW t \in Threads, thr[t].rest # <<>>
  PROVE  /\ Visited(t) \in Procs /\ Tail(thr[t].rest) \in Seq(Procs)
         /\ \A p : Within(thr[t].rest, p) => p = Visited(t) \/ Within(Tail(thr[t].rest), p)
<1> DEFINE s == thr[t].rest
<1>1. s \in Seq(Procs)
  BY DEF Types, ThrRec
<1> HIDE DEF s
<1>2. s # <<>>
  BY DEF s
<1>3. /\ Head(s) \in Procs /\ Tail(s) \in Seq(Procs) /\ Head(s) = s[1]
      /\ Len(s) \in Nat \ {0} /\ Len(Tail(s)) = Len(s) - 1
      /\ \A i \in 1 .. Len(s) - 1 : Tail(s)[i] = s[i + 1]
  BY <1>1, <1>2, Tails
<1>4. DOMAIN s = 1 .. Len(s) /\ DOMAIN Tail(s) = 1 .. Len(s) - 1
  BY <1>1, <1>3, LenProperties
<1>5. ASSUME NEW p, Within(s, p), p # Head(s) PROVE Within(Tail(s), p)
  <2>1. PICK i \in 1 .. Len(s) : s[i] = p
    BY <1>4, <1>5 DEF Within
  <2>2. i - 1 \in 1 .. Len(s) - 1 /\ (i - 1) + 1 = i
    BY <1>3, <1>5, <2>1
  <2>3. Tail(s)[i - 1] = p
    BY <1>3, <2>1, <2>2
  <2> QED BY <1>4, <2>2, <2>3 DEF Within
<1> QED BY <1>3, <1>5 DEF Visited, s

LEMMA Queue ==
  ASSUME NEW Q \in Queues, NEW p \in Procs, NEW t \in Threads
  PROVE  /\ Q[p][t] \in Seq(Cmds) /\ Len(Q[p][t]) \in Nat
         /\ \A v \in Seq(Cmds) :
              /\ [Q EXCEPT ![p][t] = v] \in Queues
              /\ \A q \in Procs, u \in Threads :
                   [Q EXCEPT ![p][t] = v][q][u] = IF q = p /\ u = t THEN v ELSE Q[q][u]
<1>1. Q \in [Procs -> [Threads -> Seq(Cmds)]]
  BY DEF Queues
<1>2. Q[p][t] \in Seq(Cmds)
  BY <1>1
<1>3. ASSUME NEW v \in Seq(Cmds)
      PROVE  /\ [Q EXCEPT ![p][t] = v] \in [Procs -> [Threads -> Seq(Cmds)]]
             /\ \A q \in Procs, u \in Threads :
                  [Q EXCEPT ![p][t] = v][q][u] = IF q = p /\ u = t THEN v ELSE Q[q][u]
  BY <1>1
<1> QED BY <1>2, <1>3, LenProperties DEF Queues

(* e is put at the end of the queue of p and t; its head is taken.         *)
Adds(R, Q, p, t, e) == R = [Q EXCEPT ![p][t] = Append(@, e)]
Takes(R, Q, p, t) == R = [Q EXCEPT ![p][t] = Tail(@)]

LEMMA QueueAdds ==
  ASSUME NEW Q \in Queues, NEW R, NEW p \in Procs, NEW t \in Threads, NEW e \in Cmds,
         Adds(R, Q, p, t, e), NEW q \in Procs, NEW u \in Threads
  PROVE  /\ q = p /\ u = t => R[q][u] = Append(Q[q][u], e)
         /\ ~ (q = p /\ u = t) => R[q][u] = Q[q][u]
<1> DEFINE v == Append(Q[p][t], e)
<1>1. Q \in [Procs -> [Threads -> Seq(Cmds)]] /\ R = [Q EXCEPT ![p][t] = v]
  BY DEF Adds, Queues
<1> HIDE DEF v
<1>2. q = p /\ u = t => R[q][u] = v
  BY <1>1
<1>3. ~ (q = p /\ u = t) => R[q][u] = Q[q][u]
  BY <1>1
<1> QED BY <1>2, <1>3 DEF v

LEMMA QueueTakes ==
  ASSUME NEW Q \in Queues, NEW R, NEW p \in Procs, NEW t \in Threads,
         Takes(R, Q, p, t), NEW q \in Procs, NEW u \in Threads
  PROVE  /\ q = p /\ u = t => R[q][u] = Tail(Q[q][u])
         /\ ~ (q = p /\ u = t) => R[q][u] = Q[q][u]
<1> DEFINE v == Tail(Q[p][t])
<1>1. Q \in [Procs -> [Threads -> Seq(Cmds)]] /\ R = [Q EXCEPT ![p][t] = v]
  BY DEF Takes, Queues
<1> HIDE DEF v
<1>2. q = p /\ u = t => R[q][u] = v
  BY <1>1
<1>3. ~ (q = p /\ u = t) => R[q][u] = Q[q][u]
  BY <1>1
<1> QED BY <1>2, <1>3 DEF v

LEMMA ThrSet ==
  ASSUME Types, NEW t \in Threads, NEW r \in ThrRec, Step(t, r)
  PROVE  thr' \in [Threads -> ThrRec]
BY DEF Types, Step

LEMMA StopTypes ==
  ASSUME IInv, NEW k \in Threads, NEW back \in {"work", "drain", "done", "gone"},
         StopThread(k, back)
  PROVE  Types'
<1>1. thr' \in [Threads -> ThrRec]
  BY ZenonT(60) DEF StopThread, IInv, Types, ThrRec
<1>2. main' \in MainRec
  <2>1. k \in 0 .. N
    BY Consts
  <2> QED BY <2>1 DEF StopThread, IInv, Types, MainRec
<1>3. before' \in [Procs -> [Threads -> Nat]]
  <2>1. \A p \in Procs : Len(posted[p][k]) \in Nat
    BY LenProperties DEF IInv, Types, QueueTypes, Queues
  <2>2. \A p \in Procs : before[p] \in [Threads -> Nat]
    BY DEF IInv, Types, QueueTypes
  <2>3. \A p \in Procs : [before[p] EXCEPT ![k] = Len(posted[p][k])] \in [Threads -> Nat]
    BY <2>1, <2>2
  <2> QED BY <2>3 DEF StopThread
<1>4. QueueTypes'
  BY <1>3 DEF StopThread, queues, IInv, Types, QueueTypes
<1> QED BY <1>1, <1>2, <1>4 DEF StopThread, IInv, Types

LEMMA TypesNext ==
  ASSUME IInv, Next
  PROVE  Types'
<1> USE DEF history, queues
<1>1. ASSUME NEW p \in Procs, Register(p) PROVE Types'
  <2>1. <<p>> \o list \in Seq(Procs)
    BY ConcatProperties DEF IInv, Types, QueueTypes
  <2> QED BY <1>1, <2>1 DEF Register, IInv, Types, QueueTypes
<1>2. ASSUME NEW p \in Procs, NEW c \in Conns, NEW tries \in 1 .. MaxTries, Post(p, c, tries)
      PROVE  Types'
  <2>1. Len(posted[p][ThreadOf[c]]) \in Nat
    BY Consts, Queue DEF IInv, Types, QueueTypes
  <2>2. post' \in [Procs -> PostRec]
    BY <1>2, <2>1 DEF Post, IInv, Types, PostRec, Cmds
  <2> QED BY <1>2, <2>2 DEF Post, IInv, Types, QueueTypes
<1>3. ASSUME NEW p \in Procs, Push(p) PROVE Types'
  <2> PICK t \in Threads : t = ThreadOf[post[p].cmd.conn]
    BY <1>3, Consts DEF Push, IInv, PostingOpen, Cmds
  <2>1. post[p].cmd \in Cmds
    BY <1>3 DEF Push, IInv, PostingOpen
  <2>2. cmdQ' \in Queues /\ posted' \in Queues
    <3>1. /\ cmdQ \in Queues /\ posted \in Queues
          /\ cmdQ' = [cmdQ EXCEPT ![p][t] = Append(cmdQ[p][t], post[p].cmd)]
          /\ posted' = [posted EXCEPT ![p][t] = Append(posted[p][t], post[p].cmd)]
      BY <1>3 DEF Push, IInv, Types, QueueTypes
    <3>2. cmdQ[p][t] \in Seq(Cmds) /\ posted[p][t] \in Seq(Cmds)
      BY <3>1, Queue
    <3>3. /\ Append(cmdQ[p][t], post[p].cmd) \in Seq(Cmds)
          /\ Append(posted[p][t], post[p].cmd) \in Seq(Cmds)
      BY <2>1, <3>2, Appended
    <3> QED BY <3>1, <3>3, Queue
  <2>3. post' \in [Procs -> PostRec]
    BY <1>3 DEF Push, IInv, Types, PostRec
  <2> QED BY <1>3, <2>2, <2>3 DEF Push, IInv, Types, QueueTypes
<1>4. ASSUME NEW p \in Procs, PushFull(p) PROVE Types'
  <2>1. post' \in [Procs -> PostRec]
    <3>1. post[p] \in PostRec
      BY DEF IInv, Types
    <3>2. [post[p] EXCEPT !.tries = @ - 1,
                          !.pc = IF post[p].tries > 1 THEN "push" ELSE "idle"] \in PostRec
      <4>1. \A x \in Int, y \in {"push", "idle"} :
              [post[p] EXCEPT !.tries = x, !.pc = y] \in PostRec
        BY <3>1 DEF PostRec
      <4>2. post[p].tries - 1 \in Int
        BY <3>1 DEF PostRec
      <4> QED BY <4>1, <4>2
    <3>3. post' = [post EXCEPT ![p] =
                     [post[p] EXCEPT !.tries = @ - 1,
                                     !.pc = IF post[p].tries > 1 THEN "push" ELSE "idle"]]
      BY <1>4, <3>1 DEF PushFull, IInv, Types
    <3> QED BY <3>2, <3>3 DEF IInv, Types
  <2> QED BY <1>4, <2>1 DEF PushFull, IInv, Types, QueueTypes
<1>5. ASSUME NEW p \in Procs, CountLoad(p) PROVE Types'
  <2>1. conn[post[p].cmd.conn].req \in Nat
    BY <1>5 DEF CountLoad, IInv, Types, ConnRec, PostingOpen, Cmds
  <2>2. post' \in [Procs -> PostRec]
    <3> PICK n \in Nat : n = conn[post[p].cmd.conn].req
      BY <2>1
    <3>1. post' = [post EXCEPT ![p].pc = "store", ![p].old = n]
      BY <1>5 DEF CountLoad
    <3> QED BY ZenonT(60), <3>1 DEF IInv, Types, PostRec
  <2> QED BY <1>5, <2>2 DEF CountLoad, IInv, Types, QueueTypes
<1>6. ASSUME NEW p \in Procs, CountStore(p) \/ CountOther(p) PROVE Types'
  <2>1. post' \in [Procs -> PostRec]
    BY <1>6 DEF CountStore, CountOther, IInv, Types, PostRec
  <2>2. conn' \in [Conns -> ConnRec]
    <3>1. CASE CountStore(p)
      <4>1. post[p].old + 1 \in Nat
        BY <1>6 DEF IInv, Types, PostRec
      <4> QED BY <3>1, <4>1 DEF CountStore, IInv, Types, ConnRec
    <3>2. CASE CountOther(p)
      <4> PICK c \in Conns : c = post[p].cmd.conn
        BY <3>2 DEF CountOther, IInv, PostingOpen, Cmds
      <4>1. conn' = [conn EXCEPT ![c].reqMt = @ + 1]
        BY <3>2 DEF CountOther
      <4> QED BY <4>1 DEF IInv, Types, ConnRec
    <3> QED BY <1>6, <3>1, <3>2
  <2> QED BY <1>6, <2>1, <2>2 DEF CountStore, CountOther, IInv, Types, QueueTypes
<1>7. ASSUME NEW p \in Procs, RunStep(p) PROVE Types'
  <2> PICK t \in Threads : t = idx[p]
    BY DEF IInv, Types
  <2>1. idx' \in [Procs -> Threads]
    BY <1>7, Consts DEF RunStep, NextThread, IInv, Types
  <2>2. retQ' \in Queues /\ done' \in Queues
    <3>1. CASE retQ[p][t] = <<>>
      BY <1>7, <3>1 DEF RunStep, IInv, Types, QueueTypes
    <3>2. CASE retQ[p][t] # <<>>
      <4>1. Head(retQ[p][t]) \in Cmds /\ Tail(retQ[p][t]) \in Seq(Cmds)
        BY <3>2, Queue, Tails DEF IInv, Types, QueueTypes
      <4>2. /\ retQ \in Queues /\ done \in Queues
            /\ done' = [done EXCEPT ![p][t] = Append(done[p][t], Head(retQ[p][t]))]
            /\ retQ' = [retQ EXCEPT ![p][t] = Tail(retQ[p][t])]
        BY <1>7, <3>2 DEF RunStep, IInv, Types, QueueTypes
      <4> PICK e \in Cmds : e = Head(retQ[p][t])
        BY <4>1
      <4>3. Append(done[p][t], e) \in Seq(Cmds)
        BY <4>2, Queue, Appended
      <4> QED BY <4>1, <4>2, <4>3, Queue
    <3> QED BY <3>1, <3>2
  <2> QED BY <1>7, <2>1, <2>2 DEF RunStep, IInv, Types, QueueTypes
<1>8. ASSUME NEW t \in Threads, ThreadStep(t) PROVE Types'
  <2>1. CASE Pop(t)
    <3> PICK p \in Procs : p = Visited(t)
      BY <2>1, TakeHead DEF Pop, IInv
    <3>1. Head(cmdQ[p][t]) \in Cmds /\ Tail(cmdQ[p][t]) \in Seq(Cmds)
      BY <2>1, Queue, Tails DEF Pop, IInv, Types, QueueTypes
    <3>2. cmdQ' \in Queues
      <4>1. cmdQ \in Queues /\ cmdQ' = [cmdQ EXCEPT ![p][t] = Tail(cmdQ[p][t])]
        BY <2>1 DEF Pop, IInv, Types, QueueTypes
      <4> QED BY <3>1, <4>1, Queue
    <3>3. thr' \in [Threads -> ThrRec]
      <4>1. thr[t] \in ThrRec
        BY DEF IInv, Types
      <4>2. \A x \in Cmds :
              [thr[t] EXCEPT !.pc = "exec", !.cmd = x, !.busy = TRUE] \in ThrRec
        BY <4>1 DEF ThrRec
      <4> QED BY <2>1, <3>1, <4>2, ThrSet DEF Pop, IInv
    <3> QED BY <2>1, <3>2, <3>3 DEF Pop, IInv, Types, QueueTypes
  <2>2. CASE PopNone(t) \/ Over(t)
    <3>1. thr' \in [Threads -> ThrRec]
      <4>1. thr[t] \in ThrRec
        BY DEF IInv, Types
      <4>2. \A x \in {"flush", "over"} : [thr[t] EXCEPT !.pc = x] \in ThrRec
        BY <4>1 DEF ThrRec
      <4> QED BY <2>2, <4>2, ThrSet DEF PopNone, Over, IInv
    <3> QED BY <2>2, <3>1 DEF PopNone, Over, IInv, Types, QueueTypes
  <2>3. CASE Execute(t)
    <3>1. thr' \in [Threads -> ThrRec]
      <4>1. thr[t] \in ThrRec
        BY DEF IInv, Types
      <4>2. [thr[t] EXCEPT !.pc = "put"] \in ThrRec
        BY <4>1 DEF ThrRec
      <4> QED BY <2>3, <4>2, ThrSet DEF Execute, IInv
    <3>2. conn' \in [Conns -> ConnRec]
      <4> PICK c \in Conns : c = thr[t].cmd.conn
        BY <2>3 DEF Execute, IInv, Working, Cmds
      <4>1. conn' = [conn EXCEPT ![c].ack = @ + 1]
        BY <2>3 DEF Execute
      <4> QED BY <4>1 DEF IInv, Types, ConnRec
    <3> QED BY <2>3, <3>1, <3>2 DEF Execute, IInv, Types, QueueTypes
  <2>4. CASE Put(t)
    <3> PICK p \in Procs : p = Visited(t)
      BY <2>4, TakeHead DEF Put, IInv, Working
    <3>1. thr[t].cmd \in Cmds
      BY <2>4 DEF Put, IInv, Working
    <3>2. retQ' \in Queues /\ cache' \in Queues
      <4> PICK e \in Cmds : e = thr[t].cmd
        BY <3>1
      <4>1. /\ Append(retQ[p][t], e) \in Seq(Cmds) /\ Append(cache[p][t], e) \in Seq(Cmds)
            /\ retQ \in Queues /\ cache \in Queues
        BY Queue, Appended DEF IInv, Types, QueueTypes
      <4>2. CASE cache[p][t] = <<>> /\ Len(retQ[p][t]) < Cap
        <5>1. retQ' = [retQ EXCEPT ![p][t] = Append(retQ[p][t], e)] /\ cache' = cache
          BY <2>4, <4>2 DEF Put
        <5> QED BY <4>1, <5>1, Queue
      <4>3. CASE ~ (cache[p][t] = <<>> /\ Len(retQ[p][t]) < Cap)
        <5>1. cache' = [cache EXCEPT ![p][t] = Append(cache[p][t], e)] /\ retQ' = retQ
          BY <2>4, <4>3 DEF Put
        <5> QED BY <4>1, <5>1, Queue
      <4> QED BY <4>2, <4>3
    <3>3. thr' \in [Threads -> ThrRec]
      <4>1. thr[t] \in ThrRec
        BY DEF IInv, Types
      <4>2. [thr[t] EXCEPT !.pc = "flush", !.cmd = NoCmd] \in ThrRec
        BY <4>1 DEF ThrRec
      <4> QED BY <2>4, <4>2, ThrSet DEF Put, IInv
    <3> QED BY <2>4, <3>2, <3>3 DEF Put, IInv, Types, QueueTypes
  <2>5. CASE Flush(t)
    <3> PICK p \in Procs : p = Visited(t)
      BY <2>5, TakeHead DEF Flush, IInv, Working
    <3>1. Head(cache[p][t]) \in Cmds /\ Tail(cache[p][t]) \in Seq(Cmds)
      BY <2>5, Queue, Tails DEF Flush, IInv, Types, QueueTypes
    <3>2. retQ' \in Queues /\ cache' \in Queues
      <4> PICK e \in Cmds : e = Head(cache[p][t])
        BY <3>1
      <4>1. Append(retQ[p][t], e) \in Seq(Cmds) /\ retQ \in Queues /\ cache \in Queues
        BY Queue, Appended DEF IInv, Types, QueueTypes
      <4> QED BY <2>5, <3>1, <4>1, Queue DEF Flush
    <3>3. thr' \in [Threads -> ThrRec]
      <4>1. thr[t] \in ThrRec
        BY DEF IInv, Types
      <4>2. [thr[t] EXCEPT !.busy = TRUE] \in ThrRec
        BY <4>1 DEF ThrRec
      <4> QED BY <2>5, <4>2, ThrSet DEF Flush, IInv
    <3> QED BY <2>5, <3>2, <3>3 DEF Flush, IInv, Types, QueueTypes
  <2>6. CASE NextProc(t)
    <3>1. Tail(thr[t].rest) \in Seq(Procs)
      BY <2>6, TakeHead DEF NextProc, IInv, Working
    <3>2. thr' \in [Threads -> ThrRec]
      <4>1. thr[t] \in ThrRec
        BY DEF IInv, Types
      <4>2. (thr[t].busy \/ cache[Visited(t)][t] # <<>>) \in BOOLEAN
        OBVIOUS
      <4>3. \A x \in Seq(Procs), b \in BOOLEAN :
              [thr[t] EXCEPT !.pc = "visit", !.rest = x, !.busy = b] \in ThrRec
        BY <4>1 DEF ThrRec
      <4>4. [thr[t] EXCEPT !.pc = "visit", !.rest = Tail(@),
                           !.busy = @ \/ cache[Visited(t)][t] # <<>>] \in ThrRec
        BY <3>1, <4>2, <4>3, Zenon
      <4> QED BY <2>6, <4>4, ThrSet DEF NextProc, IInv
    <3> QED BY <2>6, <3>2 DEF NextProc, IInv, Types, QueueTypes
  <2>7. CASE NextPass(t)
    <3>1. thr' \in [Threads -> ThrRec]
      <4>1. thr[t] \in ThrRec /\ list \in Seq(Procs)
        BY DEF IInv, Types, QueueTypes
      <4>2. (~thr[t].run) \in BOOLEAN
        OBVIOUS
      <4>3. \A b \in BOOLEAN :
              [thr[t] EXCEPT !.rest = list, !.busy = FALSE, !.ending = b] \in ThrRec
        BY <4>1 DEF ThrRec
      <4>4. [thr[t] EXCEPT !.rest = list, !.busy = FALSE, !.ending = ~thr[t].run] \in ThrRec
        BY <4>2, <4>3, Zenon
      <4> QED BY <2>7, <4>4, ThrSet DEF NextPass, IInv
    <3> QED BY <2>7, <3>1 DEF NextPass, IInv, Types, QueueTypes
  <2> QED BY <1>8, <2>1, <2>2, <2>3, <2>4, <2>5, <2>6, <2>7 DEF ThreadStep
<1>9. CASE Stop
  BY <1>9, StopTypes, Consts DEF Stop
<1>10. CASE Join
  <2>1. CASE main.k > 1
    <3>1. main.k - 1 \in Threads /\ main.back \in {"work", "drain", "done", "gone"}
      BY <1>10, <2>1, Consts DEF Join, IInv, Types, MainRec
    <3> QED BY <1>10, <2>1, <3>1, StopTypes DEF Join
  <2>2. CASE ~ (main.k > 1)
    BY <1>10, <2>2 DEF Join, IInv, Types, QueueTypes, MainRec
  <2> QED BY <2>1, <2>2
<1>11. CASE Complete
  BY <1>11 DEF Complete, IInv, Types, QueueTypes, MainRec
<1>12. CASE Uninit
  <2>1. CASE main.pc = "work" /\ StopThread(N, "gone")
    BY <2>1, StopTypes, Consts
  <2>2. CASE main.pc = "done"
    BY <1>12, <2>2 DEF Uninit, IInv, Types, QueueTypes, MainRec
  <2> QED BY <1>12, <2>1, <2>2 DEF Uninit
<1>13. ASSUME NEW c \in Conns, Destroy(c) PROVE Types'
  <2>1. main' \in MainRec /\ conn' \in [Conns -> ConnRec]
    BY <1>13 DEF Destroy, IInv, Types, MainRec, ConnRec
  <2> QED BY <1>13, <2>1 DEF Destroy, IInv, Types, QueueTypes
<1>14. ASSUME NEW c \in Conns, Destroyed(c) PROVE Types'
  <2>1. main' \in MainRec /\ conn' \in [Conns -> ConnRec]
    BY <1>14 DEF Destroyed, IInv, Types, MainRec, ConnRec
  <2> QED BY <1>14, <2>1 DEF Destroyed, IInv, Types, QueueTypes
<1> QED
  BY <1>1, <1>2, <1>3, <1>4, <1>5, <1>6, <1>7, <1>8, <1>9, <1>10, <1>11, <1>12, <1>13, <1>14
  DEF Next, Posting

-----------------------------------------------------------------------------
(***************************************************************************)
(* What the steps do to the queues.                                        *)
(***************************************************************************)
LEMMA PushEffect ==
  ASSUME IInv, NEW p \in Procs, Push(p)
  PROVE  /\ post[p].cmd \in Cmds /\ post[p].cmd.conn \in Conns
         /\ ThreadOf[post[p].cmd.conn] \in Threads
         /\ \A q \in Procs, u \in Threads :
              /\ q = p /\ u = ThreadOf[post[p].cmd.conn] =>
                   /\ cmdQ'[q][u] = Append(cmdQ[q][u], post[p].cmd)
                   /\ posted'[q][u] = Append(posted[q][u], post[p].cmd)
                   /\ Len(cmdQ[q][u]) < Cap
              /\ ~ (q = p /\ u = ThreadOf[post[p].cmd.conn]) =>
                   cmdQ'[q][u] = cmdQ[q][u] /\ posted'[q][u] = posted[q][u]
<1>1. post[p].cmd \in Cmds /\ post[p].cmd.conn \in Conns
  BY DEF Push, IInv, PostingOpen, Cmds
<1>0. /\ cmdQ \in Queues /\ posted \in Queues
  BY DEF IInv, Types, QueueTypes
<1>a. \A t \in Threads, e \in Cmds : Adds(cmdQ', cmdQ, p, t, e) => \A q \in Procs, u \in Threads :
        /\ q = p /\ u = t => cmdQ'[q][u] = Append(cmdQ[q][u], e)
        /\ ~ (q = p /\ u = t) => cmdQ'[q][u] = cmdQ[q][u]
  BY <1>0, QueueAdds
<1>b. \A t \in Threads, e \in Cmds : Adds(posted', posted, p, t, e) => \A q \in Procs, u \in Threads :
        /\ q = p /\ u = t => posted'[q][u] = Append(posted[q][u], e)
        /\ ~ (q = p /\ u = t) => posted'[q][u] = posted[q][u]
  BY <1>0, QueueAdds
<1> PICK t \in Threads : t = ThreadOf[post[p].cmd.conn]
  BY <1>1, Consts
<1> PICK e \in Cmds : e = post[p].cmd
  BY <1>1
<1>2. /\ cmdQ \in Queues /\ posted \in Queues
      /\ Adds(cmdQ', cmdQ, p, t, e) /\ Adds(posted', posted, p, t, e)
      /\ Len(cmdQ[p][t]) < Cap
  BY DEF Adds, Push, IInv, Types, QueueTypes
<1>3. \A q \in Procs, u \in Threads :
        /\ q = p /\ u = t => cmdQ'[q][u] = Append(cmdQ[q][u], e)
        /\ ~ (q = p /\ u = t) => cmdQ'[q][u] = cmdQ[q][u]
  BY <1>2, <1>a
<1>4. \A q \in Procs, u \in Threads :
        /\ q = p /\ u = t => posted'[q][u] = Append(posted[q][u], e)
        /\ ~ (q = p /\ u = t) => posted'[q][u] = posted[q][u]
  BY <1>2, <1>b
<1> QED BY ZenonT(60), <1>1, <1>2, <1>3, <1>4

LEMMA RunEffect ==
  ASSUME IInv, NEW p \in Procs, RunStep(p), NEW q \in Procs, NEW u \in Threads
  PROVE  \/ retQ'[q][u] = retQ[q][u] /\ done'[q][u] = done[q][u]
         \/ /\ q = p /\ u = idx[p] /\ retQ[q][u] # <<>> /\ retQ'[q][u] = Tail(retQ[q][u])
            /\ done'[q][u] = Append(done[q][u], Head(retQ[q][u]))
<1>a. /\ retQ \in Queues /\ done \in Queues
  BY DEF IInv, Types, QueueTypes
<1>b. \A t \in Threads, e \in Cmds : Adds(done', done, p, t, e) =>
        /\ q = p /\ u = t => done'[q][u] = Append(done[q][u], e)
        /\ ~ (q = p /\ u = t) => done'[q][u] = done[q][u]
  BY <1>a, QueueAdds
<1> PICK t \in Threads : t = idx[p]
  BY DEF IInv, Types
<1>1. CASE retQ[p][t] = <<>>
  BY <1>1 DEF RunStep
<1>2. CASE retQ[p][t] # <<>>
  <2>1. Head(retQ[p][t]) \in Cmds
    BY <1>2, Queue, Tails DEF IInv, Types, QueueTypes
  <2> PICK e \in Cmds : e = Head(retQ[p][t])
    BY <2>1
  <2>2. /\ retQ \in Queues /\ done \in Queues
        /\ Adds(done', done, p, t, e) /\ Takes(retQ', retQ, p, t)
    BY <1>2 DEF Adds, Takes, RunStep, IInv, Types, QueueTypes
  <2>3. /\ q = p /\ u = t => retQ'[q][u] = Tail(retQ[q][u])
        /\ ~ (q = p /\ u = t) => retQ'[q][u] = retQ[q][u]
    BY <2>2, QueueTakes
  <2>4. /\ q = p /\ u = t => done'[q][u] = Append(done[q][u], e)
        /\ ~ (q = p /\ u = t) => done'[q][u] = done[q][u]
    BY <2>2, <1>b
  <2> QED BY <1>2, <2>3, <2>4
<1> QED BY <1>1, <1>2

LEMMA PopEffect ==
  ASSUME IInv, NEW t \in Threads, Pop(t)
  PROVE  /\ Visited(t) \in Procs
         /\ \A q \in Procs, u \in Threads :
              /\ q = Visited(t) /\ u = t =>
                   /\ cmdQ[q][u] # <<>> /\ cmdQ'[q][u] = Tail(cmdQ[q][u])
                   /\ thr'[t].cmd = Head(cmdQ[q][u])
              /\ ~ (q = Visited(t) /\ u = t) => cmdQ'[q][u] = cmdQ[q][u]
         /\ thr[t].pc = "visit" /\ thr[t].rest # <<>>
         /\ thr'[t].pc = "exec" /\ thr'[t].rest = thr[t].rest /\ thr'[t].busy
         /\ thr'[t].run = thr[t].run /\ thr'[t].ending = thr[t].ending
         /\ \A u \in Threads \ {t} : thr'[u] = thr[u]
<1>1. Visited(t) \in Procs
  BY TakeHead DEF Pop, IInv
<1> PICK p \in Procs : p = Visited(t)
  BY <1>1
<1>2. cmdQ \in Queues /\ cmdQ[p][t] # <<>> /\ Takes(cmdQ', cmdQ, p, t)
  BY DEF Takes, Pop, IInv, Types, QueueTypes
<1>3. \A q \in Procs, u \in Threads :
        /\ q = p /\ u = t => cmdQ'[q][u] = Tail(cmdQ[q][u])
        /\ ~ (q = p /\ u = t) => cmdQ'[q][u] = cmdQ[q][u]
  BY <1>2, QueueTakes
<1>4. /\ thr[t].pc = "visit" /\ thr[t].rest # <<>>
      /\ thr'[t] = [thr[t] EXCEPT !.pc = "exec", !.cmd = Head(cmdQ[p][t]), !.busy = TRUE]
      /\ \A u \in Threads \ {t} : thr'[u] = thr[u]
      /\ thr[t] \in ThrRec
  BY DEF Pop, Step, IInv, Types
<1>5. /\ thr'[t].pc = "exec" /\ thr'[t].rest = thr[t].rest /\ thr'[t].busy
      /\ thr'[t].run = thr[t].run /\ thr'[t].ending = thr[t].ending
      /\ thr'[t].cmd = Head(cmdQ[p][t])
  BY <1>4 DEF ThrRec
<1> QED BY <1>1, <1>2, <1>3, <1>4, <1>5

LEMMA PutEffect ==
  ASSUME IInv, NEW t \in Threads, Put(t)
  PROVE  /\ Visited(t) \in Procs /\ thr[t].cmd \in Cmds
         /\ \A q \in Procs, u \in Threads :
              /\ q = Visited(t) /\ u = t =>
                   \/ /\ cache[q][u] = <<>> /\ Len(retQ[q][u]) < Cap
                      /\ retQ'[q][u] = Append(retQ[q][u], thr[t].cmd)
                      /\ cache'[q][u] = cache[q][u]
                   \/ /\ retQ'[q][u] = retQ[q][u]
                      /\ cache'[q][u] = Append(cache[q][u], thr[t].cmd)
              /\ ~ (q = Visited(t) /\ u = t) =>
                   retQ'[q][u] = retQ[q][u] /\ cache'[q][u] = cache[q][u]
<1>1. Visited(t) \in Procs /\ thr[t].cmd \in Cmds
  BY TakeHead DEF Put, IInv, Working
<1> PICK p \in Procs : p = Visited(t)
  BY <1>1
<1> PICK e \in Cmds : e = thr[t].cmd
  BY <1>1
<1>2. retQ \in Queues /\ cache \in Queues
  BY DEF IInv, Types, QueueTypes
<1>3. CASE cache[p][t] = <<>> /\ Len(retQ[p][t]) < Cap
  <2>1. Adds(retQ', retQ, p, t, e) /\ cache' = cache
    BY <1>3 DEF Adds, Put
  <2>2. \A q \in Procs, u \in Threads :
          /\ q = p /\ u = t => retQ'[q][u] = Append(retQ[q][u], e)
          /\ ~ (q = p /\ u = t) => retQ'[q][u] = retQ[q][u]
    BY <1>2, <2>1, QueueAdds
  <2> QED BY <1>1, <1>3, <2>1, <2>2
<1>4. CASE ~ (cache[p][t] = <<>> /\ Len(retQ[p][t]) < Cap)
  <2>1. Adds(cache', cache, p, t, e) /\ retQ' = retQ
    BY <1>4 DEF Adds, Put
  <2>2. \A q \in Procs, u \in Threads :
          /\ q = p /\ u = t => cache'[q][u] = Append(cache[q][u], e)
          /\ ~ (q = p /\ u = t) => cache'[q][u] = cache[q][u]
    BY <1>2, <2>1, QueueAdds
  <2> QED BY <1>1, <2>1, <2>2
<1> QED BY <1>3, <1>4

LEMMA FlushEffect ==
  ASSUME IInv, NEW t \in Threads, Flush(t)
  PROVE  /\ Visited(t) \in Procs
         /\ \A q \in Procs, u \in Threads :
              /\ q = Visited(t) /\ u = t =>
                   /\ cache[q][u] # <<>> /\ Len(retQ[q][u]) < Cap
                   /\ retQ'[q][u] = Append(retQ[q][u], Head(cache[q][u]))
                   /\ cache'[q][u] = Tail(cache[q][u])
              /\ ~ (q = Visited(t) /\ u = t) =>
                   retQ'[q][u] = retQ[q][u] /\ cache'[q][u] = cache[q][u]
<1>1. Visited(t) \in Procs
  BY TakeHead DEF Flush, IInv, Working
<1> PICK p \in Procs : p = Visited(t)
  BY <1>1
<1>2. /\ cache[p][t] # <<>> /\ Len(retQ[p][t]) < Cap
      /\ retQ \in Queues /\ cache \in Queues
  BY DEF Flush, IInv, Types, QueueTypes
<1>3. Head(cache[p][t]) \in Cmds
  BY <1>2, Queue, Tails
<1> PICK e \in Cmds : e = Head(cache[p][t])
  BY <1>3
<1>4. Adds(retQ', retQ, p, t, e) /\ Takes(cache', cache, p, t)
  BY DEF Adds, Takes, Flush
<1>5. \A q \in Procs, u \in Threads :
        /\ q = p /\ u = t => retQ'[q][u] = Append(retQ[q][u], e)
        /\ ~ (q = p /\ u = t) => retQ'[q][u] = retQ[q][u]
  BY <1>2, <1>4, QueueAdds
<1>6. \A q \in Procs, u \in Threads :
        /\ q = p /\ u = t => cache'[q][u] = Tail(cache[q][u])
        /\ ~ (q = p /\ u = t) => cache'[q][u] = cache[q][u]
  BY <1>2, <1>4, QueueTakes
<1> QED BY <1>1, <1>2, <1>5, <1>6

(* The fields of a db thread after its step.                               *)
LEMMA ThrEffect ==
  ASSUME IInv, NEW t \in Threads,
         PopNone(t) \/ Execute(t) \/ Put(t) \/ Flush(t) \/ NextProc(t) \/ NextPass(t) \/ Over(t)
  PROVE  /\ \A u \in Threads \ {t} : thr'[u] = thr[u]
         /\ thr'[t].run = thr[t].run
         /\ ~ NextPass(t) => thr'[t].ending = thr[t].ending
         /\ Put(t) => thr'[t].cmd = NoCmd
         /\ ~ Put(t) => thr'[t].cmd = thr[t].cmd
         /\ PopNone(t) => thr[t].pc = "visit" /\ thr'[t].pc = "flush"
         /\ Execute(t) => thr[t].pc = "exec" /\ thr'[t].pc = "put"
         /\ Put(t) => thr[t].pc = "put" /\ thr'[t].pc = "flush"
         /\ Flush(t) => thr[t].pc = "flush" /\ thr'[t].pc = "flush" /\ thr'[t].busy
         /\ NextProc(t) => /\ thr[t].pc = "flush" /\ thr'[t].pc = "visit"
                           /\ thr'[t].rest = Tail(thr[t].rest)
                           /\ thr'[t].busy <=> thr[t].busy \/ cache[Visited(t)][t] # <<>>
         /\ NextPass(t) => /\ thr[t].pc = "visit" /\ thr'[t].pc = "visit" /\ thr[t].rest = <<>>
                           /\ thr'[t].rest = list /\ ~ thr'[t].busy
                           /\ thr'[t].ending <=> ~ thr[t].run
         /\ Over(t) => /\ thr[t].pc = "visit" /\ thr'[t].pc = "over" /\ thr[t].rest = <<>>
                       /\ thr[t].ending /\ ~ thr[t].busy
         /\ ~ (NextProc(t) \/ NextPass(t)) => thr'[t].rest = thr[t].rest
         /\ PopNone(t) \/ Execute(t) \/ Put(t) \/ Over(t) => (thr'[t].busy <=> thr[t].busy)
<1>1. thr \in [Threads -> ThrRec] /\ thr[t] \in ThrRec
  BY DEF IInv, Types
<1>2. CASE PopNone(t)
  BY <1>1, <1>2 DEF PopNone, Execute, Put, Flush, NextProc, NextPass, Over, Step, ThrRec
<1>3. CASE Execute(t)
  BY <1>1, <1>3 DEF PopNone, Execute, Put, Flush, NextProc, NextPass, Over, Step, ThrRec
<1>4. CASE Put(t)
  BY <1>1, <1>4 DEF PopNone, Execute, Put, Flush, NextProc, NextPass, Over, Step, ThrRec
<1>5. CASE Flush(t)
  BY <1>1, <1>5 DEF PopNone, Execute, Put, Flush, NextProc, NextPass, Over, Step, ThrRec
<1>6. CASE NextProc(t)
  BY ZenonT(60), <1>1, <1>6 DEF PopNone, Execute, Put, Flush, NextProc, NextPass, Over, Step, ThrRec
<1>7. CASE NextPass(t)
  BY ZenonT(60), <1>1, <1>7 DEF PopNone, Execute, Put, Flush, NextProc, NextPass, Over, Step, ThrRec
<1>8. CASE Over(t)
  <2>1. /\ thr'[t] = [thr[t] EXCEPT !.pc = "over"] /\ \A u \in Threads \ {t} : thr'[u] = thr[u]
        /\ thr[t].pc = "visit" /\ thr[t].rest = <<>> /\ thr[t].ending /\ ~ thr[t].busy
    BY <1>1, <1>8 DEF Over, Step
  <2>2. /\ thr'[t].run = thr[t].run /\ thr'[t].ending = thr[t].ending /\ thr'[t].pc = "over"
        /\ thr'[t].rest = thr[t].rest /\ thr'[t].cmd = thr[t].cmd
        /\ thr'[t].busy = thr[t].busy
    BY <1>1, <2>1 DEF ThrRec
  <2>3. NextPass(t) => thr'[t].pc = thr[t].pc
    <3>1. NextPass(t) => thr'[t] = [thr[t] EXCEPT !.rest = list, !.busy = FALSE,
                                                  !.ending = ~thr[t].run]
      BY <1>1 DEF NextPass, Step
    <3>2. \A b : [thr[t] EXCEPT !.rest = list, !.busy = FALSE, !.ending = b].pc = thr[t].pc
      BY <1>1 DEF ThrRec
    <3> QED BY <3>1, <3>2
  <2>4. ~ PopNone(t) /\ ~ Execute(t) /\ ~ Put(t) /\ ~ Flush(t) /\ ~ NextProc(t)
    BY <2>1, <2>2 DEF PopNone, Execute, Put, Flush, NextProc
  <2> QED BY <2>1, <2>2, <2>3, <2>4
<1> QED BY <1>2, <1>3, <1>4, <1>5, <1>6, <1>7, <1>8

-----------------------------------------------------------------------------
(***************************************************************************)
(* InOrder: every step leaves the commands where they are in the flow.     *)
(***************************************************************************)
HeldBy(r, p) == IF r.pc \in {"exec", "put"} /\ Head(r.rest) = p THEN <<r.cmd>> ELSE <<>>
Ordered(p, t) ==
  posted[p][t] = Flow(done[p][t], retQ[p][t], cache[p][t], HeldBy(thr[t], p), cmdQ[p][t])

LEMMA OrderedAll == InOrder <=> \A p \in Procs, t \in Threads : Ordered(p, t)
BY DEF InOrder, Ordered, Flow, Cat, Held, HeldBy, Visited

LEMMA Lines ==
  ASSUME IInv, NEW p \in Procs, NEW t \in Threads
  PROVE  /\ done[p][t] \in Seq(Cmds) /\ retQ[p][t] \in Seq(Cmds) /\ cache[p][t] \in Seq(Cmds)
         /\ HeldBy(thr[t], p) \in Seq(Cmds) /\ cmdQ[p][t] \in Seq(Cmds)
         /\ posted[p][t] \in Seq(Cmds) /\ Ordered(p, t)
<1>1. HeldBy(thr[t], p) \in Seq(Cmds)
  BY DEF IInv, Working, HeldBy
<1>2. /\ done[p][t] \in Seq(Cmds) /\ retQ[p][t] \in Seq(Cmds) /\ cache[p][t] \in Seq(Cmds)
      /\ cmdQ[p][t] \in Seq(Cmds) /\ posted[p][t] \in Seq(Cmds)
  BY Queue DEF IInv, Types, QueueTypes
<1> QED BY <1>1, <1>2, OrderedAll DEF IInv

(* nothing moves between p and t                                           *)
Unmoved(p, t) ==
  /\ posted'[p][t] = posted[p][t] /\ done'[p][t] = done[p][t] /\ retQ'[p][t] = retQ[p][t]
  /\ cache'[p][t] = cache[p][t] /\ cmdQ'[p][t] = cmdQ[p][t]
  /\ HeldBy(thr'[t], p) = HeldBy(thr[t], p)

LEMMA OrderedUnmoved ==
  ASSUME IInv, NEW p \in Procs, NEW t \in Threads, Unmoved(p, t)
  PROVE  Ordered(p, t)'
BY Lines DEF Ordered, Unmoved

LEMMA OrderedPush ==
  ASSUME IInv, NEW p \in Procs, Push(p), NEW q \in Procs, NEW u \in Threads
  PROVE  Ordered(q, u)'
<1>1. done' = done /\ retQ' = retQ /\ cache' = cache /\ thr' = thr
  BY DEF Push
<1>2. \A e \in Cmds :
        Cat(Flow(done[q][u], retQ[q][u], cache[q][u], HeldBy(thr[u], q), cmdQ[q][u]), <<e>>)
          = Flow(done[q][u], retQ[q][u], cache[q][u], HeldBy(thr[u], q), Append(cmdQ[q][u], e))
  <2> DEFINE a == done[q][u]
             b == retQ[q][u]
             x == cache[q][u]
             h == HeldBy(thr[u], q)
             k == cmdQ[q][u]
  <2>1. /\ a \in Seq(Cmds) /\ b \in Seq(Cmds) /\ x \in Seq(Cmds) /\ h \in Seq(Cmds)
        /\ k \in Seq(Cmds)
    BY Lines
  <2> HIDE DEF a, b, x, h, k
  <2>2. \A e \in Cmds : Cat(Flow(a, b, x, h, k), <<e>>) = Flow(a, b, x, h, Append(k, e))
    BY <2>1, FlowPosted
  <2> QED BY <2>2 DEF a, b, x, h, k
<1>3. /\ post[p].cmd \in Cmds
      /\ q = p /\ u = ThreadOf[post[p].cmd.conn] =>
           /\ cmdQ'[q][u] = Append(cmdQ[q][u], post[p].cmd)
           /\ posted'[q][u] = Append(posted[q][u], post[p].cmd)
      /\ ~ (q = p /\ u = ThreadOf[post[p].cmd.conn]) =>
           cmdQ'[q][u] = cmdQ[q][u] /\ posted'[q][u] = posted[q][u]
  BY PushEffect
<1>4. CASE q = p /\ u = ThreadOf[post[p].cmd.conn]
  <2>1. posted[q][u] = Flow(done[q][u], retQ[q][u], cache[q][u], HeldBy(thr[u], q), cmdQ[q][u])
    BY Lines DEF Ordered
  <2>2. posted'[q][u] = Flow(done[q][u], retQ[q][u], cache[q][u], HeldBy(thr[u], q), cmdQ'[q][u])
    <3>1. Cat(posted[q][u], <<post[p].cmd>>) = Append(posted[q][u], post[p].cmd)
      BY <1>3, Lines, OneBehind
    <3> QED BY ZenonT(60), <1>2, <1>3, <1>4, <2>1, <3>1
  <2> QED BY <1>1, <2>2 DEF Ordered
<1>5. CASE ~ (q = p /\ u = ThreadOf[post[p].cmd.conn])
  BY <1>1, <1>3, <1>5, OrderedUnmoved DEF Unmoved
<1> QED BY <1>4, <1>5

LEMMA OrderedRun ==
  ASSUME IInv, NEW p \in Procs, RunStep(p), NEW q \in Procs, NEW u \in Threads
  PROVE  Ordered(q, u)'
<1>1. posted' = posted /\ cache' = cache /\ cmdQ' = cmdQ /\ thr' = thr
  BY DEF RunStep
<1>2. CASE retQ'[q][u] = retQ[q][u] /\ done'[q][u] = done[q][u]
  BY <1>1, <1>2, OrderedUnmoved DEF Unmoved
<1>3. CASE /\ retQ[q][u] # <<>> /\ retQ'[q][u] = Tail(retQ[q][u])
           /\ done'[q][u] = Append(done[q][u], Head(retQ[q][u]))
  <2>1. Flow(Append(done[q][u], Head(retQ[q][u])), Tail(retQ[q][u]), cache[q][u],
             HeldBy(thr[u], q), cmdQ[q][u])
          = Flow(done[q][u], retQ[q][u], cache[q][u], HeldBy(thr[u], q), cmdQ[q][u])
    BY <1>3, Lines, FlowTaken
  <2> QED BY <1>1, <1>3, <2>1, Lines DEF Ordered
<1> QED BY <1>2, <1>3, RunEffect

LEMMA OrderedPop ==
  ASSUME IInv, NEW t \in Threads, Pop(t), NEW q \in Procs, NEW u \in Threads
  PROVE  Ordered(q, u)'
<1>1. /\ posted' = posted /\ done' = done /\ retQ' = retQ /\ cache' = cache
  BY DEF Pop, history
<1>2. CASE q = Visited(t) /\ u = t
  <2>1. /\ cmdQ[q][u] # <<>> /\ cmdQ'[q][u] = Tail(cmdQ[q][u])
        /\ thr'[u].cmd = Head(cmdQ[q][u]) /\ thr'[u].pc = "exec" /\ thr'[u].rest = thr[u].rest
        /\ thr[u].pc = "visit"
    BY <1>2, PopEffect
  <2>2. HeldBy(thr[u], q) = <<>> /\ HeldBy(thr'[u], q) = <<Head(cmdQ[q][u])>>
    BY <1>2, <2>1 DEF HeldBy, Visited
  <2>3. Flow(done[q][u], retQ[q][u], cache[q][u], <<Head(cmdQ[q][u])>>, Tail(cmdQ[q][u]))
          = Flow(done[q][u], retQ[q][u], cache[q][u], <<>>, cmdQ[q][u])
    BY <2>1, Lines, FlowPopped
  <2> QED BY <1>1, <2>1, <2>2, <2>3, Lines DEF Ordered
<1>3. CASE ~ (q = Visited(t) /\ u = t)
  <2>1. cmdQ'[q][u] = cmdQ[q][u]
    BY <1>3, PopEffect
  <2>2. HeldBy(thr'[u], q) = HeldBy(thr[u], q)
    <3>1. CASE u = t
      <4>1. thr'[u].rest = thr[u].rest /\ thr[u].pc = "visit"
        BY <3>1, PopEffect
      <4> QED BY <1>3, <3>1, <4>1 DEF HeldBy, Visited
    <3>2. CASE u # t
      BY <3>2, PopEffect
    <3> QED BY <3>1, <3>2
  <2> QED BY <1>1, <2>1, <2>2, OrderedUnmoved DEF Unmoved
<1> QED BY <1>2, <1>3

LEMMA OrderedPut ==
  ASSUME IInv, NEW t \in Threads, Put(t), NEW q \in Procs, NEW u \in Threads
  PROVE  Ordered(q, u)'
<1>1. /\ posted' = posted /\ done' = done /\ cmdQ' = cmdQ
  BY DEF Put, history
<1> PICK e \in Cmds : e = thr[t].cmd
  BY PutEffect
<1>2. /\ thr[t].pc = "put" /\ thr'[t].pc = "flush"
      /\ \A x \in Threads \ {t} : thr'[x] = thr[x]
  BY ThrEffect
<1>3. CASE q = Visited(t) /\ u = t
  <2>1. HeldBy(thr[u], q) = <<e>> /\ HeldBy(thr'[u], q) = <<>>
    BY <1>2, <1>3 DEF HeldBy, Visited
  <2>2. CASE /\ cache[q][u] = <<>> /\ retQ'[q][u] = Append(retQ[q][u], e)
             /\ cache'[q][u] = cache[q][u]
    <3>1. Flow(done[q][u], Append(retQ[q][u], e), <<>>, <<>>, cmdQ[q][u])
            = Flow(done[q][u], retQ[q][u], <<>>, <<e>>, cmdQ[q][u])
      BY Lines, FlowAnswered
    <3> QED BY <1>1, <2>1, <2>2, <3>1, Lines DEF Ordered
  <2>3. CASE retQ'[q][u] = retQ[q][u] /\ cache'[q][u] = Append(cache[q][u], e)
    <3>1. Flow(done[q][u], retQ[q][u], Append(cache[q][u], e), <<>>, cmdQ[q][u])
            = Flow(done[q][u], retQ[q][u], cache[q][u], <<e>>, cmdQ[q][u])
      BY Lines, FlowCached
    <3> QED BY <1>1, <2>1, <2>3, <3>1, Lines DEF Ordered
  <2> QED BY <1>3, <2>2, <2>3, PutEffect
<1>4. CASE ~ (q = Visited(t) /\ u = t)
  <2>1. retQ'[q][u] = retQ[q][u] /\ cache'[q][u] = cache[q][u]
    BY <1>4, PutEffect
  <2>2. HeldBy(thr'[u], q) = HeldBy(thr[u], q)
    BY <1>2, <1>4 DEF HeldBy, Visited
  <2> QED BY <1>1, <2>1, <2>2, OrderedUnmoved DEF Unmoved
<1> QED BY <1>3, <1>4

LEMMA OrderedFlush ==
  ASSUME IInv, NEW t \in Threads, Flush(t), NEW q \in Procs, NEW u \in Threads
  PROVE  Ordered(q, u)'
<1>1. /\ posted' = posted /\ done' = done /\ cmdQ' = cmdQ
  BY DEF Flush, history
<1>2. HeldBy(thr'[u], q) = HeldBy(thr[u], q)
  <2>1. /\ thr[t].pc = "flush" /\ thr'[t].pc = "flush"
        /\ \A x \in Threads \ {t} : thr'[x] = thr[x]
    BY ThrEffect
  <2> QED BY <2>1 DEF HeldBy
<1>3. CASE q = Visited(t) /\ u = t
  <2>1. /\ cache[q][u] # <<>> /\ retQ'[q][u] = Append(retQ[q][u], Head(cache[q][u]))
        /\ cache'[q][u] = Tail(cache[q][u])
    BY <1>3, FlushEffect
  <2>2. Flow(done[q][u], Append(retQ[q][u], Head(cache[q][u])), Tail(cache[q][u]),
             HeldBy(thr[u], q), cmdQ[q][u])
          = Flow(done[q][u], retQ[q][u], cache[q][u], HeldBy(thr[u], q), cmdQ[q][u])
    BY <2>1, Lines, FlowFlushed
  <2> QED BY <1>1, <1>2, <2>1, <2>2, Lines DEF Ordered
<1>4. CASE ~ (q = Visited(t) /\ u = t)
  <2>1. retQ'[q][u] = retQ[q][u] /\ cache'[q][u] = cache[q][u]
    BY <1>4, FlushEffect
  <2> QED BY <1>1, <1>2, <2>1, OrderedUnmoved DEF Unmoved
<1> QED BY <1>3, <1>4

(* the other steps of a db thread move nothing                             *)
LEMMA OrderedThread ==
  ASSUME IInv, NEW t \in Threads, NEW q \in Procs, NEW u \in Threads,
         PopNone(t) \/ Execute(t) \/ NextProc(t) \/ NextPass(t) \/ Over(t)
  PROVE  Unmoved(q, u)
<1>1. /\ posted' = posted /\ done' = done /\ retQ' = retQ /\ cache' = cache /\ cmdQ' = cmdQ
  BY DEF PopNone, Execute, NextProc, NextPass, Over, history, queues
<1>2. \A x \in Threads \ {t} : thr'[x] = thr[x]
  BY ThrEffect
<1>3. HeldBy(thr'[t], q) = HeldBy(thr[t], q)
  <2>1. CASE Execute(t)
    <3>1. /\ thr[t].pc = "exec" /\ thr'[t].pc = "put" /\ thr'[t].cmd = thr[t].cmd
          /\ thr'[t].rest = thr[t].rest
      <4>1. ~ Put(t) /\ ~ NextProc(t) /\ ~ NextPass(t)
        BY <2>1 DEF Execute, Put, NextProc, NextPass
      <4> QED BY <2>1, <4>1, ThrEffect
    <3> QED BY <3>1 DEF HeldBy
  <2>2. CASE PopNone(t) \/ NextProc(t) \/ NextPass(t) \/ Over(t)
    <3>1. thr[t].pc \in {"visit", "flush"} /\ thr'[t].pc \in {"visit", "flush", "over"}
      BY <2>2, ThrEffect
    <3> QED BY <3>1 DEF HeldBy
  <2> QED BY <2>1, <2>2
<1> QED BY <1>1, <1>2, <1>3 DEF Unmoved

(* A stop of a thread takes its m_is_run, and changes neither the queues   *)
(* nor where the db threads are.                                           *)
LEMMA StopEffect ==
  ASSUME IInv, NEW k \in Threads, NEW back, StopThread(k, back)
  PROVE  /\ \A u \in Threads :
              /\ thr'[u].pc = thr[u].pc /\ thr'[u].rest = thr[u].rest /\ thr'[u].cmd = thr[u].cmd
              /\ thr'[u].busy = thr[u].busy /\ thr'[u].ending = thr[u].ending
         /\ \A u \in Threads \ {k} : thr'[u].run = thr[u].run
         /\ thr'[k].run = FALSE
         /\ \A p \in Procs, u \in Threads :
              before'[p][u] = IF u = k THEN Len(posted[p][k]) ELSE before[p][u]
         /\ main' = [main EXCEPT !.pc = "join", !.k = k, !.back = back]
         /\ UNCHANGED <<list, queues, idx, post, conn, posted, done>>
<1>1. thr \in [Threads -> ThrRec] /\ before \in [Procs -> [Threads -> Nat]]
  BY DEF IInv, Types, QueueTypes
<1>2. /\ \A u \in Threads :
           /\ thr'[u].pc = thr[u].pc /\ thr'[u].rest = thr[u].rest /\ thr'[u].cmd = thr[u].cmd
           /\ thr'[u].busy = thr[u].busy /\ thr'[u].ending = thr[u].ending
      /\ \A u \in Threads \ {k} : thr'[u].run = thr[u].run
      /\ thr'[k].run = FALSE
  BY <1>1 DEF StopThread, ThrRec
<1>3. \A p \in Procs, u \in Threads :
        before'[p][u] = IF u = k THEN Len(posted[p][k]) ELSE before[p][u]
  BY <1>1 DEF StopThread
<1> QED BY <1>2, <1>3 DEF StopThread

(* the steps of Main: a stop of a thread, or no thread at all              *)
LEMMA MainSteps ==
  ASSUME IInv, Stop \/ Join \/ Complete \/ Uninit
  PROVE  \/ \E k \in Threads, back \in {"work", "drain", "done", "gone"} : StopThread(k, back)
         \/ UNCHANGED <<list, queues, thr, idx, post, conn, history>>
<1>1. CASE Stop
  BY <1>1, Consts DEF Stop
<1>2. CASE Join
  <2>1. CASE main.k > 1
    <3>1. main.k - 1 \in Threads /\ main.back \in {"work", "drain", "done", "gone"}
      BY <2>1, Consts DEF IInv, Types, MainRec
    <3> QED BY <1>2, <2>1, <3>1 DEF Join
  <2>2. CASE ~ (main.k > 1)
    BY <1>2, <2>2 DEF Join
  <2> QED BY <2>1, <2>2
<1>3. CASE Complete
  BY <1>3 DEF Complete
<1>4. CASE Uninit
  BY <1>4, Consts DEF Uninit
<1> QED BY <1>1, <1>2, <1>3, <1>4

LEMMA OrderNext ==
  ASSUME IInv, Next
  PROVE  InOrder'
<1> SUFFICES ASSUME NEW q \in Procs, NEW u \in Threads PROVE Ordered(q, u)'
  BY DEF InOrder, Ordered, Flow, Cat, Held, HeldBy, Visited
<1> USE DEF history, queues
<1>1. ASSUME NEW p \in Procs,
             Register(p) \/ PushFull(p) \/ CountLoad(p) \/ CountStore(p) \/ CountOther(p)
      PROVE  Ordered(q, u)'
  BY <1>1, OrderedUnmoved DEF Unmoved, Register, PushFull, CountLoad, CountStore, CountOther
<1>2. ASSUME NEW p \in Procs, NEW c \in Conns, NEW tries \in 1 .. MaxTries, Post(p, c, tries)
      PROVE  Ordered(q, u)'
  BY <1>2, OrderedUnmoved DEF Unmoved, Post
<1>3. ASSUME NEW t \in Threads, ThreadStep(t) PROVE Ordered(q, u)'
  BY <1>3, OrderedPop, OrderedPut, OrderedFlush, OrderedThread, OrderedUnmoved DEF ThreadStep
<1>4. CASE Stop \/ Join \/ Complete \/ Uninit
  <2>1. ASSUME NEW k \in Threads, NEW back \in {"work", "drain", "done", "gone"},
               StopThread(k, back)
        PROVE  Unmoved(q, u)
    BY <2>1, StopEffect DEF Unmoved, HeldBy
  <2>2. CASE UNCHANGED <<list, queues, thr, idx, post, conn, history>>
    BY <2>2, OrderedUnmoved DEF Unmoved
  <2> QED BY <1>4, <2>1, <2>2, MainSteps, OrderedUnmoved
<1>5. ASSUME NEW c \in Conns, Destroy(c) \/ Destroyed(c) PROVE Ordered(q, u)'
  BY <1>5, OrderedUnmoved DEF Unmoved, Destroy, Destroyed
<1> QED BY <1>1, <1>2, <1>3, <1>4, <1>5, OrderedPush, OrderedRun DEF Next, Posting

-----------------------------------------------------------------------------
(***************************************************************************)
(* The queues keep their room, and who is where.                           *)
(***************************************************************************)
LEMMA RoomNext ==
  ASSUME IInv, Next
  PROVE  Room'
<1> SUFFICES ASSUME NEW q \in Procs, NEW u \in Threads
             PROVE  Len(cmdQ'[q][u]) <= Cap /\ Len(retQ'[q][u]) <= Cap
  BY DEF Room
<1> USE DEF history, queues
<1>1. /\ Len(cmdQ[q][u]) <= Cap /\ Len(retQ[q][u]) <= Cap /\ Cap \in Nat
      /\ cmdQ[q][u] \in Seq(Cmds) /\ retQ[q][u] \in Seq(Cmds)
  BY Lines, Consts DEF IInv, Room
<1>2. ASSUME NEW s \in Seq(Cmds), Len(s) <= Cap, s # <<>> PROVE Len(Tail(s)) <= Cap
  BY <1>1, <1>2, Tails
<1>3. ASSUME NEW s \in Seq(Cmds), NEW e \in Cmds, Len(s) < Cap PROVE Len(Append(s, e)) <= Cap
  BY <1>1, <1>3, Appended
<1>4. ASSUME NEW p \in Procs, Push(p) PROVE Len(cmdQ'[q][u]) <= Cap /\ retQ' = retQ
  <2>1. retQ' = retQ /\ post[p].cmd \in Cmds
    BY <1>4, PushEffect DEF Push
  <2>2. CASE q = p /\ u = ThreadOf[post[p].cmd.conn]
    <3>1. Len(cmdQ[q][u]) < Cap /\ cmdQ'[q][u] = Append(cmdQ[q][u], post[p].cmd)
      BY <1>4, <2>2, PushEffect
    <3> QED BY <1>1, <1>3, <2>1, <3>1
  <2>3. CASE ~ (q = p /\ u = ThreadOf[post[p].cmd.conn])
    <3>1. cmdQ'[q][u] = cmdQ[q][u]
      BY <1>4, <2>3, PushEffect
    <3> QED BY <1>1, <2>1, <3>1
  <2> QED BY <2>2, <2>3
<1>5. ASSUME NEW p \in Procs, RunStep(p) PROVE Len(retQ'[q][u]) <= Cap /\ cmdQ' = cmdQ
  <2>1. cmdQ' = cmdQ
    BY <1>5 DEF RunStep
  <2>2. retQ'[q][u] = retQ[q][u] \/ (retQ[q][u] # <<>> /\ retQ'[q][u] = Tail(retQ[q][u]))
    BY <1>5, RunEffect
  <2> QED BY <1>1, <1>2, <2>1, <2>2
<1>6. ASSUME NEW t \in Threads, Pop(t) PROVE Len(cmdQ'[q][u]) <= Cap /\ retQ' = retQ
  <2>1. retQ' = retQ
    BY <1>6 DEF Pop
  <2>2. cmdQ'[q][u] = cmdQ[q][u] \/ (cmdQ[q][u] # <<>> /\ cmdQ'[q][u] = Tail(cmdQ[q][u]))
    BY <1>6, PopEffect
  <2> QED BY <1>1, <1>2, <2>1, <2>2
<1>7. ASSUME NEW t \in Threads, Put(t) PROVE Len(retQ'[q][u]) <= Cap /\ cmdQ' = cmdQ
  <2>1. cmdQ' = cmdQ /\ thr[t].cmd \in Cmds
    BY <1>7, PutEffect DEF Put
  <2>2. \/ retQ'[q][u] = retQ[q][u]
        \/ Len(retQ[q][u]) < Cap /\ retQ'[q][u] = Append(retQ[q][u], thr[t].cmd)
    BY <1>7, PutEffect
  <2> QED BY <1>1, <1>3, <2>1, <2>2
<1>8. ASSUME NEW t \in Threads, Flush(t) PROVE Len(retQ'[q][u]) <= Cap /\ cmdQ' = cmdQ
  <2>1. cmdQ' = cmdQ
    BY <1>8 DEF Flush
  <2>2. CASE q = Visited(t) /\ u = t
    <3>1. /\ cache[q][u] # <<>> /\ Len(retQ[q][u]) < Cap
          /\ retQ'[q][u] = Append(retQ[q][u], Head(cache[q][u]))
      BY <1>8, <2>2, FlushEffect
    <3>2. Head(cache[q][u]) \in Cmds
      BY <3>1, Lines, Tails
    <3> QED BY <1>1, <1>3, <2>1, <3>1, <3>2
  <2>3. CASE ~ (q = Visited(t) /\ u = t)
    <3>1. retQ'[q][u] = retQ[q][u]
      BY <1>8, <2>3, FlushEffect
    <3> QED BY <1>1, <2>1, <3>1
  <2> QED BY <2>2, <2>3
<1>9. ASSUME NEW p \in Procs,
             Register(p) \/ PushFull(p) \/ CountLoad(p) \/ CountStore(p) \/ CountOther(p)
      PROVE  cmdQ' = cmdQ /\ retQ' = retQ
  BY <1>9 DEF Register, PushFull, CountLoad, CountStore, CountOther
<1>10. ASSUME NEW p \in Procs, NEW c \in Conns, NEW tries \in 1 .. MaxTries, Post(p, c, tries)
       PROVE  cmdQ' = cmdQ /\ retQ' = retQ
  BY <1>10 DEF Post
<1>11. ASSUME NEW t \in Threads,
              PopNone(t) \/ Execute(t) \/ NextProc(t) \/ NextPass(t) \/ Over(t)
       PROVE  cmdQ' = cmdQ /\ retQ' = retQ
  BY <1>11 DEF PopNone, Execute, NextProc, NextPass, Over
<1>12. CASE Stop \/ Join \/ Complete \/ Uninit
  <2>1. cmdQ' = cmdQ /\ retQ' = retQ
    BY <1>12, MainSteps DEF StopThread
  <2> QED BY <1>1, <2>1
<1>13. ASSUME NEW c \in Conns, Destroy(c) \/ Destroyed(c) PROVE cmdQ' = cmdQ /\ retQ' = retQ
  BY <1>13 DEF Destroy, Destroyed
<1>14. cmdQ' = cmdQ /\ retQ' = retQ => Len(cmdQ'[q][u]) <= Cap /\ Len(retQ'[q][u]) <= Cap
  BY <1>1
<1>15. \A t \in Threads : ThreadStep(t) => Len(cmdQ'[q][u]) <= Cap /\ Len(retQ'[q][u]) <= Cap
  BY <1>1, <1>6, <1>7, <1>8, <1>11, <1>14 DEF ThreadStep
<1> QED
  BY <1>1, <1>4, <1>5, <1>9, <1>10, <1>12, <1>13, <1>14, <1>15 DEF Next, Posting

LEMMA WorkingStep ==
  ASSUME IInv, NEW t \in Threads, ThreadStep(t)
  PROVE  Working'
<1> SUFFICES ASSUME NEW u \in Threads
             PROVE  /\ thr'[u].pc \in {"exec", "put"} => thr'[u].cmd \in Cmds /\ thr'[u].busy
                    /\ thr'[u].pc \in {"exec", "put", "flush"} => thr'[u].rest # <<>>
                    /\ thr'[u].pc = "over" =>
                         thr'[u].rest = <<>> /\ thr'[u].ending /\ ~ thr'[u].busy
                    /\ thr'[u].ending => ~ thr'[u].run
  BY DEF Working
<1>1. /\ thr[u].pc \in {"exec", "put"} => thr[u].cmd \in Cmds /\ thr[u].busy
      /\ thr[u].pc \in {"exec", "put", "flush"} => thr[u].rest # <<>>
      /\ thr[u].pc = "over" => thr[u].rest = <<>> /\ thr[u].ending /\ ~ thr[u].busy
      /\ thr[u].ending => ~ thr[u].run
  BY DEF IInv, Working
<1>2. CASE u # t
  <2>1. thr'[u] = thr[u]
    BY <1>2, PopEffect, ThrEffect DEF ThreadStep
  <2> QED BY <1>1, <2>1
<1>3. CASE u = t /\ Pop(t)
  <2>1. /\ thr'[u].pc = "exec" /\ thr'[u].rest = thr[u].rest /\ thr[u].rest # <<>>
        /\ thr'[u].busy /\ thr'[u].run = thr[u].run /\ thr'[u].ending = thr[u].ending
    BY <1>3, PopEffect
  <2>2. thr'[u].cmd \in Cmds
    <3> PICK p \in Procs : p = Visited(t)
      BY <1>3, PopEffect
    <3>1. cmdQ[p][t] # <<>> /\ thr'[t].cmd = Head(cmdQ[p][t])
      BY <1>3, PopEffect
    <3>2. Head(cmdQ[p][t]) \in Cmds
      BY <3>1, Lines, Tails
    <3> QED BY <1>3, <3>1, <3>2
  <2> QED BY <1>1, <2>1, <2>2
<1>4. CASE u = t /\ PopNone(t)
  <2>1. /\ ~ Put(t) /\ ~ NextProc(t) /\ ~ NextPass(t) /\ thr[t].rest # <<>>
    BY <1>4 DEF PopNone, Put, NextProc, NextPass
  <2>2. /\ thr'[t].pc = "flush" /\ thr'[t].rest = thr[t].rest /\ thr'[t].run = thr[t].run
        /\ thr'[t].ending = thr[t].ending
    BY <1>4, <2>1, ThrEffect
  <2> QED BY <1>1, <1>4, <2>1, <2>2
<1>5. CASE u = t /\ Execute(t)
  <2>1. ~ Put(t) /\ ~ NextProc(t) /\ ~ NextPass(t)
    BY <1>5 DEF Execute, Put, NextProc, NextPass
  <2>2. /\ thr[t].pc = "exec" /\ thr'[t].pc = "put" /\ thr'[t].rest = thr[t].rest
        /\ thr'[t].run = thr[t].run /\ thr'[t].cmd = thr[t].cmd
        /\ thr'[t].ending = thr[t].ending /\ (thr'[t].busy <=> thr[t].busy)
    BY <1>5, <2>1, ThrEffect
  <2> QED BY <1>1, <1>5, <2>2
<1>6. CASE u = t /\ Put(t)
  <2>1. ~ NextProc(t) /\ ~ NextPass(t)
    BY <1>6 DEF Put, NextProc, NextPass
  <2>2. /\ thr[t].pc = "put" /\ thr'[t].pc = "flush" /\ thr'[t].rest = thr[t].rest
        /\ thr'[t].run = thr[t].run /\ thr'[t].ending = thr[t].ending
    BY <1>6, <2>1, ThrEffect
  <2> QED BY <1>1, <1>6, <2>2
<1>7. CASE u = t /\ Flush(t)
  <2>1. ~ NextPass(t)
    BY <1>7 DEF Flush, NextPass
  <2>2. /\ thr[t].pc = "flush" /\ thr'[t].pc = "flush" /\ thr'[t].rest = thr[t].rest
        /\ thr'[t].run = thr[t].run /\ thr'[t].ending = thr[t].ending
    <3>1. thr'[t] = [thr[t] EXCEPT !.busy = TRUE] /\ thr[t] \in ThrRec /\ thr[t].pc = "flush"
      BY <1>7 DEF Flush, Step, IInv, Types
    <3> QED BY <3>1 DEF ThrRec
  <2> QED BY <1>1, <1>7, <2>2
<1>8. CASE u = t /\ NextProc(t)
  <2>1. ~ NextPass(t)
    BY <1>8 DEF NextProc, NextPass
  <2>2. thr'[t].pc = "visit" /\ thr'[t].run = thr[t].run /\ thr'[t].ending = thr[t].ending
    BY <1>8, <2>1, ThrEffect
  <2> QED BY <1>1, <1>8, <2>2
<1>9. CASE u = t /\ NextPass(t)
  <2>1. thr'[t].pc = "visit" /\ thr'[t].run = thr[t].run /\ (thr'[t].ending <=> ~ thr[t].run)
    BY <1>9, ThrEffect
  <2> QED BY <1>9, <2>1
<1>10. CASE u = t /\ Over(t)
  <2>1. /\ thr[t].rest = <<>> /\ thr[t].ending /\ ~ thr[t].busy
        /\ thr'[t] = [thr[t] EXCEPT !.pc = "over"] /\ thr[t] \in ThrRec
    BY <1>10 DEF Over, Step, IInv, Types
  <2>2. /\ thr'[t].pc = "over" /\ thr'[t].rest = thr[t].rest /\ thr'[t].ending = thr[t].ending
        /\ thr'[t].busy = thr[t].busy /\ thr'[t].run = thr[t].run
    BY <2>1 DEF ThrRec
  <2> QED BY <1>1, <1>10, <2>1, <2>2
<1> QED
  BY <1>2, <1>3, <1>4, <1>5, <1>6, <1>7, <1>8, <1>9, <1>10 DEF ThreadStep

LEMMA WorkingNext ==
  ASSUME IInv, Next
  PROVE  Working'
<1>1. CASE thr' = thr
  BY <1>1 DEF IInv, Working
<1>2. ASSUME NEW k \in Threads, NEW back, StopThread(k, back) PROVE Working'
  <2> SUFFICES ASSUME NEW u \in Threads
               PROVE  /\ thr'[u].pc \in {"exec", "put"} => thr'[u].cmd \in Cmds /\ thr'[u].busy
                      /\ thr'[u].pc \in {"exec", "put", "flush"} => thr'[u].rest # <<>>
                      /\ thr'[u].pc = "over" =>
                           thr'[u].rest = <<>> /\ thr'[u].ending /\ ~ thr'[u].busy
                      /\ thr'[u].ending => ~ thr'[u].run
    BY DEF Working
  <2>1. /\ thr[u].pc \in {"exec", "put"} => thr[u].cmd \in Cmds /\ thr[u].busy
        /\ thr[u].pc \in {"exec", "put", "flush"} => thr[u].rest # <<>>
        /\ thr[u].pc = "over" => thr[u].rest = <<>> /\ thr[u].ending /\ ~ thr[u].busy
        /\ thr[u].ending => ~ thr[u].run
    BY DEF IInv, Working
  <2>2. /\ thr'[u].pc = thr[u].pc /\ thr'[u].rest = thr[u].rest /\ thr'[u].cmd = thr[u].cmd
        /\ thr'[u].busy = thr[u].busy /\ thr'[u].ending = thr[u].ending
        /\ thr'[u].run = thr[u].run \/ thr'[u].run = FALSE
    BY <1>2, StopEffect
  <2> QED BY <2>1, <2>2
<1>3. ASSUME NEW t \in Threads, ThreadStep(t) PROVE Working'
  BY <1>3, WorkingStep
<1>4. ASSUME NEW p \in Procs,
             Register(p) \/ Posting(p) \/ RunStep(p)
               \/ \E c \in Conns, tries \in 1 .. MaxTries : Post(p, c, tries)
      PROVE  thr' = thr
  BY <1>4
  DEF Register, Posting, Push, PushFull, CountLoad, CountStore, CountOther, RunStep, Post
<1>5. CASE Stop \/ Join \/ Complete \/ Uninit
  BY <1>1, <1>2, <1>5, MainSteps
<1>6. ASSUME NEW c \in Conns, Destroy(c) \/ Destroyed(c) PROVE thr' = thr
  BY <1>6 DEF Destroy, Destroyed
<1> QED BY <1>1, <1>3, <1>4, <1>5, <1>6 DEF Next

-----------------------------------------------------------------------------
(***************************************************************************)
(* Who posts, and on what.                                                 *)
(***************************************************************************)
LEMMA RegisterEffect ==
  ASSUME IInv, NEW p \in Procs, Register(p)
  PROVE  Registered' = Registered \cup {p}
<1> DEFINE f == <<p>>
           w == f \o list
<1>1. list \in Seq(Procs) /\ f \in Seq(Procs) /\ Len(f) = 1 /\ f[1] = p
  BY DEF IInv, Types, QueueTypes
<1>2. /\ Len(list) \in Nat /\ Len(w) = 1 + Len(list)
      /\ \A i \in 1 .. 1 + Len(list) : w[i] = IF i <= 1 THEN f[i] ELSE list[i - 1]
  <2>1. /\ Len(list) \in Nat /\ Len(Cat(f, list)) = Len(f) + Len(list)
        /\ \A i \in 1 .. Len(f) + Len(list) :
             Cat(f, list)[i] = IF i <= Len(f) THEN f[i] ELSE list[i - Len(f)]
    <3> HIDE DEF f
    <3> QED BY <1>1, Joined
  <2> HIDE DEF f
  <2> QED BY <1>1, <2>1 DEF Cat
<1>3. list' = w
  BY DEF Register
<1> HIDE DEF w
<1>4. ASSUME NEW i \in 1 .. Len(w) PROVE w[i] = p \/ \E j \in 1 .. Len(list) : w[i] = list[j]
  <2>1. CASE i = 1
    BY <1>1, <1>2, <2>1
  <2>2. CASE i # 1
    <3>1. i - 1 \in 1 .. Len(list) /\ ~ (i <= 1)
      BY <1>2, <2>2
    <3> QED BY <1>2, <3>1
  <2> QED BY <2>1, <2>2
<1>5. 1 \in 1 .. Len(w) /\ w[1] = p
  BY <1>1, <1>2
<1>6. ASSUME NEW j \in 1 .. Len(list) PROVE \E i \in 1 .. Len(w) : w[i] = list[j]
  <2>1. j + 1 \in 1 .. Len(w) /\ ~ (j + 1 <= 1) /\ (j + 1) - 1 = j
    BY <1>2
  <2>2. w[j + 1] = list[j]
    BY <1>2, <2>1
  <2> QED BY <2>1, <2>2
<1> QED BY <1>3, <1>4, <1>5, <1>6 DEF Registered

(* a proc that posts                                                       *)
PostsOn(p, c) == post[p].pc # "idle" /\ post[p].cmd.conn = c

LEMMA PostingOpenNext ==
  ASSUME IInv, Next
  PROVE  PostingOpen'
<1> SUFFICES ASSUME NEW q \in Procs, post'[q].pc # "idle"
             PROVE  /\ post'[q].cmd \in Cmds /\ conn'[post'[q].cmd.conn].state = "open"
                    /\ q \in Registered'
                    /\ post'[q].pc = "store" =>
                         q = Main /\ post'[q].old = conn'[post'[q].cmd.conn].req
  BY DEF PostingOpen
<1> USE DEF history, queues
<1>0. /\ post \in [Procs -> PostRec] /\ conn \in [Conns -> ConnRec]
      /\ post[q].pc # "idle" =>
           /\ post[q].cmd \in Cmds /\ post[q].cmd.conn \in Conns
           /\ conn[post[q].cmd.conn].state = "open" /\ q \in Registered
           /\ post[q].pc = "store" => q = Main /\ post[q].old = conn[post[q].cmd.conn].req
  BY DEF IInv, Types, PostingOpen, Cmds
<1>1. CASE /\ post' = post /\ Registered \subseteq Registered'
           /\ \A c \in Conns : conn[c].state = "open" /\ PostsOn(q, c) =>
                conn'[c].state = "open" /\ conn'[c].req = conn[c].req
  BY <1>0, <1>1 DEF PostsOn
<1>2. ASSUME NEW p \in Procs, Register(p) PROVE post' = post /\ conn' = conn
  BY <1>2 DEF Register
<1>3. ASSUME NEW p \in Procs, NEW c \in Conns, NEW tries \in 1 .. MaxTries, Post(p, c, tries)
      PROVE  /\ post'[q].cmd \in Cmds /\ conn'[post'[q].cmd.conn].state = "open"
             /\ q \in Registered'
             /\ post'[q].pc = "store" =>
                  q = Main /\ post'[q].old = conn'[post'[q].cmd.conn].req
  <2>1. conn' = conn /\ Registered' = Registered /\ conn[c].state = "open" /\ p \in Registered
    BY <1>3 DEF Post, Free, Registered
  <2>2. CASE q = p
    <3> PICK n \in Nat : n = Len(posted[p][ThreadOf[c]]) + 1
      BY SMTT(30), Lines, Consts, LenProperties
    <3>1. post'[q].pc = "push" /\ post'[q].cmd = [conn |-> c, no |-> n]
      BY <1>3, <2>2, <1>0 DEF Post
    <3> QED BY <2>1, <2>2, <3>1 DEF Cmds
  <2>3. CASE q # p
    <3>1. post'[q] = post[q]
      BY <1>0, <1>3, <2>3 DEF Post
    <3> QED BY <1>0, <2>1, <3>1
  <2> QED BY <2>2, <2>3
<1>4. ASSUME NEW p \in Procs, Push(p) \/ PushFull(p) \/ CountLoad(p)
      PROVE  /\ post'[q].cmd \in Cmds /\ conn'[post'[q].cmd.conn].state = "open"
             /\ q \in Registered'
             /\ post'[q].pc = "store" =>
                  q = Main /\ post'[q].old = conn'[post'[q].cmd.conn].req
  <2>1. conn' = conn /\ Registered' = Registered
    <3>1. CASE Push(p)
      BY <3>1 DEF Push, Registered
    <3>2. CASE PushFull(p)
      BY <3>2 DEF PushFull, Registered
    <3>3. CASE CountLoad(p)
      BY <3>3 DEF CountLoad, Registered
    <3> QED BY <1>4, <3>1, <3>2, <3>3
  <2>2. CASE q # p
    <3>1. post'[q] = post[q]
      BY <1>0, <1>4, <2>2 DEF Push, PushFull, CountLoad
    <3> QED BY <1>0, <2>1, <3>1
  <2>3. CASE q = p /\ Push(p)
    <3>1. post'[q].cmd = post[q].cmd /\ post'[q].pc = "count" /\ post[q].pc = "push"
      BY <1>0, <2>3 DEF Push, PostRec
    <3> QED BY <1>0, <2>1, <3>1
  <2>4. CASE q = p /\ PushFull(p)
    <3>1. post'[q].cmd = post[q].cmd /\ post'[q].pc \in {"push", "idle"} /\ post[q].pc = "push"
      BY <1>0, <2>4 DEF PushFull, PostRec
    <3> QED BY <1>0, <2>1, <3>1
  <2>5. CASE q = p /\ CountLoad(p)
    <3>1. /\ post'[q].cmd = post[q].cmd /\ post[q].pc = "count" /\ p = Main
          /\ post'[q].old = conn[post[p].cmd.conn].req
      BY <1>0, <2>5 DEF CountLoad, PostRec
    <3> QED BY <1>0, <2>1, <2>5, <3>1
  <2> QED BY <1>4, <2>2, <2>3, <2>4, <2>5
<1>5. ASSUME NEW p \in Procs, CountStore(p) \/ CountOther(p)
      PROVE  /\ post'[q].cmd \in Cmds /\ conn'[post'[q].cmd.conn].state = "open"
             /\ q \in Registered'
             /\ post'[q].pc = "store" =>
                  q = Main /\ post'[q].old = conn'[post'[q].cmd.conn].req
  <2>1. Registered' = Registered
    BY <1>5 DEF CountStore, CountOther, Registered
  <2>2. q # p
    <3>1. post' = [post EXCEPT ![p].pc = "idle"]
      BY <1>5 DEF CountStore, CountOther
    <3>2. post'[p].pc = "idle"
      BY <1>0, <3>1 DEF PostRec
    <3> QED BY <3>2
  <2>3. post'[q] = post[q]
    BY <1>0, <1>5, <2>2 DEF CountStore, CountOther
  <2>4. PICK c \in Conns : c = post[p].cmd.conn
    BY <1>5 DEF CountStore, CountOther, IInv, PostingOpen, Cmds
  <2>5. CASE CountStore(p)
    <3>1. \A d \in Conns : conn'[d].state = conn[d].state
      BY <1>0, <2>4, <2>5 DEF CountStore, ConnRec
    <3>2. p = Main
      BY <2>5 DEF CountStore, IInv, PostingOpen
    <3> QED BY <1>0, <2>1, <2>2, <2>3, <3>1, <3>2
  <2>6. CASE CountOther(p)
    <3>1. \A d \in Conns : conn'[d].state = conn[d].state /\ conn'[d].req = conn[d].req
      BY <1>0, <2>4, <2>6 DEF CountOther, ConnRec
    <3> QED BY <1>0, <2>1, <2>2, <2>3, <3>1
  <2> QED BY <1>5, <2>5, <2>6
<1>6. ASSUME NEW p \in Procs, RunStep(p) PROVE post' = post /\ conn' = conn /\ list' = list
  BY <1>6 DEF RunStep
<1>7. ASSUME NEW t \in Threads, ThreadStep(t)
      PROVE  /\ post' = post /\ list' = list
             /\ \A d \in Conns : conn'[d].state = conn[d].state /\ conn'[d].req = conn[d].req
  <2>1. CASE Execute(t)
    <3>1. PICK c \in Conns : c = thr[t].cmd.conn
      BY <2>1 DEF Execute, IInv, Working, Cmds
    <3>2. conn' = [conn EXCEPT ![c].ack = @ + 1] /\ post' = post /\ list' = list
      BY <2>1, <3>1 DEF Execute
    <3> QED BY <1>0, <3>2 DEF ConnRec
  <2>2. CASE ~ Execute(t)
    BY <1>7, <2>2
    DEF ThreadStep, Pop, PopNone, Put, Flush, NextProc, NextPass, Over
  <2> QED BY <2>1, <2>2
<1>8. CASE Stop \/ Join \/ Complete \/ Uninit
  <2>1. post' = post /\ conn' = conn /\ list' = list
    BY <1>8, MainSteps DEF StopThread
  <2> QED BY <1>0, <2>1 DEF Registered
<1>9. ASSUME NEW c \in Conns, Destroy(c) \/ Destroyed(c)
      PROVE  /\ post' = post /\ list' = list
             /\ \A d \in Conns : conn[d].state = "open" /\ PostsOn(q, d) =>
                  conn'[d].state = "open" /\ conn'[d].req = conn[d].req
  <2>1. post' = post /\ list' = list
    BY <1>9 DEF Destroy, Destroyed
  <2>2. ASSUME NEW d \in Conns, conn[d].state = "open", PostsOn(q, d)
        PROVE  conn'[d].state = "open" /\ conn'[d].req = conn[d].req
    <3>1. d # c
      BY <1>9, <2>2 DEF Destroy, Destroyed, PostsOn
    <3>2. conn'[d] = conn[d]
      BY <1>0, <1>9, <3>1 DEF Destroy, Destroyed
    <3> QED BY <2>2, <3>2
  <2> QED BY <2>1, <2>2
<1>10. ASSUME list' = list PROVE Registered \subseteq Registered'
  BY <1>10 DEF Registered
<1>11. \A p \in Procs : Register(p) => Registered \subseteq Registered'
  BY RegisterEffect
<1> QED
  BY <1>1, <1>2, <1>3, <1>4, <1>5, <1>6, <1>7, <1>8, <1>9, <1>10, <1>11 DEF Next, Posting

LEMMA UnusedNext ==
  ASSUME IInv, Next
  PROVE  Unused'
<1> SUFFICES ASSUME NEW q \in Procs, q \notin Registered', NEW u \in Threads
             PROVE  posted'[q][u] = <<>>
  BY DEF Unused
<1>1. ASSUME Registered \subseteq Registered', posted'[q][u] = posted[q][u]
      PROVE  posted'[q][u] = <<>>
  BY <1>1 DEF IInv, Unused
<1>2. ASSUME NEW p \in Procs, Register(p) PROVE posted' = posted
  BY <1>2 DEF Register, history
<1>3. ASSUME NEW p \in Procs, Push(p) PROVE list' = list /\ posted'[q][u] = posted[q][u]
  <2>1. list' = list /\ Registered' = Registered /\ p \in Registered
    BY <1>3 DEF Push, Registered, IInv, PostingOpen
  <2>2. q # p
    BY <2>1
  <2> QED BY <1>3, <2>1, <2>2, PushEffect
<1>4. ASSUME NEW p \in Procs,
             PushFull(p) \/ CountLoad(p) \/ CountStore(p) \/ CountOther(p) \/ RunStep(p)
      PROVE  posted' = posted /\ list' = list
  BY <1>4 DEF PushFull, CountLoad, CountStore, CountOther, RunStep, history
<1>5. ASSUME NEW p \in Procs, NEW c \in Conns, NEW tries \in 1 .. MaxTries, Post(p, c, tries)
      PROVE  posted' = posted /\ list' = list
  BY <1>5 DEF Post, history
<1>6. ASSUME NEW t \in Threads, ThreadStep(t) PROVE posted' = posted /\ list' = list
  BY <1>6 DEF ThreadStep, Pop, PopNone, Execute, Put, Flush, NextProc, NextPass, Over, history
<1>7. CASE Stop \/ Join \/ Complete \/ Uninit
  <2>1. posted' = posted /\ list' = list
    BY <1>7, MainSteps DEF StopThread, history
  <2> QED BY <1>1, <2>1 DEF Registered
<1>8. ASSUME NEW c \in Conns, Destroy(c) \/ Destroyed(c) PROVE posted' = posted /\ list' = list
  BY <1>8 DEF Destroy, Destroyed, history
<1>9. \A p \in Procs : Register(p) => Registered \subseteq Registered'
  BY RegisterEffect
<1>10. ASSUME list' = list PROVE Registered \subseteq Registered'
  BY <1>10 DEF Registered
<1> QED
  BY <1>1, <1>2, <1>3, <1>4, <1>5, <1>6, <1>7, <1>8, <1>9, <1>10 DEF Next, Posting

-----------------------------------------------------------------------------
(***************************************************************************)
(* The stop.                                                               *)
(***************************************************************************)
LEMMA OneClosingNext ==
  ASSUME IInv, Next
  PROVE  OneClosing'
<1>0. /\ conn \in [Conns -> ConnRec] /\ main \in MainRec /\ OneClosing
  BY DEF IInv, Types
<1>1. ASSUME main' = main, \A c \in Conns : conn'[c].state = conn[c].state
      PROVE  OneClosing'
  BY <1>0, <1>1 DEF OneClosing
<1>2. ASSUME NEW p \in Procs,
             Register(p) \/ Push(p) \/ PushFull(p) \/ CountLoad(p) \/ RunStep(p)
               \/ \E c \in Conns, tries \in 1 .. MaxTries : Post(p, c, tries)
      PROVE  main' = main /\ conn' = conn
  BY <1>2 DEF Register, Push, PushFull, CountLoad, RunStep, Post
<1>3. ASSUME NEW p \in Procs, CountStore(p) \/ CountOther(p)
      PROVE  main' = main /\ \A c \in Conns : conn'[c].state = conn[c].state
  <2>1. PICK c \in Conns : c = post[p].cmd.conn
    BY <1>3 DEF CountStore, CountOther, IInv, PostingOpen, Cmds
  <2>2. CASE CountStore(p)
    BY <1>0, <2>1, <2>2 DEF CountStore, ConnRec
  <2>3. CASE CountOther(p)
    BY <1>0, <2>1, <2>3 DEF CountOther, ConnRec
  <2> QED BY <1>3, <2>2, <2>3
<1>4. ASSUME NEW t \in Threads, ThreadStep(t)
      PROVE  main' = main /\ \A c \in Conns : conn'[c].state = conn[c].state
  <2>1. CASE Execute(t)
    <3>1. PICK c \in Conns : c = thr[t].cmd.conn
      BY <2>1 DEF Execute, IInv, Working, Cmds
    <3> QED BY <1>0, <2>1, <3>1 DEF Execute, ConnRec
  <2>2. CASE ~ Execute(t)
    BY <1>4, <2>2 DEF ThreadStep, Pop, PopNone, Put, Flush, NextProc, NextPass, Over
  <2> QED BY <2>1, <2>2
<1>5. ASSUME main.pc # "wait", main'.pc # "wait", conn' = conn PROVE OneClosing'
  BY <1>0, <1>5 DEF OneClosing
<1>6. CASE Stop
  <2>1. main.pc # "wait" /\ main'.pc = "join" /\ conn' = conn
    BY <1>0, <1>6 DEF Stop, StopThread, MainRec
  <2> QED BY <1>5, <2>1
<1>7. CASE Join
  <2>1. main.pc # "wait" /\ main'.pc # "wait" /\ conn' = conn
    <3>1. CASE main.k > 1
      BY <1>0, <1>7, <3>1 DEF Join, StopThread, MainRec
    <3>2. CASE ~ (main.k > 1)
      BY <1>0, <1>7, <3>2 DEF Join, MainRec
    <3> QED BY <3>1, <3>2
  <2> QED BY <1>5, <2>1
<1>8. CASE Complete
  <2>1. main.pc # "wait" /\ main'.pc # "wait" /\ conn' = conn
    BY <1>0, <1>8 DEF Complete, MainRec
  <2> QED BY <1>5, <2>1
<1>9. CASE Uninit
  <2>1. main.pc # "wait" /\ main'.pc # "wait" /\ conn' = conn
    BY <1>0, <1>9 DEF Uninit, StopThread, MainRec
  <2> QED BY <1>5, <2>1
<1>10. ASSUME NEW c \in Conns, Destroy(c) PROVE OneClosing'
  <2>1. /\ main.pc \in {"work", "done"} /\ main'.pc = "wait" /\ main'.back = main.pc
    BY <1>0, <1>10 DEF Destroy, MainRec
  <2>2. \A d \in Conns : d # c => conn'[d] = conn[d]
    BY <1>0, <1>10 DEF Destroy
  <2> QED BY <1>0, <2>1, <2>2 DEF OneClosing
<1>11. ASSUME NEW c \in Conns, Destroyed(c) PROVE OneClosing'
  <2>1. /\ main.pc = "wait" /\ main.back \in {"work", "done"} /\ main'.pc = main.back
    BY <1>0, <1>11 DEF Destroyed, MainRec, OneClosing
  <2>2. conn'[c].state = "gone" /\ \A d \in Conns : d # c => conn'[d] = conn[d]
    BY <1>0, <1>11 DEF Destroyed, ConnRec
  <2>3. \A d \in Conns : conn'[d].state # "closing"
    BY <1>0, <1>11, <2>2 DEF OneClosing, Destroyed
  <2> QED BY <2>1, <2>3 DEF OneClosing
<1> QED
  BY <1>1, <1>2, <1>3, <1>4, <1>6, <1>7, <1>8, <1>9, <1>10, <1>11 DEF Next, Posting

(* Main is in one part of the stop; what the stop needs of a thread stays. *)
LEMMA RunKept ==
  ASSUME IInv, NEW t \in Threads, ThreadStep(t)
  PROVE  /\ main' = main /\ before' = before
         /\ \A u \in Threads : /\ thr'[u].run = thr[u].run
                               /\ thr[u].pc = "over" => thr'[u].pc = "over"
<1>1. \A u \in Threads \ {t} : thr'[u] = thr[u]
  BY PopEffect, ThrEffect DEF ThreadStep
<1>2. thr'[t].run = thr[t].run
  BY PopEffect, ThrEffect DEF ThreadStep
<1>3. thr[t].pc # "over"
  BY DEF ThreadStep, Pop, PopNone, Execute, Put, Flush, NextProc, NextPass, Over
<1>4. main' = main /\ before' = before
  BY DEF ThreadStep, Pop, PopNone, Execute, Put, Flush, NextProc, NextPass, Over, history
<1> QED BY <1>1, <1>2, <1>3, <1>4

LEMMA StopTurn ==
  ASSUME IInv, NEW k \in Threads, NEW back \in {"drain", "gone"}, StopThread(k, back),
         \A t \in Threads : /\ t < k => thr[t].run
                            /\ t > k => thr[t].pc = "over"
  PROVE  JoinedInTurn'
<1>1. main'.pc = "join" /\ main'.k = k /\ main'.back = back
  <2>1. main \in MainRec /\ main' = [main EXCEPT !.pc = "join", !.k = k, !.back = back]
    BY DEF StopThread, IInv, Types
  <2> QED BY <2>1 DEF MainRec
<1>2. \A t \in Threads : /\ t < k => thr'[t].run
                         /\ t > k => thr'[t].pc = "over"
  <2> SUFFICES ASSUME NEW t \in Threads
               PROVE  (t < k => thr'[t].run) /\ (t > k => thr'[t].pc = "over")
    OBVIOUS
  <2>1. thr'[t].pc = thr[t].pc
    BY StopEffect
  <2>2. t < k => thr'[t].run = thr[t].run
    <3>1. t < k => t \in Threads \ {k}
      BY Consts
    <3> QED BY <3>1, StopEffect
  <2> QED BY <2>1, <2>2
<1> QED BY <1>1, <1>2 DEF JoinedInTurn, BeforeStop, AfterStop

LEMMA JoinedInTurnNext ==
  ASSUME IInv, Next
  PROVE  JoinedInTurn'
<1>0. /\ main \in MainRec /\ JoinedInTurn /\ OneClosing
  BY DEF IInv, Types
<1>1. CASE main' = main /\ thr' = thr
  BY <1>0, <1>1 DEF JoinedInTurn, BeforeStop, AfterStop
<1>2. ASSUME NEW p \in Procs,
             Register(p) \/ Posting(p) \/ RunStep(p)
               \/ \E c \in Conns, tries \in 1 .. MaxTries : Post(p, c, tries)
      PROVE  main' = main /\ thr' = thr
  BY <1>2
  DEF Register, Posting, Push, PushFull, CountLoad, CountStore, CountOther, RunStep, Post
<1>3. ASSUME NEW t \in Threads, ThreadStep(t) PROVE JoinedInTurn'
  <2>1. /\ main' = main
        /\ \A u \in Threads : /\ thr'[u].run = thr[u].run
                              /\ thr[u].pc = "over" => thr'[u].pc = "over"
    BY <1>3, RunKept
  <2> QED BY <1>0, <2>1 DEF JoinedInTurn, BeforeStop, AfterStop
<1>4. CASE (Stop \/ Uninit) /\ main.pc = "work"
  <2>1. PICK back \in {"drain", "gone"} : StopThread(N, back)
    BY <1>4 DEF Stop, Uninit
  <2>2. \A t \in Threads : thr[t].run /\ ~ (t > N)
    BY <1>0, <1>4, Consts DEF JoinedInTurn, BeforeStop
  <2> QED BY <2>1, <2>2, Consts, StopTurn
<1>5. CASE Uninit /\ main.pc # "work"
  <2>1. main.pc = "done" /\ main'.pc = "gone" /\ thr' = thr
    BY <1>0, <1>5 DEF Uninit, MainRec
  <2> QED BY <2>1 DEF JoinedInTurn, BeforeStop, AfterStop
<1>6. CASE Join
  <2>1. /\ main.pc = "join" /\ main.k \in Threads /\ main.back \in {"drain", "gone"}
        /\ thr[main.k].pc = "over"
        /\ \A t \in Threads : /\ t < main.k => thr[t].run
                              /\ t > main.k => thr[t].pc = "over"
    BY <1>0, <1>6 DEF Join, JoinedInTurn
  <2>2. CASE main.k > 1
    <3> PICK k \in Threads : k = main.k - 1
      BY <2>1, <2>2, Consts
    <3>1. StopThread(k, main.back)
      BY <1>6, <2>2 DEF Join
    <3>2. \A t \in Threads : /\ t < k => thr[t].run
                             /\ t > k => thr[t].pc = "over"
      BY <2>1, Consts
    <3> QED BY <2>1, <3>1, <3>2, StopTurn
  <2>3. CASE ~ (main.k > 1)
    <3>1. main'.pc = main.back /\ thr' = thr
      BY <1>0, <1>6, <2>3 DEF Join, MainRec
    <3>2. \A t \in Threads : thr[t].pc = "over"
      BY <2>1, <2>3, Consts
    <3> QED BY <2>1, <3>1, <3>2 DEF JoinedInTurn, BeforeStop, AfterStop
  <2> QED BY <2>2, <2>3
<1>7. CASE Complete
  <2>1. main.pc = "drain" /\ main'.pc = "done" /\ thr' = thr
    BY <1>0, <1>7 DEF Complete, MainRec
  <2> QED BY <1>0, <2>1 DEF JoinedInTurn, BeforeStop, AfterStop
<1>8. ASSUME NEW c \in Conns, Destroy(c) PROVE JoinedInTurn'
  <2>1. /\ main.pc \in {"work", "done"} /\ main'.pc = "wait" /\ main'.back = main.pc
        /\ thr' = thr
    BY <1>0, <1>8 DEF Destroy, MainRec
  <2> QED BY <1>0, <2>1 DEF JoinedInTurn, BeforeStop, AfterStop
<1>9. ASSUME NEW c \in Conns, Destroyed(c) PROVE JoinedInTurn'
  <2>1. /\ main.pc = "wait" /\ main.back \in {"work", "done"} /\ main'.pc = main.back
        /\ thr' = thr
    BY <1>0, <1>9 DEF Destroyed, MainRec, OneClosing
  <2> QED BY <1>0, <2>1 DEF JoinedInTurn, BeforeStop, AfterStop
<1>10. Stop => main.pc = "work"
  BY DEF Stop
<1> QED BY <1>1, <1>2, <1>3, <1>4, <1>5, <1>6, <1>7, <1>8, <1>9, <1>10 DEF Next

LEMMA Counts ==
  ASSUME IInv, NEW p \in Procs, NEW t \in Threads
  PROVE  /\ {Len(done[p][t]), Len(retQ[p][t]), Len(cache[p][t]), Len(HeldBy(thr[t], p)),
             Len(cmdQ[p][t]), Len(posted[p][t]), Executed(p, t)} \subseteq Nat
         /\ Executed(p, t) = Len(done[p][t]) + Len(retQ[p][t]) + Len(cache[p][t])
                               + Len(HeldBy(thr[t], p))
         /\ Len(posted[p][t]) = Executed(p, t) + Len(cmdQ[p][t])
         /\ \A i \in 1 .. Len(cmdQ[p][t]) : posted[p][t][Executed(p, t) + i] = cmdQ[p][t][i]
         /\ \A e \in Cmds : HeldBy(thr[t], p) = <<e>> => posted[p][t][Executed(p, t)] = e
<1> DEFINE a == done[p][t]
           b == retQ[p][t]
           c == cache[p][t]
           h == HeldBy(thr[t], p)
           k == cmdQ[p][t]
           f == posted[p][t]
<1>1. /\ a \in Seq(Cmds) /\ b \in Seq(Cmds) /\ c \in Seq(Cmds) /\ h \in Seq(Cmds)
      /\ k \in Seq(Cmds) /\ Flows(f, a, b, c, h, k)
  BY Lines DEF Ordered, Flows
<1>2. Executed(p, t) = Len(f) - Len(k)
  BY DEF Executed
<1> HIDE DEF a, b, c, h, k, f
<1>3. /\ {Len(a), Len(b), Len(c), Len(h), Len(k), Len(f)} \subseteq Nat
      /\ Len(f) = Len(a) + Len(b) + Len(c) + Len(h) + Len(k)
      /\ \A i \in 1 .. Len(k) : f[Len(f) - Len(k) + i] = k[i]
      /\ \A e \in Cmds : h = <<e>> => f[Len(f) - Len(k)] = e
  BY <1>1, FlowAt
<1>4. /\ Executed(p, t) \in Nat /\ Len(f) = Executed(p, t) + Len(k)
      /\ Executed(p, t) = Len(a) + Len(b) + Len(c) + Len(h)
  BY <1>2, <1>3
<1> QED BY <1>2, <1>3, <1>4 DEF a, b, c, h, k, f

LEMMA Grow ==
  ASSUME IInv, Next, NEW q \in Procs, NEW u \in Threads
  PROVE  /\ Len(done'[q][u]) >= Len(done[q][u])
         /\ Len(posted'[q][u]) >= Len(posted[q][u])
         /\ \A i \in 1 .. Len(posted[q][u]) : posted'[q][u][i] = posted[q][u][i]
<1>1. /\ done[q][u] \in Seq(Cmds) /\ Len(done[q][u]) \in Nat
      /\ posted[q][u] \in Seq(Cmds) /\ Len(posted[q][u]) \in Nat
  BY Lines, Counts
<1>2. ASSUME NEW s \in Seq(Cmds), NEW e \in Cmds
      PROVE  /\ Len(Append(s, e)) >= Len(s)
             /\ \A i \in 1 .. Len(s) : Append(s, e)[i] = s[i]
  BY Appended
<1>3. ASSUME NEW p \in Procs, Push(p)
      PROVE  /\ done' = done /\ Len(posted'[q][u]) >= Len(posted[q][u])
             /\ \A i \in 1 .. Len(posted[q][u]) : posted'[q][u][i] = posted[q][u][i]
  <2>1. done' = done /\ post[p].cmd \in Cmds
    BY <1>3, PushEffect DEF Push
  <2>2. \/ posted'[q][u] = Append(posted[q][u], post[p].cmd)
        \/ posted'[q][u] = posted[q][u]
    BY <1>3, PushEffect
  <2> QED BY <1>1, <1>2, <2>1, <2>2
<1>4. ASSUME NEW p \in Procs, RunStep(p)
      PROVE  posted' = posted /\ Len(done'[q][u]) >= Len(done[q][u])
  <2>1. posted' = posted
    BY <1>4 DEF RunStep
  <2>2. CASE done'[q][u] = done[q][u]
    BY <1>1, <2>1, <2>2
  <2>3. CASE retQ[q][u] # <<>> /\ done'[q][u] = Append(done[q][u], Head(retQ[q][u]))
    <3>1. Head(retQ[q][u]) \in Cmds
      BY <2>3, Lines, Tails
    <3>2. Len(Append(done[q][u], Head(retQ[q][u]))) >= Len(done[q][u])
      BY <1>1, <1>2, <3>1
    <3> QED BY <2>1, <2>3, <3>2
  <2> QED BY <1>4, <2>2, <2>3, RunEffect
<1>5. ASSUME NEW p \in Procs,
             Register(p) \/ PushFull(p) \/ CountLoad(p) \/ CountStore(p) \/ CountOther(p)
      PROVE  done' = done /\ posted' = posted
  BY <1>5 DEF Register, PushFull, CountLoad, CountStore, CountOther, history
<1>6. ASSUME NEW p \in Procs, NEW c \in Conns, NEW tries \in 1 .. MaxTries, Post(p, c, tries)
      PROVE  done' = done /\ posted' = posted
  BY <1>6 DEF Post, history
<1>7. ASSUME NEW t \in Threads, ThreadStep(t) PROVE done' = done /\ posted' = posted
  BY <1>7 DEF ThreadStep, Pop, PopNone, Execute, Put, Flush, NextProc, NextPass, Over, history
<1>8. CASE Stop \/ Join \/ Complete \/ Uninit
  <2>1. done' = done /\ posted' = posted
    BY <1>8, MainSteps DEF StopThread, history
  <2> QED BY <1>1, <2>1
<1>9. ASSUME NEW c \in Conns, Destroy(c) \/ Destroyed(c)
      PROVE  done' = done /\ posted' = posted
  BY <1>9 DEF Destroy, Destroyed, history
<1>10. ASSUME done' = done /\ posted' = posted
       PROVE  /\ Len(done'[q][u]) >= Len(done[q][u])
              /\ Len(posted'[q][u]) >= Len(posted[q][u])
              /\ \A i \in 1 .. Len(posted[q][u]) : posted'[q][u][i] = posted[q][u][i]
  BY <1>1, <1>10
<1>11. ASSUME posted' = posted
       PROVE  /\ Len(posted'[q][u]) >= Len(posted[q][u])
              /\ \A i \in 1 .. Len(posted[q][u]) : posted'[q][u][i] = posted[q][u][i]
  BY <1>1, <1>11
<1>12. ASSUME done' = done PROVE Len(done'[q][u]) >= Len(done[q][u])
  BY <1>1, <1>12
<1> QED
  BY <1>3, <1>4, <1>5, <1>6, <1>7, <1>8, <1>9, <1>10, <1>11, <1>12 DEF Next, Posting

(* before changes only when a running thread is stopped, while Main joins. *)
LEMMA BeforeKept ==
  ASSUME IInv, Next
  PROVE  \/ before' = before /\ \A t \in Threads : thr'[t].run = thr[t].run
         \/ \E k \in Threads, back \in {"drain", "gone"} :
              StopThread(k, back) /\ thr[k].run /\ ~ AfterStop /\ ~ AfterStop'
<1>1. /\ main \in MainRec /\ JoinedInTurn
  BY DEF IInv, Types
<1>2. ASSUME NEW p \in Procs,
             Register(p) \/ Posting(p) \/ RunStep(p)
               \/ \E c \in Conns, tries \in 1 .. MaxTries : Post(p, c, tries)
      PROVE  before' = before /\ thr' = thr
  BY <1>2
  DEF Register, Posting, Push, PushFull, CountLoad, CountStore, CountOther, RunStep, Post, history
<1>3. ASSUME NEW k \in Threads, NEW back \in {"drain", "gone"}, StopThread(k, back)
      PROVE  main'.pc = "join"
  BY <1>1, <1>3 DEF StopThread, MainRec
<1>4. CASE (Stop \/ Uninit) /\ main.pc = "work"
  <2>1. PICK back \in {"drain", "gone"} : StopThread(N, back)
    BY <1>4 DEF Stop, Uninit
  <2>2. thr[N].run
    BY <1>1, <1>4, Consts DEF JoinedInTurn, BeforeStop
  <2> QED BY <1>3, <1>4, <2>1, <2>2, Consts DEF AfterStop
<1>5. CASE Join
  <2>1. /\ main.pc = "join" /\ main.k \in Threads /\ main.back \in {"drain", "gone"}
        /\ \A t \in Threads : t < main.k => thr[t].run
    BY <1>1, <1>5 DEF Join, JoinedInTurn
  <2>2. CASE main.k > 1
    <3> PICK k \in Threads : k = main.k - 1
      BY <2>1, <2>2, Consts
    <3>1. StopThread(k, main.back) /\ thr[k].run
      BY <1>5, <2>1, <2>2, Consts DEF Join
    <3> QED BY <1>3, <2>1, <3>1 DEF AfterStop
  <2>3. CASE ~ (main.k > 1)
    BY <1>5, <2>3 DEF Join, history
  <2> QED BY <2>2, <2>3
<1>6. CASE Complete \/ (Uninit /\ main.pc # "work")
  BY <1>6 DEF Complete, Uninit, history
<1>7. ASSUME NEW c \in Conns, Destroy(c) \/ Destroyed(c) PROVE before' = before /\ thr' = thr
  BY <1>7 DEF Destroy, Destroyed, history
<1>8. Stop => main.pc = "work"
  BY DEF Stop
<1> QED BY <1>2, <1>4, <1>5, <1>6, <1>7, <1>8, RunKept DEF Next

(* a thread that is over has no command, and nothing in its cache          *)
LEMMA OverDone ==
  ASSUME IInv, NEW p \in Procs, NEW t \in Threads, thr[t].pc = "over"
  PROVE  Served(p, t) /\ cache[p][t] = <<>> /\ HeldBy(thr[t], p) = <<>>
<1>1. thr[t].rest = <<>> /\ thr[t].ending /\ ~ thr[t].busy
  BY DEF IInv, Working
<1>2. ~ Within(thr[t].rest, p)
  BY <1>1 DEF Within
<1>3. HeldBy(thr[t], p) = <<>>
  BY DEF HeldBy
<1> QED BY <1>1, <1>2, <1>3 DEF IInv, LastPass

LEMMA AnsweredNext ==
  ASSUME IInv, Next
  PROVE  Answered'
<1>0. main \in MainRec /\ JoinedInTurn /\ OneClosing /\ Answered
  BY DEF IInv, Types
<1>1. CASE AfterStop
  <2> SUFFICES ASSUME AfterStop', NEW t \in Threads
               PROVE  Len(done'[Main][t]) >= before'[Main][t]
    BY DEF Answered
  <2>1. before' = before
    BY <1>1, BeforeKept
  <2>2. /\ Len(done[Main][t]) >= before[Main][t] /\ Len(done'[Main][t]) >= Len(done[Main][t])
    BY <1>0, <1>1, Grow, Consts DEF Answered
  <2>3. before[Main][t] \in Nat /\ Len(done[Main][t]) \in Nat /\ Len(done'[Main][t]) \in Nat
    <3>1. done'[Main][t] \in Seq(Cmds)
      BY TypesNext, Consts DEF Types, QueueTypes, Queues
    <3> QED BY <3>1, Counts, Consts, LenProperties DEF IInv, Types, QueueTypes
  <2> QED BY <2>1, <2>2, <2>3
<1>2. CASE ~ AfterStop /\ Complete
  <2> SUFFICES ASSUME NEW t \in Threads PROVE Len(done'[Main][t]) >= before'[Main][t]
    BY DEF Answered
  <2>1. /\ thr[t].pc = "over" /\ done' = done /\ before' = before
        /\ retQ[Main][t] = <<>> /\ cache[Main][t] = <<>>
    BY <1>0, <1>2 DEF Complete, JoinedInTurn, history
  <2>2. Served(Main, t) /\ HeldBy(thr[t], Main) = <<>>
    BY <2>1, OverDone, Consts
  <2>3. /\ Executed(Main, t) = Len(done[Main][t]) + Len(retQ[Main][t]) + Len(cache[Main][t])
                                 + Len(HeldBy(thr[t], Main))
        /\ Len(done[Main][t]) \in Nat
    BY Counts, Consts
  <2>4. Executed(Main, t) = Len(done[Main][t])
    BY <2>1, <2>2, <2>3
  <2> QED BY <2>1, <2>2, <2>4 DEF Served
<1>3. CASE ~ AfterStop /\ ~ Complete
  <2> SUFFICES ~ AfterStop'
    BY DEF Answered
  <2>1. ASSUME main' = main PROVE ~ AfterStop'
    BY <1>3, <2>1 DEF AfterStop
  <2>2. \A p \in Procs :
          Register(p) \/ Posting(p) \/ RunStep(p)
            \/ (\E c \in Conns, tries \in 1 .. MaxTries : Post(p, c, tries))
          => main' = main
    BY DEF Register, Posting, Push, PushFull, CountLoad, CountStore, CountOther, RunStep, Post
  <2>3. \A t \in Threads : ThreadStep(t) => main' = main
    BY RunKept
  <2>4. CASE Stop \/ Uninit
    BY <1>0, <2>4 DEF Stop, Uninit, StopThread, AfterStop, MainRec
  <2>5. CASE Join
    <3>1. main.back \in {"drain", "gone"}
      BY <1>0, <2>5 DEF Join, JoinedInTurn
    <3>2. main'.pc \in {"join", "drain", "gone"}
      BY <1>0, <2>5, <3>1 DEF Join, StopThread, MainRec
    <3> QED BY <3>2 DEF AfterStop
  <2>6. ASSUME NEW c \in Conns, Destroy(c) PROVE ~ AfterStop'
    <3>1. main.pc \in {"work", "done"} /\ main'.pc = "wait" /\ main'.back = main.pc
      BY <1>0, <2>6 DEF Destroy, MainRec
    <3> QED BY <1>3, <3>1 DEF AfterStop
  <2>7. ASSUME NEW c \in Conns, Destroyed(c) PROVE ~ AfterStop'
    <3>1. main.pc = "wait" /\ main.back \in {"work", "done"} /\ main'.pc = main.back
      BY <1>0, <2>7 DEF Destroyed, MainRec, OneClosing
    <3> QED BY <1>3, <3>1 DEF AfterStop
  <2> QED BY <1>3, <2>1, <2>2, <2>3, <2>4, <2>5, <2>6, <2>7 DEF Next
<1> QED BY <1>1, <1>2, <1>3

(* What the last pass of a db thread in the state r says of a proc of which *)
(* b commands were there before the stop, n are posted and x executed.     *)
LastOf(r, p, b, n, x, s) ==
  /\ ~ r.run => b <= n
  /\ r.ending /\ ~ r.busy =>
       /\ ~ Within(r.rest, p) => x >= b /\ s = <<>>
       /\ r.pc = "flush" /\ p = Head(r.rest) => x >= b

LEMMA LastAt ==
  ASSUME IInv, NEW q \in Procs, NEW u \in Threads
  PROVE  LastOf(thr[u], q, before[q][u], Len(posted[q][u]), Executed(q, u), cache[q][u])
BY DEF IInv, LastPass, LastOf, Served, Visited

(* the fields of a db thread that LastOf looks at                          *)
SameThread(r, s) ==
  r.run = s.run /\ r.ending = s.ending /\ r.busy = s.busy /\ r.rest = s.rest /\ r.pc = s.pc

LEMMA LastKept ==
  ASSUME NEW r, NEW r1, NEW p, NEW b \in Nat, NEW n \in Nat, NEW n1 \in Nat, NEW x, NEW s,
         LastOf(r, p, b, n, x, s), SameThread(r1, r), n1 >= n
  PROVE  LastOf(r1, p, b, n1, x, s)
BY DEF LastOf, SameThread

LEMMA LastThread ==
  ASSUME IInv, NEW t \in Threads, ThreadStep(t), NEW q \in Procs
  PROVE  LastOf(thr'[t], q, before[q][t], Len(posted[q][t]), Executed(q, t)', cache'[q][t])
<1>0. LastOf(thr[t], q, before[q][t], Len(posted[q][t]), Executed(q, t), cache[q][t])
  BY LastAt
<1>1. CASE Pop(t) \/ Execute(t) \/ Put(t) \/ Flush(t)
  <2>1. thr'[t].run = thr[t].run
    BY <1>1, PopEffect, ThrEffect
  <2>2. thr'[t].busy
    <3>1. CASE Pop(t)
      BY <3>1, PopEffect
    <3>2. CASE Execute(t) \/ Put(t)
      <4>1. thr[t].busy
        BY <3>2 DEF Execute, Put, IInv, Working
      <4> QED BY <3>2, <4>1, ThrEffect
    <3>3. CASE Flush(t)
      BY <3>3, ThrEffect
    <3> QED BY <1>1, <3>1, <3>2, <3>3
  <2> QED BY <1>0, <2>1, <2>2 DEF LastOf
<1>2. ASSUME ~ (Pop(t) \/ Execute(t) \/ Put(t) \/ Flush(t))
      PROVE  cache' = cache /\ Executed(q, t)' = Executed(q, t)
  BY <1>2 DEF ThreadStep, PopNone, NextProc, NextPass, Over, queues, history, Executed
<1>3. CASE PopNone(t)
  <2>1. /\ ~ Put(t) /\ ~ NextProc(t) /\ ~ NextPass(t) /\ ~ Pop(t) /\ ~ Execute(t) /\ ~ Flush(t)
        /\ cmdQ[Visited(t)][t] = <<>>
    BY <1>3 DEF PopNone, Put, NextProc, NextPass, Pop, Execute, Flush
  <2>2. /\ thr'[t].pc = "flush" /\ thr'[t].rest = thr[t].rest /\ thr'[t].run = thr[t].run
        /\ thr'[t].ending = thr[t].ending /\ (thr'[t].busy <=> thr[t].busy)
    BY <1>3, <2>1, ThrEffect
  <2>3. thr[t].ending => ~ thr[t].run
    BY DEF IInv, Working
  <2>4. q = Visited(t) => Executed(q, t) = Len(posted[q][t])
    <3>1. /\ Executed(q, t) \in Nat /\ Len(cmdQ[q][t]) \in Nat
          /\ Len(posted[q][t]) = Executed(q, t) + Len(cmdQ[q][t])
      BY Counts
    <3>2. q = Visited(t) => Len(cmdQ[q][t]) = 0
      BY <2>1
    <3> QED BY <3>1, <3>2
  <2>5. before[q][t] \in Nat /\ Len(posted[q][t]) \in Nat
    BY Counts DEF IInv, Types, QueueTypes
  <2>6. cache' = cache /\ Executed(q, t)' = Executed(q, t)
    BY <1>2, <2>1
  <2> QED BY <1>0, <2>2, <2>3, <2>4, <2>5, <2>6 DEF LastOf, Visited
<1>4. CASE NextProc(t)
  <2>1. ~ Put(t) /\ ~ NextPass(t) /\ ~ Pop(t) /\ ~ Execute(t) /\ ~ Flush(t) /\ thr[t].rest # <<>>
    BY <1>4 DEF NextProc, Put, NextPass, Pop, Execute, Flush, IInv, Working
  <2>2. /\ thr[t].pc = "flush" /\ thr'[t].pc = "visit" /\ thr'[t].rest = Tail(thr[t].rest)
        /\ thr'[t].run = thr[t].run /\ thr'[t].ending = thr[t].ending
        /\ thr'[t].busy <=> thr[t].busy \/ cache[Visited(t)][t] # <<>>
    BY <1>4, <2>1, ThrEffect
  <2>3. Within(thr[t].rest, q) => q = Visited(t) \/ Within(Tail(thr[t].rest), q)
    BY <2>1, TakeHead DEF IInv
  <2>4. cache' = cache /\ Executed(q, t)' = Executed(q, t)
    BY <1>2, <2>1
  <2> QED BY <1>0, <2>2, <2>3, <2>4 DEF LastOf, Visited
<1>5. CASE NextPass(t)
  <2>1. ~ Pop(t) /\ ~ Execute(t) /\ ~ Put(t) /\ ~ Flush(t)
    BY <1>5 DEF NextPass, Put, Pop, Execute, Flush
  <2>2. /\ thr'[t].pc = "visit" /\ thr'[t].rest = list /\ thr'[t].run = thr[t].run
        /\ thr'[t].ending <=> ~ thr[t].run
    BY <1>5, ThrEffect
  <2>3. cache' = cache /\ Executed(q, t)' = Executed(q, t)
    BY <1>2, <2>1
  <2>4. ASSUME ~ Within(list, q), ~ thr[t].run
        PROVE  Executed(q, t) >= before[q][t] /\ cache[q][t] = <<>>
    <3>1. q \notin Registered
      <4>1. DOMAIN list = 1 .. Len(list)
        BY LenProperties DEF IInv, Types, QueueTypes
      <4> QED BY <2>4, <4>1 DEF Within, Registered
    <3>2. Len(posted[q][t]) = 0
      BY <3>1 DEF IInv, Unused
    <3>3. /\ Executed(q, t) \in Nat /\ Len(cmdQ[q][t]) \in Nat /\ Len(cache[q][t]) \in Nat
          /\ Len(done[q][t]) \in Nat /\ Len(retQ[q][t]) \in Nat
          /\ Len(HeldBy(thr[t], q)) \in Nat
          /\ Len(posted[q][t]) = Executed(q, t) + Len(cmdQ[q][t])
          /\ Executed(q, t) = Len(done[q][t]) + Len(retQ[q][t]) + Len(cache[q][t])
                                + Len(HeldBy(thr[t], q))
      BY Counts
    <3> DEFINE a == Len(done[q][t])
               b == Len(retQ[q][t])
               x == Len(cache[q][t])
               h == Len(HeldBy(thr[t], q))
               k == Len(cmdQ[q][t])
               e == Executed(q, t)
    <3>4. e = 0 /\ x = 0
      <4>1. /\ a \in Nat /\ b \in Nat /\ x \in Nat /\ h \in Nat /\ k \in Nat /\ e \in Nat
            /\ 0 = e + k /\ e = a + b + x + h
        BY <3>2, <3>3
      <4> HIDE DEF a, b, x, h, k, e
      <4> QED BY <4>1
    <3>5. before[q][t] <= 0 /\ before[q][t] \in Nat
      BY <1>0, <2>4, <3>2 DEF LastOf, IInv, Types, QueueTypes
    <3>6. cache[q][t] = <<>>
      BY <3>4, Lines, EmptySeq
    <3> QED BY <3>4, <3>5, <3>6
  <2> QED BY <1>0, <2>2, <2>3, <2>4 DEF LastOf
<1>6. CASE Over(t)
  <2>1. /\ ~ Pop(t) /\ ~ Execute(t) /\ ~ Put(t) /\ ~ Flush(t)
        /\ thr'[t] = [thr[t] EXCEPT !.pc = "over"] /\ thr[t] \in ThrRec
    BY <1>6 DEF Over, Put, Pop, Execute, Flush, Step, IInv, Types
  <2>2. /\ thr'[t].run = thr[t].run /\ thr'[t].ending = thr[t].ending /\ thr'[t].pc = "over"
        /\ thr'[t].rest = thr[t].rest /\ thr'[t].busy = thr[t].busy
    BY <2>1 DEF ThrRec
  <2>3. cache' = cache /\ Executed(q, t)' = Executed(q, t)
    BY <1>2, <2>1
  <2> QED BY <1>0, <2>2, <2>3 DEF LastOf
<1> QED BY <1>1, <1>3, <1>4, <1>5, <1>6 DEF ThreadStep

LEMMA LastPassNext ==
  ASSUME IInv, Next
  PROVE  LastPass'
<1> SUFFICES ASSUME NEW q \in Procs, NEW u \in Threads
             PROVE  LastOf(thr'[u], q, before'[q][u], Len(posted'[q][u]), Executed(q, u)',
                           cache'[q][u])
  BY DEF LastPass, LastOf, Served, Visited
<1> USE DEF history, queues
<1>0. /\ LastOf(thr[u], q, before[q][u], Len(posted[q][u]), Executed(q, u), cache[q][u])
      /\ before[q][u] \in Nat /\ Len(posted[q][u]) \in Nat
      /\ Len(posted'[q][u]) \in Nat /\ Len(posted'[q][u]) >= Len(posted[q][u])
  <2>1. posted'[q][u] \in Seq(Cmds)
    BY TypesNext DEF Types, QueueTypes, Queues
  <2> QED BY <2>1, LastAt, Counts, Grow, LenProperties DEF IInv, Types, QueueTypes
<1>1. CASE /\ SameThread(thr'[u], thr[u]) /\ before'[q][u] = before[q][u]
           /\ cache'[q][u] = cache[q][u] /\ Executed(q, u)' = Executed(q, u)
  BY <1>0, <1>1, LastKept
<1>2. ASSUME thr'[u] = thr[u] PROVE SameThread(thr'[u], thr[u])
  BY <1>2 DEF SameThread
<1>3. ASSUME NEW p \in Procs,
             Register(p) \/ PushFull(p) \/ CountLoad(p) \/ CountStore(p) \/ CountOther(p)
               \/ RunStep(p)
      PROVE  /\ thr' = thr /\ before' = before /\ cache' = cache
             /\ Executed(q, u)' = Executed(q, u)
  BY <1>3 DEF Register, PushFull, CountLoad, CountStore, CountOther, RunStep, Executed
<1>4. ASSUME NEW p \in Procs, NEW c \in Conns, NEW tries \in 1 .. MaxTries, Post(p, c, tries)
      PROVE  /\ thr' = thr /\ before' = before /\ cache' = cache
             /\ Executed(q, u)' = Executed(q, u)
  BY <1>4 DEF Post, Executed
<1>5. ASSUME NEW p \in Procs, Push(p)
      PROVE  /\ thr' = thr /\ before' = before /\ cache' = cache
             /\ Executed(q, u)' = Executed(q, u)
  <2>1. thr' = thr /\ before' = before /\ cache' = cache
    BY <1>5 DEF Push
  <2>2. CASE q = p /\ u = ThreadOf[post[p].cmd.conn]
    <3>1. /\ cmdQ'[q][u] = Append(cmdQ[q][u], post[p].cmd)
          /\ posted'[q][u] = Append(posted[q][u], post[p].cmd)
          /\ post[p].cmd \in Cmds
      BY ZenonT(60), <1>5, <2>2, PushEffect
    <3>2. /\ Len(cmdQ'[q][u]) = Len(cmdQ[q][u]) + 1
          /\ Len(posted'[q][u]) = Len(posted[q][u]) + 1
      BY <3>1, Lines, Appended
    <3>3. Len(cmdQ[q][u]) \in Nat /\ Len(posted[q][u]) \in Nat
      BY Counts
    <3> QED BY <2>1, <3>2, <3>3 DEF Executed
  <2>3. CASE ~ (q = p /\ u = ThreadOf[post[p].cmd.conn])
    <3>1. cmdQ'[q][u] = cmdQ[q][u] /\ posted'[q][u] = posted[q][u]
      BY <1>5, <2>3, PushEffect
    <3> QED BY <2>1, <3>1 DEF Executed
  <2> QED BY <2>2, <2>3
<1>6. ASSUME NEW t \in Threads, ThreadStep(t)
      PROVE  LastOf(thr'[u], q, before'[q][u], Len(posted'[q][u]), Executed(q, u)',
                    cache'[q][u])
  <2>1. before' = before /\ posted' = posted
    BY <1>6 DEF ThreadStep, Pop, PopNone, Execute, Put, Flush, NextProc, NextPass, Over
  <2>2. CASE u = t
    BY <1>6, <2>1, <2>2, LastThread
  <2>3. CASE u # t
    <3>1. thr'[u] = thr[u]
      BY <1>6, <2>3, PopEffect, ThrEffect DEF ThreadStep
    <3>2. cmdQ'[q][u] = cmdQ[q][u]
      <4>1. CASE Pop(t)
        BY <2>3, <4>1, PopEffect
      <4>2. CASE ~ Pop(t)
        BY <1>6, <4>2 DEF ThreadStep, PopNone, Execute, Put, Flush, NextProc, NextPass, Over
      <4> QED BY <4>1, <4>2
    <3>3. cache'[q][u] = cache[q][u]
      <4>1. CASE Put(t)
        BY <2>3, <4>1, PutEffect
      <4>2. CASE Flush(t)
        BY <2>3, <4>2, FlushEffect
      <4>3. CASE ~ Put(t) /\ ~ Flush(t)
        BY <1>6, <4>3 DEF ThreadStep, Pop, PopNone, Execute, NextProc, NextPass, Over
      <4> QED BY <4>1, <4>2, <4>3
    <3> QED BY <1>1, <1>2, <2>1, <3>1, <3>2, <3>3 DEF Executed
  <2> QED BY <2>2, <2>3
<1>7. CASE Stop \/ Join \/ Complete \/ Uninit
  <2>1. cache' = cache /\ Executed(q, u)' = Executed(q, u) /\ posted' = posted
    BY <1>7, MainSteps DEF StopThread, Executed
  <2>2. ASSUME NEW k \in Threads, NEW back, StopThread(k, back), thr[k].run
        PROVE  LastOf(thr'[u], q, before'[q][u], Len(posted'[q][u]), Executed(q, u)',
                      cache'[q][u])
    <3>1. CASE u = k
      <4>1. thr'[u].ending = thr[u].ending /\ before'[q][u] = Len(posted[q][u])
        BY <2>2, <3>1, StopEffect
      <4>2. ~ thr[u].ending
        BY <2>2, <3>1 DEF IInv, Working
      <4> QED BY <1>0, <2>1, <4>1, <4>2 DEF LastOf
    <3>2. CASE u # k
      <4>1. SameThread(thr'[u], thr[u]) /\ before'[q][u] = before[q][u]
        <5>1. /\ thr'[u].pc = thr[u].pc /\ thr'[u].rest = thr[u].rest
              /\ thr'[u].busy = thr[u].busy /\ thr'[u].ending = thr[u].ending
          BY <2>2, StopEffect
        <5>2. thr'[u].run = thr[u].run
          <6>1. u \in Threads \ {k}
            BY <3>2
          <6> QED BY <2>2, <6>1, StopEffect
        <5>3. before'[q][u] = before[q][u]
          <6>1. before'[q] = [before[q] EXCEPT ![k] = Len(posted[q][k])]
            BY <2>2 DEF StopThread
          <6>2. before[q] \in [Threads -> Nat]
            BY DEF IInv, Types, QueueTypes
          <6> QED BY <3>2, <6>1, <6>2
        <5> QED BY <5>1, <5>2, <5>3 DEF SameThread
      <4> QED BY <1>1, <2>1, <4>1
    <3> QED BY <3>1, <3>2
  <2>3. ASSUME before' = before, thr'[u].run = thr[u].run
        PROVE  SameThread(thr'[u], thr[u])
    <3>1. \/ thr' = thr
          \/ \E k \in Threads, back \in {"work", "drain", "done", "gone"} : StopThread(k, back)
      BY <1>7, MainSteps
    <3>2. \/ thr'[u] = thr[u]
          \/ /\ thr'[u].pc = thr[u].pc /\ thr'[u].rest = thr[u].rest
             /\ thr'[u].busy = thr[u].busy /\ thr'[u].ending = thr[u].ending
      BY <3>1, StopEffect
    <3> QED BY <2>3, <3>2 DEF SameThread
  <2> QED BY <1>1, <2>1, <2>2, <2>3, BeforeKept
<1>8. ASSUME NEW c \in Conns, Destroy(c) \/ Destroyed(c)
      PROVE  /\ thr' = thr /\ before' = before /\ cache' = cache
             /\ Executed(q, u)' = Executed(q, u)
  BY <1>8 DEF Destroy, Destroyed, Executed
<1>9. ASSUME thr' = thr, before' = before, cache' = cache, Executed(q, u)' = Executed(q, u)
      PROVE  LastOf(thr'[u], q, before'[q][u], Len(posted'[q][u]), Executed(q, u)',
                    cache'[q][u])
  BY <1>1, <1>2, <1>9
<1> QED
  BY <1>3, <1>4, <1>5, <1>6, <1>7, <1>8, <1>9 DEF Next, Posting

-----------------------------------------------------------------------------
(***************************************************************************)
(* The counters of a connection.                                           *)
(***************************************************************************)
LEMMA OneMore ==
  ASSUME NEW S, IsFiniteSet(S), NEW x, x \notin S
  PROVE  /\ IsFiniteSet(S \cup {x}) /\ Cardinality(S) \in Nat
         /\ Cardinality(S \cup {x}) = Cardinality(S) + 1
BY FS_AddElement, FS_CardinalityType

LEMMA OneLess ==
  ASSUME NEW S, IsFiniteSet(S), NEW x \in S
  PROVE  /\ IsFiniteSet(S \ {x}) /\ Cardinality(S) \in Nat \ {0} /\ Cardinality(S \ {x}) \in Nat
         /\ Cardinality(S) = Cardinality(S \ {x}) + 1
<1>1. IsFiniteSet(S \ {x}) /\ Cardinality(S \ {x}) = Cardinality(S) - 1
  BY FS_RemoveElement
<1>2. Cardinality(S) \in Nat /\ Cardinality(S \ {x}) \in Nat
  BY <1>1, FS_CardinalityType
<1> QED BY <1>1, <1>2

(* nobody is executed, counted or posted                                   *)
Still ==
  \A p \in Procs, t \in Threads : Ran(p, t)' = Ran(p, t) /\ posted'[p][t] = posted[p][t]
WaitingStill(c) == Waiting(c)' = Waiting(c)

LEMMA StillWaiting ==
  ASSUME Still, NEW c
  PROVE  WaitingStill(c)
<1> DEFINE A(x) == /\ Ran(x[1], x[2]) < x[3] /\ x[3] <= Len(posted[x[1]][x[2]])
                   /\ posted[x[1]][x[2]][x[3]].conn = c
           B(x) == /\ Ran(x[1], x[2])' < x[3] /\ x[3] <= Len(posted'[x[1]][x[2]])
                   /\ posted'[x[1]][x[2]][x[3]].conn = c
           X == Procs \X Threads \X Nat
<1>1. ASSUME NEW x \in X PROVE A(x) <=> B(x)
  <2>1. x[1] \in Procs /\ x[2] \in Threads
    OBVIOUS
  <2>2. Ran(x[1], x[2])' = Ran(x[1], x[2]) /\ posted'[x[1]][x[2]] = posted[x[1]][x[2]]
    BY <2>1 DEF Still
  <2> QED BY <2>2
<1>2. Waiting(c) = {x \in X : A(x)} /\ Waiting(c)' = {x \in X : B(x)}
  BY DEF Waiting
<1> HIDE DEF A, B, X
<1>3. {x \in X : A(x)} = {x \in X : B(x)}
  BY <1>1
<1> QED BY <1>2, <1>3 DEF WaitingStill

LEMMA SameTriples ==
  ASSUME NEW P, NEW T, NEW S, NEW R, S \subseteq P \X T \X Nat, R \subseteq P \X T \X Nat,
         \A p \in P, t \in T, i \in Nat : <<p, t, i>> \in S <=> <<p, t, i>> \in R
  PROVE  S = R
<1>1. ASSUME NEW x \in P \X T \X Nat PROVE x \in S <=> x \in R
  <2>1. /\ x[1] \in P /\ x[2] \in T /\ x[3] \in Nat
        /\ x = <<x[1], x[2], x[3]>>
    OBVIOUS
  <2> QED BY <2>1
<1> QED BY <1>1

Equal(S, R) == S = R

LEMMA EqualTriples ==
  ASSUME NEW P, NEW T, NEW S, NEW R, S \subseteq P \X T \X Nat, R \subseteq P \X T \X Nat,
         \A p \in P, t \in T, i \in Nat : <<p, t, i>> \in S <=> <<p, t, i>> \in R
  PROVE  Equal(S, R)
BY SameTriples DEF Equal

LEMMA WaitingIs ==
  ASSUME NEW c
  PROVE  /\ Waiting(c) \subseteq Procs \X Threads \X Nat
         /\ \A p \in Procs, t \in Threads, i \in Nat :
              <<p, t, i>> \in Waiting(c) <=>
                Ran(p, t) < i /\ i <= Len(posted[p][t]) /\ posted[p][t][i].conn = c
BY DEF Waiting

LEMMA WaitingIsNext ==
  ASSUME NEW c
  PROVE  /\ Waiting(c)' \subseteq Procs \X Threads \X Nat
         /\ \A p \in Procs, t \in Threads, i \in Nat :
              <<p, t, i>> \in Waiting(c)' <=>
                Ran(p, t)' < i /\ i <= Len(posted'[p][t]) /\ posted'[p][t][i].conn = c
BY DEF Waiting

LEMMA ExecutedKept ==
  ASSUME IInv, Next, NEW q \in Procs, NEW u \in Threads
  PROVE  \/ Executed(q, u)' = Executed(q, u)
         \/ Pop(u) /\ q = Visited(u) /\ Executed(q, u)' = Executed(q, u) + 1
<1> USE DEF history, queues
<1>0. /\ cmdQ[q][u] \in Seq(Cmds) /\ posted[q][u] \in Seq(Cmds)
      /\ Len(cmdQ[q][u]) \in Nat /\ Len(posted[q][u]) \in Nat /\ Executed(q, u) \in Nat
  BY Lines, Counts
<1>1. CASE cmdQ'[q][u] = cmdQ[q][u] /\ posted'[q][u] = posted[q][u]
  BY <1>1 DEF Executed
<1>2. ASSUME NEW p \in Procs,
             Register(p) \/ PushFull(p) \/ CountLoad(p) \/ CountStore(p) \/ CountOther(p)
               \/ RunStep(p)
      PROVE  cmdQ' = cmdQ /\ posted' = posted
  BY <1>2 DEF Register, PushFull, CountLoad, CountStore, CountOther, RunStep
<1>3. ASSUME NEW p \in Procs, NEW c \in Conns, NEW tries \in 1 .. MaxTries, Post(p, c, tries)
      PROVE  cmdQ' = cmdQ /\ posted' = posted
  BY <1>3 DEF Post
<1>4. ASSUME NEW p \in Procs, Push(p) PROVE Executed(q, u)' = Executed(q, u)
  <2>1. CASE q = p /\ u = ThreadOf[post[p].cmd.conn]
    <3>1. /\ cmdQ'[q][u] = Append(cmdQ[q][u], post[p].cmd)
          /\ posted'[q][u] = Append(posted[q][u], post[p].cmd)
          /\ post[p].cmd \in Cmds
      BY ZenonT(60), <1>4, <2>1, PushEffect
    <3>2. /\ Len(cmdQ'[q][u]) = Len(cmdQ[q][u]) + 1
          /\ Len(posted'[q][u]) = Len(posted[q][u]) + 1
      BY <1>0, <3>1, Appended
    <3> QED BY <1>0, <3>2 DEF Executed
  <2>2. CASE ~ (q = p /\ u = ThreadOf[post[p].cmd.conn])
    <3>1. cmdQ'[q][u] = cmdQ[q][u] /\ posted'[q][u] = posted[q][u]
      BY <1>4, <2>2, PushEffect
    <3> QED BY <3>1 DEF Executed
  <2> QED BY <2>1, <2>2
<1>5. ASSUME NEW t \in Threads, Pop(t)
      PROVE  \/ Executed(q, u)' = Executed(q, u)
             \/ Pop(u) /\ q = Visited(u) /\ Executed(q, u)' = Executed(q, u) + 1
  <2>1. posted' = posted
    BY <1>5 DEF Pop
  <2>2. CASE q = Visited(t) /\ u = t
    <3>1. cmdQ[q][u] # <<>> /\ cmdQ'[q][u] = Tail(cmdQ[q][u])
      BY <1>5, <2>2, PopEffect
    <3>2. Len(cmdQ'[q][u]) = Len(cmdQ[q][u]) - 1
      BY <1>0, <3>1, Tails
    <3> QED BY <1>0, <1>5, <2>1, <2>2, <3>2 DEF Executed
  <2>3. CASE ~ (q = Visited(t) /\ u = t)
    <3>1. cmdQ'[q][u] = cmdQ[q][u]
      BY <1>5, <2>3, PopEffect
    <3> QED BY <2>1, <3>1 DEF Executed
  <2> QED BY <2>2, <2>3
<1>6. ASSUME NEW t \in Threads, ThreadStep(t), ~ Pop(t) PROVE cmdQ' = cmdQ /\ posted' = posted
  BY <1>6 DEF ThreadStep, PopNone, Execute, Put, Flush, NextProc, NextPass, Over
<1>7. CASE Stop \/ Join \/ Complete \/ Uninit
  <2>1. cmdQ' = cmdQ /\ posted' = posted
    BY <1>7, MainSteps DEF StopThread
  <2> QED BY <1>1, <2>1
<1>8. ASSUME NEW c \in Conns, Destroy(c) \/ Destroyed(c) PROVE cmdQ' = cmdQ /\ posted' = posted
  BY <1>8 DEF Destroy, Destroyed
<1> QED BY <1>1, <1>2, <1>3, <1>4, <1>5, <1>6, <1>7, <1>8 DEF Next, Posting

(* What the state r of a db thread takes from the x commands it popped.    *)
RanOf(r, p, x) == x - (IF r.pc = "exec" /\ Head(r.rest) = p THEN 1 ELSE 0)

LEMMA RanKept ==
  ASSUME IInv, Next, NEW q \in Procs, NEW u \in Threads
  PROVE  \/ Ran(q, u)' = Ran(q, u)
         \/ Execute(u) /\ q = Visited(u) /\ Ran(q, u)' = Ran(q, u) + 1
<1>0. /\ Ran(q, u) = RanOf(thr[u], q, Executed(q, u))
      /\ Ran(q, u)' = RanOf(thr'[u], q, Executed(q, u)')
      /\ Executed(q, u) \in Nat
  BY Counts DEF Ran, RanOf, Visited
<1>1. CASE Pop(u)
  <2>1. /\ thr[u].pc = "visit" /\ thr'[u].pc = "exec" /\ thr'[u].rest = thr[u].rest
    BY <1>1, PopEffect
  <2>2. CASE q = Visited(u)
    <3>1. Executed(q, u)' = Executed(q, u) + 1
      <4>1. posted' = posted
        BY <1>1 DEF Pop, history
      <4>2. cmdQ[q][u] # <<>> /\ cmdQ'[q][u] = Tail(cmdQ[q][u])
        BY <1>1, <2>2, PopEffect
      <4>3. /\ cmdQ[q][u] \in Seq(Cmds) /\ Len(cmdQ[q][u]) \in Nat
            /\ Len(posted[q][u]) \in Nat
        BY Lines, Counts
      <4>4. Len(cmdQ'[q][u]) = Len(cmdQ[q][u]) - 1
        BY <4>2, <4>3, Tails
      <4> QED BY <4>1, <4>3, <4>4 DEF Executed
    <3> QED BY <1>0, <2>1, <2>2, <3>1 DEF RanOf, Visited
  <2>3. CASE q # Visited(u)
    <3>1. Executed(q, u)' = Executed(q, u)
      BY <2>3, ExecutedKept
    <3> QED BY <1>0, <2>1, <2>3, <3>1 DEF RanOf, Visited
  <2> QED BY <2>2, <2>3
<1>2. CASE ~ Pop(u)
  <2>1. Executed(q, u)' = Executed(q, u)
    BY <1>2, ExecutedKept
  <2>2. CASE Execute(u)
    <3>1. thr[u].pc = "exec" /\ thr'[u].pc = "put"
      BY <2>2, ThrEffect
    <3> QED BY <1>0, <2>1, <2>2, <3>1 DEF RanOf, Visited
  <2>3. CASE ~ Execute(u)
    <3>1. \/ thr'[u].pc = thr[u].pc /\ thr'[u].rest = thr[u].rest
          \/ thr[u].pc # "exec" /\ thr'[u].pc # "exec"
      <4>1. ASSUME NEW p \in Procs,
                   Register(p) \/ Posting(p) \/ RunStep(p)
                     \/ \E c \in Conns, tries \in 1 .. MaxTries : Post(p, c, tries)
            PROVE  thr' = thr
        BY <4>1
        DEF Register, Posting, Push, PushFull, CountLoad, CountStore, CountOther, RunStep, Post
      <4>2. ASSUME NEW t \in Threads, ThreadStep(t)
            PROVE  \/ thr'[u].pc = thr[u].pc /\ thr'[u].rest = thr[u].rest
                   \/ thr[u].pc # "exec" /\ thr'[u].pc # "exec"
        <5>1. CASE t # u
          BY <4>2, <5>1, PopEffect, ThrEffect DEF ThreadStep
        <5>2. CASE t = u
          <6>1. PopNone(u) \/ Put(u) \/ Flush(u) \/ NextProc(u) \/ NextPass(u) \/ Over(u)
            BY <1>2, <2>3, <4>2, <5>2 DEF ThreadStep
          <6> QED BY <6>1, ThrEffect
        <5> QED BY <5>1, <5>2
      <4>3. CASE Stop \/ Join \/ Complete \/ Uninit
        BY <4>3, MainSteps, StopEffect
      <4>4. ASSUME NEW c \in Conns, Destroy(c) \/ Destroyed(c) PROVE thr' = thr
        BY <4>4 DEF Destroy, Destroyed
      <4> QED BY <4>1, <4>2, <4>3, <4>4 DEF Next
    <3> QED BY <1>0, <2>1, <3>1 DEF RanOf
  <2> QED BY <2>2, <2>3
<1> QED BY <1>1, <1>2

LEMMA RanBounds ==
  ASSUME IInv, NEW p \in Procs, NEW t \in Threads
  PROVE  Ran(p, t) \in Nat /\ Ran(p, t) <= Executed(p, t) /\ Ran(p, t) <= Len(posted[p][t])
<1> DEFINE a == Len(done[p][t])
           b == Len(retQ[p][t])
           c == Len(cache[p][t])
           h == Len(HeldBy(thr[t], p))
           k == Len(cmdQ[p][t])
           e == Executed(p, t)
           n == Len(posted[p][t])
           r == Ran(p, t)
<1>1. /\ a \in Nat /\ b \in Nat /\ c \in Nat /\ h \in Nat /\ k \in Nat /\ e \in Nat /\ n \in Nat
      /\ e = a + b + c + h /\ n = e + k
  BY Counts
<1>2. r = e \/ (r = e - 1 /\ h = 1)
  <2>1. CASE thr[t].pc = "exec" /\ Visited(t) = p
    <3>1. HeldBy(thr[t], p) = <<thr[t].cmd>>
      BY <2>1 DEF HeldBy, Visited
    <3>2. h = 1
      BY <3>1
    <3> QED BY <2>1, <3>2 DEF Ran
  <2>2. CASE ~ (thr[t].pc = "exec" /\ Visited(t) = p)
    <3>1. e - 0 = e
      BY <1>1
    <3> QED BY <2>2, <3>1 DEF Ran
  <2> QED BY <2>1, <2>2
<1> HIDE DEF a, b, c, h, k, e, n, r
<1>3. r \in Nat /\ r <= e /\ r <= n
  BY <1>1, <1>2
<1> QED BY <1>3 DEF e, n, r

LEMMA PushWaits ==
  ASSUME IInv, NEW p \in Procs, Push(p), NEW t \in Threads, t = ThreadOf[post[p].cmd.conn],
         NEW c \in Conns
  PROVE  /\ <<p, t, Len(posted[p][t]) + 1>> \notin Waiting(c)
         /\ post[p].cmd.conn # c => Waiting(c)' = Waiting(c)
         /\ post[p].cmd.conn = c =>
              Waiting(c)' = Waiting(c) \cup {<<p, t, Len(posted[p][t]) + 1>>}
<1> DEFINE n == Len(posted[p][t])
<1>0. n \in Nat
  BY Counts
<1> HIDE DEF n
<1>1. /\ Waiting(c) \subseteq Procs \X Threads \X Nat
      /\ \A q \in Procs, u \in Threads, i \in Nat :
           <<q, u, i>> \in Waiting(c) <=>
             Ran(q, u) < i /\ i <= Len(posted[q][u]) /\ posted[q][u][i].conn = c
  BY WaitingIs
<1>2. /\ Waiting(c)' \subseteq Procs \X Threads \X Nat
      /\ \A q \in Procs, u \in Threads, i \in Nat :
           <<q, u, i>> \in Waiting(c)' <=>
             Ran(q, u)' < i /\ i <= Len(posted'[q][u]) /\ posted'[q][u][i].conn = c
  BY WaitingIsNext
<1>3. ASSUME NEW q \in Procs, NEW u \in Threads PROVE Ran(q, u)' = Ran(q, u)
  <2>1. Next
    BY DEF Next, Posting
  <2>2. ~ Execute(u) \/ Ran(q, u)' = Ran(q, u)
    <3>1. Execute(u) => thr' # thr
      <4>1. Execute(u) => thr[u].pc = "exec" /\ thr'[u].pc = "put"
        BY ThrEffect
      <4> QED BY <4>1
    <3>2. thr' = thr
      BY DEF Push
    <3> QED BY <3>1, <3>2
  <2> QED BY <2>1, <2>2, RanKept
<1>4. n + 1 \in Nat /\ ~ (n + 1 <= n) /\ Ran(p, t) < n + 1 /\ Ran(p, t) \in Nat
  <2>1. Ran(p, t) \in Nat /\ Ran(p, t) <= n
    BY RanBounds DEF n
  <2> QED BY <1>0, <2>1
<1>5. /\ post[p].cmd \in Cmds /\ posted'[p][t] = Append(posted[p][t], post[p].cmd)
      /\ posted[p][t] \in Seq(Cmds)
      /\ \A q \in Procs, u \in Threads : ~ (q = p /\ u = t) => posted'[q][u] = posted[q][u]
  BY ZenonT(60), PushEffect, Lines
<1>6. /\ Len(posted'[p][t]) = n + 1 /\ posted'[p][t][n + 1] = post[p].cmd
      /\ \A i \in 1 .. n : posted'[p][t][i] = posted[p][t][i]
  <2> DEFINE s == posted[p][t]
             e == post[p].cmd
             w == Append(s, e)
  <2>1. s \in Seq(Cmds) /\ e \in Cmds /\ posted'[p][t] = w /\ n = Len(s)
    BY <1>5 DEF n
  <2> HIDE DEF s, e
  <2>2. /\ Len(w) = Len(s) + 1 /\ w[Len(s) + 1] = e
        /\ \A i \in 1 .. Len(s) : w[i] = s[i]
    BY <2>1, Appended
  <2> HIDE DEF w
  <2>3. /\ Len(posted'[p][t]) = n + 1 /\ posted'[p][t][n + 1] = e
        /\ \A i \in 1 .. n : posted'[p][t][i] = s[i]
    BY <2>1, <2>2
  <2> QED BY <2>3 DEF s, e
<1>7. ASSUME NEW q \in Procs, NEW u \in Threads, NEW i \in Nat, <<q, u, i>> # <<p, t, n + 1>>
      PROVE  <<q, u, i>> \in Waiting(c)' <=> <<q, u, i>> \in Waiting(c)
  <2>1. CASE ~ (q = p /\ u = t)
    <3>1. posted'[q][u] = posted[q][u] /\ Ran(q, u)' = Ran(q, u)
      BY <1>3, <1>5, <2>1
    <3> QED BY <1>1, <1>2, <3>1
  <2>2. CASE q = p /\ u = t
    <3>1. i # n + 1
      BY <1>7, <2>2
    <3>2. i <= n + 1 <=> i <= n
      BY <1>0, <3>1
    <3>3. Ran(p, t) \in Nat
      BY <1>4
    <3>4. Ran(p, t) < i /\ i <= n => posted'[p][t][i] = posted[p][t][i]
      <4>1. Ran(p, t) < i /\ i <= n => i \in 1 .. n
        BY <3>3
      <4> QED BY <1>6, <4>1
    <3>5. Ran(p, t)' = Ran(p, t)
      BY <1>3
    <3>6. <<p, t, i>> \in Waiting(c) <=>
            Ran(p, t) < i /\ i <= n /\ posted[p][t][i].conn = c
      BY <1>1 DEF n
    <3>7. <<p, t, i>> \in Waiting(c)' <=>
            Ran(p, t) < i /\ i <= n + 1 /\ posted'[p][t][i].conn = c
      BY ZenonT(60), <1>2, <1>6, <3>5
    <3> QED BY <2>2, <3>2, <3>4, <3>6, <3>7
  <2> QED BY <2>1, <2>2
<1>8. <<p, t, n + 1>> \notin Waiting(c)
  BY <1>1, <1>4 DEF n
<1>9. <<p, t, n + 1>> \in Waiting(c)' <=> post[p].cmd.conn = c
  <2>1. Ran(p, t)' = Ran(p, t)
    BY <1>3
  <2>2. <<p, t, n + 1>> \in Waiting(c)' <=>
          Ran(p, t)' < n + 1 /\ n + 1 <= Len(posted'[p][t]) /\ posted'[p][t][n + 1].conn = c
    BY <1>2, <1>4
  <2>3. n + 1 <= Len(posted'[p][t])
    <3>1. n + 1 <= n + 1
      BY <1>0
    <3> QED BY <1>6, <3>1
  <2> QED BY <1>4, <1>6, <2>1, <2>2, <2>3
<1>10. ASSUME post[p].cmd.conn # c PROVE Waiting(c)' = Waiting(c)
  <2>1. \A q \in Procs, u \in Threads, i \in Nat :
          <<q, u, i>> \in Waiting(c)' <=> <<q, u, i>> \in Waiting(c)
    BY <1>7, <1>8, <1>9, <1>10
  <2>2. Equal(Waiting(c)', Waiting(c))
    BY <1>1, <1>2, <2>1, EqualTriples
  <2> QED BY <2>2 DEF Equal
<1>11. ASSUME post[p].cmd.conn = c PROVE Waiting(c)' = Waiting(c) \cup {<<p, t, n + 1>>}
  <2>1. \A q \in Procs, u \in Threads, i \in Nat :
          <<q, u, i>> \in Waiting(c)' <=> <<q, u, i>> \in Waiting(c) \cup {<<p, t, n + 1>>}
    BY <1>7, <1>8, <1>9, <1>11
  <2>2. Waiting(c) \cup {<<p, t, n + 1>>} \subseteq Procs \X Threads \X Nat
    <3>1. <<p, t, n + 1>> \in Procs \X Threads \X Nat
      BY <1>4
    <3> QED BY <1>1, <3>1
  <2> QED BY <1>2, <2>1, <2>2, SameTriples
<1> QED BY <1>8, <1>10, <1>11 DEF n

LEMMA ExecuteWaits ==
  ASSUME IInv, NEW t \in Threads, Execute(t), NEW p \in Procs, p = Visited(t),
         NEW n, n = Executed(p, t), NEW c \in Conns
  PROVE  /\ thr[t].cmd.conn # c => Waiting(c)' = Waiting(c)
         /\ thr[t].cmd.conn = c => /\ Waiting(c)' = Waiting(c) \ {<<p, t, n>>}
                                   /\ <<p, t, n>> \in Waiting(c)
<1>1. /\ Waiting(c) \subseteq Procs \X Threads \X Nat
      /\ \A q \in Procs, u \in Threads, i \in Nat :
           <<q, u, i>> \in Waiting(c) <=>
             Ran(q, u) < i /\ i <= Len(posted[q][u]) /\ posted[q][u][i].conn = c
  BY WaitingIs
<1>2. /\ Waiting(c)' \subseteq Procs \X Threads \X Nat
      /\ \A q \in Procs, u \in Threads, i \in Nat :
           <<q, u, i>> \in Waiting(c)' <=>
             Ran(q, u)' < i /\ i <= Len(posted'[q][u]) /\ posted'[q][u][i].conn = c
  BY WaitingIsNext
<1>3. /\ posted' = posted /\ cmdQ' = cmdQ /\ thr[t].pc = "exec" /\ thr[t].cmd \in Cmds
      /\ thr'[t].pc = "put" /\ \A u \in Threads \ {t} : thr'[u] = thr[u]
  <2>1. thr'[t].pc = "put" /\ \A u \in Threads \ {t} : thr'[u] = thr[u]
    BY ThrEffect
  <2> QED BY <2>1 DEF Execute, queues, history, IInv, Working
<1>4. /\ HeldBy(thr[t], p) = <<thr[t].cmd>> /\ Len(HeldBy(thr[t], p)) = 1
  BY <1>3 DEF HeldBy, Visited
<1>5. /\ n \in Nat /\ n <= Len(posted[p][t]) /\ posted[p][t][n] = thr[t].cmd
  <2>1. /\ n \in Nat /\ Len(cmdQ[p][t]) \in Nat /\ Len(posted[p][t]) = n + Len(cmdQ[p][t])
        /\ \A e \in Cmds : HeldBy(thr[t], p) = <<e>> => posted[p][t][n] = e
    BY Counts
  <2>2. posted[p][t][n] = thr[t].cmd
    BY <1>3, <1>4, <2>1
  <2> QED BY <2>1, <2>2
<1>6. Ran(p, t) = n - 1 /\ Ran(p, t)' = n
  BY <1>3, <1>5 DEF Ran, Executed, Visited
<1>7. ASSUME NEW q \in Procs, NEW u \in Threads, ~ (q = p /\ u = t)
      PROVE  Ran(q, u)' = Ran(q, u)
  <2>1. Next
    BY DEF Next, ThreadStep
  <2>2. Ran(q, u)' # Ran(q, u) => Execute(u) /\ q = Visited(u)
    BY <2>1, RanKept
  <2>3. u # t => ~ Execute(u)
    <3>1. Execute(u) => thr[u].pc = "exec" /\ thr'[u].pc = "put"
      BY ThrEffect
    <3>2. u # t => thr'[u] = thr[u]
      BY <1>3
    <3> QED BY <3>1, <3>2
  <2> QED BY <1>7, <2>2, <2>3
<1>8. ASSUME NEW q \in Procs, NEW u \in Threads, NEW i \in Nat, <<q, u, i>> # <<p, t, n>>
      PROVE  <<q, u, i>> \in Waiting(c)' <=> <<q, u, i>> \in Waiting(c)
  <2>1. CASE ~ (q = p /\ u = t)
    <3>1. Ran(q, u)' = Ran(q, u)
      BY <1>7, <2>1
    <3> QED BY <1>1, <1>2, <1>3, <3>1
  <2>2. CASE q = p /\ u = t
    <3>1. i # n
      BY <1>8, <2>2
    <3>2. n - 1 < i <=> n < i
      BY <1>5, <3>1
    <3> QED BY <1>1, <1>2, <1>3, <1>6, <2>2, <3>2
  <2> QED BY <2>1, <2>2
<1>9. <<p, t, n>> \notin Waiting(c)'
  BY <1>2, <1>5, <1>6
<1>10. <<p, t, n>> \in Waiting(c) <=> thr[t].cmd.conn = c
  <2>1. n - 1 < n
    BY <1>5
  <2> QED BY <1>1, <1>5, <1>6, <2>1
<1>11. ASSUME thr[t].cmd.conn # c PROVE Waiting(c)' = Waiting(c)
  <2>1. \A q \in Procs, u \in Threads, i \in Nat :
          <<q, u, i>> \in Waiting(c)' <=> <<q, u, i>> \in Waiting(c)
    BY <1>8, <1>9, <1>10, <1>11
  <2>2. Equal(Waiting(c)', Waiting(c))
    BY <1>1, <1>2, <2>1, EqualTriples
  <2> QED BY <2>2 DEF Equal
<1>12. ASSUME thr[t].cmd.conn = c PROVE Waiting(c)' = Waiting(c) \ {<<p, t, n>>}
  <2>1. \A q \in Procs, u \in Threads, i \in Nat :
          <<q, u, i>> \in Waiting(c)' <=> <<q, u, i>> \in Waiting(c) \ {<<p, t, n>>}
    BY <1>8, <1>9, <1>10, <1>12
  <2>2. Waiting(c) \ {<<p, t, n>>} \subseteq Procs \X Threads \X Nat
    BY <1>1
  <2> QED BY <1>2, <2>1, <2>2, SameTriples
<1> QED BY <1>10, <1>11, <1>12

(* a proc in the state r has yet to count what it posted on c              *)
IsCounted(r, c) == r.pc \in {"count", "store"} /\ r.cmd.conn = c

LEMMA CountingSame ==
  ASSUME NEW c, \A q \in Procs : IsCounted(post'[q], c) <=> IsCounted(post[q], c)
  PROVE  Counting(c)' = Counting(c)
BY DEF Counting, IsCounted

LEMMA CountingMore ==
  ASSUME NEW c, NEW p \in Procs, IsCounted(post'[p], c), ~ IsCounted(post[p], c),
         \A q \in Procs : q # p => post'[q] = post[q]
  PROVE  Counting(c)' = Counting(c) \cup {p} /\ p \notin Counting(c)
BY DEF Counting, IsCounted

LEMMA CountingLess ==
  ASSUME NEW c, NEW p \in Procs, ~ IsCounted(post'[p], c), IsCounted(post[p], c),
         \A q \in Procs : q # p => post'[q] = post[q]
  PROVE  Counting(c)' = Counting(c) \ {p} /\ p \in Counting(c)
BY DEF Counting, IsCounted

(* What becomes of a connection that nobody posts on, counts or executes.  *)
LEMMA BalanceStill ==
  ASSUME IInv, NEW c \in Conns, Counting(c)' = Counting(c), Waiting(c)' = Waiting(c),
         conn'[c].req = conn[c].req, conn'[c].reqMt = conn[c].reqMt,
         conn'[c].ack = conn[c].ack, conn'[c].state = "gone" => conn[c].state = "gone"
  PROVE  Balanced(c)'
<1>1. Balanced(c)
  BY DEF IInv, Balance
<1> QED BY <1>1 DEF Balanced

(* no command is posted or executed                                        *)
LEMMA WaitingKept ==
  ASSUME IInv, Next, posted' = posted, \A t \in Threads : ~ Execute(t), NEW c
  PROVE  Waiting(c)' = Waiting(c)
<1>1. Still
  BY RanKept DEF Still
<1> QED BY <1>1, StillWaiting DEF WaitingStill

LEMMA BalancePush ==
  ASSUME IInv, NEW p \in Procs, Push(p), NEW c \in Conns
  PROVE  Balanced(c)'
<1> PICK t \in Threads : t = ThreadOf[post[p].cmd.conn]
  BY PushEffect
<1> DEFINE x == <<p, t, Len(posted[p][t]) + 1>>
<1>1. /\ x \notin Waiting(c)
      /\ post[p].cmd.conn # c => Waiting(c)' = Waiting(c)
      /\ post[p].cmd.conn = c => Waiting(c)' = Waiting(c) \cup {x}
  BY PushWaits
<1> HIDE DEF x
<1>2. /\ conn' = conn /\ post \in [Procs -> PostRec]
      /\ post' = [post EXCEPT ![p].pc = "count"] /\ post[p].pc = "push"
  BY DEF Push, IInv, Types
<1>3. /\ post'[p].pc = "count" /\ post'[p].cmd = post[p].cmd
      /\ \A q \in Procs : q # p => post'[q] = post[q]
  BY <1>2 DEF PostRec
<1>4. ~ IsCounted(post[p], c)
  BY <1>2 DEF IsCounted
<1>5. CASE post[p].cmd.conn # c
  <2>1. ~ IsCounted(post'[p], c)
    BY <1>3, <1>5 DEF IsCounted
  <2>2. \A q \in Procs : IsCounted(post'[q], c) <=> IsCounted(post[q], c)
    BY <1>3, <1>4, <2>1
  <2>3. Counting(c)' = Counting(c)
    BY <2>2, CountingSame
  <2> QED BY <1>1, <1>2, <1>5, <2>3, BalanceStill
<1>6. CASE post[p].cmd.conn = c
  <2>1. IsCounted(post'[p], c)
    BY <1>3, <1>6 DEF IsCounted
  <2>2. Counting(c)' = Counting(c) \cup {p} /\ p \notin Counting(c)
    BY <1>3, <1>4, <2>1, CountingMore
  <2>3. /\ IsFiniteSet(Counting(c)) /\ IsFiniteSet(Waiting(c))
        /\ conn[c].req + conn[c].reqMt + Cardinality(Counting(c))
             = conn[c].ack + Cardinality(Waiting(c))
        /\ conn[c] \in ConnRec
    BY DEF IInv, Balance, Balanced, Types
  <2>4. /\ IsFiniteSet(Counting(c) \cup {p}) /\ Cardinality(Counting(c)) \in Nat
        /\ Cardinality(Counting(c) \cup {p}) = Cardinality(Counting(c)) + 1
    BY <2>2, <2>3, OneMore
  <2>5. /\ IsFiniteSet(Waiting(c) \cup {x}) /\ Cardinality(Waiting(c)) \in Nat
        /\ Cardinality(Waiting(c) \cup {x}) = Cardinality(Waiting(c)) + 1
    BY <1>1, <2>3, OneMore
  <2>6. conn[c].state # "gone"
    <3>1. conn[c].state = "open"
      BY <1>2, <1>6 DEF IInv, PostingOpen
    <3> QED BY <3>1
  <2>7. /\ IsFiniteSet(Counting(c)') /\ IsFiniteSet(Waiting(c)')
        /\ Cardinality(Counting(c)') = Cardinality(Counting(c)) + 1
        /\ Cardinality(Waiting(c)') = Cardinality(Waiting(c)) + 1
    BY <1>1, <1>6, <2>2, <2>4, <2>5
  <2>8. conn[c].req \in Nat /\ conn[c].reqMt \in Nat /\ conn[c].ack \in Nat
    BY <2>3 DEF ConnRec
  <2>9. conn[c].req + conn[c].reqMt + Cardinality(Counting(c)')
          = conn[c].ack + Cardinality(Waiting(c)')
    <3> DEFINE r == conn[c].req
               m == conn[c].reqMt
               a == conn[c].ack
               i == Cardinality(Counting(c))
               j == Cardinality(Waiting(c))
               i1 == Cardinality(Counting(c)')
               j1 == Cardinality(Waiting(c)')
    <3>1. /\ r \in Nat /\ m \in Nat /\ a \in Nat /\ i \in Nat /\ j \in Nat
          /\ r + m + i = a + j /\ i1 = i + 1 /\ j1 = j + 1
      BY <2>3, <2>4, <2>5, <2>7, <2>8
    <3> HIDE DEF r, m, a, i, j, i1, j1
    <3>2. r + m + i1 = a + j1
      BY <3>1
    <3> QED BY <3>2 DEF r, m, a, i1, j1
  <2> QED BY <1>2, <2>6, <2>7, <2>9 DEF Balanced
<1> QED BY <1>5, <1>6

LEMMA BalanceCount ==
  ASSUME IInv, NEW p \in Procs, CountStore(p) \/ CountOther(p), NEW c \in Conns
  PROVE  Balanced(c)'
<1>1. /\ post \in [Procs -> PostRec] /\ conn \in [Conns -> ConnRec]
      /\ post' = [post EXCEPT ![p].pc = "idle"] /\ post[p].pc \in {"count", "store"}
      /\ posted' = posted
  BY DEF CountStore, CountOther, history, IInv, Types
<1>2. post'[p].pc = "idle" /\ \A q \in Procs : q # p => post'[q] = post[q]
  BY <1>1 DEF PostRec
<1>3. Waiting(c)' = Waiting(c)
  <2>1. Next
    BY DEF Next, Posting
  <2>2. thr' = thr
    BY DEF CountStore, CountOther
  <2>3. \A t \in Threads : ~ Execute(t)
    <3>1. \A t \in Threads : Execute(t) => thr[t].pc = "exec" /\ thr'[t].pc = "put"
      BY ThrEffect
    <3> QED BY <2>2, <3>1
  <2> QED BY <1>1, <2>1, <2>3, WaitingKept
<1>4. ~ IsCounted(post'[p], c)
  BY <1>2 DEF IsCounted
<1>5. PICK d \in Conns : d = post[p].cmd.conn
  BY <1>1 DEF IInv, PostingOpen, Cmds
<1>6. \/ conn' = [conn EXCEPT ![d].req = conn[d].req + 1]
      \/ conn' = [conn EXCEPT ![d].reqMt = conn[d].reqMt + 1]
  <2>1. CASE CountStore(p)
    <3>1. conn' = [conn EXCEPT ![d].req = post[p].old + 1] /\ post[p].pc = "store"
      BY <1>5, <2>1 DEF CountStore
    <3>2. post[p].old = conn[d].req
      BY <1>5, <3>1 DEF IInv, PostingOpen
    <3> QED BY <3>1, <3>2
  <2>2. CASE CountOther(p)
    BY <1>1, <1>5, <2>2 DEF CountOther
  <2> QED BY <2>1, <2>2
<1>7. CASE d # c
  <2>1. conn'[c] = conn[c]
    BY <1>1, <1>6, <1>7
  <2>2. ~ IsCounted(post[p], c)
    BY <1>5, <1>7 DEF IsCounted
  <2>3. \A q \in Procs : IsCounted(post'[q], c) <=> IsCounted(post[q], c)
    BY <1>2, <1>4, <2>2
  <2>4. Counting(c)' = Counting(c)
    BY <2>3, CountingSame
  <2> QED BY <1>3, <2>1, <2>4, BalanceStill
<1>8. CASE d = c
  <2>1. IsCounted(post[p], c)
    BY <1>1, <1>5, <1>8 DEF IsCounted
  <2>2. Counting(c)' = Counting(c) \ {p} /\ p \in Counting(c)
    BY <1>2, <1>4, <2>1, CountingLess
  <2>3. /\ IsFiniteSet(Counting(c)) /\ IsFiniteSet(Waiting(c))
        /\ conn[c].req + conn[c].reqMt + Cardinality(Counting(c))
             = conn[c].ack + Cardinality(Waiting(c))
        /\ conn[c].state = "gone" => Waiting(c) = {}
        /\ conn[c] \in ConnRec
    BY DEF IInv, Balance, Balanced, Types
  <2>4. /\ IsFiniteSet(Counting(c) \ {p}) /\ Cardinality(Counting(c) \ {p}) \in Nat
        /\ Cardinality(Counting(c)) = Cardinality(Counting(c) \ {p}) + 1
    BY <2>2, <2>3, OneLess
  <2>5. /\ conn[c].req \in Nat /\ conn[c].reqMt \in Nat /\ conn[c].ack \in Nat
        /\ Cardinality(Waiting(c)) \in Nat
    BY <2>3, FS_CardinalityType DEF ConnRec
  <2>6. /\ conn'[c].state = conn[c].state /\ conn'[c].ack = conn[c].ack
        /\ \/ conn'[c].req = conn[c].req + 1 /\ conn'[c].reqMt = conn[c].reqMt
           \/ conn'[c].req = conn[c].req /\ conn'[c].reqMt = conn[c].reqMt + 1
    BY <1>1, <1>6, <1>8 DEF ConnRec
  <2>7. /\ IsFiniteSet(Counting(c)')
        /\ Cardinality(Counting(c)) = Cardinality(Counting(c)') + 1
        /\ Cardinality(Counting(c)') \in Nat
    BY <2>2, <2>4
  <2>8. conn'[c].req + conn'[c].reqMt + Cardinality(Counting(c)')
          = conn'[c].ack + Cardinality(Waiting(c))
    <3> DEFINE r == conn[c].req
               m == conn[c].reqMt
               a == conn[c].ack
               r1 == conn'[c].req
               m1 == conn'[c].reqMt
               a1 == conn'[c].ack
               i == Cardinality(Counting(c))
               j == Cardinality(Waiting(c))
               i1 == Cardinality(Counting(c)')
    <3>1. /\ r \in Nat /\ m \in Nat /\ a \in Nat /\ j \in Nat /\ i1 \in Nat
          /\ r + m + i = a + j /\ i = i1 + 1 /\ a1 = a
          /\ (r1 = r + 1 /\ m1 = m) \/ (r1 = r /\ m1 = m + 1)
      BY <2>3, <2>5, <2>6, <2>7
    <3> HIDE DEF r, m, a, i, j, i1, r1, m1, a1
    <3>2. r1 + m1 + i1 = a1 + j
      BY <3>1
    <3> QED BY <3>2 DEF r1, m1, a1, i1, j
  <2> QED BY <1>3, <2>3, <2>6, <2>7, <2>8 DEF Balanced
<1> QED BY <1>7, <1>8

LEMMA BalanceExecute ==
  ASSUME IInv, NEW t \in Threads, Execute(t), NEW c \in Conns
  PROVE  Balanced(c)'
<1> PICK p \in Procs : p = Visited(t)
  BY TakeHead DEF Execute, IInv, Working
<1> DEFINE x == <<p, t, Executed(p, t)>>
<1>1. /\ thr[t].cmd.conn # c => Waiting(c)' = Waiting(c)
      /\ thr[t].cmd.conn = c => Waiting(c)' = Waiting(c) \ {x} /\ x \in Waiting(c)
  BY ExecuteWaits
<1> HIDE DEF x
<1>2. /\ post' = post /\ conn \in [Conns -> ConnRec] /\ thr[t].cmd.conn \in Conns
      /\ conn' = [conn EXCEPT ![thr[t].cmd.conn].ack = @ + 1]
  BY DEF Execute, IInv, Types, Working, Cmds
<1>3. Counting(c)' = Counting(c)
  BY <1>2, CountingSame
<1>4. CASE thr[t].cmd.conn # c
  <2>1. conn'[c] = conn[c]
    BY <1>2, <1>4
  <2> QED BY <1>1, <1>3, <1>4, <2>1, BalanceStill
<1>5. CASE thr[t].cmd.conn = c
  <2>1. /\ IsFiniteSet(Counting(c)) /\ IsFiniteSet(Waiting(c))
        /\ conn[c].req + conn[c].reqMt + Cardinality(Counting(c))
             = conn[c].ack + Cardinality(Waiting(c))
        /\ conn[c].state = "gone" => Waiting(c) = {}
        /\ conn[c] \in ConnRec
    BY DEF IInv, Balance, Balanced, Types
  <2>2. /\ IsFiniteSet(Waiting(c) \ {x}) /\ Cardinality(Waiting(c) \ {x}) \in Nat
        /\ Cardinality(Waiting(c)) = Cardinality(Waiting(c) \ {x}) + 1
    BY <1>1, <1>5, <2>1, OneLess
  <2>3. /\ conn[c].req \in Nat /\ conn[c].reqMt \in Nat /\ conn[c].ack \in Nat
        /\ Cardinality(Counting(c)) \in Nat
    BY <2>1, FS_CardinalityType DEF ConnRec
  <2>4. /\ conn'[c].state = conn[c].state /\ conn'[c].ack = conn[c].ack + 1
        /\ conn'[c].req = conn[c].req /\ conn'[c].reqMt = conn[c].reqMt
    BY <1>2, <1>5 DEF ConnRec
  <2>5. /\ IsFiniteSet(Waiting(c)')
        /\ Cardinality(Waiting(c)) = Cardinality(Waiting(c)') + 1
        /\ Cardinality(Waiting(c)') \in Nat
    BY <1>1, <1>5, <2>2
  <2>6. conn'[c].req + conn'[c].reqMt + Cardinality(Counting(c))
          = conn'[c].ack + Cardinality(Waiting(c)')
    <3> DEFINE r == conn[c].req
               m == conn[c].reqMt
               a == conn[c].ack
               r1 == conn'[c].req
               m1 == conn'[c].reqMt
               a1 == conn'[c].ack
               i == Cardinality(Counting(c))
               j == Cardinality(Waiting(c))
               j1 == Cardinality(Waiting(c)')
    <3>1. /\ r \in Nat /\ m \in Nat /\ a \in Nat /\ i \in Nat /\ j1 \in Nat
          /\ r + m + i = a + j /\ j = j1 + 1 /\ a1 = a + 1
          /\ r1 = r /\ m1 = m
      BY <2>1, <2>3, <2>4, <2>5
    <3> HIDE DEF r, m, a, i, j, j1, r1, m1, a1
    <3>2. r1 + m1 + i = a1 + j1
      BY <3>1
    <3> QED BY <3>2 DEF r1, m1, a1, i, j1
  <2>7. conn[c].state # "gone"
    BY <1>1, <1>5, <2>1
  <2> QED BY <1>3, <2>1, <2>4, <2>5, <2>6, <2>7 DEF Balanced
<1> QED BY <1>4, <1>5

LEMMA BalanceDestroy ==
  ASSUME IInv, NEW d \in Conns, Destroy(d) \/ Destroyed(d), NEW c \in Conns
  PROVE  Balanced(c)'
<1>1. post' = post /\ posted' = posted /\ thr' = thr /\ conn \in [Conns -> ConnRec]
  BY DEF Destroy, Destroyed, history, IInv, Types
<1>2. Waiting(c)' = Waiting(c)
  <2>1. Next
    BY DEF Next
  <2>2. \A t \in Threads : ~ Execute(t)
    <3>1. \A t \in Threads : Execute(t) => thr[t].pc = "exec" /\ thr'[t].pc = "put"
      BY ThrEffect
    <3> QED BY <1>1, <3>1
  <2> QED BY <1>1, <2>1, <2>2, WaitingKept
<1>3. Counting(c)' = Counting(c)
  BY <1>1, CountingSame
<1>4. CASE c # d
  <2>1. conn'[c] = conn[c]
    BY <1>1, <1>4 DEF Destroy, Destroyed
  <2> QED BY <1>2, <1>3, <2>1, BalanceStill
<1>5. CASE c = d /\ Destroy(d)
  <2>1. /\ conn'[c].state = "closing" /\ conn'[c].req = conn[c].req
        /\ conn'[c].reqMt = conn[c].reqMt /\ conn'[c].ack = conn[c].ack
    BY <1>1, <1>5 DEF Destroy, ConnRec
  <2> QED BY <1>2, <1>3, <2>1, BalanceStill
<1>6. CASE c = d /\ Destroyed(d)
  <2>1. /\ conn'[c].state = "gone" /\ conn'[c].req = conn[c].req
        /\ conn'[c].reqMt = conn[c].reqMt /\ conn'[c].ack = conn[c].ack
        /\ conn[c].state = "closing" /\ conn[c].req + conn[c].reqMt = conn[c].ack
    BY <1>1, <1>6 DEF Destroyed, ConnRec
  <2>2. Counting(c) = {}
    BY <2>1 DEF Counting, IInv, PostingOpen
  <2>3. /\ IsFiniteSet(Counting(c)) /\ IsFiniteSet(Waiting(c))
        /\ conn[c].req + conn[c].reqMt + Cardinality(Counting(c))
             = conn[c].ack + Cardinality(Waiting(c))
        /\ conn[c] \in ConnRec
    BY DEF IInv, Balance, Balanced, Types
  <2>4. Cardinality(Counting(c)) = 0 /\ Cardinality(Waiting(c)) \in Nat
    BY <2>2, <2>3, FS_EmptySet, FS_CardinalityType
  <2>5. conn[c].ack \in Nat /\ conn[c].req \in Nat /\ conn[c].reqMt \in Nat
    BY <2>3 DEF ConnRec
  <2>6. Cardinality(Waiting(c)) = 0
    <3>1. conn[c].ack + 0 = conn[c].ack + Cardinality(Waiting(c))
      BY <2>1, <2>3, <2>4
    <3> QED BY <2>4, <2>5, <3>1
  <2>7. Waiting(c) = {}
    BY <2>3, <2>6, FS_EmptySet
  <2> QED BY <1>2, <1>3, <2>1, <2>3, <2>7 DEF Balanced
<1> QED BY <1>4, <1>5, <1>6

(* the steps of a proc that posts and counts nothing                       *)
LEMMA BalancePost ==
  ASSUME IInv, NEW p \in Procs, NEW c \in Conns,
         \/ Register(p) \/ PushFull(p) \/ CountLoad(p) \/ RunStep(p)
         \/ \E d \in Conns, tries \in 1 .. MaxTries : Post(p, d, tries)
  PROVE  Balanced(c)'
<1>1. /\ posted' = posted /\ thr' = thr /\ conn' = conn /\ post \in [Procs -> PostRec]
  BY DEF Register, PushFull, CountLoad, RunStep, Post, history, IInv, Types
<1>2. Waiting(c)' = Waiting(c)
  <2>1. Next
    BY DEF Next, Posting
  <2>2. \A t \in Threads : ~ Execute(t)
    <3>1. \A t \in Threads : Execute(t) => thr[t].pc = "exec" /\ thr'[t].pc = "put"
      BY ThrEffect
    <3> QED BY <1>1, <3>1
  <2> QED BY <1>1, <2>1, <2>2, WaitingKept
<1>3. \A q \in Procs : IsCounted(post'[q], c) <=> IsCounted(post[q], c)
  <2>1. CASE Register(p) \/ RunStep(p)
    <3>1. post' = post
      BY <2>1 DEF Register, RunStep
    <3> QED BY <3>1
  <2>2. ASSUME NEW d \in Conns, NEW tries \in 1 .. MaxTries, Post(p, d, tries)
        PROVE  \A q \in Procs : IsCounted(post'[q], c) <=> IsCounted(post[q], c)
    <3>1. \A q \in Procs : q # p => post'[q] = post[q]
      BY <1>1, <2>2 DEF Post
    <3>2. post[p].pc = "idle" /\ post'[p].pc = "push"
      BY <1>1, <2>2 DEF Post, Free
    <3> QED BY <3>1, <3>2 DEF IsCounted
  <2>3. CASE PushFull(p)
    <3>1. \A q \in Procs : q # p => post'[q] = post[q]
      BY <1>1, <2>3 DEF PushFull
    <3>2. post[p].pc = "push" /\ post'[p].pc \in {"push", "idle"}
      BY <1>1, <2>3 DEF PushFull, PostRec
    <3> QED BY <3>1, <3>2 DEF IsCounted
  <2>4. CASE CountLoad(p)
    <3>1. \A q \in Procs : q # p => post'[q] = post[q]
      BY <1>1, <2>4 DEF CountLoad
    <3>2. post[p].pc = "count" /\ post'[p].pc = "store" /\ post'[p].cmd = post[p].cmd
      BY <1>1, <2>4 DEF CountLoad, PostRec
    <3> QED BY <3>1, <3>2 DEF IsCounted
  <2> QED BY <2>1, <2>2, <2>3, <2>4
<1>4. Counting(c)' = Counting(c)
  BY <1>3, CountingSame
<1> QED BY <1>1, <1>2, <1>4, BalanceStill

LEMMA BalanceNext ==
  ASSUME IInv, Next
  PROVE  Balance'
<1> SUFFICES ASSUME NEW c \in Conns PROVE Balanced(c)'
  BY DEF Balance
<1>1. ASSUME NEW t \in Threads, ThreadStep(t), ~ Execute(t) PROVE Balanced(c)'
  <2>1. post' = post /\ conn' = conn /\ posted' = posted
    BY <1>1 DEF ThreadStep, Pop, PopNone, Put, Flush, NextProc, NextPass, Over, history
  <2>2. \A u \in Threads : ~ Execute(u)
    <3>1. \A u \in Threads : Execute(u) => thr[u].pc = "exec" /\ thr'[u].pc = "put"
      BY ThrEffect
    <3>2. \A u \in Threads : u # t => thr'[u] = thr[u]
      BY <1>1, PopEffect, ThrEffect DEF ThreadStep
    <3> QED BY <1>1, <3>1, <3>2
  <2>3. Waiting(c)' = Waiting(c) /\ Counting(c)' = Counting(c)
    BY <2>1, <2>2, WaitingKept, CountingSame
  <2> QED BY <2>1, <2>3, BalanceStill
<1>2. CASE Stop \/ Join \/ Complete \/ Uninit
  <2>1. post' = post /\ conn' = conn /\ posted' = posted
    BY <1>2, MainSteps DEF StopThread, history
  <2>2. \A u \in Threads : ~ Execute(u)
    <3>1. \A u \in Threads : Execute(u) => thr[u].pc = "exec" /\ thr'[u].pc = "put"
      BY ThrEffect
    <3>2. \A u \in Threads : thr'[u].pc = thr[u].pc
      BY <1>2, MainSteps, StopEffect
    <3> QED BY <3>1, <3>2
  <2>3. Waiting(c)' = Waiting(c) /\ Counting(c)' = Counting(c)
    BY <2>1, <2>2, WaitingKept, CountingSame
  <2> QED BY <2>1, <2>3, BalanceStill
<1> QED
  BY <1>1, <1>2, BalancePush, BalanceCount, BalanceExecute, BalanceDestroy, BalancePost
  DEF Next, Posting

-----------------------------------------------------------------------------
(***************************************************************************)
(* The bound.                                                              *)
(***************************************************************************)
LEMMA ListedIs ==
  /\ Listed \subseteq Procs \X Threads \X Nat
  /\ \A p \in Procs, t \in Threads, i \in Nat :
       <<p, t, i>> \in Listed <=> i \in 1 .. MaxPosts /\ i <= Len(posted[p][t])
BY Consts DEF Listed

LEMMA ListedIsNext ==
  /\ Listed' \subseteq Procs \X Threads \X Nat
  /\ \A p \in Procs, t \in Threads, i \in Nat :
       <<p, t, i>> \in Listed' <=> i \in 1 .. MaxPosts /\ i <= Len(posted'[p][t])
BY Consts DEF Listed

LEMMA BoundNow ==
  ASSUME IInv
  PROVE  /\ IsFiniteSet(Pushing) /\ IsFiniteSet(Listed)
         /\ Cardinality(Pushing) \in Nat /\ Cardinality(Listed) \in Nat
         /\ Cardinality(Pushing) + Cardinality(Listed) <= MaxPosts
         /\ \A p \in Procs, t \in Threads :
              /\ Len(posted[p][t]) \in Nat /\ Len(posted[p][t]) <= Cardinality(Listed)
              /\ Len(posted[p][t]) <= MaxPosts
              /\ before[p][t] \in Nat /\ before[p][t] <= MaxPosts
<1>1. /\ IsFiniteSet(Pushing) /\ IsFiniteSet(Listed)
      /\ Cardinality(Pushing) + Cardinality(Listed) <= MaxPosts
      /\ \A p \in Procs, t \in Threads :
           Len(posted[p][t]) <= Cardinality(Listed) /\ before[p][t] <= MaxPosts
  BY DEF IInv, Bounded
<1>2. Cardinality(Pushing) \in Nat /\ Cardinality(Listed) \in Nat
  BY <1>1, FS_CardinalityType
<1>3. Cardinality(Listed) <= MaxPosts
  BY <1>1, <1>2, Consts
<1>4. ASSUME NEW p \in Procs, NEW t \in Threads
      PROVE  /\ Len(posted[p][t]) \in Nat /\ Len(posted[p][t]) <= MaxPosts
             /\ before[p][t] \in Nat
  <2>1. Len(posted[p][t]) \in Nat /\ before[p][t] \in Nat
    BY Counts DEF IInv, Types, QueueTypes
  <2> DEFINE n == Len(posted[p][t])
             j == Cardinality(Listed)
  <2>2. n \in Nat /\ j \in Nat /\ n <= j /\ j <= MaxPosts /\ MaxPosts \in Nat
    BY <1>1, <1>2, <1>3, <2>1, Consts
  <2> HIDE DEF n, j
  <2>3. n <= MaxPosts
    BY <2>2
  <2> QED BY <2>1, <2>3 DEF n
<1> QED BY <1>1, <1>2, <1>4

LEMMA BoundedPush ==
  ASSUME IInv, NEW p \in Procs, Push(p)
  PROVE  Bounded'
<1> PICK t \in Threads : t = ThreadOf[post[p].cmd.conn]
  BY PushEffect
<1> DEFINE n == Len(posted[p][t])
           i == Cardinality(Pushing)
           j == Cardinality(Listed)
           i1 == Cardinality(Pushing')
           j1 == Cardinality(Listed')
           x == <<p, t, n + 1>>
<1>1. /\ IsFiniteSet(Pushing) /\ IsFiniteSet(Listed)
      /\ i \in Nat /\ j \in Nat /\ n \in Nat /\ MaxPosts \in Nat
      /\ i + j <= MaxPosts /\ n <= j
  BY BoundNow, Consts
<1>2. /\ post \in [Procs -> PostRec] /\ before' = before
      /\ post' = [post EXCEPT ![p].pc = "count"] /\ post[p].pc = "push"
  BY DEF Push, IInv, Types
<1>3. Pushing' = Pushing \ {p} /\ p \in Pushing
  <2>1. post'[p].pc = "count" /\ \A q \in Procs : q # p => post'[q] = post[q]
    BY <1>2 DEF PostRec
  <2> QED BY <1>2, <2>1 DEF Pushing
<1>4. IsFiniteSet(Pushing') /\ i1 \in Nat /\ i = i1 + 1
  <2>1. /\ IsFiniteSet(Pushing \ {p}) /\ Cardinality(Pushing \ {p}) \in Nat
        /\ Cardinality(Pushing) = Cardinality(Pushing \ {p}) + 1
    BY <1>1, <1>3, OneLess
  <2> QED BY <1>3, <2>1
<1>5. /\ Len(posted'[p][t]) = n + 1
      /\ \A q \in Procs, u \in Threads : ~ (q = p /\ u = t) => posted'[q][u] = posted[q][u]
  <2>1. /\ post[p].cmd \in Cmds /\ posted'[p][t] = Append(posted[p][t], post[p].cmd)
        /\ \A q \in Procs, u \in Threads : ~ (q = p /\ u = t) => posted'[q][u] = posted[q][u]
    BY PushEffect
  <2> DEFINE s == posted[p][t]
             e == post[p].cmd
             w == Append(s, e)
  <2>2. s \in Seq(Cmds) /\ e \in Cmds /\ posted'[p][t] = w /\ n = Len(s)
    BY <2>1, Lines
  <2> HIDE DEF s, e, n
  <2>3. Len(w) = Len(s) + 1
    BY <2>2, Appended
  <2> HIDE DEF w
  <2>4. Len(posted'[p][t]) = n + 1
    BY <2>2, <2>3
  <2> QED BY <2>1, <2>4
<1>6. n + 1 \in 1 .. MaxPosts /\ n + 1 \in Nat
  <2> HIDE DEF n, i, j, i1
  <2> QED BY <1>1, <1>4
<1>7. Listed' = Listed \cup {x} /\ x \notin Listed
  <2>1. \A q \in Procs, u \in Threads, k \in Nat :
          <<q, u, k>> \in Listed' <=> <<q, u, k>> \in Listed \cup {x}
    <3> SUFFICES ASSUME NEW q \in Procs, NEW u \in Threads, NEW k \in Nat
                 PROVE  <<q, u, k>> \in Listed' <=> <<q, u, k>> \in Listed \cup {x}
      OBVIOUS
    <3>1. CASE ~ (q = p /\ u = t)
      <4>1. posted'[q][u] = posted[q][u] /\ <<q, u, k>> # x
        BY <1>5, <3>1
      <4> QED BY <4>1, ListedIs, ListedIsNext
    <3>2. CASE q = p /\ u = t
      <4>1. <<p, t, k>> \in Listed' <=> k \in 1 .. MaxPosts /\ k <= n + 1
        <5>1. <<p, t, k>> \in Listed' <=> k \in 1 .. MaxPosts /\ k <= Len(posted'[p][t])
          BY ListedIsNext
        <5> QED BY <1>5, <5>1
      <4>2. <<p, t, k>> \in Listed <=> k \in 1 .. MaxPosts /\ k <= n
        BY ListedIs
      <4>3. <<p, t, k>> = x <=> k = n + 1
        OBVIOUS
      <4> HIDE DEF n, x
      <4>4. k <= n + 1 <=> k <= n \/ k = n + 1
        BY <1>1
      <4> QED BY <1>6, <3>2, <4>1, <4>2, <4>3, <4>4
    <3> QED BY <3>1, <3>2
  <2>2. Listed \cup {x} \subseteq Procs \X Threads \X Nat
    <3>1. x \in Procs \X Threads \X Nat
      BY <1>6
    <3> HIDE DEF x
    <3> QED BY <3>1, ListedIs
  <2>3. x \notin Listed
    <3>1. ~ (n + 1 <= n)
      <4> HIDE DEF n
      <4> QED BY <1>1
    <3> QED BY <1>6, <3>1, ListedIs
  <2> HIDE DEF x
  <2>4. Equal(Listed', Listed \cup {x})
    BY <2>1, <2>2, ListedIsNext, EqualTriples
  <2> QED BY <2>3, <2>4 DEF Equal
<1> HIDE DEF x
<1>8. IsFiniteSet(Listed') /\ j1 = j + 1
  BY <1>1, <1>7, OneMore
<1>9. i1 + j1 <= MaxPosts
  <2> HIDE DEF i, j, i1, j1
  <2> QED BY <1>1, <1>4, <1>8
<1>10. ASSUME NEW q \in Procs, NEW u \in Threads
       PROVE  Len(posted'[q][u]) <= j1 /\ before'[q][u] <= MaxPosts
  <2>1. before'[q][u] <= MaxPosts
    BY <1>2, BoundNow
  <2>2. CASE q = p /\ u = t
    <3> HIDE DEF n, j, j1
    <3> QED BY <1>1, <1>5, <1>8, <2>1, <2>2
  <2>3. CASE ~ (q = p /\ u = t)
    <3>1. Len(posted'[q][u]) = Len(posted[q][u]) /\ Len(posted[q][u]) \in Nat
          /\ Len(posted[q][u]) <= j
      BY <1>5, <2>3, BoundNow
    <3> HIDE DEF j, j1
    <3> QED BY <1>1, <1>8, <2>1, <3>1
  <2> QED BY <2>2, <2>3
<1> QED BY <1>4, <1>8, <1>9, <1>10 DEF Bounded

LEMMA BoundedNext ==
  ASSUME IInv, Next
  PROVE  Bounded'
<1>0. /\ IsFiniteSet(Pushing) /\ IsFiniteSet(Listed)
      /\ Cardinality(Pushing) \in Nat /\ Cardinality(Listed) \in Nat
      /\ Cardinality(Pushing) + Cardinality(Listed) <= MaxPosts
      /\ post \in [Procs -> PostRec] /\ MaxPosts \in Nat
  BY BoundNow, Consts DEF IInv, Types
<1>1. ASSUME posted' = posted, IsFiniteSet(Pushing'),
             Cardinality(Pushing') + Cardinality(Listed) <= MaxPosts
      PROVE  Bounded'
  <2>1. Listed' = Listed
    BY <1>1 DEF Listed
  <2>2. \A p \in Procs, t \in Threads :
          Len(posted'[p][t]) <= Cardinality(Listed') /\ before'[p][t] <= MaxPosts
    <3> SUFFICES ASSUME NEW p \in Procs, NEW t \in Threads
                 PROVE  /\ Len(posted'[p][t]) <= Cardinality(Listed')
                        /\ before'[p][t] <= MaxPosts
      OBVIOUS
    <3>1. Len(posted'[p][t]) <= Cardinality(Listed')
      BY <1>1, <2>1, BoundNow
    <3>2. before'[p][t] = before[p][t] \/ before'[p][t] = Len(posted[p][t])
      <4>1. ASSUME NEW k \in Threads, NEW back \in {"drain", "gone"}, StopThread(k, back)
            PROVE  before'[p][t] = before[p][t] \/ before'[p][t] = Len(posted[p][t])
        <5>1. before'[p] = [before[p] EXCEPT ![k] = Len(posted[p][k])]
          BY <4>1 DEF StopThread
        <5>2. before[p] \in [Threads -> Nat]
          BY DEF IInv, Types, QueueTypes
        <5> QED BY <5>1, <5>2
      <4> QED BY <4>1, BeforeKept
    <3> QED BY <3>1, <3>2, BoundNow
  <2> QED BY <1>0, <1>1, <2>1, <2>2 DEF Bounded
<1>2. ASSUME posted' = posted, Pushing' = Pushing PROVE Bounded'
  BY <1>0, <1>1, <1>2
<1>3. ASSUME NEW p \in Procs, NEW c \in Conns, NEW tries \in 1 .. MaxTries, Post(p, c, tries)
      PROVE  Bounded'
  <2>1. Cardinality(Pushing) + Cardinality(Listed) < MaxPosts
    BY <1>3 DEF Post, Posts, Pushing, Listed
  <2>2. posted' = posted /\ Pushing' = Pushing \cup {p} /\ p \notin Pushing
    <3>1. /\ posted' = posted /\ post[p].pc = "idle" /\ post'[p].pc = "push"
          /\ \A q \in Procs : q # p => post'[q] = post[q]
      BY <1>0, <1>3 DEF Post, Free, history
    <3> QED BY <3>1 DEF Pushing
  <2>3. /\ IsFiniteSet(Pushing \cup {p})
        /\ Cardinality(Pushing \cup {p}) = Cardinality(Pushing) + 1
    BY <1>0, <2>2, OneMore
  <2>4. IsFiniteSet(Pushing') /\ Cardinality(Pushing') = Cardinality(Pushing) + 1
    BY <2>2, <2>3
  <2>5. Cardinality(Pushing') + Cardinality(Listed) <= MaxPosts
    <3> DEFINE i == Cardinality(Pushing)
               j == Cardinality(Listed)
               i1 == Cardinality(Pushing')
    <3>1. i \in Nat /\ j \in Nat /\ i + j < MaxPosts /\ i1 = i + 1 /\ MaxPosts \in Nat
      BY <1>0, <2>1, <2>4
    <3> HIDE DEF i, j, i1
    <3>2. i1 + j <= MaxPosts
      BY <3>1
    <3> QED BY <3>2 DEF i1, j
  <2> QED BY <1>1, <2>2, <2>4, <2>5
<1>4. ASSUME NEW p \in Procs, PushFull(p) PROVE Bounded'
  <2>1. /\ posted' = posted /\ post[p].pc = "push"
        /\ \A q \in Procs : q # p => post'[q] = post[q]
    BY <1>0, <1>4 DEF PushFull, history
  <2>2. CASE post'[p].pc = "push"
    <3>1. Pushing' = Pushing
      BY <2>1, <2>2 DEF Pushing
    <3> QED BY <1>2, <2>1, <3>1
  <2>3. CASE post'[p].pc # "push"
    <3>1. Pushing' = Pushing \ {p} /\ p \in Pushing
      BY <2>1, <2>3 DEF Pushing
    <3>2. /\ IsFiniteSet(Pushing \ {p}) /\ Cardinality(Pushing \ {p}) \in Nat
          /\ Cardinality(Pushing) = Cardinality(Pushing \ {p}) + 1
      BY <1>0, <3>1, OneLess
    <3>3. /\ IsFiniteSet(Pushing') /\ Cardinality(Pushing') \in Nat
          /\ Cardinality(Pushing) = Cardinality(Pushing') + 1
      BY <3>1, <3>2
    <3>4. Cardinality(Pushing') + Cardinality(Listed) <= MaxPosts
      <4> DEFINE i == Cardinality(Pushing)
                 j == Cardinality(Listed)
                 i1 == Cardinality(Pushing')
      <4>1. i1 \in Nat /\ j \in Nat /\ i + j <= MaxPosts /\ i = i1 + 1 /\ MaxPosts \in Nat
        BY <1>0, <3>3
      <4> HIDE DEF i, j, i1
      <4>2. i1 + j <= MaxPosts
        BY <4>1
      <4> QED BY <4>2 DEF i1, j
    <3> QED BY <1>1, <2>1, <3>3, <3>4
  <2> QED BY <2>2, <2>3
<1>5. ASSUME NEW p \in Procs, CountLoad(p) \/ CountStore(p) \/ CountOther(p) PROVE Bounded'
  <2>1. /\ posted' = posted /\ post[p].pc # "push" /\ post'[p].pc # "push"
        /\ \A q \in Procs : q # p => post'[q] = post[q]
    <3>1. CASE CountLoad(p)
      BY <1>0, <3>1 DEF CountLoad, history, PostRec
    <3>2. CASE CountStore(p)
      BY <1>0, <3>2 DEF CountStore, history, PostRec
    <3>3. CASE CountOther(p)
      BY <1>0, <3>3 DEF CountOther, history, PostRec
    <3> QED BY <1>5, <3>1, <3>2, <3>3
  <2>2. Pushing' = Pushing
    BY <2>1 DEF Pushing
  <2> QED BY <1>2, <2>1, <2>2
<1>6. ASSUME NEW p \in Procs, Register(p) \/ RunStep(p) PROVE posted' = posted /\ post' = post
  BY <1>6 DEF Register, RunStep, history
<1>7. ASSUME NEW t \in Threads, ThreadStep(t) PROVE posted' = posted /\ post' = post
  BY <1>7 DEF ThreadStep, Pop, PopNone, Execute, Put, Flush, NextProc, NextPass, Over, history
<1>8. CASE Stop \/ Join \/ Complete \/ Uninit
  <2>1. posted' = posted /\ post' = post
    BY <1>8, MainSteps DEF StopThread, history
  <2> QED BY <1>2, <2>1 DEF Pushing
<1>9. ASSUME NEW c \in Conns, Destroy(c) \/ Destroyed(c) PROVE posted' = posted /\ post' = post
  BY <1>9 DEF Destroy, Destroyed, history
<1>10. ASSUME posted' = posted, post' = post PROVE Bounded'
  BY <1>2, <1>10 DEF Pushing
<1> QED
  BY <1>3, <1>4, <1>5, <1>6, <1>7, <1>8, <1>9, <1>10, BoundedPush DEF Next, Posting

-----------------------------------------------------------------------------
(***************************************************************************)
(* The invariant holds, and what follows from it.                          *)
(***************************************************************************)
LEMMA InvInit ==
  ASSUME Init
  PROVE  IInv
<1> DEFINE none == [p \in Procs |-> [t \in Threads |-> <<>>]]
<1>1. none \in Queues
  <2>1. <<>> \in Seq(Cmds)
    BY EmptySeq
  <2> QED BY <2>1 DEF Queues
<1>2. /\ cmdQ = none /\ retQ = none /\ cache = none /\ posted = none /\ done = none
  BY DEF Init
<1>3. /\ \A p \in Procs, t \in Threads :
           /\ cmdQ[p][t] = <<>> /\ retQ[p][t] = <<>> /\ cache[p][t] = <<>>
           /\ posted[p][t] = <<>> /\ done[p][t] = <<>>
  BY <1>2
<1>4. \A t \in Threads :
        thr[t] = [run |-> TRUE, ending |-> FALSE, pc |-> "visit",
                  rest |-> <<>>, cmd |-> NoCmd, busy |-> FALSE]
  BY DEF Init
<1>5. Types
  <2>1. list \in Seq(Procs)
    BY Consts DEF Init
  <2>2. thr \in [Threads -> ThrRec]
    <3>1. <<>> \in Seq(Procs)
      BY EmptySeq
    <3> QED BY <3>1 DEF Init, ThrRec
  <2>3. idx \in [Procs -> Threads]
    BY Consts DEF Init
  <2>4. post \in [Procs -> PostRec]
    BY DEF Init, PostRec
  <2>5. conn \in [Conns -> ConnRec]
    BY DEF Init, ConnRec
  <2>6. main \in MainRec
    BY Consts DEF Init, MainRec
  <2>7. before \in [Procs -> [Threads -> Nat]]
    BY Consts DEF Init
  <2> QED BY <1>1, <1>2, <2>1, <2>2, <2>3, <2>4, <2>5, <2>6, <2>7 DEF Types, QueueTypes
<1>6. Room
  BY <1>3, Consts DEF Room
<1>7. \A p \in Procs, t \in Threads : Held(p, t) = <<>>
  BY <1>4 DEF Held
<1>8. InOrder
  <2> SUFFICES ASSUME NEW p \in Procs, NEW t \in Threads
               PROVE  posted[p][t] = done[p][t] \o retQ[p][t] \o cache[p][t]
                                       \o Held(p, t) \o cmdQ[p][t]
    BY DEF InOrder
  <2> DEFINE e == <<>>
  <2>1. e \o e = e
    OBVIOUS
  <2>2. e \o e \o e \o e \o e = e
    <3> HIDE DEF e
    <3> QED BY <2>1
  <2> QED BY <1>3, <1>7, <2>2
<1>9. Working
  BY <1>4 DEF Working
<1>10. PostingOpen /\ Unused /\ OneClosing
  BY <1>3 DEF Init, PostingOpen, Unused, OneClosing
<1>11. JoinedInTurn /\ Answered
  BY <1>4 DEF Init, JoinedInTurn, Answered, BeforeStop, AfterStop
<1>12. LastPass
  BY <1>4 DEF LastPass
<1>13. Balance
  <2> SUFFICES ASSUME NEW c \in Conns PROVE Balanced(c)
    BY DEF Balance
  <2>1. Counting(c) = {}
    BY DEF Init, Counting
  <2>2. Waiting(c) = {}
    <3>1. \A p \in Procs, t \in Threads, i \in Nat : <<p, t, i>> \notin Waiting(c)
      <4> SUFFICES ASSUME NEW p \in Procs, NEW t \in Threads, NEW i \in Nat,
                          <<p, t, i>> \in Waiting(c)
                   PROVE  FALSE
        OBVIOUS
      <4>1. Ran(p, t) < i /\ i <= Len(posted[p][t])
        BY WaitingIs
      <4>2. Len(posted[p][t]) = 0 /\ Len(cmdQ[p][t]) = 0 /\ thr[t].pc = "visit"
        BY <1>3, <1>4
      <4>3. Ran(p, t) = 0
        BY <4>2 DEF Ran, Executed
      <4> QED BY <4>1, <4>2, <4>3
    <3>2. Waiting(c) \subseteq Procs \X Threads \X Nat
      BY WaitingIs
    <3>3. \A p \in Procs, t \in Threads, i \in Nat : <<p, t, i>> \in Waiting(c) <=> <<p, t, i>> \in {}
      BY <3>1
    <3>4. Equal(Waiting(c), {})
      BY <3>2, <3>3, EqualTriples
    <3> QED BY <3>4 DEF Equal
  <2>3. /\ conn[c].state = "open" /\ conn[c].req = 0 /\ conn[c].reqMt = 0 /\ conn[c].ack = 0
    BY DEF Init
  <2> QED BY <2>1, <2>2, <2>3, FS_EmptySet DEF Balanced
<1>14. Bounded
  <2>1. Pushing = {}
    BY DEF Init, Pushing
  <2>2. Listed = {}
    <3>1. \A p \in Procs, t \in Threads, i \in Nat : <<p, t, i>> \in Listed <=> <<p, t, i>> \in {}
      <4> SUFFICES ASSUME NEW p \in Procs, NEW t \in Threads, NEW i \in Nat
                   PROVE  <<p, t, i>> \notin Listed
        OBVIOUS
      <4>1. Len(posted[p][t]) = 0
        BY <1>3
      <4> QED BY <4>1, ListedIs
    <3>2. Equal(Listed, {})
      BY <3>1, ListedIs, EqualTriples
    <3> QED BY <3>2 DEF Equal
  <2>3. \A p \in Procs, t \in Threads : Len(posted[p][t]) = 0 /\ before[p][t] = MaxPosts
    BY <1>3 DEF Init
  <2> QED BY <2>1, <2>2, <2>3, FS_EmptySet, Consts DEF Bounded
<1> QED
  BY <1>5, <1>6, <1>8, <1>9, <1>10, <1>11, <1>12, <1>13, <1>14 DEF IInv

LEMMA InvNext ==
  ASSUME IInv, [Next]_vars
  PROVE  IInv'
<1>1. CASE Next
  <2>1. Types' /\ Room' /\ InOrder'
    BY <1>1, TypesNext, RoomNext, OrderNext
  <2>2. Working' /\ PostingOpen' /\ Unused' /\ OneClosing'
    BY <1>1, WorkingNext, PostingOpenNext, UnusedNext, OneClosingNext
  <2>3. JoinedInTurn' /\ Answered' /\ LastPass'
    BY <1>1, JoinedInTurnNext, AnsweredNext, LastPassNext
  <2>4. Balance' /\ Bounded'
    BY <1>1, BalanceNext, BoundedNext
  <2> QED BY <2>1, <2>2, <2>3, <2>4 DEF IInv
<1>2. CASE UNCHANGED vars
  <2>1. QueueTypes' = QueueTypes /\ (Types' <=> Types) /\ (Room' <=> Room)
        /\ (InOrder' <=> InOrder) /\ (Working' <=> Working)
    BY <1>2 DEF vars, queues, history, QueueTypes, Types, Room, InOrder, Held, Visited, Working
  <2>2. /\ PostingOpen' <=> PostingOpen
        /\ Unused' <=> Unused
        /\ OneClosing' <=> OneClosing
    BY <1>2 DEF vars, history, PostingOpen, Registered, Unused, OneClosing
  <2>3. /\ JoinedInTurn' <=> JoinedInTurn
        /\ Answered' <=> Answered
    BY <1>2 DEF vars, history, JoinedInTurn, BeforeStop, AfterStop, Answered
  <2>4. LastPass' <=> LastPass
    BY <1>2 DEF vars, queues, history, LastPass, Served, Executed, Visited
  <2>5. Balance' <=> Balance
    BY <1>2
    DEF vars, queues, history, Balance, Balanced, Counting, Waiting, Ran, Executed, Visited
  <2>6. Bounded' <=> Bounded
    BY <1>2 DEF vars, history, Bounded, Pushing, Listed
  <2> QED BY <2>1, <2>2, <2>3, <2>4, <2>5, <2>6 DEF IInv
<1> QED BY <1>1, <1>2

LEMMA Invariance == Spec => []IInv
<1>1. Init => IInv
  BY InvInit
<1>2. IInv /\ [Next]_vars => IInv'
  BY InvNext
<1> QED BY <1>1, <1>2, PTL DEF Spec

(* Types, rooms of the queues and positions are what TypeOK says, for any  *)
(* number of procs, threads, connections and commands.                     *)
THEOREM TypeCorrect == Spec => []TypeOK
<1>1. ASSUME IInv PROVE TypeOK
  <2>1. /\ Types /\ Room
    BY <1>1 DEF IInv
  <2>2. ASSUME NEW p \in Procs, NEW t \in Threads PROVE before[p][t] \in 0 .. MaxPosts
    <3> DEFINE b == before[p][t]
    <3>1. b \in Nat /\ b <= MaxPosts
      BY <1>1, BoundNow
    <3>2. MaxPosts \in Nat
      BY Consts
    <3> HIDE DEF b
    <3>3. b \in 0 .. MaxPosts
      BY <3>1, <3>2
    <3> QED BY <3>3 DEF b
  <2>3. Registered \subseteq Procs
    <3>1. list \in Seq(Procs)
      BY <2>1 DEF Types, QueueTypes
    <3> QED BY <3>1 DEF Registered
  <2> QED
    BY <2>1, <2>2, <2>3 DEF Types, Room, TypeOK, ThrRec, PostRec, ConnRec, MainRec
<1> QED BY <1>1, Invariance, PTL

(* The results come back in the order of the commands, each of them once,  *)
(* and none is lost between the two rings and the cache.                   *)
THEOREM ResultsInOrder == Spec => []InOrder
<1>1. IInv => InOrder
  BY DEF IInv
<1> QED BY <1>1, Invariance, PTL

(* A connection that was freed is in no command queue, and no db thread    *)
(* executes a command on it: the counters were equal only when everything  *)
(* posted on it was executed.                                              *)
THEOREM FreedIsUnused == Spec => []NoDanglingConnection
<1>1. ASSUME IInv PROVE NoDanglingConnection
  <2> SUFFICES ASSUME NEW c \in Conns, conn[c].state = "gone", NEW p \in Procs, NEW t \in Threads
               PROVE  /\ \A i \in 1 .. Len(cmdQ[p][t]) : cmdQ[p][t][i].conn # c
                      /\ thr[t].pc = "exec" => thr[t].cmd.conn # c
    BY DEF NoDanglingConnection
  <2>1. Waiting(c) = {}
    BY <1>1 DEF IInv, Balance, Balanced
  <2>2. \A q \in Procs, i \in Nat :
          ~ (Ran(q, t) < i /\ i <= Len(posted[q][t]) /\ posted[q][t][i].conn = c)
    BY <2>1, WaitingIs
  <2>3. ASSUME NEW i \in 1 .. Len(cmdQ[p][t]) PROVE cmdQ[p][t][i].conn # c
    <3> DEFINE e == Executed(p, t)
               r == Ran(p, t)
               k == Len(cmdQ[p][t])
               n == Len(posted[p][t])
    <3>1. /\ e \in Nat /\ r \in Nat /\ k \in Nat /\ n \in Nat /\ r <= e /\ n = e + k
          /\ posted[p][t][e + i] = cmdQ[p][t][i]
      BY <1>1, Counts, RanBounds
    <3>2. e + i \in Nat /\ r < e + i /\ e + i <= n
      <4>1. i \in 1 .. k
        OBVIOUS
      <4> HIDE DEF e, r, k, n
      <4> QED BY <3>1, <4>1
    <3> QED BY <2>2, <3>1, <3>2
  <2>4. ASSUME thr[t].pc = "exec" PROVE thr[t].cmd.conn # c
    <3> PICK q \in Procs : q = Visited(t)
      BY <1>1, <2>4, TakeHead DEF IInv, Working
    <3> DEFINE e == Executed(q, t)
               k == Len(cmdQ[q][t])
               n == Len(posted[q][t])
    <3>1. HeldBy(thr[t], q) = <<thr[t].cmd>> /\ thr[t].cmd \in Cmds
      BY <1>1, <2>4 DEF HeldBy, Visited, IInv, Working
    <3>2. e \in Nat /\ k \in Nat /\ n = e + k /\ posted[q][t][e] = thr[t].cmd
      BY <1>1, <3>1, Counts
    <3>3. Ran(q, t) = e - 1
      BY <2>4 DEF Ran, Visited
    <3>4. e - 1 < e /\ e <= n
      <4> HIDE DEF e, k, n
      <4> QED BY <3>2
    <3> QED BY <2>2, <3>2, <3>3, <3>4
  <2> QED BY <2>3, <2>4
<1> QED BY <1>1, Invariance, PTL

(* A db thread that has ended has executed what was posted before its stop *)
(* and left nothing in a cache; when the stop is complete, Main has had    *)
(* every answer that it asked for before.                                  *)
THEOREM NothingLeftByStop == Spec => []StopComplete
<1>1. ASSUME IInv PROVE StopComplete
  <2>1. \A p \in Procs, t \in Threads : thr[t].pc = "over" =>
          Executed(p, t) >= before[p][t] /\ cache[p][t] = <<>>
    BY <1>1, OverDone DEF Served
  <2>2. main.pc = "done" => \A t \in Threads : Len(done[Main][t]) >= before[Main][t]
    BY <1>1 DEF IInv, Answered, AfterStop
  <2> QED BY <2>1, <2>2 DEF StopComplete
<1> QED BY <1>1, Invariance, PTL
=============================================================================
