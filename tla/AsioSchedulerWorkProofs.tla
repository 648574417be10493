---------------------- MODULE AsioSchedulerWorkProofs ----------------------
(***************************************************************************)
(* More theorems about AsioScheduler: an operation is in one place at a    *)
(* time, the work is counted exactly, an io_context with work that never   *)
(* ends stops only when told, no operation waits while a thread sleeps     *)
(* that could run it, and the state has its types.                         *)
(***************************************************************************)
EXTENDS AsioSchedulerProofs

-----------------------------------------------------------------------------
(* Queues without a repetition, and queues with nothing in common.         *)

Distinct(q) == \A m, n \in 1 .. Len(q) : q[m] = q[n] => m = n

Apart(q, r) == \A m \in 1 .. Len(q), n \in 1 .. Len(r) : q[m] # r[n]

LEMMA ApartFlips ==
  ASSUME NEW q, NEW r, Apart(q, r)
  PROVE  Apart(r, q)
BY DEF Apart

LEMMA EmptyApart == \A q : Apart(q, << >>) /\ Apart(<< >>, q) /\ Distinct(<< >>)
BY DEF Apart, Distinct

LEMMA SingleFacts ==
  ASSUME NEW S, NEW i \in S
  PROVE  /\ << i >> \in Seq(S) /\ Distinct(<< i >>)
         /\ \A q : Lacks(q, i) => Apart(q, << i >>)
         /\ \A j : j # i => Lacks(<< i >>, j)
<1>1. << i >> \in Seq(S) /\ Len(<< i >>) = 1 /\ << i >>[1] = i
  OBVIOUS
<1>2. \A n \in 1 .. Len(<< i >>) : n = 1
  BY <1>1
<1> QED
  BY <1>1, <1>2 DEF Distinct, Apart, Lacks

LEMMA ConcatApart ==
  ASSUME NEW S, NEW q \in Seq(S), NEW r \in Seq(S), NEW x,
         Apart(q, x), Apart(r, x)
  PROVE  Apart(q \o r, x)
<1> SUFFICES ASSUME NEW m \in 1 .. Len(q \o r), NEW n \in 1 .. Len(x)
             PROVE  (q \o r)[m] # x[n]
  BY DEF Apart
<1> QED
  BY ConcatPlaces DEF Apart

LEMMA ConcatDistinct ==
  ASSUME NEW S, NEW q \in Seq(S), NEW r \in Seq(S),
         Distinct(q), Distinct(r), Apart(q, r)
  PROVE  Distinct(q \o r)
<1> SUFFICES ASSUME NEW m \in 1 .. Len(q \o r), NEW n \in 1 .. Len(q \o r),
                    (q \o r)[m] = (q \o r)[n]
             PROVE  m = n
  BY DEF Distinct
<1>0. Len(q) \in Nat /\ m \in Int /\ n \in Int
  BY ConcatFacts
<1>1. \/ m \in 1 .. Len(q) /\ (q \o r)[m] = q[m]
      \/ m - Len(q) \in 1 .. Len(r) /\ (q \o r)[m] = r[m - Len(q)]
  BY ConcatPlaces
<1>2. \/ n \in 1 .. Len(q) /\ (q \o r)[n] = q[n]
      \/ n - Len(q) \in 1 .. Len(r) /\ (q \o r)[n] = r[n - Len(q)]
  BY ConcatPlaces
<1>3. CASE m \in 1 .. Len(q) /\ n \in 1 .. Len(q)
  BY <1>1, <1>2, <1>3, ConcatFacts DEF Distinct
<1>4. CASE m \notin 1 .. Len(q) /\ n \notin 1 .. Len(q)
  <2>1. m - Len(q) = n - Len(q)
    BY <1>1, <1>2, <1>4 DEF Distinct
  <2> QED
    BY <1>0, <2>1
<1>5. CASE m \in 1 .. Len(q) /\ n \notin 1 .. Len(q)
  BY <1>1, <1>2, <1>5, ConcatFacts DEF Apart
<1>6. CASE m \notin 1 .. Len(q) /\ n \in 1 .. Len(q)
  BY <1>1, <1>2, <1>6, ConcatFacts DEF Apart
<1> QED
  BY <1>3, <1>4, <1>5, <1>6

LEMMA TailApart ==
  ASSUME NEW S, NEW q \in Seq(S), q # << >>, NEW x, Apart(q, x)
  PROVE  Apart(Tail(q), x)
BY TailFacts DEF Apart

LEMMA TailDistinct ==
  ASSUME NEW S, NEW q \in Seq(S), q # << >>, Distinct(q)
  PROVE  Distinct(Tail(q)) /\ Lacks(Tail(q), Head(q))
<1>1. ASSUME NEW m \in 1 .. Len(Tail(q)), NEW n \in 1 .. Len(Tail(q)),
             Tail(q)[m] = Tail(q)[n]
      PROVE  m = n
  <2>1. /\ m + 1 \in 1 .. Len(q) /\ Tail(q)[m] = q[m + 1]
        /\ n + 1 \in 1 .. Len(q) /\ Tail(q)[n] = q[n + 1]
    BY TailFacts
  <2>2. m + 1 = n + 1
    BY <1>1, <2>1 DEF Distinct
  <2> QED
    BY <2>2
<1>2. ASSUME NEW m \in 1 .. Len(Tail(q)), Tail(q)[m] = Head(q)
      PROVE  FALSE
  <2>1. m + 1 \in 1 .. Len(q) /\ q[m + 1] = q[1] /\ 1 \in 1 .. Len(q)
    BY <1>2, TailFacts
  <2>2. m + 1 = 1
    BY <2>1 DEF Distinct
  <2> QED
    BY <2>2
<1> QED
  BY <1>1, <1>2 DEF Distinct, Lacks

\* What holds of the items of two queues holds of those of both.
LEMMA TailItems ==
  ASSUME NEW S, NEW q \in Seq(S), q # << >>
  PROVE  \A n \in 1 .. Len(Tail(q)) : \E m \in 1 .. Len(q) : Tail(q)[n] = q[m]
BY TailFacts

LEMMA ConcatItems ==
  ASSUME NEW S, NEW q \in Seq(S), NEW r \in Seq(S)
  PROVE  \A n \in 1 .. Len(q \o r) :
           \/ \E m \in 1 .. Len(q) : (q \o r)[n] = q[m]
           \/ \E m \in 1 .. Len(r) : (q \o r)[n] = r[m]
BY ConcatPlaces

-----------------------------------------------------------------------------
(* Where operations are.                                                   *)

LEMMA ItemKinds ==
  /\ \A g, h \in Op : Post(g) = Post(h) => g = h
  /\ \A r, s \in Sock : Read(r) = Read(s) => r = s
  /\ \A i \in Item : \/ i = Task
                     \/ i.kind = "post" /\ \E h \in Op : i = Post(h)
                     \/ i.kind = "desc" /\ \E s \in Sock : i = Desc(s)
                     \/ i.kind = "read" /\ \E s \in Sock : i = Read(s)
  /\ \A h \in Op : /\ Post(h) # Task /\ Post(h).kind = "post"
                   /\ \A s \in Sock : Post(h) # Read(s)
  /\ \A s \in Sock : Read(s) # Task
BY DEF Task, Item, Post, Desc, Read

\* The thread calls a handler, or signals first.
InHandler(t) == pc[t] = "handler" \/ (pc[t] = "signal" /\ then[t] = "handler")

\* No item is in two places of the queue and the threads' own queues.
Once ==
  /\ Distinct(queue)
  /\ \A t \in Runner : Distinct(mine[t]) /\ Apart(queue, mine[t])
  /\ \A t, v \in Runner : t # v => Apart(mine[t], mine[v])

\* What is in a queue has been posted, or is a read that is complete.
Fits(i) ==
  /\ \A h \in Op : i = Post(h) => ops[h] = "posted"
  /\ \A s \in Sock : i = Read(s) => reading[s] = "done"

Known ==
  /\ \A n \in 1 .. Len(queue) : Fits(queue[n])
  /\ \A t \in Runner : \A n \in 1 .. Len(mine[t]) :
       Fits(mine[t][n]) /\ mine[t][n].kind # "read"

\* The reactor is behind the descriptors it found.
InFront ==
  \A n \in 1 .. Len(queue) : queue[n].kind = "desc" =>
    \E m \in 1 .. Len(queue) : m > n /\ queue[m] = Task

\* What a thread runs, and what it has to add to the count of the work.
ThreadOK(t) ==
  /\ InHandler(t) => cur[t].kind \in {"post", "read"}
  /\ \A h \in Op : InHandler(t) /\ cur[t] = Post(h) => ops[h] = "running"
  /\ pc[t] = "cleanup" => cur[t].kind = "desc"
  /\ private[t] = IF InHandler(t) THEN Len(mine[t])
                  ELSE IF pc[t] = "cleanup" THEN 1 ELSE 0
  /\ mine[t] # << >> => InHandler(t) \/ pc[t] \in {"flush", "returned", "stop"}

Unshared ==
  \A t, v \in Runner : \A h \in Op :
    InHandler(t) /\ InHandler(v) /\ cur[t] = Post(h) /\ cur[v] = Post(h)
      => t = v

OpTypes ==
  /\ ops \in [Op -> {"new", "posted", "running", "done"}]
  /\ private \in [Runner -> Nat]

Placed ==
  OpTypes /\ Once /\ Known /\ InFront /\ Unshared /\ \A t \in Runner : ThreadOK(t)

-----------------------------------------------------------------------------
(* What changes of the queues keep.                                        *)

LEMMA OnceTail ==
  ASSUME Control, Once, queue # << >>, queue' = Tail(queue), mine' = mine
  PROVE  Once'
BY TailDistinct, TailApart DEF Once, Control, Types

LEMMA OncePush ==
  ASSUME Control, Once, NEW i \in Item, queue' = queue \o << i >>,
         Lacks(queue, i), \A t \in Runner : Lacks(mine[t], i), mine' = mine
  PROVE  Once'
<1>1. queue \in Seq(Item) /\ << i >> \in Seq(Item)
  BY SingleFacts DEF Control, Types
<1>2. Distinct(queue')
  BY <1>1, SingleFacts, ConcatDistinct DEF Once
<1>3. ASSUME NEW t \in Runner
      PROVE  Apart(queue', mine'[t])
  <2>1. Apart(<< i >>, mine[t])
    BY SingleFacts, ApartFlips
  <2> QED
    BY <1>1, <2>1, ConcatApart DEF Once
<1> QED
  BY <1>2, <1>3 DEF Once

LEMMA OnceMove ==
  ASSUME Control, Once, NEW t \in Runner,
         mine' = [mine EXCEPT ![t] = << >>]
  PROVE  LET q == queue \o mine[t]
         IN  /\ q \in Seq(Item) /\ Distinct(q)
             /\ \A v \in Runner : Distinct(mine'[v]) /\ Apart(q, mine'[v])
             /\ \A v, w \in Runner : v # w => Apart(mine'[v], mine'[w])
<1> DEFINE q == queue \o mine[t]
<1>1. /\ queue \in Seq(Item) /\ mine[t] \in Seq(Item)
      /\ mine'[t] = << >> /\ \A v \in Runner \ {t} : mine'[v] = mine[v]
  BY DEF Control, Types
<1>2. q \in Seq(Item) /\ Distinct(q)
  BY <1>1, ConcatFacts, ConcatDistinct DEF Once
<1>3. ASSUME NEW v \in Runner
      PROVE  Distinct(mine'[v]) /\ Apart(q, mine'[v])
  <2>1. CASE v = t
    BY <1>1, <2>1, EmptyApart
  <2>2. CASE v # t
    <3>1. mine'[v] = mine[v]
      BY <1>1, <2>2
    <3> QED
      BY <1>1, <2>2, <3>1, ConcatApart DEF Once
  <2> QED
    BY <2>1, <2>2
<1>4. ASSUME NEW v \in Runner, NEW w \in Runner, v # w
      PROVE  Apart(mine'[v], mine'[w])
  <2>1. CASE v = t \/ w = t
    BY <1>1, <2>1, EmptyApart
  <2>2. CASE v # t /\ w # t
    BY <1>1, <1>4, <2>2 DEF Once
  <2> QED
    BY <2>1, <2>2
<1> QED
  BY <1>2, <1>3, <1>4

\* A thread's own queue may become another one, apart from all the others.
LEMMA OnceOwn ==
  ASSUME Control, Once, NEW t \in Runner, queue' = queue,
         \A v \in Runner \ {t} : mine'[v] = mine[v],
         Distinct(mine'[t]), Apart(queue, mine'[t]),
         \A v \in Runner \ {t} : Apart(mine'[t], mine[v])
  PROVE  Once'
<1>1. ASSUME NEW v \in Runner, NEW w \in Runner, v # w
      PROVE  Apart(mine'[v], mine'[w])
  <2>1. CASE v = t
    BY <1>1, <2>1
  <2>2. CASE w = t
    BY <1>1, <2>2, ApartFlips
  <2>3. CASE v # t /\ w # t
    BY <1>1, <2>3 DEF Once
  <2> QED
    BY <2>1, <2>2, <2>3
<1>2. ASSUME NEW v \in Runner
      PROVE  Distinct(mine'[v]) /\ Apart(queue', mine'[v])
  BY DEF Once
<1> QED
  BY <1>1, <1>2 DEF Once

LEMMA InFrontConcat ==
  ASSUME Control, InFront, NEW r \in Seq(Item), queue' = queue \o r,
         \A n \in 1 .. Len(r) : r[n].kind # "desc"
  PROVE  InFront'
<1> SUFFICES ASSUME NEW n \in 1 .. Len(queue'), queue'[n].kind = "desc"
             PROVE  \E m \in 1 .. Len(queue') : m > n /\ queue'[m] = Task
  BY DEF InFront
<1>1. queue \in Seq(Item)
  BY DEF Control, Types
<1>2. n \in 1 .. Len(queue) /\ queue'[n] = queue[n]
  BY <1>1, ConcatPlaces
<1>3. PICK m \in 1 .. Len(queue) : m > n /\ queue[m] = Task
  BY <1>2 DEF InFront
<1>4. m \in 1 .. Len(queue') /\ queue'[m] = Task
  BY <1>1, <1>3, ConcatFacts
<1> QED
  BY <1>3, <1>4

LEMMA InFrontTail ==
  ASSUME Control, InFront, queue # << >>, Head(queue) # Task,
         queue' = Tail(queue)
  PROVE  InFront'
<1> SUFFICES ASSUME NEW n \in 1 .. Len(queue'), queue'[n].kind = "desc"
             PROVE  \E m \in 1 .. Len(queue') : m > n /\ queue'[m] = Task
  BY DEF InFront
<1>1. queue \in Seq(Item)
  BY DEF Control, Types
<1>2. n + 1 \in 1 .. Len(queue) /\ queue[n + 1] = queue'[n]
  BY <1>1, TailFacts
<1>3. PICK m \in 1 .. Len(queue) : m > n + 1 /\ queue[m] = Task
  BY <1>2 DEF InFront
<1>4. m - 1 \in 1 .. Len(queue') /\ m = (m - 1) + 1 /\ m - 1 > n
  BY <1>1, <1>2, <1>3, TailFacts
<1>5. queue'[m - 1] = queue[m]
  BY <1>1, <1>4, TailFacts
<1> QED
  BY <1>3, <1>4, <1>5

\* When the reactor has been taken, or is at the front, no descriptor waits.
LEMMA NoneWithout ==
  ASSUME Control, InFront, Lacks(queue, Task)
  PROVE  \A n \in 1 .. Len(queue) : queue[n].kind # "desc"
BY DEF InFront, Lacks

LEMMA InFrontTake ==
  ASSUME Control, InFront, queue # << >>, Head(queue) = Task,
         HasOne(queue, Task), queue' = Tail(queue)
  PROVE  InFront'
<1> SUFFICES ASSUME NEW n \in 1 .. Len(queue'), queue'[n].kind = "desc"
             PROVE  FALSE
  BY DEF InFront
<1>1. queue \in Seq(Item)
  BY DEF Control, Types
<1>2. /\ n + 1 \in 1 .. Len(queue) /\ queue[n + 1] = queue'[n]
      /\ 1 \in 1 .. Len(queue) /\ queue[1] = Task
  BY <1>1, TailFacts
<1>3. PICK m \in 1 .. Len(queue) : m > n + 1 /\ queue[m] = Task
  BY <1>2 DEF InFront
<1>4. m = 1
  BY <1>2, <1>3 DEF HasOne
<1> QED
  BY <1>2, <1>3, <1>4

-----------------------------------------------------------------------------
(* What changes of the threads keep.                                       *)

Stays(v) ==
  /\ pc'[v] = pc[v] \/ (pc[v] = "waiting" /\ pc'[v] = "woken")
  /\ then'[v] = then[v] /\ cur'[v] = cur[v]
  /\ private'[v] = private[v] /\ mine'[v] = mine[v]

LEMMA ThreadsStay ==
  ASSUME NEW v \in Runner, ThreadOK(v), Stays(v),
         \A h \in Op : InHandler(v) /\ cur[v] = Post(h) => ops'[h] = "running"
  PROVE  ThreadOK(v)' /\ (InHandler(v)' <=> InHandler(v))
<1>1. InHandler(v)' <=> InHandler(v)
  BY DEF InHandler, Stays
<1>2. pc'[v] = "cleanup" <=> pc[v] = "cleanup"
  BY DEF Stays
<1>3. pc[v] \in {"flush", "returned", "stop"} => pc'[v] = pc[v]
  BY DEF Stays
<1> QED
  BY <1>1, <1>2, <1>3 DEF ThreadOK, Stays

\* A step of thread t, which may begin a handler that was posted, and end the
\* one it runs.
LEMMA ThreadsStep ==
  ASSUME Unshared, \A v \in Runner : ThreadOK(v),
         NEW t \in Runner, \A v \in Runner \ {t} : Stays(v),
         ThreadOK(t)',
         \A h \in Op : ops[h] = "running" /\ ops'[h] # "running"
                         => InHandler(t) /\ cur[t] = Post(h),
         \A h \in Op : InHandler(t)' /\ cur'[t] = Post(h) =>
           (InHandler(t) /\ cur[t] = Post(h)) \/ ops[h] = "posted"
  PROVE  Unshared' /\ \A v \in Runner : ThreadOK(v)'
<1>1. ASSUME NEW v \in Runner \ {t}, NEW h \in Op, InHandler(v), cur[v] = Post(h)
      PROVE  ops[h] = "running" /\ ops'[h] = "running"
  BY <1>1 DEF Unshared, ThreadOK
<1>2. ASSUME NEW v \in Runner \ {t}
      PROVE  ThreadOK(v)' /\ (InHandler(v)' <=> InHandler(v)) /\ cur'[v] = cur[v]
  <2>1. ThreadOK(v) /\ Stays(v) /\ v \in Runner
    OBVIOUS
  <2> QED
    BY <1>1, <2>1, ThreadsStay DEF Stays
<1>3. ASSUME NEW v \in Runner \ {t}, NEW h \in Op,
             InHandler(v)', cur'[v] = Post(h), InHandler(t)', cur'[t] = Post(h)
      PROVE  FALSE
  <2>1. InHandler(v) /\ cur[v] = Post(h)
    BY <1>2, <1>3
  <2>2. ops[h] = "running"
    BY <1>1, <2>1
  <2>3. InHandler(t) /\ cur[t] = Post(h)
    BY <1>3, <2>2
  <2> QED
    BY <2>1, <2>3 DEF Unshared
<1>4. ASSUME NEW v \in Runner, NEW w \in Runner, NEW h \in Op,
             InHandler(v)', InHandler(w)', cur'[v] = Post(h), cur'[w] = Post(h)
      PROVE  v = w
  <2>1. CASE v = t \/ w = t
    BY <1>3, <1>4, <2>1
  <2>2. CASE v # t /\ w # t
    BY <1>2, <1>4, <2>2 DEF Unshared
  <2> QED
    BY <2>1, <2>2
<1> QED
  BY <1>2, <1>4 DEF Unshared

\* A step of somebody else.
LEMMA ThreadsRest ==
  ASSUME Unshared, \A v \in Runner : ThreadOK(v),
         \A v \in Runner : Stays(v),
         \A h \in Op : ops[h] = "running" => ops'[h] = "running"
  PROVE  Unshared' /\ \A v \in Runner : ThreadOK(v)'
<1>1. ASSUME NEW v \in Runner
      PROVE  ThreadOK(v)' /\ (InHandler(v)' <=> InHandler(v)) /\ cur'[v] = cur[v]
  BY ThreadsStay DEF ThreadOK, Stays
<1> QED
  BY <1>1 DEF Unshared

-----------------------------------------------------------------------------
(* Each step leaves every operation in its place.                          *)

\* The steps that move no operation.
QuietStep ==
  \/ \E t \in Runner : \/ Spurious(t) \/ Rewait(t) \/ Enter(t) \/ Relock(t)
                       \/ Exit(t) \/ Wait(t)
  \/ \E u \in Threads : Ends(u)
  \/ \E u \in Outsider : StopCall(u) \/ \E s \in Sock : Register(u, s)
  \/ \E s \in Sock : Arrive(s)
  \/ UNCHANGED asioVars

\* No thread in run() stops the others.
NoStops == \A t \in Runner : pc[t] # "stop"

\* What such a step may do to a thread.
Quiet(v) ==
  \/ Stays(v)
  \/ /\ pc[v] \in {"waiting", "woken", "enter", "relock", "top"}
     /\ pc'[v] \in {"waiting", "woken", "relock", "top", "exited", "stop"}
     /\ UNCHANGED << mine, private, cur >>
  \/ /\ pc[v] = "signal" /\ pc'[v] = then[v]
     /\ then[v] \in {"epoll", "handler", "perform", "free"}
     /\ UNCHANGED << mine, private, cur >>

LEMMA QuietFacts ==
  ASSUME Control, NoStops, QuietStep
  PROVE  /\ UNCHANGED << queue, mine, ops, reading, private, cur >>
         /\ \A v \in Runner : Quiet(v)
<1>1. \A v \in Runner : v \in Threads
  BY ThreadKinds
<1>2. ASSUME NEW t \in Runner,
             \/ Spurious(t) \/ Rewait(t) \/ Relock(t)
             \/ Exit(t) \/ Wait(t) \/ Enter(t)
      PROVE  /\ UNCHANGED << queue, mine, ops, reading, private, cur >>
             /\ pc[t] \in {"waiting", "woken", "enter", "relock", "top"}
             /\ \E x \in {"waiting", "woken", "relock", "top", "exited", "stop"} :
                  pc' = [pc EXCEPT ![t] = x]
             /\ \A v \in Runner \ {t} : then'[v] = then[v]
  <2>1. CASE Spurious(t) \/ Rewait(t) \/ Relock(t) \/ Exit(t) \/ Wait(t)
    BY <2>1 DEF Spurious, Rewait, Relock, Exit, Wait, Go, AtTop, sharedVars,
                threadVars, sockVars
  <2>2. CASE Enter(t)
    BY <1>1, <2>2 DEF Enter, Go, sharedVars, sockVars, Control, Types
  <2> QED
    BY <1>2, <2>1, <2>2
<1>3. ASSUME NEW t \in Runner,
             \/ Spurious(t) \/ Rewait(t) \/ Relock(t)
             \/ Exit(t) \/ Wait(t) \/ Enter(t)
      PROVE  \A v \in Runner : Quiet(v)
  <2>1. ASSUME NEW v \in Runner, v # t
        PROVE  Stays(v)
    BY <1>1, <1>2, <1>3, <2>1 DEF Control, Types, Stays
  <2>2. pc'[t] \in {"waiting", "woken", "relock", "top", "exited", "stop"}
    BY <1>1, <1>2, <1>3 DEF Control, Types
  <2> QED
    BY <1>2, <1>3, <2>1, <2>2 DEF Quiet
<1>4. ASSUME NEW u \in Threads, Ends(u)
      PROVE  /\ UNCHANGED << queue, mine, ops, reading, private, cur >>
             /\ \A v \in Runner : Quiet(v)
  <2>1. UNCHANGED << queue, mine, ops, reading, private, cur >>
    BY <1>4 DEF Ends, Signal, StopAll, sharedVars, sockVars
  <2>2. ASSUME NEW v \in Runner, v # u
        PROVE  Stays(v)
    BY <1>1, <1>4, <2>1, <2>2, EndsFacts DEF Stays
  <2>3. ASSUME u \in Runner
        PROVE  /\ pc[u] = "signal" /\ pc'[u] = then[u]
               /\ then[u] \in {"epoll", "handler", "perform", "free"}
    <3>1. pc[u] = "signal" /\ pc'[u] = then[u]
      BY <1>4, <2>3, EndsFacts DEF NoStops
    <3> QED
      BY <1>4, <3>1, EndsFacts DEF Control, Returns
  <2> QED
    BY <2>1, <2>2, <2>3 DEF Quiet
<1>5. ASSUME NEW u \in Outsider, StopCall(u) \/ \E s \in Sock : Register(u, s)
      PROVE  /\ UNCHANGED << queue, mine, ops, reading, private, cur >>
             /\ \A v \in Runner : Stays(v)
  <2>1. /\ UNCHANGED << queue, mine, ops, reading, private, cur >>
        /\ \A v \in Threads \ {u} : pc'[v] = pc[v] /\ then'[v] = then[v]
    BY <1>5, ThreadKinds DEF StopCall, Register, Go, sharedVars, threadVars,
                             sockVars, Control, Types
  <2> QED
    BY <1>1, <2>1, ThreadKinds DEF Stays
<1>6. ASSUME (\E s \in Sock : Arrive(s)) \/ UNCHANGED asioVars
      PROVE  /\ UNCHANGED << queue, mine, ops, reading, private, cur >>
             /\ \A v \in Runner : Stays(v)
  BY <1>6 DEF Arrive, asioVars, sharedVars, threadVars, sockVars, Stays
<1> QED
  BY <1>2, <1>3, <1>4, <1>5, <1>6 DEF QuietStep, Quiet

LEMMA QuietPlaced ==
  ASSUME Control, NoStops, Placed, QuietStep
  PROVE  Placed'
<1>1. /\ UNCHANGED << queue, mine, ops, reading, private, cur >>
      /\ \A v \in Runner : Quiet(v)
  BY QuietFacts
<1>2. ASSUME NEW v \in Runner
      PROVE  (InHandler(v)' <=> InHandler(v)) /\ ThreadOK(v)'
  <2>1. ThreadOK(v) /\ Quiet(v)
    BY <1>1 DEF Placed
  <2>2. CASE Stays(v)
    BY <1>1, <2>1, <2>2, ThreadsStay DEF ThreadOK
  <2>3. CASE /\ pc[v] \in {"waiting", "woken", "enter", "relock", "top"}
             /\ pc'[v] \in {"waiting", "woken", "relock", "top", "exited", "stop"}
    <3>1. ~ InHandler(v) /\ ~ InHandler(v)'
      BY <2>3 DEF InHandler
    <3> QED
      BY <1>1, <2>1, <2>3, <3>1 DEF ThreadOK
  <2>4. CASE /\ pc[v] = "signal" /\ pc'[v] = then[v]
             /\ then[v] \in {"epoll", "handler", "perform", "free"}
    <3>1. InHandler(v)' <=> InHandler(v)
      BY <2>4 DEF InHandler
    <3> QED
      BY <1>1, <2>1, <2>4, <3>1 DEF ThreadOK
  <2> QED
    BY <2>1, <2>2, <2>3, <2>4 DEF Quiet
<1> QED
  BY <1>1, <1>2 DEF Placed, OpTypes, Once, Known, Fits, InFront, Unshared

LEMMA TakeTaskPlaced ==
  ASSUME Control, Reactor, Placed, NEW t \in Runner, TakeTask(t)
  PROVE  Placed' /\ pc[t] = "top" /\ cur'[t] = Task
         /\ \A v \in Runner \ {t} : Stays(v)
<1>1. /\ queue # << >> /\ Head(queue) = Task /\ queue' = Tail(queue)
      /\ pc[t] = "top" /\ mine' = mine
      /\ \/ pc' = [pc EXCEPT ![t] = "epoll"] /\ then' = then
         \/ /\ pc' = [pc EXCEPT ![t] = "signal"]
            /\ then' = [then EXCEPT ![t] = "epoll"]
      /\ cur' = [cur EXCEPT ![t] = Task] /\ reading' = reading
  BY TakeTaskControl
<1>2. UNCHANGED << ops, private >>
  BY DEF TakeTask
<1>3. \A v \in Runner : v \in Threads
  BY ThreadKinds
<1>4. /\ pc'[t] \in {"epoll", "signal"} /\ (pc'[t] = "signal" => then'[t] = "epoll")
      /\ cur'[t] = Task /\ \A v \in Runner \ {t} : Stays(v)
  BY <1>1, <1>2, <1>3 DEF Control, Types, Stays
<1>5. ~ InHandler(t) /\ ~ InHandler(t)'
  BY <1>1, <1>4 DEF InHandler
<1>6. ThreadOK(t)'
  BY <1>1, <1>2, <1>4, <1>5 DEF ThreadOK, Placed
<1>7. Unshared' /\ \A v \in Runner : ThreadOK(v)'
  BY <1>2, <1>4, <1>5, <1>6, ThreadsStep DEF Placed
<1>8. Once'
  BY <1>1, OnceTail DEF Placed
<1>9. queue \in Seq(Item)
  BY DEF Control, Types
<1>10. Known'
  BY <1>1, <1>2, <1>9, TailItems DEF Placed, Known, Fits
<1>11. HasOne(queue, Task)
  BY <1>1, <1>9, TailFacts DEF Reactor, Lacks
<1>12. InFront'
  BY <1>1, <1>11, InFrontTake DEF Placed
<1> QED
  BY <1>1, <1>2, <1>4, <1>7, <1>8, <1>10, <1>12 DEF Placed, OpTypes

LEMMA TakeFacts ==
  ASSUME Control, NEW t \in Runner, Take(t)
  PROVE  LET o == Head(queue)
         IN  /\ queue # << >> /\ o \in Item /\ o # Task /\ queue' = Tail(queue)
             /\ pc[t] = "top" /\ UNCHANGED << mine, private, work >>
             /\ ops' = [h \in Op |-> IF o = Post(h) THEN "running" ELSE ops[h]]
             /\ reading' = [s \in Sock |-> IF o = Read(s) THEN "none" ELSE reading[s]]
             /\ cur'[t] = o /\ \A v \in Runner \ {t} : Stays(v)
             /\ pc'[t] # "cleanup"
             /\ ~ InHandler(t) /\ (InHandler(t)' <=> o.kind # "desc")
<1>1. /\ queue # << >> /\ Head(queue) # Task /\ Head(queue) \in Item
      /\ queue' = Tail(queue)
      /\ pc[t] = "top" /\ mine' = mine
      /\ cur' = [cur EXCEPT ![t] = Head(queue)]
      /\ \E where \in {"perform", "handler"} :
           /\ where = "perform" <=> Head(queue).kind = "desc"
           /\ \/ pc' = [pc EXCEPT ![t] = where] /\ then' = then
              \/ /\ pc' = [pc EXCEPT ![t] = "signal"]
                 /\ then' = [then EXCEPT ![t] = where]
  BY TakeControl
<1>2. /\ UNCHANGED << private, work >>
      /\ ops' = [h \in Op |-> IF Head(queue) = Post(h) THEN "running" ELSE ops[h]]
      /\ reading' = [s \in Sock |-> IF Head(queue) = Read(s) THEN "none"
                                    ELSE reading[s]]
  BY DEF Take
<1>3. \A v \in Runner : v \in Threads
  BY ThreadKinds
<1>4. PICK where \in {"perform", "handler"} :
        /\ where = "perform" <=> Head(queue).kind = "desc"
        /\ \/ pc' = [pc EXCEPT ![t] = where] /\ then' = then
           \/ /\ pc' = [pc EXCEPT ![t] = "signal"]
              /\ then' = [then EXCEPT ![t] = where]
  BY <1>1
<1>5. /\ pc'[t] \in {where, "signal"} /\ (pc'[t] = "signal" => then'[t] = where)
      /\ cur'[t] = Head(queue) /\ \A v \in Runner \ {t} : Stays(v)
  BY <1>1, <1>2, <1>3, <1>4 DEF Control, Types, Stays
<1>6. ~ InHandler(t) /\ (InHandler(t)' <=> Head(queue).kind # "desc")
  BY <1>1, <1>4, <1>5 DEF InHandler
<1> QED
  BY <1>1, <1>2, <1>5, <1>6

LEMMA TakePlaced ==
  ASSUME Control, Placed, NEW t \in Runner, Take(t)
  PROVE  Placed'
<1> DEFINE o == Head(queue)
<1>1. /\ queue # << >> /\ o \in Item /\ o # Task /\ queue' = Tail(queue)
      /\ pc[t] = "top" /\ UNCHANGED << mine, private, work >>
      /\ ops' = [h \in Op |-> IF o = Post(h) THEN "running" ELSE ops[h]]
      /\ reading' = [s \in Sock |-> IF o = Read(s) THEN "none" ELSE reading[s]]
      /\ cur'[t] = o /\ \A v \in Runner \ {t} : Stays(v)
      /\ pc'[t] # "cleanup"
      /\ ~ InHandler(t) /\ (InHandler(t)' <=> o.kind # "desc")
  BY TakeFacts
<1>2. queue \in Seq(Item) /\ 1 \in 1 .. Len(queue) /\ queue[1] = o
  BY <1>1, TailFacts DEF Control, Types
<1>3. Fits(o) /\ Lacks(queue', o) /\ \A v \in Runner : Lacks(mine[v], o)
  BY <1>1, <1>2, TailDistinct DEF Placed, Known, Once, Apart, Lacks
<1>4. OpTypes'
  BY <1>1 DEF Placed, OpTypes
<1>5. Once'
  BY <1>1, OnceTail DEF Placed
<1>6. ASSUME NEW i, Fits(i), i # o
      PROVE  Fits(i)'
  BY <1>1, <1>6 DEF Fits
<1>7. Known'
  <2>1. ASSUME NEW n \in 1 .. Len(queue')
        PROVE  Fits(queue[n])'
    <3>1. queue'[n] # o
      BY <1>3 DEF Lacks
    <3>2. Fits(queue'[n])
      BY <1>1, <1>2, TailItems DEF Placed, Known
    <3> QED
      BY <1>6, <3>1, <3>2
  <2>2. ASSUME NEW v \in Runner, NEW n \in 1 .. Len(mine'[v])
        PROVE  Fits(mine[v][n])' /\ mine'[v][n].kind # "read"
    <3>1. mine'[v][n] # o /\ Fits(mine'[v][n]) /\ mine'[v][n].kind # "read"
      BY <1>1, <1>3 DEF Lacks, Placed, Known
    <3> QED
      BY <1>6, <3>1
  <2> QED
    BY <2>1, <2>2 DEF Known
<1>8. InFront'
  BY <1>1, InFrontTail DEF Placed
<1>9. ThreadOK(t)'
  <2>1. InHandler(t)' => o.kind \in {"post", "read"}
    BY <1>1, ItemKinds
  <2>2. \A h \in Op : o = Post(h) => ops'[h] = "running"
    BY <1>1
  <2>3. private[t] = 0 /\ mine[t] = << >>
    BY <1>1 DEF Placed, ThreadOK
  <2> QED
    BY <1>1, <2>1, <2>2, <2>3 DEF ThreadOK
<1>10. Unshared' /\ \A v \in Runner : ThreadOK(v)'
  <2>1. \A h \in Op : o = Post(h) => ops[h] = "posted"
    BY <1>3 DEF Fits
  <2>2. \A h \in Op : ops[h] = "running" => ops'[h] = "running"
    BY <1>1
  <2> QED
    BY <1>1, <1>9, <2>1, <2>2, ThreadsStep DEF Placed
<1> QED
  BY <1>4, <1>5, <1>7, <1>8, <1>10 DEF Placed

\* An item that is nowhere yet is pushed, and the other items still fit.
LEMMA PushPlaced ==
  ASSUME Control, Placed, NEW u \in Threads, NEW i \in Item, Push(u, i),
         \/ u \in Runner /\ pc[u] = "handler"
         \/ u \in Outsider /\ pc[u] = "free",
         UNCHANGED << cur, private, mine >>,
         i.kind # "desc", Lacks(queue, i), \A v \in Runner : Lacks(mine[v], i),
         OpTypes', \A h \in Op : ops[h] = "running" => ops'[h] = "running",
         Fits(i)', \A j : Fits(j) /\ j # i => Fits(j)'
  PROVE  Placed' /\ \A v \in Runner : /\ InHandler(v)' <=> InHandler(v)
                                      /\ pc'[v] = "cleanup" <=> pc[v] = "cleanup"
<1>1. /\ queue \in Seq(Item) /\ << i >> \in Seq(Item)
      /\ Append(queue, i) = queue \o << i >>
      /\ \A v \in Runner : v \in Threads
  BY SingleFacts, ThreadKinds DEF Control, Types
<1>2. /\ queue' = queue \o << i >>
      /\ \/ UNCHANGED << pc, then >>
         \/ /\ pc' = [pc EXCEPT ![u] = "signal"]
            /\ then' = [then EXCEPT ![u] = pc[u]]
  BY <1>1, PushFacts
<1>3. Once'
  BY <1>2, OncePush DEF Placed
<1>4. Known'
  <2>1. ASSUME NEW n \in 1 .. Len(queue')
        PROVE  Fits(queue[n])'
    <3>1. CASE \E m \in 1 .. Len(queue) : queue'[n] = queue[m]
      BY <3>1 DEF Placed, Known, Lacks
    <3>2. CASE \E m \in 1 .. Len(<< i >>) : queue'[n] = << i >>[m]
      BY <3>2
    <3> QED
      BY <1>1, <1>2, <3>1, <3>2, ConcatItems
  <2>2. ASSUME NEW v \in Runner, NEW n \in 1 .. Len(mine'[v])
        PROVE  Fits(mine[v][n])' /\ mine'[v][n].kind # "read"
    BY DEF Placed, Known, Lacks
  <2> QED
    BY <2>1, <2>2 DEF Known
<1>5. InFront'
  <2>1. \A n \in 1 .. Len(<< i >>) : << i >>[n].kind # "desc"
    OBVIOUS
  <2> QED
    BY <1>1, <1>2, <2>1, InFrontConcat DEF Placed
<1>6. ASSUME NEW v \in Runner
      PROVE  /\ InHandler(v)' <=> InHandler(v)
             /\ pc'[v] = "cleanup" <=> pc[v] = "cleanup"
             /\ pc[v] \in {"flush", "returned", "stop"} => pc'[v] = pc[v]
  BY <1>1, <1>2, ThreadKinds DEF Control, Types, InHandler
<1>7. ASSUME NEW v \in Runner
      PROVE  ThreadOK(v)'
  <2>1. ThreadOK(v)
    BY DEF Placed
  <2> QED
    BY <1>6, <2>1 DEF ThreadOK
<1>8. Unshared'
  BY <1>6 DEF Placed, Unshared
<1> QED
  BY <1>3, <1>4, <1>5, <1>6, <1>7, <1>8 DEF Placed

\* An operation that has not been posted, and a read that is not complete,
\* are nowhere.
LEMMA Nowhere ==
  ASSUME Placed, NEW i, ~ Fits(i)
  PROVE  Lacks(queue, i) /\ \A v \in Runner : Lacks(mine[v], i)
BY DEF Placed, Known, Lacks

LEMMA PostPlaced ==
  ASSUME Control, Placed, NEW u \in Outsider, NEW h \in Op, PostCall(u, h)
  PROVE  Placed' /\ \A v \in Runner : /\ InHandler(v)' <=> InHandler(v)
                                      /\ pc'[v] = "cleanup" <=> pc[v] = "cleanup"
<1>1. /\ pc[u] = "free" /\ ops[h] = "new" /\ ops' = [ops EXCEPT ![h] = "posted"]
      /\ Push(u, Post(h)) /\ UNCHANGED << cur, private, mine, reading >>
  BY DEF PostCall, IsNext, sockVars
<1>2. u \in Threads /\ Post(h) \in Item /\ Post(h).kind # "desc"
  BY Kinds, ThreadKinds
<1>3. ~ Fits(Post(h))
  BY <1>1 DEF Fits
<1>4. OpTypes' /\ \A g \in Op : ops[g] = "running" => ops'[g] = "running"
  BY <1>1 DEF Placed, OpTypes
<1>5. Fits(Post(h))' /\ \A j : Fits(j) /\ j # Post(h) => Fits(j)'
  BY <1>1, ItemKinds DEF Fits, Placed, OpTypes
<1> QED
  BY <1>1, <1>2, <1>3, <1>4, <1>5, Nowhere, PushPlaced

\* What StartRead and Close do to their read.
LEMMA ReadFacts ==
  ASSUME Control, NEW t \in Runner, NEW s \in Sock, StartRead(t, s) \/ Close(t, s)
  PROVE  /\ pc[t] = "handler" /\ UNCHANGED << ops, cur, private, mine >>
         /\ reading[s] # "done" \/ reading' = reading
         /\ \/ /\ reading' = [reading EXCEPT ![s] = "done"]
               /\ Push(t, Read(s)) /\ reading[s] # "done"
            \/ /\ reading' = [reading EXCEPT ![s] = "queued"]
               /\ UNCHANGED << queue, pc, then >>
            \/ UNCHANGED << reading, queue, pc, then >>
<1>1. CASE StartRead(t, s)
  BY <1>1 DEF StartRead
<1>2. CASE Close(t, s)
  BY <1>2 DEF Close
<1> QED
  BY <1>1, <1>2

LEMMA ReadPlaced ==
  ASSUME Control, Placed, NEW t \in Runner, NEW s \in Sock,
         StartRead(t, s) \/ Close(t, s)
  PROVE  Placed' /\ \A v \in Runner : /\ InHandler(v)' <=> InHandler(v)
                                      /\ pc'[v] = "cleanup" <=> pc[v] = "cleanup"
<1>1. /\ pc[t] = "handler" /\ UNCHANGED << ops, cur, private, mine >>
      /\ reading[s] # "done" \/ reading' = reading
      /\ \/ /\ reading' = [reading EXCEPT ![s] = "done"]
            /\ Push(t, Read(s)) /\ reading[s] # "done"
         \/ /\ reading' = [reading EXCEPT ![s] = "queued"]
            /\ UNCHANGED << queue, pc, then >>
         \/ UNCHANGED << reading, queue, pc, then >>
  BY ReadFacts
<1>2. /\ t \in Threads /\ Read(s) \in Item /\ Read(s).kind = "read"
      /\ reading \in [Sock -> {"none", "queued", "done"}]
  BY Kinds, ThreadKinds DEF Control, Types
<1>3. OpTypes'
  BY <1>1 DEF Placed, OpTypes
<1>4. CASE /\ reading' = [reading EXCEPT ![s] = "done"]
           /\ Push(t, Read(s)) /\ reading[s] # "done"
  <2>1. ~ Fits(Read(s))
    BY <1>4 DEF Fits
  <2>2. Fits(Read(s))' /\ \A j : Fits(j) /\ j # Read(s) => Fits(j)'
    BY <1>1, <1>2, <1>4, ItemKinds DEF Fits
  <2> QED
    BY <1>1, <1>2, <1>3, <1>4, <2>1, <2>2, Nowhere, PushPlaced
<1>5. CASE \/ /\ reading' = [reading EXCEPT ![s] = "queued"] /\ reading[s] # "done"
              /\ UNCHANGED << queue, pc, then >>
           \/ UNCHANGED << reading, queue, pc, then >>
  <2>1. \A j : Fits(j) => Fits(j)'
    BY <1>1, <1>2, <1>5 DEF Fits
  <2>2. UNCHANGED << queue, mine, pc, then, cur, private, ops >>
    BY <1>1, <1>5
  <2>3. Once' /\ Known' /\ InFront' /\ Unshared'
    BY <2>1, <2>2 DEF Placed, Once, Known, InFront, Unshared, InHandler
  <2>4. \A v \in Runner : ThreadOK(v)' /\ (InHandler(v)' <=> InHandler(v))
    BY <2>2 DEF Placed, ThreadOK, InHandler
  <2> QED
    BY <1>3, <2>2, <2>3, <2>4 DEF Placed
<1> QED
  BY <1>1, <1>4, <1>5

LEMMA DeferPlaced ==
  ASSUME Control, Placed, NEW t \in Runner, NEW h \in Op, Defer(t, h)
  PROVE  Placed'
<1>1. /\ pc[t] = "handler" /\ ops[h] = "new" /\ ops' = [ops EXCEPT ![h] = "posted"]
      /\ private' = [private EXCEPT ![t] = @ + 1]
      /\ mine' = [mine EXCEPT ![t] = @ \o << Post(h) >>]
      /\ UNCHANGED << queue, pc, then, cur, reading >>
  BY DeferControl DEF Defer, IsNext
<1>2. /\ queue \in Seq(Item) /\ mine[t] \in Seq(Item) /\ mine \in [Runner -> Seq(Item \ {Task})]
      /\ Post(h) \in Item /\ Post(h).kind = "post" /\ << Post(h) >> \in Seq(Item)
  BY Kinds, SingleFacts DEF Control, Types
<1>3. /\ mine'[t] = mine[t] \o << Post(h) >> /\ Len(mine'[t]) = Len(mine[t]) + 1
      /\ Len(mine[t]) \in Nat
      /\ \A v \in Runner \ {t} : mine'[v] = mine[v] /\ private'[v] = private[v]
  BY <1>1, <1>2, ConcatFacts DEF Placed, OpTypes
<1>4. ~ Fits(Post(h))
  BY <1>1 DEF Fits
<1>5. Lacks(queue, Post(h)) /\ \A v \in Runner : Lacks(mine[v], Post(h))
  BY <1>4, Nowhere
<1>6. OpTypes' /\ \A g \in Op : ops[g] = "running" => ops'[g] = "running"
  BY <1>1 DEF Placed, OpTypes
<1>7. Fits(Post(h))' /\ \A j : Fits(j) /\ j # Post(h) => Fits(j)'
  BY <1>1, ItemKinds DEF Fits, Placed, OpTypes
<1>8. Once'
  <2>1. Distinct(mine'[t])
    BY <1>2, <1>3, <1>5, SingleFacts, ConcatDistinct DEF Placed, Once
  <2>2. Apart(mine'[t], queue)
    <3>1. Apart(<< Post(h) >>, queue) /\ Apart(mine[t], queue)
      BY <1>2, <1>5, SingleFacts, ApartFlips DEF Placed, Once
    <3> QED
      BY <1>2, <1>3, <3>1, ConcatApart
  <2>3. ASSUME NEW v \in Runner \ {t}
        PROVE  Apart(mine'[t], mine[v])
    <3>1. Apart(<< Post(h) >>, mine[v]) /\ Apart(mine[t], mine[v])
      BY <1>2, <1>5, SingleFacts, ApartFlips DEF Placed, Once
    <3>2. Apart(mine[t] \o << Post(h) >>, mine[v])
      BY <1>2, <3>1, ConcatApart, Zenon
    <3> QED
      BY <1>3, <3>2
  <2> QED
    BY <1>1, <1>3, <2>1, <2>2, <2>3, ApartFlips, OnceOwn DEF Placed
<1>9. Known'
  <2>1. ASSUME NEW n \in 1 .. Len(queue')
        PROVE  Fits(queue[n])'
    BY <1>1, <1>5, <1>7 DEF Placed, Known, Lacks
  <2>2. ASSUME NEW v \in Runner, NEW n \in 1 .. Len(mine'[v])
        PROVE  Fits(mine[v][n])' /\ mine'[v][n].kind # "read"
    <3>1. CASE v # t
      BY <1>3, <1>5, <1>7, <3>1 DEF Placed, Known, Lacks
    <3>2. CASE v = t
      <4>1. CASE \E m \in 1 .. Len(mine[t]) : mine'[t][n] = mine[t][m]
        BY <1>5, <1>7, <3>2, <4>1 DEF Placed, Known, Lacks
      <4>2. CASE \E m \in 1 .. Len(<< Post(h) >>) : mine'[t][n] = << Post(h) >>[m]
        BY <1>2, <1>7, <3>2, <4>2
      <4> QED
        BY <1>2, <1>3, <3>2, <4>1, <4>2, ConcatItems
    <3> QED
      BY <3>1, <3>2
  <2> QED
    BY <2>1, <2>2 DEF Known
<1>10. InFront'
  BY <1>1 DEF Placed, InFront
<1>11. InHandler(t) /\ \A v \in Runner : InHandler(v)' <=> InHandler(v)
  BY <1>1 DEF InHandler
<1>12. ThreadOK(t)'
  <2>1. private'[t] = private[t] + 1 /\ ThreadOK(t)
    BY <1>1 DEF Placed, OpTypes
  <2> QED
    BY <1>1, <1>3, <1>6, <1>11, <2>1 DEF ThreadOK
<1>13. Unshared' /\ \A v \in Runner : ThreadOK(v)'
  <2>1. \A v \in Runner \ {t} : Stays(v)
    BY <1>1, <1>3 DEF Stays
  <2> QED
    BY <1>1, <1>6, <1>11, <1>12, <2>1, ThreadsStep DEF Placed
<1> QED
  BY <1>6, <1>8, <1>9, <1>10, <1>13 DEF Placed

LEMMA EpollPlaced ==
  ASSUME Control, Reactor, OwnQueues, Placed, NEW t \in Runner, Epoll(t)
  PROVE  Placed' /\ pc[t] = "epoll" /\ pc'[t] = "returned" /\ cur' = cur
         /\ \A v \in Runner \ {t} : Stays(v)
<1>1. /\ pc[t] = "epoll" /\ pc' = [pc EXCEPT ![t] = "returned"]
      /\ UNCHANGED << queue, then, cur, reading, private, ops >>
      /\ \A v \in Runner \ {t} : mine'[v] = mine[v]
  BY EpollControl DEF Epoll
<1>2. PICK order \in Orders(edge) :
        mine' = [mine EXCEPT ![t] = [n \in 1 .. Cardinality(edge) |-> Desc(order[n])]]
  BY DEF Epoll
<1> DEFINE found == [n \in 1 .. Cardinality(edge) |-> Desc(order[n])]
<1>3. /\ Cardinality(edge) \in Nat /\ order \in [1 .. Cardinality(edge) -> edge]
      /\ edge \in SUBSET Sock
  BY OrdersAll DEF Control, Types
<1>4. \A m, n \in 1 .. Cardinality(edge) : order[m] = order[n] => m = n
  BY DEF Orders
<1>5. /\ mine'[t] = found /\ Len(found) = Cardinality(edge)
      /\ \A n \in 1 .. Len(found) : found[n].kind = "desc" /\ found[n].id = order[n]
  <2>1. \A n \in 1 .. Cardinality(edge) : Desc(order[n]) \in Item
    BY <1>3, Kinds
  <2>2. found \in Seq(Item) /\ Len(found) = Cardinality(edge)
    BY <1>3, <2>1
  <2>3. mine'[t] = found
    BY <1>2 DEF Control, Types
  <2> QED
    BY <1>3, <2>2, <2>3, Kinds
<1> HIDE DEF found
<1>6. Distinct(mine'[t])
  BY <1>4, <1>5 DEF Distinct
<1>7. InTask(t)
  BY <1>1 DEF InTask
<1>8. \A n \in 1 .. Len(queue) : queue[n].kind # "desc"
  BY <1>7, NoneWithout DEF Reactor, Placed
<1>9. ASSUME NEW v \in Runner \ {t}, NEW n \in 1 .. Len(mine[v])
      PROVE  mine[v][n].kind # "desc"
  <2>1. pc[v] # "returned"
    BY <1>7 DEF Reactor, InTask
  <2>2. \A s \in Sock : mine[v][n] # Desc(s)
    BY <2>1 DEF OwnQueues, Lacks
  <2>3. mine[v][n] \in Item
    BY DEF Control, Types
  <2> QED
    BY <2>2, <2>3, Kinds
<1>10. Once'
  <2>1. Apart(queue, mine'[t])
    BY <1>5, <1>8 DEF Apart
  <2>2. \A v \in Runner \ {t} : Apart(mine'[t], mine[v])
    BY <1>5, <1>9 DEF Apart
  <2> QED
    BY <1>1, <1>6, <2>1, <2>2, OnceOwn DEF Placed
<1>11. Known'
  <2>1. \A n \in 1 .. Len(mine'[t]) : /\ mine'[t][n].kind # "read"
                                      /\ \A h \in Op : mine'[t][n] # Post(h)
                                      /\ \A s \in Sock : mine'[t][n] # Read(s)
    BY <1>5, Kinds
  <2> QED
    BY <1>1, <2>1 DEF Placed, Known, Fits
<1>12. \A v \in Runner : v \in Threads
  BY ThreadKinds
<1>13. pc'[t] = "returned" /\ \A v \in Runner \ {t} : Stays(v)
  BY <1>1, <1>12 DEF Control, Types, Stays
<1>14. ThreadOK(t)'
  BY <1>1, <1>13 DEF Placed, ThreadOK, InHandler
<1>15. Unshared' /\ \A v \in Runner : ThreadOK(v)'
  <2>1. ~ InHandler(t)'
    BY <1>13 DEF InHandler
  <2> QED
    BY <1>1, <1>13, <1>14, <2>1, ThreadsStep DEF Placed
<1> QED
  BY <1>1, <1>10, <1>11, <1>13, <1>15 DEF Placed, InFront, OpTypes

LEMMA TaskCleanupPlaced ==
  ASSUME Control, Reactor, Placed, NEW t \in Runner, TaskCleanup(t)
  PROVE  Placed' /\ pc[t] = "returned" /\ pc'[t] = "top" /\ cur' = cur
         /\ \A v \in Runner \ {t} : Stays(v)
<1>1. /\ pc[t] = "returned" /\ pc' = [pc EXCEPT ![t] = "top"]
      /\ UNCHANGED << then, cur, reading, ops, private >>
      /\ mine[t] \in Seq(Item) /\ Lacks(mine[t], Task)
      /\ queue' = (queue \o mine[t]) \o << Task >>
      /\ mine' = [mine EXCEPT ![t] = << >>]
  BY TaskCleanupControl DEF TaskCleanup
<1> DEFINE q == queue \o mine[t]
<1>2. /\ q \in Seq(Item) /\ Distinct(q)
      /\ \A v \in Runner : Distinct(mine'[v]) /\ Apart(q, mine'[v])
      /\ \A v, w \in Runner : v # w => Apart(mine'[v], mine'[w])
  BY <1>1, OnceMove DEF Placed
<1>3. /\ queue \in Seq(Item) /\ << Task >> \in Seq(Item) /\ Distinct(<< Task >>)
      /\ mine' \in [Runner -> Seq(Item \ {Task})]
  BY <1>1, Kinds, SingleFacts, TaskCleanupControl DEF Control, Types
<1>4. Lacks(q, Task)
  <2>1. InTask(t)
    BY <1>1 DEF InTask
  <2>2. Lacks(queue, Task)
    BY <2>1 DEF Reactor
  <2> QED
    BY <1>1, <1>3, <2>2, ConcatLacks
<1>5. \A n \in 1 .. Len(q) : \/ \E m \in 1 .. Len(queue) : q[n] = queue[m]
                             \/ \E m \in 1 .. Len(mine[t]) : q[n] = mine[t][m]
  BY <1>1, <1>3, ConcatItems
<1> HIDE DEF q
<1>6. queue' = q \o << Task >>
  BY <1>1 DEF q
<1>7. Once'
  <2>1. Distinct(queue')
    BY <1>2, <1>3, <1>4, <1>6, Kinds, SingleFacts, ConcatDistinct
  <2>2. ASSUME NEW v \in Runner
        PROVE  Apart(queue', mine'[v])
    <3>1. Lacks(mine'[v], Task)
      BY <1>3 DEF Lacks
    <3>2. Apart(<< Task >>, mine'[v])
      BY <3>1, Kinds, SingleFacts, ApartFlips
    <3> QED
      BY <1>2, <1>3, <1>6, <3>2, ConcatApart
  <2> QED
    BY <1>2, <2>1, <2>2 DEF Once
<1>8. Known'
  <2>1. ASSUME NEW i, Fits(i)
        PROVE  Fits(i)'
    BY <1>1, <2>1 DEF Fits
  <2>2. ASSUME NEW n \in 1 .. Len(queue')
        PROVE  Fits(queue[n])'
    <3>1. CASE \E m \in 1 .. Len(q) : queue'[n] = q[m]
      BY <1>5, <2>1, <3>1 DEF Placed, Known
    <3>2. CASE \E m \in 1 .. Len(<< Task >>) : queue'[n] = << Task >>[m]
      BY <3>2, ItemKinds DEF Fits
    <3> QED
      BY <1>2, <1>3, <1>6, <3>1, <3>2, ConcatItems
  <2>3. ASSUME NEW v \in Runner, NEW n \in 1 .. Len(mine'[v])
        PROVE  Fits(mine[v][n])' /\ mine'[v][n].kind # "read"
    <3>1. v # t /\ mine'[v] = mine[v]
      BY <1>1 DEF Control, Types
    <3> QED
      BY <2>1, <3>1 DEF Placed, Known
  <2> QED
    BY <2>2, <2>3 DEF Known
<1>9. InFront'
  <2>1. /\ Len(q) \in Nat /\ Len(queue') = Len(q) + 1
        /\ queue'[Len(q) + 1] = Task
    BY <1>2, <1>3, <1>6, ConcatFacts
  <2>2. Task.kind # "desc"
    BY Kinds
  <2> QED
    BY <2>1, <2>2 DEF InFront
<1>10. \A v \in Runner : v \in Threads
  BY ThreadKinds
<1>11. pc'[t] = "top" /\ mine'[t] = << >> /\ \A v \in Runner \ {t} : Stays(v)
  BY <1>1, <1>10 DEF Control, Types, Stays
<1>12. ThreadOK(t)'
  BY <1>1, <1>11 DEF Placed, ThreadOK, InHandler
<1>13. Unshared' /\ \A v \in Runner : ThreadOK(v)'
  <2>1. ~ InHandler(t)'
    BY <1>11 DEF InHandler
  <2> QED
    BY <1>1, <1>11, <1>12, <2>1, ThreadsStep DEF Placed
<1> QED
  BY <1>1, <1>7, <1>8, <1>9, <1>11, <1>13 DEF Placed, OpTypes

LEMMA FlushPlaced ==
  ASSUME Control, OwnQueues, Placed, NEW t \in Runner, Flush(t)
  PROVE  Placed' /\ pc[t] = "flush" /\ pc'[t] \in {"top", "enter"} /\ cur' = cur
         /\ \A v \in Runner \ {t} : Stays(v)
<1>1. /\ pc[t] = "flush" /\ \E x \in {"top", "enter"} : pc' = [pc EXCEPT ![t] = x]
      /\ UNCHANGED << then, cur, reading, ops, private >>
      /\ queue' = queue \o mine[t]
      /\ mine' = [mine EXCEPT ![t] = << >>]
  BY DEF Flush, Go, sockVars
<1>2. /\ queue' \in Seq(Item) /\ Distinct(queue')
      /\ \A v \in Runner : Distinct(mine'[v]) /\ Apart(queue', mine'[v])
      /\ \A v, w \in Runner : v # w => Apart(mine'[v], mine'[w])
  BY <1>1, OnceMove DEF Placed
<1>3. queue \in Seq(Item) /\ mine[t] \in Seq(Item)
  BY DEF Control, Types
<1>4. Once'
  BY <1>2 DEF Once
<1>5. Known'
  <2>1. ASSUME NEW i, Fits(i)
        PROVE  Fits(i)'
    BY <1>1, <2>1 DEF Fits
  <2>2. ASSUME NEW n \in 1 .. Len(queue')
        PROVE  Fits(queue[n])'
    <3>1. \A k \in 1 .. Len(queue \o mine[t]) :
            \/ \E m \in 1 .. Len(queue) : (queue \o mine[t])[k] = queue[m]
            \/ \E m \in 1 .. Len(mine[t]) : (queue \o mine[t])[k] = mine[t][m]
      BY <1>3, ConcatItems
    <3>2. \/ \E m \in 1 .. Len(queue) : queue'[n] = queue[m]
          \/ \E m \in 1 .. Len(mine[t]) : queue'[n] = mine[t][m]
      BY <1>1, <3>1
    <3>3. Fits(queue'[n])
      BY <3>2 DEF Placed, Known
    <3> QED
      BY <2>1, <3>3
  <2>3. ASSUME NEW v \in Runner, NEW n \in 1 .. Len(mine'[v])
        PROVE  Fits(mine[v][n])' /\ mine'[v][n].kind # "read"
    <3>1. v # t /\ mine'[v] = mine[v]
      BY <1>1 DEF Control, Types
    <3> QED
      BY <2>1, <3>1 DEF Placed, Known
  <2> QED
    BY <2>2, <2>3 DEF Known
<1>6. InFront'
  <2>1. ASSUME NEW n \in 1 .. Len(mine[t])
        PROVE  mine[t][n].kind # "desc"
    <3>1. mine[t][n] \in Item /\ \A s \in Sock : mine[t][n] # Desc(s)
      BY <1>1, <1>3 DEF OwnQueues, Lacks
    <3> QED
      BY <3>1, Kinds
  <2> QED
    BY <1>1, <1>3, <2>1, InFrontConcat DEF Placed
<1>7. \A v \in Runner : v \in Threads
  BY ThreadKinds
<1>8. /\ pc'[t] \in {"top", "enter"} /\ mine'[t] = << >>
      /\ \A v \in Runner \ {t} : Stays(v)
  BY <1>1, <1>7 DEF Control, Types, Stays
<1>9. ThreadOK(t)'
  BY <1>1, <1>8 DEF Placed, ThreadOK, InHandler
<1>10. Unshared' /\ \A v \in Runner : ThreadOK(v)'
  <2>1. ~ InHandler(t)'
    BY <1>8 DEF InHandler
  <2> QED
    BY <1>1, <1>8, <1>9, <2>1, ThreadsStep DEF Placed
<1> QED
  BY <1>1, <1>4, <1>5, <1>6, <1>8, <1>10 DEF Placed, OpTypes

\* What perform_io does: the read that waits ends, or the work is made up for.
LEMMA PerformFacts2 ==
  ASSUME Control, Placed, NEW t \in Runner, PerformIo(t)
  PROVE  /\ UNCHANGED << queue, mine, ops, work >> /\ pc[t] = "perform"
         /\ private[t] = 0 /\ mine[t] = << >>
         /\ \A v \in Runner \ {t} : Stays(v)
         /\ \E s \in Sock :
              \/ /\ reading[s] = "queued" /\ reading' = [reading EXCEPT ![s] = "none"]
                 /\ pc'[t] = "handler" /\ cur'[t] = Read(s) /\ private' = private
              \/ /\ reading' = reading /\ cur'[t] = cur[t] /\ cur[t] = Desc(s)
                 /\ pc'[t] = "cleanup"
                 /\ private' = [private EXCEPT ![t] = @ + 1]
<1> DEFINE s == cur[t].id
<1>1. /\ pc[t] = "perform" /\ UNCHANGED << queue, mine, ops, work, then >>
      /\ \/ /\ reading[s] = "queued" /\ reading' = [reading EXCEPT ![s] = "none"]
            /\ pc' = [pc EXCEPT ![t] = "handler"] /\ private' = private
            /\ cur' = [cur EXCEPT ![t] = Read(s)]
         \/ /\ reading' = reading /\ cur' = cur
            /\ pc' = [pc EXCEPT ![t] = "cleanup"]
            /\ private' = [private EXCEPT ![t] = @ + 1]
  BY DEF PerformIo, Go, sharedVars
<1>2. cur[t] \in Item /\ cur[t].kind = "desc"
  BY <1>1 DEF Control, Types, Holds
<1>3. s \in Sock /\ cur[t] = Desc(s)
  BY <1>2, Kinds
<1>4. ~ InHandler(t) /\ private[t] = 0 /\ mine[t] = << >>
  BY <1>1 DEF Placed, ThreadOK, InHandler
<1>5. \A v \in Runner : v \in Threads
  BY ThreadKinds
<1> HIDE DEF s
<1>6. /\ \A v \in Runner \ {t} : Stays(v)
      /\ \/ /\ reading[s] = "queued" /\ reading' = [reading EXCEPT ![s] = "none"]
            /\ pc'[t] = "handler" /\ cur'[t] = Read(s) /\ private' = private
         \/ /\ reading' = reading /\ cur'[t] = cur[t]
            /\ pc'[t] = "cleanup"
            /\ private' = [private EXCEPT ![t] = @ + 1]
  BY <1>1, <1>5 DEF Control, Types, Stays, Placed, OpTypes
<1> QED
  BY <1>1, <1>3, <1>4, <1>6

LEMMA PerformPlaced ==
  ASSUME Control, Placed, NEW t \in Runner, PerformIo(t)
  PROVE  Placed'
<1>1. PICK s \in Sock :
        /\ UNCHANGED << queue, mine, ops, work >> /\ pc[t] = "perform"
        /\ private[t] = 0 /\ mine[t] = << >>
        /\ \A v \in Runner \ {t} : Stays(v)
        /\ \/ /\ reading[s] = "queued" /\ reading' = [reading EXCEPT ![s] = "none"]
              /\ pc'[t] = "handler" /\ cur'[t] = Read(s) /\ private' = private
           \/ /\ reading' = reading /\ cur'[t] = cur[t] /\ cur[t] = Desc(s)
              /\ pc'[t] = "cleanup"
              /\ private' = [private EXCEPT ![t] = @ + 1]
  BY PerformFacts2
<1>2. OpTypes'
  BY <1>1 DEF Placed, OpTypes
<1>3. \A j : Fits(j) => Fits(j)'
  BY <1>1 DEF Fits, Control, Types
<1>4. Once' /\ Known' /\ InFront'
  BY <1>1, <1>3 DEF Placed, Once, Known, InFront
<1>5. ThreadOK(t)' /\ \A h \in Op : cur'[t] # Post(h)
  <2>1. CASE pc'[t] = "handler"
    <3>1. cur'[t] = Read(s) /\ private' = private /\ Len(mine'[t]) = 0
      BY <1>1, <2>1
    <3>2. cur'[t].kind = "read" /\ \A h \in Op : cur'[t] # Post(h)
      BY <3>1, ItemKinds, Kinds
    <3> QED
      BY <1>1, <2>1, <3>1, <3>2 DEF ThreadOK, InHandler
  <2>2. CASE pc'[t] = "cleanup"
    <3>1. cur'[t] = Desc(s) /\ private'[t] = 1
      BY <1>1, <2>2 DEF Placed, OpTypes
    <3>2. cur'[t].kind = "desc" /\ \A h \in Op : cur'[t] # Post(h)
      BY <3>1, Kinds
    <3> QED
      BY <1>1, <2>2, <3>1, <3>2 DEF ThreadOK, InHandler
  <2> QED
    BY <1>1, <2>1, <2>2
<1>6. Unshared' /\ \A v \in Runner : ThreadOK(v)'
  BY <1>1, <1>5, ThreadsStep DEF Placed
<1> QED
  BY <1>2, <1>4, <1>6 DEF Placed

\* The end of a handler.
LEMMA WorkCleanupFacts ==
  ASSUME Control, Placed, NEW t \in Runner, WorkCleanup(t)
  PROVE  /\ UNCHANGED << queue, mine, reading >> /\ pc[t] \in {"handler", "cleanup"}
         /\ work' = work + private[t] - 1
         /\ private' = [private EXCEPT ![t] = 0]
         /\ ops' = [h \in Op |-> IF cur[t] = Post(h) THEN "done" ELSE ops[h]]
         /\ cur'[t] = Task /\ pc'[t] \in {"flush", "stop"}
         /\ pc'[t] = "stop" => work' = 0
         /\ \A v \in Runner \ {t} : Stays(v)
<1>1. /\ UNCHANGED << queue, mine, reading >> /\ pc[t] \in {"handler", "cleanup"}
      /\ work' = work + private[t] - 1
      /\ private' = [private EXCEPT ![t] = 0]
      /\ ops' = [h \in Op |-> IF cur[t] = Post(h) THEN "done" ELSE ops[h]]
      /\ cur' = [cur EXCEPT ![t] = Task]
      /\ \/ pc' = [pc EXCEPT ![t] = "flush"] /\ then' = then
         \/ /\ pc' = [pc EXCEPT ![t] = "stop"] /\ work' = 0
            /\ then' = [then EXCEPT ![t] = "flush"]
  BY DEF WorkCleanup, Go, sockVars
<1>2. \A v \in Runner : v \in Threads
  BY ThreadKinds
<1>3. cur'[t] = Task /\ pc'[t] \in {"flush", "stop"} /\ (pc'[t] = "stop" => work' = 0)
  BY <1>1, <1>2 DEF Control, Types
<1>4. \A v \in Runner \ {t} : Stays(v)
  BY <1>1, <1>2 DEF Control, Types, Stays, Placed, OpTypes
<1> QED
  BY <1>1, <1>3, <1>4

LEMMA WorkCleanupPlaced ==
  ASSUME Control, Placed, NEW t \in Runner, WorkCleanup(t)
  PROVE  Placed'
<1>1. /\ UNCHANGED << queue, mine, reading >> /\ pc[t] \in {"handler", "cleanup"}
      /\ private' = [private EXCEPT ![t] = 0]
      /\ ops' = [h \in Op |-> IF cur[t] = Post(h) THEN "done" ELSE ops[h]]
      /\ cur'[t] = Task /\ pc'[t] \in {"flush", "stop"}
      /\ \A v \in Runner \ {t} : Stays(v)
  BY WorkCleanupFacts
<1>2. OpTypes'
  BY <1>1 DEF Placed, OpTypes
<1>3. \A h \in Op : cur[t] = Post(h) => InHandler(t) /\ ops[h] = "running"
  BY <1>1, Kinds DEF Placed, ThreadOK, InHandler
<1>4. \A j : Fits(j) => Fits(j)'
  BY <1>1, <1>3 DEF Fits
<1>5. Once' /\ Known' /\ InFront'
  BY <1>1, <1>4 DEF Placed, Once, Known, InFront
<1>6. ~ InHandler(t)' /\ private'[t] = 0
  BY <1>1 DEF InHandler, Placed, OpTypes
<1>7. ThreadOK(t)'
  BY <1>1, <1>6 DEF ThreadOK
<1>8. \A h \in Op : ops[h] = "running" /\ ops'[h] # "running"
                      => InHandler(t) /\ cur[t] = Post(h)
  BY <1>1, <1>3
<1>9. Unshared' /\ \A v \in Runner : ThreadOK(v)'
  BY <1>1, <1>6, <1>7, <1>8, ThreadsStep DEF Placed
<1> QED
  BY <1>2, <1>5, <1>9 DEF Placed

-----------------------------------------------------------------------------
(* The count of the work.                                                  *)

PendingOps == { h \in Op : ops[h] \in {"posted", "running"} }

Started == { s \in Sock : reading[s] # "none" }

\* The thread runs the handler of a read, or has made up for one.
RunsRead(t) ==
  cur[t].kind \in {"read", "desc"} /\ (InHandler(t) \/ pc[t] = "cleanup")

ReadsRun == { t \in Runner : RunsRead(t) }

Unadded == UNION { {t} \X (1 .. private[t]) : t \in Runner }

Balance ==
  /\ work \in Int /\ IsFiniteSet(Unadded)
  /\ work + Cardinality(Unadded) =
       Guards + Cardinality(PendingOps) + Cardinality(Started) + Cardinality(ReadsRun)

LEMMA AddOne ==
  ASSUME NEW S, NEW T, NEW x, IsFiniteSet(S), x \notin S, T = S \cup {x}
  PROVE  IsFiniteSet(T) /\ Cardinality(S) \in Nat /\ Cardinality(T) = Cardinality(S) + 1
BY FS_AddElement, FS_CardinalityType

LEMMA RemoveOne ==
  ASSUME NEW S, NEW T, NEW x, IsFiniteSet(S), x \in S, T = S \ {x}
  PROVE  IsFiniteSet(T) /\ Cardinality(S) \in Nat /\ Cardinality(T) = Cardinality(S) - 1
BY FS_RemoveElement, FS_CardinalityType

LEMMA Column ==
  ASSUME NEW t, NEW k \in Nat
  PROVE  IsFiniteSet({t} \X (1 .. k)) /\ Cardinality({t} \X (1 .. k)) = k
<1>1. IsFiniteSet({t}) /\ Cardinality({t}) = 1
  BY FS_Singleton
<1> DEFINE J == 1 .. k
<1>2. IsFiniteSet(J) /\ Cardinality(J) = k
  BY FS_Interval
<1> HIDE DEF J
<1>3. IsFiniteSet({t} \X J) /\ Cardinality({t} \X J) = 1 * k
  BY <1>1, <1>2, FS_Product
<1> QED
  BY <1>3 DEF J

LEMMA FiniteCounts ==
  /\ IsFiniteSet(PendingOps) /\ IsFiniteSet(Started) /\ IsFiniteSet(ReadsRun)
  /\ Cardinality(PendingOps) \in Nat /\ Cardinality(Started) \in Nat
  /\ Cardinality(ReadsRun) \in Nat
<1>1. IsFiniteSet(Op)
  BY SchedulerAssumption, FS_Interval DEF Op
<1>2. /\ PendingOps \in SUBSET Op /\ Started \in SUBSET Sock
      /\ ReadsRun \in SUBSET Runner
  BY DEF PendingOps, Started, ReadsRun
<1>3. IsFiniteSet(PendingOps) /\ IsFiniteSet(Started) /\ IsFiniteSet(ReadsRun)
  BY <1>1, <1>2, FS_Subset, SchedulerAssumption
<1> QED
  BY <1>3, FS_CardinalityType

LEMMA CountTypes ==
  ASSUME Balance
  PROVE  /\ Cardinality(PendingOps) \in Nat /\ Cardinality(Started) \in Nat
         /\ Cardinality(ReadsRun) \in Nat /\ Cardinality(Unadded) \in Nat
         /\ Guards \in Nat /\ Guards >= 1
BY FiniteCounts, FS_CardinalityType, SchedulerAssumption DEF Balance

LEMMA UnaddedIn ==
  ASSUME NEW t \in Runner, NEW n
  PROVE  << t, n >> \in Unadded <=> n \in 1 .. private[t]
BY DEF Unadded

\* One operation more that the thread has to add.
LEMMA UnaddedMore ==
  ASSUME OpTypes, NEW t \in Runner, private' = [private EXCEPT ![t] = @ + 1],
         IsFiniteSet(Unadded)
  PROVE  /\ IsFiniteSet(Unadded') /\ Cardinality(Unadded) \in Nat
         /\ Cardinality(Unadded') = Cardinality(Unadded) + 1
<1>1. /\ private[t] \in Nat /\ private'[t] = private[t] + 1
      /\ \A v \in Runner \ {t} : private'[v] = private[v]
  BY DEF OpTypes
<1> DEFINE x == << t, private[t] + 1 >>
<1>2. x \notin Unadded
  BY <1>1, UnaddedIn
<1>3. 1 .. private'[t] = (1 .. private[t]) \cup {private[t] + 1}
  BY <1>1
<1>4. {t} \X (1 .. private'[t]) = ({t} \X (1 .. private[t])) \cup {x}
  BY <1>3
<1>5. Unadded' = Unadded \cup {x}
  BY <1>1, <1>4 DEF Unadded
<1> QED
  BY <1>2, <1>5, AddOne

\* The thread has added them.
LEMMA UnaddedNone ==
  ASSUME OpTypes, NEW t \in Runner, private' = [private EXCEPT ![t] = 0],
         IsFiniteSet(Unadded)
  PROVE  /\ IsFiniteSet(Unadded') /\ Cardinality(Unadded) \in Nat
         /\ Cardinality(Unadded') = Cardinality(Unadded) - private[t]
<1>1. /\ private[t] \in Nat /\ private'[t] = 0
      /\ \A v \in Runner \ {t} : private'[v] = private[v]
  BY DEF OpTypes
<1> DEFINE own == {t} \X (1 .. private[t])
<1>2. own \subseteq Unadded
  BY DEF Unadded
<1>3. {t} \X (1 .. private'[t]) = {}
  BY <1>1
<1>4. Unadded' = Unadded \ own
  BY <1>1, <1>3 DEF Unadded
<1>5. Cardinality(own) = private[t]
  BY <1>1, Column
<1>6. Unadded \cap own = own
  BY <1>2
<1> HIDE DEF own
<1>7. /\ IsFiniteSet(Unadded \ own)
      /\ Cardinality(Unadded \ own) = Cardinality(Unadded) - Cardinality(Unadded \cap own)
  BY FS_Difference
<1>8. Cardinality(Unadded) \in Nat
  BY FS_CardinalityType
<1> QED
  BY <1>4, <1>5, <1>6, <1>7, <1>8

LEMMA UnaddedSame ==
  ASSUME private' = private
  PROVE  Unadded' = Unadded
BY DEF Unadded

LEMMA StaysReads ==
  ASSUME NEW v, Stays(v)
  PROVE  RunsRead(v)' <=> RunsRead(v)
BY DEF Stays, RunsRead, InHandler

LEMMA ReadsRest ==
  ASSUME \A v \in Runner : RunsRead(v)' <=> RunsRead(v)
  PROVE  ReadsRun' = ReadsRun
BY DEF ReadsRun

LEMMA ReadsOne ==
  ASSUME NEW t \in Runner, \A v \in Runner \ {t} : Stays(v)
  PROVE  /\ (RunsRead(t)' <=> RunsRead(t)) => ReadsRun' = ReadsRun
         /\ RunsRead(t)' /\ ~ RunsRead(t) =>
              Cardinality(ReadsRun') = Cardinality(ReadsRun) + 1
         /\ ~ RunsRead(t)' /\ RunsRead(t) =>
              Cardinality(ReadsRun') = Cardinality(ReadsRun) - 1
<1>1. \A v \in Runner \ {t} : RunsRead(v)' <=> RunsRead(v)
  BY StaysReads
<1>2. (RunsRead(t)' <=> RunsRead(t)) => ReadsRun' = ReadsRun
  BY <1>1 DEF ReadsRun
<1>3. ASSUME RunsRead(t)', ~ RunsRead(t)
      PROVE  Cardinality(ReadsRun') = Cardinality(ReadsRun) + 1
  <2>1. t \notin ReadsRun /\ ReadsRun' = ReadsRun \cup {t}
    BY <1>1, <1>3 DEF ReadsRun
  <2> QED
    BY <2>1, AddOne, FiniteCounts
<1>4. ASSUME ~ RunsRead(t)', RunsRead(t)
      PROVE  Cardinality(ReadsRun') = Cardinality(ReadsRun) - 1
  <2>1. t \in ReadsRun /\ ReadsRun' = ReadsRun \ {t}
    BY <1>1, <1>4 DEF ReadsRun
  <2> QED
    BY <2>1, RemoveOne, FiniteCounts
<1> QED
  BY <1>2, <1>3, <1>4

LEMMA PendingSame ==
  ASSUME \A h \in Op : ops'[h] \in {"posted", "running"} <=> ops[h] \in {"posted", "running"}
  PROVE  PendingOps' = PendingOps
BY DEF PendingOps

LEMMA PendingMore ==
  ASSUME OpTypes, NEW h \in Op, ops[h] = "new", ops' = [ops EXCEPT ![h] = "posted"]
  PROVE  Cardinality(PendingOps') = Cardinality(PendingOps) + 1
<1>1. h \notin PendingOps /\ PendingOps' = PendingOps \cup {h}
  BY DEF PendingOps, OpTypes
<1> QED
  BY <1>1, AddOne, FiniteCounts

LEMMA StartedMore ==
  ASSUME Control, NEW s \in Sock, reading[s] = "none",
         NEW x \in {"queued", "done"}, reading' = [reading EXCEPT ![s] = x]
  PROVE  Cardinality(Started') = Cardinality(Started) + 1
<1>1. s \notin Started /\ Started' = Started \cup {s}
  BY DEF Started, Control, Types
<1> QED
  BY <1>1, AddOne, FiniteCounts

LEMMA StartedLess ==
  ASSUME Control, NEW s \in Sock, reading[s] # "none",
         reading'[s] = "none", \A r \in Sock \ {s} : reading'[r] = reading[r]
  PROVE  Cardinality(Started') = Cardinality(Started) - 1
<1>1. s \in Started /\ Started' = Started \ {s}
  BY DEF Started, Control, Types
<1> QED
  BY <1>1, RemoveOne, FiniteCounts

\* The steps that leave the work alone.
LEMMA SameBalance ==
  ASSUME Balance, UNCHANGED << work, private, ops, reading >>,
         \A v \in Runner : RunsRead(v)' <=> RunsRead(v)
  PROVE  Balance'
<1>1. Unadded' = Unadded /\ ReadsRun' = ReadsRun
  BY UnaddedSame, ReadsRest
<1>2. PendingOps' = PendingOps /\ Started' = Started
  BY DEF PendingOps, Started
<1> QED
  BY <1>1, <1>2 DEF Balance

LEMMA QuietBalance ==
  ASSUME Control, NoStops, Balance, QuietStep
  PROVE  Balance'
<1>1. /\ UNCHANGED << queue, mine, ops, reading, private, cur >>
      /\ \A v \in Runner : Quiet(v)
  BY QuietFacts
<1>2. work' = work
  BY DEF QuietStep, Spurious, Rewait, Enter, Relock, Exit, Wait, Ends, Signal,
         StopAll, StopCall, Register, Arrive, asioVars, sharedVars
<1>3. ASSUME NEW v \in Runner
      PROVE  RunsRead(v)' <=> RunsRead(v)
  <2>1. Quiet(v) /\ cur' = cur
    BY <1>1
  <2>2. (InHandler(v)' <=> InHandler(v)) /\ (pc'[v] = "cleanup" <=> pc[v] = "cleanup")
    BY <2>1 DEF Quiet, Stays, InHandler
  <2> QED
    BY <2>1, <2>2 DEF RunsRead
<1> QED
  BY <1>1, <1>2, <1>3, SameBalance

\* A step of a thread that runs nothing, before and after.
LEMMA IdleBalance ==
  ASSUME Balance, UNCHANGED << work, private, ops, reading >>,
         NEW t \in Runner, \A v \in Runner \ {t} : Stays(v),
         ~ RunsRead(t), ~ RunsRead(t)'
  PROVE  Balance'
<1>1. \A v \in Runner : RunsRead(v)' <=> RunsRead(v)
  BY StaysReads
<1> QED
  BY <1>1, SameBalance

LEMMA LoopBalance ==
  ASSUME Control, Reactor, OwnQueues, Placed, Balance, NEW t \in Runner,
         TakeTask(t) \/ Epoll(t) \/ TaskCleanup(t) \/ Flush(t)
  PROVE  Balance'
<1>1. UNCHANGED << work, private, ops, reading >>
  BY DEF TakeTask, Epoll, TaskCleanup, Flush, sharedVars, sockVars
<1>2. CASE TakeTask(t)
  <2>1. pc[t] = "top" /\ cur'[t] = Task /\ \A v \in Runner \ {t} : Stays(v)
    BY <1>2, TakeTaskPlaced
  <2>2. ~ RunsRead(t) /\ ~ RunsRead(t)'
    BY <2>1, Kinds DEF RunsRead, InHandler
  <2> QED
    BY <1>1, <2>1, <2>2, IdleBalance
<1>3. CASE Epoll(t) \/ TaskCleanup(t) \/ Flush(t)
  <2>1. /\ pc[t] \in {"epoll", "returned", "flush"}
        /\ pc'[t] \in {"returned", "top", "enter"}
        /\ \A v \in Runner \ {t} : Stays(v)
    BY <1>3, EpollPlaced, TaskCleanupPlaced, FlushPlaced
  <2>2. ~ RunsRead(t) /\ ~ RunsRead(t)'
    BY <2>1 DEF RunsRead, InHandler
  <2> QED
    BY <1>1, <2>1, <2>2, IdleBalance
<1> QED
  BY <1>2, <1>3

LEMMA TakeBalance ==
  ASSUME Control, Placed, Balance, NEW t \in Runner, Take(t)
  PROVE  Balance'
<1> DEFINE o == Head(queue)
<1>1. /\ queue # << >> /\ o \in Item /\ o # Task
      /\ pc[t] = "top" /\ UNCHANGED << private, work >>
      /\ ops' = [h \in Op |-> IF o = Post(h) THEN "running" ELSE ops[h]]
      /\ reading' = [s \in Sock |-> IF o = Read(s) THEN "none" ELSE reading[s]]
      /\ cur'[t] = o /\ \A v \in Runner \ {t} : Stays(v)
      /\ pc'[t] # "cleanup"
      /\ ~ InHandler(t) /\ (InHandler(t)' <=> o.kind # "desc")
  BY TakeFacts
<1>2. Fits(o)
  <2>1. queue \in Seq(Item) /\ 1 \in 1 .. Len(queue) /\ queue[1] = o
    BY <1>1, TailFacts DEF Control, Types
  <2> QED
    BY <2>1 DEF Placed, Known
<1> HIDE DEF o
<1>3. PendingOps' = PendingOps
  BY <1>1, <1>2, PendingSame DEF Fits
<1>4. Unadded' = Unadded
  BY <1>1, UnaddedSame
<1>5. ~ RunsRead(t) /\ (RunsRead(t)' <=> o.kind = "read")
  BY <1>1 DEF RunsRead, InHandler
<1>6. CASE \E s \in Sock : o = Read(s)
  <2>1. PICK s \in Sock : o = Read(s)
    BY <1>6
  <2>2. reading[s] = "done"
    BY <1>2, <2>1 DEF Fits
  <2>3. reading'[s] = "none" /\ \A r \in Sock \ {s} : reading'[r] = reading[r]
    BY <1>1, <2>1, ItemKinds
  <2>4. Cardinality(Started') = Cardinality(Started) - 1
    BY <2>2, <2>3, StartedLess
  <2>5. Cardinality(ReadsRun') = Cardinality(ReadsRun) + 1
    BY <1>1, <1>5, <2>1, Kinds, ReadsOne
  <2> QED
    BY <1>1, <1>3, <1>4, <2>4, <2>5, CountTypes DEF Balance
<1>7. CASE \A s \in Sock : o # Read(s)
  <2>1. Started' = Started
    BY <1>1, <1>7 DEF Started
  <2>2. ReadsRun' = ReadsRun
    BY <1>1, <1>5, <1>7, ItemKinds, Kinds, ReadsOne
  <2> QED
    BY <1>1, <1>3, <1>4, <2>1, <2>2 DEF Balance
<1> QED
  BY <1>6, <1>7

LEMMA PostBalance ==
  ASSUME Control, Placed, Balance, NEW u \in Outsider, NEW h \in Op, PostCall(u, h)
  PROVE  Balance'
<1>1. /\ ops[h] = "new" /\ ops' = [ops EXCEPT ![h] = "posted"] /\ work' = work + 1
      /\ UNCHANGED << cur, private, reading >>
  BY DEF PostCall, IsNext, sockVars
<1>2. ReadsRun' = ReadsRun
  BY <1>1, PostPlaced, ReadsRest DEF RunsRead
<1>3. Cardinality(PendingOps') = Cardinality(PendingOps) + 1
  BY <1>1, PendingMore DEF Placed
<1>4. Unadded' = Unadded /\ Started' = Started
  BY <1>1, UnaddedSame DEF Started
<1> QED
  BY <1>1, <1>2, <1>3, <1>4, CountTypes DEF Balance

LEMMA ReadBalance ==
  ASSUME Control, Placed, Balance, NEW t \in Runner, NEW s \in Sock,
         StartRead(t, s) \/ Close(t, s)
  PROVE  Balance'
<1>1. UNCHANGED << cur, private, ops >>
  BY ReadFacts
<1>2. ReadsRun' = ReadsRun
  BY <1>1, ReadPlaced, ReadsRest DEF RunsRead
<1>3. Unadded' = Unadded /\ PendingOps' = PendingOps
  BY <1>1, UnaddedSame DEF PendingOps
<1>4. CASE StartRead(t, s)
  <2>1. /\ reading[s] = "none" /\ work' = work + 1
        /\ \E x \in {"queued", "done"} : reading' = [reading EXCEPT ![s] = x]
    BY <1>4 DEF StartRead
  <2>2. Cardinality(Started') = Cardinality(Started) + 1
    BY <2>1, StartedMore
  <2> QED
    BY <1>2, <1>3, <2>1, <2>2, CountTypes DEF Balance
<1>5. CASE Close(t, s)
  <2>1. /\ work' = work
        /\ reading' = reading \/ (reading[s] = "queued"
                                  /\ reading' = [reading EXCEPT ![s] = "done"])
    BY <1>5 DEF Close
  <2>2. Started' = Started
    BY <2>1 DEF Started, Control, Types
  <2> QED
    BY <1>2, <1>3, <2>1, <2>2 DEF Balance
<1> QED
  BY <1>4, <1>5

LEMMA DeferBalance ==
  ASSUME Control, Placed, Balance, NEW t \in Runner, NEW h \in Op, Defer(t, h)
  PROVE  Balance'
<1>1. /\ ops[h] = "new" /\ ops' = [ops EXCEPT ![h] = "posted"]
      /\ private' = [private EXCEPT ![t] = @ + 1]
      /\ UNCHANGED << pc, then, cur, reading, work >>
  BY DEF Defer, IsNext, sharedVars, sockVars
<1>2. ReadsRun' = ReadsRun /\ Started' = Started
  BY <1>1 DEF ReadsRun, RunsRead, InHandler, Started
<1>3. Cardinality(PendingOps') = Cardinality(PendingOps) + 1
  BY <1>1, PendingMore DEF Placed
<1>4. /\ IsFiniteSet(Unadded') /\ Cardinality(Unadded) \in Nat
      /\ Cardinality(Unadded') = Cardinality(Unadded) + 1
  BY <1>1, UnaddedMore DEF Placed, Balance
<1> QED
  BY <1>1, <1>2, <1>3, <1>4, CountTypes DEF Balance

LEMMA PerformBalance ==
  ASSUME Control, Placed, Balance, NEW t \in Runner, PerformIo(t)
  PROVE  Balance'
<1>1. PICK s \in Sock :
        /\ UNCHANGED << queue, mine, ops, work >> /\ pc[t] = "perform"
        /\ private[t] = 0 /\ mine[t] = << >>
        /\ \A v \in Runner \ {t} : Stays(v)
        /\ \/ /\ reading[s] = "queued" /\ reading' = [reading EXCEPT ![s] = "none"]
              /\ pc'[t] = "handler" /\ cur'[t] = Read(s) /\ private' = private
           \/ /\ reading' = reading /\ cur'[t] = cur[t] /\ cur[t] = Desc(s)
              /\ pc'[t] = "cleanup"
              /\ private' = [private EXCEPT ![t] = @ + 1]
  BY PerformFacts2
<1>2. ~ RunsRead(t) /\ RunsRead(t)'
  BY <1>1, Kinds DEF RunsRead, InHandler
<1>3. Cardinality(ReadsRun') = Cardinality(ReadsRun) + 1
  BY <1>1, <1>2, ReadsOne
<1>4. PendingOps' = PendingOps
  BY <1>1 DEF PendingOps
<1>5. CASE /\ reading[s] = "queued" /\ reading' = [reading EXCEPT ![s] = "none"]
           /\ private' = private
  <2>1. reading'[s] = "none" /\ \A r \in Sock \ {s} : reading'[r] = reading[r]
    BY <1>5 DEF Control, Types
  <2>2. Cardinality(Started') = Cardinality(Started) - 1
    BY <1>5, <2>1, StartedLess
  <2>3. Unadded' = Unadded
    BY <1>5, UnaddedSame
  <2> QED
    BY <1>1, <1>3, <1>4, <2>2, <2>3, CountTypes DEF Balance
<1>6. CASE reading' = reading /\ private' = [private EXCEPT ![t] = @ + 1]
  <2>1. /\ IsFiniteSet(Unadded') /\ Cardinality(Unadded) \in Nat
        /\ Cardinality(Unadded') = Cardinality(Unadded) + 1
    BY <1>6, UnaddedMore DEF Placed, Balance
  <2>2. Started' = Started
    BY <1>6 DEF Started
  <2>3. work' = work
    BY <1>1
  <2> QED
    BY <1>3, <1>4, <2>1, <2>2, <2>3, CountTypes DEF Balance
<1> QED
  BY <1>1, <1>5, <1>6

LEMMA WorkCleanupBalance ==
  ASSUME Control, Placed, Balance, NEW t \in Runner, WorkCleanup(t)
  PROVE  Balance'
<1>1. /\ reading' = reading /\ pc[t] \in {"handler", "cleanup"}
      /\ work' = work + private[t] - 1
      /\ private' = [private EXCEPT ![t] = 0]
      /\ ops' = [h \in Op |-> IF cur[t] = Post(h) THEN "done" ELSE ops[h]]
      /\ cur'[t] = Task
      /\ \A v \in Runner \ {t} : Stays(v)
  BY WorkCleanupFacts
<1>2. /\ cur[t].kind \in {"post", "read", "desc"} /\ cur[t] \in Item
      /\ \A h \in Op : cur[t] = Post(h) => ops[h] = "running"
      /\ InHandler(t) \/ pc[t] = "cleanup"
  BY <1>1, Kinds DEF Placed, ThreadOK, InHandler, Control, Types
<1>3. ~ RunsRead(t)' /\ (RunsRead(t) <=> cur[t].kind # "post")
  BY <1>1, <1>2, Kinds DEF RunsRead
<1>4. /\ IsFiniteSet(Unadded') /\ Cardinality(Unadded) \in Nat
      /\ Cardinality(Unadded') = Cardinality(Unadded) - private[t]
      /\ private[t] \in Nat
  BY <1>1, UnaddedNone DEF Placed, OpTypes, Balance
<1>5. Started' = Started
  BY <1>1 DEF Started
<1>6. CASE \E h \in Op : cur[t] = Post(h)
  <2>1. PICK h \in Op : cur[t] = Post(h)
    BY <1>6
  <2>2. ops'[h] = "done" /\ \A g \in Op \ {h} : ops'[g] = ops[g]
    BY <1>1, <2>1, ItemKinds
  <2>3. h \in PendingOps /\ PendingOps' = PendingOps \ {h}
    BY <1>2, <2>1, <2>2 DEF PendingOps
  <2>4. Cardinality(PendingOps') = Cardinality(PendingOps) - 1
    BY <2>3, RemoveOne, FiniteCounts
  <2>5. ReadsRun' = ReadsRun
    BY <1>1, <1>3, <2>1, Kinds, ReadsOne
  <2> QED
    BY <1>1, <1>4, <1>5, <2>4, <2>5, CountTypes DEF Balance
<1>7. CASE \A h \in Op : cur[t] # Post(h)
  <2>1. PendingOps' = PendingOps
    BY <1>1, <1>7, PendingSame
  <2>2. RunsRead(t)
    BY <1>2, <1>3, <1>7, ItemKinds, Kinds
  <2>3. Cardinality(ReadsRun') = Cardinality(ReadsRun) - 1
    BY <1>1, <1>3, <2>2, ReadsOne
  <2> QED
    BY <1>1, <1>4, <1>5, <2>1, <2>3, CountTypes DEF Balance
<1> QED
  BY <1>6, <1>7
-----------------------------------------------------------------------------
(* Work that never ends keeps the threads in run().                        *)

\* What a thread keeps for the end of its handler are handlers.
LEMMA OwnPosts ==
  ASSUME Control, OwnQueues, Placed, NEW t \in Runner, pc[t] # "returned",
         NEW n \in 1 .. Len(mine[t])
  PROVE  \E h \in PendingOps : mine[t][n] = Post(h)
<1>1. mine[t][n] \in Item /\ mine[t][n] # Task
  BY DEF Control, Types
<1>2. \A s \in Sock : mine[t][n] # Desc(s)
  BY DEF OwnQueues, Lacks
<1>3. Fits(mine[t][n]) /\ mine[t][n].kind # "read"
  BY DEF Placed, Known
<1>4. PICK h \in Op : mine[t][n] = Post(h)
  BY <1>1, <1>2, <1>3, ItemKinds
<1>5. h \in PendingOps
  BY <1>3, <1>4 DEF Fits, PendingOps
<1> QED
  BY <1>4, <1>5

\* Each operation that has yet to be added has been posted, or is a read that
\* is made up for.
LEMMA UnaddedBound ==
  ASSUME Control, OwnQueues, Placed, Balance
  PROVE  Cardinality(Unadded) <= Cardinality(PendingOps) + Cardinality(ReadsRun)
<1> DEFINE posts == {0} \X PendingOps
           reads == {1} \X ReadsRun
           f == [x \in Unadded |-> IF pc[x[1]] = "cleanup" THEN << 1, x[1] >>
                                   ELSE << 0, mine[x[1]][x[2]].id >>]
<1>1. ASSUME NEW x \in Unadded
      PROVE  /\ x[1] \in Runner /\ x = << x[1], x[2] >> /\ ThreadOK(x[1])
             /\ pc[x[1]] = "cleanup" => x[2] = 1 /\ x[1] \in ReadsRun
             /\ pc[x[1]] # "cleanup" => /\ pc[x[1]] # "returned"
                                        /\ x[2] \in 1 .. Len(mine[x[1]])
  <2>1. PICK t \in Runner : x \in {t} \X (1 .. private[t])
    BY DEF Unadded
  <2>2. x[1] = t /\ x = << x[1], x[2] >> /\ x[2] \in 1 .. private[t]
    BY <2>1
  <2>3. ThreadOK(t)
    BY DEF Placed
  <2>4. CASE pc[t] = "cleanup"
    <3>1. private[t] = 1 /\ cur[t].kind = "desc"
      BY <2>3, <2>4 DEF ThreadOK, InHandler
    <3>2. x[2] = 1
      BY <2>2, <3>1
    <3> QED
      BY <2>2, <2>3, <2>4, <3>1, <3>2 DEF ReadsRun, RunsRead
  <2>5. CASE pc[t] # "cleanup"
    <3>1. InHandler(t) /\ private[t] = Len(mine[t])
      BY <2>2, <2>3, <2>5 DEF ThreadOK
    <3> QED
      BY <2>2, <2>3, <2>5, <3>1 DEF InHandler
  <2> QED
    BY <2>4, <2>5
<1>2. ASSUME NEW x \in Unadded, pc[x[1]] # "cleanup"
      PROVE  \E h \in PendingOps : mine[x[1]][x[2]] = Post(h) /\ f[x] = << 0, h >>
  BY <1>1, <1>2, OwnPosts DEF Post
<1>3. ASSUME NEW x \in Unadded, pc[x[1]] = "cleanup"
      PROVE  f[x] = << 1, x[1] >> /\ x[1] \in ReadsRun
  BY <1>1, <1>3
<1> HIDE DEF f
<1>4. f \in [Unadded -> posts \cup reads]
  <2>1. ASSUME NEW x \in Unadded
        PROVE  f[x] \in posts \cup reads
    <3>1. CASE pc[x[1]] = "cleanup"
      BY <1>3, <3>1
    <3>2. CASE pc[x[1]] # "cleanup"
      <4>1. PICK h \in PendingOps : f[x] = << 0, h >>
        BY <1>2, <3>2
      <4> QED
        BY <4>1
    <3> QED
      BY <3>1, <3>2
  <2> QED
    BY <2>1 DEF f
<1>5. ASSUME NEW x \in Unadded, NEW y \in Unadded, f[x] = f[y]
      PROVE  x = y
  <2>1. CASE pc[x[1]] = "cleanup" /\ pc[y[1]] = "cleanup"
    <3>1. x[1] = y[1]
      BY <1>3, <1>5, <2>1
    <3> QED
      BY <1>1, <2>1, <3>1
  <2>2. CASE pc[x[1]] # "cleanup" /\ pc[y[1]] # "cleanup"
    <3>1. mine[x[1]][x[2]] = mine[y[1]][y[2]]
      BY <1>2, <1>5, <2>2
    <3>2. x[1] = y[1]
      BY <1>1, <2>2, <3>1 DEF Placed, Once, Apart
    <3>3. x[2] = y[2]
      BY <1>1, <2>2, <3>1, <3>2 DEF Placed, Once, Distinct
    <3> QED
      BY <1>1, <3>2, <3>3
  <2>3. CASE ~ (pc[x[1]] = "cleanup" <=> pc[y[1]] = "cleanup")
    BY <1>2, <1>3, <1>5, <2>3
  <2> QED
    BY <2>1, <2>2, <2>3
<1>6. f \in Injection(Unadded, posts \cup reads)
  BY <1>4, <1>5 DEF Injection, IsInjective
<1>7. /\ IsFiniteSet(posts) /\ Cardinality(posts) = Cardinality(PendingOps)
      /\ IsFiniteSet(reads) /\ Cardinality(reads) = Cardinality(ReadsRun)
  <2>1. /\ IsFiniteSet({0}) /\ Cardinality({0}) = 1
        /\ IsFiniteSet({1}) /\ Cardinality({1}) = 1
    BY FS_Singleton
  <2>2. /\ IsFiniteSet(posts) /\ Cardinality(posts) = 1 * Cardinality(PendingOps)
        /\ IsFiniteSet(reads) /\ Cardinality(reads) = 1 * Cardinality(ReadsRun)
    BY <2>1, FiniteCounts, FS_Product
  <2> QED
    BY <2>2, FiniteCounts
<1>8. posts \cap reads = {}
  OBVIOUS
<1> HIDE DEF posts, reads
<1>9. /\ IsFiniteSet(posts \cup reads)
      /\ Cardinality(posts \cup reads)
           = Cardinality(posts) + Cardinality(reads) - Cardinality(posts \cap reads)
  BY <1>7, FS_Union
<1>10. Cardinality(posts \cap reads) = 0
  BY <1>8, FS_EmptySet
<1>11. Cardinality(Unadded) <= Cardinality(posts \cup reads)
  BY <1>6, <1>9, FS_Injection
<1> QED
  BY <1>7, <1>9, <1>10, <1>11, FiniteCounts

Guarded == work \in Nat /\ work >= 1

LEMMA WorkGuarded == Control /\ OwnQueues /\ Placed /\ Balance => Guarded
<1> SUFFICES ASSUME Control, OwnQueues, Placed, Balance
             PROVE  Guarded
  OBVIOUS
<1>1. Cardinality(Unadded) <= Cardinality(PendingOps) + Cardinality(ReadsRun)
  BY UnaddedBound
<1> QED
  BY <1>1, CountTypes DEF Balance, Guarded

LEMMA WorkGuardedNext ==
  Control' /\ OwnQueues' /\ Placed' /\ Balance' => Guarded'
BY WorkGuarded, PTL

\* A thread in run() stops the others only when no work is left.
LEMMA StopFacts ==
  ASSUME Control, Next, NEW v \in Runner, pc'[v] = "stop"
  PROVE  \/ pc[v] = "stop"
         \/ Enter(v) /\ work = 0
         \/ WorkCleanup(v) /\ work' = 0
<1>1. /\ \A t \in Runner : t \in Threads /\ t \notin Outsider
      /\ pc \in [Threads -> PCs]
  BY ThreadKinds DEF Control, Types
<1>2. ASSUME NEW t \in Runner,
             \/ Spurious(t) \/ Rewait(t) \/ Relock(t) \/ Exit(t) \/ Wait(t)
      PROVE  pc[v] = "stop"
  BY <1>1, <1>2 DEF Spurious, Rewait, Relock, Exit, Wait, Go
<1>3. ASSUME NEW t \in Runner, Enter(t)
      PROVE  pc[v] = "stop" \/ (Enter(v) /\ work = 0)
  BY <1>1, <1>3 DEF Enter, Go
<1>4. ASSUME NEW t \in Runner, WorkCleanup(t)
      PROVE  pc[v] = "stop" \/ (WorkCleanup(v) /\ work' = 0)
  BY <1>1, <1>4 DEF WorkCleanup, Go
<1>5. ASSUME NEW t \in Runner, TakeTask(t) \/ Take(t)
      PROVE  pc[v] = "stop"
  BY <1>1, <1>5, TakeTaskControl, TakeControl
<1>6. ASSUME NEW t \in Runner, Epoll(t) \/ TaskCleanup(t) \/ PerformIo(t) \/ Flush(t)
      PROVE  pc[v] = "stop"
  BY <1>1, <1>6 DEF Epoll, TaskCleanup, PerformIo, Flush, Go
<1>7. ASSUME NEW t \in Runner, NEW s \in Sock, StartRead(t, s) \/ Close(t, s)
      PROVE  pc[v] = "stop"
  <2>1. \/ UNCHANGED << pc, then >>
        \/ /\ pc' = [pc EXCEPT ![t] = "signal"]
           /\ then' = [then EXCEPT ![t] = pc[t]]
    BY <1>1, <1>7, SocketControl, CallsControl
  <2> QED
    BY <1>1, <2>1
<1>8. ASSUME NEW u \in Outsider, NEW h \in Op, PostCall(u, h)
      PROVE  pc[v] = "stop"
  <2>1. \/ UNCHANGED << pc, then >>
        \/ /\ pc' = [pc EXCEPT ![u] = "signal"]
           /\ then' = [then EXCEPT ![u] = pc[u]]
    BY <1>8, ThreadKinds, PostControl, CallsControl
  <2> QED
    BY <1>1, <2>1
<1>9. ASSUME NEW t \in Runner, NEW h \in Op, Defer(t, h)
      PROVE  pc[v] = "stop"
  BY <1>9 DEF Defer
<1>10. ASSUME NEW u \in Outsider, StopCall(u) \/ \E s \in Sock : Register(u, s)
       PROVE  pc[v] = "stop"
  BY <1>1, <1>10 DEF StopCall, Register, Go
<1>11. ASSUME NEW u \in Threads, Ends(u)
       PROVE  pc[v] = "stop"
  <2>1. CASE v = u
    BY <1>11, <2>1, EndsFacts DEF Control, Returns
  <2>2. CASE v # u
    BY <1>1, <1>11, <2>2, EndsFacts
  <2> QED
    BY <2>1, <2>2
<1>12. ASSUME NEW s \in Sock, Arrive(s)
       PROVE  pc[v] = "stop"
  BY <1>12 DEF Arrive
<1> QED
  BY <1>2, <1>3, <1>4, <1>5, <1>6, <1>7, <1>8, <1>9, <1>10, <1>11, <1>12
     DEF Next, Loop

\* The io_context is stopped by threads outside that have been told to.
Told ==
  /\ stopped => told
  /\ \A u \in Outsider : pc[u] = "stop" => told

LEMMA ToldStep ==
  ASSUME Control, NoStops, Told, Next
  PROVE  Told'
<1>1. /\ \A t \in Runner : t \in Threads
      /\ \A u \in Outsider : u \in Threads /\ u \notin Runner
      /\ pc \in [Threads -> PCs]
  BY ThreadKinds DEF Control, Types
<1>2. ASSUME stopped' = stopped, told' = told,
             \A u \in Outsider : pc'[u] = "stop" => pc[u] = "stop"
      PROVE  Told'
  BY <1>2 DEF Told
<1>3. ASSUME NEW t \in Runner, Loop(t) \/ Spurious(t)
      PROVE  Told'
  <2>1. stopped' = stopped /\ told' = told
    BY <1>3 DEF Loop, Spurious, Rewait, Enter, Relock, Exit, Wait, TakeTask, Take,
                Epoll, TaskCleanup, PerformIo, WorkCleanup, Flush, sharedVars
  <2>2. \E x : pc' = [pc EXCEPT ![t] = x]
    BY <1>3 DEF Loop, Spurious, Rewait, Enter, Relock, Exit, Wait, TakeTask, Take,
                Epoll, TaskCleanup, PerformIo, WorkCleanup, Flush, WakeOne, Go
  <2>3. \A u \in Outsider : pc'[u] = pc[u]
    BY <1>1, <2>2
  <2> QED
    BY <1>2, <2>1, <2>3
<1>4. ASSUME NEW t \in Runner, NEW s \in Sock, StartRead(t, s) \/ Close(t, s)
      PROVE  Told'
  <2>1. stopped' = stopped /\ told' = told
    BY <1>4 DEF StartRead, Close
  <2>2. \/ UNCHANGED << pc, then >>
        \/ /\ pc' = [pc EXCEPT ![t] = "signal"]
           /\ then' = [then EXCEPT ![t] = pc[t]]
    BY <1>1, <1>4, SocketControl, CallsControl
  <2> QED
    BY <1>1, <1>2, <2>1, <2>2
<1>5. ASSUME NEW u \in Outsider, NEW h \in Op, PostCall(u, h)
      PROVE  Told'
  <2>1. stopped' = stopped /\ told' = told
    BY <1>5 DEF PostCall
  <2>2. \/ UNCHANGED << pc, then >>
        \/ /\ pc' = [pc EXCEPT ![u] = "signal"]
           /\ then' = [then EXCEPT ![u] = pc[u]]
    BY <1>5, ThreadKinds, PostControl, CallsControl
  <2> QED
    BY <1>1, <1>2, <2>1, <2>2
<1>6. ASSUME \/ \E t \in Runner, h \in Op : Defer(t, h)
             \/ \E u \in Outsider, s \in Sock : Register(u, s)
             \/ \E s \in Sock : Arrive(s)
      PROVE  Told'
  BY <1>2, <1>6 DEF Defer, Register, Arrive, sharedVars
<1>7. ASSUME NEW u \in Outsider, StopCall(u)
      PROVE  Told'
  BY <1>7 DEF StopCall, Told
<1>8. ASSUME NEW u \in Threads, Ends(u)
      PROVE  Told'
  <2>1. told' = told
    BY <1>8 DEF Ends, Signal, StopAll
  <2>2. \A v \in Outsider : pc'[v] = "stop" => pc[v] = "stop"
    <3>1. pc'[u] # "stop"
      BY <1>8, EndsFacts
    <3> QED
      BY <1>1, <1>8, <3>1, EndsFacts
  <2>3. CASE Signal(u)
    <3>1. stopped' = stopped
      BY <2>3 DEF Signal, sharedVars
    <3> QED
      BY <1>2, <2>1, <2>2, <3>1
  <2>4. CASE StopAll(u)
    <3>1. pc[u] = "stop" /\ u \in Outsider
      BY <2>4 DEF StopAll, NoStops, Threads
    <3>2. told
      BY <3>1 DEF Told
    <3> QED
      BY <2>1, <3>2 DEF Told
  <2> QED
    BY <1>8, <2>3, <2>4 DEF Ends
<1> QED
  BY <1>3, <1>4, <1>5, <1>6, <1>7, <1>8 DEF Next

\* The invariant: the one for the reactor, and operations in their places.
WorkInv == IInv /\ NoStops /\ Placed /\ Balance /\ Told

LEMMA WorkInit == Init => WorkInv
<1> SUFFICES ASSUME Init
             PROVE  WorkInv
  OBVIOUS
<1>1. IInv
  BY InitInv
<1>2. \A t \in Runner : t \in Threads /\ pc[t] = "enter"
  BY ThreadKinds DEF Init
<1>3. \A u \in Outsider : pc[u] = "free"
  BY ThreadKinds DEF Init
<1>4. NoStops /\ Told
  BY <1>2, <1>3 DEF Init, NoStops, Told
<1>5. /\ queue = << Task >> /\ Len(queue) = 1
      /\ mine = [t \in Runner |-> << >>] /\ private = [t \in Runner |-> 0]
      /\ ops = [h \in Op |-> "new"] /\ reading = [s \in Sock |-> "none"]
      /\ work = Guards
  BY DEF Init
<1>6. \A t \in Runner : ~ InHandler(t) /\ ~ RunsRead(t) /\ ThreadOK(t)
  BY <1>2, <1>5 DEF InHandler, RunsRead, ThreadOK
<1>7. Once
  <2>1. Distinct(queue)
    BY <1>5, Kinds, SingleFacts
  <2> QED
    BY <1>5, <2>1, EmptyApart DEF Once
<1>8. Known
  BY <1>5, ItemKinds DEF Known, Fits
<1>9. InFront
  BY <1>5, Kinds DEF InFront
<1>10. Placed
  BY <1>5, <1>6, <1>7, <1>8, <1>9 DEF Placed, OpTypes, Unshared
<1>11. /\ PendingOps = {} /\ Started = {} /\ ReadsRun = {} /\ Unadded = {}
  BY <1>5, <1>6 DEF PendingOps, Started, ReadsRun, Unadded
<1>12. Balance
  BY <1>5, <1>11, FS_EmptySet, SchedulerAssumption DEF Balance
<1> QED
  BY <1>1, <1>4, <1>10, <1>12 DEF WorkInv

LEMMA WorkStep == WorkInv /\ [Next]_asioVars => WorkInv'
<1> SUFFICES ASSUME WorkInv, [Next]_asioVars
             PROVE  WorkInv'
  OBVIOUS
<1>1. IInv'
  BY StepInv DEF WorkInv
<1>2. /\ Control /\ Reactor /\ OwnQueues /\ Control' /\ OwnQueues'
      /\ NoStops /\ Placed /\ Balance /\ Told
  BY <1>1 DEF WorkInv, IInv
<1>3. Placed' /\ Balance'
  <2>1. CASE QuietStep
    BY <1>2, <2>1, QuietPlaced, QuietBalance
  <2>2. ASSUME NEW t \in Runner, TakeTask(t) \/ Epoll(t) \/ TaskCleanup(t) \/ Flush(t)
        PROVE  Placed' /\ Balance'
    BY <1>2, <2>2, TakeTaskPlaced, EpollPlaced, TaskCleanupPlaced, FlushPlaced,
       LoopBalance
  <2>3. ASSUME NEW t \in Runner, Take(t) \/ PerformIo(t) \/ WorkCleanup(t)
        PROVE  Placed' /\ Balance'
    BY <1>2, <2>3, TakePlaced, PerformPlaced, WorkCleanupPlaced,
       TakeBalance, PerformBalance, WorkCleanupBalance
  <2>4. ASSUME NEW t \in Runner, NEW s \in Sock, StartRead(t, s) \/ Close(t, s)
        PROVE  Placed' /\ Balance'
    BY <1>2, <2>4, ReadPlaced, ReadBalance
  <2>5. ASSUME NEW t \in Runner, NEW h \in Op, Defer(t, h)
        PROVE  Placed' /\ Balance'
    BY <1>2, <2>5, DeferPlaced, DeferBalance
  <2>6. ASSUME NEW u \in Outsider, NEW h \in Op, PostCall(u, h)
        PROVE  Placed' /\ Balance'
    BY <1>2, <2>6, PostPlaced, PostBalance
  <2> QED
    BY <2>1, <2>2, <2>3, <2>4, <2>5, <2>6 DEF Next, Loop, QuietStep
<1>4. NoStops'
  <2>1. work # 0 /\ work' # 0
    BY <1>2, <1>3, WorkGuarded, WorkGuardedNext DEF Guarded
  <2>2. CASE Next
    BY <1>2, <2>1, <2>2, StopFacts DEF NoStops
  <2>3. CASE UNCHANGED asioVars
    BY <1>2, <2>3 DEF NoStops, asioVars
  <2> QED
    BY <2>2, <2>3
<1>5. Told'
  <2>1. CASE Next
    BY <1>2, <2>1, ToldStep
  <2>2. CASE UNCHANGED asioVars
    BY <1>2, <2>2 DEF Told, asioVars, sharedVars
  <2> QED
    BY <2>1, <2>2
<1> QED
  BY <1>1, <1>3, <1>4, <1>5 DEF WorkInv

LEMMA WorkHolds == Spec => []WorkInv
BY WorkInit, WorkStep, PTL DEF Spec

LEMMA AtMostOne ==
  ASSUME NEW S, \A x, y \in S : x = y
  PROVE  Cardinality(S) <= 1
<1>1. CASE S = {}
  BY <1>1, FS_EmptySet
<1>2. CASE S # {}
  <2>1. PICK x \in S : S = {x}
    BY <1>2
  <2> QED
    BY <2>1, FS_Singleton
<1> QED
  BY <1>1, <1>2

\* An operation is a link of one list at a time: the queue of the scheduler,
\* or the private queue of a thread, and there in one place.  Nothing that is
\* queued twice would be run twice, or cut the list it was in.
THEOREM OperationsAreQueuedOnce == Spec => []EnqueuedOnce
<1>1. ASSUME WorkInv
      PROVE  EnqueuedOnce
  <2> DEFINE places(i) ==
        ({None} \X { n \in DOMAIN queue : queue[n] = i })
        \cup UNION { {t} \X { n \in DOMAIN mine[t] : mine[t][n] = i } : t \in Runner }
  <2> SUFFICES ASSUME NEW i \in Item
               PROVE  Cardinality(places(i)) <= 1
    BY DEF EnqueuedOnce
  <2>1. Once /\ DOMAIN queue = 1 .. Len(queue)
        /\ \A t \in Runner : DOMAIN mine[t] = 1 .. Len(mine[t])
    BY <1>1 DEF WorkInv, IInv, Control, Types, Placed
  <2>2. None \notin Runner
    BY SchedulerAssumption
  <2>3. ASSUME NEW x \in places(i)
        PROVE  /\ x = << x[1], x[2] >>
               /\ \/ x[1] = None /\ x[2] \in 1 .. Len(queue) /\ queue[x[2]] = i
                  \/ /\ x[1] \in Runner /\ x[2] \in 1 .. Len(mine[x[1]])
                     /\ mine[x[1]][x[2]] = i
    BY <2>1
  <2> HIDE DEF places
  <2>4. ASSUME NEW x \in places(i), NEW y \in places(i)
        PROVE  x = y
    <3>1. x[1] = y[1]
      BY <2>1, <2>3 DEF Once, Apart
    <3>2. x[2] = y[2]
      BY <2>1, <2>2, <2>3, <3>1 DEF Once, Distinct
    <3> QED
      BY <2>3, <3>1, <3>2
  <2> QED
    BY <2>4, AtMostOne
<1> QED
  BY <1>1, WorkHolds, PTL

\* outstanding_work_ counts what has been started and has not finished, less
\* what the running handlers add when they end.  The counts of posts, reads,
\* continuations and descriptors that run without a read never drift apart.
THEOREM WorkIsCounted == Spec => []WorkExact
<1>1. ASSUME WorkInv
      PROVE  WorkExact
  <2>1. Balance /\ Returns
    BY <1>1 DEF WorkInv, IInv, Control
  <2>2. \A t \in Runner : t \in Threads
    BY ThreadKinds
  <2>3. ReadsRun = { t \in Runner : /\ cur[t].kind \in {"read", "desc"}
                                    /\ \/ pc[t] \in {"handler", "cleanup"}
                                       \/ pc[t] \in {"signal", "stop"}
                                          /\ then[t] = "handler" }
    BY <2>1, <2>2 DEF ReadsRun, RunsRead, InHandler, Returns
  <2> QED
    BY <2>1, <2>3 DEF Balance, PendingOps, Started, Unadded, WorkExact
<1> QED
  BY <1>1, WorkHolds, PTL

\* With an operation outstanding that never ends, as Crow's tick, the threads
\* stay in run() until stop() is called: the count of the work never reaches
\* zero, not even for a moment between two handlers.
THEOREM RunsUntilTold == Spec => []StopsWhenTold
<1>1. WorkInv => StopsWhenTold
  BY DEF WorkInv, Told, StopsWhenTold
<1> QED
  BY <1>1, WorkHolds, PTL

-----------------------------------------------------------------------------
(* The types of the variables that no other invariant speaks of.           *)

Others ==
  /\ lock \in Runner \cup {None}
  /\ interrupted \in BOOLEAN /\ stopped \in BOOLEAN /\ bit \in BOOLEAN
  /\ rearmed \in BOOLEAN /\ told \in BOOLEAN
  /\ block \in [Runner -> BOOLEAN]
  /\ opens \in [Sock -> Nat]

LEMMA WakeOthers ==
  ASSUME Others, NEW u, NEW where, WakeOne(u, where),
         UNCHANGED << stopped, told, block >>, opens' \in [Sock -> Nat]
  PROVE  Others'
BY DEF WakeOne, Interrupt, Others

LEMMA OthersStep ==
  ASSUME Others, [Next]_asioVars
  PROVE  Others'
<1>1. ASSUME NEW t \in Runner,
             \/ Spurious(t) \/ Rewait(t) \/ Enter(t) \/ Relock(t) \/ Exit(t) \/ Wait(t)
      PROVE  Others'
  BY <1>1 DEF Spurious, Rewait, Enter, Relock, Exit, Wait, Others, sharedVars,
              threadVars, sockVars
<1>2. ASSUME NEW t \in Runner,
             \/ TakeTask(t) \/ Epoll(t) \/ TaskCleanup(t) \/ PerformIo(t)
             \/ WorkCleanup(t) \/ Flush(t)
      PROVE  Others'
  BY <1>2 DEF TakeTask, Epoll, TaskCleanup, PerformIo, WorkCleanup, Flush, Others,
              sharedVars, threadVars, sockVars
<1>3. ASSUME NEW t \in Runner, Take(t)
      PROVE  Others'
  <2>1. UNCHANGED << stopped, told, block, opens >>
    BY <1>3 DEF Take
  <2>2. \/ \E where : WakeOne(t, where)
        \/ lock' = None /\ UNCHANGED << bit, interrupted, rearmed >>
    BY <1>3 DEF Take
  <2> QED
    BY <2>1, <2>2, WakeOthers DEF Others
<1>4. ASSUME NEW t \in Runner, NEW s \in Sock, StartRead(t, s) \/ Close(t, s)
      PROVE  Others'
  <2>1. UNCHANGED << stopped, told, block >>
    BY <1>4 DEF StartRead, Close
  <2>2. opens' \in [Sock -> Nat]
    BY <1>4 DEF StartRead, Close, Others
  <2>3. \/ \E where : WakeOne(t, where)
        \/ UNCHANGED << lock, bit, interrupted, rearmed >>
    BY <1>4 DEF StartRead, Close, Push
  <2> QED
    BY <2>1, <2>2, <2>3, WakeOthers DEF Others
<1>5. ASSUME NEW u \in Outsider, NEW h \in Op, PostCall(u, h)
      PROVE  Others'
  <2>1. UNCHANGED << stopped, told, block, opens >> /\ WakeOne(u, pc[u])
    BY <1>5 DEF PostCall, Push, sockVars
  <2> QED
    BY <2>1, WakeOthers DEF Others
<1>6. ASSUME \/ \E t \in Runner, h \in Op : Defer(t, h)
             \/ \E u \in Outsider : StopCall(u) \/ \E s \in Sock : Register(u, s)
             \/ \E s \in Sock : Arrive(s)
             \/ UNCHANGED asioVars
      PROVE  Others'
  <2>1. UNCHANGED << lock, interrupted, stopped, bit, rearmed, block >>
    BY <1>6 DEF Defer, StopCall, Register, Arrive, asioVars, sharedVars, threadVars
  <2>2. told' \in {told, TRUE}
    BY <1>6 DEF Defer, StopCall, Register, Arrive, asioVars
  <2>3. opens' = opens \/ \E s \in Sock : opens' = [opens EXCEPT ![s] = @ + 1]
    BY <1>6 DEF Defer, StopCall, Register, Arrive, asioVars, sockVars
  <2>4. opens' \in [Sock -> Nat]
    BY <2>3 DEF Others
  <2> QED
    BY <2>1, <2>2, <2>4 DEF Others
<1>7. ASSUME NEW u \in Threads, Ends(u)
      PROVE  Others'
  BY <1>7 DEF Ends, Signal, StopAll, Interrupt, Others, sharedVars, sockVars
<1> QED
  BY <1>1, <1>2, <1>3, <1>4, <1>5, <1>6, <1>7 DEF Next, Loop

-----------------------------------------------------------------------------
(* Who sees to what is in the queue.                                       *)

Sleeper(t) == pc[t] = "epoll" \/ (pc[t] = "signal" /\ then[t] = "epoll")

Awake == {"enter", "relock", "top", "returned", "flush", "cleanup"}

\* A thread is on its way to the queue, or a signal is, or the reactor has
\* been told, or there is nobody to wake.
Seen ==
  \/ \E t \in Runner : pc[t] \in Awake
  \/ bit /\ \E t \in Runner : pc[t] = "woken"
  \/ bit /\ (\E u \in Threads : pc[u] = "signal") /\ \E t \in Runner : pc[t] = "waiting"
  \/ \E t \in Runner : Sleeper(t) /\ (~ block[t] \/ rearmed)
  \/ Waiters = {} /\ \A t \in Runner : ~ Sleeper(t)

SeenTo == queue # << >> /\ ~ stopped => Seen

\* The reactor is interrupted only by a wake that it will get.
Alert == \A t \in Runner : Sleeper(t) /\ interrupted => ~ block[t] \/ rearmed

\* wake_one_thread_and_unlock, by a thread that does not sleep.
LEMMA WakeSeen ==
  ASSUME Control, Alert, NEW u \in Threads, block' = block,
         NEW where \in {"perform", "handler", "free"}, WakeOne(u, where),
         pc[u] \in {"top", "handler", "free"}
  PROVE  Seen' /\ Alert'
<1>1. /\ pc \in [Threads -> PCs] /\ then \in [Threads -> Thens]
      /\ \A v \in Runner : v \in Threads
  BY ThreadKinds DEF Control, Types
<1>2. CASE Waiters # {}
  <2>1. /\ bit' = TRUE /\ UNCHANGED << interrupted, rearmed >>
        /\ pc' = [pc EXCEPT ![u] = "signal"] /\ then' = [then EXCEPT ![u] = where]
    BY <1>2 DEF WakeOne, Go
  <2>2. PICK v \in Runner : pc[v] \in {"waiting", "woken"}
    BY <1>2 DEF Waiters
  <2>3. pc'[v] = pc[v] /\ pc'[u] = "signal"
    BY <1>1, <2>1, <2>2
  <2>4. Seen'
    BY <2>1, <2>2, <2>3 DEF Seen
  <2>5. ASSUME NEW w \in Runner, Sleeper(w)'
        PROVE  Sleeper(w)
    BY <1>1, <2>1, <2>5 DEF Sleeper
  <2> QED
    BY <2>1, <2>4, <2>5 DEF Alert
<1>3. CASE Waiters = {}
  <2>1. /\ pc' = [pc EXCEPT ![u] = where] /\ then' = then
        /\ rearmed' = (rearmed \/ ~ interrupted)
    BY <1>3 DEF WakeOne, Go, Interrupt
  <2>2. ASSUME NEW w \in Runner
        PROVE  /\ Sleeper(w)' <=> Sleeper(w)
               /\ pc'[w] \in {"waiting", "woken"} => pc[w] \in {"waiting", "woken"}
    BY <1>1, <2>1 DEF Sleeper
  <2>3. Waiters' = {}
    BY <1>3, <2>2 DEF Waiters
  <2>4. \A w \in Runner : Sleeper(w) => ~ block[w] \/ rearmed'
    BY <2>1 DEF Alert
  <2> QED
    BY <2>2, <2>3, <2>4 DEF Seen, Alert
<1> QED
  BY <1>2, <1>3

\* A step after which everybody who saw to the queue still does.
LEMMA SeenStays ==
  ASSUME SeenTo, Alert, queue' # << >> => queue # << >>,
         UNCHANGED << interrupted, stopped, bit, block, rearmed >>,
         \A v \in Runner : /\ pc[v] \in Awake => pc'[v] \in Awake
                           /\ pc'[v] \in {"waiting", "woken"} <=> pc[v] \in {"waiting", "woken"}
                           /\ pc[v] = "woken" => pc'[v] = "woken"
                           /\ Sleeper(v)' <=> Sleeper(v),
         \A u \in Threads : pc[u] = "signal" => pc'[u] = "signal"
  PROVE  SeenTo' /\ Alert'
<1>1. Alert'
  BY DEF Alert
<1>2. Waiters' = Waiters
  BY DEF Waiters
<1>3. Seen => Seen'
  <2>1. CASE \E t \in Runner : pc[t] \in Awake
    BY <2>1 DEF Seen
  <2>2. CASE bit /\ \E t \in Runner : pc[t] = "woken"
    BY <2>2 DEF Seen
  <2>3. CASE bit /\ (\E u \in Threads : pc[u] = "signal") /\ \E t \in Runner : pc[t] = "waiting"
    <3>1. PICK t \in Runner : pc[t] = "waiting"
      BY <2>3
    <3>2. pc'[t] \in {"waiting", "woken"} /\ \E u \in Threads : pc'[u] = "signal"
      BY <2>3, <3>1
    <3> QED
      BY <2>3, <3>2 DEF Seen
  <2>4. CASE \E t \in Runner : Sleeper(t) /\ (~ block[t] \/ rearmed)
    BY <2>4 DEF Seen
  <2>5. CASE Waiters = {} /\ \A t \in Runner : ~ Sleeper(t)
    BY <1>2, <2>5 DEF Seen
  <2> QED
    BY <2>1, <2>2, <2>3, <2>4, <2>5 DEF Seen
<1> QED
  BY <1>1, <1>3 DEF SeenTo

\* A step that leaves a thread on its way to the queue.
LEMMA SeenSoon ==
  ASSUME Alert, NEW t \in Runner, pc'[t] \in Awake,
         UNCHANGED << interrupted, block, rearmed >>,
         \A v \in Runner : Sleeper(v)' => Sleeper(v)
  PROVE  SeenTo' /\ Alert'
BY DEF Seen, SeenTo, Alert

\* The steps of a thread by which it gets closer to the queue.
LEMMA NearerSeen ==
  ASSUME Control, SeenTo, Alert, NEW t \in Runner,
         \/ Enter(t) /\ work # 0
         \/ Relock(t) \/ Flush(t)
         \/ WorkCleanup(t) /\ work' # 0
  PROVE  SeenTo' /\ Alert'
<1>1. /\ \A v \in Runner : v \in Threads
      /\ pc \in [Threads -> PCs]
  BY ThreadKinds DEF Control, Types
<1>2. /\ UNCHANGED << interrupted, block, rearmed, then >>
      /\ \E x \in Awake : pc' = [pc EXCEPT ![t] = x]
  BY DEF Enter, Relock, Flush, WorkCleanup, Go, sharedVars, threadVars, Awake
<1>3. pc'[t] \in Awake
  BY <1>1, <1>2
<1>4. \A v \in Runner : Sleeper(v)' => Sleeper(v)
  BY <1>1, <1>2 DEF Sleeper, Awake
<1> QED
  BY <1>2, <1>3, <1>4, SeenSoon

\* The steps of a thread that waits or stops to.
LEMMA WaitSeen ==
  ASSUME Control, SeenTo, Alert, NEW t \in Runner,
         Spurious(t) \/ Rewait(t) \/ Exit(t) \/ Wait(t)
  PROVE  SeenTo' /\ Alert'
<1>1. /\ \A v \in Runner : v \in Threads
      /\ pc \in [Threads -> PCs]
  BY ThreadKinds DEF Control, Types
<1>2. /\ UNCHANGED << queue, stopped, interrupted, block, rearmed, then >>
      /\ pc[t] \in {"waiting", "woken", "top"}
      /\ \E x \in {"waiting", "woken", "top", "exited"} : pc' = [pc EXCEPT ![t] = x]
  BY DEF Spurious, Rewait, Exit, Wait, Go, AtTop, sharedVars, threadVars
<1>3. \A v \in Runner : Sleeper(v)' <=> Sleeper(v)
  BY <1>1, <1>2 DEF Sleeper
<1>4. Alert'
  BY <1>2, <1>3 DEF Alert
<1>5. CASE Exit(t) \/ Wait(t)
  BY <1>2, <1>4, <1>5 DEF Exit, Wait, SeenTo
<1>6. CASE Rewait(t) /\ bit
  <2>1. pc'[t] = "top"
    BY <1>1, <1>6 DEF Rewait, Go
  <2> QED
    BY <1>4, <2>1 DEF SeenTo, Seen, Awake
<1>7. CASE (Rewait(t) /\ ~ bit) \/ Spurious(t)
  <2>1. /\ pc[t] \in {"waiting", "woken"} /\ bit' = bit
        /\ \E x \in {"waiting", "woken"} : pc' = [pc EXCEPT ![t] = x]
        /\ bit => pc'[t] = "woken"
    BY <1>1, <1>7 DEF Rewait, Spurious, Go, sharedVars
  <2>2. t \in Waiters
    BY <2>1 DEF Waiters
  <2>3. \A v \in Threads \ {t} : pc'[v] = pc[v]
    BY <1>1, <2>1
  <2>4. ASSUME \E v \in Runner : pc[v] \in Awake
        PROVE  \E v \in Runner : pc'[v] \in Awake
    BY <1>1, <2>1, <2>3, <2>4 DEF Awake
  <2>5. ASSUME bit
        PROVE  \E v \in Runner : pc'[v] = "woken"
    BY <2>1, <2>5
  <2> QED
    BY <1>2, <1>3, <1>4, <2>1, <2>2, <2>4, <2>5 DEF SeenTo, Seen
<1> QED
  BY <1>5, <1>6, <1>7

\* The steps of the reactor.
LEMMA ReactorSeen ==
  ASSUME Control, Reactor, Others, SeenTo, Alert, NEW t \in Runner,
         TakeTask(t) \/ Epoll(t) \/ TaskCleanup(t)
  PROVE  SeenTo' /\ Alert'
<1>1. /\ \A v \in Runner : v \in Threads
      /\ pc \in [Threads -> PCs]
  BY ThreadKinds DEF Control, Types
<1>2. CASE TakeTask(t)
  <2>1. /\ queue # << >> /\ Head(queue) = Task /\ queue' = Tail(queue)
        /\ \/ pc' = [pc EXCEPT ![t] = "epoll"] /\ then' = then
           \/ /\ pc' = [pc EXCEPT ![t] = "signal"]
              /\ then' = [then EXCEPT ![t] = "epoll"]
    BY <1>2, TakeTaskControl
  <2>2. /\ interrupted' = (queue' # << >>)
        /\ block' = [block EXCEPT ![t] = (queue' = << >>)]
    BY <1>2 DEF TakeTask
  <2>3. ~ Lacks(queue, Task)
    BY <2>1, TailFacts DEF Lacks, Control, Types
  <2>4. \A v \in Runner : ~ Sleeper(v)
    BY <2>3 DEF Reactor, InTask, Sleeper
  <2>5. Sleeper(t)' /\ \A v \in Runner \ {t} : ~ Sleeper(v)'
    BY <1>1, <2>1, <2>4 DEF Sleeper, Control, Types
  <2>6. block'[t] => queue' = << >>
    BY <2>2 DEF Others
  <2> QED
    BY <2>2, <2>5, <2>6 DEF SeenTo, Seen, Alert
<1>3. CASE Epoll(t) \/ TaskCleanup(t)
  <2>1. /\ pc[t] \in {"epoll", "returned"}
        /\ \E x \in {"returned", "top"} : pc' = [pc EXCEPT ![t] = x]
        /\ then' = then
    BY <1>3, EpollControl, TaskCleanupControl
  <2>2. InTask(t)
    BY <2>1 DEF InTask
  <2>3. \A v \in Runner \ {t} : ~ Sleeper(v)
    BY <2>2 DEF Reactor, InTask, Sleeper
  <2>4. \A v \in Runner : ~ Sleeper(v)'
    BY <1>1, <2>1, <2>3 DEF Sleeper
  <2>5. pc'[t] \in Awake
    BY <1>1, <2>1 DEF Awake
  <2> QED
    BY <2>4, <2>5 DEF SeenTo, Seen, Alert
<1> QED
  BY <1>2, <1>3

LEMMA TakeSeen ==
  ASSUME Control, SeenTo, Alert, NEW t \in Runner, Take(t)
  PROVE  SeenTo' /\ Alert'
<1>1. /\ \A v \in Runner : v \in Threads
      /\ pc \in [Threads -> PCs]
  BY ThreadKinds DEF Control, Types
<1> DEFINE where == IF Head(queue).kind = "desc" THEN "perform" ELSE "handler"
<1>2. /\ pc[t] = "top" /\ block' = block /\ queue' = Tail(queue)
      /\ where \in {"perform", "handler"}
  BY DEF Take, AtTop
<1>3. CASE Tail(queue) # << >>
  <2>1. WakeOne(t, where)
    BY <1>3 DEF Take
  <2> HIDE DEF where
  <2> QED
    BY <1>1, <1>2, <2>1, WakeSeen DEF SeenTo
<1>4. CASE Tail(queue) = << >>
  <2>1. /\ pc' = [pc EXCEPT ![t] = where]
        /\ UNCHANGED << interrupted, rearmed, then >>
    BY <1>4 DEF Take, Go
  <2> HIDE DEF where
  <2>2. \A v \in Runner : Sleeper(v)' => Sleeper(v)
    BY <1>1, <1>2, <2>1 DEF Sleeper
  <2> QED
    BY <1>2, <1>4, <2>1, <2>2 DEF SeenTo, Alert
<1> QED
  BY <1>3, <1>4

LEMMA PerformSeen ==
  ASSUME Control, SeenTo, Alert, NEW t \in Runner, PerformIo(t)
  PROVE  SeenTo' /\ Alert'
<1>1. /\ \A v \in Runner : v \in Threads
      /\ pc \in [Threads -> PCs]
  BY ThreadKinds DEF Control, Types
<1>2. /\ UNCHANGED << queue, interrupted, stopped, bit, block, rearmed, then >>
      /\ pc[t] = "perform"
      /\ \E x \in {"handler", "cleanup"} : pc' = [pc EXCEPT ![t] = x]
  BY DEF PerformIo, Go, sharedVars
<1>3. \A u \in Threads \ {t} : pc'[u] = pc[u]
  BY <1>1, <1>2
<1>4. pc'[t] \in {"handler", "cleanup"}
  BY <1>1, <1>2
<1>5. \A v \in Runner :
        /\ pc[v] \in Awake => pc'[v] \in Awake
        /\ pc'[v] \in {"waiting", "woken"} <=> pc[v] \in {"waiting", "woken"}
        /\ pc[v] = "woken" => pc'[v] = "woken"
        /\ Sleeper(v)' <=> Sleeper(v)
  BY <1>1, <1>2, <1>3, <1>4 DEF Awake, Sleeper
<1>6. \A u \in Threads : pc[u] = "signal" => pc'[u] = "signal"
  BY <1>2, <1>3
<1> QED
  BY <1>2, <1>5, <1>6, SeenStays

\* A call that pushes.
LEMMA PushSeen ==
  ASSUME Control, Alert, NEW u \in Threads, NEW i, Push(u, i),
         pc[u] \in {"handler", "free"}, block' = block
  PROVE  SeenTo' /\ Alert'
BY WakeSeen DEF Push, SeenTo

\* A call that does not, and what happens outside.
LEMMA CallsSeen ==
  ASSUME Control, SeenTo, Alert,
         \/ UNCHANGED pc
         \/ \E u \in Outsider : pc[u] = "free" /\ pc' = [pc EXCEPT ![u] = "stop"],
         \A v \in Runner : then'[v] = then[v],
         UNCHANGED << queue, interrupted, stopped, bit, block, rearmed >>
  PROVE  SeenTo' /\ Alert'
<1>1. /\ \A v \in Runner : v \in Threads /\ v \notin Outsider
      /\ pc \in [Threads -> PCs]
  BY ThreadKinds DEF Control, Types
<1>2. \A v \in Runner : pc'[v] = pc[v]
  BY <1>1
<1>3. \A u \in Threads : pc[u] = "signal" => pc'[u] = "signal"
  BY <1>1
<1>4. \A v \in Runner : Sleeper(v)' <=> Sleeper(v)
  BY <1>2 DEF Sleeper
<1> QED
  BY <1>2, <1>3, <1>4, SeenStays

LEMMA SocketSeen ==
  ASSUME Control, SeenTo, Alert, NEW t \in Runner, NEW s \in Sock,
         StartRead(t, s) \/ Close(t, s)
  PROVE  SeenTo' /\ Alert'
<1>1. /\ pc[t] = "handler" /\ block' = block /\ stopped' = stopped
      /\ \/ Push(t, Read(s))
         \/ UNCHANGED << queue, bit, pc, then, interrupted, rearmed >>
  BY DEF StartRead, Close
<1> QED
  BY <1>1, ThreadKinds, PushSeen, CallsSeen

\* A thread that signals: whoever is woken has the bit.
LEMMA SignalSeen ==
  ASSUME Control, SeenTo, Alert, NEW u \in Threads, Signal(u)
  PROVE  SeenTo' /\ Alert'
<1>1. /\ \A v \in Runner : v \in Threads
      /\ pc \in [Threads -> PCs] /\ then \in [Threads -> Thens]
  BY ThreadKinds DEF Control, Types
<1>2. /\ UNCHANGED << queue, interrupted, stopped, bit, block, rearmed >>
      /\ pc[u] = "signal" /\ then' = [then EXCEPT ![u] = "none"]
  BY DEF Signal, sharedVars
<1>3. /\ pc'[u] = then[u] /\ then[u] \in {"epoll", "handler", "perform", "free"}
      /\ \A v \in Threads \ {u} :
           pc'[v] = pc[v] \/ (pc[v] = "waiting" /\ pc'[v] = "woken")
  BY <1>2, EndsFacts DEF Ends, Control, Returns
<1>4. \A v \in Runner : Sleeper(v)' <=> Sleeper(v)
  BY <1>1, <1>2, <1>3 DEF Sleeper
<1>5. Alert'
  BY <1>2, <1>4 DEF Alert
<1>6. ASSUME NEW t \in Runner, pc[t] = "waiting"
      PROVE  \E v \in Runner : pc'[v] = "woken"
  <2>1. \E v \in { v \in Runner : pc[v] = "waiting" } :
          pc' = [pc EXCEPT ![u] = then[u], ![v] = "woken"]
    BY <1>6 DEF Signal
  <2> QED
    BY <1>1, <2>1
<1>7. Seen => Seen'
  <2>1. CASE \E t \in Runner : pc[t] \in Awake
    BY <1>1, <1>2, <1>3, <2>1 DEF Seen, Awake
  <2>2. CASE bit /\ \E t \in Runner : pc[t] = "woken"
    BY <1>1, <1>2, <1>3, <2>2 DEF Seen
  <2>3. CASE bit /\ \E t \in Runner : pc[t] = "waiting"
    BY <1>2, <1>6, <2>3 DEF Seen
  <2>4. CASE \E t \in Runner : Sleeper(t) /\ (~ block[t] \/ rearmed)
    BY <1>2, <1>4, <2>4 DEF Seen
  <2>5. CASE Waiters = {} /\ \A t \in Runner : ~ Sleeper(t)
    <3>1. Waiters' = {}
      BY <1>1, <1>3, <2>5 DEF Waiters
    <3> QED
      BY <1>4, <2>5, <3>1 DEF Seen
  <2> QED
    BY <2>1, <2>2, <2>3, <2>4, <2>5 DEF Seen
<1> QED
  BY <1>2, <1>5, <1>7 DEF SeenTo

LEMMA StopAllSeen ==
  ASSUME Control, NoStops, SeenTo, Alert, NEW u \in Threads, StopAll(u)
  PROVE  SeenTo' /\ Alert'
<1>1. u \in Threads /\ u \notin Runner /\ \A v \in Runner : v \in Threads
  BY ThreadKinds DEF StopAll, NoStops
<1>2. stopped' = TRUE /\ block' = block /\ rearmed' = (rearmed \/ ~ interrupted)
  BY DEF StopAll, Interrupt
<1>3. ASSUME NEW v \in Runner, Sleeper(v)'
      PROVE  Sleeper(v)
  <2>1. then'[v] = then[v] /\ (pc'[v] = pc[v] \/ pc'[v] = "woken")
    BY <1>1, <1>3, EndsFacts DEF Ends
  <2> QED
    BY <1>3, <2>1 DEF Sleeper
<1> QED
  BY <1>2, <1>3 DEF SeenTo, Alert

LEMMA SeenStep ==
  WorkInv /\ WorkInv' /\ Others /\ SeenTo /\ Alert /\ [Next]_asioVars
    => SeenTo' /\ Alert'
<1> SUFFICES ASSUME WorkInv, WorkInv', Others, SeenTo, Alert, [Next]_asioVars
             PROVE  SeenTo' /\ Alert'
  OBVIOUS
<1>1. /\ Control /\ Reactor /\ OwnQueues /\ NoStops /\ Placed /\ Balance
      /\ Control' /\ OwnQueues' /\ Placed' /\ Balance'
  BY DEF WorkInv, IInv
<1>2. work # 0 /\ work' # 0
  BY <1>1, WorkGuarded, WorkGuardedNext DEF Guarded
<1>3. ASSUME NEW t \in Runner, Loop(t) \/ Spurious(t)
      PROVE  SeenTo' /\ Alert'
  BY <1>1, <1>2, <1>3, NearerSeen, WaitSeen, ReactorSeen, TakeSeen, PerformSeen
     DEF Loop
<1>4. ASSUME NEW t \in Runner, NEW s \in Sock, StartRead(t, s) \/ Close(t, s)
      PROVE  SeenTo' /\ Alert'
  BY <1>1, <1>4, SocketSeen
<1>5. ASSUME NEW u \in Outsider, NEW h \in Op, PostCall(u, h)
      PROVE  SeenTo' /\ Alert'
  <2>1. pc[u] = "free" /\ Push(u, Post(h)) /\ block' = block
    BY <1>5 DEF PostCall
  <2> QED
    BY <1>1, <2>1, ThreadKinds, PushSeen
<1>6. ASSUME \/ \E t \in Runner, h \in Op : Defer(t, h)
             \/ \E u \in Outsider, s \in Sock : Register(u, s)
             \/ \E s \in Sock : Arrive(s)
             \/ UNCHANGED asioVars
      PROVE  SeenTo' /\ Alert'
  <2>1. UNCHANGED << pc, then, queue, interrupted, stopped, bit, block, rearmed >>
    BY <1>6 DEF Defer, Register, Arrive, asioVars, sharedVars, threadVars
  <2> QED
    BY <1>1, <2>1, CallsSeen
<1>7. ASSUME NEW u \in Outsider, StopCall(u)
      PROVE  SeenTo' /\ Alert'
  <2>1. /\ UNCHANGED << queue, interrupted, stopped, bit, block, rearmed >>
        /\ pc[u] = "free" /\ pc' = [pc EXCEPT ![u] = "stop"]
        /\ then' = [then EXCEPT ![u] = "exited"]
    BY <1>7 DEF StopCall, Go, sharedVars
  <2>2. \A v \in Runner : then'[v] = then[v]
    BY <1>1, <2>1, ThreadKinds DEF Control, Types
  <2> QED
    BY <1>1, <2>1, <2>2, CallsSeen
<1>8. ASSUME NEW u \in Threads, Ends(u)
      PROVE  SeenTo' /\ Alert'
  BY <1>1, <1>8, SignalSeen, StopAllSeen DEF Ends
<1> QED
  BY <1>3, <1>4, <1>5, <1>6, <1>7, <1>8 DEF Next

FullInv == WorkInv /\ Others /\ SeenTo /\ Alert

LEMMA FullHolds == Spec => []FullInv
<1>1. Init => FullInv
  <2> SUFFICES ASSUME Init
               PROVE  Others /\ SeenTo /\ Alert
    BY WorkInit DEF FullInv
  <2>1. Others
    BY DEF Init, Others
  <2>2. \A t \in Runner : pc[t] = "enter"
    BY ThreadKinds DEF Init
  <2>3. \A t \in Runner : ~ Sleeper(t) /\ t \notin Waiters
    BY <2>2 DEF Sleeper, Waiters
  <2>4. SeenTo /\ Alert
    BY <2>3 DEF SeenTo, Seen, Alert, Waiters
  <2> QED
    BY <2>1, <2>4
<1>2. FullInv /\ [Next]_asioVars => FullInv'
  BY WorkStep, OthersStep, SeenStep DEF FullInv
<1> QED
  BY <1>1, <1>2, PTL DEF Spec

\* No operation waits in the queue while a thread that could run it sleeps,
\* unless another thread is about to look at the queue or to wake it up: the
\* wakes that the scheduler saves, of a thread when the reactor is told
\* instead, or of the reactor when it has been told before, are never missed.
THEOREM NoWakeIsMissed == Spec => []WorkConserving
<1>1. ASSUME FullInv
      PROVE  WorkConserving
  <2> SUFFICES ASSUME queue # << >>, ~ stopped,
                      NEW r \in Runner, Asleep(r)
               PROVE  \E u \in Threads : /\ ~ (u \in Runner /\ Asleep(u))
                                         /\ pc[u] \notin {"handler", "free", "exited"}
    BY DEF WorkConserving
  <2>1. Seen /\ \A t \in Runner : t \in Threads
    BY <1>1, ThreadKinds DEF FullInv, SeenTo
  <2>2. CASE \E t \in Runner : pc[t] \in Awake
    BY <2>1, <2>2 DEF Asleep, Awake
  <2>3. CASE \E t \in Runner : pc[t] = "woken"
    BY <2>1, <2>3 DEF Asleep
  <2>4. CASE \E u \in Threads : pc[u] = "signal"
    BY <2>4 DEF Asleep
  <2>5. CASE \E t \in Runner : Sleeper(t) /\ (~ block[t] \/ rearmed)
    BY <2>1, <2>5 DEF Asleep, Sleeper
  <2>6. CASE Waiters = {} /\ \A t \in Runner : ~ Sleeper(t)
    BY <2>6 DEF Asleep, Waiters, Sleeper
  <2> QED
    BY <2>1, <2>2, <2>3, <2>4, <2>5, <2>6 DEF Seen
<1> QED
  BY <1>1, FullHolds, PTL

\* Every variable keeps its type; in particular outstanding_work_ never wraps
\* below zero.
THEOREM SchedulerTypes == Spec => []TypeOK
<1>1. ASSUME FullInv
      PROVE  TypeOK
  <2>1. Control /\ Others /\ OpTypes /\ Guarded
    BY <1>1, WorkGuarded DEF FullInv, WorkInv, IInv, Placed
  <2>2. mine \in [Runner -> Seq(Item)]
    <3>1. \A t \in Runner : mine[t] \in Seq(Item)
      BY <2>1 DEF Control, Types
    <3> QED
      BY <2>1, <3>1 DEF Control, Types
  <2>3. \A u \in Threads : pc[u] \in PCs
    BY <2>1 DEF Control, Types
  <2> QED
    BY <2>1, <2>2, <2>3 DEF Control, Types, Others, OpTypes, Guarded, PCs, TypeOK
<1> QED
  BY <1>1, FullHolds, PTL

=============================================================================
