------------------------ MODULE AsioSchedulerProofs ------------------------
(***************************************************************************)
(* Theorems about AsioScheduler, for any number of threads, handlers and   *)
(* sockets.                                                                *)
(***************************************************************************)
EXTENDS AsioScheduler, FiniteSetTheorems, TLAPS

-----------------------------------------------------------------------------
(* Where the reactor is in a queue.                                        *)

\* A queue in which item i does not occur, or occurs once.
Lacks(q, i) == \A n \in 1 .. Len(q) : q[n] # i

HasOne(q, i) ==
  \E n \in 1 .. Len(q) : q[n] = i /\ \A m \in 1 .. Len(q) : q[m] = i => m = n

LEMMA TailFacts ==
  ASSUME NEW S, NEW q \in Seq(S), q # << >>
  PROVE  /\ Head(q) = q[1] /\ Head(q) \in S /\ 1 \in 1 .. Len(q)
         /\ Tail(q) \in Seq(S)
         /\ Len(q) \in Nat /\ Len(Tail(q)) = Len(q) - 1
         /\ \A n \in 1 .. Len(Tail(q)) :
              n + 1 \in 1 .. Len(q) /\ Tail(q)[n] = q[n + 1]
OBVIOUS

LEMMA ConcatFacts ==
  ASSUME NEW S, NEW q \in Seq(S), NEW r \in Seq(S)
  PROVE  /\ q \o r \in Seq(S)
         /\ Len(q) \in Nat /\ Len(r) \in Nat
         /\ Len(q \o r) = Len(q) + Len(r)
         /\ \A n \in 1 .. Len(q) : (q \o r)[n] = q[n]
         /\ \A n \in 1 .. Len(r) : (q \o r)[Len(q) + n] = r[n]
OBVIOUS

\* Each place of a concatenation is one of its parts.
LEMMA ConcatPlaces ==
  ASSUME NEW S, NEW q \in Seq(S), NEW r \in Seq(S),
         NEW n \in 1 .. Len(q \o r)
  PROVE  \/ n \in 1 .. Len(q) /\ (q \o r)[n] = q[n]
         \/ n - Len(q) \in 1 .. Len(r) /\ (q \o r)[n] = r[n - Len(q)]
<1>1. n \in Nat /\ Len(q) \in Nat /\ Len(r) \in Nat /\ n <= Len(q) + Len(r)
  BY ConcatFacts
<1>2. CASE n > Len(q)
  <2>1. n - Len(q) \in 1 .. Len(r) /\ n = Len(q) + (n - Len(q))
    BY <1>1, <1>2
  <2> QED
    BY <2>1, ConcatFacts
<1> QED
  BY <1>1, <1>2, ConcatFacts

LEMMA ConcatLacks ==
  ASSUME NEW S, NEW q \in Seq(S), NEW r \in Seq(S), NEW i, Lacks(r, i)
  PROVE  /\ Lacks(q, i) => Lacks(q \o r, i)
         /\ HasOne(q, i) => HasOne(q \o r, i)
<1>1. ASSUME Lacks(q, i)
      PROVE  Lacks(q \o r, i)
  BY <1>1, ConcatPlaces DEF Lacks
<1>2. ASSUME HasOne(q, i)
      PROVE  HasOne(q \o r, i)
  <2>1. PICK n \in 1 .. Len(q) : q[n] = i /\ \A m \in 1 .. Len(q) : q[m] = i => m = n
    BY <1>2 DEF HasOne
  <2>2. n \in 1 .. Len(q \o r) /\ (q \o r)[n] = i
    BY <2>1, ConcatFacts
  <2>3. ASSUME NEW m \in 1 .. Len(q \o r), (q \o r)[m] = i
        PROVE  m = n
    BY <2>1, <2>3, ConcatPlaces DEF Lacks
  <2> QED
    BY <2>2, <2>3 DEF HasOne
<1> QED
  BY <1>1, <1>2

LEMMA ConcatKeeps ==
  ASSUME NEW S, NEW q \in Seq(S), NEW r \in Seq(S), NEW i, ~ Lacks(q, i)
  PROVE  ~ Lacks(q \o r, i)
<1>1. PICK n \in 1 .. Len(q) : q[n] = i
  BY DEF Lacks
<1>2. n \in 1 .. Len(q \o r) /\ (q \o r)[n] = i
  BY <1>1, ConcatFacts
<1> QED
  BY <1>2 DEF Lacks

LEMMA AppendOne ==
  ASSUME NEW S, NEW q \in Seq(S), NEW i \in S, Lacks(q, i)
  PROVE  q \o << i >> \in Seq(S) /\ HasOne(q \o << i >>, i)
<1>1. << i >> \in Seq(S) /\ Len(<< i >>) = 1 /\ << i >>[1] = i
  OBVIOUS
<1>2. q \o << i >> \in Seq(S)
      /\ Len(q) \in Nat /\ Len(q \o << i >>) = Len(q) + 1
      /\ (q \o << i >>)[Len(q) + 1] = i
  BY <1>1, ConcatFacts
<1>3. ASSUME NEW m \in 1 .. Len(q \o << i >>), (q \o << i >>)[m] = i
      PROVE  m = Len(q) + 1
  BY <1>1, <1>2, <1>3, ConcatPlaces DEF Lacks
<1> QED
  BY <1>2, <1>3 DEF HasOne

LEMMA TailLacks ==
  ASSUME NEW S, NEW q \in Seq(S), q # << >>, NEW i
  PROVE  /\ Lacks(q, i) => Lacks(Tail(q), i)
         /\ HasOne(q, i) /\ Head(q) # i => HasOne(Tail(q), i)
         /\ HasOne(q, i) /\ Head(q) = i => Lacks(Tail(q), i)
<1>1. ASSUME Lacks(q, i)
      PROVE  Lacks(Tail(q), i)
  BY <1>1, TailFacts DEF Lacks
<1>2. ASSUME HasOne(q, i), Head(q) # i
      PROVE  HasOne(Tail(q), i)
  <2>1. PICK n \in 1 .. Len(q) : q[n] = i /\ \A m \in 1 .. Len(q) : q[m] = i => m = n
    BY <1>2 DEF HasOne
  <2>2. n - 1 \in 1 .. Len(Tail(q)) /\ n = (n - 1) + 1
    BY <1>2, <2>1, TailFacts
  <2>3. Tail(q)[n - 1] = i
    BY <2>1, <2>2, TailFacts
  <2>4. ASSUME NEW m \in 1 .. Len(Tail(q)), Tail(q)[m] = i
        PROVE  m = n - 1
    <3>1. m + 1 \in 1 .. Len(q) /\ q[m + 1] = i
      BY <2>4, TailFacts
    <3>2. m + 1 = n
      BY <2>1, <3>1
    <3> QED
      BY <3>2
  <2> QED
    BY <2>2, <2>3, <2>4 DEF HasOne
<1>3. ASSUME HasOne(q, i), Head(q) = i
      PROVE  Lacks(Tail(q), i)
  <2>1. PICK n \in 1 .. Len(q) : q[n] = i /\ \A m \in 1 .. Len(q) : q[m] = i => m = n
    BY <1>3 DEF HasOne
  <2>2. n = 1
    BY <1>3, <2>1, TailFacts
  <2>3. ASSUME NEW m \in 1 .. Len(Tail(q)), Tail(q)[m] = i
        PROVE  FALSE
    <3>1. m + 1 \in 1 .. Len(q) /\ q[m + 1] = i
      BY <2>3, TailFacts
    <3>2. m + 1 = 1
      BY <2>1, <2>2, <3>1
    <3> QED
      BY <3>2
  <2> QED
    BY <2>3 DEF Lacks
<1> QED
  BY <1>1, <1>2, <1>3

-----------------------------------------------------------------------------
(* The control invariant: where a thread can be, and what it then holds.   *)

PCs == {"enter", "relock", "top", "waiting", "woken", "signal", "epoll",
        "returned", "perform", "handler", "cleanup", "flush", "stop",
        "exited", "free"}

Thens == {"none", "epoll", "handler", "perform", "free", "exited", "flush"}

Types ==
  /\ pc \in [Threads -> PCs] /\ then \in [Threads -> Thens]
  /\ queue \in Seq(Item)
  /\ mine \in [Runner -> Seq(Item \ {Task})]
  /\ cur \in [Runner -> Item]
  /\ reading \in [Sock -> {"none", "queued", "done"}]
  /\ try \in [Sock -> BOOLEAN]
  /\ data \in [Sock -> Nat]
  /\ edge \in SUBSET Sock

\* A thread that signals or stops goes on to where it came from.
Returns ==
  \A u \in Threads :
    /\ pc[u] = "stop" => then[u] \in {"exited", "flush"}
    /\ pc[u] = "signal" => then[u] \in {"epoll", "handler", "perform", "free"}

\* Only a thread with a descriptor is about to perform it.
Holds ==
  \A t \in Runner :
    /\ pc[t] = "perform" => cur[t].kind = "desc"
    /\ pc[t] = "handler" => cur[t].kind # "desc"
    /\ pc[t] = "signal" => (cur[t].kind = "desc" <=> then[t] = "perform")

Control == Types /\ Returns /\ Holds

LEMMA Kinds ==
  /\ Task \in Item /\ Task.kind = "task"
  /\ \A h \in Op : Post(h) \in Item \ {Task} /\ Post(h).kind = "post"
  /\ \A s \in Sock : /\ Desc(s) \in Item \ {Task} /\ Read(s) \in Item \ {Task}
                     /\ Desc(s).kind = "desc" /\ Read(s).kind = "read"
                     /\ Desc(s).id = s
  /\ \A i \in Item : /\ i.kind = "desc" => i.id \in Sock /\ i = Desc(i.id)
                     /\ i.kind = "task" => i = Task
BY DEF Task, Item, Post, Desc, Read

LEMMA ThreadKinds ==
  /\ Runner \subseteq Threads
  /\ \A u \in Outsider : u \in Threads /\ u \notin Runner
BY SchedulerAssumption DEF Threads

\* What a push changes: the queue grows by the item, and the thread may have
\* to signal before it goes on.
LEMMA PushFacts ==
  ASSUME Control, NEW u \in Threads, NEW i \in Item, Push(u, i)
  PROVE  /\ queue' = Append(queue, i)
         /\ \/ UNCHANGED << pc, then >>
            \/ /\ pc' = [pc EXCEPT ![u] = "signal"]
               /\ then' = [then EXCEPT ![u] = pc[u]]
<1>1. pc \in [Threads -> PCs]
  BY DEF Control, Types
<1>2. [pc EXCEPT ![u] = pc[u]] = pc
  BY <1>1
<1> QED
  BY <1>2 DEF Push, WakeOne, Go

\* A handler, or an outsider, that pushes.
LEMMA PushControl ==
  ASSUME Control, NEW u \in Threads, NEW i \in Item, Push(u, i),
         \/ u \in Runner /\ pc[u] = "handler"
         \/ u \in Outsider /\ pc[u] = "free",
         UNCHANGED cur
  PROVE  /\ pc' \in [Threads -> PCs] /\ then' \in [Threads -> Thens]
         /\ queue' \in Seq(Item)
         /\ Returns' /\ Holds'
<1>1. /\ queue' = Append(queue, i)
      /\ \/ UNCHANGED << pc, then >>
         \/ /\ pc' = [pc EXCEPT ![u] = "signal"]
            /\ then' = [then EXCEPT ![u] = pc[u]]
  BY PushFacts
<1>2. queue' \in Seq(Item)
  BY <1>1 DEF Control, Types
<1>3. CASE UNCHANGED << pc, then >>
  BY <1>2, <1>3 DEF Control, Types, Returns, Holds
<1>4. CASE /\ pc' = [pc EXCEPT ![u] = "signal"]
           /\ then' = [then EXCEPT ![u] = pc[u]]
  <2>1. pc' \in [Threads -> PCs] /\ then' \in [Threads -> Thens]
    BY <1>4 DEF Control, Types, PCs, Thens
  <2>2. Returns'
    BY <1>4 DEF Control, Types, Returns
  <2>3. Holds'
    BY <1>4, ThreadKinds DEF Control, Types, Holds
  <2> QED
    BY <1>2, <2>1, <2>2, <2>3
<1> QED
  BY <1>1, <1>3, <1>4

-----------------------------------------------------------------------------
(* Every step keeps it.                                                    *)

\* The steps that only move a thread.
LEMMA MoveControl ==
  ASSUME Control, NEW t \in Runner,
         \/ Spurious(t) \/ Rewait(t) \/ Enter(t) \/ Relock(t) \/ Exit(t) \/ Wait(t)
  PROVE  Control'
<1>1. UNCHANGED << queue, mine, cur, reading, try, data, edge >>
  BY DEF Spurious, Rewait, Enter, Relock, Exit, Wait, sharedVars, threadVars, sockVars
<1>2. \/ /\ \E x \in {"woken", "top", "waiting", "relock", "exited"} :
              pc' = [pc EXCEPT ![t] = x]
         /\ then' = then
      \/ pc' = [pc EXCEPT ![t] = "stop"] /\ then' = [then EXCEPT ![t] = "exited"]
  BY DEF Spurious, Rewait, Enter, Relock, Exit, Wait, Go, threadVars
<1>3. t \in Threads
  BY ThreadKinds
<1>4. Types'
  BY <1>1, <1>2, <1>3, SMTT(30) DEF Control, Types, PCs, Thens
<1>5. Returns'
  BY <1>2, <1>3 DEF Control, Types, Returns
<1>6. Holds'
  BY <1>1, <1>2, <1>3, ThreadKinds DEF Control, Types, Holds
<1> QED
  BY <1>4, <1>5, <1>6 DEF Control

\* What Signal and StopAll do to the threads: u goes on, others wake up.
LEMMA EndsFacts ==
  ASSUME Control, NEW u \in Threads, Ends(u)
  PROVE  /\ UNCHANGED << queue, mine, cur, reading, try, data, edge >>
         /\ pc' \in [Threads -> PCs] /\ then' \in [Threads -> Thens]
         /\ pc[u] \in {"signal", "stop"} /\ pc'[u] = then[u]
         /\ then[u] \in {"epoll", "handler", "perform", "free", "exited", "flush"}
         /\ pc[u] = "stop" => then[u] \in {"exited", "flush"}
         /\ \A v \in Threads \ {u} :
              /\ then'[v] = then[v]
              /\ pc'[v] = pc[v] \/ (pc[v] = "waiting" /\ pc'[v] = "woken")
<1>1. /\ pc \in [Threads -> PCs] /\ then \in [Threads -> Thens]
      /\ Runner \subseteq Threads
  BY ThreadKinds DEF Control, Types
<1>2. CASE Signal(u)
  <2> DEFINE blocked == { t \in Runner : pc[t] = "waiting" }
  <2>a. UNCHANGED << queue, mine, cur, reading, try, data, edge >>
    BY <1>2 DEF Signal, sharedVars, sockVars
  <2>b. pc[u] = "signal" /\ then' = [then EXCEPT ![u] = "none"]
    BY <1>2 DEF Signal
  <2>c. \/ pc' = [pc EXCEPT ![u] = then[u]]
        \/ \E t \in blocked : pc' = [pc EXCEPT ![u] = then[u], ![t] = "woken"]
    <3>1. IF blocked = {} THEN Go(u, then[u])
          ELSE \E t \in blocked : pc' = [pc EXCEPT ![u] = then[u], ![t] = "woken"]
      BY <1>2 DEF Signal
    <3> QED
      BY <3>1 DEF Go
  <2>1. /\ UNCHANGED << queue, mine, cur, reading, try, data, edge >>
        /\ pc[u] = "signal" /\ then' = [then EXCEPT ![u] = "none"]
        /\ \/ pc' = [pc EXCEPT ![u] = then[u]]
           \/ \E t \in Runner : /\ pc[t] = "waiting"
                                /\ pc' = [pc EXCEPT ![u] = then[u], ![t] = "woken"]
    BY <2>a, <2>b, <2>c
  <2>2. then[u] \in {"epoll", "handler", "perform", "free"}
    BY <2>1 DEF Control, Returns
  <2>3. then' \in [Threads -> Thens] /\ \A v \in Threads \ {u} : then'[v] = then[v]
    BY <1>1, <2>1 DEF Thens
  <2>4. CASE pc' = [pc EXCEPT ![u] = then[u]]
    <3>1. pc' \in [Threads -> PCs]
      BY <1>1, <2>2, <2>4 DEF PCs
    <3>2. pc'[u] = then[u] /\ \A v \in Threads \ {u} : pc'[v] = pc[v]
      BY <1>1, <2>4
    <3> QED
      BY <2>a, <2>b, <2>2, <2>3, <3>1, <3>2
  <2>5. CASE \E t \in Runner : /\ pc[t] = "waiting"
                               /\ pc' = [pc EXCEPT ![u] = then[u], ![t] = "woken"]
    <3>1. PICK t \in Runner : /\ pc[t] = "waiting"
                              /\ pc' = [pc EXCEPT ![u] = then[u], ![t] = "woken"]
      BY <2>5
    <3>2. t # u /\ t \in Threads
      BY <1>1, <2>1, <3>1
    <3>3. pc'[u] = then[u] /\ pc'[t] = "woken"
      BY <1>1, <3>1, <3>2
    <3>4. \A v \in Threads \ {u, t} : pc'[v] = pc[v]
      BY <1>1, <3>1, <3>2
    <3>5. pc' \in [Threads -> PCs]
      BY <1>1, <2>2, <3>1, <3>2 DEF PCs
    <3>6. \A v \in Threads \ {u} :
            pc'[v] = pc[v] \/ (pc[v] = "waiting" /\ pc'[v] = "woken")
      BY <3>1, <3>3, <3>4
    <3> QED
      BY <2>a, <2>b, <2>2, <2>3, <3>3, <3>5, <3>6
  <2> QED
    BY <2>1, <2>4, <2>5
<1>3. CASE StopAll(u)
  <2>1. /\ UNCHANGED << queue, mine, cur, reading, try, data, edge >>
        /\ pc[u] = "stop" /\ then' = [then EXCEPT ![u] = "none"]
        /\ pc' = [v \in Threads |-> IF v = u THEN then[u]
                                    ELSE IF pc[v] = "waiting" THEN "woken" ELSE pc[v]]
    <3>1. /\ UNCHANGED << queue, mine, cur, sockVars >>
          /\ pc[u] = "stop" /\ then' = [then EXCEPT ![u] = "none"]
      BY <1>3 DEF StopAll
    <3>2. pc' = [v \in Threads |-> IF v = u THEN then[u]
                                   ELSE IF pc[v] = "waiting" THEN "woken" ELSE pc[v]]
      BY <1>3 DEF StopAll
    <3> QED
      BY <3>1, <3>2 DEF sockVars
  <2>2. then[u] \in {"exited", "flush"}
    BY <2>1 DEF Control, Returns
  <2>3. then' \in [Threads -> Thens] /\ \A v \in Threads \ {u} : then'[v] = then[v]
    BY <1>1, <2>1 DEF Thens
  <2>4. pc' \in [Threads -> PCs]
    BY <1>1, <2>1, <2>2 DEF PCs
  <2>5. pc'[u] = then[u]
    BY <2>1
  <2>6. \A v \in Threads \ {u} :
          pc'[v] = pc[v] \/ (pc[v] = "waiting" /\ pc'[v] = "woken")
    BY <2>1
  <2> QED
    BY <2>1, <2>2, <2>3, <2>4, <2>5, <2>6
<1> QED
  BY <1>2, <1>3 DEF Ends

LEMMA EndsControl ==
  ASSUME Control, NEW u \in Threads, Ends(u)
  PROVE  Control'
<1>1. Types'
  BY EndsFacts DEF Control, Types
<1>2. Returns'
  BY EndsFacts DEF Control, Returns
<1>3. Holds'
  <2> SUFFICES ASSUME NEW t \in Runner
               PROVE  /\ pc'[t] = "perform" => cur'[t].kind = "desc"
                      /\ pc'[t] = "handler" => cur'[t].kind # "desc"
                      /\ pc'[t] = "signal" =>
                           (cur'[t].kind = "desc" <=> then'[t] = "perform")
    BY DEF Holds
  <2>1. t \in Threads /\ cur' = cur
    BY ThreadKinds, EndsFacts
  <2>2. CASE t = u
    <3>1. pc'[t] = then[t] /\ then[t] # "signal"
      BY <2>2, EndsFacts
    <3>2. pc[t] = "stop" => then[t] \notin {"perform", "handler"}
      BY <2>2, EndsFacts
    <3>3. pc[t] # "stop" => pc[t] = "signal"
      BY <2>2, EndsFacts
    <3> QED
      BY <2>1, <3>1, <3>2, <3>3 DEF Control, Holds
  <2>3. CASE t # u
    <3>1. then'[t] = then[t]
      BY <2>1, <2>3, EndsFacts
    <3>2. pc'[t] = pc[t] \/ pc'[t] = "woken"
      BY <2>1, <2>3, EndsFacts
    <3> QED
      BY <2>1, <3>1, <3>2 DEF Control, Holds
  <2> QED
    BY <2>2, <2>3
<1> QED
  BY <1>1, <1>2, <1>3 DEF Control

\* The reactor is next.
LEMMA TakeTaskControl ==
  ASSUME Control, NEW t \in Runner, TakeTask(t)
  PROVE  /\ Control'
         /\ queue # << >> /\ Head(queue) = Task /\ queue' = Tail(queue)
         /\ pc[t] = "top" /\ mine' = mine /\ edge' = edge
         /\ \/ pc' = [pc EXCEPT ![t] = "epoll"] /\ then' = then
            \/ /\ pc' = [pc EXCEPT ![t] = "signal"]
               /\ then' = [then EXCEPT ![t] = "epoll"]
         /\ cur' = [cur EXCEPT ![t] = Task]
         /\ UNCHANGED << reading, try, data >>
<1>1. /\ queue # << >> /\ Head(queue) = Task /\ queue' = Tail(queue)
      /\ pc[t] = "top"
      /\ cur' = [cur EXCEPT ![t] = Task]
  BY DEF TakeTask, AtTop
<1>2. UNCHANGED << mine, reading, try, data, edge >>
  BY DEF TakeTask, sockVars
<1>3. \/ pc' = [pc EXCEPT ![t] = "epoll"] /\ then' = then
      \/ /\ pc' = [pc EXCEPT ![t] = "signal"]
         /\ then' = [then EXCEPT ![t] = "epoll"]
  BY DEF TakeTask, Go
<1>4. t \in Threads
  BY ThreadKinds
<1>5. queue' \in Seq(Item)
  BY <1>1, TailFacts DEF Control, Types
<1>6. cur' \in [Runner -> Item]
  BY <1>1, Kinds DEF Control, Types
<1>7. pc' \in [Threads -> PCs] /\ then' \in [Threads -> Thens]
  BY <1>3, <1>4 DEF Control, Types, PCs, Thens
<1>8. Types'
  BY <1>2, <1>5, <1>6, <1>7 DEF Control, Types
<1>9. Returns'
  BY <1>3, <1>4 DEF Control, Types, Returns
<1>10. Holds'
  BY <1>1, <1>3, <1>4, Kinds, ThreadKinds DEF Control, Types, Holds
<1> QED
  BY <1>1, <1>2, <1>3, <1>8, <1>9, <1>10 DEF Control

\* A handler or a descriptor is next.
LEMMA TakeControl ==
  ASSUME Control, NEW t \in Runner, Take(t)
  PROVE  /\ Control'
         /\ queue # << >> /\ Head(queue) # Task /\ Head(queue) \in Item
         /\ queue' = Tail(queue)
         /\ pc[t] = "top" /\ mine' = mine /\ edge' = edge
         /\ cur' = [cur EXCEPT ![t] = Head(queue)]
         /\ \E where \in {"perform", "handler"} :
              /\ where = "perform" <=> Head(queue).kind = "desc"
              /\ \/ pc' = [pc EXCEPT ![t] = where] /\ then' = then
                 \/ /\ pc' = [pc EXCEPT ![t] = "signal"]
                    /\ then' = [then EXCEPT ![t] = where]
         /\ \A s \in Sock : reading'[s] \in {reading[s], "none"}
         /\ UNCHANGED << try, data >>
<1> DEFINE o == Head(queue)
           where == IF o.kind = "desc" THEN "perform" ELSE "handler"
<1>1. /\ queue # << >> /\ o # Task /\ queue' = Tail(queue)
      /\ pc[t] = "top"
      /\ cur' = [cur EXCEPT ![t] = o]
      /\ reading' = [s \in Sock |-> IF o = Read(s) THEN "none" ELSE reading[s]]
      /\ UNCHANGED << mine, try, data, edge >>
  BY DEF Take, AtTop
<1>2. \/ pc' = [pc EXCEPT ![t] = where] /\ then' = then
      \/ /\ pc' = [pc EXCEPT ![t] = "signal"]
         /\ then' = [then EXCEPT ![t] = where]
  <2>1. CASE Tail(queue) # << >>
    <3>1. WakeOne(t, where)
      BY <2>1 DEF Take
    <3> QED
      BY <3>1 DEF WakeOne, Go
  <2>2. CASE Tail(queue) = << >>
    BY <2>2 DEF Take, Go
  <2> QED
    BY <2>1, <2>2
<1>3. where \in {"perform", "handler"} /\ (where = "perform" <=> o.kind = "desc")
  OBVIOUS
<1>4. t \in Threads /\ o \in Item /\ queue' \in Seq(Item)
  BY <1>1, ThreadKinds, TailFacts DEF Control, Types
<1>5. /\ reading' \in [Sock -> {"none", "queued", "done"}]
      /\ \A s \in Sock : reading'[s] \in {reading[s], "none"}
  BY <1>1 DEF Control, Types
<1>6. cur' \in [Runner -> Item]
  BY <1>1, <1>4 DEF Control, Types
<1> HIDE DEF where
<1>7. pc' \in [Threads -> PCs] /\ then' \in [Threads -> Thens]
  BY <1>2, <1>3, <1>4, ZenonT(40) DEF Control, Types, PCs, Thens
<1>8. Types'
  BY <1>1, <1>4, <1>5, <1>6, <1>7 DEF Control, Types
<1>9. Returns'
  BY <1>2, <1>3, <1>4 DEF Control, Types, Returns
<1>10. Holds'
  BY <1>1, <1>2, <1>3, <1>4, ThreadKinds DEF Control, Types, Holds
<1> QED
  BY <1>1, <1>2, <1>3, <1>4, <1>5, <1>8, <1>9, <1>10 DEF Control

\* What epoll_wait found: each socket with an event, and nothing else.
LEMMA OrdersAll ==
  ASSUME NEW S \in SUBSET Sock, NEW order \in Orders(S)
  PROVE  /\ Cardinality(S) \in Nat
         /\ order \in [1 .. Cardinality(S) -> S]
         /\ \A s \in S : \E n \in 1 .. Cardinality(S) : order[n] = s
<1>1. IsFiniteSet(S)
  BY FS_Subset, SchedulerAssumption
<1>2. Cardinality(S) \in Nat
  BY <1>1, FS_CardinalityType
<1> DEFINE places == 1 .. Cardinality(S)
<1>3. order \in [places -> S]
      /\ \A m, n \in places : order[m] = order[n] => m = n
  BY DEF Orders
<1>4. IsFiniteSet(places) /\ Cardinality(places) = Cardinality(S)
  BY <1>2, FS_Interval
<1>5. ASSUME NEW s \in S, \A n \in places : order[n] # s
      PROVE  FALSE
  <2>1. IsFiniteSet(S \ {s}) /\ Cardinality(S \ {s}) = Cardinality(S) - 1
    BY <1>1, FS_RemoveElement
  <2>2. order \in Injection(places, S \ {s})
    BY <1>3, <1>5 DEF Injection, IsInjective
  <2>3. Cardinality(places) <= Cardinality(S \ {s})
    BY <1>4, <2>1, <2>2, FS_Injection
  <2> QED
    BY <1>2, <1>4, <2>1, <2>3
<1> QED
  BY <1>2, <1>3, <1>5

LEMMA EpollControl ==
  ASSUME Control, NEW t \in Runner, Epoll(t)
  PROVE  /\ Control'
         /\ pc[t] = "epoll" /\ pc' = [pc EXCEPT ![t] = "returned"]
         /\ UNCHANGED << queue, then, cur, reading, try, data >>
         /\ edge' = {}
         /\ \A v \in Runner \ {t} : mine'[v] = mine[v]
         /\ Lacks(mine'[t], Task)
         /\ \A s \in edge : ~ Lacks(mine'[t], Desc(s))
<1>1. /\ pc[t] = "epoll" /\ pc' = [pc EXCEPT ![t] = "returned"]
      /\ UNCHANGED << queue, then, cur, reading, try, data >>
      /\ edge' = {}
  BY DEF Epoll, Go, sharedVars
<1>2. PICK order \in Orders(edge) :
        mine' = [mine EXCEPT ![t] = [n \in 1 .. Cardinality(edge) |-> Desc(order[n])]]
  BY DEF Epoll
<1> DEFINE found == [n \in 1 .. Cardinality(edge) |-> Desc(order[n])]
<1>3. edge \in SUBSET Sock
  BY DEF Control, Types
<1>4. /\ Cardinality(edge) \in Nat
      /\ order \in [1 .. Cardinality(edge) -> edge]
      /\ \A s \in edge : \E n \in 1 .. Cardinality(edge) : order[n] = s
  BY <1>3, OrdersAll
<1>5. \A n \in 1 .. Cardinality(edge) : Desc(order[n]) \in Item \ {Task}
  BY <1>3, <1>4, Kinds
<1>6. found \in Seq(Item \ {Task}) /\ Len(found) = Cardinality(edge)
  BY <1>4, <1>5
<1>7. mine'[t] = found /\ \A v \in Runner \ {t} : mine'[v] = mine[v]
  BY <1>2 DEF Control, Types
<1>8. mine' \in [Runner -> Seq(Item \ {Task})]
  BY <1>2, <1>6 DEF Control, Types
<1>9. Lacks(mine'[t], Task)
  BY <1>5, <1>6, <1>7 DEF Lacks
<1>10. \A s \in edge : ~ Lacks(mine'[t], Desc(s))
  BY <1>4, <1>6, <1>7 DEF Lacks
<1>11. t \in Threads
  BY ThreadKinds
<1>12. pc' \in [Threads -> PCs]
  BY <1>1, <1>11 DEF Control, Types, PCs
<1>13. edge' \in SUBSET Sock
  BY <1>1
<1>14. Types'
  BY <1>1, <1>8, <1>12, <1>13 DEF Control, Types
<1>15. Returns'
  BY <1>1, <1>11 DEF Control, Types, Returns
<1>16. Holds'
  BY <1>1, <1>11, ThreadKinds DEF Control, Types, Holds
<1> QED
  BY <1>1, <1>7, <1>9, <1>10, <1>14, <1>15, <1>16 DEF Control

LEMMA TaskCleanupControl ==
  ASSUME Control, NEW t \in Runner, TaskCleanup(t)
  PROVE  /\ Control'
         /\ pc[t] = "returned" /\ pc' = [pc EXCEPT ![t] = "top"]
         /\ UNCHANGED << then, cur, reading, try, data, edge >>
         /\ mine[t] \in Seq(Item) /\ Lacks(mine[t], Task)
         /\ queue' = (queue \o mine[t]) \o << Task >>
         /\ mine' = [mine EXCEPT ![t] = << >>]
<1>1. /\ pc[t] = "returned" /\ pc' = [pc EXCEPT ![t] = "top"]
      /\ UNCHANGED << then, cur, reading, try, data, edge >>
      /\ queue' = (queue \o mine[t]) \o << Task >>
      /\ mine' = [mine EXCEPT ![t] = << >>]
  BY DEF TaskCleanup, Go, sockVars
<1>2. mine[t] \in Seq(Item \ {Task})
  BY DEF Control, Types
<1>3. mine[t] \in Seq(Item) /\ Lacks(mine[t], Task)
  BY <1>2 DEF Lacks
<1>4. t \in Threads /\ << Task >> \in Seq(Item)
  BY ThreadKinds, Kinds
<1>5. queue' \in Seq(Item)
  BY <1>1, <1>3, <1>4, ConcatFacts DEF Control, Types
<1>6. mine' \in [Runner -> Seq(Item \ {Task})]
  BY <1>1 DEF Control, Types
<1>7. pc' \in [Threads -> PCs]
  BY <1>1, <1>4 DEF Control, Types, PCs
<1>8. Types'
  BY <1>1, <1>5, <1>6, <1>7 DEF Control, Types
<1>9. Returns'
  BY <1>1, <1>4 DEF Control, Types, Returns
<1>10. Holds'
  BY <1>1, <1>4, ThreadKinds DEF Control, Types, Holds
<1> QED
  BY <1>1, <1>3, <1>8, <1>9, <1>10 DEF Control

\* A read that takes data from socket s.
LEMMA PerformFacts ==
  ASSUME Control, NEW s \in Sock, data[s] > 0, Perform(s)
  PROVE  /\ data' \in [Sock -> Nat] /\ try' \in [Sock -> BOOLEAN]
         /\ data'[s] = 0 \/ try'[s]
         /\ \A r \in Sock \ {s} : data'[r] = data[r] /\ try'[r] = try[r]
<1>1. data \in [Sock -> Nat] /\ try \in [Sock -> BOOLEAN]
  BY DEF Control, Types
<1>2. CASE data' = [data EXCEPT ![s] = 0] /\ try' = [try EXCEPT ![s] = FALSE]
  BY <1>1, <1>2
<1>3. CASE data' = [data EXCEPT ![s] = @ - 1] /\ try' = [try EXCEPT ![s] = TRUE]
  BY <1>1, <1>3
<1> QED
  BY <1>2, <1>3 DEF Perform

LEMMA PerformIoControl ==
  ASSUME Control, NEW t \in Runner, PerformIo(t)
  PROVE  /\ Control'
         /\ pc[t] = "perform"
         /\ \E x \in {"handler", "cleanup"} : pc' = [pc EXCEPT ![t] = x]
         /\ UNCHANGED << queue, mine, then, edge >>
         /\ \A v \in Runner \ {t} : cur'[v] = cur[v]
         /\ \E s \in Sock :
              /\ cur[t] = Desc(s)
              /\ reading'[s] # "queued" \/ data'[s] = 0
              /\ data'[s] = 0 \/ try'[s]
              /\ \A r \in Sock \ {s} : /\ reading'[r] = reading[r]
                                       /\ data'[r] = data[r] /\ try'[r] = try[r]
<1> DEFINE s == cur[t].id
<1>1. pc[t] = "perform" /\ cur[t] \in Item
  BY DEF PerformIo, Control, Types
<1>2. cur[t].kind = "desc"
  BY <1>1 DEF Control, Holds
<1>3. s \in Sock /\ cur[t] = Desc(s)
  BY <1>1, <1>2, Kinds
<1>4. UNCHANGED << queue, mine, then, edge >> /\ t \in Threads
  BY ThreadKinds DEF PerformIo, sharedVars
<1> HIDE DEF s
<1>5. CASE reading[s] = "queued" /\ data[s] > 0
  <2>1. /\ Perform(s)
        /\ reading' = [reading EXCEPT ![s] = "none"]
        /\ cur' = [cur EXCEPT ![t] = Read(s)]
        /\ pc' = [pc EXCEPT ![t] = "handler"]
    BY <1>5 DEF PerformIo, Go, s
  <2>2. /\ data' \in [Sock -> Nat] /\ try' \in [Sock -> BOOLEAN]
        /\ data'[s] = 0 \/ try'[s]
        /\ \A r \in Sock \ {s} : data'[r] = data[r] /\ try'[r] = try[r]
    BY <1>3, <1>5, <2>1, PerformFacts
  <2>3. cur' \in [Runner -> Item] /\ \A v \in Runner \ {t} : cur'[v] = cur[v]
    BY <1>3, <2>1, Kinds DEF Control, Types
  <2>4. /\ reading' \in [Sock -> {"none", "queued", "done"}]
        /\ reading'[s] = "none"
        /\ \A r \in Sock \ {s} : reading'[r] = reading[r]
    BY <1>3, <2>1 DEF Control, Types
  <2>5. pc' \in [Threads -> PCs]
    BY <1>4, <2>1 DEF Control, Types, PCs
  <2>6. Types'
    BY <1>4, <2>2, <2>3, <2>4, <2>5 DEF Control, Types
  <2>7. Returns'
    BY <1>4, <2>1 DEF Control, Types, Returns
  <2>8. Holds'
    <3>1. cur'[t].kind # "desc"
      BY <1>3, <2>1, Kinds DEF Control, Types
    <3> QED
      BY <1>4, <2>1, <2>3, <3>1, ThreadKinds DEF Control, Types, Holds
  <2> QED
    BY <1>1, <1>3, <1>4, <2>1, <2>2, <2>3, <2>4, <2>6, <2>7, <2>8 DEF Control
<1>6. CASE ~ (reading[s] = "queued" /\ data[s] > 0)
  <2>1. /\ try' = [try EXCEPT ![s] = TRUE]
        /\ pc' = [pc EXCEPT ![t] = "cleanup"]
        /\ UNCHANGED << data, reading, cur >>
    BY <1>6 DEF PerformIo, Go, s
  <2>2. try' \in [Sock -> BOOLEAN] /\ try'[s]
        /\ \A r \in Sock \ {s} : try'[r] = try[r]
    BY <1>3, <2>1 DEF Control, Types
  <2>3. reading'[s] # "queued" \/ data'[s] = 0
    BY <1>3, <1>6, <2>1 DEF Control, Types
  <2>4. pc' \in [Threads -> PCs]
    BY <1>4, <2>1 DEF Control, Types, PCs
  <2>5. Types'
    BY <1>4, <2>1, <2>2, <2>4 DEF Control, Types
  <2>6. Returns'
    BY <1>4, <2>1 DEF Control, Types, Returns
  <2>7. Holds'
    BY <1>4, <2>1, ThreadKinds DEF Control, Types, Holds
  <2> QED
    BY <1>1, <1>3, <1>4, <2>1, <2>2, <2>3, <2>5, <2>6, <2>7 DEF Control
<1> QED
  BY <1>5, <1>6

\* The end of a handler.
LEMMA CleanupControl ==
  ASSUME Control, NEW t \in Runner, WorkCleanup(t) \/ Flush(t)
  PROVE  /\ Control'
         /\ pc[t] \in {"handler", "cleanup", "flush"}
         /\ \/ \E x \in {"flush", "top", "enter"} :
                 pc' = [pc EXCEPT ![t] = x] /\ then' = then
            \/ /\ pc' = [pc EXCEPT ![t] = "stop"]
               /\ then' = [then EXCEPT ![t] = "flush"]
         /\ \A v \in Runner \ {t} : cur'[v] = cur[v]
         /\ \A v \in Runner \ {t} : mine'[v] = mine[v]
         /\ mine'[t] \in {mine[t], << >>}
         /\ mine[t] \in Seq(Item) /\ Lacks(mine[t], Task)
         /\ queue' = queue \/ queue' = queue \o mine[t]
         /\ UNCHANGED << reading, try, data, edge >>
<1>1. t \in Threads /\ mine[t] \in Seq(Item \ {Task})
  BY ThreadKinds DEF Control, Types
<1>2. mine[t] \in Seq(Item) /\ Lacks(mine[t], Task)
  BY <1>1 DEF Lacks
<1>3. CASE WorkCleanup(t)
  <2>1. /\ pc[t] \in {"handler", "cleanup"}
        /\ UNCHANGED << queue, mine, reading, try, data, edge >>
        /\ cur' = [cur EXCEPT ![t] = Task]
        /\ \/ pc' = [pc EXCEPT ![t] = "flush"] /\ then' = then
           \/ /\ pc' = [pc EXCEPT ![t] = "stop"]
              /\ then' = [then EXCEPT ![t] = "flush"]
    BY <1>3 DEF WorkCleanup, Go, sockVars
  <2>2. cur' \in [Runner -> Item] /\ \A v \in Runner \ {t} : cur'[v] = cur[v]
    BY <2>1, Kinds DEF Control, Types
  <2>3. pc' \in [Threads -> PCs] /\ then' \in [Threads -> Thens]
    BY <1>1, <2>1 DEF Control, Types, PCs, Thens
  <2>4. Types'
    BY <2>1, <2>2, <2>3 DEF Control, Types
  <2>5. Returns'
    BY <1>1, <2>1 DEF Control, Types, Returns
  <2>6. Holds'
    BY <1>1, <2>1, <2>2, ThreadKinds DEF Control, Types, Holds
  <2> QED
    BY <1>2, <2>1, <2>2, <2>4, <2>5, <2>6 DEF Control
<1>4. CASE Flush(t)
  <2>1. /\ pc[t] = "flush"
        /\ UNCHANGED << then, cur, reading, try, data, edge >>
        /\ queue' = queue \o mine[t]
        /\ mine' = [mine EXCEPT ![t] = << >>]
        /\ \E x \in {"top", "enter"} : pc' = [pc EXCEPT ![t] = x]
    BY <1>4 DEF Flush, Go, sockVars
  <2>2. queue' \in Seq(Item)
    BY <1>2, <2>1, ConcatFacts DEF Control, Types
  <2>3. /\ mine' \in [Runner -> Seq(Item \ {Task})]
        /\ mine'[t] = << >> /\ \A v \in Runner \ {t} : mine'[v] = mine[v]
    BY <2>1 DEF Control, Types
  <2>4. pc' \in [Threads -> PCs]
    BY <1>1, <2>1 DEF Control, Types, PCs
  <2>5. Types'
    BY <2>1, <2>2, <2>3, <2>4 DEF Control, Types
  <2>6. Returns'
    BY <1>1, <2>1 DEF Control, Types, Returns
  <2>7. Holds'
    BY <1>1, <2>1, ThreadKinds DEF Control, Types, Holds
  <2> QED
    BY <1>2, <2>1, <2>3, <2>5, <2>6, <2>7 DEF Control
<1> QED
  BY <1>3, <1>4

\* What a call of a handler or of an outsider can do to the threads and the
\* queue: nothing, or a push.
Calls(u) ==
  /\ \/ u \in Runner /\ pc[u] = "handler"
     \/ u \in Outsider /\ pc[u] = "free"
  /\ cur' = cur
  /\ \/ UNCHANGED << queue, pc, then >>
     \/ \E i \in Item \ {Task} : Push(u, i)

LEMMA CallsControl ==
  ASSUME Control, NEW u \in Threads, Calls(u)
  PROVE  /\ pc' \in [Threads -> PCs] /\ then' \in [Threads -> Thens]
         /\ queue' \in Seq(Item) /\ Returns' /\ Holds'
         /\ queue' = queue \/ \E i \in Item \ {Task} : queue' = queue \o << i >>
         /\ \/ UNCHANGED << pc, then >>
            \/ /\ pc' = [pc EXCEPT ![u] = "signal"]
               /\ then' = [then EXCEPT ![u] = pc[u]]
<1>1. CASE UNCHANGED << queue, pc, then >>
  BY <1>1 DEF Calls, Control, Types, Returns, Holds
<1>2. CASE \E i \in Item \ {Task} : Push(u, i)
  <2>1. PICK i \in Item \ {Task} : Push(u, i)
    BY <1>2
  <2>2. Append(queue, i) = queue \o << i >>
    BY DEF Control, Types
  <2>3. /\ queue' = queue \o << i >>
        /\ \/ UNCHANGED << pc, then >>
           \/ /\ pc' = [pc EXCEPT ![u] = "signal"]
              /\ then' = [then EXCEPT ![u] = pc[u]]
    BY <2>1, <2>2, PushFacts
  <2>4. /\ pc' \in [Threads -> PCs] /\ then' \in [Threads -> Thens]
        /\ queue' \in Seq(Item) /\ Returns' /\ Holds'
    BY <2>1, PushControl DEF Calls
  <2> QED
    BY <2>3, <2>4
<1> QED
  BY <1>1, <1>2 DEF Calls

LEMMA SocketControl ==
  ASSUME Control, NEW u \in Threads, NEW s \in Sock,
         \/ u \in Outsider /\ Register(u, s)
         \/ u \in Runner /\ (StartRead(u, s) \/ Close(u, s))
  PROVE  /\ Control' /\ Calls(u) /\ mine' = mine
         /\ edge' = edge \/ (edge' = edge \ {s} /\ data'[s] = 0)
         /\ \/ data'[s] = 0
            \/ try'[s] /\ reading'[s] = "done"
            \/ try'[s] /\ reading'[s] = reading[s] /\ data'[s] = data[s]
            \/ data'[s] = data[s] /\ ~ try[s]
         /\ \A r \in Sock \ {s} : /\ reading'[r] = reading[r]
                                  /\ data'[r] = data[r] /\ try'[r] = try[r]
<1>1. CASE u \in Outsider /\ Register(u, s)
  <2>1. /\ UNCHANGED << queue, pc, then, cur, mine, reading, data, edge >>
        /\ pc[u] = "free" /\ try' = [try EXCEPT ![s] = TRUE]
    BY <1>1 DEF Register, sharedVars, threadVars
  <2>2. Calls(u)
    BY <1>1, <2>1 DEF Calls
  <2>3. /\ try' \in [Sock -> BOOLEAN] /\ try'[s]
        /\ \A r \in Sock \ {s} : try'[r] = try[r]
    BY <2>1 DEF Control, Types
  <2>4. Control'
    BY <2>1, <2>2, <2>3, CallsControl DEF Control, Types
  <2> QED
    BY <2>1, <2>2, <2>3, <2>4
<1>2. CASE u \in Runner /\ StartRead(u, s)
  <2>1. /\ UNCHANGED << cur, mine, edge >>
        /\ pc[u] = "handler"
        /\ \/ /\ try[s] /\ data[s] > 0 /\ Perform(s)
              /\ reading' = [reading EXCEPT ![s] = "done"]
              /\ Push(u, Read(s))
           \/ /\ ~ (try[s] /\ data[s] > 0)
              /\ reading' = [reading EXCEPT ![s] = "queued"]
              /\ UNCHANGED << try, data, queue, pc, then >>
    BY <1>2 DEF StartRead
  <2>2. Calls(u)
    BY <1>2, <2>1, Kinds DEF Calls
  <2>3. CASE /\ try[s] /\ data[s] > 0 /\ Perform(s)
             /\ reading' = [reading EXCEPT ![s] = "done"]
    <3>1. /\ data' \in [Sock -> Nat] /\ try' \in [Sock -> BOOLEAN]
          /\ data'[s] = 0 \/ try'[s]
          /\ \A r \in Sock \ {s} : data'[r] = data[r] /\ try'[r] = try[r]
      BY <2>3, PerformFacts
    <3>2. /\ reading' \in [Sock -> {"none", "queued", "done"}]
          /\ reading'[s] = "done"
          /\ \A r \in Sock \ {s} : reading'[r] = reading[r]
      BY <2>3 DEF Control, Types
    <3>3. Control'
      BY <2>1, <2>2, <3>1, <3>2, CallsControl DEF Control, Types
    <3> QED
      BY <2>1, <2>2, <3>1, <3>2, <3>3
  <2>4. CASE /\ ~ (try[s] /\ data[s] > 0)
             /\ reading' = [reading EXCEPT ![s] = "queued"]
             /\ UNCHANGED << try, data, queue, pc, then >>
    <3>1. /\ reading' \in [Sock -> {"none", "queued", "done"}]
          /\ \A r \in Sock \ {s} : reading'[r] = reading[r]
      BY <2>4 DEF Control, Types
    <3>2. data[s] = 0 \/ ~ try[s]
      BY <2>4 DEF Control, Types
    <3>3. Control'
      BY <2>1, <2>2, <2>4, <3>1, CallsControl DEF Control, Types
    <3> QED
      BY <2>1, <2>2, <2>4, <3>1, <3>2, <3>3
  <2> QED
    BY <2>1, <2>3, <2>4
<1>3. CASE u \in Runner /\ Close(u, s)
  <2>1. /\ UNCHANGED << cur, mine, try >>
        /\ pc[u] = "handler"
        /\ edge' = edge \ {s} /\ data' = [data EXCEPT ![s] = 0]
        /\ \/ reading' = [reading EXCEPT ![s] = "done"] /\ Push(u, Read(s))
           \/ UNCHANGED << reading, queue, pc, then >>
    BY <1>3 DEF Close
  <2>2. Calls(u)
    BY <1>3, <2>1, Kinds DEF Calls
  <2>3. /\ data' \in [Sock -> Nat] /\ data'[s] = 0
        /\ \A r \in Sock \ {s} : data'[r] = data[r]
    BY <2>1 DEF Control, Types
  <2>4. /\ reading' \in [Sock -> {"none", "queued", "done"}]
        /\ \A r \in Sock \ {s} : reading'[r] = reading[r]
    BY <2>1 DEF Control, Types
  <2>5. Control'
    BY <2>1, <2>2, <2>3, <2>4, CallsControl DEF Control, Types
  <2> QED
    BY <2>1, <2>2, <2>3, <2>4, <2>5
<1> QED
  BY <1>1, <1>2, <1>3

LEMMA PostControl ==
  ASSUME Control, NEW u \in Outsider, NEW h \in Op, PostCall(u, h)
  PROVE  /\ Control' /\ Calls(u)
         /\ UNCHANGED << mine, reading, try, data, edge >>
<1>1. /\ pc[u] = "free" /\ Push(u, Post(h))
      /\ UNCHANGED << cur, mine, reading, try, data, edge >>
  BY DEF PostCall, sockVars
<1>2. Calls(u) /\ u \in Threads
  BY <1>1, Kinds, ThreadKinds DEF Calls
<1>3. Control'
  BY <1>1, <1>2, CallsControl DEF Control, Types
<1> QED
  BY <1>1, <1>2, <1>3

LEMMA DeferControl ==
  ASSUME Control, NEW t \in Runner, NEW h \in Op, Defer(t, h)
  PROVE  /\ Control'
         /\ pc[t] = "handler"
         /\ UNCHANGED << queue, pc, then, cur, reading, try, data, edge >>
         /\ mine' = [mine EXCEPT ![t] = @ \o << Post(h) >>]
<1>1. /\ pc[t] = "handler"
      /\ UNCHANGED << queue, pc, then, cur, reading, try, data, edge >>
      /\ mine' = [mine EXCEPT ![t] = Append(@, Post(h))]
  BY DEF Defer, sharedVars, sockVars
<1>2. Append(mine[t], Post(h)) = mine[t] \o << Post(h) >>
      /\ Append(mine[t], Post(h)) \in Seq(Item \ {Task})
  BY Kinds DEF Control, Types
<1>3. mine' = [mine EXCEPT ![t] = @ \o << Post(h) >>]
  BY <1>1, <1>2
<1>4. mine' \in [Runner -> Seq(Item \ {Task})]
  BY <1>1, <1>2 DEF Control, Types
<1>5. Control'
  BY <1>1, <1>4 DEF Control, Types, Returns, Holds
<1> QED
  BY <1>1, <1>3, <1>5

LEMMA StopCallControl ==
  ASSUME Control, NEW u \in Outsider, StopCall(u)
  PROVE  /\ Control'
         /\ pc[u] = "free" /\ pc' = [pc EXCEPT ![u] = "stop"]
         /\ then' = [then EXCEPT ![u] = "exited"]
         /\ UNCHANGED << queue, mine, cur, reading, try, data, edge >>
<1>1. /\ pc[u] = "free" /\ pc' = [pc EXCEPT ![u] = "stop"]
      /\ then' = [then EXCEPT ![u] = "exited"]
      /\ UNCHANGED << queue, mine, cur, reading, try, data, edge >>
  BY DEF StopCall, Go, sharedVars, sockVars
<1>2. u \in Threads /\ u \notin Runner
  BY ThreadKinds
<1>3. Types'
  BY <1>1, <1>2 DEF Control, Types, PCs, Thens
<1>4. Returns'
  BY <1>1, <1>2 DEF Control, Types, Returns
<1>5. Holds'
  BY <1>1, <1>2, ThreadKinds DEF Control, Types, Holds
<1> QED
  BY <1>1, <1>3, <1>4, <1>5 DEF Control

LEMMA ArriveControl ==
  ASSUME Control, NEW s \in Sock, Arrive(s)
  PROVE  /\ Control'
         /\ UNCHANGED << queue, pc, then, mine, cur, reading, try >>
         /\ edge' = edge \cup {s}
         /\ \A r \in Sock \ {s} : data'[r] = data[r]
<1>1. /\ UNCHANGED << queue, pc, then, mine, cur, reading, try >>
      /\ edge' = edge \cup {s} /\ data' = [data EXCEPT ![s] = @ + 1]
  BY DEF Arrive, sharedVars, threadVars
<1>2. data' \in [Sock -> Nat] /\ \A r \in Sock \ {s} : data'[r] = data[r]
  BY <1>1 DEF Control, Types
<1>3. edge' \in SUBSET Sock
  BY <1>1 DEF Control, Types
<1> QED
  BY <1>1, <1>2, <1>3 DEF Control, Types, Returns, Holds

-----------------------------------------------------------------------------
(* Where the reactor is.                                                   *)

\* It is in the queue, once, or one thread runs it.
Reactor ==
  \/ HasOne(queue, Task) /\ \A t \in Runner : ~ InTask(t)
  \/ /\ Lacks(queue, Task)
     /\ \E t \in Runner : InTask(t) /\ \A v \in Runner \ {t} : ~ InTask(v)

\* The steps that leave the reactor where it is: what they add to the queue is
\* something else, and so is what they take from its front.
LEMMA ReactorStays ==
  ASSUME Control, Reactor,
         \A t \in Runner : InTask(t)' <=> InTask(t),
         \/ queue' = queue
         \/ \E r \in Seq(Item) : Lacks(r, Task) /\ queue' = queue \o r
         \/ queue # << >> /\ Head(queue) # Task /\ queue' = Tail(queue)
  PROVE  Reactor'
<1>1. /\ HasOne(queue, Task) => HasOne(queue', Task)
      /\ Lacks(queue, Task) => Lacks(queue', Task)
  <2>1. queue \in Seq(Item)
    BY DEF Control, Types
  <2>2. CASE queue' = queue
    BY <2>2
  <2>3. CASE \E r \in Seq(Item) : Lacks(r, Task) /\ queue' = queue \o r
    <3>1. PICK r \in Seq(Item) : Lacks(r, Task) /\ queue' = queue \o r
      BY <2>3
    <3> QED
      BY <2>1, <3>1, ConcatLacks
  <2>4. CASE queue # << >> /\ Head(queue) # Task /\ queue' = Tail(queue)
    BY <2>1, <2>4, TailLacks
  <2> QED
    BY <2>2, <2>3, <2>4
<1>2. CASE HasOne(queue, Task) /\ \A t \in Runner : ~ InTask(t)
  BY <1>1, <1>2 DEF Reactor
<1>3. CASE /\ Lacks(queue, Task)
           /\ \E t \in Runner : InTask(t) /\ \A v \in Runner \ {t} : ~ InTask(v)
  <2>1. PICK t \in Runner : InTask(t) /\ \A v \in Runner \ {t} : ~ InTask(v)
    BY <1>3
  <2>2. InTask(t)' /\ \A v \in Runner \ {t} : ~ InTask(v)'
    BY <2>1
  <2> QED
    BY <1>1, <1>3, <2>2 DEF Reactor
<1> QED
  BY <1>2, <1>3 DEF Reactor

\* TakeTask takes it from the queue, and TaskCleanup puts it back.
LEMMA ReactorMoves ==
  ASSUME Control, Reactor, NEW t \in Runner, TakeTask(t) \/ TaskCleanup(t)
  PROVE  Reactor'
<1>1. \A v \in Runner : v \in Threads
  BY ThreadKinds
<1>2. CASE TakeTask(t)
  <2>1. /\ queue # << >> /\ Head(queue) = Task /\ queue' = Tail(queue)
        /\ pc[t] = "top"
        /\ \/ pc' = [pc EXCEPT ![t] = "epoll"] /\ then' = then
           \/ /\ pc' = [pc EXCEPT ![t] = "signal"]
              /\ then' = [then EXCEPT ![t] = "epoll"]
    BY <1>2, TakeTaskControl
  <2>2. ~ Lacks(queue, Task)
    BY <2>1, TailFacts DEF Control, Types, Lacks
  <2>3. HasOne(queue, Task) /\ \A v \in Runner : ~ InTask(v)
    BY <2>2 DEF Reactor
  <2>4. Lacks(queue', Task)
    BY <2>1, <2>3, TailLacks DEF Control, Types
  <2>5. InTask(t)'
    BY <1>1, <2>1 DEF Control, Types, InTask
  <2>6. \A v \in Runner \ {t} : ~ InTask(v)'
    BY <1>1, <2>1, <2>3 DEF Control, Types, InTask
  <2> QED
    BY <2>4, <2>5, <2>6 DEF Reactor
<1>3. CASE TaskCleanup(t)
  <2>1. /\ pc[t] = "returned" /\ pc' = [pc EXCEPT ![t] = "top"]
        /\ then' = then
        /\ mine[t] \in Seq(Item) /\ Lacks(mine[t], Task)
        /\ queue' = (queue \o mine[t]) \o << Task >>
    BY <1>3, TaskCleanupControl
  <2>2. InTask(t)
    BY <2>1 DEF InTask
  <2>3. Lacks(queue, Task) /\ \A v \in Runner \ {t} : ~ InTask(v)
    BY <2>2 DEF Reactor
  <2>4. queue \o mine[t] \in Seq(Item) /\ Lacks(queue \o mine[t], Task)
    BY <2>1, <2>3, ConcatFacts, ConcatLacks DEF Control, Types
  <2>5. HasOne(queue', Task)
    BY <2>1, <2>4, AppendOne, Kinds
  <2>6. \A v \in Runner : ~ InTask(v)'
    BY <1>1, <2>1, <2>3 DEF Control, Types, InTask
  <2> QED
    BY <2>5, <2>6 DEF Reactor
<1> QED
  BY <1>2, <1>3

\* Every other step leaves it where it is.
LEMMA ReactorKept ==
  ASSUME Control, Reactor, NEW u \in Threads,
         \/ u \in Runner /\ \/ Spurious(u) \/ Rewait(u) \/ Enter(u) \/ Relock(u)
                            \/ Exit(u) \/ Wait(u) \/ Take(u) \/ Epoll(u)
                            \/ PerformIo(u) \/ WorkCleanup(u) \/ Flush(u)
         \/ Ends(u)
  PROVE  Reactor'
<1>1. /\ \A v \in Runner : v \in Threads
      /\ pc \in [Threads -> PCs] /\ then \in [Threads -> Thens]
  BY ThreadKinds DEF Control, Types
<1>2. CASE u \in Runner /\ \/ Spurious(u) \/ Rewait(u) \/ Enter(u) \/ Relock(u)
                           \/ Exit(u) \/ Wait(u)
  <2>1. queue' = queue
    BY <1>2 DEF Spurious, Rewait, Enter, Relock, Exit, Wait, sharedVars
  <2>2. /\ pc[u] \in {"waiting", "woken", "enter", "relock", "top"}
        /\ \/ /\ \E x \in {"woken", "top", "waiting", "relock", "exited"} :
                   pc' = [pc EXCEPT ![u] = x]
              /\ then' = then
           \/ /\ pc' = [pc EXCEPT ![u] = "stop"]
              /\ then' = [then EXCEPT ![u] = "exited"]
    BY <1>2 DEF Spurious, Rewait, Enter, Relock, Exit, Wait, AtTop, Go, threadVars
  <2>3. \A v \in Runner : InTask(v)' <=> InTask(v)
    BY <1>1, <2>2 DEF InTask
  <2> QED
    BY <2>1, <2>3, ReactorStays
<1>3. CASE u \in Runner /\ Take(u)
  <2>1. \A v \in Runner : InTask(v)' <=> InTask(v)
    BY <1>1, <1>3, TakeControl DEF InTask
  <2> QED
    BY <1>3, <2>1, TakeControl, ReactorStays
<1>4. CASE u \in Runner /\ (Epoll(u) \/ PerformIo(u))
  <2>1. \A v \in Runner : InTask(v)' <=> InTask(v)
    BY <1>1, <1>4, EpollControl, PerformIoControl DEF InTask
  <2>2. queue' = queue
    BY <1>4, EpollControl, PerformIoControl
  <2> QED
    BY <2>1, <2>2, ReactorStays
<1>5. CASE u \in Runner /\ (WorkCleanup(u) \/ Flush(u))
  <2>1. \A v \in Runner : InTask(v)' <=> InTask(v)
    BY <1>1, <1>5, CleanupControl DEF InTask
  <2> QED
    BY <1>5, <2>1, CleanupControl, ReactorStays
<1>6. CASE Ends(u)
  <2>1. queue' = queue
    BY <1>6, EndsFacts
  <2>2. ASSUME NEW v \in Runner
        PROVE  InTask(v)' <=> InTask(v)
    <3>1. CASE v = u
      BY <1>1, <1>6, <3>1, EndsFacts DEF InTask
    <3>2. CASE v # u
      BY <1>1, <1>6, <3>2, EndsFacts DEF InTask
    <3> QED
      BY <3>1, <3>2
  <2> QED
    BY <2>1, <2>2, ReactorStays
<1> QED
  BY <1>2, <1>3, <1>4, <1>5, <1>6

\* So do the calls of handlers and of outsiders.
LEMMA ReactorCalls ==
  ASSUME Control, Reactor, NEW u \in Threads, Calls(u)
  PROVE  Reactor'
<1>1. \A v \in Runner : v \in Threads
  BY ThreadKinds
<1>2. \/ UNCHANGED << pc, then >>
      \/ /\ pc' = [pc EXCEPT ![u] = "signal"]
         /\ then' = [then EXCEPT ![u] = pc[u]]
  BY CallsControl
<1>3. \A v \in Runner : InTask(v)' <=> InTask(v)
  BY <1>1, <1>2 DEF Calls, InTask, Control, Types
<1>4. \A i \in Item \ {Task} : << i >> \in Seq(Item) /\ Lacks(<< i >>, Task)
  BY DEF Lacks
<1>5. \/ queue' = queue
      \/ \E r \in Seq(Item) : Lacks(r, Task) /\ queue' = queue \o r
  BY <1>4, CallsControl
<1> QED
  BY <1>3, <1>5, ReactorStays

-----------------------------------------------------------------------------
(* Where the event of a socket is.                                         *)

\* A descriptor is in a thread's own queue only between its epoll_wait and the
\* end of task_cleanup.
OwnQueues ==
  \A t \in Runner : pc[t] # "returned" =>
    \A s \in Sock : Lacks(mine[t], Desc(s))

\* An event for socket s is on its way to perform_io.
Pending(s) ==
  \/ s \in edge
  \/ ~ Lacks(queue, Desc(s))
  \/ \E t \in Runner : \/ ~ Lacks(mine[t], Desc(s))
                       \/ cur[t] = Desc(s) /\ pc[t] \in {"perform", "signal"}

\* Data waits in a socket: with a read that is queued, or one that will not be
\* tried at once, an event is on its way.
Waits(s) == data[s] > 0 /\ (reading[s] = "queued" \/ ~ try[s])

Ready == \A s \in Sock : Waits(s) => Pending(s)

\* What keeps an event on its way: nothing is taken off, and the threads that
\* hold a descriptor go on with it.
LEMMA PendingStays ==
  ASSUME Control, NEW s \in Sock, Pending(s),
         s \in edge => s \in edge',
         Lacks(queue', Desc(s)) => Lacks(queue, Desc(s)),
         \A t \in Runner : Lacks(mine'[t], Desc(s)) => Lacks(mine[t], Desc(s)),
         \A t \in Runner : cur[t] = Desc(s) /\ pc[t] \in {"perform", "signal"} =>
                           cur'[t] = Desc(s) /\ pc'[t] \in {"perform", "signal"}
  PROVE  Pending(s)'
<1>1. CASE s \in edge
  BY <1>1 DEF Pending
<1>2. CASE ~ Lacks(queue, Desc(s))
  BY <1>2 DEF Pending
<1>3. CASE \E t \in Runner : ~ Lacks(mine[t], Desc(s))
  <2>1. PICK t \in Runner : ~ Lacks(mine'[t], Desc(s))
    BY <1>3
  <2> QED
    BY <2>1 DEF Pending
<1>4. CASE \E t \in Runner : cur[t] = Desc(s) /\ pc[t] \in {"perform", "signal"}
  <2>1. PICK t \in Runner : cur'[t] = Desc(s) /\ pc'[t] \in {"perform", "signal"}
    BY <1>4
  <2> QED
    BY <2>1 DEF Pending
<1> QED
  BY <1>1, <1>2, <1>3, <1>4 DEF Pending

\* epoll_wait turns the events into descriptors, task_cleanup puts these into
\* the queue, and a thread takes one from there.
LEMMA PendingMoves ==
  ASSUME Control, OwnQueues, NEW s \in Sock, Pending(s), NEW t \in Runner,
         Epoll(t) \/ TaskCleanup(t) \/ Take(t) \/ TakeTask(t)
  PROVE  Pending(s)'
<1>1. /\ \A v \in Runner : v \in Threads
      /\ pc \in [Threads -> PCs] /\ queue \in Seq(Item) /\ cur \in [Runner -> Item]
  BY ThreadKinds DEF Control, Types
<1>2. CASE Epoll(t)
  <2>1. CASE s \in edge
    <3>1. ~ Lacks(mine'[t], Desc(s))
      BY <1>2, <2>1, EpollControl
    <3> QED
      BY <3>1 DEF Pending
  <2>2. CASE s \notin edge
    <3>1. pc[t] = "epoll" /\ pc' = [pc EXCEPT ![t] = "returned"]
          /\ UNCHANGED << queue, cur >>
          /\ \A v \in Runner \ {t} : mine'[v] = mine[v]
      BY <1>2, EpollControl
    <3>2. Lacks(mine[t], Desc(s))
      BY <3>1 DEF OwnQueues
    <3>3. \A v \in Runner : Lacks(mine'[v], Desc(s)) => Lacks(mine[v], Desc(s))
      BY <3>1, <3>2
    <3>4. \A v \in Runner : cur[v] = Desc(s) /\ pc[v] \in {"perform", "signal"} =>
                            cur'[v] = Desc(s) /\ pc'[v] \in {"perform", "signal"}
      BY <1>1, <3>1
    <3> QED
      BY <2>2, <3>1, <3>3, <3>4, PendingStays
  <2> QED
    BY <2>1, <2>2
<1>3. CASE TaskCleanup(t)
  <2>1. /\ pc[t] = "returned" /\ pc' = [pc EXCEPT ![t] = "top"]
        /\ UNCHANGED << cur, edge >>
        /\ mine[t] \in Seq(Item)
        /\ queue' = (queue \o mine[t]) \o << Task >>
        /\ mine' = [mine EXCEPT ![t] = << >>]
    BY <1>3, TaskCleanupControl
  <2>2. << Task >> \in Seq(Item)
    BY Kinds
  <2>3. CASE ~ Lacks(mine[t], Desc(s))
    <3>1. PICK n \in 1 .. Len(mine[t]) : mine[t][n] = Desc(s)
      BY <2>3 DEF Lacks
    <3>2. /\ queue \o mine[t] \in Seq(Item)
          /\ Len(queue) + n \in 1 .. Len(queue \o mine[t])
          /\ (queue \o mine[t])[Len(queue) + n] = Desc(s)
      BY <1>1, <2>1, <3>1, ConcatFacts
    <3>3. /\ Len(queue) + n \in 1 .. Len(queue')
          /\ queue'[Len(queue) + n] = Desc(s)
      BY <2>1, <2>2, <3>2, ConcatFacts
    <3> QED
      BY <3>3 DEF Pending, Lacks
  <2>4. CASE Lacks(mine[t], Desc(s))
    <3>1. Lacks(queue', Desc(s)) => Lacks(queue, Desc(s))
      BY <1>1, <2>1, <2>2, ConcatFacts, ConcatKeeps
    <3>2. \A v \in Runner : Lacks(mine'[v], Desc(s)) => Lacks(mine[v], Desc(s))
      BY <2>1, <2>4 DEF Control, Types
    <3>3. \A v \in Runner : cur[v] = Desc(s) /\ pc[v] \in {"perform", "signal"} =>
                            cur'[v] = Desc(s) /\ pc'[v] \in {"perform", "signal"}
      BY <1>1, <2>1
    <3> QED
      BY <2>1, <3>1, <3>2, <3>3, PendingStays
  <2> QED
    BY <2>3, <2>4
<1>4. CASE Take(t) \/ TakeTask(t)
  <2>1. /\ queue # << >> /\ queue' = Tail(queue)
        /\ pc[t] = "top" /\ UNCHANGED << mine, edge >>
        /\ cur' = [cur EXCEPT ![t] = Head(queue)]
    BY <1>4, TakeControl, TakeTaskControl
  <2>2. \A v \in Runner \ {t} : pc'[v] = pc[v]
    BY <1>1, <1>4, TakeControl, TakeTaskControl
  <2>3. CASE Head(queue) = Desc(s)
    <3>5. Desc(s) # Task /\ Desc(s).kind = "desc"
      BY Kinds
    <3>1. Take(t) /\ Head(queue).kind = "desc"
      BY <1>4, <2>3, <3>5, TakeTaskControl
    <3>2. PICK where \in {"perform", "handler"} :
            /\ where = "perform" <=> Head(queue).kind = "desc"
            /\ \/ pc' = [pc EXCEPT ![t] = where] /\ then' = then
               \/ /\ pc' = [pc EXCEPT ![t] = "signal"]
                  /\ then' = [then EXCEPT ![t] = where]
      BY <3>1, TakeControl
    <3>4. pc'[t] \in {"perform", "signal"}
      BY <1>1, <3>1, <3>2
    <3>3. cur'[t] = Desc(s)
      BY <1>1, <2>1, <2>3
    <3> QED
      BY <3>3, <3>4 DEF Pending
  <2>4. CASE Head(queue) # Desc(s) /\ ~ Lacks(queue, Desc(s))
    <3>1. PICK n \in 1 .. Len(queue) : queue[n] = Desc(s)
      BY <2>4 DEF Lacks
    <3>2. n - 1 \in 1 .. Len(queue') /\ n = (n - 1) + 1
      BY <1>1, <2>1, <2>4, <3>1, TailFacts
    <3>3. queue'[n - 1] = Desc(s)
      BY <1>1, <2>1, <3>1, <3>2, TailFacts
    <3> QED
      BY <3>2, <3>3 DEF Pending, Lacks
  <2>5. CASE Lacks(queue, Desc(s))
    <3>1. CASE s \in edge \/ \E v \in Runner : ~ Lacks(mine[v], Desc(s))
      BY <2>1, <3>1 DEF Pending
    <3>2. CASE \E v \in Runner : cur[v] = Desc(s) /\ pc[v] \in {"perform", "signal"}
      <4>1. PICK v \in Runner : cur[v] = Desc(s) /\ pc[v] \in {"perform", "signal"}
        BY <3>2
      <4>2. v # t
        BY <2>1, <4>1
      <4>3. cur'[v] = Desc(s) /\ pc'[v] \in {"perform", "signal"}
        BY <1>1, <2>1, <2>2, <4>1, <4>2
      <4> QED
        BY <4>3 DEF Pending
    <3> QED
      BY <2>5, <3>1, <3>2 DEF Pending
  <2> QED
    BY <2>3, <2>4, <2>5
<1> QED
  BY <1>2, <1>3, <1>4

\* The queues of the threads.
LEMMA OwnQueuesStay ==
  ASSUME Control, OwnQueues,
         \A t \in Runner : pc'[t] # "returned" =>
           \/ mine'[t] = << >>
           \/ mine'[t] = mine[t] /\ pc[t] # "returned"
           \/ \E h \in Op : mine'[t] = mine[t] \o << Post(h) >> /\ pc[t] # "returned"
  PROVE  OwnQueues'
<1> SUFFICES ASSUME NEW t \in Runner, pc'[t] # "returned", NEW s \in Sock
             PROVE  Lacks(mine'[t], Desc(s))
  BY DEF OwnQueues
<1>1. CASE mine'[t] = << >>
  BY <1>1 DEF Lacks
<1>2. CASE mine'[t] = mine[t] /\ pc[t] # "returned"
  BY <1>2 DEF OwnQueues
<1>3. CASE \E h \in Op : mine'[t] = mine[t] \o << Post(h) >> /\ pc[t] # "returned"
  <2>1. PICK h \in Op : mine'[t] = mine[t] \o << Post(h) >> /\ pc[t] # "returned"
    BY <1>3
  <2>2. Post(h) # Desc(s)
    BY DEF Post, Desc
  <2>3. /\ << Post(h) >> \in Seq(Item) /\ Lacks(<< Post(h) >>, Desc(s))
        /\ mine[t] \in Seq(Item)
    BY <2>2, Kinds DEF Control, Types, Lacks
  <2>4. Lacks(mine[t], Desc(s))
    BY <2>1 DEF OwnQueues
  <2> QED
    BY <2>1, <2>3, <2>4, ConcatLacks
<1> QED
  BY <1>1, <1>2, <1>3

\* The steps of threads that leave the sockets alone.
LEMMA LoopReady ==
  ASSUME Control, OwnQueues, Ready, NEW u \in Threads,
         \/ u \in Runner /\ \/ Spurious(u) \/ Rewait(u) \/ Enter(u) \/ Relock(u)
                            \/ Exit(u) \/ Wait(u) \/ TakeTask(u) \/ Take(u)
                            \/ Epoll(u) \/ TaskCleanup(u)
                            \/ WorkCleanup(u) \/ Flush(u)
         \/ Ends(u)
  PROVE  OwnQueues' /\ Ready'
<1>1. /\ \A v \in Runner : v \in Threads
      /\ pc \in [Threads -> PCs] /\ queue \in Seq(Item) /\ cur \in [Runner -> Item]
      /\ mine \in [Runner -> Seq(Item \ {Task})]
  BY ThreadKinds DEF Control, Types
<1>2. CASE u \in Runner /\ \/ Spurious(u) \/ Rewait(u) \/ Enter(u) \/ Relock(u)
                           \/ Exit(u) \/ Wait(u)
  <2>1. /\ UNCHANGED << queue, mine, cur, reading, try, data, edge >>
        /\ pc[u] \in {"waiting", "woken", "enter", "relock", "top"}
        /\ \A v \in Runner \ {u} : pc'[v] = pc[v]
    BY <1>1, <1>2 DEF Spurious, Rewait, Enter, Relock, Exit, Wait, AtTop, Go,
                      sharedVars, threadVars, sockVars
  <2>2. OwnQueues'
    BY <1>2, <2>1, OwnQueuesStay
  <2>3. ASSUME NEW s \in Sock, Pending(s)
        PROVE  Pending(s)'
    <3>1. \A v \in Runner : cur[v] = Desc(s) /\ pc[v] \in {"perform", "signal"} =>
                            cur'[v] = Desc(s) /\ pc'[v] \in {"perform", "signal"}
      BY <2>1
    <3> QED
      BY <2>1, <2>3, <3>1, PendingStays
  <2>4. \A s \in Sock : Waits(s)' => Waits(s)
    BY <2>1 DEF Waits
  <2> QED
    BY <2>2, <2>3, <2>4 DEF Ready
<1>3. CASE u \in Runner /\ (TakeTask(u) \/ Take(u) \/ Epoll(u) \/ TaskCleanup(u))
  <2>1. /\ \A v \in Runner \ {u} : pc'[v] = pc[v] /\ mine'[v] = mine[v]
        /\ \/ pc[u] = "top" /\ mine' = mine
           \/ pc'[u] = "returned"
           \/ mine'[u] = << >>
    <3>1. CASE TakeTask(u) \/ Take(u)
      BY <1>1, <1>3, <3>1, TakeTaskControl, TakeControl
    <3>2. CASE Epoll(u)
      BY <1>1, <1>3, <3>2, EpollControl
    <3>3. CASE TaskCleanup(u)
      BY <1>1, <1>3, <3>3, TaskCleanupControl
    <3> QED
      BY <1>3, <3>1, <3>2, <3>3
  <2>2. OwnQueues'
    BY <2>1, OwnQueuesStay
  <2>3. /\ UNCHANGED << try, data >>
        /\ \A s \in Sock : reading'[s] \in {reading[s], "none"}
    BY <1>3, TakeTaskControl, TakeControl, EpollControl, TaskCleanupControl
  <2>4. \A s \in Sock : Waits(s)' => Waits(s)
    BY <2>3 DEF Waits
  <2>5. \A s \in Sock : Pending(s) => Pending(s)'
    BY <1>3, PendingMoves
  <2> QED
    BY <2>2, <2>4, <2>5 DEF Ready
<1>4. CASE u \in Runner /\ (WorkCleanup(u) \/ Flush(u))
  <2>1. /\ pc[u] \in {"handler", "cleanup", "flush"}
        /\ pc'[u] # "returned" /\ \A v \in Runner \ {u} : pc'[v] = pc[v]
        /\ \A v \in Runner \ {u} : cur'[v] = cur[v] /\ mine'[v] = mine[v]
        /\ mine'[u] \in {mine[u], << >>} /\ mine[u] \in Seq(Item)
        /\ queue' = queue \/ queue' = queue \o mine[u]
        /\ UNCHANGED << reading, try, data, edge >>
    BY <1>1, <1>4, CleanupControl
  <2>2. OwnQueues'
    BY <2>1, OwnQueuesStay
  <2>3. ASSUME NEW s \in Sock, Pending(s)
        PROVE  Pending(s)'
    <3>1. \A v \in Runner : cur[v] = Desc(s) /\ pc[v] \in {"perform", "signal"} =>
                            cur'[v] = Desc(s) /\ pc'[v] \in {"perform", "signal"}
      BY <2>1
    <3>2. \A v \in Runner : Lacks(mine'[v], Desc(s)) => Lacks(mine[v], Desc(s))
      BY <1>4, <2>1 DEF OwnQueues
    <3>3. Lacks(queue', Desc(s)) => Lacks(queue, Desc(s))
      BY <1>1, <2>1, ConcatKeeps
    <3> QED
      BY <2>1, <2>3, <3>1, <3>2, <3>3, PendingStays
  <2>4. \A s \in Sock : Waits(s)' => Waits(s)
    BY <2>1 DEF Waits
  <2> QED
    BY <2>2, <2>3, <2>4 DEF Ready
<1>5. CASE Ends(u)
  <2>1. UNCHANGED << queue, mine, cur, reading, try, data, edge >>
    BY <1>5, EndsFacts
  <2>2. ASSUME NEW t \in Runner, pc'[t] # "returned"
        PROVE  pc[t] # "returned"
    <3>1. t = u => pc[t] # "returned"
      BY <1>5, EndsFacts
    <3>2. t # u => pc'[t] = pc[t] \/ pc[t] = "waiting"
      BY <1>1, <1>5, EndsFacts
    <3> QED
      BY <2>2, <3>1, <3>2
  <2>3. OwnQueues'
    BY <2>1, <2>2, OwnQueuesStay
  <2>4. ASSUME NEW s \in Sock, Pending(s)
        PROVE  Pending(s)'
    <3>1. ASSUME NEW v \in Runner, cur[v] = Desc(s), pc[v] \in {"perform", "signal"}
          PROVE  pc'[v] \in {"perform", "signal"}
      <4>1. CASE v = u
        <5>1. pc[v] = "signal" /\ pc'[v] = then[v]
          BY <1>5, <3>1, <4>1, EndsFacts
        <5>2. then[v] = "perform"
          BY <3>1, <5>1, Kinds DEF Control, Holds
        <5> QED
          BY <5>1, <5>2
      <4>2. CASE v # u
        BY <1>1, <1>5, <3>1, <4>2, EndsFacts
      <4> QED
        BY <4>1, <4>2
    <3> QED
      BY <2>1, <2>4, <3>1, PendingStays
  <2>5. \A s \in Sock : Waits(s)' => Waits(s)
    BY <2>1 DEF Waits
  <2> QED
    BY <2>3, <2>4, <2>5 DEF Ready
<1> QED
  BY <1>2, <1>3, <1>4, <1>5

\* The steps that work on sockets.
LEMMA SocketReady ==
  ASSUME Control, OwnQueues, Ready,
         \/ \E t \in Runner : PerformIo(t)
         \/ \E s \in Sock : \/ \E u \in Outsider : Register(u, s)
                            \/ \E u \in Runner : StartRead(u, s) \/ Close(u, s)
                            \/ Arrive(s)
  PROVE  OwnQueues' /\ Ready'
<1>1. /\ \A v \in Runner : v \in Threads
      /\ \A v \in Outsider : v \in Threads
      /\ pc \in [Threads -> PCs]
  BY ThreadKinds DEF Control, Types
<1>2. CASE \E t \in Runner : PerformIo(t)
  <2>1. PICK t \in Runner : PerformIo(t)
    BY <1>2
  <2>2. PICK s \in Sock :
          /\ cur[t] = Desc(s)
          /\ reading'[s] # "queued" \/ data'[s] = 0
          /\ data'[s] = 0 \/ try'[s]
          /\ \A r \in Sock \ {s} : /\ reading'[r] = reading[r]
                                   /\ data'[r] = data[r] /\ try'[r] = try[r]
    BY <2>1, PerformIoControl
  <2>3. /\ pc[t] = "perform" /\ UNCHANGED << queue, mine, edge >>
        /\ \A v \in Runner \ {t} : cur'[v] = cur[v] /\ pc'[v] = pc[v]
        /\ pc'[t] # "returned"
    BY <1>1, <2>1, PerformIoControl
  <2>4. OwnQueues'
    BY <2>3, OwnQueuesStay
  <2>5. ~ Waits(s)'
    BY <2>2 DEF Waits, Control, Types
  <2>6. ASSUME NEW r \in Sock \ {s}, Waits(r)'
        PROVE  Pending(r)'
    <3>1. Pending(r)
      BY <2>2, <2>6 DEF Waits, Ready
    <3>2. Desc(r) # Desc(s)
      BY Kinds
    <3>3. \A v \in Runner : cur[v] = Desc(r) /\ pc[v] \in {"perform", "signal"} =>
                            cur'[v] = Desc(r) /\ pc'[v] \in {"perform", "signal"}
      BY <2>2, <2>3, <3>2
    <3> QED
      BY <2>3, <3>1, <3>3, PendingStays
  <2> QED
    BY <2>4, <2>5, <2>6 DEF Ready
<1>3. CASE \E s \in Sock : \/ \E u \in Outsider : Register(u, s)
                           \/ \E u \in Runner : StartRead(u, s) \/ Close(u, s)
  <2>1. PICK s \in Sock : \/ \E u \in Outsider : Register(u, s)
                          \/ \E u \in Runner : StartRead(u, s) \/ Close(u, s)
    BY <1>3
  <2>2. PICK u \in Threads : \/ u \in Outsider /\ Register(u, s)
                             \/ u \in Runner /\ (StartRead(u, s) \/ Close(u, s))
    BY <1>1, <2>1
  <2>3. /\ Calls(u) /\ mine' = mine
        /\ edge' = edge \/ (edge' = edge \ {s} /\ data'[s] = 0)
        /\ \/ data'[s] = 0
           \/ try'[s] /\ reading'[s] = "done"
           \/ try'[s] /\ reading'[s] = reading[s] /\ data'[s] = data[s]
           \/ data'[s] = data[s] /\ ~ try[s]
        /\ \A r \in Sock \ {s} : /\ reading'[r] = reading[r]
                                 /\ data'[r] = data[r] /\ try'[r] = try[r]
    BY <2>2, SocketControl
  <2>4. /\ pc[u] \in {"handler", "free"} /\ pc'[u] # "returned"
        /\ \A v \in Runner \ {u} : pc'[v] = pc[v]
        /\ cur' = cur
        /\ queue' = queue \/ \E i \in Item \ {Task} : queue' = queue \o << i >>
    BY <1>1, <2>3, CallsControl DEF Calls
  <2>5. OwnQueues'
    BY <2>3, <2>4, OwnQueuesStay
  <2>6. ASSUME NEW r \in Sock, Pending(r), r \in edge => r \in edge'
        PROVE  Pending(r)'
    <3>1. Lacks(queue', Desc(r)) => Lacks(queue, Desc(r))
      <4>1. \A i \in Item \ {Task} : << i >> \in Seq(Item)
        OBVIOUS
      <4>2. queue \in Seq(Item)
        BY DEF Control, Types
      <4> QED
        BY <2>4, <4>1, <4>2, ConcatKeeps
    <3>2. \A v \in Runner : cur[v] = Desc(r) /\ pc[v] \in {"perform", "signal"} =>
                            cur'[v] = Desc(r) /\ pc'[v] \in {"perform", "signal"}
      BY <2>4
    <3> QED
      BY <2>3, <2>6, <3>1, <3>2, PendingStays
  <2>7. ASSUME Waits(s)'
        PROVE  Pending(s)'
    <3>1. data'[s] > 0 /\ (reading'[s] = "queued" \/ ~ try'[s])
      BY <2>7 DEF Waits
    <3>2. Waits(s) /\ edge' = edge
      BY <2>3, <3>1 DEF Waits
    <3> QED
      BY <2>6, <3>2 DEF Ready
  <2>8. ASSUME NEW r \in Sock \ {s}, Waits(r)'
        PROVE  Pending(r)'
    <3>1. Waits(r)
      BY <2>3, <2>8 DEF Waits
    <3>2. r \in edge => r \in edge'
      BY <2>3
    <3> QED
      BY <2>6, <3>1, <3>2 DEF Ready
  <2> QED
    BY <2>5, <2>7, <2>8 DEF Ready
<1>4. CASE \E s \in Sock : Arrive(s)
  <2>1. PICK s \in Sock : Arrive(s)
    BY <1>4
  <2>2. /\ UNCHANGED << queue, pc, then, mine, cur, reading, try >>
        /\ edge' = edge \cup {s}
        /\ \A r \in Sock \ {s} : data'[r] = data[r]
    BY <2>1, ArriveControl
  <2>3. OwnQueues'
    BY <2>2 DEF OwnQueues
  <2>4. Pending(s)'
    BY <2>2 DEF Pending
  <2>5. ASSUME NEW r \in Sock \ {s}, Waits(r)'
        PROVE  Pending(r)'
    <3>1. Pending(r)
      BY <2>2, <2>5 DEF Waits, Ready
    <3> QED
      BY <2>2, <3>1, PendingStays
  <2> QED
    BY <2>3, <2>4, <2>5 DEF Ready
<1> QED
  BY <1>2, <1>3, <1>4

\* The other calls.
LEMMA CallsReady ==
  ASSUME Control, OwnQueues, Ready,
         \/ \E u \in Outsider : StopCall(u) \/ \E h \in Op : PostCall(u, h)
         \/ \E t \in Runner, h \in Op : Defer(t, h)
  PROVE  OwnQueues' /\ Ready'
<1>1. /\ \A v \in Runner : v \in Threads
      /\ \A v \in Outsider : v \in Threads /\ v \notin Runner
      /\ pc \in [Threads -> PCs] /\ queue \in Seq(Item)
  BY ThreadKinds DEF Control, Types
<1>2. UNCHANGED << cur, reading, try, data, edge >>
  BY StopCallControl, PostControl, DeferControl DEF Calls
<1>3. CASE \E u \in Outsider : StopCall(u) \/ \E h \in Op : PostCall(u, h)
  <2>1. PICK u \in Outsider : StopCall(u) \/ \E h \in Op : PostCall(u, h)
    BY <1>3
  <2>2. /\ \A v \in Runner : pc'[v] = pc[v]
        /\ mine' = mine
        /\ queue' = queue \/ \E i \in Item \ {Task} : queue' = queue \o << i >>
    <3>1. CASE StopCall(u)
      BY <1>1, <3>1, StopCallControl
    <3>2. CASE \E h \in Op : PostCall(u, h)
      BY <1>1, <3>2, PostControl, CallsControl, ZenonT(40)
    <3> QED
      BY <2>1, <3>1, <3>2
  <2>3. OwnQueues'
    BY <2>2, OwnQueuesStay
  <2>4. \A s \in Sock : Lacks(queue', Desc(s)) => Lacks(queue, Desc(s))
    <3>1. \A i \in Item \ {Task} : << i >> \in Seq(Item)
      OBVIOUS
    <3> QED
      BY <1>1, <2>2, <3>1, ConcatKeeps
  <2>5. \A s \in Sock : Pending(s) => Pending(s)'
    BY <1>2, <2>2, <2>4, PendingStays
  <2> QED
    BY <1>2, <2>3, <2>5 DEF Ready, Waits
<1>4. CASE \E t \in Runner, h \in Op : Defer(t, h)
  <2>1. PICK t \in Runner, h \in Op : Defer(t, h)
    BY <1>4
  <2>2. /\ UNCHANGED << queue, pc >> /\ pc[t] = "handler"
        /\ mine'[t] = mine[t] \o << Post(h) >>
        /\ \A v \in Runner \ {t} : mine'[v] = mine[v]
    BY <2>1, DeferControl DEF Control, Types
  <2>3. OwnQueues'
    BY <2>2, OwnQueuesStay
  <2>4. \A s \in Sock, v \in Runner : Lacks(mine'[v], Desc(s)) => Lacks(mine[v], Desc(s))
    BY <2>2 DEF OwnQueues
  <2>5. \A s \in Sock : Pending(s) => Pending(s)'
    BY <1>2, <2>2, <2>4, PendingStays
  <2> QED
    BY <1>2, <2>3, <2>5 DEF Ready, Waits
<1> QED
  BY <1>3, <1>4

-----------------------------------------------------------------------------
(* The theorems.                                                           *)

IInv == Control /\ Reactor /\ OwnQueues /\ Ready

LEMMA InitInv == Init => IInv
<1> SUFFICES ASSUME Init
             PROVE  IInv
  OBVIOUS
<1>1. Runner \subseteq Threads
  BY ThreadKinds
<1>2. /\ queue = << Task >> /\ queue \in Seq(Item)
      /\ cur \in [Runner -> Item]
      /\ mine = [t \in Runner |-> << >>]
  BY Kinds DEF Init
<1>3. mine \in [Runner -> Seq(Item \ {Task})]
  BY <1>2
<1>4. pc \in [Threads -> PCs] /\ then \in [Threads -> Thens]
  BY DEF Init, PCs, Thens
<1>5. /\ reading \in [Sock -> {"none", "queued", "done"}]
      /\ try \in [Sock -> BOOLEAN]
      /\ data = [s \in Sock |-> 0] /\ data \in [Sock -> Nat]
      /\ edge \in SUBSET Sock
  BY DEF Init
<1>6. Types
  BY <1>2, <1>3, <1>4, <1>5 DEF Types
<1>7. \A t \in Runner : pc[t] = "enter"
  BY <1>1 DEF Init
<1>8. Returns /\ Holds
  BY <1>7 DEF Init, Returns, Holds
<1>9. Reactor
  <2>1. HasOne(queue, Task)
    BY <1>2 DEF HasOne
  <2> QED
    BY <1>7, <2>1 DEF Reactor, InTask
<1>10. OwnQueues
  BY <1>2 DEF OwnQueues, Lacks
<1>11. Ready
  BY <1>5 DEF Ready, Waits
<1> QED
  BY <1>6, <1>8, <1>9, <1>10, <1>11 DEF IInv, Control

LEMMA StepInv == IInv /\ [Next]_asioVars => IInv'
<1> SUFFICES ASSUME IInv, [Next]_asioVars
             PROVE  IInv'
  OBVIOUS
<1> USE DEF IInv
<1>1. Runner \subseteq Threads /\ Outsider \subseteq Threads
  BY ThreadKinds
<1>2. ASSUME NEW t \in Runner,
             \/ Spurious(t) \/ Rewait(t) \/ Enter(t) \/ Relock(t) \/ Exit(t) \/ Wait(t)
      PROVE  IInv'
  BY <1>1, <1>2, MoveControl, ReactorKept, LoopReady
<1>3. ASSUME NEW t \in Runner, TakeTask(t) \/ TaskCleanup(t)
      PROVE  IInv'
  BY <1>1, <1>3, TakeTaskControl, TaskCleanupControl, ReactorMoves, LoopReady
<1>4. ASSUME NEW t \in Runner, Take(t) \/ Epoll(t)
      PROVE  IInv'
  BY <1>1, <1>4, TakeControl, EpollControl, ReactorKept, LoopReady
<1>5. ASSUME NEW t \in Runner, PerformIo(t)
      PROVE  IInv'
  BY <1>1, <1>5, PerformIoControl, ReactorKept, SocketReady
<1>6. ASSUME NEW t \in Runner, WorkCleanup(t) \/ Flush(t)
      PROVE  IInv'
  BY <1>1, <1>6, CleanupControl, ReactorKept, LoopReady
<1>7. ASSUME NEW u \in Threads, Ends(u)
      PROVE  IInv'
  BY <1>7, EndsControl, ReactorKept, LoopReady
<1>8. ASSUME NEW t \in Runner, NEW s \in Sock, StartRead(t, s) \/ Close(t, s)
      PROVE  IInv'
  BY <1>1, <1>8, SocketControl, ReactorCalls, SocketReady
<1>9. ASSUME NEW u \in Outsider, NEW s \in Sock, Register(u, s)
      PROVE  IInv'
  BY <1>1, <1>9, SocketControl, ReactorCalls, SocketReady
<1>10. ASSUME NEW u \in Outsider, NEW h \in Op, PostCall(u, h)
       PROVE  IInv'
  BY <1>1, <1>10, PostControl, ReactorCalls, CallsReady
<1>11. ASSUME NEW t \in Runner, NEW h \in Op, Defer(t, h)
       PROVE  IInv'
  <2>1. Control' /\ UNCHANGED << queue, pc, then >>
    BY <1>11, DeferControl
  <2>2. \A v \in Runner : InTask(v)' <=> InTask(v)
    BY <2>1 DEF InTask
  <2> QED
    BY <1>11, <2>1, <2>2, ReactorStays, CallsReady
<1>12. ASSUME NEW u \in Outsider, StopCall(u)
       PROVE  IInv'
  <2>1. /\ Control' /\ queue' = queue
        /\ pc' = [pc EXCEPT ![u] = "stop"] /\ then' = [then EXCEPT ![u] = "exited"]
    BY <1>12, StopCallControl
  <2>2. \A v \in Runner : InTask(v)' <=> InTask(v)
    BY <1>1, <2>1, ThreadKinds DEF InTask, Control, Types
  <2> QED
    BY <1>12, <2>1, <2>2, ReactorStays, CallsReady
<1>13. ASSUME NEW s \in Sock, Arrive(s)
       PROVE  IInv'
  <2>1. Control' /\ UNCHANGED << queue, pc, then >>
    BY <1>13, ArriveControl
  <2>2. \A v \in Runner : InTask(v)' <=> InTask(v)
    BY <2>1 DEF InTask
  <2> QED
    BY <1>13, <2>1, <2>2, ReactorStays, SocketReady
<1>14. CASE UNCHANGED asioVars
  BY <1>14 DEF asioVars, sharedVars, threadVars, sockVars, Control, Types,
               Returns, Holds, Reactor, InTask, OwnQueues, Ready, Waits, Pending
<1> QED
  BY <1>2, <1>3, <1>4, <1>5, <1>6, <1>7, <1>8, <1>9, <1>10, <1>11, <1>12,
     <1>13, <1>14 DEF Next, Loop

LEMMA InvHolds == Spec => []IInv
BY InitInv, StepInv, PTL DEF Spec

\* The reactor is in the queue once, or one thread has taken it: two threads
\* never sleep in epoll_wait on one io_context, and the reactor never gets lost.
THEOREM ReactorIsUnique == Spec => []OneReactor
<1>1. ASSUME IInv
      PROVE  OneReactor
  <2> DEFINE places == { i \in 1 .. Len(queue) : queue[i] = Task }
  <2>1. ASSUME HasOne(queue, Task)
        PROVE  Cardinality(places) = 1
    <3>1. PICK n \in 1 .. Len(queue) :
            queue[n] = Task /\ \A m \in 1 .. Len(queue) : queue[m] = Task => m = n
      BY <2>1 DEF HasOne
    <3>2. places = {n}
      BY <3>1
    <3> QED
      BY <3>2, FS_Singleton
  <2>2. Lacks(queue, Task) => places = {}
    BY DEF Lacks
  <2> QED
    BY <1>1, <2>1, <2>2 DEF IInv, Reactor, OneReactor
<1> QED
  BY <1>1, InvHolds, PTL

\* A read that waits with data in its socket is about to get it: although the
\* registration is edge-triggered and an event that finds no read is dropped,
\* the flag that makes the next read try at once is set in time.
THEOREM DataIsNotLost == Spec => []NoLostData
<1>1. ASSUME IInv
      PROVE  NoLostData
  <2> SUFFICES ASSUME NEW s \in Sock, reading[s] = "queued", data[s] > 0
               PROVE  \/ s \in edge
                      \/ \E n \in DOMAIN queue : queue[n] = Desc(s)
                      \/ \E t \in Runner :
                           \/ \E n \in DOMAIN mine[t] : mine[t][n] = Desc(s)
                           \/ cur[t] = Desc(s) /\ pc[t] \in {"perform", "signal"}
    BY DEF NoLostData
  <2>1. Pending(s)
    BY <1>1 DEF IInv, Ready, Waits
  <2>2. /\ DOMAIN queue = 1 .. Len(queue)
        /\ \A t \in Runner : DOMAIN mine[t] = 1 .. Len(mine[t])
    BY <1>1 DEF IInv, Control, Types
  <2> QED
    BY <2>1, <2>2 DEF Pending, Lacks
<1> QED
  BY <1>1, InvHolds, PTL

===============================================================================
