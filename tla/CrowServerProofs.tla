-------------------------- MODULE CrowServerProofs --------------------------
(***************************************************************************)
(* Theorems about CrowServer, for any number of workers and connections    *)
(* and any timeout.                                                        *)
(***************************************************************************)
EXTENDS CrowServer, FiniteSetTheorems, TLAPS

-----------------------------------------------------------------------------
(* The operators of a task_timer.                                          *)

Tasks == UNION { [D -> Task] : D \in SUBSET Nat }

TimerType == [tasks : Tasks, highest : Nat]

LEMMA NewTimerFacts ==
  /\ NewTimer \in TimerType
  /\ DOMAIN NewTimer.tasks = {}
<1>1. << >> \in [{} -> Task]
  OBVIOUS
<1>2. << >> \in Tasks
  BY <1>1 DEF Tasks
<1> QED
  BY <1>1, <1>2 DEF NewTimer, TimerType

LEMMA TasksFacts ==
  ASSUME NEW tm \in TimerType
  PROVE  /\ tm.highest \in Nat
         /\ DOMAIN tm.tasks \subseteq Nat
         /\ \A i \in DOMAIN tm.tasks : tm.tasks[i] \in Task
<1>1. PICK D \in SUBSET Nat : tm.tasks \in [D -> Task]
  BY DEF TimerType, Tasks
<1> QED
  BY <1>1 DEF TimerType

\* A function on some of the ids is a tasks_ map.
LEMMA TasksIntro ==
  ASSUME NEW D \in SUBSET Nat, NEW f \in [D -> Task]
  PROVE  f \in Tasks
BY DEF Tasks

LEMMA CancelFacts ==
  ASSUME NEW tm \in TimerType, NEW id
  PROVE  /\ Cancel(tm, id) \in TimerType
         /\ Cancel(tm, id).highest = tm.highest
         /\ DOMAIN Cancel(tm, id).tasks = DOMAIN tm.tasks \ {id}
         /\ \A i \in DOMAIN tm.tasks \ {id} :
              Cancel(tm, id).tasks[i] = tm.tasks[i]
<1> DEFINE rest == [i \in DOMAIN tm.tasks \ {id} |-> tm.tasks[i]]
<1>1. Cancel(tm, id) = [tasks |-> rest, highest |-> tm.highest]
  BY DEF Cancel, Drop, Restrict, TimerType
<1>2. rest \in [DOMAIN tm.tasks \ {id} -> Task]
  BY TasksFacts
<1>3. rest \in Tasks
  BY <1>2, TasksFacts, TasksIntro
<1> QED
  BY <1>1, <1>3 DEF TimerType

LEMMA ScheduleFacts ==
  ASSUME NEW tm \in TimerType, NEW c \in Conn,
         \A i \in DOMAIN tm.tasks : i <= tm.highest
  PROVE  /\ Schedule(tm, c) \in TimerType
         /\ Schedule(tm, c).highest = tm.highest + 1
         /\ DOMAIN Schedule(tm, c).tasks = DOMAIN tm.tasks \cup {tm.highest + 1}
         /\ \A i \in DOMAIN tm.tasks : Schedule(tm, c).tasks[i] = tm.tasks[i]
         /\ Schedule(tm, c).tasks[tm.highest + 1].conn = c
<1> DEFINE id == tm.highest + 1
           more == [i \in DOMAIN tm.tasks \cup {id} |->
                      IF i \in DOMAIN tm.tasks THEN tm.tasks[i]
                      ELSE [conn |-> c, left |-> Timeout]]
<1>1. Schedule(tm, c) = [tasks |-> more, highest |-> id]
  BY DEF Schedule
<1>2. id \in Nat /\ id \notin DOMAIN tm.tasks
  BY TasksFacts
<1>3. [conn |-> c, left |-> Timeout] \in Task
  BY TimeoutAssumption DEF Task
<1>4. more \in [DOMAIN tm.tasks \cup {id} -> Task]
  BY <1>3, TasksFacts
<1>5. more \in Tasks
  BY <1>2, <1>4, TasksFacts, TasksIntro
<1> QED
  BY <1>1, <1>2, <1>5 DEF TimerType

LEMMA ProcessTasksFacts ==
  ASSUME NEW tm \in TimerType
  PROVE  /\ ProcessTasks(tm) \in TimerType
         /\ DOMAIN ProcessTasks(tm).tasks = DOMAIN tm.tasks \ Expired(tm)
         /\ \A i \in DOMAIN ProcessTasks(tm).tasks :
              ProcessTasks(tm).tasks[i] = tm.tasks[i]
         /\ DOMAIN ProcessTasks(tm).tasks # {} =>
              ProcessTasks(tm).highest = tm.highest
<1> DEFINE rest == [i \in DOMAIN tm.tasks \ Expired(tm) |-> tm.tasks[i]]
<1>1. rest \in [DOMAIN tm.tasks \ Expired(tm) -> Task]
  BY TasksFacts
<1>2. rest \in Tasks
  BY <1>1, TasksFacts, TasksIntro
<1>3. ProcessTasks(tm) =
        [tasks |-> rest, highest |-> IF DOMAIN rest = {} THEN 0 ELSE tm.highest]
  BY DEF ProcessTasks, Drop, Restrict
<1> QED
  BY <1>2, <1>3, TasksFacts DEF TimerType

LEMMA AgeFacts ==
  ASSUME NEW tm \in TimerType
  PROVE  /\ Age(tm) \in TimerType
         /\ Age(tm).highest = tm.highest
         /\ DOMAIN Age(tm).tasks = DOMAIN tm.tasks
         /\ \A i \in DOMAIN tm.tasks : Age(tm).tasks[i].conn = tm.tasks[i].conn
<1> DEFINE older == [i \in DOMAIN tm.tasks |-> Older(tm.tasks[i])]
<1>1. Age(tm) = [tasks |-> older, highest |-> tm.highest]
  BY DEF Age, TimerType
<1>2. ASSUME NEW i \in DOMAIN tm.tasks
      PROVE  Older(tm.tasks[i]) \in Task /\ Older(tm.tasks[i]).conn = tm.tasks[i].conn
  <2>1. tm.tasks[i] \in Task
    BY TasksFacts
  <2> QED
    BY <2>1 DEF Task, Older
<1>3. older \in [DOMAIN tm.tasks -> Task]
  BY <1>2
<1>4. older \in Tasks
  BY <1>3, TasksFacts, TasksIntro
<1> QED
  BY <1>1, <1>2, <1>4 DEF TimerType

-----------------------------------------------------------------------------
(* Queues of events.                                                       *)

LEMMA TailFacts ==
  ASSUME NEW S, NEW s \in Seq(S), s # << >>
  PROVE  /\ 1 \in 1 .. Len(s) /\ Head(s) = s[1] /\ Head(s) \in S
         /\ Tail(s) \in Seq(S)
         /\ \A n \in 1 .. Len(Tail(s)) :
              n + 1 \in 1 .. Len(s) /\ Tail(s)[n] = s[n + 1]
OBVIOUS

LEMMA AppendFacts ==
  ASSUME NEW S, NEW s \in Seq(S), NEW e \in S
  PROVE  /\ Append(s, e) \in Seq(S)
         /\ Len(s) \in Nat /\ Len(Append(s, e)) = Len(s) + 1
         /\ Append(s, e)[Len(s) + 1] = e
         /\ \A n \in 1 .. Len(s) : Append(s, e)[n] = s[n]
OBVIOUS

LEMMA ConcatFacts ==
  ASSUME NEW S, NEW s \in Seq(S), NEW k \in Nat, NEW f \in [1 .. k -> S]
  PROVE  /\ s \o f \in Seq(S)
         /\ Len(s) \in Nat /\ Len(s \o f) = Len(s) + k
         /\ \A n \in 1 .. Len(s) : (s \o f)[n] = s[n]
         /\ \A n \in 1 .. k : (s \o f)[Len(s) + n] = f[n]
<1>1. f \in Seq(S) /\ Len(f) = k
  OBVIOUS
<1> QED
  BY <1>1

-----------------------------------------------------------------------------
(* The inductive invariant: OwnDeadline and QueueLengths, with what they   *)
(* rest on.                                                                *)

TypeInv ==
  /\ main \in {"starting", "accepting", "stopped", "returned"}
  /\ scan \in ScanRecord /\ holding \in Conn \cup {NoConn}
  /\ began \in [Worker -> Nat]
  /\ thread \in [Worker -> {"new", "running", "writing", "exited"}]
  /\ stopped \in SUBSET Worker
  /\ queueLength \in [Worker -> Nat]
  /\ timer \in [Worker -> TimerType]
  /\ runq \in [Worker -> Seq(Event)]
  /\ conn \in [Conn -> ConnState]
  /\ worker \in [Conn -> Worker]
  /\ taskId \in [Conn -> Nat]
  /\ reads \in Nat
  /\ robbed \subseteq Conn

\* Connections are constructed when every thread is ready, and two lengths are
\* compared only within the pool.
Order ==
  /\ main = "starting" => \A c \in Conn : conn[c] = "unused"
  /\ main # "starting" => \A w \in Worker : thread[w] # "new"
  /\ scan.pc # "none" => main = "accepting"
  /\ scan.pc \in {"load", "compare"} => scan.idx < NumWorkers

\* An event is for a connection of this worker, which has been handed over and
\* is in the state that the event speaks of.
EventOK(w, e) ==
  e.kind # "tick" =>
    /\ e.conn \in Conn
    /\ worker[e.conn] = w
    /\ conn[e.conn] \notin {"unused", "accepting"}
    /\ e.kind = "start" => conn[e.conn] = "posted"
    /\ e.kind = "aborted" => conn[e.conn] = "aborted"
    /\ e.kind = "read" => conn[e.conn] \in {"read", "closed"}

Events == \A w \in Worker : \A n \in 1 .. Len(runq[w]) : EventOK(w, runq[w][n])

\* A connection is started once, its read is aborted once, and it has one read
\* at a time.
Unique == {"start", "aborted", "read"}

Once ==
  \A w \in Worker : \A m, n \in 1 .. Len(runq[w]) :
    runq[w][m] = runq[w][n] /\ runq[w][m].kind \in Unique => m = n

\* A worker that waits for a client runs the read handler of its connection.
Writing ==
  \A w \in Worker : thread[w] = "writing" =>
    /\ runq[w] # << >>
    /\ \/ Head(runq[w]).kind = "io" /\ conn[Current(w)] = "ready"
       \/ Head(runq[w]).kind = "read" /\ conn[Current(w)] = "read"

IInv ==
  /\ TypeInv /\ OwnDeadline /\ QueueLengths
  /\ Order /\ Events /\ Once /\ Writing

LEMMA TypeInvImpliesTypeOK == TypeInv => TypeOK
BY TasksFacts DEF TypeInv, TypeOK

\* Two events of a kind for a connection are equal.
LEMMA SameEvent ==
  ASSUME NEW e \in Event, NEW f \in Event, e.kind = f.kind, e.conn = f.conn
  PROVE  e = f
BY DEF Event

-----------------------------------------------------------------------------
(* How the queue lengths change.                                           *)

LEMMA LiveFinite ==
  ASSUME NEW w \in Worker
  PROVE  IsFiniteSet(Live(w)) /\ Cardinality(Live(w)) \in Nat
<1>1. IsFiniteSet(Conn)
  BY FS_Interval, ServerAssumption DEF Conn
<1>2. Live(w) \in SUBSET Conn
  BY DEF Live
<1> QED
  BY <1>1, <1>2, FS_Subset, FS_CardinalityType

LEMMA SameLive ==
  ASSUME QueueLengths, UNCHANGED << worker, queueLength >>,
         \A d \in Conn : conn[d] \in {"unused", "gone"}
                           <=> conn'[d] \in {"unused", "gone"}
  PROVE  QueueLengths'
<1>1. ASSUME NEW w \in Worker
      PROVE  Live(w)' = Live(w)
  BY DEF Live
<1> QED
  BY <1>1 DEF QueueLengths

\* A connection goes, and its count with it.
LEMMA LessLive ==
  ASSUME QueueLengths, TypeInv, UNCHANGED worker,
         NEW w \in Worker, NEW c \in Conn,
         worker[c] = w, conn[c] \notin {"unused", "gone"},
         conn' = [conn EXCEPT ![c] = "gone"],
         queueLength' = [queueLength EXCEPT ![w] = @ - 1]
  PROVE  QueueLengths' /\ queueLength' \in [Worker -> Nat]
<1>1. queueLength \in [Worker -> Nat] /\ conn \in [Conn -> ConnState]
  BY DEF TypeInv
<1>2. ASSUME NEW v \in Worker, v # w
      PROVE  Live(v)' = Live(v)
  BY <1>1, <1>2 DEF Live
<1>3. Live(w)' = Live(w) \ {c} /\ c \in Live(w)
  BY <1>1 DEF Live
<1>4. Cardinality(Live(w) \ {c}) = Cardinality(Live(w)) - 1
  BY <1>3, LiveFinite, FS_RemoveElement
<1>5. Cardinality(Live(w) \ {c}) \in Nat
  BY <1>3, LiveFinite, FS_RemoveElement, FS_CardinalityType
<1>6. ASSUME NEW v \in Worker
      PROVE  /\ queueLength'[v] = Cardinality(Live(v)')
             /\ queueLength'[v] \in Nat
  <2>1. CASE v = w
    BY <2>1, <1>1, <1>3, <1>4, <1>5 DEF QueueLengths
  <2>2. CASE v # w
    BY <2>2, <1>1, <1>2 DEF QueueLengths
  <2> QED
    BY <2>1, <2>2
<1>7. queueLength' \in [Worker -> Nat]
  BY <1>1, <1>6
<1> QED
  BY <1>6, <1>7 DEF QueueLengths

\* A reference goes, and it may have been the last.
LEMMA ReleaseLive ==
  ASSUME QueueLengths, TypeInv, UNCHANGED worker,
         NEW w \in Worker, NEW c \in Conn,
         worker[c] = w, conn[c] \notin {"unused", "gone"}, Release(w, c)
  PROVE  /\ QueueLengths' /\ queueLength' \in [Worker -> Nat]
         /\ conn' \in [Conn -> ConnState]
         /\ conn'[c] \in {"held", "gone"}
         /\ \A d \in Conn \ {c} : conn'[d] = conn[d]
<1>1. conn \in [Conn -> ConnState] /\ queueLength \in [Worker -> Nat]
  BY DEF TypeInv
<1>2. CASE holding = c
  <2>1. conn' = [conn EXCEPT ![c] = "held"] /\ UNCHANGED queueLength
    BY <1>2 DEF Release
  <2>2. /\ conn' \in [Conn -> ConnState] /\ conn'[c] = "held"
        /\ \A d \in Conn \ {c} : conn'[d] = conn[d]
    BY <2>1, <1>1 DEF ConnState
  <2>3. QueueLengths'
    BY <2>1, <2>2, SameLive
  <2> QED
    BY <2>1, <2>2, <2>3, <1>1
<1>3. CASE holding # c
  <2>1. /\ conn' = [conn EXCEPT ![c] = "gone"]
        /\ queueLength' = [queueLength EXCEPT ![w] = @ - 1]
    BY <1>3 DEF Release
  <2>2. /\ conn' \in [Conn -> ConnState] /\ conn'[c] = "gone"
        /\ \A d \in Conn \ {c} : conn'[d] = conn[d]
    BY <2>1, <1>1 DEF ConnState
  <2> QED
    BY <2>1, <2>2, LessLive
<1> QED
  BY <1>2, <1>3

\* A connection is constructed, and counted.
LEMMA MoreLive ==
  ASSUME TypeInv, QueueLengths, NEW c \in Conn, NEW w \in Worker,
         conn[c] = "unused",
         conn' = [conn EXCEPT ![c] = "accepting"],
         worker' = [worker EXCEPT ![c] = w],
         queueLength' = [queueLength EXCEPT ![w] = @ + 1]
  PROVE  QueueLengths' /\ queueLength' \in [Worker -> Nat]
<1>1. /\ conn \in [Conn -> ConnState] /\ worker \in [Conn -> Worker]
      /\ queueLength \in [Worker -> Nat]
  BY DEF TypeInv
<1>2. ASSUME NEW v \in Worker
      PROVE  /\ queueLength'[v] = Cardinality(Live(v)')
             /\ queueLength'[v] \in Nat
  <2>1. Live(v)' = IF v = w THEN Live(v) \cup {c} ELSE Live(v)
    BY <1>1 DEF Live
  <2>2. c \notin Live(v)
    BY DEF Live
  <2>3. Cardinality(Live(v) \cup {c}) = Cardinality(Live(v)) + 1
    BY <2>2, LiveFinite, FS_AddElement
  <2>4. queueLength[v] = Cardinality(Live(v))
    BY DEF QueueLengths
  <2> QED
    BY <2>1, <2>3, <2>4, <1>1
<1>3. queueLength' \in [Worker -> Nat]
  BY <1>1, <1>2
<1> QED
  BY <1>2, <1>3 DEF QueueLengths

-----------------------------------------------------------------------------
(* How the deadlines change.                                               *)

\* Every task is one of before, and is not that of c.
Kept(c) ==
  \A v \in Worker : \A i \in DOMAIN timer'[v].tasks :
    /\ i \in DOMAIN timer[v].tasks
    /\ timer'[v].tasks[i].conn = timer[v].tasks[i].conn
    /\ timer'[v].highest = timer[v].highest
    /\ timer[v].tasks[i].conn # c

\* Every task is one of before, and not that of c, or is the new one of c.
KeptOrNew(w, c) ==
  \A v \in Worker : \A i \in DOMAIN timer'[v].tasks :
    \/ /\ i \in DOMAIN timer[v].tasks
       /\ timer'[v].tasks[i].conn = timer[v].tasks[i].conn
       /\ timer'[v].highest >= timer[v].highest
       /\ timer[v].tasks[i].conn # c
    \/ /\ v = w /\ i = timer'[w].highest /\ i = taskId'[c] /\ i > 0
       /\ timer'[w].tasks[i].conn = c

LEMMA OwnersFacts ==
  ASSUME TypeInv, NEW w \in Worker, NEW id
  PROVE  Owners(w, id) \subseteq Conn
<1>1. timer[w] \in TimerType
  BY DEF TypeInv
<1> QED
  BY <1>1, TasksFacts DEF Owners, Task

LEMMA OnlyItsOwn ==
  ASSUME TypeInv, OwnDeadline, NEW v \in Worker, NEW i \in DOMAIN timer[v].tasks
  PROVE  /\ i \in Nat /\ i <= timer[v].highest
         /\ timer[v].tasks[i].conn \in Conn
         /\ taskId[timer[v].tasks[i].conn] = i
         /\ worker[timer[v].tasks[i].conn] = v
         /\ conn[timer[v].tasks[i].conn] \in {"reading", "ready", "read"}
<1>1. timer[v] \in TimerType
  BY DEF TypeInv
<1>2. timer[v].highest \in Nat /\ timer[v].tasks[i] \in Task
  BY <1>1, TasksFacts
<1> QED
  BY <1>2 DEF OwnDeadline, Task

LEMMA CancelOwn ==
  ASSUME TypeInv, OwnDeadline, NEW w \in Worker, NEW c \in Conn,
         worker[c] = w, CancelDeadline(w, c)
  PROVE  /\ timer' \in [Worker -> TimerType] /\ robbed' \subseteq Conn
         /\ taskId' = taskId
         /\ Kept(c)
<1>1. /\ timer \in [Worker -> TimerType] /\ robbed \subseteq Conn
      /\ taskId \in [Conn -> Nat]
  BY DEF TypeInv
<1>2. /\ timer' = [timer EXCEPT ![w] = Cancel(timer[w], taskId[c])]
      /\ robbed' = robbed \cup (Owners(w, taskId[c]) \ {c})
      /\ taskId' = taskId
  BY <1>1 DEF CancelDeadline
<1>3. /\ Cancel(timer[w], taskId[c]) \in TimerType
      /\ Cancel(timer[w], taskId[c]).highest = timer[w].highest
      /\ DOMAIN Cancel(timer[w], taskId[c]).tasks
           = DOMAIN timer[w].tasks \ {taskId[c]}
      /\ \A i \in DOMAIN timer[w].tasks \ {taskId[c]} :
           Cancel(timer[w], taskId[c]).tasks[i] = timer[w].tasks[i]
  BY <1>1, CancelFacts
<1>4. ASSUME NEW v \in Worker, NEW i \in DOMAIN timer'[v].tasks
      PROVE  /\ i \in DOMAIN timer[v].tasks
             /\ timer'[v].tasks[i].conn = timer[v].tasks[i].conn
             /\ timer'[v].highest = timer[v].highest
             /\ timer[v].tasks[i].conn # c
  <2>1. CASE v = w
    <3>1. timer'[v] = Cancel(timer[w], taskId[c])
      BY <2>1, <1>1, <1>2
    <3>2. i \in DOMAIN timer[w].tasks \ {taskId[c]}
      BY <3>1, <1>3, <2>1
    <3>3. timer[w].tasks[i].conn # c
      BY <3>2, OnlyItsOwn
    <3> QED
      BY <2>1, <3>1, <3>2, <3>3, <1>3
  <2>2. CASE v # w
    <3>1. timer'[v] = timer[v]
      BY <2>2, <1>1, <1>2
    <3> QED
      BY <3>1, <2>2, OnlyItsOwn
  <2> QED
    BY <2>1, <2>2
<1>5. Kept(c)
  BY <1>4 DEF Kept
<1> QED
  BY <1>1, <1>2, <1>3, <1>5, OwnersFacts

LEMMA StartOwn ==
  ASSUME TypeInv, OwnDeadline, NEW w \in Worker, NEW c \in Conn,
         worker[c] = w, StartDeadline(w, c)
  PROVE  /\ timer' \in [Worker -> TimerType] /\ robbed' \subseteq Conn
         /\ taskId' \in [Conn -> Nat]
         /\ \A d \in Conn \ {c} : taskId'[d] = taskId[d]
         /\ KeptOrNew(w, c)
<1> DEFINE cancelled == Cancel(timer[w], taskId[c])
           scheduled == Schedule(cancelled, c)
<1>1. /\ timer \in [Worker -> TimerType] /\ robbed \subseteq Conn
      /\ taskId \in [Conn -> Nat]
  BY DEF TypeInv
<1>2. /\ timer' = [timer EXCEPT ![w] = scheduled]
      /\ taskId' = [taskId EXCEPT ![c] = scheduled.highest]
      /\ robbed' = robbed \cup (Owners(w, taskId[c]) \ {c})
  BY DEF StartDeadline
<1>3. /\ cancelled \in TimerType
      /\ cancelled.highest = timer[w].highest
      /\ DOMAIN cancelled.tasks = DOMAIN timer[w].tasks \ {taskId[c]}
      /\ \A i \in DOMAIN timer[w].tasks \ {taskId[c]} :
           cancelled.tasks[i] = timer[w].tasks[i]
  BY <1>1, CancelFacts
<1>4. \A i \in DOMAIN cancelled.tasks : i <= cancelled.highest
  BY <1>3, OnlyItsOwn
<1>5. cancelled.highest \in Nat
  BY <1>3, TasksFacts
<1> HIDE DEF cancelled
<1>6. /\ scheduled \in TimerType
      /\ scheduled.highest = cancelled.highest + 1
      /\ DOMAIN scheduled.tasks = DOMAIN cancelled.tasks \cup {scheduled.highest}
      /\ \A i \in DOMAIN cancelled.tasks : scheduled.tasks[i] = cancelled.tasks[i]
      /\ scheduled.tasks[scheduled.highest].conn = c
  BY <1>3, <1>4, ScheduleFacts
<1> HIDE DEF scheduled
<1>7. taskId' \in [Conn -> Nat] /\ taskId'[c] = scheduled.highest
      /\ \A d \in Conn \ {c} : taskId'[d] = taskId[d]
  BY <1>1, <1>2, <1>5, <1>6
<1>8. timer'[w] = scheduled
  BY <1>1, <1>2
<1>9. ASSUME NEW v \in Worker, NEW i \in DOMAIN timer'[v].tasks
      PROVE  \/ /\ i \in DOMAIN timer[v].tasks
                /\ timer'[v].tasks[i].conn = timer[v].tasks[i].conn
                /\ timer'[v].highest >= timer[v].highest
                /\ timer[v].tasks[i].conn # c
             \/ /\ v = w /\ i = timer'[w].highest /\ i = taskId'[c] /\ i > 0
                /\ timer'[w].tasks[i].conn = c
  <2>1. CASE v = w /\ i = scheduled.highest
    BY <2>1, <1>5, <1>6, <1>7, <1>8
  <2>2. CASE v = w /\ i # scheduled.highest
    <3>1. i \in DOMAIN timer[w].tasks \ {taskId[c]}
      BY <2>2, <1>3, <1>6, <1>8
    <3>2. timer[w].tasks[i].conn # c
      BY <3>1, OnlyItsOwn
    <3>3. timer'[v].tasks[i].conn = timer[v].tasks[i].conn
      BY <2>2, <3>1, <1>3, <1>6, <1>8
    <3> QED
      BY <2>2, <3>1, <3>2, <3>3, <1>3, <1>5, <1>6, <1>8
  <2>3. CASE v # w
    <3>1. timer'[v] = timer[v]
      BY <2>3, <1>1, <1>2
    <3>2. timer[v].highest \in Nat
      BY <1>1, TasksFacts
    <3> QED
      BY <3>1, <3>2, <2>3, OnlyItsOwn
  <2> QED
    BY <2>1, <2>2, <2>3
<1>10. KeptOrNew(w, c)
  BY <1>9 DEF KeptOrNew
<1> QED
  BY <1>1, <1>2, <1>6, <1>7, <1>10, OwnersFacts

LEMMA OwnAfterCancel ==
  ASSUME TypeInv, OwnDeadline, NEW c \in Conn, Kept(c),
         UNCHANGED << worker, taskId >>,
         \A d \in Conn \ {c} : conn'[d] = conn[d]
  PROVE  OwnDeadline'
<1> SUFFICES ASSUME NEW w \in Worker, NEW i \in DOMAIN timer'[w].tasks
             PROVE  LET d == timer'[w].tasks[i].conn
                    IN  /\ i \in 1 .. timer'[w].highest
                        /\ taskId'[d] = i /\ worker'[d] = w
                        /\ conn'[d] \in {"reading", "ready", "read"}
  BY DEF OwnDeadline
<1>1. /\ i \in DOMAIN timer[w].tasks
      /\ timer'[w].tasks[i].conn = timer[w].tasks[i].conn
      /\ timer'[w].highest = timer[w].highest
      /\ timer[w].tasks[i].conn # c
  BY DEF Kept
<1>2. i \in 1 .. timer[w].highest
  BY <1>1 DEF OwnDeadline
<1> QED
  BY <1>1, <1>2, OnlyItsOwn

LEMMA OwnAfterStart ==
  ASSUME TypeInv, OwnDeadline, NEW w \in Worker, NEW c \in Conn,
         KeptOrNew(w, c), worker[c] = w, UNCHANGED worker,
         timer' \in [Worker -> TimerType], taskId' \in [Conn -> Nat],
         \A d \in Conn \ {c} : conn'[d] = conn[d] /\ taskId'[d] = taskId[d],
         conn'[c] \in {"reading", "read"}
  PROVE  OwnDeadline'
<1> SUFFICES ASSUME NEW v \in Worker, NEW i \in DOMAIN timer'[v].tasks
             PROVE  LET d == timer'[v].tasks[i].conn
                    IN  /\ i \in 1 .. timer'[v].highest
                        /\ taskId'[d] = i /\ worker'[d] = v
                        /\ conn'[d] \in {"reading", "ready", "read"}
  BY DEF OwnDeadline
<1>1. timer'[v].highest \in Nat /\ timer[v].highest \in Nat
  BY TasksFacts DEF TypeInv
<1>2. CASE /\ i \in DOMAIN timer[v].tasks
           /\ timer'[v].tasks[i].conn = timer[v].tasks[i].conn
           /\ timer'[v].highest >= timer[v].highest
           /\ timer[v].tasks[i].conn # c
  <2>1. i \in 1 .. timer[v].highest
    BY <1>2 DEF OwnDeadline
  <2>2. i \in 1 .. timer'[v].highest
    BY <1>1, <1>2, <2>1
  <2> QED
    BY <1>2, <2>2, OnlyItsOwn
<1>3. CASE /\ v = w /\ i = timer'[w].highest /\ i = taskId'[c] /\ i > 0
           /\ timer'[w].tasks[i].conn = c
  BY <1>1, <1>3
<1> QED
  BY <1>2, <1>3 DEF KeptOrNew

-----------------------------------------------------------------------------
(* What a handler that runs to its end leaves behind.                      *)

\* The event at the head of w is gone; the others may be followed by e.
Shifted(w, e) ==
  \A v \in Worker : \A n \in 1 .. Len(runq'[v]) :
    \/ \E m \in 1 .. Len(runq[v]) :
         runq'[v][n] = runq[v][m] /\ (v = w => m # 1)
    \/ v = w /\ runq'[v][n] = e

LEMMA PopFacts ==
  ASSUME TypeInv, Once, NEW w \in Worker, runq[w] # << >>, Popped(w)
  PROVE  /\ runq' \in [Worker -> Seq(Event)]
         /\ \A v \in Worker \ {w} : runq'[v] = runq[v]
         /\ Shifted(w, Tick)
         /\ Once'
<1>1. runq \in [Worker -> Seq(Event)] /\ runq[w] \in Seq(Event)
  BY DEF TypeInv
<1>2. /\ Tail(runq[w]) \in Seq(Event)
      /\ \A n \in 1 .. Len(Tail(runq[w])) :
           n + 1 \in 1 .. Len(runq[w]) /\ Tail(runq[w])[n] = runq[w][n + 1]
  BY <1>1, TailFacts
<1>3. /\ runq'[w] = Tail(runq[w])
      /\ \A v \in Worker \ {w} : runq'[v] = runq[v]
      /\ runq' \in [Worker -> Seq(Event)]
  BY <1>1, <1>2 DEF Popped
<1>4. ASSUME NEW v \in Worker, NEW n \in 1 .. Len(runq'[v])
      PROVE  \E m \in 1 .. Len(runq[v]) :
               runq'[v][n] = runq[v][m] /\ (v = w => m # 1)
  <2>1. CASE v = w
    <3>1. /\ n + 1 \in 1 .. Len(runq[v]) /\ n + 1 # 1
          /\ runq'[v][n] = runq[v][n + 1]
      BY <2>1, <1>2, <1>3
    <3> QED
      BY <3>1
  <2>2. CASE v # w
    BY <2>2, <1>3
  <2> QED
    BY <2>1, <2>2
<1>5. ASSUME NEW v \in Worker, NEW m \in 1 .. Len(runq'[v]),
             NEW n \in 1 .. Len(runq'[v]), runq'[v][m] = runq'[v][n],
             runq'[v][m].kind \in Unique
      PROVE  m = n
  <2>1. CASE v = w
    <3>1. /\ m + 1 \in 1 .. Len(runq[w]) /\ n + 1 \in 1 .. Len(runq[w])
          /\ runq[w][m + 1] = runq[w][n + 1]
          /\ runq[w][m + 1].kind \in Unique
      BY <2>1, <1>2, <1>3, <1>5
    <3>2. m + 1 = n + 1
      BY <3>1 DEF Once
    <3> QED
      BY <3>2
  <2>2. CASE v # w
    BY <2>2, <1>3, <1>5 DEF Once
  <2> QED
    BY <2>1, <2>2
<1>6. Once'
  BY <1>5 DEF Once
<1>7. Shifted(w, Tick)
  BY <1>4 DEF Shifted
<1> QED
  BY <1>3, <1>6, <1>7

\* The same, with a new event at the end.
LEMMA PopAppendFacts ==
  ASSUME TypeInv, Once, NEW w \in Worker, runq[w] # << >>, NEW e \in Event,
         runq' = [runq EXCEPT ![w] = Append(Tail(@), e)],
         \A m \in 1 .. Len(runq[w]) : m # 1 => runq[w][m] # e
  PROVE  /\ runq' \in [Worker -> Seq(Event)]
         /\ \A v \in Worker \ {w} : runq'[v] = runq[v]
         /\ Shifted(w, e)
         /\ Once'
<1> DEFINE q == Tail(runq[w])
<1>1. runq \in [Worker -> Seq(Event)] /\ runq[w] \in Seq(Event)
  BY DEF TypeInv
<1>2. /\ q \in Seq(Event)
      /\ \A n \in 1 .. Len(q) :
           n + 1 \in 1 .. Len(runq[w]) /\ q[n] = runq[w][n + 1]
  BY <1>1, TailFacts
<1> HIDE DEF q
<1>3. /\ Append(q, e) \in Seq(Event)
      /\ Len(q) \in Nat /\ Len(Append(q, e)) = Len(q) + 1
      /\ Append(q, e)[Len(q) + 1] = e
      /\ \A n \in 1 .. Len(q) : Append(q, e)[n] = q[n]
  BY <1>2, AppendFacts
<1>4. /\ runq'[w] = Append(q, e)
      /\ \A v \in Worker \ {w} : runq'[v] = runq[v]
      /\ runq' \in [Worker -> Seq(Event)]
  BY <1>1, <1>3 DEF q
<1>5. ASSUME NEW n \in 1 .. Len(runq'[w])
      PROVE  \/ /\ n + 1 \in 1 .. Len(runq[w]) /\ n + 1 # 1
                /\ runq'[w][n] = runq[w][n + 1]
             \/ n = Len(q) + 1 /\ runq'[w][n] = e
  <2>1. n \in 1 .. Len(q) \/ n = Len(q) + 1
    BY <1>3, <1>4
  <2>2. CASE n \in 1 .. Len(q)
    BY <2>2, <1>2, <1>3, <1>4
  <2> QED
    BY <2>1, <2>2, <1>3, <1>4
<1>6. Shifted(w, e)
  <2> SUFFICES ASSUME NEW v \in Worker, NEW n \in 1 .. Len(runq'[v])
               PROVE  \/ \E m \in 1 .. Len(runq[v]) :
                           runq'[v][n] = runq[v][m] /\ (v = w => m # 1)
                      \/ v = w /\ runq'[v][n] = e
    BY DEF Shifted
  <2>1. CASE v = w
    BY <2>1, <1>5
  <2>2. CASE v # w
    BY <2>2, <1>4
  <2> QED
    BY <2>1, <2>2
<1>7. ASSUME NEW v \in Worker, NEW m \in 1 .. Len(runq'[v]),
             NEW n \in 1 .. Len(runq'[v]), runq'[v][m] = runq'[v][n],
             runq'[v][m].kind \in Unique
      PROVE  m = n
  <2>1. CASE v = w
    <3>1. CASE /\ m + 1 \in 1 .. Len(runq[w]) /\ runq'[w][m] = runq[w][m + 1]
               /\ n + 1 \in 1 .. Len(runq[w]) /\ runq'[w][n] = runq[w][n + 1]
      <4>1. m + 1 = n + 1
        BY <2>1, <3>1, <1>7 DEF Once
      <4> QED
        BY <4>1
    <3>2. CASE m = Len(q) + 1 /\ n = Len(q) + 1
      BY <3>2
    <3>3. m \in Nat /\ n \in Nat
      OBVIOUS
    <3>4. \A i \in 1 .. Len(runq[w]) : i # 1 => runq[w][i] # e
      OBVIOUS
    <3> QED
      BY <2>1, <3>1, <3>2, <3>3, <3>4, <1>5, <1>7
  <2>2. CASE v # w
    BY <2>2, <1>4, <1>7 DEF Once
  <2> QED
    BY <2>1, <2>2
<1>8. Once'
  BY <1>7 DEF Once
<1> QED
  BY <1>4, <1>6, <1>8

\* The connection of an event at the head, and what is known of it.
LEMMA HeadFacts ==
  ASSUME TypeInv, Events, NEW w \in Worker, runq[w] # << >>
  PROVE  /\ 1 \in 1 .. Len(runq[w]) /\ Head(runq[w]) = runq[w][1]
         /\ Head(runq[w]) \in Event
         /\ EventOK(w, Head(runq[w]))
<1>1. runq[w] \in Seq(Event)
  BY DEF TypeInv
<1>2. /\ Head(runq[w]) = runq[w][1] /\ 1 \in 1 .. Len(runq[w])
      /\ Head(runq[w]) \in Event
  BY <1>1, TailFacts
<1> QED
  BY <1>2 DEF Events

\* No event but the one at the head is one of a kind for its connection.
LEMMA OnlyTheHead ==
  ASSUME TypeInv, Events, Once, NEW w \in Worker, runq[w] # << >>,
         NEW c \in Conn, c = Head(runq[w]).conn, Head(runq[w]).kind # "tick",
         \/ Head(runq[w]).kind \in Unique
         \/ conn[c] \notin {"posted", "aborted", "read", "closed"},
         NEW v \in Worker, NEW m \in 1 .. Len(runq[v]), v = w => m # 1,
         runq[v][m].kind \in Unique
  PROVE  runq[v][m].conn # c
<1> SUFFICES ASSUME runq[v][m].conn = c
             PROVE  FALSE
  OBVIOUS
<1> DEFINE e == runq[v][m]
           head == Head(runq[w])
<1>1. EventOK(v, e) /\ e \in Event
  BY DEF Events, TypeInv
<1>2. head = runq[w][1] /\ 1 \in 1 .. Len(runq[w]) /\ head \in Event
      /\ EventOK(w, head)
  BY HeadFacts
<1> HIDE DEF e, head
<1>3. /\ e.kind \in Unique /\ e.conn = c /\ head.conn = c /\ head.kind # "tick"
      /\ head.kind \in Unique \/ conn[c] \notin {"posted", "aborted", "read", "closed"}
  BY DEF e, head
<1>4. /\ e.kind = "start" => conn[c] = "posted"
      /\ e.kind = "aborted" => conn[c] = "aborted"
      /\ e.kind = "read" => conn[c] \in {"read", "closed"}
      /\ worker[c] = v
  BY <1>1, <1>3 DEF EventOK, Unique
<1>5. head.kind \in Unique
  BY <1>3, <1>4 DEF Unique
<1>6. /\ head.kind = "start" => conn[c] = "posted"
      /\ head.kind = "aborted" => conn[c] = "aborted"
      /\ head.kind = "read" => conn[c] \in {"read", "closed"}
      /\ worker[c] = w
  BY <1>2, <1>3 DEF EventOK
<1>7. e.kind = head.kind
  BY <1>3, <1>4, <1>5, <1>6 DEF Unique
<1>8. e = head
  BY <1>1, <1>2, <1>3, <1>7, SameEvent
<1>9. v = w
  BY <1>4, <1>6
<1>10. m = 1
  BY <1>2, <1>3, <1>8, <1>9, ZenonT(40) DEF Once, e
<1> QED
  BY <1>9, <1>10

\* The events stay right when the head is gone and only its connection changes.
LEMMA ShiftedEvents ==
  ASSUME TypeInv, Events, Once, NEW w \in Worker, runq[w] # << >>,
         NEW e, Shifted(w, e), EventOK(w, e)',
         NEW c \in Conn, c = Head(runq[w]).conn, Head(runq[w]).kind # "tick",
         UNCHANGED worker,
         \A d \in Conn \ {c} : conn'[d] = conn[d],
         conn'[c] \notin {"unused", "accepting"},
         \/ Head(runq[w]).kind \in Unique
         \/ conn[c] \notin {"posted", "aborted", "read", "closed"}
  PROVE  Events'
<1> SUFFICES ASSUME NEW v \in Worker, NEW n \in 1 .. Len(runq'[v])
             PROVE  EventOK(v, runq[v][n])'
  BY DEF Events
<1>1. CASE v = w /\ runq'[v][n] = e
  BY <1>1 DEF EventOK
<1>2. ASSUME NEW m \in 1 .. Len(runq[v]),
             runq'[v][n] = runq[v][m], v = w => m # 1
      PROVE  EventOK(v, runq[v][n])'
  <2> DEFINE f == runq[v][m]
  <2>1. EventOK(v, f)
    BY DEF Events
  <2>2. f.kind \in Unique => f.conn # c
    BY <1>2, OnlyTheHead
  <2> HIDE DEF f
  <2>3. f.kind # "tick" =>
          /\ f.conn \in Conn
          /\ worker'[f.conn] = v
          /\ conn'[f.conn] \notin {"unused", "accepting"}
          /\ f.kind = "start" => conn'[f.conn] = "posted"
          /\ f.kind = "aborted" => conn'[f.conn] = "aborted"
          /\ f.kind = "read" => conn'[f.conn] \in {"read", "closed"}
    BY <2>1, <2>2 DEF EventOK, Unique
  <2>4. runq'[v][n] = f
    BY <1>2 DEF f
  <2> QED
    BY <2>3, <2>4 DEF EventOK
<1> QED
  BY <1>1, <1>2 DEF Shifted

LEMMA PoppedEvents ==
  ASSUME TypeInv, Events, Once, NEW w \in Worker, runq[w] # << >>, Popped(w),
         NEW c \in Conn, c = Head(runq[w]).conn, Head(runq[w]).kind # "tick",
         UNCHANGED worker,
         \A d \in Conn \ {c} : conn'[d] = conn[d],
         conn'[c] \notin {"unused", "accepting"},
         \/ Head(runq[w]).kind \in Unique
         \/ conn[c] \notin {"posted", "aborted", "read", "closed"}
  PROVE  Events'
<1>1. Shifted(w, Tick)
  BY PopFacts
<1>2. EventOK(w, Tick)'
  BY DEF EventOK, Tick
<1> QED
  BY <1>1, <1>2, ShiftedEvents

\* do_read: the connection of the head goes on reading.
LEMMA DoReadFacts ==
  ASSUME TypeInv, Events, Once, NEW w \in Worker, runq[w] # << >>,
         NEW c \in Conn, c = Head(runq[w]).conn, worker[c] = w,
         Head(runq[w]).kind # "tick",
         conn[c] \notin {"unused", "accepting"},
         UNCHANGED worker, DoRead(w, c),
         \/ Head(runq[w]).kind \in Unique
         \/ conn[c] \notin {"posted", "aborted", "read", "closed"}
  PROVE  /\ conn' \in [Conn -> ConnState]
         /\ conn'[c] \in {"reading", "read"}
         /\ \A d \in Conn \ {c} : conn'[d] = conn[d]
         /\ runq' \in [Worker -> Seq(Event)]
         /\ \A v \in Worker \ {w} : runq'[v] = runq[v]
         /\ Events' /\ Once'
<1>1. conn \in [Conn -> ConnState]
  BY DEF TypeInv
<1>2. CASE conn' = [conn EXCEPT ![c] = "reading"] /\ Popped(w)
  <2>1. /\ conn' \in [Conn -> ConnState] /\ conn'[c] = "reading"
        /\ \A d \in Conn \ {c} : conn'[d] = conn[d]
    BY <1>1, <1>2 DEF ConnState
  <2>2. /\ runq' \in [Worker -> Seq(Event)] /\ Once'
        /\ \A v \in Worker \ {w} : runq'[v] = runq[v]
    BY <1>2, PopFacts
  <2>3. Events'
    BY <1>2, <2>1, PoppedEvents
  <2> QED
    BY <2>1, <2>2, <2>3
<1>3. CASE /\ conn' = [conn EXCEPT ![c] = "read"]
           /\ runq' = [runq EXCEPT ![w] = Append(Tail(@), Ev("read", c))]
  <2> DEFINE e == Ev("read", c)
  <2>1. /\ conn' \in [Conn -> ConnState] /\ conn'[c] = "read"
        /\ \A d \in Conn \ {c} : conn'[d] = conn[d]
    BY <1>1, <1>3 DEF ConnState
  <2>2. e \in Event /\ e.kind = "read" /\ e.conn = c
    BY DEF Event, Ev
  <2>3. runq' = [runq EXCEPT ![w] = Append(Tail(@), e)]
    BY <1>3
  <2> HIDE DEF e
  <2>4. ASSUME NEW m \in 1 .. Len(runq[w]), m # 1
        PROVE  runq[w][m] # e
    <3> SUFFICES ASSUME runq[w][m] = e
                 PROVE  FALSE
      OBVIOUS
    <3>1. runq[w][m].kind \in Unique /\ runq[w][m].conn = c
      BY <2>2 DEF Unique
    <3>2. runq[w][m].conn # c
      BY <2>4, <3>1, OnlyTheHead
    <3> QED
      BY <3>1, <3>2
  <2>5. /\ runq' \in [Worker -> Seq(Event)] /\ Once' /\ Shifted(w, e)
        /\ \A v \in Worker \ {w} : runq'[v] = runq[v]
    BY <2>2, <2>3, <2>4, PopAppendFacts
  <2>6. EventOK(w, e)'
    BY <2>1, <2>2 DEF EventOK
  <2>7. Events'
    BY <2>1, <2>5, <2>6, ShiftedEvents
  <2> QED
    BY <2>1, <2>5, <2>7
<1> QED
  BY <1>2, <1>3 DEF DoRead

LEMMA HandlerOrder ==
  ASSUME Order, UNCHANGED << main, scan >>,
         \A v \in Worker : thread[v] # "new" => thread'[v] # "new",
         \A d \in Conn : conn'[d] # conn[d] =>
           conn[d] # "unused" /\ conn'[d] # "accepting"
  PROVE  Order'
BY DEF Order

\* A handler of w leaves the other workers in theirs.
LEMMA HandlerWriting ==
  ASSUME TypeInv, Events, Writing, NEW w \in Worker,
         thread'[w] # "writing",
         \A v \in Worker \ {w} : thread'[v] = thread[v] /\ runq'[v] = runq[v],
         \A d \in Conn : worker[d] # w => conn'[d] = conn[d]
  PROVE  Writing'
<1> SUFFICES ASSUME NEW v \in Worker, thread'[v] = "writing"
             PROVE  /\ runq'[v] # << >>
                    /\ \/ /\ Head(runq'[v]).kind = "io"
                          /\ conn'[Head(runq'[v]).conn] = "ready"
                       \/ /\ Head(runq'[v]).kind = "read"
                          /\ conn'[Head(runq'[v]).conn] = "read"
  BY DEF Writing, Current
<1>1. v # w /\ thread[v] = "writing" /\ runq'[v] = runq[v]
  OBVIOUS
<1>2. /\ runq[v] # << >>
      /\ \/ Head(runq[v]).kind = "io" /\ conn[Head(runq[v]).conn] = "ready"
         \/ Head(runq[v]).kind = "read" /\ conn[Head(runq[v]).conn] = "read"
  BY <1>1 DEF Writing, Current
<1>3. EventOK(v, Head(runq[v]))
  BY <1>2, HeadFacts
<1>4. Head(runq[v]).conn \in Conn /\ worker[Head(runq[v]).conn] = v
  BY <1>2, <1>3 DEF EventOK
<1>5. conn'[Head(runq[v]).conn] = conn[Head(runq[v]).conn]
  BY <1>1, <1>4
<1> QED
  BY <1>1, <1>2, <1>5

-----------------------------------------------------------------------------
(* One lemma per action: it keeps the invariant.                           *)

LEMMA StartStep ==
  ASSUME IInv, NEW w \in Worker, Start(w)
  PROVE  IInv'
<1> DEFINE c == Head(runq[w]).conn
<1> USE DEF IInv
<1>1. /\ Runs(w, "start") /\ StartDeadline(w, c) /\ DoRead(w, c)
      /\ UNCHANGED << main, scan, holding, began, thread, stopped, queueLength,
                      worker, reads >>
  BY DEF Start, serverVars, acceptVars, Current
<1>2. /\ runq[w] # << >> /\ Head(runq[w]).kind = "start"
      /\ c \in Conn /\ worker[c] = w /\ conn[c] = "posted"
      /\ thread[w] = "running"
  BY <1>1, HeadFacts DEF Runs, EventOK
<1> HIDE DEF c
<1>3. /\ conn' \in [Conn -> ConnState] /\ conn'[c] \in {"reading", "read"}
      /\ \A d \in Conn \ {c} : conn'[d] = conn[d]
      /\ runq' \in [Worker -> Seq(Event)]
      /\ \A v \in Worker \ {w} : runq'[v] = runq[v]
      /\ Events' /\ Once'
  BY <1>1, <1>2, DoReadFacts DEF c, Unique
<1>4. /\ timer' \in [Worker -> TimerType] /\ robbed' \subseteq Conn
      /\ taskId' \in [Conn -> Nat]
      /\ \A d \in Conn \ {c} : taskId'[d] = taskId[d]
      /\ KeptOrNew(w, c)
  BY <1>1, <1>2, StartOwn
<1>5. TypeInv'
  BY <1>1, <1>3, <1>4 DEF TypeInv
<1>6. OwnDeadline'
  BY <1>1, <1>2, <1>3, <1>4, OwnAfterStart
<1>7. QueueLengths'
  BY <1>1, <1>2, <1>3, SameLive
<1>8. Order'
  BY <1>1, <1>2, <1>3, HandlerOrder
<1>9. Writing'
  BY <1>1, <1>2, <1>3, HandlerWriting
<1> QED
  BY <1>3, <1>5, <1>6, <1>7, <1>8, <1>9

\* What is known when the read handler of w ends, whether it has waited for its
\* client or not.
LEMMA ReadEndsFacts ==
  ASSUME IInv, NEW w \in Worker, NEW c, c = Current(w), ReadEnds(w)
  PROVE  /\ runq[w] # << >> /\ c = Head(runq[w]).conn
         /\ c \in Conn /\ worker[c] = w
         /\ \/ Head(runq[w]).kind = "io" /\ conn[c] = "ready"
            \/ Head(runq[w]).kind = "read" /\ conn[c] = "read"
         /\ thread' \in [Worker -> {"new", "running", "writing", "exited"}]
         /\ thread'[w] = "running" /\ thread[w] # "new"
         /\ \A v \in Worker \ {w} : thread'[v] = thread[v]
<1>1. /\ runq[w] # << >> /\ thread[w] \in {"running", "writing"}
      /\ \/ Head(runq[w]).kind = "io" /\ conn[c] = "ready"
         \/ Head(runq[w]).kind = "read" /\ conn[c] = "read"
  BY DEF ReadEnds, HasRead, Runs, IInv, Writing
<1>2. c = Head(runq[w]).conn
  BY DEF Current
<1>3. EventOK(w, Head(runq[w]))
  BY <1>1, HeadFacts DEF IInv
<1>4. c \in Conn /\ worker[c] = w
  BY <1>1, <1>2, <1>3 DEF EventOK
<1>5. /\ thread \in [Worker -> {"new", "running", "writing", "exited"}]
      /\ thread' = [thread EXCEPT ![w] = "running"]
  BY DEF ReadEnds, IInv, TypeInv
<1> QED
  BY <1>1, <1>2, <1>4, <1>5

LEMMA ReadMoreStep ==
  ASSUME IInv, NEW w \in Worker, ReadMore(w)
  PROVE  IInv'
<1> DEFINE c == Current(w)
<1> USE DEF IInv
<1>1. /\ ReadEnds(w) /\ StartDeadline(w, c) /\ DoRead(w, c)
      /\ reads' = reads + 1
      /\ UNCHANGED << main, scan, holding, began, stopped, queueLength, worker >>
  BY DEF ReadMore, acceptVars
<1> HIDE DEF c
<1>2. /\ runq[w] # << >> /\ c = Head(runq[w]).conn
      /\ c \in Conn /\ worker[c] = w
      /\ \/ Head(runq[w]).kind = "io" /\ conn[c] = "ready"
         \/ Head(runq[w]).kind = "read" /\ conn[c] = "read"
      /\ thread' \in [Worker -> {"new", "running", "writing", "exited"}]
      /\ thread'[w] = "running" /\ thread[w] # "new"
      /\ \A v \in Worker \ {w} : thread'[v] = thread[v]
  BY <1>1, ReadEndsFacts DEF c
<1>3. /\ conn' \in [Conn -> ConnState] /\ conn'[c] \in {"reading", "read"}
      /\ \A d \in Conn \ {c} : conn'[d] = conn[d]
      /\ runq' \in [Worker -> Seq(Event)]
      /\ \A v \in Worker \ {w} : runq'[v] = runq[v]
      /\ Events' /\ Once'
  BY <1>1, <1>2, DoReadFacts DEF Unique
<1>4. /\ timer' \in [Worker -> TimerType] /\ robbed' \subseteq Conn
      /\ taskId' \in [Conn -> Nat]
      /\ \A d \in Conn \ {c} : taskId'[d] = taskId[d]
      /\ KeptOrNew(w, c)
  BY <1>1, <1>2, StartOwn
<1>5. TypeInv'
  <2>1. reads' \in Nat
    BY <1>1 DEF TypeInv
  <2> QED
    BY <2>1, <1>1, <1>2, <1>3, <1>4 DEF TypeInv
<1>6. OwnDeadline'
  BY <1>1, <1>2, <1>3, <1>4, <1>5, OwnAfterStart
<1>7. QueueLengths'
  <2>1. \A d \in Conn : conn[d] \in {"unused", "gone"}
                          <=> conn'[d] \in {"unused", "gone"}
    BY <1>2, <1>3
  <2> QED
    BY <2>1, <1>1, SameLive
<1>8. Order'
  BY <1>1, <1>2, <1>3, HandlerOrder
<1>9. Writing'
  BY <1>1, <1>2, <1>3, HandlerWriting
<1> QED
  BY <1>3, <1>5, <1>6, <1>7, <1>8, <1>9

\* The read handler waits for its client: the deadline is cancelled.
LEMMA AnswerStep ==
  ASSUME IInv, NEW w \in Worker, Answer(w)
  PROVE  IInv'
<1> DEFINE c == Current(w)
<1> USE DEF IInv
<1>1. /\ HasRead(w) /\ CancelDeadline(w, c)
      /\ thread' = [thread EXCEPT ![w] = "writing"]
      /\ UNCHANGED << main, scan, holding, began, stopped, queueLength, runq,
                      conn, worker, reads >>
  BY DEF Answer, acceptVars
<1> HIDE DEF c
<1>2. /\ runq[w] # << >> /\ c = Head(runq[w]).conn /\ thread[w] = "running"
      /\ \/ Head(runq[w]).kind = "io" /\ conn[c] = "ready"
         \/ Head(runq[w]).kind = "read" /\ conn[c] = "read"
  BY <1>1 DEF HasRead, Runs, Current, c
<1>3. EventOK(w, Head(runq[w]))
  BY <1>2, HeadFacts
<1>4. c \in Conn /\ worker[c] = w
  BY <1>2, <1>3 DEF EventOK
<1>5. /\ timer' \in [Worker -> TimerType] /\ robbed' \subseteq Conn
      /\ taskId' = taskId /\ Kept(c)
  BY <1>1, <1>4, CancelOwn
<1>6. /\ thread' \in [Worker -> {"new", "running", "writing", "exited"}]
      /\ thread'[w] = "writing"
      /\ \A v \in Worker \ {w} : thread'[v] = thread[v]
  BY <1>1 DEF TypeInv
<1>7. TypeInv'
  BY <1>1, <1>5, <1>6 DEF TypeInv
<1>8. OwnDeadline'
  BY <1>1, <1>4, <1>5, OwnAfterCancel
<1>9. QueueLengths'
  BY <1>1, SameLive
<1>10. Order'
  BY <1>1, <1>6, HandlerOrder
<1>11. Events' /\ Once'
  BY <1>1 DEF Events, EventOK, Once
<1>12. Writing'
  BY <1>1, <1>2, <1>6 DEF Writing, Current
<1> QED
  BY <1>7, <1>8, <1>9, <1>10, <1>11, <1>12

\* A handler is done with its connection: ReadLast, Aborted.
LEMMA ReleaseStep ==
  ASSUME IInv, NEW w \in Worker, NEW c \in Conn, c = Head(runq[w]).conn,
         runq[w] # << >>, worker[c] = w, Head(runq[w]).kind # "tick",
         conn[c] \notin {"unused", "accepting", "gone"},
         \/ Head(runq[w]).kind \in Unique
         \/ conn[c] \notin {"posted", "aborted", "read", "closed"},
         thread' \in [Worker -> {"new", "running", "writing", "exited"}],
         thread'[w] = "running", thread[w] # "new",
         \A v \in Worker \ {w} : thread'[v] = thread[v],
         CancelDeadline(w, c), Release(w, c), Popped(w),
         UNCHANGED << main, scan, holding, began, stopped, worker, reads >>
  PROVE  IInv'
<1> USE DEF IInv
<1>1. /\ QueueLengths' /\ queueLength' \in [Worker -> Nat]
      /\ conn' \in [Conn -> ConnState]
      /\ conn'[c] \in {"held", "gone"}
      /\ \A d \in Conn \ {c} : conn'[d] = conn[d]
  BY ReleaseLive
<1>2. /\ timer' \in [Worker -> TimerType] /\ robbed' \subseteq Conn
      /\ taskId' = taskId /\ Kept(c)
  BY CancelOwn
<1>3. /\ runq' \in [Worker -> Seq(Event)] /\ Once'
      /\ \A v \in Worker \ {w} : runq'[v] = runq[v]
  BY PopFacts
<1>4. TypeInv'
  BY <1>1, <1>2, <1>3 DEF TypeInv
<1>5. OwnDeadline'
  BY <1>1, <1>2, OwnAfterCancel
<1>6. Order'
  BY <1>1, HandlerOrder
<1>7. Events'
  BY <1>1, PoppedEvents
<1>8. Writing'
  BY <1>1, <1>3, HandlerWriting
<1> QED
  BY <1>1, <1>3, <1>4, <1>5, <1>6, <1>7, <1>8

LEMMA ReadLastStep ==
  ASSUME IInv, NEW w \in Worker, ReadLast(w)
  PROVE  IInv'
<1> DEFINE c == Current(w)
<1>1. /\ ReadEnds(w) /\ CancelDeadline(w, c) /\ Release(w, c) /\ Popped(w)
      /\ UNCHANGED << main, scan, holding, began, stopped, worker, reads >>
  BY DEF ReadLast, acceptVars
<1> HIDE DEF c
<1>2. /\ runq[w] # << >> /\ c = Head(runq[w]).conn
      /\ c \in Conn /\ worker[c] = w
      /\ \/ Head(runq[w]).kind = "io" /\ conn[c] = "ready"
         \/ Head(runq[w]).kind = "read" /\ conn[c] = "read"
      /\ thread' \in [Worker -> {"new", "running", "writing", "exited"}]
      /\ thread'[w] = "running" /\ thread[w] # "new"
      /\ \A v \in Worker \ {w} : thread'[v] = thread[v]
  BY <1>1, ReadEndsFacts DEF c
<1> QED
  BY <1>1, <1>2, ReleaseStep DEF Unique

LEMMA AbortedStep ==
  ASSUME IInv, NEW w \in Worker, Aborted(w)
  PROVE  IInv'
<1> DEFINE c == Current(w)
<1>1. /\ \/ Runs(w, "aborted")
         \/ Runs(w, "read") /\ conn[c] = "closed"
      /\ Popped(w) /\ CancelDeadline(w, c) /\ Release(w, c)
      /\ UNCHANGED << main, scan, holding, began, thread, stopped, worker, reads >>
  BY DEF Aborted, acceptVars
<1>2. c = Head(runq[w]).conn
  BY DEF Current
<1> HIDE DEF c
<1>3. /\ runq[w] # << >> /\ thread[w] = "running"
      /\ \/ Head(runq[w]).kind = "aborted"
         \/ Head(runq[w]).kind = "read" /\ conn[c] = "closed"
  BY <1>1 DEF Runs
<1>4. EventOK(w, Head(runq[w]))
  BY <1>3, HeadFacts DEF IInv
<1>5. /\ c \in Conn /\ worker[c] = w
      /\ conn[c] \in {"aborted", "closed"}
  BY <1>2, <1>3, <1>4 DEF EventOK
<1>6. thread \in [Worker -> {"new", "running", "writing", "exited"}]
  BY DEF IInv, TypeInv
<1> QED
  BY <1>1, <1>2, <1>3, <1>5, <1>6, ReleaseStep DEF Unique

LEMMA ReadStaleStep ==
  ASSUME IInv, NEW w \in Worker, ReadStale(w)
  PROVE  IInv'
<1> USE DEF IInv
<1>1. /\ runq[w] # << >> /\ Popped(w) /\ thread[w] = "running"
      /\ UNCHANGED << main, scan, holding, began, thread, stopped, queueLength,
                      timer, conn, worker, taskId, reads, robbed >>
  BY DEF ReadStale, Runs, serverVars, acceptVars, connVars
<1>2. /\ runq' \in [Worker -> Seq(Event)] /\ Once' /\ Shifted(w, Tick)
      /\ \A v \in Worker \ {w} : runq'[v] = runq[v]
  BY <1>1, PopFacts
<1>3. TypeInv'
  BY <1>1, <1>2 DEF TypeInv
<1>4. OwnDeadline' /\ Order'
  BY <1>1 DEF OwnDeadline, Order
<1>5. QueueLengths'
  BY <1>1, SameLive
<1>6. Events'
  <2> SUFFICES ASSUME NEW v \in Worker, NEW n \in 1 .. Len(runq'[v])
               PROVE  EventOK(v, runq[v][n])'
    BY DEF Events
  <2>1. CASE runq'[v][n] = Tick
    BY <2>1 DEF EventOK, Tick
  <2>2. ASSUME NEW m \in 1 .. Len(runq[v]), runq'[v][n] = runq[v][m]
        PROVE  EventOK(v, runq[v][n])'
    <3>1. EventOK(v, runq[v][m])
      BY DEF Events
    <3> QED
      BY <1>1, <2>2, <3>1 DEF EventOK
  <2> QED
    BY <1>2, <2>1, <2>2 DEF Shifted
<1>7. Writing'
  BY <1>1, <1>2, HandlerWriting
<1> QED
  BY <1>2, <1>3, <1>4, <1>5, <1>6, <1>7

\* The tasks that are over and whose connections wait for a read.
Waiting(w) ==
  { i \in Expired(timer[w]) : conn[timer[w].tasks[i].conn] # "read" }

\* What tick_handler appends: one event for each of them.
LEMMA AbortedEvents ==
  ASSUME IInv, NEW w \in Worker, NEW order \in Ascending(Waiting(w))
  PROVE  LET k == Cardinality(Waiting(w))
             f == [n \in 1 .. k |-> Ev("aborted", timer[w].tasks[order[n]].conn)]
         IN  /\ k \in Nat /\ f \in [1 .. k -> Event]
             /\ \A n \in 1 .. k : order[n] \in Waiting(w)
             /\ \A m, n \in 1 .. k : f[m] = f[n] => m = n
<1> DEFINE ids == Waiting(w)
           k == Cardinality(ids)
           d(n) == timer[w].tasks[order[n]].conn
           f == [n \in 1 .. k |-> Ev("aborted", d(n))]
<1> USE DEF IInv
<1>1. timer[w] \in TimerType /\ timer[w].highest \in Nat
  BY TasksFacts DEF TypeInv
<1>2. ids \subseteq DOMAIN timer[w].tasks
  BY DEF Waiting, Expired
<1>3. k \in Nat
  <2>1. ids \in SUBSET (1 .. timer[w].highest)
    BY <1>2 DEF OwnDeadline
  <2>2. IsFiniteSet(1 .. timer[w].highest)
    BY <1>1, FS_Interval
  <2> QED
    BY <2>1, <2>2, FS_Subset, FS_CardinalityType
<1>4. /\ order \in [1 .. k -> ids]
      /\ \A m, n \in 1 .. k : m < n => order[m] < order[n]
  BY DEF Ascending
<1> HIDE DEF ids, k
<1>5. ASSUME NEW n \in 1 .. k
      PROVE  order[n] \in Int /\ d(n) \in Conn /\ taskId[d(n)] = order[n]
  BY <1>2, <1>4, OnlyItsOwn
<1>6. f \in [1 .. k -> Event]
  BY <1>5 DEF Event, Ev
<1>7. ASSUME NEW m \in 1 .. k, NEW n \in 1 .. k, f[m] = f[n]
      PROVE  m = n
  <2>1. d(m) = d(n)
    BY <1>7 DEF Ev
  <2>2. order[m] = order[n]
    BY <2>1, <1>5
  <2> QED
    BY <2>2, <1>3, <1>4, <1>5
<1> QED
  BY <1>3, <1>4, <1>6, <1>7 DEF k, ids

LEMMA HandleTickStep ==
  ASSUME IInv, NEW w \in Worker, HandleTick(w)
  PROVE  IInv'
<1> DEFINE over == Expired(timer[w])
           ids == Waiting(w)
           ConnOf(i) == timer[w].tasks[i].conn
           k == Cardinality(ids)
           q == Tail(runq[w])
<1> USE DEF IInv
<1>1. PICK order \in Ascending(ids) :
        runq' = [runq EXCEPT ![w] = q \o
                   [n \in 1 .. k |-> Ev("aborted", ConnOf(order[n]))]]
  BY DEF HandleTick, Waiting
<1> DEFINE f == [n \in 1 .. k |-> Ev("aborted", ConnOf(order[n]))]
<1>2. /\ k \in Nat /\ f \in [1 .. k -> Event]
      /\ \A n \in 1 .. k : order[n] \in ids
      /\ \A m, n \in 1 .. k : f[m] = f[n] => m = n
  BY AbortedEvents
<1>3. /\ runq[w] # << >> /\ thread[w] = "running"
      /\ timer' = [timer EXCEPT ![w] = ProcessTasks(timer[w])]
      /\ conn' = [c \in Conn |-> IF \E i \in ids : ConnOf(i) = c THEN "aborted"
                                 ELSE IF \E i \in over : ConnOf(i) = c THEN "closed"
                                 ELSE conn[c]]
      /\ UNCHANGED << main, scan, holding, began, thread, stopped, queueLength,
                      worker, taskId, reads, robbed >>
  BY DEF HandleTick, Waiting, Runs, serverVars, acceptVars, TypeInv
<1>4. runq \in [Worker -> Seq(Event)] /\ timer \in [Worker -> TimerType]
  BY DEF TypeInv
<1>5. /\ q \in Seq(Event)
      /\ \A n \in 1 .. Len(q) :
           n + 1 \in 1 .. Len(runq[w]) /\ q[n] = runq[w][n + 1]
  BY <1>3, <1>4, TailFacts
<1> HIDE DEF f, k, q
<1>6. /\ q \o f \in Seq(Event)
      /\ Len(q) \in Nat /\ Len(q \o f) = Len(q) + k
      /\ \A n \in 1 .. Len(q) : (q \o f)[n] = q[n]
      /\ \A n \in 1 .. k : (q \o f)[Len(q) + n] = f[n]
  BY <1>2, <1>5, ConcatFacts
<1>7. /\ runq' \in [Worker -> Seq(Event)]
      /\ runq'[w] = q \o f
      /\ \A v \in Worker \ {w} : runq'[v] = runq[v]
  BY <1>1, <1>4, <1>6 DEF f
<1>8. ASSUME NEW i \in over
      PROVE  /\ ConnOf(i) \in Conn /\ worker[ConnOf(i)] = w
             /\ conn[ConnOf(i)] \in {"reading", "ready", "read"}
             /\ taskId[ConnOf(i)] = i
             /\ i \in ids <=> conn[ConnOf(i)] # "read"
             /\ i \in ids => conn'[ConnOf(i)] = "aborted"
             /\ i \notin ids => conn'[ConnOf(i)] = "closed"
  <2>1. i \in DOMAIN timer[w].tasks
    BY DEF Expired
  <2>2. /\ ConnOf(i) \in Conn /\ worker[ConnOf(i)] = w
        /\ conn[ConnOf(i)] \in {"reading", "ready", "read"}
        /\ taskId[ConnOf(i)] = i
    BY <2>1, OnlyItsOwn
  <2>3. i \in ids <=> conn[ConnOf(i)] # "read"
    BY DEF Waiting
  <2>4. i \in ids => conn'[ConnOf(i)] = "aborted"
    BY <2>2, <1>3
  <2>5. ASSUME i \notin ids, NEW j \in ids
        PROVE  ConnOf(j) # ConnOf(i)
    <3>1. j \in DOMAIN timer[w].tasks
      BY DEF Waiting, Expired
    <3>2. taskId[ConnOf(j)] = j
      BY <3>1, OnlyItsOwn
    <3> QED
      BY <3>2, <2>2, <2>5
  <2>6. i \notin ids => conn'[ConnOf(i)] = "closed"
    BY <2>2, <2>5, <1>3
  <2> QED
    BY <2>2, <2>3, <2>4, <2>6
<1>9. ASSUME NEW c \in Conn, \A i \in over : ConnOf(i) # c
      PROVE  conn'[c] = conn[c]
  <2>1. ids \subseteq over
    BY DEF Waiting
  <2> QED
    BY <2>1, <1>3, <1>9
<1>0. ids \subseteq over
  BY DEF Waiting
<1>10. \A n \in 1 .. k : /\ f[n].kind = "aborted" /\ f[n].conn = ConnOf(order[n])
                         /\ order[n] \in ids
  BY <1>2 DEF f, Ev
<1> HIDE DEF over, ids, ConnOf
<1>11. TypeInv'
  <2>1. ProcessTasks(timer[w]) \in TimerType
    BY <1>4, ProcessTasksFacts
  <2>2. timer' \in [Worker -> TimerType]
    BY <2>1, <1>3, <1>4
  <2>3. conn' \in [Conn -> ConnState]
    BY <1>3 DEF TypeInv, ConnState
  <2> QED
    BY <2>2, <2>3, <1>3, <1>7 DEF TypeInv
<1>12. OwnDeadline'
  <2> SUFFICES ASSUME NEW v \in Worker, NEW i \in DOMAIN timer'[v].tasks
               PROVE  LET c == timer'[v].tasks[i].conn
                      IN  /\ i \in 1 .. timer'[v].highest
                          /\ taskId'[c] = i /\ worker'[c] = v
                          /\ conn'[c] \in {"reading", "ready", "read"}
    BY DEF OwnDeadline
  <2>1. /\ i \in DOMAIN timer[v].tasks
        /\ timer'[v].tasks[i] = timer[v].tasks[i]
        /\ timer'[v].highest = timer[v].highest
        /\ v = w => i \notin over
    <3>1. CASE v = w
      BY <3>1, <1>3, <1>4, ProcessTasksFacts DEF over
    <3>2. CASE v # w
      BY <3>2, <1>3, <1>4
    <3> QED
      BY <3>1, <3>2
  <2>2. i \in 1 .. timer[v].highest
    BY <2>1 DEF OwnDeadline
  <2> DEFINE c == timer[v].tasks[i].conn
  <2>3. /\ c \in Conn /\ taskId[c] = i /\ worker[c] = v
        /\ conn[c] \in {"reading", "ready", "read"}
    BY <2>1, OnlyItsOwn
  <2>4. conn'[c] = conn[c]
    BY <2>1, <2>3, <1>8, <1>9
  <2> QED
    BY <2>1, <2>2, <2>3, <2>4, <1>3
<1>13. QueueLengths'
  <2>1. ASSUME NEW c \in Conn
        PROVE  conn[c] \in {"unused", "gone"} <=> conn'[c] \in {"unused", "gone"}
    BY <1>8, <1>9
  <2> QED
    BY <2>1, <1>3, SameLive
<1>14. Order'
  <2>1. ASSUME NEW c \in Conn, conn'[c] # conn[c]
        PROVE  conn[c] # "unused" /\ conn'[c] # "accepting"
    BY <2>1, <1>8, <1>9
  <2> QED
    BY <2>1, <1>3, HandlerOrder
\* An event of before stays right: no closed connection was to be started or
\* aborted.
<1>15. ASSUME NEW v \in Worker, NEW m \in 1 .. Len(runq[v])
       PROVE  /\ runq[v][m].kind # "tick" =>
                   /\ runq[v][m].conn \in Conn
                   /\ worker'[runq[v][m].conn] = v
                   /\ conn'[runq[v][m].conn] \notin {"unused", "accepting"}
                   /\ runq[v][m].kind = "start" =>
                        conn'[runq[v][m].conn] = "posted"
                   /\ runq[v][m].kind = "aborted" =>
                        conn'[runq[v][m].conn] = "aborted"
                   /\ runq[v][m].kind = "read" =>
                        conn'[runq[v][m].conn] \in {"read", "closed"}
              /\ \A n \in 1 .. k : runq[v][m] # f[n]
  <2>1. EventOK(v, runq[v][m])
    BY DEF Events
  <2>2. \A n \in 1 .. k : runq[v][m] # f[n]
    BY <2>1, <1>0, <1>8, <1>10 DEF EventOK
  <2>3. worker' = worker
    BY <1>3
  <2> DEFINE e == runq[v][m]
  <2> HIDE DEF e
  <2>4. CASE \E i \in over : ConnOf(i) = e.conn
    <3>1. PICK i \in over : ConnOf(i) = e.conn
      BY <2>4
    <3>2. /\ conn[e.conn] \in {"reading", "ready", "read"}
          /\ conn[e.conn] # "read" => conn'[e.conn] = "aborted"
          /\ conn[e.conn] = "read" => conn'[e.conn] = "closed"
      BY <3>1, <1>8
    <3> QED
      BY <3>2, <2>1, <2>2, <2>3 DEF EventOK, e
  <2>5. CASE ~ \E i \in over : ConnOf(i) = e.conn
    <3>1. e.kind # "tick" => conn'[e.conn] = conn[e.conn]
      BY <2>1, <2>5, <1>9 DEF EventOK, e
    <3> QED
      BY <3>1, <2>1, <2>2, <2>3 DEF EventOK, e
  <2> QED
    BY <2>4, <2>5
\* Where each event of the new queue comes from.
<1>16. ASSUME NEW n \in 1 .. Len(runq'[w])
       PROVE  \/ /\ n \in 1 .. Len(q) /\ n + 1 \in 1 .. Len(runq[w])
                 /\ runq'[w][n] = runq[w][n + 1]
              \/ n - Len(q) \in 1 .. k /\ runq'[w][n] = f[n - Len(q)]
  <2>1. CASE n <= Len(q)
    BY <2>1, <1>5, <1>6, <1>7
  <2>2. CASE n > Len(q)
    <3>1. n - Len(q) \in 1 .. k /\ n = Len(q) + (n - Len(q))
      BY <2>2, <1>2, <1>6, <1>7
    <3> QED
      BY <3>1, <1>6, <1>7
  <2> QED
    BY <2>1, <2>2, <1>6
<1>17. Events'
  <2> SUFFICES ASSUME NEW v \in Worker, NEW n \in 1 .. Len(runq'[v])
               PROVE  EventOK(v, runq[v][n])'
    BY DEF Events
  <2>1. CASE \E m \in 1 .. Len(runq[v]) : runq'[v][n] = runq[v][m]
    BY <2>1, <1>15 DEF EventOK
  <2>2. CASE v = w /\ \E m \in 1 .. k : runq'[v][n] = f[m]
    <3>1. PICK m \in 1 .. k : runq'[v][n] = f[m]
      BY <2>2
    <3>2. /\ f[m].kind = "aborted" /\ f[m].conn \in Conn
          /\ worker'[f[m].conn] = v /\ conn'[f[m].conn] = "aborted"
      <4>1. order[m] \in ids /\ f[m].conn = ConnOf(order[m])
        BY <1>10
      <4>2. worker' = worker
        BY <1>3
      <4> QED
        BY <4>1, <4>2, <2>2, <1>0, <1>8, <1>10
    <3> QED
      BY <3>1, <3>2 DEF EventOK
  <2> QED
    BY <2>1, <2>2, <1>7, <1>16
<1>18. Once'
  <2> SUFFICES ASSUME NEW v \in Worker, NEW m \in 1 .. Len(runq'[v]),
                      NEW n \in 1 .. Len(runq'[v]), runq'[v][m] = runq'[v][n],
                      runq'[v][m].kind \in Unique
               PROVE  m = n
    BY DEF Once
  <2>1. CASE v # w
    BY <2>1, <1>7 DEF Once
  <2>2. CASE v = w
    <3>1. CASE /\ m + 1 \in 1 .. Len(runq[w]) /\ runq'[w][m] = runq[w][m + 1]
               /\ n + 1 \in 1 .. Len(runq[w]) /\ runq'[w][n] = runq[w][n + 1]
      <4>1. m + 1 = n + 1
        BY <2>2, <3>1 DEF Once
      <4> QED
        BY <4>1
    <3>2. CASE /\ m - Len(q) \in 1 .. k /\ runq'[w][m] = f[m - Len(q)]
               /\ n - Len(q) \in 1 .. k /\ runq'[w][n] = f[n - Len(q)]
      <4>1. m - Len(q) = n - Len(q)
        BY <2>2, <3>2, <1>2
      <4> QED
        BY <4>1, <1>6
    <3>3. ASSUME NEW a \in 1 .. Len(runq[w]), NEW b \in 1 .. k
          PROVE  runq[w][a] # f[b]
      BY <1>15
    <3>4. CASE /\ m + 1 \in 1 .. Len(runq[w]) /\ runq'[w][m] = runq[w][m + 1]
               /\ n - Len(q) \in 1 .. k /\ runq'[w][n] = f[n - Len(q)]
      BY <2>2, <3>3, <3>4
    <3>5. CASE /\ m - Len(q) \in 1 .. k /\ runq'[w][m] = f[m - Len(q)]
               /\ n + 1 \in 1 .. Len(runq[w]) /\ runq'[w][n] = runq[w][n + 1]
      BY <2>2, <3>3, <3>5
    <3> DEFINE Old(j) == j + 1 \in 1 .. Len(runq[w]) /\ runq'[w][j] = runq[w][j + 1]
               New(j) == j - Len(q) \in 1 .. k /\ runq'[w][j] = f[j - Len(q)]
    <3>6. (Old(m) \/ New(m)) /\ (Old(n) \/ New(n))
      BY <2>2, <1>16
    <3> QED
      BY <3>1, <3>2, <3>4, <3>5, <3>6
  <2> QED
    BY <2>1, <2>2
<1>19. Writing'
  <2>1. ASSUME NEW c \in Conn, worker[c] # w
        PROVE  conn'[c] = conn[c]
    BY <2>1, <1>8, <1>9
  <2> QED
    BY <2>1, <1>3, <1>7, HandlerWriting
<1> QED
  BY <1>11, <1>12, <1>13, <1>14, <1>17, <1>18, <1>19

\* Queues only grow: by an event that is right, and new if it must be.
LEMMA GrownQueues ==
  ASSUME TypeInv, Events, Once,
         runq' \in [Worker -> Seq(Event)],
         \A d \in Conn : conn[d] \notin {"unused", "accepting"} =>
           /\ worker'[d] = worker[d]
           /\ conn'[d] \notin {"unused", "accepting"}
           /\ conn[d] \in {"posted", "aborted", "read", "closed"} =>
                conn'[d] = conn[d],
         \A v \in Worker :
           \/ runq'[v] = runq[v]
           \/ \E e \in Event :
                /\ runq'[v] = Append(runq[v], e)
                /\ e.kind \in Unique =>
                     \A n \in 1 .. Len(runq[v]) : runq[v][n] # e
                /\ e.kind # "tick" =>
                     /\ e.conn \in Conn
                     /\ worker'[e.conn] = v
                     /\ conn'[e.conn] \notin {"unused", "accepting"}
                     /\ e.kind = "start" => conn'[e.conn] = "posted"
                     /\ e.kind = "aborted" => conn'[e.conn] = "aborted"
                     /\ e.kind = "read" => conn'[e.conn] \in {"read", "closed"}
  PROVE  Events' /\ Once'
<1>1. ASSUME NEW v \in Worker, NEW m \in 1 .. Len(runq[v])
      PROVE  runq[v][m].kind # "tick" =>
               /\ runq[v][m].conn \in Conn
               /\ worker'[runq[v][m].conn] = v
               /\ conn'[runq[v][m].conn] \notin {"unused", "accepting"}
               /\ runq[v][m].kind = "start" => conn'[runq[v][m].conn] = "posted"
               /\ runq[v][m].kind = "aborted" => conn'[runq[v][m].conn] = "aborted"
               /\ runq[v][m].kind = "read" =>
                    conn'[runq[v][m].conn] \in {"read", "closed"}
  <2>1. EventOK(v, runq[v][m])
    BY DEF Events
  <2> QED
    BY <2>1 DEF EventOK
<1>2. ASSUME NEW v \in Worker
      PROVE  /\ \A n \in 1 .. Len(runq'[v]) : EventOK(v, runq[v][n])'
             /\ \A m, n \in 1 .. Len(runq'[v]) :
                  /\ runq'[v][m] = runq'[v][n]
                  /\ runq'[v][m].kind \in Unique
                  => m = n
  <2>1. CASE runq'[v] = runq[v]
    BY <2>1, <1>1 DEF EventOK, Once
  <2>2. CASE runq'[v] # runq[v]
    <3>1. PICK e \in Event :
            /\ runq'[v] = Append(runq[v], e)
            /\ e.kind \in Unique =>
                 \A n \in 1 .. Len(runq[v]) : runq[v][n] # e
            /\ e.kind # "tick" =>
                 /\ e.conn \in Conn
                 /\ worker'[e.conn] = v
                 /\ conn'[e.conn] \notin {"unused", "accepting"}
                 /\ e.kind = "start" => conn'[e.conn] = "posted"
                 /\ e.kind = "aborted" => conn'[e.conn] = "aborted"
                 /\ e.kind = "read" => conn'[e.conn] \in {"read", "closed"}
      BY <2>2
    <3>2. /\ Len(runq[v]) \in Nat /\ Len(runq'[v]) = Len(runq[v]) + 1
          /\ runq'[v][Len(runq[v]) + 1] = e
          /\ \A n \in 1 .. Len(runq[v]) : runq'[v][n] = runq[v][n]
      BY <3>1, AppendFacts DEF TypeInv
    <3>3. ASSUME NEW n \in 1 .. Len(runq'[v])
          PROVE  \/ n \in 1 .. Len(runq[v]) /\ runq'[v][n] = runq[v][n]
                 \/ n = Len(runq[v]) + 1 /\ runq'[v][n] = e
      BY <3>2
    <3>4. \A n \in 1 .. Len(runq'[v]) : EventOK(v, runq[v][n])'
      BY <3>1, <3>3, <1>1 DEF EventOK
    <3>5. ASSUME NEW m \in 1 .. Len(runq'[v]), NEW n \in 1 .. Len(runq'[v]),
                 runq'[v][m] = runq'[v][n],
                 runq'[v][m].kind \in Unique
          PROVE  m = n
      BY <3>1, <3>3, <3>5 DEF Once
    <3> QED
      BY <3>4, <3>5
  <2> QED
    BY <2>1, <2>2
<1> QED
  BY <1>2 DEF Events, Once

\* Nothing of what a waiting worker stands on changes.
LEMMA SameWriting ==
  ASSUME TypeInv, Events, Writing,
         \A v \in Worker : thread'[v] = "writing" => thread[v] = "writing",
         \A v \in Worker : thread[v] = "writing" =>
           runq'[v] = runq[v] \/ \E e \in Event : runq'[v] = Append(runq[v], e),
         \A d \in Conn : conn[d] \in {"ready", "read"} => conn'[d] = conn[d]
  PROVE  Writing'
<1> SUFFICES ASSUME NEW v \in Worker, thread'[v] = "writing"
             PROVE  /\ runq'[v] # << >>
                    /\ \/ /\ Head(runq'[v]).kind = "io"
                          /\ conn'[Head(runq'[v]).conn] = "ready"
                       \/ /\ Head(runq'[v]).kind = "read"
                          /\ conn'[Head(runq'[v]).conn] = "read"
  BY DEF Writing, Current
<1>1. /\ thread[v] = "writing" /\ runq[v] # << >>
      /\ \/ Head(runq[v]).kind = "io" /\ conn[Head(runq[v]).conn] = "ready"
         \/ Head(runq[v]).kind = "read" /\ conn[Head(runq[v]).conn] = "read"
  BY DEF Writing, Current
<1>2. EventOK(v, Head(runq[v])) /\ runq[v] \in Seq(Event)
  BY <1>1, HeadFacts DEF TypeInv
<1>3. conn'[Head(runq[v]).conn] = conn[Head(runq[v]).conn]
  BY <1>1, <1>2 DEF EventOK
<1>4. runq'[v] # << >> /\ Head(runq'[v]) = Head(runq[v])
  <2>1. CASE runq'[v] = runq[v]
    BY <2>1, <1>1
  <2>2. CASE \E e \in Event : runq'[v] = Append(runq[v], e)
    BY <2>2, <1>1, <1>2
  <2> QED
    BY <2>1, <2>2, <1>1
<1> QED
  BY <1>1, <1>3, <1>4

\* The deadlines stay as they are, and so do the connections they are for.
LEMMA SameDeadlines ==
  ASSUME TypeInv, OwnDeadline, UNCHANGED << timer, taskId >>,
         \A d \in Conn : conn[d] \in {"reading", "ready", "read"} =>
           worker'[d] = worker[d] /\ conn'[d] \in {"reading", "ready", "read"}
  PROVE  OwnDeadline'
<1> SUFFICES ASSUME NEW w \in Worker, NEW i \in DOMAIN timer[w].tasks
             PROVE  LET d == timer[w].tasks[i].conn
                    IN  /\ i \in 1 .. timer[w].highest
                        /\ taskId[d] = i /\ worker'[d] = w
                        /\ conn'[d] \in {"reading", "ready", "read"}
  BY DEF OwnDeadline
<1>1. i \in 1 .. timer[w].highest
  BY DEF OwnDeadline
<1> QED
  BY <1>1, OnlyItsOwn

LEMMA WorkerReadyStep ==
  ASSUME IInv, NEW w \in Worker, WorkerReady(w)
  PROVE  IInv'
<1> USE DEF IInv
<1>1. /\ thread[w] = "new"
      /\ thread' = [thread EXCEPT ![w] = "running"]
      /\ timer' = [timer EXCEPT ![w] = NewTimer]
      /\ queueLength' = [queueLength EXCEPT ![w] = 0]
      /\ UNCHANGED << main, scan, holding, began, stopped, runq, conn, worker,
                      taskId, reads, robbed >>
  BY DEF WorkerReady, acceptVars, connVars
<1>2. main = "starting" /\ \A c \in Conn : conn[c] = "unused"
  BY <1>1 DEF Order
<1>3. TypeInv'
  BY <1>1, NewTimerFacts DEF TypeInv
<1>4. OwnDeadline'
  <2> SUFFICES ASSUME NEW v \in Worker, NEW i \in DOMAIN timer'[v].tasks
               PROVE  FALSE
    BY DEF OwnDeadline
  <2>1. v # w /\ timer'[v] = timer[v]
    BY <1>1, NewTimerFacts DEF TypeInv
  <2> QED
    BY <2>1, <1>2, OnlyItsOwn
<1>5. QueueLengths'
  <2>1. ASSUME NEW v \in Worker
        PROVE  Live(v)' = {} /\ Live(v) = {}
    BY <1>1, <1>2 DEF Live
  <2>2. Cardinality({}) = 0
    BY FS_EmptySet
  <2>3. ASSUME NEW v \in Worker
        PROVE  queueLength'[v] = 0
    BY <1>1, <2>1, <2>2 DEF QueueLengths, TypeInv
  <2> QED
    BY <2>1, <2>2, <2>3 DEF QueueLengths
<1>6. Order'
  BY <1>1, <1>2 DEF Order
<1>7. Events' /\ Once'
  BY <1>1 DEF Events, EventOK, Once
<1>8. Writing'
  BY <1>1 DEF Writing, Current, TypeInv
<1> QED
  BY <1>3, <1>4, <1>5, <1>6, <1>7, <1>8

LEMMA DoAcceptFacts ==
  ASSUME TypeInv, DoAccept
  PROVE  /\ scan' \in ScanRecord /\ began' \in [Worker -> Nat]
         /\ \/ scan' = scan /\ began' = began
            \/ /\ scan'.pc = "loop" /\ scan'.idx = 1 /\ scan'.least = 0
               /\ \A w \in Worker : began'[w] = Cardinality(Live(w))
<1>1. CASE UNCHANGED << scan, began >>
  BY <1>1 DEF TypeInv
<1>2. CASE /\ scan' = [NoScan EXCEPT !.pc = "loop"]
           /\ began' = [w \in Worker |-> Cardinality(Live(w))]
  <2>1. \A w \in Worker : Cardinality(Live(w)) \in Nat
    BY LiveFinite
  <2>2. /\ scan' \in ScanRecord
        /\ scan'.pc = "loop" /\ scan'.idx = 1 /\ scan'.least = 0
    BY <1>2, ServerAssumption DEF NoScan, ScanRecord, Worker
  <2> QED
    BY <1>2, <2>1, <2>2
<1> QED
  BY <1>1, <1>2 DEF DoAccept

LEMMA FirstAcceptStep ==
  ASSUME IInv, FirstAccept
  PROVE  IInv'
<1> USE DEF IInv
<1>1. /\ main = "starting" /\ main' = "accepting" /\ DoAccept
      /\ \A w \in Worker : thread[w] # "new"
      /\ UNCHANGED << holding, thread, stopped, queueLength, timer, runq, conn,
                      worker, taskId, reads, robbed >>
  BY DEF FirstAccept, connVars
<1>2. TypeInv'
  BY <1>1, DoAcceptFacts DEF TypeInv
<1>3. OwnDeadline'
  BY <1>1 DEF OwnDeadline
<1>4. QueueLengths'
  BY <1>1, SameLive
<1>5. Order'
  BY <1>1, DoAcceptFacts DEF Order
<1>6. Events' /\ Once' /\ Writing'
  BY <1>1 DEF Events, EventOK, Once, Writing, Current
<1> QED
  BY <1>2, <1>3, <1>4, <1>5, <1>6

\* The walk over the lengths.
LEMMA ScanStep ==
  ASSUME IInv, ScanLoop \/ ScanLoad \/ ScanCompare
  PROVE  IInv'
<1> USE DEF IInv
<1>1. UNCHANGED << main, holding, began, thread, stopped, queueLength, timer, runq,
                   conn, worker, taskId, reads, robbed >>
  BY DEF ScanLoop, ScanLoad, ScanCompare, connVars
<1>2. /\ scan \in ScanRecord /\ scan.pc # "none"
      /\ scan.idx \in 1 .. NumWorkers /\ scan.least \in Worker
      /\ queueLength \in [Worker -> Nat]
      /\ NumWorkers \in Nat /\ Worker = 0 .. NumWorkers - 1
  BY ServerAssumption DEF ScanLoop, ScanLoad, ScanCompare, TypeInv, ScanRecord, Worker
<1>3. /\ scan' \in ScanRecord
      /\ scan'.pc \in {"load", "compare"} => scan'.idx < NumWorkers
  <2>1. CASE ScanLoop
    BY <2>1, <1>2 DEF ScanLoop, ScanRecord
  <2>2. CASE ScanLoad
    <3>1. scan.pc = "load"
      BY <2>2 DEF ScanLoad
    <3>2. scan.idx \in Worker /\ scan.idx < NumWorkers
      BY <1>2, <3>1 DEF Order
    <3>3. PICK i \in {scan.idx, scan.least} :
            scan' = [scan EXCEPT !.pc = "compare", !.loaded = i,
                                 !.seen = queueLength[i]]
      BY <2>2 DEF ScanLoad
    <3>4. i \in 0 .. NumWorkers /\ queueLength[i] \in Nat
      BY <1>2, <3>2, <3>3
    <3> QED
      BY <1>2, <3>2, <3>3, <3>4 DEF ScanRecord
  <2>3. CASE ScanCompare
    <3>1. scan.pc = "compare"
      BY <2>3 DEF ScanCompare
    <3>2. scan.idx \in Worker /\ scan.idx + 1 \in 1 .. NumWorkers
      BY <1>2, <3>1 DEF Order
    <3>3. PICK m \in {scan.idx, scan.least} :
            scan' = [NoScan EXCEPT !.pc = "loop", !.idx = scan.idx + 1, !.least = m]
      BY <2>3, Zenon DEF ScanCompare
    <3>4. m \in Worker /\ 0 \in 0 .. NumWorkers
      BY <1>2, <3>2, <3>3
    <3> QED
      BY <3>2, <3>3, <3>4 DEF ScanRecord, NoScan
  <2> QED
    BY <2>1, <2>2, <2>3
<1>4. TypeInv'
  BY <1>1, <1>3 DEF TypeInv
<1>5. OwnDeadline'
  BY <1>1 DEF OwnDeadline
<1>6. QueueLengths'
  BY <1>1, SameLive
<1>7. Order'
  BY <1>1, <1>2, <1>3 DEF Order
<1>8. Events' /\ Once' /\ Writing'
  BY <1>1 DEF Events, EventOK, Once, Writing, Current
<1> QED
  BY <1>4, <1>5, <1>6, <1>7, <1>8

\* What was handed over before stays as it is: the acceptor's own steps.
LEMMA AcceptorKeeps ==
  ASSUME IInv, TypeInv', UNCHANGED << thread, runq >>,
         \A d \in Conn : conn[d] \notin {"unused", "accepting"} =>
           /\ worker'[d] = worker[d]
           /\ conn'[d] = conn[d] \/ (conn[d] = "held" /\ conn'[d] = "gone")
  PROVE  Events' /\ Once' /\ Writing'
<1> USE DEF IInv
<1>1. runq' \in [Worker -> Seq(Event)]
  BY DEF TypeInv
<1>2. Events' /\ Once'
  BY <1>1, GrownQueues
<1>3. Writing'
  BY SameWriting
<1> QED
  BY <1>2, <1>3

LEMMA ConstructStep ==
  ASSUME IInv, NEW c \in Conn, Construct(c)
  PROVE  IInv'
<1> USE DEF IInv
<1> DEFINE w == scan.least
<1>1. /\ scan.pc = "chosen" /\ conn[c] = "unused"
      /\ conn' = [conn EXCEPT ![c] = "accepting"]
      /\ worker' = [worker EXCEPT ![c] = w]
      /\ queueLength' = [queueLength EXCEPT ![w] = @ + 1]
      /\ scan' = NoScan /\ began' = [v \in Worker |-> 0]
      /\ UNCHANGED << main, holding, thread, stopped, timer, runq, taskId, reads,
                      robbed >>
  BY DEF Construct
<1>2. w \in Worker
  BY DEF TypeInv, ScanRecord
<1> HIDE DEF w
<1>3. /\ conn' \in [Conn -> ConnState] /\ worker' \in [Conn -> Worker]
      /\ conn'[c] = "accepting"
      /\ \A d \in Conn \ {c} : conn'[d] = conn[d] /\ worker'[d] = worker[d]
  BY <1>1, <1>2 DEF TypeInv, ConnState
<1>4. QueueLengths' /\ queueLength' \in [Worker -> Nat]
  BY <1>1, <1>2, MoreLive
<1>5. scan' \in ScanRecord /\ scan'.pc = "none"
  BY <1>1, ServerAssumption DEF NoScan, ScanRecord, Worker
<1>6. TypeInv'
  BY <1>1, <1>3, <1>4, <1>5 DEF TypeInv
<1>7. OwnDeadline'
  BY <1>1, <1>3, SameDeadlines
<1>8. main = "accepting"
  BY <1>1 DEF Order
<1>9. Order'
  BY <1>1, <1>5, <1>8 DEF Order
<1>10. Events' /\ Once' /\ Writing'
  BY <1>1, <1>3, <1>6, AcceptorKeeps
<1> QED
  BY <1>4, <1>6, <1>7, <1>9, <1>10

LEMMA LetGoStep ==
  ASSUME IInv, LetGo
  PROVE  IInv'
<1> USE DEF IInv
<1> DEFINE c == holding
<1>1. /\ c \in Conn /\ holding' = NoConn
      /\ IF conn[c] = "held"
         THEN /\ conn' = [conn EXCEPT ![c] = "gone"]
              /\ queueLength' = [queueLength EXCEPT ![worker[c]] = @ - 1]
         ELSE UNCHANGED << conn, queueLength >>
      /\ UNCHANGED << main, scan, began, thread, stopped, timer, runq, worker,
                      taskId, reads, robbed >>
  BY DEF LetGo, TypeInv
<1> HIDE DEF c
<1>2. worker[c] \in Worker /\ conn \in [Conn -> ConnState]
  BY <1>1 DEF TypeInv
<1>3. /\ conn' \in [Conn -> ConnState]
      /\ \A d \in Conn : conn'[d] = conn[d] \/ (conn[d] = "held" /\ conn'[d] = "gone")
  BY <1>1, <1>2 DEF ConnState
<1>4. QueueLengths' /\ queueLength' \in [Worker -> Nat]
  <2>1. CASE conn[c] = "held"
    BY <2>1, <1>1, <1>2, LessLive
  <2>2. CASE conn[c] # "held"
    <3>1. UNCHANGED << conn, queueLength >>
      BY <2>2, <1>1
    <3> QED
      BY <3>1, <1>1, SameLive DEF TypeInv
  <2> QED
    BY <2>1, <2>2
<1>5. TypeInv'
  BY <1>1, <1>3, <1>4 DEF TypeInv
<1>6. OwnDeadline'
  BY <1>1, <1>3, SameDeadlines
<1>7. Order'
  BY <1>1, <1>3, HandlerOrder
<1>8. Events' /\ Once' /\ Writing'
  BY <1>1, <1>3, <1>5, AcceptorKeeps
<1> QED
  BY <1>4, <1>5, <1>6, <1>7, <1>8

LEMMA AcceptedStep ==
  ASSUME IInv, NEW c \in Conn, Accepted(c)
  PROVE  IInv'
<1> USE DEF IInv
<1> DEFINE e == Ev("start", c)
           w == worker[c]
<1>1. /\ main = "accepting" /\ conn[c] = "accepting" /\ DoAccept
      /\ holding' = c
      /\ conn' = [conn EXCEPT ![c] = "posted"]
      /\ runq' = [runq EXCEPT ![w] = Append(runq[w], e)]
      /\ UNCHANGED << main, thread, stopped, queueLength, timer, worker, taskId,
                      reads, robbed >>
  BY DEF Accepted, Accepting, TypeInv
<1>2. /\ conn' \in [Conn -> ConnState] /\ conn'[c] = "posted"
      /\ \A d \in Conn \ {c} : conn'[d] = conn[d]
  BY <1>1 DEF TypeInv, ConnState
<1>3. w \in Worker /\ runq \in [Worker -> Seq(Event)] /\ e \in Event
      /\ e.kind = "start" /\ e.conn = c
  BY DEF TypeInv, Event, Ev
<1>4. worker'[c] = w
  BY <1>1
<1> HIDE DEF e, w
<1>5. /\ runq' \in [Worker -> Seq(Event)] /\ runq'[w] = Append(runq[w], e)
      /\ \A v \in Worker \ {w} : runq'[v] = runq[v]
  BY <1>1, <1>3, AppendFacts
<1>6. TypeInv'
  <2>1. scan' \in ScanRecord /\ began' \in [Worker -> Nat]
    BY <1>1, DoAcceptFacts
  <2> QED
    BY <2>1, <1>1, <1>2, <1>5 DEF TypeInv
<1>7. OwnDeadline'
  BY <1>1, <1>2, SameDeadlines
<1>8. QueueLengths'
  BY <1>1, <1>2, SameLive
<1>9. Order'
  BY <1>1, <1>2, DoAcceptFacts DEF Order
<1>10. Events' /\ Once'
  <2>1. ASSUME NEW n \in 1 .. Len(runq[w])
        PROVE  runq[w][n] # e
    <3>1. EventOK(w, runq[w][n])
      BY <1>3 DEF Events
    <3> QED
      BY <3>1, <1>1, <1>3 DEF EventOK
  <2>2. \A d \in Conn : conn[d] \notin {"unused", "accepting"} =>
          worker'[d] = worker[d] /\ conn'[d] = conn[d]
    BY <1>1, <1>2
  <2> QED
    BY <2>1, <2>2, <1>2, <1>3, <1>4, <1>5, GrownQueues
<1>11. Writing'
  <2>1. \A v \in Worker :
          runq'[v] = runq[v] \/ \E f \in Event : runq'[v] = Append(runq[v], f)
    BY <1>3, <1>5
  <2> QED
    BY <2>1, <1>1, <1>2, SameWriting
<1> QED
  BY <1>6, <1>7, <1>8, <1>9, <1>10, <1>11

LEMMA AcceptFailsStep ==
  ASSUME IInv, NEW c \in Conn, AcceptFails(c)
  PROVE  IInv'
<1> USE DEF IInv
<1>1. /\ main = "accepting" /\ conn[c] = "accepting" /\ DoAccept
      /\ holding' = c
      /\ conn' = [conn EXCEPT ![c] = "held"]
      /\ UNCHANGED << main, thread, stopped, queueLength, timer, runq, worker,
                      taskId, reads, robbed >>
  BY DEF AcceptFails, Accepting
<1>2. /\ conn' \in [Conn -> ConnState] /\ conn'[c] = "held"
      /\ \A d \in Conn \ {c} : conn'[d] = conn[d]
  BY <1>1 DEF TypeInv, ConnState
<1>3. TypeInv'
  <2>1. scan' \in ScanRecord /\ began' \in [Worker -> Nat]
    BY <1>1, DoAcceptFacts
  <2> QED
    BY <2>1, <1>1, <1>2 DEF TypeInv
<1>4. OwnDeadline'
  BY <1>1, <1>2, SameDeadlines
<1>5. QueueLengths'
  BY <1>1, <1>2, SameLive
<1>6. Order'
  BY <1>1, <1>2, DoAcceptFacts DEF Order
<1>7. Events' /\ Once' /\ Writing'
  BY <1>1, <1>2, <1>3, AcceptorKeeps
<1> QED
  BY <1>3, <1>4, <1>5, <1>6, <1>7

LEMMA ArriveStep ==
  ASSUME IInv, NEW c \in Conn, Arrive(c)
  PROVE  IInv'
<1> USE DEF IInv
<1> DEFINE e == Ev("io", c)
           w == worker[c]
<1>1. /\ conn[c] = "reading"
      /\ conn' = [conn EXCEPT ![c] = "ready"]
      /\ runq' = [runq EXCEPT ![w] = Append(runq[w], e)]
      /\ UNCHANGED << main, scan, holding, began, thread, stopped, queueLength,
                      timer, worker, taskId, reads, robbed >>
  BY DEF Arrive, TypeInv, serverVars, acceptVars
<1>2. /\ conn' \in [Conn -> ConnState] /\ conn'[c] = "ready"
      /\ \A d \in Conn \ {c} : conn'[d] = conn[d]
  BY <1>1 DEF TypeInv, ConnState
<1>3. w \in Worker /\ runq \in [Worker -> Seq(Event)] /\ e \in Event
      /\ e.kind = "io" /\ e.conn = c
  BY DEF TypeInv, Event, Ev
<1>4. worker'[c] = w
  BY <1>1
<1> HIDE DEF e, w
<1>5. /\ runq' \in [Worker -> Seq(Event)] /\ runq'[w] = Append(runq[w], e)
      /\ \A v \in Worker \ {w} : runq'[v] = runq[v]
  BY <1>1, <1>3, AppendFacts
<1>6. TypeInv'
  BY <1>1, <1>2, <1>5 DEF TypeInv
<1>7. OwnDeadline'
  BY <1>1, <1>2, SameDeadlines
<1>8. QueueLengths'
  BY <1>1, <1>2, SameLive
<1>9. Order'
  BY <1>1, <1>2, HandlerOrder
<1>10. Events' /\ Once'
  <2>1. \A d \in Conn : conn[d] \notin {"unused", "accepting"} =>
           /\ worker'[d] = worker[d]
           /\ conn'[d] \notin {"unused", "accepting"}
           /\ conn[d] \in {"posted", "aborted", "read", "closed"} =>
                conn'[d] = conn[d]
    BY <1>1, <1>2
  <2> QED
    BY <2>1, <1>2, <1>3, <1>4, <1>5, GrownQueues DEF Unique
<1>11. Writing'
  <2>1. \A v \in Worker :
          runq'[v] = runq[v] \/ \E f \in Event : runq'[v] = Append(runq[v], f)
    BY <1>3, <1>5
  <2>2. \A d \in Conn : conn[d] \in {"ready", "read"} => conn'[d] = conn[d]
    BY <1>1, <1>2
  <2> QED
    BY <2>1, <2>2, <1>1, SameWriting
<1> QED
  BY <1>6, <1>7, <1>8, <1>9, <1>10, <1>11

LEMMA PassStep ==
  ASSUME IInv, Pass
  PROVE  IInv'
<1> USE DEF IInv
<1>1. /\ timer' = [w \in Worker |-> IF Served(w) THEN Age(timer[w]) ELSE timer[w]]
      /\ runq' = [w \in Worker |-> IF Served(w) /\ ~ TickPending(w)
                                   THEN Append(runq[w], Tick) ELSE runq[w]]
      /\ UNCHANGED << main, scan, holding, began, thread, stopped, queueLength,
                      conn, worker, taskId, reads, robbed >>
  BY DEF Pass, serverVars, acceptVars, connVars
<1>2. Tick \in Event /\ Tick.kind = "tick"
  BY DEF Tick, Event
<1>3. ASSUME NEW w \in Worker
      PROVE  /\ timer'[w] \in TimerType
             /\ timer'[w].highest = timer[w].highest
             /\ DOMAIN timer'[w].tasks = DOMAIN timer[w].tasks
             /\ \A i \in DOMAIN timer[w].tasks :
                  timer'[w].tasks[i].conn = timer[w].tasks[i].conn
  <2>1. timer[w] \in TimerType
    BY DEF TypeInv
  <2>2. CASE Served(w)
    BY <2>1, <2>2, <1>1, AgeFacts
  <2>3. CASE ~ Served(w)
    BY <2>1, <2>3, <1>1
  <2> QED
    BY <2>2, <2>3
<1>4. timer' \in [Worker -> TimerType]
  BY <1>1, <1>3
<1>5. ASSUME NEW w \in Worker
      PROVE  /\ runq'[w] \in Seq(Event)
             /\ runq'[w] = runq[w] \/ runq'[w] = Append(runq[w], Tick)
  BY <1>1, <1>2, AppendFacts DEF TypeInv
<1>6. runq' \in [Worker -> Seq(Event)]
  BY <1>1, <1>5
<1>7. TypeInv'
  BY <1>1, <1>4, <1>6 DEF TypeInv
<1>8. OwnDeadline'
  <2> SUFFICES ASSUME NEW w \in Worker, NEW i \in DOMAIN timer'[w].tasks
               PROVE  LET d == timer'[w].tasks[i].conn
                      IN  /\ i \in 1 .. timer'[w].highest
                          /\ taskId'[d] = i /\ worker'[d] = w
                          /\ conn'[d] \in {"reading", "ready", "read"}
    BY DEF OwnDeadline
  <2>1. i \in 1 .. timer[w].highest
    BY <1>3 DEF OwnDeadline
  <2> QED
    BY <2>1, <1>1, <1>3, OnlyItsOwn
<1>9. QueueLengths'
  BY <1>1, SameLive
<1>10. Order'
  BY <1>1 DEF Order
<1>11. Events' /\ Once'
  <2>1. \A v \in Worker :
          \/ runq'[v] = runq[v]
          \/ \E e \in Event : runq'[v] = Append(runq[v], e) /\ e.kind = "tick"
    BY <1>2, <1>5
  <2>2. UNCHANGED << conn, worker >>
    BY <1>1
  <2> QED
    BY <2>1, <2>2, <1>6, GrownQueues DEF Unique
<1>12. Writing'
  BY <1>1, <1>2, <1>5, SameWriting
<1> QED
  BY <1>7, <1>8, <1>9, <1>10, <1>11, <1>12

LEMMA WorkerExitsStep ==
  ASSUME IInv, NEW w \in Worker, WorkerExits(w)
  PROVE  IInv'
<1> USE DEF IInv
<1>1. /\ thread[w] = "running"
      /\ thread' = [thread EXCEPT ![w] = "exited"]
      /\ timer' = [timer EXCEPT ![w] = NewTimer]
      /\ UNCHANGED << main, scan, holding, began, stopped, queueLength, runq, conn,
                      worker, taskId, reads, robbed >>
  BY DEF WorkerExits, acceptVars, connVars
<1>2. TypeInv'
  BY <1>1, NewTimerFacts DEF TypeInv
<1>3. OwnDeadline'
  <2> SUFFICES ASSUME NEW v \in Worker, NEW i \in DOMAIN timer'[v].tasks
               PROVE  LET d == timer'[v].tasks[i].conn
                      IN  /\ i \in 1 .. timer'[v].highest
                          /\ taskId'[d] = i /\ worker'[d] = v
                          /\ conn'[d] \in {"reading", "ready", "read"}
    BY DEF OwnDeadline
  <2>1. timer'[v] = timer[v]
    BY <1>1, NewTimerFacts DEF TypeInv
  <2> QED
    BY <2>1, <1>1 DEF OwnDeadline
<1>4. QueueLengths'
  BY <1>1, SameLive
<1>5. Order'
  BY <1>1 DEF Order, TypeInv
<1>6. Events' /\ Once'
  BY <1>1 DEF Events, EventOK, Once
<1>7. Writing'
  BY <1>1 DEF Writing, Current, TypeInv
<1> QED
  BY <1>2, <1>3, <1>4, <1>5, <1>6, <1>7

LEMMA StopSteps ==
  ASSUME IInv, StopSignal \/ RunReturns
  PROVE  IInv'
<1> USE DEF IInv
<1>1. /\ main \in {"accepting", "stopped"} /\ main' \in {"stopped", "returned"}
      /\ stopped' \in SUBSET Worker /\ scan.pc = "none"
      /\ UNCHANGED << scan, holding, began, thread, queueLength, timer, runq, conn,
                      worker, taskId, reads, robbed >>
  BY DEF StopSignal, RunReturns, Accepting, connVars, TypeInv, Order
<1>2. TypeInv' /\ Order'
  BY <1>1 DEF TypeInv, Order
<1>3. OwnDeadline'
  BY <1>1 DEF OwnDeadline
<1>4. QueueLengths'
  BY <1>1, SameLive
<1>5. Events' /\ Once' /\ Writing'
  BY <1>1 DEF Events, EventOK, Once, Writing, Current
<1> QED
  BY <1>2, <1>3, <1>4, <1>5

-----------------------------------------------------------------------------
(* The invariant holds.                                                    *)

LEMMA InitIInv == Init => IInv
<1> SUFFICES ASSUME Init
             PROVE  IInv
  OBVIOUS
<1>1. 0 \in Worker
  BY ServerAssumption DEF Worker
<1>2. \A w \in Worker : /\ timer[w] = NewTimer /\ runq[w] = << >>
                        /\ thread[w] = "new" /\ queueLength[w] = 0
  BY DEF Init
<1>3. TypeInv
  <2>1. scan \in ScanRecord
    BY <1>1, ServerAssumption DEF Init, NoScan, ScanRecord
  <2> QED
    BY <1>1, <2>1, NewTimerFacts DEF Init, TypeInv, ConnState
<1>4. OwnDeadline
  BY <1>2, NewTimerFacts DEF OwnDeadline
<1>5. QueueLengths
  <2>1. ASSUME NEW w \in Worker
        PROVE  Live(w) = {}
    BY DEF Init, Live
  <2>2. Cardinality({}) = 0
    BY FS_EmptySet
  <2> QED
    BY <1>2, <2>1, <2>2 DEF QueueLengths
<1>6. Order
  BY DEF Init, Order, NoScan
<1>7. Events /\ Once
  BY <1>2 DEF Events, Once
<1>8. Writing
  BY <1>2 DEF Writing
<1> QED
  BY <1>3, <1>4, <1>5, <1>6, <1>7, <1>8 DEF IInv

LEMMA NextIInv == IInv /\ [Next]_crowVars => IInv'
<1> SUFFICES ASSUME IInv, [Next]_crowVars
             PROVE  IInv'
  OBVIOUS
<1>1. ASSUME NEW w \in Worker, Thread(w)
      PROVE  IInv'
  BY <1>1, WorkerReadyStep, WorkerExitsStep, StartStep, AnswerStep, ReadMoreStep,
     ReadLastStep, ReadStaleStep, AbortedStep, HandleTickStep
     DEF Thread, Handler
<1>2. CASE FirstAccept \/ StopSignal \/ RunReturns
  BY <1>2, FirstAcceptStep, StopSteps
<1>3. ASSUME NEW c \in Conn, Accepted(c) \/ AcceptFails(c) \/ Arrive(c)
      PROVE  IInv'
  BY <1>3, AcceptedStep, AcceptFailsStep, ArriveStep
<1>4. CASE Pass \/ Acceptor
  BY <1>4, PassStep, ScanStep, LetGoStep, ConstructStep DEF Acceptor
<1>5. CASE UNCHANGED crowVars
  BY <1>5 DEF crowVars, serverVars, acceptVars, connVars, IInv, TypeInv,
     OwnDeadline, QueueLengths, Live, Order, Events, EventOK, Once, Writing, Current
<1> QED
  BY <1>1, <1>2, <1>3, <1>4, <1>5 DEF Next

LEMMA Invariance == Spec => []IInv
BY InitIInv, NextIInv, PTL DEF Spec

-----------------------------------------------------------------------------
(* How connections are dealt out.                                          *)

\* Threads end after stop() only, which the accepting thread is told first.
Threads ==
  /\ main \in {"starting", "accepting"} => stopped = {}
  /\ \A w \in Worker : thread[w] = "exited" => w \in stopped

LEMMA NextThreads == IInv /\ Threads /\ [Next]_crowVars => Threads'
<1> SUFFICES ASSUME IInv, Threads, [Next]_crowVars
             PROVE  Threads'
  OBVIOUS
<1>1. CASE UNCHANGED << main, thread, stopped >>
  BY <1>1 DEF Threads
<1>2. ASSUME NEW w \in Worker, WorkerReady(w) \/ WorkerExits(w)
      PROVE  Threads'
  <2>1. thread \in [Worker -> {"new", "running", "writing", "exited"}]
    BY DEF IInv, TypeInv
  <2>2. CASE WorkerReady(w)
    BY <2>1, <2>2 DEF WorkerReady, acceptVars, Threads
  <2>3. CASE WorkerExits(w)
    BY <2>1, <2>3 DEF WorkerExits, acceptVars, Threads
  <2> QED
    BY <1>2, <2>2, <2>3
<1>3. ASSUME NEW w \in Worker, Handler(w)
      PROVE  Threads'
  <2>1. /\ UNCHANGED << main, stopped >>
        /\ \/ UNCHANGED thread
           \/ thread' = [thread EXCEPT ![w] = "writing"]
           \/ thread' = [thread EXCEPT ![w] = "running"]
    BY <1>3 DEF Handler, Start, Answer, ReadMore, ReadLast, ReadEnds, ReadStale,
       Aborted, HandleTick, serverVars, acceptVars
  <2> QED
    BY <2>1 DEF Threads, IInv, TypeInv
<1>4. ASSUME NEW c \in Conn, Accepted(c) \/ AcceptFails(c) \/ Arrive(c)
      PROVE  UNCHANGED << main, thread, stopped >>
  BY <1>4 DEF Accepted, AcceptFails, Arrive, serverVars, acceptVars
<1>5. CASE FirstAccept
  BY <1>5 DEF FirstAccept, Threads
<1>6. CASE StopSignal
  BY <1>6 DEF StopSignal, Threads, IInv, TypeInv
<1>7. CASE RunReturns
  BY <1>7 DEF RunReturns, Threads
<1>8. CASE Pass \/ Acceptor \/ UNCHANGED crowVars
  BY <1>8, <1>1 DEF Pass, Acceptor, ScanLoop, ScanLoad, ScanCompare, LetGo,
     Construct, crowVars, serverVars, acceptVars
<1> QED
  BY <1>1, <1>2, <1>3, <1>4, <1>5, <1>6, <1>7, <1>8 DEF Next, Thread

\* While the acceptor walks over the lengths they only shrink, so none is above
\* its value at the beginning; the least so far is at most that of each it has
\* passed, and so is the length it has loaded.
Walk ==
  scan.pc # "none" =>
    /\ \A v \in Worker : queueLength[v] <= began[v]
    /\ \A v \in Worker :
         v < scan.idx \/ scan.pc = "chosen" => queueLength[scan.least] <= began[v]
    /\ scan.pc = "compare" =>
         /\ scan.loaded \in {scan.idx, scan.least}
         /\ queueLength[scan.loaded] <= scan.seen
         /\ scan.seen <= began[scan.loaded]
         /\ scan.loaded = scan.least =>
              \A v \in Worker : v < scan.idx => scan.seen <= began[v]

\* What holds of the locals of the walk.
LEMMA ScanFacts ==
  ASSUME IInv
  PROVE  /\ queueLength \in [Worker -> Nat] /\ began \in [Worker -> Nat]
         /\ scan.least \in Worker /\ scan.idx \in 1 .. NumWorkers
         /\ scan.seen \in Nat
         /\ scan.pc \in {"load", "compare"} => scan.idx \in Worker
         /\ \A v \in Worker : v \in Nat /\ v < NumWorkers
<1>1. scan \in ScanRecord /\ queueLength \in [Worker -> Nat] /\ began \in [Worker -> Nat]
  BY DEF IInv, TypeInv
<1>2. scan.least \in Worker /\ scan.idx \in 1 .. NumWorkers /\ scan.seen \in Nat
  BY <1>1 DEF ScanRecord
<1>3. \A v \in Worker : v \in Nat /\ v < NumWorkers
  BY ServerAssumption DEF Worker
<1>4. scan.pc \in {"load", "compare"} => scan.idx < NumWorkers
  BY DEF IInv, Order
<1>5. scan.pc \in {"load", "compare"} => scan.idx \in Worker
  BY <1>2, <1>4, ServerAssumption DEF Worker
<1> QED
  BY <1>1, <1>2, <1>3, <1>5

\* A length shrinks.
LEMMA ShrinkWalk ==
  ASSUME IInv, Walk, UNCHANGED << scan, began >>,
         queueLength' \in [Worker -> Nat],
         \A v \in Worker : queueLength'[v] <= queueLength[v]
  PROVE  Walk'
<1> SUFFICES ASSUME scan.pc # "none"
             PROVE  Walk'
  BY DEF Walk
<1>1. /\ queueLength \in [Worker -> Nat] /\ began \in [Worker -> Nat]
      /\ scan.least \in Worker /\ scan.seen \in Nat
      /\ scan.pc = "compare" => scan.idx \in Worker
  BY ScanFacts
<1>2. \A v \in Worker : queueLength'[v] <= began[v]
  BY <1>1 DEF Walk
<1>3. \A v \in Worker :
        v < scan.idx \/ scan.pc = "chosen" => queueLength'[scan.least] <= began[v]
  BY <1>1 DEF Walk
<1>4. scan.pc = "compare" => queueLength'[scan.loaded] <= scan.seen
  BY <1>1 DEF Walk
<1> QED
  BY <1>2, <1>3, <1>4 DEF Walk

LEMMA ScanLoopWalk ==
  ASSUME IInv, Walk, ScanLoop
  PROVE  Walk'
<1>1. /\ scan.pc = "loop" /\ UNCHANGED << began, queueLength >>
      /\ scan' = [scan EXCEPT !.pc =
           IF scan.idx < NumWorkers /\ queueLength[scan.least] > 0
           THEN "load" ELSE "chosen"]
  BY DEF ScanLoop
<1>2. /\ queueLength \in [Worker -> Nat] /\ began \in [Worker -> Nat]
      /\ scan.least \in Worker /\ scan.idx \in 1 .. NumWorkers
      /\ \A v \in Worker : v \in Nat /\ v < NumWorkers
      /\ scan \in ScanRecord
  BY ScanFacts DEF IInv, TypeInv
<1>3. /\ scan'.least = scan.least /\ scan'.idx = scan.idx
      /\ scan'.pc \in {"load", "chosen"}
      /\ scan'.pc = "chosen" => scan.idx = NumWorkers \/ queueLength[scan.least] = 0
  <2>1. /\ scan'.least = scan.least /\ scan'.idx = scan.idx
        /\ scan'.pc = IF scan.idx < NumWorkers /\ queueLength[scan.least] > 0
                      THEN "load" ELSE "chosen"
    BY <1>1, <1>2 DEF ScanRecord
  <2>2. queueLength[scan.least] \in Nat
    BY <1>2
  <2>3. CASE scan.idx < NumWorkers /\ queueLength[scan.least] > 0
    BY <2>1, <2>3
  <2>4. CASE ~ (scan.idx < NumWorkers /\ queueLength[scan.least] > 0)
    BY <2>1, <2>2, <2>4, <1>2, ServerAssumption
  <2> QED
    BY <2>3, <2>4
<1>4. /\ \A v \in Worker : queueLength[v] <= began[v]
      /\ \A v \in Worker : v < scan.idx => queueLength[scan.least] <= began[v]
  BY <1>1 DEF Walk
<1>5. scan'.pc = "chosen" => \A v \in Worker : queueLength[scan.least] <= began[v]
  BY <1>2, <1>3, <1>4
<1> QED
  BY <1>1, <1>3, <1>4, <1>5 DEF Walk

LEMMA ScanLoadWalk ==
  ASSUME IInv, Walk, ScanLoad
  PROVE  Walk'
<1>1. scan.pc = "load" /\ UNCHANGED << began, queueLength >>
  BY DEF ScanLoad
<1>2. PICK i \in {scan.idx, scan.least} :
        scan' = [scan EXCEPT !.pc = "compare", !.loaded = i,
                             !.seen = queueLength[i]]
  BY DEF ScanLoad
<1>3. /\ queueLength \in [Worker -> Nat]
      /\ scan.least \in Worker /\ scan.idx \in Worker
      /\ scan \in ScanRecord
  BY <1>1, ScanFacts DEF IInv, TypeInv
<1>4. /\ scan'.pc = "compare" /\ scan'.least = scan.least /\ scan'.idx = scan.idx
      /\ scan'.loaded = i /\ scan'.seen = queueLength[i]
  BY <1>2, <1>3 DEF ScanRecord
<1>5. /\ \A v \in Worker : queueLength[v] <= began[v]
      /\ \A v \in Worker : v < scan.idx => queueLength[scan.least] <= began[v]
  BY <1>1 DEF Walk
<1>6. i \in Worker /\ queueLength[i] \in Nat
  BY <1>2, <1>3
<1> QED
  BY <1>1, <1>2, <1>4, <1>5, <1>6 DEF Walk

LEMMA ScanCompareWalk ==
  ASSUME IInv, Walk, ScanCompare
  PROVE  Walk'
<1> DEFINE Length(i) == IF i = scan.loaded THEN scan.seen ELSE queueLength[i]
           a == Length(scan.idx)
           b == Length(scan.least)
           m == IF a < b THEN scan.idx ELSE scan.least
<1>1. /\ scan.pc = "compare" /\ UNCHANGED << began, queueLength >>
      /\ scan' = [NoScan EXCEPT !.pc = "loop", !.idx = scan.idx + 1, !.least = m]
  BY DEF ScanCompare
<1>2. /\ queueLength \in [Worker -> Nat] /\ began \in [Worker -> Nat]
      /\ scan.least \in Worker /\ scan.idx \in Worker /\ scan.seen \in Nat
      /\ scan.idx \in Nat
      /\ \A v \in Worker : v \in Nat
  BY <1>1, ScanFacts
<1>3. /\ \A v \in Worker : queueLength[v] <= began[v]
      /\ \A v \in Worker : v < scan.idx => queueLength[scan.least] <= began[v]
      /\ scan.loaded \in {scan.idx, scan.least}
      /\ queueLength[scan.loaded] <= scan.seen
      /\ scan.seen <= began[scan.loaded]
      /\ scan.loaded = scan.least =>
           \A v \in Worker : v < scan.idx => scan.seen <= began[v]
  BY <1>1 DEF Walk
<1>4. /\ a \in Nat /\ queueLength[scan.idx] <= a /\ a <= began[scan.idx]
      /\ b \in Nat /\ queueLength[scan.least] <= b
      /\ \A v \in Worker : v < scan.idx => b <= began[v]
  BY <1>2, <1>3
<1> HIDE DEF a, b
<1>5. m \in Worker /\ \A v \in Worker : v < scan.idx + 1 => queueLength[m] <= began[v]
  <2>1. CASE a < b
    <3>1. m = scan.idx
      BY <2>1
    <3>2. ASSUME NEW v \in Worker, v < scan.idx + 1
          PROVE  queueLength[scan.idx] <= began[v]
      <4>1. v < scan.idx \/ v = scan.idx
        BY <1>2, <3>2
      <4> QED
        BY <4>1, <1>2, <1>4, <2>1
    <3> QED
      BY <3>1, <3>2, <1>2
  <2>2. CASE ~ (a < b)
    <3>1. m = scan.least
      BY <2>2
    <3>2. ASSUME NEW v \in Worker, v < scan.idx + 1
          PROVE  queueLength[scan.least] <= began[v]
      <4>1. v < scan.idx \/ v = scan.idx
        BY <1>2, <3>2
      <4> QED
        BY <4>1, <1>2, <1>4, <2>2
    <3> QED
      BY <3>1, <3>2, <1>2
  <2> QED
    BY <2>1, <2>2
<1> HIDE DEF m
<1>6. scan'.pc = "loop" /\ scan'.idx = scan.idx + 1 /\ scan'.least = m
  BY <1>1 DEF NoScan
<1> QED
  BY <1>1, <1>3, <1>5, <1>6 DEF Walk

\* The walk begins, at the lengths of now, or there is none.
LEMMA DoAcceptWalk ==
  ASSUME IInv, scan.pc = "none", DoAccept, UNCHANGED queueLength
  PROVE  Walk'
<1>1. CASE scan' = scan
  BY <1>1 DEF Walk
<1>2. CASE /\ scan'.pc = "loop" /\ scan'.idx = 1 /\ scan'.least = 0
           /\ \A w \in Worker : began'[w] = Cardinality(Live(w))
  <2>1. \A w \in Worker : queueLength[w] \in Nat /\ queueLength[w] = began'[w]
    BY <1>2 DEF IInv, TypeInv, QueueLengths
  <2>2. \A w \in Worker : w < 1 => w = 0
    BY ServerAssumption DEF Worker
  <2> QED
    BY <1>2, <2>1, <2>2 DEF Walk
<1> QED
  BY <1>1, <1>2, DoAcceptFacts DEF IInv

\* A step that leaves the walk alone lets no length grow, and does not construct
\* a connection.
LEMMA OtherSteps ==
  ASSUME IInv, Walk, [Next]_crowVars, IInv'
  PROVE  \/ ScanLoop \/ ScanLoad \/ ScanCompare
         \/ scan.pc = "none" /\ DoAccept /\ UNCHANGED queueLength
         \/ \E c \in Conn : Construct(c)
         \/ /\ UNCHANGED << scan, began >>
            /\ scan.pc # "none" =>
                 \A v \in Worker : queueLength'[v] <= queueLength[v]
<1>0. queueLength \in [Worker -> Nat] /\ queueLength' \in [Worker -> Nat]
  BY DEF IInv, TypeInv
<1>1. ASSUME NEW w \in Worker, Thread(w)
      PROVE  /\ UNCHANGED << scan, began >>
             /\ scan.pc # "none" =>
                  \A v \in Worker : queueLength'[v] <= queueLength[v]
  <2>1. CASE WorkerReady(w)
    <3>1. UNCHANGED << scan, began >> /\ thread[w] = "new"
      BY <2>1 DEF WorkerReady, acceptVars
    <3>2. scan.pc = "none"
      BY <3>1 DEF IInv, Order
    <3> QED
      BY <3>1, <3>2
  <2>2. CASE \/ WorkerExits(w) \/ Start(w) \/ Answer(w) \/ ReadMore(w)
             \/ ReadStale(w) \/ HandleTick(w)
    <3>1. UNCHANGED << scan, began, queueLength >>
      BY <2>2 DEF WorkerExits, Start, Answer, ReadMore, ReadStale, HandleTick,
         serverVars, acceptVars
    <3> QED
      BY <3>1, <1>0
  <2>3. CASE ReadLast(w) \/ Aborted(w)
    <3>1. UNCHANGED << scan, began >> /\ Release(w, Current(w))
      BY <2>3 DEF ReadLast, Aborted, acceptVars
    <3>2. \/ UNCHANGED queueLength
          \/ queueLength' = [queueLength EXCEPT ![w] = @ - 1]
      BY <3>1 DEF Release
    <3> QED
      BY <3>1, <3>2, <1>0
  <2> QED
    BY <1>1, <2>1, <2>2, <2>3 DEF Thread, Handler
<1>2. CASE LetGo
  BY <1>2 DEF LetGo
<1>3. CASE FirstAccept
  <2>1. main = "starting" /\ DoAccept /\ UNCHANGED queueLength
    BY <1>3 DEF FirstAccept
  <2> QED
    BY <2>1 DEF IInv, Order
<1>4. ASSUME NEW c \in Conn, Accepted(c) \/ AcceptFails(c)
      PROVE  scan.pc = "none" /\ DoAccept /\ UNCHANGED queueLength
  BY <1>4 DEF Accepted, AcceptFails, Accepting
<1>5. ASSUME \/ \E c \in Conn : Arrive(c)
             \/ StopSignal \/ RunReturns \/ Pass \/ UNCHANGED crowVars
      PROVE  UNCHANGED << scan, began, queueLength >>
  BY <1>5 DEF Arrive, StopSignal, RunReturns, Pass, crowVars, serverVars, acceptVars
<1>6. CASE UNCHANGED << scan, began, queueLength >>
  BY <1>6, <1>0
<1> QED
  BY <1>1, <1>2, <1>3, <1>4, <1>5, <1>6 DEF Next, Acceptor

LEMMA NextWalk == IInv /\ Walk /\ [Next]_crowVars => Walk'
<1> SUFFICES ASSUME IInv, Walk, [Next]_crowVars
             PROVE  Walk'
  OBVIOUS
<1>1. IInv'
  BY NextIInv
<1>2. CASE ScanLoop \/ ScanLoad \/ ScanCompare
  BY <1>2, ScanLoopWalk, ScanLoadWalk, ScanCompareWalk
<1>3. CASE scan.pc = "none" /\ DoAccept /\ UNCHANGED queueLength
  BY <1>3, DoAcceptWalk
<1>4. CASE \E c \in Conn : Construct(c)
  BY <1>4 DEF Construct, NoScan, Walk
<1>5. CASE /\ UNCHANGED << scan, began >>
           /\ scan.pc # "none" =>
                \A v \in Worker : queueLength'[v] <= queueLength[v]
  <2>1. queueLength' \in [Worker -> Nat]
    BY <1>1 DEF IInv, TypeInv
  <2>2. CASE scan.pc = "none"
    BY <2>2, <1>5 DEF Walk
  <2> QED
    BY <2>1, <2>2, <1>5, ShrinkWalk
<1> QED
  BY <1>1, <1>2, <1>3, <1>4, <1>5, OtherSteps

\* Only the accepting thread constructs a connection.
LEMMA Constructs ==
  ASSUME IInv, [Next]_crowVars,
         NEW c \in Conn, conn[c] = "unused", conn'[c] = "accepting"
  PROVE  Construct(c)
<1>1. conn \in [Conn -> ConnState]
  BY DEF IInv, TypeInv
<1>2. CASE UNCHANGED conn
  BY <1>2
<1>3. ASSUME NEW w \in Worker, Thread(w)
      PROVE  FALSE
  <2>1. CASE \/ WorkerReady(w) \/ WorkerExits(w) \/ ReadStale(w) \/ Answer(w)
    BY <2>1 DEF WorkerReady, WorkerExits, ReadStale, Answer, connVars
  <2>2. CASE Start(w) \/ ReadMore(w)
    BY <2>2, <1>1 DEF Start, ReadMore, DoRead
  <2>3. CASE ReadLast(w) \/ Aborted(w)
    BY <2>3, <1>1 DEF ReadLast, Aborted, Release
  <2>4. CASE HandleTick(w)
    BY <2>4 DEF HandleTick
  <2> QED
    BY <1>3, <2>1, <2>2, <2>3, <2>4 DEF Thread, Handler
<1>4. CASE LetGo
  BY <1>4, <1>1 DEF LetGo
<1>5. ASSUME NEW d \in Conn, Accepted(d) \/ AcceptFails(d) \/ Arrive(d)
      PROVE  FALSE
  BY <1>5, <1>1 DEF Accepted, AcceptFails, Arrive
<1>6. CASE \/ FirstAccept \/ StopSignal \/ RunReturns \/ Pass \/ UNCHANGED crowVars
           \/ ScanLoop \/ ScanLoad \/ ScanCompare
  BY <1>6 DEF FirstAccept, StopSignal, RunReturns, Pass, ScanLoop, ScanLoad,
     ScanCompare, crowVars, connVars
<1>7. ASSUME NEW d \in Conn, Construct(d)
      PROVE  d = c
  BY <1>7, <1>1 DEF Construct
<1> QED
  BY <1>3, <1>4, <1>5, <1>6, <1>7 DEF Next, Acceptor

LEMMA DealtOutStep ==
  ASSUME IInv, Threads, Walk, [Next]_crowVars,
         NEW c \in Conn, conn[c] = "unused", conn'[c] = "accepting"
  PROVE  /\ thread[worker'[c]] \in {"running", "writing"}
         /\ \A w \in Worker : Cardinality(Live(worker'[c])) <= began[w]
<1>1. /\ scan.pc = "chosen"
      /\ worker' = [worker EXCEPT ![c] = scan.least]
  BY Constructs DEF Construct
<1>2. worker'[c] = scan.least /\ scan.least \in Worker
  BY <1>1, ScanFacts DEF IInv, TypeInv
<1>3. \A w \in Worker : Cardinality(Live(scan.least)) <= began[w]
  BY <1>1, <1>2 DEF Walk, IInv, QueueLengths
<1>4. thread[scan.least] \in {"running", "writing"}
  <2>1. main = "accepting" /\ thread[scan.least] # "new"
    BY <1>1, <1>2 DEF IInv, Order
  <2>2. thread[scan.least] # "exited"
    BY <2>1, <1>2 DEF Threads
  <2> QED
    BY <2>1, <2>2, <1>2 DEF IInv, TypeInv
<1> QED
  BY <1>2, <1>3, <1>4

-----------------------------------------------------------------------------
(* The theorems.                                                           *)

\* Crow's variables keep their types; in particular no queue length drops
\* below 0, whatever mix of requests, deadlines and failed accepts there was.
THEOREM TypeCorrect == Spec => []TypeOK
<1>1. IInv => TypeOK
  BY TypeInvImpliesTypeOK DEF IInv
<1> QED
  BY <1>1, Invariance, PTL

\* task_timer and Connection: for any number of workers and connections, every
\* pending deadline is held under the id that its own connection will cancel,
\* though the ids start again whenever a timer runs empty.
THEOREM DeadlinesAreOwn == Spec => []OwnDeadline
<1>1. IInv => OwnDeadline
  BY DEF IInv
<1> QED
  BY <1>1, Invariance, PTL

\* Server::do_accept, Connection and ~Connection: the lengths by which the
\* acceptor chooses a worker are the numbers of its connection objects.
THEOREM LengthsAreExact == Spec => []QueueLengths
<1>1. IInv => QueueLengths
  BY DEF IInv
<1> QED
  BY <1>1, Invariance, PTL

\* Server::do_accept and pick_io_context_idx: for any number of workers, and
\* however they end connections while the acceptor reads their queue lengths
\* one after the other, a connection is constructed only for a worker whose
\* thread runs and that has no more connections, at that moment, than any worker
\* had when the walk began.
THEOREM ConnectionsAreDealtOut == Spec => DealtOut
<1> DEFINE Step ==
             \A c \in Conn : conn[c] = "unused" /\ conn'[c] = "accepting" =>
               /\ thread[worker'[c]] \in {"running", "writing"}
               /\ \A w \in Worker : Cardinality(Live(worker'[c])) <= began[w]
<1>1. Init => Threads /\ Walk
  BY DEF Init, Threads, Walk, NoScan
<1>2. IInv /\ Threads /\ Walk /\ [Next]_crowVars => [Step]_crowVars
  BY DealtOutStep
<1> QED
  BY <1>1, <1>2, NextThreads, NextWalk, Invariance, PTL DEF Spec, DealtOut

===============================================================================
