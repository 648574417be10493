----------------------------- MODULE CrowServer -----------------------------
(***************************************************************************)
(* Crow's Server and its Connections: one thread accepts connections and   *)
(* deals them out to the workers by the lengths of their queues; a worker  *)
(* runs its io_context, whose handlers start connections, read requests,   *)
(* answer them and, at every tick, close those whose deadline is over; a   *)
(* signal stops everything.                                                *)
(*                                                                         *)
(* A handler runs from start to end on its worker's thread and is one step,*)
(* or two when the writing of an answer has to wait for its client.  The   *)
(* acceptor's walk over the queue lengths takes a step for each length it  *)
(* reads.  The io_context is a queue of completed events (AsioScheduler and*)
(* AsioTimers say why that is sound): an event is a connection handed over *)
(* ("start"), data or an end of file at a socket that waits for it ("io"), *)
(* a read that has found them at once ("read"), a read ended by the closing*)
(* of its socket ("aborted"), and the tick.  The handler that runs stays at*)
(* the head of its queue until it ends.                                    *)
(***************************************************************************)
EXTENDS CrowTimer, Sequences, FiniteSets

CONSTANTS
  NumWorkers,  \* io_contexts of the pool: concurrency_ - 1
  NumConns,    \* bound: connection objects
  Talkers,     \* bound: connections whose clients send anything, or hang up
  MaxReads     \* bound: reads after which the connection reads again

Worker == 0 .. NumWorkers - 1

\* The connection objects in the order of their construction.
Conn == 1 .. NumConns

NoConn == 0

ASSUME ServerAssumption ==
  /\ NumWorkers \in Nat \ {0}
  /\ NumConns \in Nat \ {0}
  /\ Talkers \subseteq Conn
  /\ MaxReads \in Nat

VARIABLES
  main,         \* run() and stop(): "starting", "accepting", "stopped",
                \* "returned"
  scan,         \* the locals of pick_io_context_idx
  holding,      \* the connection whose accept handler has not ended
  thread,       \* thread[w]: "new", "running", "writing" (an answer that the
                \* client does not take), "exited"
  stopped,      \* the io_contexts whose stop() has been called
  queueLength,  \* task_queue_length_pool_
  timer,        \* task_timer_pool_
  runq,         \* runq[w]: completed events the io_context has yet to run
  conn,         \* conn[c]: where the connection object is in its life
  worker,       \* worker[c]: the io_context of its socket
  taskId,       \* taskId[c]: task_id_, the last deadline it scheduled
  reads,        \* reads so far after which their connections read again
  robbed,       \* auxiliary: connections whose deadline another one cancelled
  began         \* auxiliary: the connections of each worker at the beginning
                \* of the walk

acceptVars == << main, scan, holding, began >>
connVars   == << conn, worker, taskId, reads, robbed >>
serverVars == << acceptVars, thread, stopped, queueLength >>
crowVars   == << serverVars, timer, runq, connVars >>

Event == [kind : {"start", "io", "read", "aborted"}, conn : Conn]
         \cup [kind : {"tick"}, conn : {NoConn}]

Tick == [kind |-> "tick", conn |-> NoConn]

Ev(kind, c) == [kind |-> kind, conn |-> c]

NoScan == [pc |-> "none", idx |-> 1, least |-> 0, loaded |-> 0, seen |-> 0]

Init ==
  /\ main = "starting" /\ holding = NoConn
  /\ scan = NoScan /\ began = [w \in Worker |-> 0]
  /\ thread = [w \in Worker |-> "new"]
  /\ stopped = {}
  /\ queueLength = [w \in Worker |-> 0]
  /\ timer = [w \in Worker |-> NewTimer]
  /\ runq = [w \in Worker |-> << >>]
  /\ conn = [c \in Conn |-> "unused"]
  /\ worker = [c \in Conn |-> 0]
  /\ taskId = [c \in Conn |-> 0]
  /\ reads = 0
  /\ robbed = {}

-----------------------------------------------------------------------------
\* The accepting thread.

\* A worker's thread: its task_timer begins to tick, its queue length is set
\* to 0, and init_count counts it.
WorkerReady(w) ==
  /\ thread[w] = "new"
  /\ thread' = [thread EXCEPT ![w] = "running"]
  /\ timer' = [timer EXCEPT ![w] = NewTimer]
  /\ queueLength' = [queueLength EXCEPT ![w] = 0]
  /\ UNCHANGED << acceptVars, stopped, runq, connVars >>

\* The connection objects that a worker has.
Live(w) == { c \in Conn : conn[c] \notin {"unused", "gone"} /\ worker[c] = w }

\* do_accept: pick_io_context_idx walks over the queues for a short one.  (With
\* all its connection objects used, the model accepts no more.)
DoAccept ==
  IF \E c \in Conn : conn[c] = "unused"
  THEN /\ scan' = [NoScan EXCEPT !.pc = "loop"]
       /\ began' = [w \in Worker |-> Cardinality(Live(w))]
  ELSE UNCHANGED << scan, began >>

\* Mutant: run() does not wait for init_count.
FirstAcceptEarly ==
  /\ main = "starting"
  /\ main' = "accepting"
  /\ DoAccept
  /\ UNCHANGED << holding, thread, stopped, queueLength, timer, runq, connVars >>

\* run() waits until every worker is ready.
FirstAccept ==
  /\ main = "starting"
  /\ \A w \in Worker : thread[w] # "new"
  /\ main' = "accepting"
  /\ DoAccept
  /\ UNCHANGED << holding, thread, stopped, queueLength, timer, runq, connVars >>

\* Mutant: the last queue is never looked at.
ScanLoopMissesLast ==
  /\ scan.pc = "loop"
  /\ scan' = [scan EXCEPT !.pc =
       IF scan.idx < NumWorkers - 1 /\ queueLength[scan.least] > 0
       THEN "load" ELSE "chosen"]
  /\ UNCHANGED << main, holding, began, thread, stopped, queueLength, timer, runq,
                  connVars >>

\* The condition of the loop: an empty queue is not exchanged for another.
ScanLoop ==
  /\ scan.pc = "loop"
  /\ scan' = [scan EXCEPT !.pc =
       IF scan.idx < NumWorkers /\ queueLength[scan.least] > 0
       THEN "load" ELSE "chosen"]
  /\ UNCHANGED << main, holding, began, thread, stopped, queueLength, timer, runq,
                  connVars >>

\* The lengths of two queues are compared; either may be read first.
ScanLoad ==
  /\ scan.pc = "load"
  /\ \E i \in {scan.idx, scan.least} :
       scan' = [scan EXCEPT !.pc = "compare", !.loaded = i,
                            !.seen = queueLength[i]]
  /\ UNCHANGED << main, holding, began, thread, stopped, queueLength, timer, runq,
                  connVars >>

ScanCompare ==
  LET Length(i) == IF i = scan.loaded THEN scan.seen ELSE queueLength[i]
      shorter == IF Length(scan.idx) < Length(scan.least) THEN scan.idx
                 ELSE scan.least
  IN  /\ scan.pc = "compare"
      /\ scan' = [NoScan EXCEPT !.pc = "loop", !.idx = scan.idx + 1,
                                !.least = shorter]
      /\ UNCHANGED << main, holding, began, thread, stopped, queueLength, timer,
                      runq, connVars >>

\* The connection that the next client will get counts as one of its worker's
\* from its construction on.
Construct(c) ==
  /\ scan.pc = "chosen"
  /\ conn[c] = "unused" /\ \A d \in 1 .. c - 1 : conn[d] # "unused"
  /\ conn' = [conn EXCEPT ![c] = "accepting"]
  /\ worker' = [worker EXCEPT ![c] = scan.least]
  /\ queueLength' = [queueLength EXCEPT ![scan.least] = @ + 1]
  /\ scan' = NoScan /\ began' = [w \in Worker |-> 0]
  /\ UNCHANGED << main, holding, thread, stopped, timer, runq, taskId, reads,
                  robbed >>

\* The last reference to the connection goes, and the count with it, unless
\* its accept handler still has one.
Release(w, c) ==
  IF holding = c
  THEN conn' = [conn EXCEPT ![c] = "held"] /\ UNCHANGED queueLength
  ELSE /\ conn' = [conn EXCEPT ![c] = "gone"]
       /\ queueLength' = [queueLength EXCEPT ![w] = @ - 1]

\* The accept handler ends and drops its reference.
LetGo ==
  /\ scan.pc = "none" /\ holding # NoConn
  /\ holding' = NoConn
  /\ IF conn[holding] = "held"
     THEN /\ conn' = [conn EXCEPT ![holding] = "gone"]
          /\ queueLength' = [queueLength EXCEPT ![worker[holding]] = @ - 1]
     ELSE UNCHANGED << conn, queueLength >>
  /\ UNCHANGED << main, scan, began, thread, stopped, timer, runq, worker, taskId,
                  reads, robbed >>

\* No handler of the accepting io_context runs.
Accepting == main = "accepting" /\ scan.pc = "none" /\ holding = NoConn

\* A client connects: the connection is posted to its worker.
Accepted(c) ==
  /\ Accepting
  /\ conn[c] = "accepting"
  /\ holding' = c
  /\ conn' = [conn EXCEPT ![c] = "posted"]
  /\ runq' = [runq EXCEPT ![worker[c]] = Append(@, Ev("start", c))]
  /\ DoAccept
  /\ UNCHANGED << main, thread, stopped, queueLength, timer, worker, taskId, reads,
                  robbed >>

\* accept() fails: the handler has the only reference to the connection.
AcceptFails(c) ==
  /\ Accepting
  /\ conn[c] = "accepting"
  /\ holding' = c
  /\ conn' = [conn EXCEPT ![c] = "held"]
  /\ DoAccept
  /\ UNCHANGED << main, thread, stopped, queueLength, timer, runq, worker, taskId,
                  reads, robbed >>

\* Mutant: stop() closes the acceptor only.
StopSignalHalf ==
  /\ Accepting
  /\ main' = "stopped"
  /\ UNCHANGED << scan, holding, began, thread, stopped, queueLength, timer, runq,
                  connVars >>

\* stop(), from a signal: no more do_accept, the acceptor is closed, every
\* io_context is stopped.  It stops them one after the other, which nothing
\* can tell apart: the workers share only the queue lengths with each other,
\* and nobody reads those any more.
StopSignal ==
  /\ Accepting
  /\ main' = "stopped"
  /\ stopped' = Worker
  /\ UNCHANGED << scan, holding, began, thread, queueLength, timer, runq, connVars >>

\* The end of run(): the futures wait for their threads.
RunReturns ==
  /\ main = "stopped"
  /\ \A w \in Worker : thread[w] = "exited"
  /\ main' = "returned"
  /\ UNCHANGED << scan, holding, began, thread, stopped, queueLength, timer, runq,
                  connVars >>

\* A stopped io_context runs no further handler; once the one that runs has
\* ended, the thread ends and takes the task_timer on its stack with it.
WorkerExits(w) ==
  /\ thread[w] = "running" /\ w \in stopped
  /\ thread' = [thread EXCEPT ![w] = "exited"]
  /\ timer' = [timer EXCEPT ![w] = NewTimer]
  /\ UNCHANGED << acceptVars, stopped, queueLength, runq, connVars >>

-----------------------------------------------------------------------------
\* The handlers of worker w.

\* The connections whose pending deadline is cancelled with id.
Owners(w, id) ==
  { timer[w].tasks[i].conn : i \in DOMAIN timer[w].tasks \cap {id} }

\* start_deadline
StartDeadline(w, c) ==
  LET scheduled == Schedule(Cancel(timer[w], taskId[c]), c)
  IN  /\ timer' = [timer EXCEPT ![w] = scheduled]
      /\ taskId' = [taskId EXCEPT ![c] = scheduled.highest]
      /\ robbed' = robbed \cup (Owners(w, taskId[c]) \ {c})

\* cancel_deadline_timer: task_id_ stays as it is.
CancelDeadline(w, c) ==
  /\ timer' = [timer EXCEPT ![w] = Cancel(@, taskId[c])]
  /\ robbed' = robbed \cup (Owners(w, taskId[c]) \ {c})
  /\ UNCHANGED taskId

\* The connection at the head of the queue of w, whose handler it runs next.
Current(w) == Head(runq[w]).conn

Runs(w, kind) ==
  /\ thread[w] = "running" /\ w \notin stopped
  /\ runq[w] # << >>
  /\ Head(runq[w]).kind = kind

Popped(w) == runq' = [runq EXCEPT ![w] = Tail(@)]

\* do_read, as the last thing of a handler: the read waits, or finds data or
\* the end of the stream at once and has completed.
DoRead(w, c) ==
  \/ conn' = [conn EXCEPT ![c] = "reading"] /\ Popped(w)
  \/ /\ c \in Talkers
     /\ conn' = [conn EXCEPT ![c] = "read"]
     /\ runq' = [runq EXCEPT ![w] = Append(Tail(@), Ev("read", c))]

\* Connection::start
Start(w) ==
  /\ Runs(w, "start")
  /\ StartDeadline(w, Current(w))
  /\ DoRead(w, Current(w))
  /\ UNCHANGED << serverVars, worker, reads >>

\* The read handler runs, of a read without an error.
HasRead(w) ==
  \/ Runs(w, "io") /\ conn[Current(w)] = "ready"
  \/ Runs(w, "read") /\ conn[Current(w)] = "read"

\* It answers a request: handle() cancels the deadline, and the answer is
\* written in a call that returns when the client has taken it.
Answer(w) ==
  /\ HasRead(w)
  /\ CancelDeadline(w, Current(w))
  /\ thread' = [thread EXCEPT ![w] = "writing"]
  /\ UNCHANGED << acceptVars, stopped, queueLength, runq, conn, worker, reads >>

\* The read handler goes on, or goes on to its end after its answers.
ReadEnds(w) ==
  /\ HasRead(w) \/ thread[w] = "writing"
  /\ thread' = [thread EXCEPT ![w] = "running"]

\* Mutant: the connection is done with and its count stays.
ReadLastKeepsCount(w) ==
  /\ ReadEnds(w)
  /\ CancelDeadline(w, Current(w))
  /\ conn' = [conn EXCEPT ![Current(w)] = "gone"]
  /\ Popped(w)
  /\ UNCHANGED << acceptVars, stopped, queueLength, worker, reads >>

\* The read handler found a part of a request, or requests that it answered
\* and that keep the connection alive: the next read, under a new deadline.
ReadMore(w) ==
  /\ ReadEnds(w)
  /\ reads < MaxReads /\ reads' = reads + 1
  /\ StartDeadline(w, Current(w))
  /\ DoRead(w, Current(w))
  /\ UNCHANGED << acceptVars, stopped, queueLength, worker >>

\* It found the end of the stream, bytes that are no request, a request no
\* route takes, one answered that closes the connection, or handle() threw
\* and the worker's loop caught it: the deadline is cancelled, nothing reads.
ReadLast(w) ==
  /\ ReadEnds(w)
  /\ CancelDeadline(w, Current(w))
  /\ Release(w, Current(w))
  /\ Popped(w)
  /\ UNCHANGED << acceptVars, stopped, worker, reads >>

\* The event of a socket that its deadline has closed since: there is no read
\* any more that it could complete.
ReadStale(w) ==
  /\ Runs(w, "io")
  /\ conn[Current(w)] # "ready"
  /\ Popped(w)
  /\ UNCHANGED << serverVars, timer, connVars >>

\* The read handler after its deadline has closed the socket, with
\* operation_aborted, or with what the read had found before; that may still
\* be a request, which is handled, and its answer goes nowhere.
Aborted(w) ==
  /\ \/ Runs(w, "aborted")
     \/ Runs(w, "read") /\ conn[Current(w)] = "closed"
  /\ CancelDeadline(w, Current(w))
  /\ Release(w, Current(w))
  /\ Popped(w)
  /\ UNCHANGED << acceptVars, thread, stopped, worker, reads >>

\* A set of ids in ascending order: the order of a std::map.
Ascending(ids) ==
  { order \in [1 .. Cardinality(ids) -> ids] :
      \A m, n \in 1 .. Cardinality(ids) : m < n => order[m] < order[n] }

\* Mutant: the tasks that are over are erased without being called.
HandleTickCallsNone(w) ==
  /\ Runs(w, "tick")
  /\ timer' = [timer EXCEPT ![w] = ProcessTasks(@)]
  /\ Popped(w)
  /\ UNCHANGED << serverVars, connVars >>

\* tick_handler: the tasks that are over close their sockets; the reads that
\* end with that follow in the order of the ids, and those that have completed
\* before follow anyway.
HandleTick(w) ==
  LET over == Expired(timer[w])
      ConnOf(i) == timer[w].tasks[i].conn
      waiting == { i \in over : conn[ConnOf(i)] # "read" }
  IN  /\ Runs(w, "tick")
      /\ timer' = [timer EXCEPT ![w] = ProcessTasks(@)]
      /\ \E order \in Ascending(waiting) :
           runq' = [runq EXCEPT ![w] = Tail(@) \o
             [n \in 1 .. Cardinality(waiting) |-> Ev("aborted", ConnOf(order[n]))]]
      /\ conn' = [c \in Conn |-> IF \E i \in waiting : ConnOf(i) = c THEN "aborted"
                                 ELSE IF \E i \in over : ConnOf(i) = c THEN "closed"
                                 ELSE conn[c]]
      /\ UNCHANGED << serverVars, worker, taskId, reads, robbed >>

Handler(w) ==
  \/ Start(w) \/ Answer(w) \/ ReadMore(w) \/ ReadLast(w) \/ ReadStale(w)
  \/ Aborted(w) \/ HandleTick(w)

-----------------------------------------------------------------------------
\* The outside world.  What it does to an io_context that has been stopped is
\* left out: no handler ever sees it.

Served(w) == thread[w] \in {"running", "writing"} /\ w \notin stopped

\* Data, or the end of the stream, reaches a connection that reads.
Arrive(c) ==
  /\ c \in Talkers /\ conn[c] = "reading" /\ Served(worker[c])
  /\ conn' = [conn EXCEPT ![c] = "ready"]
  /\ runq' = [runq EXCEPT ![worker[c]] = Append(@, Ev("io", c))]
  /\ UNCHANGED << serverVars, timer, worker, taskId, reads, robbed >>

TickPending(w) == \E i \in 1 .. Len(runq[w]) : runq[w][i] = Tick

\* A tick goes by: every timer that waits for it is due.
Pass ==
  /\ \E w \in Worker : Served(w)
  /\ timer' = [w \in Worker |-> IF Served(w) THEN Age(timer[w]) ELSE timer[w]]
  /\ runq' = [w \in Worker |-> IF Served(w) /\ ~ TickPending(w)
                               THEN Append(runq[w], Tick) ELSE runq[w]]
  /\ UNCHANGED << serverVars, connVars >>

Thread(w) == WorkerReady(w) \/ WorkerExits(w) \/ Handler(w)

Acceptor ==
  \/ ScanLoop \/ ScanLoad \/ ScanCompare \/ LetGo
  \/ \E c \in Conn : Construct(c)

Next ==
  \/ \E w \in Worker : Thread(w)
  \/ Acceptor
  \/ FirstAccept \/ StopSignal \/ RunReturns
  \/ \E c \in Conn : Accepted(c) \/ AcceptFails(c) \/ Arrive(c)
  \/ Pass

Spec == Init /\ [][Next]_crowVars

\* The threads run, except for one that waits for a client to take its answer;
\* the clock goes on, and run() ends when it can.
Fairness ==
  /\ \A w \in Worker : WF_crowVars(thread[w] # "writing" /\ Thread(w))
  /\ WF_crowVars(Acceptor)
  /\ WF_crowVars(RunReturns)
  /\ WF_crowVars(Pass)

FairSpec == Spec /\ Fairness

-----------------------------------------------------------------------------
ConnState ==
  {"unused", "accepting", "posted", "reading", "ready", "read", "aborted",
   "closed", "held", "gone"}

Task == [conn : Conn, left : Int]

ScanRecord == [pc : {"none", "loop", "load", "compare", "chosen"},
               idx : 1 .. NumWorkers, least : Worker, loaded : 0 .. NumWorkers,
               seen : Nat]

TypeOK ==
  /\ main \in {"starting", "accepting", "stopped", "returned"}
  /\ scan \in ScanRecord /\ holding \in Conn \cup {NoConn}
  /\ began \in [Worker -> Nat]
  /\ thread \in [Worker -> {"new", "running", "writing", "exited"}]
  /\ stopped \in SUBSET Worker
  /\ queueLength \in [Worker -> Nat]
  /\ \A w \in Worker :
       /\ timer[w].highest \in Nat
       /\ DOMAIN timer[w].tasks \subseteq Nat
       /\ \A i \in DOMAIN timer[w].tasks : timer[w].tasks[i] \in Task
  /\ runq \in [Worker -> Seq(Event)]
  /\ conn \in [Conn -> ConnState]
  /\ worker \in [Conn -> Worker]
  /\ taskId \in [Conn -> Nat]
  /\ reads \in Nat
  /\ robbed \subseteq Conn

\* "A continuously increasing number to be issued to threads to identify
\* them" (task_timer), which starts again at 0 when no task is left: no two
\* tasks ever get the same id, so a pending deadline is that of a connection
\* of this worker, which reads, and under the id that connection will cancel.
OwnDeadline ==
  \A w \in Worker : \A i \in DOMAIN timer[w].tasks :
    LET c == timer[w].tasks[i].conn
    IN  /\ i \in 1 .. timer[w].highest
        /\ taskId[c] = i /\ worker[c] = w
        /\ conn[c] \in {"reading", "ready", "read"}

\* The queue lengths by which the acceptor deals out connections count the
\* connection objects of each worker, the one waiting for a client, the one
\* waiting to be started and one that only its accept handler still knows
\* included, whichever thread has dropped the last reference.
QueueLengths == \A w \in Worker : queueLength[w] = Cardinality(Live(w))

\* A connection is constructed only for a worker whose thread runs and has
\* its task_timer.  However the workers end connections while the acceptor
\* walks over the queue lengths, reading one after the other, the one it picks
\* has at that moment no more connections than any had when the walk began.
DealtOut ==
  [][\A c \in Conn : conn[c] = "unused" /\ conn'[c] = "accepting" =>
       /\ thread[worker'[c]] \in {"running", "writing"}
       /\ \A w \in Worker : Cardinality(Live(worker'[c])) <= began[w]]_crowVars

\* "Set the connection timeout in seconds" (App::timeout): a connection that
\* waits for its client has a deadline.
EveryReadTimed ==
  \A c \in Conn : conn[c] = "reading" /\ Served(worker[c]) =>
    \E i \in DOMAIN timer[worker[c]].tasks : timer[worker[c]].tasks[i].conn = c

\* A connection handed to a worker is done with at some time, however silent
\* its client, while the server runs: its deadline closes it.  That fails only
\* when another connection cancelled that deadline, or when the worker waits
\* for ever for the client of some connection to take its answer.
IdleDropped ==
  \A c \in Conn :
    conn[c] = "posted"
      ~> \/ conn[c] = "gone" \/ c \in robbed \/ main \in {"stopped", "returned"}
         \/ [](thread[worker[c]] = "writing")

\* A signal ends the program, whatever its connections are doing, with one
\* exception: a worker that waits for ever for a client to take its answer.
StopEnds ==
  main = "stopped"
    ~> main = "returned" \/ [](\E w \in Worker : thread[w] = "writing")

=============================================================================
