--------------------------- MODULE AsioScheduler ---------------------------
(***************************************************************************)
(* asio::io_context on Linux: detail::scheduler, its posix_event, and the  *)
(* part of epoll_reactor that serves sockets.  Threads in run() take       *)
(* operations from one queue; the reactor is one of these operations, so   *)
(* that one thread at a time sleeps in epoll_wait and the others on a      *)
(* condition variable.  A step is a critical section, an access to an      *)
(* atomic counter, or a system call; Crow runs one io_context per worker,  *)
(* with the accepting thread as the outsider that posts and stops.         *)
(*                                                                         *)
(* io_context() makes no use of one_thread_, task_usec_ and wait_usec_.    *)
(***************************************************************************)
EXTENDS Integers, Sequences, FiniteSets

CONSTANTS
  Runner,     \* threads in run()
  Outsider,   \* threads that post and stop from outside
  NumOps,     \* bound: handlers posted
  Sock,       \* sockets: descriptor_state objects
  Guards,     \* operations that stay outstanding, such as Crow's tick
  MaxData,    \* bound: arrivals of data at a socket
  MaxOpens,   \* bound: registrations of a socket
  None        \* no thread, no operation

ASSUME SchedulerAssumption ==
  /\ None \notin Runner \cup Outsider /\ Runner \cap Outsider = {}
  /\ IsFiniteSet(Runner) /\ IsFiniteSet(Sock)
  /\ NumOps \in Nat /\ Guards \in Nat \ {0} /\ MaxData \in Nat /\ MaxOpens \in Nat

\* Handlers in the order in which they are posted.
Op == 1 .. NumOps

Threads == Runner \cup Outsider

\* What op_queue_ holds: a handler that was posted, a descriptor with events,
\* a read that is complete, and task_operation_, the reactor.
Task == [kind |-> "task", id |-> None]
Item == [kind : {"post"}, id : Op] \cup [kind : {"desc", "read"}, id : Sock]
        \cup {Task}

Post(h) == [kind |-> "post", id |-> h]
Desc(s) == [kind |-> "desc", id |-> s]
Read(s) == [kind |-> "read", id |-> s]

VARIABLES
  lock,         \* mutex_: the thread that holds it across two steps, or None
  queue,        \* op_queue_
  interrupted,  \* task_interrupted_
  stopped,      \* stopped_
  work,         \* outstanding_work_
  bit,          \* the signalled bit of wakeup_event_
  pc,           \* where each thread is
  then,         \* where it goes on after signalling or stopping
  cur,          \* the item it runs
  block,        \* whether its epoll_wait may block
  private,      \* private_outstanding_work
  mine,         \* private_op_queue
  ops,          \* ops[h]: "new", "posted", "running", "done"
  reading,      \* reading[s]: its read is "none", "queued" in the
                \* descriptor_state, or "done" and pushed
  try,          \* try_speculative_[read_op]
  data,         \* data[s]: buffers full of data that wait to be read
  edge,         \* sockets with an event that epoll_wait has yet to return
  rearmed,      \* the same for the interrupter
  opens,        \* opens[s]: registrations so far; odd while s is open
  arrived,      \* arrivals so far
  told          \* stop() has been called

sharedVars == << queue, interrupted, stopped, work, bit >>
threadVars == << then, cur, block, private, mine >>
sockVars   == << reading, try, data, edge, opens, arrived >>
asioVars   == << lock, sharedVars, pc, threadVars, ops, sockVars, rearmed, told >>

IsNext(h) == ops[h] = "new" /\ \A g \in Op : ops[g] = "new" => h <= g

Open(s) == opens[s] % 2 = 1

\* The waiters that state_ counts: those woken stay until they have the mutex.
Waiters == { t \in Runner : pc[t] \in {"waiting", "woken"} }

Init ==
  /\ lock = None /\ queue = << Task >> /\ interrupted = TRUE
  /\ stopped = FALSE /\ work = Guards /\ bit = FALSE /\ told = FALSE
  /\ pc = [u \in Threads |-> IF u \in Runner THEN "enter" ELSE "free"]
  /\ then = [u \in Threads |-> "none"]
  /\ cur = [t \in Runner |-> Task]
  /\ block = [t \in Runner |-> FALSE]
  /\ private = [t \in Runner |-> 0]
  /\ mine = [t \in Runner |-> << >>]
  /\ ops = [h \in Op |-> "new"]
  /\ reading = [s \in Sock |-> "none"]
  /\ try = [s \in Sock |-> FALSE]
  /\ data = [s \in Sock |-> 0]
  /\ edge = {}
  /\ rearmed = TRUE
  /\ opens = [s \in Sock |-> 0]
  /\ arrived = 0

-----------------------------------------------------------------------------
\* Waking threads up.

Go(u, where) == pc' = [pc EXCEPT ![u] = where]

\* task_->interrupt(), unless the reactor will not block or has been told.
Interrupt ==
  /\ interrupted' = TRUE
  /\ rearmed' = (rearmed \/ ~ interrupted)

\* Mutant: with nobody waiting, the reactor is left asleep.
WakeOneWaiterOnly(u, where) ==
  /\ lock' = None
  /\ bit' = TRUE
  /\ IF Waiters # {}
     THEN Go(u, "signal") /\ then' = [then EXCEPT ![u] = where]
     ELSE Go(u, where) /\ UNCHANGED then
  /\ UNCHANGED << interrupted, rearmed >>

\* wake_one_thread_and_unlock: the thread signals after it has unlocked.
WakeOne(u, where) ==
  /\ lock' = None
  /\ bit' = TRUE
  /\ IF Waiters # {}
     THEN /\ Go(u, "signal") /\ then' = [then EXCEPT ![u] = where]
          /\ UNCHANGED << interrupted, rearmed >>
     ELSE Go(u, where) /\ Interrupt /\ UNCHANGED then

\* Mutant: nobody is woken.
PushSilently(u, item) ==
  /\ lock = None
  /\ queue' = Append(queue, item)
  /\ UNCHANGED << lock, bit, pc, then, interrupted, rearmed >>

\* The push of post_immediate_completion and post_deferred_completions, by a
\* handler or an outsider between two calls of its own.
Push(u, item) ==
  /\ lock = None
  /\ queue' = Append(queue, item)
  /\ WakeOne(u, pc[u])

\* pthread_cond_signal: one thread that is blocked wakes up, if there is one.
Signal(u) ==
  /\ pc[u] = "signal"
  /\ LET blocked == { t \in Runner : pc[t] = "waiting" }
     IN  IF blocked = {} THEN Go(u, then[u])
         ELSE \E t \in blocked :
                pc' = [pc EXCEPT ![u] = then[u], ![t] = "woken"]
  /\ then' = [then EXCEPT ![u] = "none"]
  /\ UNCHANGED << lock, sharedVars, cur, block, private, mine, ops,
                  sockVars, rearmed, told >>

\* pthread_cond_wait may return by itself.
Spurious(t) ==
  /\ pc[t] = "waiting"
  /\ Go(t, "woken")
  /\ UNCHANGED << lock, sharedVars, threadVars, ops, sockVars, rearmed, told >>

\* posix_event::wait after pthread_cond_wait: it has the mutex again.
Rewait(t) ==
  /\ pc[t] = "woken" /\ lock = None
  /\ IF bit THEN lock' = t /\ Go(t, "top") ELSE Go(t, "waiting") /\ UNCHANGED lock
  /\ UNCHANGED << sharedVars, threadVars, ops, sockVars, rearmed, told >>

\* Mutant: the thread in the reactor is not woken.
StopAllWaiters(u) ==
  /\ pc[u] = "stop" /\ lock = None
  /\ stopped' = TRUE
  /\ bit' = TRUE
  /\ pc' = [v \in Threads |-> IF v = u THEN then[u]
                              ELSE IF pc[v] = "waiting" THEN "woken" ELSE pc[v]]
  /\ then' = [then EXCEPT ![u] = "none"]
  /\ UNCHANGED << lock, queue, interrupted, work, cur, block, private, mine, ops, sockVars, rearmed, told >>

\* stop_all_threads, from stop().
StopAll(u) ==
  /\ pc[u] = "stop" /\ lock = None
  /\ stopped' = TRUE
  /\ bit' = TRUE
  /\ Interrupt
  /\ pc' = [v \in Threads |-> IF v = u THEN then[u]
                              ELSE IF pc[v] = "waiting" THEN "woken" ELSE pc[v]]
  /\ then' = [then EXCEPT ![u] = "none"]
  /\ UNCHANGED << lock, queue, work, cur, block, private, mine, ops,
                  sockVars, told >>

-----------------------------------------------------------------------------
\* run() and do_run_one.

Enter(t) ==
  /\ pc[t] = "enter"
  /\ IF work = 0 THEN Go(t, "stop") /\ then' = [then EXCEPT ![t] = "exited"]
                 ELSE Go(t, "relock") /\ UNCHANGED then
  /\ UNCHANGED << lock, sharedVars, cur, block, private, mine, ops,
                  sockVars, rearmed, told >>

Relock(t) ==
  /\ pc[t] = "relock" /\ lock = None
  /\ lock' = t /\ Go(t, "top")
  /\ UNCHANGED << sharedVars, threadVars, ops, sockVars, rearmed, told >>

AtTop(t) == pc[t] = "top" /\ lock = t

Exit(t) ==
  /\ AtTop(t) /\ stopped
  /\ lock' = None /\ Go(t, "exited")
  /\ UNCHANGED << sharedVars, threadVars, ops, sockVars, rearmed, told >>

\* Nothing to do: clear the event and wait for it.
Wait(t) ==
  /\ AtTop(t) /\ ~ stopped /\ queue = << >>
  /\ bit' = FALSE
  /\ lock' = None /\ Go(t, "waiting")
  /\ UNCHANGED << queue, interrupted, stopped, work, threadVars, ops, sockVars,
                  rearmed, told >>

\* The reactor is next: another thread takes what is behind it.
TakeTask(t) ==
  /\ AtTop(t) /\ ~ stopped /\ queue # << >> /\ Head(queue) = Task
  /\ LET more == Tail(queue) # << >>
     IN  /\ queue' = Tail(queue)
         /\ interrupted' = more
         /\ block' = [block EXCEPT ![t] = ~ more]
         /\ cur' = [cur EXCEPT ![t] = Task]
         /\ bit' = (bit \/ more)
         /\ IF more /\ Waiters # {}
            THEN Go(t, "signal") /\ then' = [then EXCEPT ![t] = "epoll"]
            ELSE Go(t, "epoll") /\ UNCHANGED then
  /\ lock' = None
  /\ UNCHANGED << stopped, work, private, mine, ops, sockVars, rearmed, told >>

\* A handler or a descriptor is next.  A completed operation is freed before
\* its handler is called, so that the handler can start the next read.
Take(t) ==
  /\ AtTop(t) /\ ~ stopped /\ queue # << >> /\ Head(queue) # Task
  /\ LET o == Head(queue)
         where == IF o.kind = "desc" THEN "perform" ELSE "handler"
     IN  /\ queue' = Tail(queue)
         /\ cur' = [cur EXCEPT ![t] = o]
         /\ ops' = [h \in Op |-> IF o = Post(h) THEN "running" ELSE ops[h]]
         /\ reading' = [s \in Sock |-> IF o = Read(s) THEN "none" ELSE reading[s]]
         /\ IF Tail(queue) # << >> THEN WakeOne(t, where)
            ELSE /\ lock' = None /\ Go(t, where)
                 /\ UNCHANGED << bit, interrupted, rearmed, then >>
  /\ UNCHANGED << stopped, work, block, private, mine, try, data, edge,
                  opens, arrived, told >>

\* The orders in which the kernel may report the sockets of S.
Orders(S) ==
  { order \in [1 .. Cardinality(S) -> S] :
      \A m, n \in 1 .. Cardinality(S) : order[m] = order[n] => m = n }

\* epoll_reactor::run: the events, each descriptor once.  The interrupter's
\* wakes the thread up and does nothing else.
Epoll(t) ==
  /\ pc[t] = "epoll"
  /\ ~ block[t] \/ rearmed \/ edge # {}
  /\ \E order \in Orders(edge) :
       mine' = [mine EXCEPT ![t] =
                  [n \in 1 .. Cardinality(edge) |-> Desc(order[n])]]
  /\ edge' = {}
  /\ rearmed' = FALSE
  /\ block' = [block EXCEPT ![t] = FALSE]
  /\ Go(t, "returned")
  /\ UNCHANGED << lock, sharedVars, then, cur, private, ops,
                  reading, try, data, opens, arrived, told >>

\* Mutant: the reactor goes in front of the descriptors it found.
TaskCleanupInFront(t) ==
  /\ pc[t] = "returned" /\ lock = None
  /\ interrupted' = TRUE
  /\ queue' = (queue \o << Task >>) \o mine[t]
  /\ mine' = [mine EXCEPT ![t] = << >>]
  /\ lock' = t /\ Go(t, "top")
  /\ UNCHANGED << stopped, work, bit, then, cur, block, private, ops,
                  sockVars, rearmed, told >>

\* Mutant: only a reactor that found nothing is put back.
TaskCleanupForgetful(t) ==
  /\ pc[t] = "returned" /\ lock = None
  /\ interrupted' = TRUE
  /\ queue' = IF mine[t] = << >> THEN Append(queue, Task) ELSE queue \o mine[t]
  /\ mine' = [mine EXCEPT ![t] = << >>]
  /\ lock' = t /\ Go(t, "top")
  /\ UNCHANGED << stopped, work, bit, then, cur, block, private, ops,
                  sockVars, rearmed, told >>

\* ~task_cleanup, and back to the top of the loop with the mutex.
TaskCleanup(t) ==
  /\ pc[t] = "returned" /\ lock = None
  /\ interrupted' = TRUE
  /\ queue' = (queue \o mine[t]) \o << Task >>
  /\ mine' = [mine EXCEPT ![t] = << >>]
  /\ lock' = t /\ Go(t, "top")
  /\ UNCHANGED << stopped, work, bit, then, cur, block, private, ops,
                  sockVars, rearmed, told >>

-----------------------------------------------------------------------------
\* Sockets.  op->perform() on a socket with data takes all of it, and finds
\* that this was all (done_and_exhausted), or fills its buffer (done).

Perform(s) ==
  \/ data' = [data EXCEPT ![s] = 0] /\ try' = [try EXCEPT ![s] = FALSE]
  \/ data' = [data EXCEPT ![s] = @ - 1] /\ try' = [try EXCEPT ![s] = TRUE]

\* Mutant: the read is taken to be complete at any event.
PerformIoTrusting(t) ==
  /\ pc[t] = "perform"
  /\ LET s == cur[t].id
     IN  IF reading[s] = "queued"
         THEN /\ Perform(s)
              /\ reading' = [reading EXCEPT ![s] = "none"]
              /\ cur' = [cur EXCEPT ![t] = Read(s)]
              /\ Go(t, "handler")
              /\ UNCHANGED private
         ELSE /\ try' = [try EXCEPT ![s] = TRUE]
              /\ private' = [private EXCEPT ![t] = @ + 1]
              /\ Go(t, "cleanup")
              /\ UNCHANGED << data, reading, cur >>
  /\ UNCHANGED << lock, sharedVars, then, block, mine, ops, edge, opens,
                  arrived, rearmed, told >>

\* Mutant: a descriptor without a finished read counts as finished work.
PerformIoUncounted(t) ==
  /\ pc[t] = "perform"
  /\ LET s == cur[t].id
     IN  IF reading[s] = "queued" /\ data[s] > 0
         THEN /\ Perform(s)
              /\ reading' = [reading EXCEPT ![s] = "none"]
              /\ cur' = [cur EXCEPT ![t] = Read(s)]
              /\ Go(t, "handler")
         ELSE /\ try' = [try EXCEPT ![s] = TRUE]
              /\ Go(t, "cleanup")
              /\ UNCHANGED << data, reading, cur >>
  /\ UNCHANGED << lock, sharedVars, then, block, private, mine, ops, edge,
                  opens, arrived, rearmed, told >>

\* descriptor_state::do_complete with perform_io: the read that waits gets its
\* data and its handler runs at once; with none, compensating_work_started.
PerformIo(t) ==
  /\ pc[t] = "perform"
  /\ LET s == cur[t].id
     IN  IF reading[s] = "queued" /\ data[s] > 0
         THEN /\ Perform(s)
              /\ reading' = [reading EXCEPT ![s] = "none"]
              /\ cur' = [cur EXCEPT ![t] = Read(s)]
              /\ Go(t, "handler")
              /\ UNCHANGED private
         ELSE /\ try' = [try EXCEPT ![s] = TRUE]
              /\ private' = [private EXCEPT ![t] = @ + 1]
              /\ Go(t, "cleanup")
              /\ UNCHANGED << data, reading, cur >>
  /\ UNCHANGED << lock, sharedVars, then, block, mine, ops, edge, opens,
                  arrived, rearmed, told >>

\* register_descriptor, when a connection is accepted into the socket.
Register(u, s) ==
  /\ pc[u] = "free" /\ ~ Open(s) /\ ~ stopped /\ opens[s] < 2 * MaxOpens
  /\ opens' = [opens EXCEPT ![s] = @ + 1]
  /\ try' = [try EXCEPT ![s] = TRUE]
  /\ UNCHANGED << lock, sharedVars, pc, threadVars, ops, reading, data, edge,
                  arrived, rearmed, told >>

\* Mutant: the read is queued whatever waits in the socket.
StartReadUntried(t, s) ==
  /\ pc[t] = "handler" /\ Open(s) /\ ~ stopped /\ reading[s] = "none"
  /\ work' = work + 1
  /\ reading' = [reading EXCEPT ![s] = "queued"]
  /\ UNCHANGED << lock, queue, interrupted, stopped, bit, pc, threadVars, ops,
                  try, data, edge, opens, arrived, rearmed, told >>

\* async_read_some: start_op.  Data that is there already, if it is worth
\* trying, completes the read, which is then posted.
StartRead(t, s) ==
  /\ pc[t] = "handler" /\ Open(s) /\ ~ stopped /\ reading[s] = "none"
  /\ work' = work + 1
  /\ IF try[s] /\ data[s] > 0
     THEN /\ Perform(s)
          /\ reading' = [reading EXCEPT ![s] = "done"]
          /\ Push(t, Read(s))
     ELSE /\ reading' = [reading EXCEPT ![s] = "queued"]
          /\ UNCHANGED << try, data, lock, queue, bit, pc, then, interrupted,
                          rearmed >>
  /\ UNCHANGED << stopped, cur, block, private, mine, ops, edge, opens,
                  arrived, told >>

\* close: deregister_descriptor aborts the read that waits.
Close(t, s) ==
  /\ pc[t] = "handler" /\ Open(s) /\ ~ stopped
  /\ opens' = [opens EXCEPT ![s] = @ + 1]
  /\ edge' = edge \ {s}
  /\ data' = [data EXCEPT ![s] = 0]
  /\ IF reading[s] = "queued"
     THEN reading' = [reading EXCEPT ![s] = "done"] /\ Push(t, Read(s))
     ELSE UNCHANGED << reading, lock, queue, bit, pc, then, interrupted, rearmed >>
  /\ UNCHANGED << stopped, work, cur, block, private, mine, ops, try, arrived,
                  told >>

\* Data arrives; the registration is edge-triggered.
Arrive(s) ==
  /\ Open(s) /\ arrived < MaxData /\ ~ stopped
  /\ arrived' = arrived + 1
  /\ data' = [data EXCEPT ![s] = @ + 1]
  /\ edge' = edge \cup {s}
  /\ UNCHANGED << lock, sharedVars, pc, threadVars, ops, reading, try, opens,
                  rearmed, told >>

-----------------------------------------------------------------------------
\* The other calls of handlers and of outsiders.

\* post_immediate_completion.  The count and the push that follows it are one
\* step: while Guards operations are outstanding nobody can tell them apart.
PostCall(u, h) ==
  /\ pc[u] = "free" /\ IsNext(h) /\ ~ stopped
  /\ ops' = [ops EXCEPT ![h] = "posted"]
  /\ work' = work + 1
  /\ Push(u, Post(h))
  /\ UNCHANGED << stopped, cur, block, private, mine, sockVars, told >>

\* A continuation is kept for the end of the handler.
Defer(t, h) ==
  /\ pc[t] = "handler" /\ IsNext(h) /\ ~ stopped
  /\ ops' = [ops EXCEPT ![h] = "posted"]
  /\ private' = [private EXCEPT ![t] = @ + 1]
  /\ mine' = [mine EXCEPT ![t] = Append(@, Post(h))]
  /\ UNCHANGED << lock, sharedVars, pc, then, cur, block, sockVars,
                  rearmed, told >>

\* The accepting thread stops the io_context, and posts no more.
StopCall(u) ==
  /\ u \in Outsider /\ pc[u] = "free" /\ ~ told
  /\ told' = TRUE
  /\ Go(u, "stop") /\ then' = [then EXCEPT ![u] = "exited"]
  /\ UNCHANGED << lock, sharedVars, cur, block, private, mine, ops,
                  sockVars, rearmed >>

\* Mutant: the handlers deferred are added to the work in full.
WorkCleanupAddsAll(t) ==
  /\ pc[t] \in {"handler", "cleanup"}
  /\ work' = work + private[t]
  /\ cur' = [cur EXCEPT ![t] = Task]
  /\ private' = [private EXCEPT ![t] = 0]
  /\ ops' = [h \in Op |-> IF cur[t] = Post(h) THEN "done" ELSE ops[h]]
  /\ Go(t, "flush")
  /\ UNCHANGED << lock, queue, interrupted, stopped, bit, then, block,
                  mine, sockVars, rearmed, told >>

\* The handler returns or throws; ~work_cleanup: the work that was done against the work that was added, ...
WorkCleanup(t) ==
  /\ pc[t] \in {"handler", "cleanup"}
  /\ work' = work + private[t] - 1
  /\ cur' = [cur EXCEPT ![t] = Task]
  /\ private' = [private EXCEPT ![t] = 0]
  /\ ops' = [h \in Op |-> IF cur[t] = Post(h) THEN "done" ELSE ops[h]]
  /\ IF work' = 0
     THEN Go(t, "stop") /\ then' = [then EXCEPT ![t] = "flush"]
     ELSE Go(t, "flush") /\ UNCHANGED then
  /\ UNCHANGED << lock, queue, interrupted, stopped, bit, block, mine,
                  sockVars, rearmed, told >>

\* ... and the continuations go to the queue, without a signal: the thread
\* goes on at the top of the loop, or, if the handler threw, leaves run(),
\* which Crow calls again.
Flush(t) ==
  /\ pc[t] = "flush" /\ lock = None
  /\ queue' = queue \o mine[t]
  /\ mine' = [mine EXCEPT ![t] = << >>]
  /\ \/ lock' = t /\ Go(t, "top")
     \/ Go(t, "enter") /\ UNCHANGED lock
  /\ UNCHANGED << interrupted, stopped, work, bit, then, cur, block, private, ops, sockVars, rearmed, told >>

-----------------------------------------------------------------------------
Loop(t) ==
  \/ Rewait(t) \/ Enter(t) \/ Relock(t) \/ Exit(t) \/ Wait(t) \/ TakeTask(t)
  \/ Take(t) \/ Epoll(t) \/ TaskCleanup(t) \/ PerformIo(t)
  \/ WorkCleanup(t) \/ Flush(t)

\* What a thread does by itself once it has begun it.
Ends(u) == Signal(u) \/ StopAll(u)

\* The accepting thread posts, accepts connections into sockets, and stops;
\* the handlers read and close them.  What they begin on an io_context that
\* has been stopped is left out, as is data that arrives there: nothing that
\* is pushed then is ever taken.
Next ==
  \/ \E t \in Runner :
       \/ Loop(t) \/ Spurious(t)
       \/ \E h \in Op : Defer(t, h)
       \/ \E s \in Sock : StartRead(t, s) \/ Close(t, s)
  \/ \E u \in Outsider :
       \/ StopCall(u)
       \/ \E h \in Op : PostCall(u, h)
       \/ \E s \in Sock : Register(u, s)
  \/ \E u \in Threads : Ends(u)
  \/ \E s \in Sock : Arrive(s)

Spec == Init /\ [][Next]_asioVars

\* Threads run, and handlers return.  Nothing is asked of the mutex: a thread
\* that waits for it gets it when the others have no more to do.
Fairness ==
  /\ \A t \in Runner : WF_asioVars(Loop(t) \/ Ends(t))
  /\ \A u \in Outsider : WF_asioVars(Ends(u))

FairSpec == Spec /\ Fairness

-----------------------------------------------------------------------------
TypeOK ==
  /\ lock \in Runner \cup {None}
  /\ queue \in Seq(Item)
  /\ interrupted \in BOOLEAN /\ stopped \in BOOLEAN /\ bit \in BOOLEAN
  /\ rearmed \in BOOLEAN /\ told \in BOOLEAN
  /\ work \in Nat
  /\ \A u \in Threads :
       pc[u] \in {"enter", "relock", "top", "waiting", "woken", "signal",
                  "epoll", "returned", "perform", "handler", "cleanup",
                  "flush", "stop", "exited", "free"}
  /\ cur \in [Runner -> Item]
  /\ block \in [Runner -> BOOLEAN]
  /\ private \in [Runner -> Nat]
  /\ mine \in [Runner -> Seq(Item)]
  /\ ops \in [Op -> {"new", "posted", "running", "done"}]
  /\ reading \in [Sock -> {"none", "queued", "done"}]
  /\ try \in [Sock -> BOOLEAN]
  /\ data \in [Sock -> Nat]
  /\ edge \subseteq Sock
  /\ opens \in [Sock -> Nat]

InTask(t) ==
  \/ pc[t] \in {"epoll", "returned"}
  \/ pc[t] = "signal" /\ then[t] = "epoll"

\* At most one thread runs the reactor, and it is in the queue when none does.
OneReactor ==
  LET places == { i \in 1 .. Len(queue) : queue[i] = Task }
  IN  \/ Cardinality(places) = 1 /\ \A t \in Runner : ~ InTask(t)
      \/ places = {} /\ \E t \in Runner :
                          InTask(t) /\ \A v \in Runner \ {t} : ~ InTask(v)

\* "by the time we reach this point, any previously returned descriptor
\* operations have already been dequeued" (epoll_reactor::run): an operation
\* is a link of a list and can be in one place only.
EnqueuedOnce ==
  LET places(i) ==
        ({None} \X { n \in DOMAIN queue : queue[n] = i })
        \cup UNION { {t} \X { n \in DOMAIN mine[t] : mine[t][n] = i } : t \in Runner }
  IN  \A i \in Item : Cardinality(places(i)) <= 1

\* outstanding_work_ counts the operations that have been started and have
\* not finished, less what the running handlers have yet to add.
WorkExact ==
  LET pending == { h \in Op : ops[h] \in {"posted", "running"} }
      started == { s \in Sock : reading[s] # "none" }
      reads   == { t \in Runner : /\ cur[t].kind \in {"read", "desc"}
                                  /\ \/ pc[t] \in {"handler", "cleanup"}
                                     \/ pc[t] \in {"signal", "stop"}
                                        /\ then[t] = "handler" }
      unadded == UNION { {t} \X (1 .. private[t]) : t \in Runner }
  IN  work + Cardinality(unadded) =
        Guards + Cardinality(pending) + Cardinality(started) + Cardinality(reads)

\* An io_context with work that never ends, such as Crow's with its tick,
\* stops only when it is told to.
StopsWhenTold == stopped => told

\* Asleep: nothing but another thread, or data, can get it going.
Asleep(t) ==
  \/ pc[t] = "waiting"
  \/ pc[t] = "epoll" /\ block[t] /\ ~ rearmed /\ edge = {}

\* No operation waits in the queue while a thread that could run it sleeps and
\* nobody who is not busy in a handler is about to see to it.
WorkConserving ==
  queue # << >> /\ ~ stopped =>
    \/ \A t \in Runner : ~ Asleep(t)
    \/ \E u \in Threads : ~ (u \in Runner /\ Asleep(u))
                          /\ pc[u] \notin {"handler", "free", "exited"}

\* A read that waits with data in its socket is about to get it: the one
\* event of an edge-triggered registration is never lost.
NoLostData ==
  \A s \in Sock : reading[s] = "queued" /\ data[s] > 0 =>
    \/ s \in edge
    \/ \E n \in DOMAIN queue : queue[n] = Desc(s)
    \/ \E t \in Runner : \/ \E n \in DOMAIN mine[t] : mine[t][n] = Desc(s)
                         \/ cur[t] = Desc(s) /\ pc[t] \in {"perform", "signal"}

\* What is posted is run, and a stopped io_context lets all its threads go,
\* wherever they sleep: it never happens that from some time on handlers wait
\* for good, or a thread stays in run() after the stop.
Progress ==
  []<>(IF stopped THEN \A t \in Runner : pc[t] = "exited"
       ELSE \A h \in Op : ops[h] # "posted")

=============================================================================
