----------------------------- MODULE AsioTimers -----------------------------
(***************************************************************************)
(* asio timers on Linux: deadline_timer_service over timer_queue, and the  *)
(* part of epoll_reactor that arms a timerfd for the earliest of them.     *)
(* A call that changes the queue holds the reactor's mutex, and so is one  *)
(* step.  But the mutex does not stop the clock: under it update_timeout   *)
(* reads the time in one step and arms the timerfd, for a delay from then  *)
(* on, in another.  The thread in epoll_wait sees that the timerfd is      *)
(* readable in one step and takes the mutex to look at the timers in the   *)
(* next.                                                                   *)
(***************************************************************************)
EXTENDS AsioTimerQueue, FiniteSets

CONSTANTS
  Early,    \* the waits begun before the first step: [timer, delay]
  Delays,   \* durations given to expires_after
  NumWaits, \* bound: waits begun
  MaxCalls, \* bound: calls of a user after those of Early
  Usec,     \* units of the clock per microsecond
  MaxUsec,  \* the longest sleep: five minutes
  MaxTime,  \* bound: the clock
  MaxSlip   \* bound: the time between a reading of the clock and its use

Wait == 1 .. NumWaits

\* The time of a timerfd that was never armed.
Never == MaxTime + Usec * MaxUsec + 1

Unread == -1

ASSUME TimersAssumption ==
  /\ IsFiniteSet(Timer)
  /\ Early \in Seq([timer : Timer, delay : Nat]) /\ Len(Early) <= NumWaits
  /\ \A i, j \in DOMAIN Early : Early[i].timer = Early[j].timer => i = j
  /\ Delays \subseteq Nat
  /\ NumWaits \in Nat /\ MaxCalls \in Nat /\ MaxTime \in Nat /\ MaxSlip \in Nat
  /\ Usec \in Nat \ {0} /\ MaxUsec \in Nat \ {0}

VARIABLES
  now,       \* the steady clock
  expiry,    \* expiry[t]: implementation_type::expiry
  pending,   \* pending[t]: might_have_pending_waits
  queue,     \* the timer_queue
  result,    \* result[w]: "new", "waiting", "due", "aborted"
  armed,     \* when the timerfd becomes readable
  checking,  \* epoll_wait has returned with the timerfd
  updating,  \* who holds the mutex in update_timeout: "none", "call" or "run"
  delay,     \* new_timeout of update_timeout, once the clock is read
  slip,      \* auxiliary: time gone by between that reading and the arming
  calls      \* calls made, for the bound

armVars   == << armed, updating, delay, slip >>
timerVars == << now, expiry, pending, queue, result, checking, armVars, calls >>

\* get_timeout and to_usec: the timerfd takes whole microseconds.
Timeout(q, time) ==
  LET left == q.heap[1].time - time
      usec == IF left \div Usec = 0 THEN 1
              ELSE IF left \div Usec > MaxUsec THEN MaxUsec ELSE left \div Usec
  IN  IF q.heap = << >> THEN Usec * MaxUsec
      ELSE IF left <= 0 THEN 0 ELSE Usec * usec

\* The waits of a timer end.
Ended(ws, how) ==
  [w \in Wait |-> IF \E i \in DOMAIN ws : ws[i] = w THEN how ELSE result[w]]

Of(t) == { n \in DOMAIN Early : Early[n].timer = t }

\* The waits of Early have been begun, all at time 0.
Init ==
  /\ now = 0
  /\ LET after[n \in 0 .. Len(Early)] ==
           IF n = 0 THEN EmptyQueue
           ELSE EnqueueTimer(after[n - 1], Early[n].delay, Early[n].timer, n)
     IN  queue = after[Len(Early)]
  /\ expiry = [t \in Timer |->
       IF Of(t) = {} THEN 0 ELSE Early[CHOOSE n \in Of(t) : TRUE].delay]
  /\ pending = [t \in Timer |-> Of(t) # {}]
  /\ result = [w \in Wait |-> IF w \in DOMAIN Early THEN "waiting" ELSE "new"]
  /\ armed = IF Early = << >> THEN Never ELSE Timeout(queue, 0)
  /\ checking = FALSE
  /\ updating = "none" /\ delay = Unread /\ slip = 0
  /\ calls = 0

-----------------------------------------------------------------------------
\* update_timeout, by a call or by epoll_reactor::run, in two steps.
UpdateTimeout(by) == updating' = by /\ UNCHANGED << armed, delay, slip >>

\* The clock is read.
GetTimeout ==
  /\ updating # "none" /\ delay = Unread
  /\ delay' = Timeout(queue, now)
  /\ slip' = 0
  /\ UNCHANGED << now, expiry, pending, queue, result, checking, armed, updating,
                  calls >>

\* timerfd_settime, and the mutex is released.
SetTime ==
  /\ updating # "none" /\ delay # Unread
  /\ armed' = now + delay
  /\ updating' = "none" /\ delay' = Unread
  /\ checking' = (checking /\ updating # "run")
  /\ UNCHANGED << now, expiry, pending, queue, result, slip, calls >>

\* Mutant: the timerfd is armed once, for the first timer of all.
AsyncWaitArmsFirst(t, w) ==
  /\ result[w] = "new" /\ \A v \in Wait : result[v] = "new" => w <= v
  /\ queue' = EnqueueTimer(queue, expiry[t], t, w)
  /\ pending' = [pending EXCEPT ![t] = TRUE]
  /\ result' = [result EXCEPT ![w] = "waiting"]
  /\ IF armed = Never THEN UpdateTimeout("call") ELSE UNCHANGED armVars
  /\ UNCHANGED << now, expiry, checking >>

\* async_wait: schedule_timer arms the timerfd if the wait is the earliest.
AsyncWait(t, w) ==
  /\ result[w] = "new" /\ \A v \in Wait : result[v] = "new" => w <= v
  /\ queue' = EnqueueTimer(queue, expiry[t], t, w)
  /\ pending' = [pending EXCEPT ![t] = TRUE]
  /\ result' = [result EXCEPT ![w] = "waiting"]
  /\ IF Earliest(queue', t, w) THEN UpdateTimeout("call") ELSE UNCHANGED armVars
  /\ UNCHANGED << now, expiry, checking >>

\* cancel, which is also what the destructor does; the timerfd is left as is.
Cancel(t) ==
  /\ pending[t]
  /\ queue' = CancelTimer(queue, t)
  /\ result' = Ended(queue.waits[t], "aborted")
  /\ pending' = [pending EXCEPT ![t] = FALSE]
  /\ UNCHANGED << now, expiry, armVars, checking >>

\* cancel_one
CancelOne(t) ==
  /\ pending[t]
  /\ IF queue.waits[t] = << >>
     THEN pending' = [pending EXCEPT ![t] = FALSE] /\ UNCHANGED << queue, result >>
     ELSE /\ queue' = CancelOneWait(queue, t)
          /\ result' = Ended(<< Head(queue.waits[t]) >>, "aborted")
          /\ UNCHANGED pending
  /\ UNCHANGED << now, expiry, armVars, checking >>

\* Readings of the clock that a thread may still be about to use.
Readings == { time \in 0 .. now : now <= time + MaxSlip }

\* Mutant: the waits stay, under the new time.
ExpiresAfterKeeps(t, d) ==
  /\ now + d + Usec + MaxSlip <= MaxTime
  /\ \E time \in Readings : expiry' = [expiry EXCEPT ![t] = time + d]
  /\ UNCHANGED << now, pending, queue, result, armVars, checking >>

\* expires_after: the clock is read, and then expires_at cancels the waits.
ExpiresAfter(t, d) ==
  /\ now + d + Usec + MaxSlip <= MaxTime
  /\ \E time \in Readings : expiry' = [expiry EXCEPT ![t] = time + d]
  /\ IF pending[t]
     THEN /\ queue' = CancelTimer(queue, t)
          /\ result' = Ended(queue.waits[t], "aborted")
          /\ pending' = [pending EXCEPT ![t] = FALSE]
     ELSE UNCHANGED << queue, result, pending >>
  /\ UNCHANGED << now, armVars, checking >>

-----------------------------------------------------------------------------
\* The thread in epoll_reactor::run.

\* epoll_wait: the timerfd is level-triggered.
EpollReturns ==
  /\ ~ checking /\ armed <= now
  /\ checking' = TRUE
  /\ UNCHANGED << now, expiry, pending, queue, result, armVars, calls >>

\* Mutant: the timerfd is armed again only if a timer expired.
CheckTimersLazily ==
  /\ checking /\ updating = "none"
  /\ queue' = ReadyTimers(queue, now)
  /\ result' = [w \in Wait |->
       IF \E t \in Timer : /\ queue'.waits[t] = << >>
                           /\ \E i \in DOMAIN queue.waits[t] : queue.waits[t][i] = w
       THEN "due" ELSE result[w]]
  /\ IF queue' = queue THEN checking' = FALSE /\ armed' = Never /\ UNCHANGED updating
     ELSE checking' = TRUE /\ armed' = armed /\ updating' = "run"
  /\ UNCHANGED << now, expiry, pending, delay, slip, calls >>

\* get_ready_timers, at one reading of the clock: the timers that are ready
\* end their waits.  Then the timerfd is armed again.
CheckTimers ==
  /\ checking /\ updating = "none"
  /\ queue' = ReadyTimers(queue, now)
  /\ result' = [w \in Wait |->
       IF \E t \in Timer : /\ queue'.waits[t] = << >>
                           /\ \E i \in DOMAIN queue.waits[t] : queue.waits[t][i] = w
       THEN "due" ELSE result[w]]
  /\ UpdateTimeout("run")
  /\ UNCHANGED << now, expiry, pending, checking, calls >>

\* Time goes by, under the mutex too.
Tick ==
  /\ now < MaxTime
  /\ now' = now + 1
  /\ IF delay = Unread THEN UNCHANGED slip ELSE slip < MaxSlip /\ slip' = slip + 1
  /\ UNCHANGED << expiry, pending, queue, result, checking, armed, updating, delay,
                  calls >>

Next ==
  \/ \E t \in Timer :
       /\ updating = "none"
       /\ calls < MaxCalls /\ calls' = calls + 1
       /\ \/ Cancel(t) \/ CancelOne(t)
          \/ \E w \in Wait : AsyncWait(t, w)
          \/ \E d \in Delays : ExpiresAfter(t, d)
  \/ GetTimeout \/ SetTime
  \/ EpollReturns \/ CheckTimers \/ Tick

Spec == Init /\ [][Next]_timerVars

\* A step of the thread in epoll_reactor::run, EpollReturns or CheckTimers, and
\* one in update_timeout, GetTimeout or SetTime, told by what they change: so
\* do no other steps, and one can be taken whenever its first conjuncts hold.
Reacts ==
  \/ ~ checking /\ armed <= now /\ checking' = TRUE /\ UNCHANGED updating
  \/ checking /\ updating = "none" /\ updating' = "run" /\ UNCHANGED checking

Updates == updating # "none" /\ delay' \in Unread .. Usec * MaxUsec

\* The clock goes on, a thread runs the reactor, and whoever holds the mutex
\* goes on.
FairSpec ==
  Spec /\ WF_timerVars(Tick) /\ WF_<< checking, updating >>(Reacts) /\ WF_delay(Updates)

-----------------------------------------------------------------------------
TypeOK ==
  /\ now \in 0 .. MaxTime
  /\ expiry \in [Timer -> Nat]
  /\ pending \in [Timer -> BOOLEAN]
  /\ queue.heap \in Seq([time : Nat, timer : Timer])
  /\ queue.index \in [Timer -> 0 .. Cardinality(Timer)]
  /\ queue.first \in Timer \cup {Nil}
  /\ queue.next \in [Timer -> Timer \cup {Nil}]
  /\ queue.prev \in [Timer -> Timer \cup {Nil}]
  /\ queue.waits \in [Timer -> Seq(Wait)]
  /\ result \in [Wait -> {"new", "waiting", "due", "aborted"}]
  /\ armed \in Nat
  /\ checking \in BOOLEAN
  /\ updating \in {"none", "call", "run"}
  /\ delay \in Nat \cup {Unread}
  /\ slip \in Nat
  /\ calls \in 0 .. MaxCalls

\* The queue is sound after any sequence of calls: the heap is a heap, and the
\* heap and the list hold exactly the timers that somebody waits for.
QueueSound == HeapOrdered(queue) /\ WellIndexed(queue) /\ WellLinked(queue)

\* Whatever was cancelled or set since the timerfd was armed, the reactor sleeps
\* past the earliest timer by no more than the part of a microsecond that the
\* timerfd cannot tell, and the time for which the thread that armed it last
\* was held up after it had read the clock: the delays of earlier armings do
\* not add up.
ArmedInTime ==
  queue.heap # << >> => \/ checking \/ armed <= now \/ updating # "none"
                        \/ armed < queue.heap[1].time + Usec + slip

Waits == INSTANCE AsioWaits WITH waits <- queue.waits

\* The heap, the list and the timerfd together do what a user is promised.
ImplementsWaits == Waits!Spec

\* Every wait ends.
EveryWaitEnds == []<>(\A w \in Wait : result[w] # "waiting")

=============================================================================
