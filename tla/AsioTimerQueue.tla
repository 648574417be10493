-------------------------- MODULE AsioTimerQueue --------------------------
(***************************************************************************)
(* asio::detail::timer_queue as operators on a record.                     *)
(*                                                                         *)
(*   heap    heap_: entries [time, timer], the earliest at 1               *)
(*   index   heap_index_ of each timer, from 1; 0 stands for its maximum   *)
(*   first, next, prev   timers_ and the links of the active timers        *)
(*   waits   op_queue_: the waits on each timer, in their order            *)
(***************************************************************************)
EXTENDS Integers, Sequences

CONSTANTS
  Timer,   \* per_timer_data
  Nil      \* the null pointer

ASSUME TimerAssumption == Nil \notin Timer

EmptyQueue ==
  [heap |-> << >>, index |-> [t \in Timer |-> 0], first |-> Nil,
   next |-> [t \in Timer |-> Nil], prev |-> [t \in Timer |-> Nil],
   waits |-> [t \in Timer |-> << >>]]

\* In the linked list of active timers.
Listed(q, t) == q.prev[t] # Nil \/ q.first = t

-----------------------------------------------------------------------------
\* The heap.

SwapHeap(q, i, j) ==
  [q EXCEPT !.heap = [@ EXCEPT ![i] = q.heap[j], ![j] = q.heap[i]],
            !.index = [@ EXCEPT ![q.heap[i].timer] = j,
                                ![q.heap[j].timer] = i]]

\* One round of the loop of up_heap, on [queue, place].
Rise(x) ==
  LET q == x[1]
      i == x[2]
  IN  IF i > 1 /\ q.heap[i].time < q.heap[i \div 2].time
      THEN << SwapHeap(q, i, i \div 2), i \div 2 >> ELSE x

\* up_heap
UpHeap(q, start) ==
  LET after[n \in Nat] == IF n = 0 THEN << q, start >> ELSE Rise(after[n - 1])
  IN  after[Len(q.heap)][1]

MinChild(q, i) ==
  IF 2 * i = Len(q.heap) \/ q.heap[2 * i].time < q.heap[2 * i + 1].time
  THEN 2 * i ELSE 2 * i + 1

\* Mutant: the entry sinks to the left only.
SinkLeft(x) ==
  LET q == x[1]
      i == x[2]
  IN  IF 2 * i <= Len(q.heap) /\ q.heap[i].time >= q.heap[2 * i].time
      THEN << SwapHeap(q, i, 2 * i), 2 * i >> ELSE x

\* One round of the loop of down_heap.
Sink(x) ==
  LET q == x[1]
      i == x[2]
      child == MinChild(q, i)
  IN  IF 2 * i <= Len(q.heap) /\ q.heap[i].time >= q.heap[child].time
      THEN << SwapHeap(q, i, child), child >> ELSE x

\* down_heap
DownHeap(q, start) ==
  LET after[n \in Nat] == IF n = 0 THEN << q, start >> ELSE Sink(after[n - 1])
  IN  after[Len(q.heap)][1]

PopBack(q) == [q EXCEPT !.heap = SubSeq(@, 1, Len(@) - 1)]

-----------------------------------------------------------------------------
\* The links.

Unlink(q, t) ==
  [q EXCEPT !.first = IF @ = t THEN q.next[t] ELSE @,
            !.next = [u \in Timer |-> IF u = t THEN Nil
                                      ELSE IF u = q.prev[t] THEN q.next[t] ELSE @[u]],
            !.prev = [u \in Timer |-> IF u = t THEN Nil
                                      ELSE IF u = q.next[t] THEN q.prev[t] ELSE @[u]]]

LinkFirst(q, t) ==
  [q EXCEPT !.first = t,
            !.next = [@ EXCEPT ![t] = q.first],
            !.prev = [u \in Timer |-> IF u = t THEN Nil
                                      ELSE IF u = q.first THEN t ELSE @[u]]]

-----------------------------------------------------------------------------
\* remove_timer: the last entry takes its place and rises or sinks from there.
RemoveTimer(q, t) ==
  LET i == q.index[t]
      n == Len(q.heap)
      gone == [PopBack(IF i = n THEN q ELSE SwapHeap(q, i, n)) EXCEPT !.index[t] = 0]
  IN  Unlink(IF i \notin 1 .. n THEN q
             ELSE IF i = n THEN gone
             ELSE IF i > 1 /\ gone.heap[i].time < gone.heap[i \div 2].time
             THEN UpHeap(gone, i) ELSE DownHeap(gone, i), t)

\* Mutant: the size is read after push_back.
EnqueueTimerLate(q, time, t, wait) ==
  LET n == Len(q.heap) + 1
      added == LinkFirst(UpHeap([q EXCEPT !.heap = Append(@, [time |-> time, timer |-> t]),
                                          !.index[t] = n + 1], n), t)
  IN  [IF Listed(q, t) THEN q ELSE added EXCEPT !.waits[t] = Append(@, wait)]

\* enqueue_timer
EnqueueTimer(q, time, t, wait) ==
  LET n == Len(q.heap) + 1
      added == LinkFirst(UpHeap([q EXCEPT !.heap = Append(@, [time |-> time, timer |-> t]),
                                          !.index[t] = n], n), t)
  IN  [IF Listed(q, t) THEN q ELSE added EXCEPT !.waits[t] = Append(@, wait)]

\* What enqueue_timer returns, for the queue it leaves.
Earliest(q, t, wait) == q.index[t] = 1 /\ Head(q.waits[t]) = wait

\* cancel_timer with all waits, or with one.
CancelTimer(q, t) ==
  IF Listed(q, t) THEN RemoveTimer([q EXCEPT !.waits[t] = << >>], t) ELSE q

CancelOneWait(q, t) ==
  LET rest == [q EXCEPT !.waits[t] = Tail(@)]
  IN  IF ~ Listed(q, t) THEN q
      ELSE IF rest.waits[t] = << >> THEN RemoveTimer(rest, t) ELSE rest

\* One round of the loop of get_ready_timers.
TakeReady(q, now) ==
  LET t == q.heap[1].timer
  IN  IF q.heap # << >> /\ q.heap[1].time <= now
      THEN RemoveTimer([q EXCEPT !.waits[t] = << >>], t) ELSE q

\* get_ready_timers: the queue it leaves.
ReadyTimers(q, now) ==
  LET after[n \in Nat] == IF n = 0 THEN q ELSE TakeReady(after[n - 1], now)
  IN  after[Len(q.heap)]

-----------------------------------------------------------------------------
\* "The heap of timers, with the earliest timer at the front."
HeapOrdered(q) ==
  \A i \in 2 .. Len(q.heap) : q.heap[i \div 2].time <= q.heap[i].time

Active(q) == { t \in Timer : q.waits[t] # << >> }

\* Every timer with waits, and no other, has one entry, and knows where.
WellIndexed(q) ==
  /\ \A i \in 1 .. Len(q.heap) : q.index[q.heap[i].timer] = i
  /\ \A t \in Active(q) : /\ q.index[t] \in 1 .. Len(q.heap)
                          /\ q.heap[q.index[t]].timer = t
  /\ \A t \in Timer \ Active(q) : q.index[t] = 0

\* The list holds the same timers: the links back agree with the links from
\* timers_, and lead from every timer to the first, since no timers form a ring.
WellLinked(q) ==
  /\ q.first \in Active(q) \cup {Nil}
  /\ \A t \in Timer \ Active(q) : q.next[t] = Nil /\ q.prev[t] = Nil
  /\ \A t \in Active(q) :
       /\ {q.next[t], q.prev[t]} \subseteq Active(q) \cup {Nil}
       /\ \A u \in Active(q) : q.next[t] = u <=> q.prev[u] = t
       /\ q.prev[t] = Nil <=> q.first = t
  /\ \A S \in SUBSET Active(q) : S # {} => \E t \in S : q.prev[t] \notin S

=============================================================================
