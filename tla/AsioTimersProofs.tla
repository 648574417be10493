-------------------------- MODULE AsioTimersProofs --------------------------
(***************************************************************************)
(* Theorems about AsioTimers: the heap, the indices and the list of timers *)
(* stay sound, the reactor never sleeps past the earliest timer, the state *)
(* has its types, and heap, list and timerfd together implement AsioWaits. *)
(***************************************************************************)
EXTENDS AsioTimers, FiniteSetTheorems, LoopTheorems, TLAPS

-----------------------------------------------------------------------------
(* The heap: its entries, and what an exchange of two of them does.        *)

Entry == [time : Nat, timer : Timer]

\* The timer_queues, sound or not.
Queues ==
  [heap : Seq(Entry), index : [Timer -> Nat], first : Timer \cup {Nil},
   next : [Timer -> Timer \cup {Nil}], prev : [Timer -> Timer \cup {Nil}],
   waits : [Timer -> Seq(Wait)]]

\* The entries and the indices agree.
HeapIndexed(q) ==
  /\ \A i \in 1 .. Len(q.heap) : q.index[q.heap[i].timer] = i
  /\ \A t \in Timer : q.index[t] # 0 => /\ q.index[t] \in 1 .. Len(q.heap)
                                        /\ q.heap[q.index[t]].timer = t

\* The entries, in no order.
Entries(q) == { q.heap[i] : i \in 1 .. Len(q.heap) }

\* Two queues that differ in the order of the entries.
Reordered(p, q) ==
  /\ Len(p.heap) = Len(q.heap) /\ Entries(p) = Entries(q)
  /\ p.first = q.first /\ p.next = q.next /\ p.prev = q.prev /\ p.waits = q.waits

LEMMA QueueFields ==
  ASSUME NEW q \in Queues
  PROVE  /\ q.heap \in Seq(Entry) /\ q.index \in [Timer -> Nat]
         /\ q.first \in Timer \cup {Nil} /\ q.next \in [Timer -> Timer \cup {Nil}]
         /\ q.prev \in [Timer -> Timer \cup {Nil}] /\ q.waits \in [Timer -> Seq(Wait)]
         /\ Len(q.heap) \in Nat
         /\ \A i \in 1 .. Len(q.heap) :
              /\ q.heap[i] \in Entry /\ q.heap[i].time \in Nat /\ q.heap[i].timer \in Timer
<1>1. /\ q.heap \in Seq(Entry) /\ q.index \in [Timer -> Nat]
      /\ q.first \in Timer \cup {Nil} /\ q.next \in [Timer -> Timer \cup {Nil}]
      /\ q.prev \in [Timer -> Timer \cup {Nil}] /\ q.waits \in [Timer -> Seq(Wait)]
  BY DEF Queues
<1>2. \A i \in 1 .. Len(q.heap) : q.heap[i] \in Entry
  BY <1>1
<1>3. \A e \in Entry : e.time \in Nat /\ e.timer \in Timer
  BY DEF Entry
<1> QED
  BY <1>1, <1>2, <1>3

\* swap_heap reorders the entries, and the indices with them.
LEMMA SwapFacts ==
  ASSUME NEW q \in Queues, HeapIndexed(q),
         NEW i \in 1 .. Len(q.heap), NEW j \in 1 .. Len(q.heap), i # j
  PROVE  LET p == SwapHeap(q, i, j)
         IN  /\ p \in Queues /\ HeapIndexed(p) /\ Reordered(p, q)
             /\ p.heap[i] = q.heap[j] /\ p.heap[j] = q.heap[i]
             /\ \A k \in 1 .. Len(q.heap) : k # i /\ k # j => p.heap[k] = q.heap[k]
<1> DEFINE p == SwapHeap(q, i, j)
           h == [q.heap EXCEPT ![i] = q.heap[j], ![j] = q.heap[i]]
           x == [q.index EXCEPT ![q.heap[i].timer] = j, ![q.heap[j].timer] = i]
<1>0. /\ q.heap \in Seq(Entry) /\ q.index \in [Timer -> Nat] /\ Len(q.heap) \in Nat
      /\ q.heap[i] \in Entry /\ q.heap[j] \in Entry
      /\ \A k \in 1 .. Len(q.heap) : q.heap[k].timer \in Timer
  BY QueueFields
<1>1. p = [q EXCEPT !.heap = h, !.index = x]
  BY DEF SwapHeap
<1>2. /\ p.heap = h /\ p.index = x /\ p.first = q.first /\ p.next = q.next
      /\ p.prev = q.prev /\ p.waits = q.waits
  BY <1>1 DEF Queues
<1>3. h \in Seq(Entry) /\ Len(h) = Len(q.heap)
  BY <1>0
<1>4. h[i] = q.heap[j] /\ h[j] = q.heap[i]
  BY <1>0
<1>5. \A k \in 1 .. Len(q.heap) : k # i /\ k # j => h[k] = q.heap[k]
  BY <1>0
<1>6. x \in [Timer -> Nat]
  BY <1>0
<1>7. p \in Queues
  BY <1>1, <1>3, <1>6 DEF Queues
<1>8. q.heap[i].timer # q.heap[j].timer
  BY DEF HeapIndexed
<1>9. /\ x[q.heap[i].timer] = j /\ x[q.heap[j].timer] = i
      /\ \A t \in Timer : t # q.heap[i].timer /\ t # q.heap[j].timer => x[t] = q.index[t]
  BY <1>0, <1>8
<1> HIDE DEF h, x, p
<1>10. HeapIndexed(p)
  <2>1. ASSUME NEW k \in 1 .. Len(q.heap)
        PROVE  x[h[k].timer] = k
    <3>1. CASE k = i \/ k = j
      BY <3>1, <1>4, <1>9
    <3>2. CASE k # i /\ k # j
      <4>1. q.heap[k].timer # q.heap[i].timer /\ q.heap[k].timer # q.heap[j].timer
        BY <3>2 DEF HeapIndexed
      <4> QED
        BY <4>1, <3>2, <1>0, <1>5, <1>9 DEF HeapIndexed
    <3> QED
      BY <3>1, <3>2
  <2>2. ASSUME NEW t \in Timer, x[t] # 0
        PROVE  x[t] \in 1 .. Len(q.heap) /\ h[x[t]].timer = t
    <3>1. CASE t = q.heap[i].timer \/ t = q.heap[j].timer
      BY <3>1, <1>4, <1>9
    <3>2. CASE t # q.heap[i].timer /\ t # q.heap[j].timer
      <4>1. x[t] = q.index[t] /\ q.index[t] \in 1 .. Len(q.heap) /\ q.heap[q.index[t]].timer = t
        BY <3>2, <2>2, <1>9 DEF HeapIndexed
      <4>2. q.index[t] # i /\ q.index[t] # j
        BY <4>1, <3>2
      <4> QED
        BY <4>1, <4>2, <1>5
    <3> QED
      BY <3>1, <3>2
  <2> QED
    BY <2>1, <2>2, <1>2, <1>3 DEF HeapIndexed
<1>11. Entries(p) = Entries(q)
  <2>1. ASSUME NEW k \in 1 .. Len(q.heap)
        PROVE  /\ \E m \in 1 .. Len(q.heap) : h[k] = q.heap[m]
               /\ \E m \in 1 .. Len(q.heap) : q.heap[k] = h[m]
    BY <1>4, <1>5
  <2>2. Entries(p) = { h[k] : k \in 1 .. Len(q.heap) }
    BY <1>2, <1>3 DEF Entries
  <2>3. Entries(q) = { q.heap[k] : k \in 1 .. Len(q.heap) }
    BY DEF Entries
  <2>4. \A e : e \in Entries(p) <=> e \in Entries(q)
    BY <2>1, <2>2, <2>3
  <2> QED
    BY <2>4
<1> QED
  BY <1>2, <1>3, <1>4, <1>5, <1>7, <1>10, <1>11 DEF Reordered, p

LEMMA ReorderedTwice ==
  ASSUME NEW p, NEW q, NEW r, Reordered(p, q), Reordered(q, r)
  PROVE  Reordered(p, r)
BY DEF Reordered

-----------------------------------------------------------------------------
(* up_heap.                                                                *)

\* The heap is in order, but the entry at i may be too low.
LowAt(q, i) ==
  /\ q \in Queues /\ HeapIndexed(q) /\ i \in 1 .. Len(q.heap)
  /\ \A j \in 2 .. Len(q.heap) :
       /\ j # i => q.heap[j \div 2].time <= q.heap[j].time
       /\ j \div 2 = i /\ i > 1 => q.heap[i \div 2].time <= q.heap[j].time

\* A round of up_heap keeps the entry alone out of order, and lifts it or ends.
LEMMA RiseStep ==
  ASSUME NEW q, NEW i, LowAt(q, i)
  PROVE  LET x == Rise(<< q, i >>)
         IN  /\ x = << x[1], x[2] >> /\ LowAt(x[1], x[2]) /\ Reordered(x[1], q)
             /\ x[2] < i \/ (x = << q, i >> /\ HeapOrdered(q))
<1>1. /\ q \in Queues /\ HeapIndexed(q) /\ i \in 1 .. Len(q.heap) /\ Len(q.heap) \in Nat
      /\ \A k \in 1 .. Len(q.heap) : q.heap[k].time \in Nat
  BY QueueFields DEF LowAt
<1>2. CASE i > 1 /\ q.heap[i].time < q.heap[i \div 2].time
  <2> DEFINE h == i \div 2
             p == SwapHeap(q, i, h)
  <2>1. h \in 1 .. Len(q.heap) /\ h < i /\ i # h
    BY <1>1, <1>2
  <2> HIDE DEF h
  <2>2. /\ p \in Queues /\ HeapIndexed(p) /\ Reordered(p, q)
        /\ p.heap[i] = q.heap[h] /\ p.heap[h] = q.heap[i]
        /\ \A k \in 1 .. Len(q.heap) : k # i /\ k # h => p.heap[k] = q.heap[k]
    BY <1>1, <2>1, SwapFacts
  <2>3. Len(p.heap) = Len(q.heap)
    BY <2>2 DEF Reordered
  <2>4. Rise(<< q, i >>) = << p, h >>
    BY <1>2 DEF Rise, h
  <2>5. q.heap[i].time < q.heap[h].time
    BY <1>2 DEF h
  <2> HIDE DEF p
  <2>6. ASSUME NEW j \in 2 .. Len(q.heap), j # h
        PROVE  p.heap[j \div 2].time <= p.heap[j].time
    <3>1. j \in 1 .. Len(q.heap) /\ j \div 2 \in 1 .. Len(q.heap) /\ j \div 2 # j
      BY <1>1
    <3>2. CASE j = i
      BY <3>2, <2>2, <2>5, <1>1, <2>1 DEF h
    <3>3. CASE j # i /\ j \div 2 = i
      <4>1. q.heap[h].time <= q.heap[j].time
        BY <3>3, <1>2 DEF LowAt, h
      <4> QED
        BY <4>1, <3>1, <3>3, <2>2, <2>6
    <3>4. CASE j # i /\ j \div 2 # i
      <4>1. q.heap[j \div 2].time <= q.heap[j].time
        BY <3>4 DEF LowAt
      <4>2. p.heap[j] = q.heap[j]
        BY <3>1, <3>4, <2>2, <2>6
      <4>3. CASE j \div 2 = h
        BY <4>1, <4>2, <4>3, <3>1, <2>2, <2>5, <1>1, SMTT(30)
      <4>4. CASE j \div 2 # h
        BY <4>1, <4>2, <4>4, <3>1, <3>4, <2>2
      <4> QED
        BY <4>3, <4>4
    <3> QED
      BY <3>2, <3>3, <3>4
  <2>7. ASSUME NEW j \in 2 .. Len(q.heap), j \div 2 = h, h > 1
        PROVE  p.heap[h \div 2].time <= p.heap[j].time
    <3>1. j \in 1 .. Len(q.heap) /\ h \div 2 \in 1 .. Len(q.heap) /\ h \div 2 < h /\ j # h
      BY <1>1, <2>1, <2>7
    <3>2. p.heap[h \div 2] = q.heap[h \div 2]
      BY <3>1, <2>1, <2>2
    <3>3. h \in 2 .. Len(q.heap) /\ h # i
      BY <2>7, <2>1
    <3>4. q.heap[h \div 2].time <= q.heap[h].time
      BY <3>3 DEF LowAt
    <3>5. CASE j = i
      BY <3>2, <3>4, <3>5, <2>2
    <3>6. CASE j # i
      <4>1. q.heap[h].time <= q.heap[j].time
        BY <3>6, <2>7 DEF LowAt
      <4>2. p.heap[j] = q.heap[j]
        BY <3>1, <3>6, <2>2
      <4> QED
        BY <4>1, <4>2, <3>1, <3>2, <3>4, <2>1, <1>1
    <3> QED
      BY <3>5, <3>6
  <2>8. LowAt(p, h)
    BY <2>1, <2>2, <2>3, <2>6, <2>7 DEF LowAt
  <2>9. /\ Rise(<< q, i >>)[1] = p /\ Rise(<< q, i >>)[2] = h
        /\ Rise(<< q, i >>) = << Rise(<< q, i >>)[1], Rise(<< q, i >>)[2] >>
    BY <2>4
  <2> QED
    BY <2>1, <2>2, <2>4, <2>8, <2>9
<1>3. CASE ~ (i > 1 /\ q.heap[i].time < q.heap[i \div 2].time)
  <2>1. Rise(<< q, i >>) = << q, i >>
    BY <1>3 DEF Rise
  <2>2. ASSUME NEW j \in 2 .. Len(q.heap)
        PROVE  q.heap[j \div 2].time <= q.heap[j].time
    <3>1. CASE j = i
      <4>1. i \div 2 \in 1 .. Len(q.heap) /\ i > 1
        BY <3>1, <1>1
      <4> QED
        BY <4>1, <3>1, <1>1, <1>3
    <3>2. CASE j # i
      BY <3>2 DEF LowAt
    <3> QED
      BY <3>1, <3>2
  <2> QED
    BY <2>1, <2>2 DEF HeapOrdered, Reordered
<1> QED
  BY <1>2, <1>3

\* up_heap: an entry that may be too low finds its place.
LEMMA UpHeapFacts ==
  ASSUME NEW q, NEW start, LowAt(q, start)
  PROVE  LET p == UpHeap(q, start)
         IN  p \in Queues /\ HeapIndexed(p) /\ HeapOrdered(p) /\ Reordered(p, q)
<1> DEFINE S == { x \in Queues \X Nat : LowAt(x[1], x[2]) /\ Reordered(x[1], q) }
           f == [n \in Nat |-> [x \in S |-> Rise(x)]]
           after == CHOOSE g : g = [n \in Nat |-> IF n = 0 THEN << q, start >>
                                                  ELSE Rise(g[n - 1])]
<1>0. q \in Queues /\ start \in 1 .. Len(q.heap) /\ Len(q.heap) \in Nat
  BY QueueFields DEF LowAt
<1>1. << q, start >> \in S
  BY <1>0 DEF Reordered
<1>2. ASSUME NEW x \in S
      PROVE  /\ Rise(x) \in S
             /\ Rise(x)[2] < x[2] \/ (Rise(x) = x /\ HeapOrdered(x[1]))
  <2>1. x = << x[1], x[2] >> /\ LowAt(x[1], x[2]) /\ Reordered(x[1], q)
    BY <1>2
  <2>2. /\ Rise(x) = << Rise(x)[1], Rise(x)[2] >> /\ LowAt(Rise(x)[1], Rise(x)[2])
        /\ Reordered(Rise(x)[1], x[1])
        /\ Rise(x)[2] < x[2] \/ (Rise(x) = x /\ HeapOrdered(x[1]))
    BY <2>1, RiseStep
  <2>3. Reordered(Rise(x)[1], q)
    BY <2>1, <2>2, ReorderedTwice
  <2>4. Rise(x)[1] \in Queues /\ Rise(x)[2] \in Nat
    BY <2>2 DEF LowAt
  <2> QED
    BY <2>2, <2>3, <2>4
<1> HIDE DEF S
<1>3. f \in [Nat -> [S -> S]]
  BY <1>2
<1> DEFINE a == << q, start >>
<1> HIDE DEF f, a
<1> DEFINE g == Loop(S, a, f)
<1>4. g \in [Nat -> S] /\ g[0] = a /\ \A n \in Nat : g[n + 1] = f[n][g[n]]
  <2>1. a \in S
    BY <1>1 DEF a
  <2> QED
    BY <2>1, <1>3, Iterate
<1> HIDE DEF g
<1>5. ASSUME NEW n \in Nat
      PROVE  g[n] = IF n = 0 THEN << q, start >> ELSE Rise(g[n - 1])
  <2>1. CASE n = 0
    BY <2>1, <1>4 DEF a
  <2>2. CASE n # 0
    <3>1. n - 1 \in Nat /\ (n - 1) + 1 = n
      BY <2>2
    <3>2. g[n] = f[n - 1][g[n - 1]] /\ g[n - 1] \in S
      BY <3>1, <1>4
    <3> QED
      BY <2>2, <3>1, <3>2 DEF f
  <2> QED
    BY <2>1, <2>2
<1>6. g = [n \in Nat |-> IF n = 0 THEN << q, start >> ELSE Rise(g[n - 1])]
  BY <1>5, <1>4
<1>7. after = [n \in Nat |-> IF n = 0 THEN << q, start >> ELSE Rise(after[n - 1])]
  BY <1>6
<1>8. UpHeap(q, start) = after[Len(q.heap)][1]
  BY DEF UpHeap
<1> HIDE DEF after
<1> DEFINE T == { n \in Nat : /\ after[n] \in S
                              /\ \/ after[n][2] <= start - n
                                 \/ Rise(after[n]) = after[n] /\ HeapOrdered(after[n][1]) }
<1>9. 0 \in T
  BY <1>0, <1>1, <1>7
<1>10. ASSUME NEW n \in T
       PROVE  n + 1 \in T
  <2>1. after[n + 1] = Rise(after[n])
    BY <1>7
  <2>2. after[n + 1] \in S
    BY <1>2, <2>1
  <2>3. after[n][2] \in Nat /\ after[n + 1][2] \in Nat
    BY <2>2 DEF S
  <2> QED
    BY <1>0, <1>2, <2>1, <2>2, <2>3
<1>11. T = Nat
  <2>1. T \in SUBSET Nat
    OBVIOUS
  <2> QED
    BY <1>9, <1>10, <2>1, Induction DEF T
<1> DEFINE last == after[Len(q.heap)]
<1>12. last \in S /\ (last[2] <= start - Len(q.heap) \/ HeapOrdered(last[1]))
  <2>1. Len(q.heap) \in T
    BY <1>0, <1>11
  <2> QED
    BY <2>1
<1> HIDE DEF last
<1>13. last[2] \in Nat /\ last[2] >= 1
  BY <1>12 DEF S, LowAt
<1>14. HeapOrdered(last[1])
  BY <1>0, <1>12, <1>13
<1> QED
  BY <1>8, <1>12, <1>14 DEF S, LowAt, last

-----------------------------------------------------------------------------
(* down_heap.                                                              *)

\* The heap is in order, but the entry at i may be too high.
HighAt(q, i) ==
  /\ q \in Queues /\ HeapIndexed(q) /\ i \in 1 .. Len(q.heap)
  /\ \A j \in 2 .. Len(q.heap) :
       /\ j \div 2 # i => q.heap[j \div 2].time <= q.heap[j].time
       /\ j \div 2 = i /\ i > 1 => q.heap[i \div 2].time <= q.heap[j].time

LEMMA MinChildFacts ==
  ASSUME NEW q \in Queues, NEW i \in 1 .. Len(q.heap), 2 * i <= Len(q.heap)
  PROVE  LET c == MinChild(q, i)
         IN  /\ c \in 2 .. Len(q.heap) /\ c \div 2 = i /\ c > i
             /\ \A j \in 2 .. Len(q.heap) :
                  j \div 2 = i => q.heap[c].time <= q.heap[j].time
<1>1. /\ Len(q.heap) \in Nat
      /\ \A k \in 1 .. Len(q.heap) : q.heap[k].time \in Nat
  BY QueueFields
<1>2. \A j \in Nat : j \div 2 = i => j = 2 * i \/ j = 2 * i + 1
  BY <1>1
<1>3. CASE 2 * i = Len(q.heap)
  <2>1. MinChild(q, i) = 2 * i
    BY <1>3 DEF MinChild
  <2>2. \A j \in 2 .. Len(q.heap) : j \div 2 = i => j = 2 * i
    BY <1>1, <1>2, <1>3
  <2> QED
    BY <1>1, <1>3, <2>1, <2>2
<1>4. CASE 2 * i + 1 <= Len(q.heap)
  <2>1. q.heap[2 * i].time \in Nat /\ q.heap[2 * i + 1].time \in Nat
    BY <1>1, <1>4
  <2>4. /\ 2 * i \in 2 .. Len(q.heap) /\ (2 * i) \div 2 = i /\ 2 * i > i
        /\ 2 * i + 1 \in 2 .. Len(q.heap) /\ (2 * i + 1) \div 2 = i /\ 2 * i + 1 > i
    BY <1>1, <1>4
  <2>2. CASE q.heap[2 * i].time < q.heap[2 * i + 1].time
    <3>1. MinChild(q, i) = 2 * i
      BY <2>2 DEF MinChild
    <3>2. ASSUME NEW j \in 2 .. Len(q.heap), j \div 2 = i
          PROVE  q.heap[2 * i].time <= q.heap[j].time
      <4>1. j = 2 * i \/ j = 2 * i + 1
        BY <1>1, <1>2, <3>2
      <4>2. CASE j = 2 * i
        BY <4>2, <2>1
      <4>3. CASE j = 2 * i + 1
        BY <4>3, <2>1, <2>2
      <4> QED
        BY <4>1, <4>2, <4>3
    <3> QED
      BY <2>4, <3>1, <3>2
  <2>3. CASE ~ (q.heap[2 * i].time < q.heap[2 * i + 1].time)
    <3>1. MinChild(q, i) = 2 * i + 1
      BY <1>1, <1>4, <2>3 DEF MinChild
    <3>2. ASSUME NEW j \in 2 .. Len(q.heap), j \div 2 = i
          PROVE  q.heap[2 * i + 1].time <= q.heap[j].time
      <4>1. j = 2 * i \/ j = 2 * i + 1
        BY <1>1, <1>2, <3>2
      <4>2. CASE j = 2 * i
        BY <4>2, <2>1, <2>3
      <4>3. CASE j = 2 * i + 1
        BY <4>3, <2>1
      <4> QED
        BY <4>1, <4>2, <4>3
    <3> QED
      BY <2>4, <3>1, <3>2
  <2> QED
    BY <2>2, <2>3
<1>5. 2 * i = Len(q.heap) \/ 2 * i + 1 <= Len(q.heap)
  <2> DEFINE n == Len(q.heap)
  <2>1. n \in Nat /\ i \in Nat /\ 2 * i <= n
    BY <1>1
  <2> HIDE DEF n
  <2>2. 2 * i = n \/ 2 * i + 1 <= n
    BY <2>1
  <2> QED
    BY <2>2 DEF n
<1> QED
  BY <1>3, <1>4, <1>5

\* A round of down_heap keeps the entry alone out of order, and lowers it or
\* ends: it is exchanged with the earlier of its children.
LEMMA SinkStep ==
  ASSUME NEW q, NEW i, HighAt(q, i)
  PROVE  LET x == Sink(<< q, i >>)
         IN  /\ x = << x[1], x[2] >> /\ HighAt(x[1], x[2]) /\ Reordered(x[1], q)
             /\ x[2] > i \/ (x = << q, i >> /\ HeapOrdered(q))
<1>1. /\ q \in Queues /\ HeapIndexed(q) /\ i \in 1 .. Len(q.heap) /\ Len(q.heap) \in Nat
      /\ \A k \in 1 .. Len(q.heap) : q.heap[k].time \in Nat
  BY QueueFields DEF HighAt
<1> DEFINE c == MinChild(q, i)
           p == SwapHeap(q, i, c)
<1>2. CASE 2 * i <= Len(q.heap) /\ q.heap[i].time >= q.heap[c].time
  <2>1. /\ c \in 2 .. Len(q.heap) /\ c \in 1 .. Len(q.heap) /\ c \div 2 = i /\ c > i /\ i # c
        /\ \A j \in 2 .. Len(q.heap) : j \div 2 = i => q.heap[c].time <= q.heap[j].time
    <3>1. /\ c \in 2 .. Len(q.heap) /\ c \div 2 = i /\ c > i
          /\ \A j \in 2 .. Len(q.heap) : j \div 2 = i => q.heap[c].time <= q.heap[j].time
      BY <1>1, <1>2, MinChildFacts, Zenon
    <3> HIDE DEF c
    <3> QED
      BY <3>1, <1>1
  <2>2. Sink(<< q, i >>) = << p, c >>
    BY <1>2 DEF Sink
  <2>3. q.heap[i].time >= q.heap[c].time
    BY <1>2
  <2> HIDE DEF c
  <2>4. /\ p \in Queues /\ HeapIndexed(p) /\ Reordered(p, q)
        /\ p.heap[i] = q.heap[c] /\ p.heap[c] = q.heap[i]
        /\ \A k \in 1 .. Len(q.heap) : k # i /\ k # c => p.heap[k] = q.heap[k]
    BY <1>1, <2>1, SwapFacts
  <2>5. Len(p.heap) = Len(q.heap)
    BY <2>4 DEF Reordered
  <2> HIDE DEF p
  <2>6. ASSUME NEW j \in 2 .. Len(q.heap), j \div 2 # c
        PROVE  p.heap[j \div 2].time <= p.heap[j].time
    <3>1. j \in 1 .. Len(q.heap) /\ j \div 2 \in 1 .. Len(q.heap) /\ j \div 2 # j
      BY <1>1
    <3>2. CASE j = i
      <4>1. i > 1 /\ i \div 2 \in 1 .. Len(q.heap) /\ i \div 2 # i
        BY <3>1, <3>2
      <4>2. q.heap[i \div 2].time <= q.heap[c].time
        BY <2>1, <4>1 DEF HighAt
      <4>3. p.heap[i \div 2] = q.heap[i \div 2]
        BY <4>1, <2>4, <2>6, <3>2
      <4> QED
        BY <3>2, <4>2, <4>3, <2>4
    <3>3. CASE j = c
      BY <3>3, <2>1, <2>3, <2>4, <1>1
    <3>4. CASE j # i /\ j # c /\ j \div 2 = i
      <4>1. q.heap[c].time <= q.heap[j].time
        BY <3>4, <2>1
      <4> QED
        BY <4>1, <3>1, <3>4, <2>4
    <3>5. CASE j # i /\ j # c /\ j \div 2 # i
      <4>1. q.heap[j \div 2].time <= q.heap[j].time
        BY <3>5 DEF HighAt
      <4>2. p.heap[j] = q.heap[j] /\ p.heap[j \div 2] = q.heap[j \div 2]
        BY <3>1, <3>5, <2>4, <2>6
      <4> QED
        BY <4>1, <4>2
    <3> QED
      BY <3>2, <3>3, <3>4, <3>5
  <2>7. ASSUME NEW j \in 2 .. Len(q.heap), j \div 2 = c
        PROVE  p.heap[c \div 2].time <= p.heap[j].time
    <3>1. j \in 1 .. Len(q.heap) /\ j # c /\ j # i
      BY <1>1, <2>1, <2>7
    <3>2. q.heap[c].time <= q.heap[j].time
      BY <2>1, <2>7 DEF HighAt
    <3>3. p.heap[j] = q.heap[j]
      BY <3>1, <2>4
    <3> QED
      BY <3>2, <3>3, <2>1, <2>4
  <2>8. HighAt(p, c)
    BY <2>1, <2>4, <2>5, <2>6, <2>7 DEF HighAt
  <2>9. /\ Sink(<< q, i >>)[1] = p /\ Sink(<< q, i >>)[2] = c
        /\ Sink(<< q, i >>) = << Sink(<< q, i >>)[1], Sink(<< q, i >>)[2] >>
    BY <2>2
  <2> QED
    BY <2>1, <2>4, <2>8, <2>9
<1>3. CASE ~ (2 * i <= Len(q.heap) /\ q.heap[i].time >= q.heap[c].time)
  <2>1. Sink(<< q, i >>) = << q, i >>
    BY <1>3 DEF Sink
  <2>2. ASSUME NEW j \in 2 .. Len(q.heap)
        PROVE  q.heap[j \div 2].time <= q.heap[j].time
    <3>1. CASE j \div 2 = i
      <4>1. 2 * i <= Len(q.heap)
        BY <3>1, <1>1
      <4>2. c \in 2 .. Len(q.heap) /\ q.heap[c].time <= q.heap[j].time
        BY <4>1, <3>1, <1>1, MinChildFacts
      <4>3. ~ (q.heap[i].time >= q.heap[c].time)
        BY <4>1, <1>3
      <4> HIDE DEF c
      <4>4. c \in 1 .. Len(q.heap) /\ j \in 1 .. Len(q.heap)
        BY <4>2, <1>1
      <4> QED
        BY <4>2, <4>3, <4>4, <3>1, <1>1
    <3>2. CASE j \div 2 # i
      BY <3>2 DEF HighAt
    <3> QED
      BY <3>1, <3>2
  <2> QED
    BY <2>1, <2>2 DEF HeapOrdered, Reordered
<1> QED
  BY <1>2, <1>3

\* down_heap: an entry that may be too high finds its place.
LEMMA DownHeapFacts ==
  ASSUME NEW q, NEW start, HighAt(q, start)
  PROVE  LET p == DownHeap(q, start)
         IN  p \in Queues /\ HeapIndexed(p) /\ HeapOrdered(p) /\ Reordered(p, q)
<1> DEFINE S == { x \in Queues \X Nat : HighAt(x[1], x[2]) /\ Reordered(x[1], q) }
           f == [n \in Nat |-> [x \in S |-> Sink(x)]]
           after == CHOOSE g : g = [n \in Nat |-> IF n = 0 THEN << q, start >>
                                                  ELSE Sink(g[n - 1])]
<1>0. q \in Queues /\ start \in 1 .. Len(q.heap) /\ Len(q.heap) \in Nat
  BY QueueFields DEF HighAt
<1>1. << q, start >> \in S
  BY <1>0 DEF Reordered
<1>2. ASSUME NEW x \in S
      PROVE  /\ Sink(x) \in S
             /\ Sink(x)[2] > x[2] \/ (Sink(x) = x /\ HeapOrdered(x[1]))
  <2>1. x = << x[1], x[2] >> /\ HighAt(x[1], x[2]) /\ Reordered(x[1], q)
    BY <1>2
  <2>2. /\ Sink(x) = << Sink(x)[1], Sink(x)[2] >> /\ HighAt(Sink(x)[1], Sink(x)[2])
        /\ Reordered(Sink(x)[1], x[1])
        /\ Sink(x)[2] > x[2] \/ (Sink(x) = x /\ HeapOrdered(x[1]))
    BY <2>1, SinkStep
  <2>3. Reordered(Sink(x)[1], q)
    BY <2>1, <2>2, ReorderedTwice
  <2>4. Sink(x)[1] \in Queues /\ Sink(x)[2] \in Nat
    BY <2>2 DEF HighAt
  <2> QED
    BY <2>2, <2>3, <2>4
<1> HIDE DEF S
<1>3. f \in [Nat -> [S -> S]]
  BY <1>2
<1> DEFINE a == << q, start >>
<1> HIDE DEF f, a
<1> DEFINE g == Loop(S, a, f)
<1>4. g \in [Nat -> S] /\ g[0] = a /\ \A n \in Nat : g[n + 1] = f[n][g[n]]
  <2>1. a \in S
    BY <1>1 DEF a
  <2> QED
    BY <2>1, <1>3, Iterate
<1> HIDE DEF g
<1>5. ASSUME NEW n \in Nat
      PROVE  g[n] = IF n = 0 THEN << q, start >> ELSE Sink(g[n - 1])
  <2>1. CASE n = 0
    BY <2>1, <1>4 DEF a
  <2>2. CASE n # 0
    <3>1. n - 1 \in Nat /\ (n - 1) + 1 = n
      BY <2>2
    <3>2. g[n] = f[n - 1][g[n - 1]] /\ g[n - 1] \in S
      BY <3>1, <1>4
    <3> QED
      BY <2>2, <3>1, <3>2 DEF f
  <2> QED
    BY <2>1, <2>2
<1>6. g = [n \in Nat |-> IF n = 0 THEN << q, start >> ELSE Sink(g[n - 1])]
  BY <1>5, <1>4
<1>7. after = [n \in Nat |-> IF n = 0 THEN << q, start >> ELSE Sink(after[n - 1])]
  BY <1>6
<1>8. DownHeap(q, start) = after[Len(q.heap)][1]
  BY DEF DownHeap
<1> HIDE DEF after
<1> DEFINE T == { n \in Nat : /\ after[n] \in S
                              /\ \/ after[n][2] >= start + n
                                 \/ Sink(after[n]) = after[n] /\ HeapOrdered(after[n][1]) }
<1>9. 0 \in T
  BY <1>0, <1>1, <1>7
<1>10. ASSUME NEW n \in T
       PROVE  n + 1 \in T
  <2>1. after[n + 1] = Sink(after[n])
    BY <1>7
  <2>2. after[n + 1] \in S
    BY <1>2, <2>1
  <2>3. after[n][2] \in Nat /\ after[n + 1][2] \in Nat
    BY <2>2 DEF S
  <2> QED
    BY <1>0, <1>2, <2>1, <2>2, <2>3
<1>11. T = Nat
  <2>1. T \in SUBSET Nat
    OBVIOUS
  <2> QED
    BY <1>9, <1>10, <2>1, Induction DEF T
<1> DEFINE last == after[Len(q.heap)]
<1>12. last \in S /\ (last[2] >= start + Len(q.heap) \/ HeapOrdered(last[1]))
  <2>1. Len(q.heap) \in T
    BY <1>0, <1>11
  <2> QED
    BY <2>1
<1> HIDE DEF last
<1>13. last[2] \in Nat /\ last[2] <= Len(q.heap)
  <2>1. HighAt(last[1], last[2]) /\ Len(last[1].heap) = Len(q.heap)
    BY <1>12 DEF S, Reordered
  <2> QED
    BY <2>1, <1>0 DEF HighAt
<1>14. HeapOrdered(last[1])
  BY <1>0, <1>12, <1>13
<1> QED
  BY <1>8, <1>12, <1>14 DEF S, HighAt, last

-----------------------------------------------------------------------------
(* The links.                                                              *)

\* The list holds the timers of A.
Chain(q, A) ==
  /\ q.first \in A \cup {Nil}
  /\ \A t \in Timer \ A : q.next[t] = Nil /\ q.prev[t] = Nil
  /\ \A t \in A : /\ {q.next[t], q.prev[t]} \subseteq A \cup {Nil}
                  /\ \A u \in A : q.next[t] = u <=> q.prev[u] = t
                  /\ q.prev[t] = Nil <=> q.first = t
  /\ \A S \in SUBSET A : S # {} => \E t \in S : q.prev[t] \notin S

LEMMA LinkedIsChain == \A q : WellLinked(q) <=> Chain(q, Active(q))
BY DEF WellLinked, Chain

LEMMA ActiveIsTimer == \A q : Active(q) \subseteq Timer
BY DEF Active

LEMMA ListedFacts ==
  ASSUME NEW q, WellLinked(q), NEW t \in Timer
  PROVE  Listed(q, t) <=> t \in Active(q)
<1>1. CASE t \in Active(q)
  BY <1>1 DEF WellLinked, Listed
<1>2. CASE t \notin Active(q)
  BY <1>2, TimerAssumption DEF WellLinked, Listed
<1> QED
  BY <1>1, <1>2

\* A timer is taken off the list: no two of those left form a ring.
LEMMA UnlinkFacts ==
  ASSUME NEW q \in Queues, NEW A \in SUBSET Timer, NEW t \in A, Chain(q, A)
  PROVE  LET p == Unlink(q, t)
         IN  /\ p \in Queues /\ Chain(p, A \ {t})
             /\ p.heap = q.heap /\ p.index = q.index /\ p.waits = q.waits
<1> DEFINE p == Unlink(q, t)
           first == IF q.first = t THEN q.next[t] ELSE q.first
           next == [u \in Timer |-> IF u = t THEN Nil
                                    ELSE IF u = q.prev[t] THEN q.next[t] ELSE q.next[u]]
           prev == [u \in Timer |-> IF u = t THEN Nil
                                    ELSE IF u = q.next[t] THEN q.prev[t] ELSE q.prev[u]]
           B == A \ {t}
<1>0. /\ q.first \in Timer \cup {Nil} /\ q.next \in [Timer -> Timer \cup {Nil}]
      /\ q.prev \in [Timer -> Timer \cup {Nil}] /\ t \in Timer /\ Nil \notin Timer
  BY QueueFields, TimerAssumption
<1>1. p = [q EXCEPT !.first = first, !.next = next, !.prev = prev]
  BY DEF Unlink
<1>2. /\ p.first = first /\ p.next = next /\ p.prev = prev
      /\ p.heap = q.heap /\ p.index = q.index /\ p.waits = q.waits
  BY <1>1 DEF Queues
<1>3. /\ first \in Timer \cup {Nil} /\ next \in [Timer -> Timer \cup {Nil}]
      /\ prev \in [Timer -> Timer \cup {Nil}]
  BY <1>0
<1>4. p \in Queues
  BY <1>1, <1>3 DEF Queues
<1>5. /\ \A u \in A : /\ q.next[u] \in A \cup {Nil} /\ q.prev[u] \in A \cup {Nil}
                      /\ q.prev[u] = Nil <=> q.first = u
                      /\ \A v \in A : q.next[u] = v <=> q.prev[v] = u
      /\ \A u \in Timer \ A : q.next[u] = Nil /\ q.prev[u] = Nil
      /\ q.first \in A \cup {Nil}
      /\ \A S \in SUBSET A : S # {} => \E u \in S : q.prev[u] \notin S
  BY DEF Chain
<1>6. q.next[t] # t /\ q.prev[t] # t
  <2>1. {t} \in SUBSET A /\ {t} # {}
    OBVIOUS
  <2>2. q.prev[t] # t
    BY <2>1, <1>5, ZenonT(40)
  <2> QED
    BY <2>2, <1>5
<1>7. /\ next[t] = Nil /\ prev[t] = Nil
      /\ \A u \in Timer : u # t => /\ next[u] = IF u = q.prev[t] THEN q.next[t] ELSE q.next[u]
                                   /\ prev[u] = IF u = q.next[t] THEN q.prev[t] ELSE q.prev[u]
  BY <1>0
<1> HIDE DEF next, prev
<1>8. first \in B \cup {Nil}
  BY <1>5, <1>6
<1>9. \A u \in Timer \ B : next[u] = Nil /\ prev[u] = Nil
  <2>1. ASSUME NEW u \in Timer \ A
        PROVE  next[u] = Nil /\ prev[u] = Nil
    BY <1>0, <1>5, <1>7
  <2> QED
    BY <2>1, <1>7
<1>10. ASSUME NEW u \in B
       PROVE  /\ next[u] \in B \cup {Nil} /\ prev[u] \in B \cup {Nil}
              /\ prev[u] = Nil <=> first = u
              /\ \A v \in B : next[u] = v <=> prev[v] = u
  <2>1. u \in Timer /\ u \in A /\ u # t /\ t \in A
    OBVIOUS
  <2>2. next[u] \in B \cup {Nil} /\ prev[u] \in B \cup {Nil}
    BY <2>1, <1>0, <1>5, <1>6, <1>7
  <2>3. prev[u] = Nil <=> first = u
    BY <2>1, <1>0, <1>5, <1>6, <1>7
  <2>4. ASSUME NEW v \in B
        PROVE  next[u] = v <=> prev[v] = u
    <3>1. v \in Timer /\ v \in A /\ v # t
      OBVIOUS
    <3> QED
      BY <2>1, <3>1, <1>0, <1>5, <1>7
  <2> QED
    BY <2>2, <2>3, <2>4
<1>11. ASSUME NEW S \in SUBSET B, S # {}
       PROVE  \E u \in S : prev[u] \notin S
  <2>1. CASE q.next[t] \in S /\ q.prev[t] \in S
    <3>1. S \cup {t} \in SUBSET A /\ S \cup {t} # {}
      OBVIOUS
    <3>2. PICK u \in S \cup {t} : q.prev[u] \notin S \cup {t}
      BY <3>1, <1>5
    <3>3. u # t /\ u # q.next[t] /\ u \in S /\ u \in Timer
      BY <2>1, <3>2, <1>5, <1>0
    <3> QED
      BY <3>2, <3>3, <1>7
  <2>2. CASE q.next[t] \notin S
    <3>1. S \in SUBSET A
      OBVIOUS
    <3>2. PICK u \in S : q.prev[u] \notin S
      BY <3>1, <1>11, <1>5
    <3>3. u # t /\ u # q.next[t] /\ u \in Timer
      BY <2>2
    <3> QED
      BY <3>2, <3>3, <1>7
  <2>3. CASE q.next[t] \in S /\ q.prev[t] \notin S
    <3>1. q.next[t] # t /\ q.next[t] \in Timer
      BY <2>3
    <3>2. prev[q.next[t]] = q.prev[t]
      BY <3>1, <1>7
    <3> QED
      BY <2>3, <3>2
  <2> QED
    BY <2>1, <2>2, <2>3
<1> HIDE DEF first, p
<1>12. Chain(p, B)
  <2>1. \A u \in B : {next[u], prev[u]} \subseteq B \cup {Nil}
    BY <1>10
  <2> QED
    BY <2>1, <1>2, <1>8, <1>9, <1>10, <1>11 DEF Chain
<1> QED
  BY <1>2, <1>4, <1>12 DEF p

\* A timer that was not in the list is put in front of it.
LEMMA LinkFirstFacts ==
  ASSUME NEW q \in Queues, NEW A \in SUBSET Timer, NEW t \in Timer \ A, Chain(q, A)
  PROVE  LET p == LinkFirst(q, t)
         IN  /\ p \in Queues /\ Chain(p, A \cup {t})
             /\ p.heap = q.heap /\ p.index = q.index /\ p.waits = q.waits
<1> DEFINE p == LinkFirst(q, t)
           next == [q.next EXCEPT ![t] = q.first]
           prev == [u \in Timer |-> IF u = t THEN Nil
                                    ELSE IF u = q.first THEN t ELSE q.prev[u]]
           B == A \cup {t}
<1>0. /\ q.first \in Timer \cup {Nil} /\ q.next \in [Timer -> Timer \cup {Nil}]
      /\ q.prev \in [Timer -> Timer \cup {Nil}] /\ t \in Timer /\ t \notin A /\ Nil \notin Timer
  BY QueueFields, TimerAssumption
<1>1. p = [q EXCEPT !.first = t, !.next = next, !.prev = prev]
  BY DEF LinkFirst
<1>2. /\ p.first = t /\ p.next = next /\ p.prev = prev
      /\ p.heap = q.heap /\ p.index = q.index /\ p.waits = q.waits
  BY <1>1 DEF Queues
<1>3. /\ next \in [Timer -> Timer \cup {Nil}] /\ prev \in [Timer -> Timer \cup {Nil}]
  BY <1>0
<1>4. p \in Queues
  BY <1>1, <1>3 DEF Queues
<1>5. /\ \A u \in A : /\ q.next[u] \in A \cup {Nil} /\ q.prev[u] \in A \cup {Nil}
                      /\ q.prev[u] = Nil <=> q.first = u
                      /\ \A v \in A : q.next[u] = v <=> q.prev[v] = u
      /\ \A u \in Timer \ A : q.next[u] = Nil /\ q.prev[u] = Nil
      /\ q.first \in A \cup {Nil}
      /\ \A S \in SUBSET A : S # {} => \E u \in S : q.prev[u] \notin S
  BY DEF Chain
<1>6. /\ next[t] = q.first /\ prev[t] = Nil
      /\ \A u \in Timer : u # t => /\ next[u] = q.next[u]
                                   /\ prev[u] = IF u = q.first THEN t ELSE q.prev[u]
  BY <1>0
<1> HIDE DEF next, prev
<1>7. \A u \in Timer \ B : next[u] = Nil /\ prev[u] = Nil
  <2>1. ASSUME NEW u \in Timer, u \notin A, u # t
        PROVE  next[u] = Nil /\ prev[u] = Nil
    <3>1. u # q.first /\ u \in Timer \ A
      BY <2>1, <1>0, <1>5
    <3> QED
      BY <3>1, <2>1, <1>5, <1>6
  <2> QED
    BY <2>1
<1>8. ASSUME NEW u \in B
      PROVE  /\ next[u] \in B \cup {Nil} /\ prev[u] \in B \cup {Nil}
             /\ prev[u] = Nil <=> t = u
             /\ \A v \in B : next[u] = v <=> prev[v] = u
  <2>1. next[u] \in B \cup {Nil} /\ prev[u] \in B \cup {Nil} /\ (prev[u] = Nil <=> t = u)
    BY <1>0, <1>5, <1>6
  <2>2. ASSUME NEW v \in B
        PROVE  next[u] = v <=> prev[v] = u
    <3>1. CASE u = t
      <4>1. CASE v = t
        BY <3>1, <4>1, <1>0, <1>5, <1>6
      <4>2. CASE v # t
        BY <3>1, <4>2, <1>0, <1>5, <1>6
      <4> QED
        BY <4>1, <4>2
    <3>2. CASE u # t /\ v = t
      BY <3>2, <1>0, <1>5, <1>6
    <3>3. CASE u # t /\ v # t
      <4>1. u \in A /\ v \in A /\ u \in Timer /\ v \in Timer
        BY <3>3
      <4> QED
        BY <3>3, <4>1, <1>0, <1>5, <1>6
    <3> QED
      BY <3>1, <3>2, <3>3
  <2> QED
    BY <2>1, <2>2
<1>9. ASSUME NEW S \in SUBSET B, S # {}
      PROVE  \E u \in S : prev[u] \notin S
  <2>1. CASE t \in S
    BY <2>1, <1>0, <1>6
  <2>2. CASE t \notin S
    <3>1. S \in SUBSET A
      BY <2>2
    <3>2. PICK u \in S : q.prev[u] \notin S
      BY <3>1, <1>9, <1>5
    <3> QED
      BY <2>2, <3>1, <3>2, <1>6
  <2> QED
    BY <2>1, <2>2
<1> HIDE DEF p
<1>10. Chain(p, B)
  <2>1. \A u \in B : {next[u], prev[u]} \subseteq B \cup {Nil}
    BY <1>8
  <2> QED
    BY <2>1, <1>2, <1>7, <1>8, <1>9 DEF Chain
<1> QED
  BY <1>2, <1>4, <1>10 DEF p

-----------------------------------------------------------------------------
(* remove_timer.                                                           *)

LEMMA InHeap ==
  ASSUME NEW q \in Queues, HeapIndexed(q), NEW t \in Timer
  PROVE  q.index[t] # 0 <=> \E e \in Entries(q) : e.timer = t
BY QueueFields DEF HeapIndexed, Entries

\* The entry of t exchanged with the last, and taken off.
Exchanged(q, t) ==
  IF q.index[t] = Len(q.heap) THEN q ELSE SwapHeap(q, q.index[t], Len(q.heap))

Without(q, t) == [PopBack(Exchanged(q, t)) EXCEPT !.index[t] = 0]

LEMMA ExchangedFacts ==
  ASSUME NEW q \in Queues, HeapIndexed(q), NEW t \in Timer, q.index[t] # 0
  PROVE  LET p == Exchanged(q, t)
             i == q.index[t]
             n == Len(q.heap)
         IN  /\ n \in Nat /\ i \in 1 .. n /\ p \in Queues /\ HeapIndexed(p) /\ Reordered(p, q)
             /\ p.heap[n] = q.heap[i] /\ p.heap[n].timer = t /\ p.index[t] = n
             /\ i < n => p.heap[i] = q.heap[n]
             /\ \A k \in 1 .. n : k # i /\ k # n => p.heap[k] = q.heap[k]
<1> DEFINE p == Exchanged(q, t)
           i == q.index[t]
           n == Len(q.heap)
<1>1. i \in 1 .. n /\ q.heap[i].timer = t /\ n \in Nat /\ n \in 1 .. n
  BY QueueFields DEF HeapIndexed
<1>2. CASE i = n
  <2>1. p = q
    BY <1>2 DEF Exchanged
  <2> QED
    BY <1>1, <1>2, <2>1 DEF Reordered
<1>3. CASE i # n
  <2>1. p = SwapHeap(q, i, n)
    BY <1>3 DEF Exchanged
  <2>2. /\ p \in Queues /\ HeapIndexed(p) /\ Reordered(p, q)
        /\ p.heap[i] = q.heap[n] /\ p.heap[n] = q.heap[i]
        /\ \A k \in 1 .. n : k # i /\ k # n => p.heap[k] = q.heap[k]
    BY <1>1, <1>3, <2>1, SwapFacts, SMTT(30)
  <2>3. p.heap[n].timer = t /\ Len(p.heap) = n
    BY <1>1, <2>2 DEF Reordered
  <2>4. p.index[t] = n
    BY <1>1, <2>2, <2>3 DEF HeapIndexed
  <2> QED
    BY <1>1, <2>2, <2>3, <2>4
<1> QED
  BY <1>2, <1>3

LEMMA WithoutFacts ==
  ASSUME NEW q \in Queues, HeapIndexed(q), NEW t \in Timer, q.index[t] # 0
  PROVE  LET p == Without(q, t)
             i == q.index[t]
             n == Len(q.heap)
         IN  /\ p \in Queues /\ HeapIndexed(p) /\ Len(p.heap) = n - 1
             /\ Entries(p) = { e \in Entries(q) : e.timer # t }
             /\ i < n => p.heap[i] = q.heap[n]
             /\ \A k \in 1 .. n - 1 : k # i => p.heap[k] = q.heap[k]
             /\ p.first = q.first /\ p.next = q.next /\ p.prev = q.prev /\ p.waits = q.waits
<1> DEFINE p == Without(q, t)
           r == Exchanged(q, t)
           i == q.index[t]
           n == Len(q.heap)
           h == SubSeq(r.heap, 1, n - 1)
           x == [r.index EXCEPT ![t] = 0]
<1>1. /\ n \in Nat /\ i \in 1 .. n /\ r \in Queues /\ HeapIndexed(r) /\ Reordered(r, q)
      /\ r.heap[n].timer = t /\ r.index[t] = n
      /\ i < n => r.heap[i] = q.heap[n]
      /\ \A k \in 1 .. n : k # i /\ k # n => r.heap[k] = q.heap[k]
  BY ExchangedFacts
<1>2. Len(r.heap) = n /\ Entries(r) = Entries(q)
  BY <1>1 DEF Reordered
<1> HIDE DEF r
<1>3. p = [r EXCEPT !.heap = h, !.index = x]
  BY <1>1, <1>2 DEF Without, PopBack, Queues, r
<1>4. /\ r.heap \in Seq(Entry) /\ r.index \in [Timer -> Nat]
      /\ \A k \in 1 .. n : r.heap[k] \in Entry /\ r.heap[k].timer \in Timer
  BY <1>1, <1>2, QueueFields
<1>5. h \in Seq(Entry) /\ Len(h) = n - 1 /\ \A k \in 1 .. n - 1 : h[k] = r.heap[k]
  BY <1>1, <1>2, <1>4
<1>6. /\ x \in [Timer -> Nat] /\ x[t] = 0
      /\ \A u \in Timer : u # t => x[u] = r.index[u]
  BY <1>4
<1> HIDE DEF h, x
<1>7. /\ p.heap = h /\ p.index = x /\ p.first = r.first /\ p.next = r.next
      /\ p.prev = r.prev /\ p.waits = r.waits
  BY <1>1, <1>3 DEF Queues
<1>8. p \in Queues
  BY <1>1, <1>3, <1>5, <1>6 DEF Queues
<1>9. \A k \in 1 .. n - 1 : r.heap[k].timer # t
  BY <1>1, <1>2 DEF HeapIndexed
<1> HIDE DEF p
<1>10. HeapIndexed(p)
  <2>1. ASSUME NEW k \in 1 .. n - 1
        PROVE  x[h[k].timer] = k
    <3>1. k \in 1 .. n /\ h[k] = r.heap[k] /\ r.heap[k].timer # t /\ r.heap[k].timer \in Timer
      BY <1>1, <1>4, <1>5, <1>9
    <3>2. r.index[r.heap[k].timer] = k
      BY <3>1, <1>1, <1>2 DEF HeapIndexed
    <3> QED
      BY <3>1, <3>2, <1>6
  <2>2. ASSUME NEW u \in Timer, x[u] # 0
        PROVE  x[u] \in 1 .. n - 1 /\ h[x[u]].timer = u
    <3>1. u # t /\ x[u] = r.index[u]
      BY <2>2, <1>6
    <3>2. r.index[u] \in 1 .. n /\ r.heap[r.index[u]].timer = u
      BY <3>1, <2>2, <1>1, <1>2 DEF HeapIndexed
    <3>3. r.index[u] # n
      BY <3>1, <3>2, <1>1
    <3>4. r.index[u] \in 1 .. n - 1
      BY <3>2, <3>3, <1>1
    <3> QED
      BY <3>1, <3>2, <3>4, <1>5
  <2> QED
    BY <2>1, <2>2, <1>5, <1>7 DEF HeapIndexed
<1>11. Entries(p) = { e \in Entries(q) : e.timer # t }
  <2>1. Entries(p) = { h[k] : k \in 1 .. n - 1 }
    BY <1>5, <1>7 DEF Entries
  <2>2. Entries(q) = { r.heap[k] : k \in 1 .. n }
    BY <1>2 DEF Entries
  <2>3. ASSUME NEW k \in 1 .. n - 1
        PROVE  k \in 1 .. n /\ h[k] = r.heap[k] /\ r.heap[k].timer # t
    BY <1>1, <1>5, <1>9
  <2>4. ASSUME NEW k \in 1 .. n, r.heap[k].timer # t
        PROVE  k \in 1 .. n - 1
    BY <2>4, <1>1
  <2>5. \A e : e \in Entries(p) <=> e \in Entries(q) /\ e.timer # t
    BY <2>1, <2>2, <2>3, <2>4
  <2> QED
    BY <2>5
<1>12. i < n => p.heap[i] = q.heap[n]
  <2>1. i < n => i \in 1 .. n - 1
    BY <1>1
  <2> QED
    BY <2>1, <1>1, <1>5, <1>7
<1>13. \A k \in 1 .. n - 1 : k # i => p.heap[k] = q.heap[k]
  BY <1>1, <1>5, <1>7
<1> QED
  BY <1>1, <1>5, <1>7, <1>8, <1>10, <1>11, <1>12, <1>13 DEF p, Reordered

\* The entry that takes the place of the removed one is too low or too high.
LEMMA WithoutPlace ==
  ASSUME NEW q \in Queues, HeapIndexed(q), HeapOrdered(q), NEW t \in Timer,
         q.index[t] # 0
  PROVE  LET p == Without(q, t)
             i == q.index[t]
         IN  IF i = Len(q.heap) THEN HeapOrdered(p)
             ELSE IF i > 1 /\ p.heap[i].time < p.heap[i \div 2].time
             THEN LowAt(p, i) ELSE HighAt(p, i)
<1> DEFINE p == Without(q, t)
           i == q.index[t]
           n == Len(q.heap)
<1>1. /\ p \in Queues /\ HeapIndexed(p) /\ Len(p.heap) = n - 1
      /\ i < n => p.heap[i] = q.heap[n]
      /\ \A k \in 1 .. n - 1 : k # i => p.heap[k] = q.heap[k]
  BY WithoutFacts
<1>2. n \in Nat /\ i \in 1 .. n
  BY QueueFields DEF HeapIndexed
<1> HIDE DEF p, i, n
<1>3. \A j \in 2 .. n : q.heap[j \div 2].time <= q.heap[j].time
  BY DEF HeapOrdered, n
<1>4. \A k \in 1 .. n - 1 : p.heap[k].time \in Nat
  BY <1>1, QueueFields
<1>5. \A k \in 1 .. n : q.heap[k].time \in Nat
  BY QueueFields DEF n
<1>6. ASSUME NEW j \in 2 .. n - 1, j # i, j \div 2 # i
      PROVE  p.heap[j \div 2].time <= p.heap[j].time
  <2>1. j \in 2 .. n /\ j \in 1 .. n - 1 /\ j \div 2 \in 1 .. n - 1
    BY <1>2
  <2>2. p.heap[j] = q.heap[j] /\ p.heap[j \div 2] = q.heap[j \div 2]
    BY <2>1, <1>1, <1>6
  <2> QED
    BY <2>1, <2>2, <1>3
<1>7. ASSUME NEW j \in 2 .. n - 1, j \div 2 = i
      PROVE  /\ q.heap[i].time <= p.heap[j].time
             /\ i > 1 => p.heap[i \div 2].time <= p.heap[j].time
  <2>1. j \in 2 .. n /\ j \in 1 .. n - 1 /\ j \in 1 .. n /\ j # i
    BY <1>2, <1>7
  <2>2. q.heap[i].time <= p.heap[j].time
    BY <2>1, <1>1, <1>3, <1>7
  <2>3. ASSUME i > 1
        PROVE  p.heap[i \div 2].time <= p.heap[j].time
    <3>1. i \in 2 .. n /\ i \div 2 \in 1 .. n - 1 /\ i \div 2 \in 1 .. n /\ i \div 2 # i
      BY <2>3, <1>2
    <3>2. p.heap[i \div 2] = q.heap[i \div 2] /\ q.heap[i \div 2].time <= q.heap[i].time
      BY <3>1, <1>1, <1>3
    <3> QED
      BY <3>1, <3>2, <2>1, <2>2, <1>2, <1>4, <1>5
  <2> QED
    BY <2>2, <2>3
<1>8. CASE i = n
  <2>1. \A j \in 2 .. n - 1 : j # i /\ j \div 2 # i
    BY <1>2, <1>8
  <2>2. HeapOrdered(p)
    BY <2>1, <1>1, <1>6 DEF HeapOrdered
  <2> QED
    BY <2>2, <1>8 DEF p, i, n
<1>9. CASE i # n /\ i > 1 /\ p.heap[i].time < p.heap[i \div 2].time
  <2>1. i \in 1 .. n - 1 /\ i \in 1 .. n /\ i \div 2 \in 1 .. n - 1
    BY <1>2, <1>9
  <2>2. ASSUME NEW j \in 2 .. n - 1, j # i
        PROVE  p.heap[j \div 2].time <= p.heap[j].time
    <3>1. CASE j \div 2 = i
      <4>1. p.heap[i \div 2].time <= p.heap[j].time /\ j \in 1 .. n - 1
        BY <3>1, <1>7, <1>9
      <4> QED
        BY <4>1, <3>1, <2>1, <1>4, <1>9
    <3>2. CASE j \div 2 # i
      BY <3>2, <2>2, <1>6
    <3> QED
      BY <3>1, <3>2
  <2>3. LowAt(p, i)
    BY <2>1, <2>2, <1>1, <1>7 DEF LowAt
  <2> QED
    BY <2>3, <1>9 DEF p, i, n
<1>10. CASE i # n /\ ~ (i > 1 /\ p.heap[i].time < p.heap[i \div 2].time)
  <2>1. i \in 1 .. n - 1 /\ i \in 1 .. n
    BY <1>2, <1>10
  <2>2. ASSUME NEW j \in 2 .. n - 1, j \div 2 # i
        PROVE  p.heap[j \div 2].time <= p.heap[j].time
    <3>1. CASE j = i
      <4>1. i > 1 /\ i \div 2 \in 1 .. n - 1
        <5>1. i \in 2 .. n - 1
          BY <3>1
        <5> QED
          BY <5>1, <1>2
      <4> QED
        BY <4>1, <3>1, <2>1, <1>4, <1>10
    <3>2. CASE j # i
      BY <3>2, <2>2, <1>6
    <3> QED
      BY <3>1, <3>2
  <2>3. HighAt(p, i)
    BY <2>1, <2>2, <1>1, <1>7 DEF HighAt
  <2> QED
    BY <2>3, <1>10 DEF p, i, n
<1> QED
  BY <1>8, <1>9, <1>10

\* What the operations rely on and leave.
Sound(q) == q \in Queues /\ HeapOrdered(q) /\ WellIndexed(q) /\ WellLinked(q)

\* The heap alone, its entries being those of the timers of A.
HeapOf(q, A) ==
  /\ q \in Queues /\ HeapOrdered(q) /\ HeapIndexed(q)
  /\ \A t \in Timer : q.index[t] # 0 <=> t \in A

LEMMA SoundParts ==
  ASSUME NEW q
  PROVE  Sound(q) <=> HeapOf(q, Active(q)) /\ Chain(q, Active(q))
<1>1. ASSUME Sound(q)
      PROVE  HeapOf(q, Active(q))
  <2>1. q.index \in [Timer -> Nat] /\ Len(q.heap) \in Nat
    BY <1>1, QueueFields DEF Sound
  <2> QED
    BY <1>1, <2>1 DEF Sound, WellIndexed, HeapIndexed, HeapOf
<1>2. ASSUME HeapOf(q, Active(q))
      PROVE  q \in Queues /\ HeapOrdered(q) /\ WellIndexed(q)
  BY <1>2, ActiveIsTimer DEF WellIndexed, HeapIndexed, HeapOf
<1> QED
  BY <1>1, <1>2, LinkedIsChain DEF Sound

\* remove_timer: the heap and the list lose the timer, and nothing else changes.
LEMMA RemoveTimerFacts ==
  ASSUME NEW q, NEW A \in SUBSET Timer, HeapOf(q, A), Chain(q, A), NEW t \in A
  PROVE  LET p == RemoveTimer(q, t)
         IN  /\ HeapOf(p, A \ {t}) /\ Chain(p, A \ {t})
             /\ p.waits = q.waits /\ Len(p.heap) = Len(q.heap) - 1
             /\ Entries(p) = { e \in Entries(q) : e.timer # t }
<1> DEFINE p == RemoveTimer(q, t)
           i == q.index[t]
           n == Len(q.heap)
           w == Without(q, t)
           s == IF i = n THEN w
                ELSE IF i > 1 /\ w.heap[i].time < w.heap[i \div 2].time
                THEN UpHeap(w, i) ELSE DownHeap(w, i)
<1>1. /\ q \in Queues /\ HeapOrdered(q) /\ HeapIndexed(q) /\ t \in Timer /\ i # 0
      /\ i \in 1 .. n
  BY DEF HeapOf, HeapIndexed
<1>2. p = Unlink(s, t)
  BY <1>1 DEF RemoveTimer, Without, Exchanged
<1>3. /\ w \in Queues /\ HeapIndexed(w) /\ Len(w.heap) = n - 1
      /\ Entries(w) = { e \in Entries(q) : e.timer # t }
      /\ w.first = q.first /\ w.next = q.next /\ w.prev = q.prev /\ w.waits = q.waits
  BY <1>1, WithoutFacts
<1>4. IF i = n THEN HeapOrdered(w)
      ELSE IF i > 1 /\ w.heap[i].time < w.heap[i \div 2].time
      THEN LowAt(w, i) ELSE HighAt(w, i)
  BY <1>1, WithoutPlace
<1> HIDE DEF w
<1>5. s \in Queues /\ HeapIndexed(s) /\ HeapOrdered(s) /\ Reordered(s, w)
  <2>1. CASE i = n
    BY <2>1, <1>3, <1>4 DEF Reordered
  <2>2. CASE i # n /\ i > 1 /\ w.heap[i].time < w.heap[i \div 2].time
    <3>1. LowAt(w, i) /\ s = UpHeap(w, i)
      BY <2>2, <1>4
    <3> QED
      BY <3>1, UpHeapFacts
  <2>3. CASE i # n /\ ~ (i > 1 /\ w.heap[i].time < w.heap[i \div 2].time)
    <3>1. HighAt(w, i) /\ s = DownHeap(w, i)
      BY <2>3, <1>4
    <3> QED
      BY <3>1, DownHeapFacts
  <2> QED
    BY <2>1, <2>2, <2>3
<1> HIDE DEF s
<1>6. /\ Len(s.heap) = n - 1 /\ Entries(s) = { e \in Entries(q) : e.timer # t }
      /\ s.first = q.first /\ s.next = q.next /\ s.prev = q.prev /\ s.waits = q.waits
  BY <1>3, <1>5 DEF Reordered
<1>7. Chain(s, A)
  BY <1>6 DEF Chain
<1>8. /\ p \in Queues /\ Chain(p, A \ {t})
      /\ p.heap = s.heap /\ p.index = s.index /\ p.waits = s.waits
  BY <1>2, <1>5, <1>7, UnlinkFacts
<1> HIDE DEF p
<1>9. HeapIndexed(p) /\ HeapOrdered(p) /\ Entries(p) = Entries(s)
  BY <1>5, <1>8 DEF HeapIndexed, HeapOrdered, Entries
<1>10. ASSUME NEW u \in Timer
       PROVE  p.index[u] # 0 <=> u \in A \ {t}
  <2>1. p.index[u] # 0 <=> \E e \in Entries(p) : e.timer = u
    BY <1>8, <1>9, InHeap
  <2>2. q.index[u] # 0 <=> \E e \in Entries(q) : e.timer = u
    BY <1>1, InHeap
  <2>3. q.index[u] # 0 <=> u \in A
    BY DEF HeapOf
  <2> QED
    BY <2>1, <2>2, <2>3, <1>6, <1>9
<1> QED
  BY <1>6, <1>8, <1>9, <1>10 DEF HeapOf, p

-----------------------------------------------------------------------------
(* The operations.                                                         *)

LEMMA WaitsChange ==
  ASSUME NEW q \in Queues, NEW ws \in [Timer -> Seq(Wait)]
  PROVE  LET p == [q EXCEPT !.waits = ws]
         IN  /\ p \in Queues /\ p.waits = ws /\ p.heap = q.heap /\ p.index = q.index
             /\ p.first = q.first /\ p.next = q.next /\ p.prev = q.prev
             /\ Entries(p) = Entries(q)
             /\ \A A : /\ HeapOf(q, A) => HeapOf(p, A)
                       /\ Chain(q, A) => Chain(p, A)
<1> DEFINE p == [q EXCEPT !.waits = ws]
<1>1. /\ p \in Queues /\ p.waits = ws /\ p.heap = q.heap /\ p.index = q.index
      /\ p.first = q.first /\ p.next = q.next /\ p.prev = q.prev
  BY DEF Queues
<1> HIDE DEF p
<1>2. ASSUME NEW A
      PROVE  /\ HeapOf(q, A) => HeapOf(p, A)
             /\ Chain(q, A) => Chain(p, A)
  BY <1>1 DEF HeapOf, HeapOrdered, HeapIndexed, Chain
<1>3. Entries(p) = Entries(q)
  BY <1>1 DEF Entries
<1> QED
  BY <1>1, <1>2, <1>3 DEF p

\* cancel_timer, called with all waits.
LEMMA CancelTimerFacts ==
  ASSUME NEW q, Sound(q), NEW t \in Timer
  PROVE  LET p == CancelTimer(q, t)
         IN  /\ Sound(p) /\ p.waits = [q.waits EXCEPT ![t] = << >>]
             /\ Entries(p) = { e \in Entries(q) : e.timer # t }
             /\ t \in Active(q) => Len(p.heap) = Len(q.heap) - 1
<1> DEFINE p == CancelTimer(q, t)
           A == Active(q)
           ws == [q.waits EXCEPT ![t] = << >>]
           r == [q EXCEPT !.waits = ws]
<1>1. /\ q \in Queues /\ HeapOf(q, A) /\ Chain(q, A) /\ HeapIndexed(q)
      /\ q.waits \in [Timer -> Seq(Wait)]
  BY SoundParts, QueueFields DEF Sound, HeapOf
<1>2. Listed(q, t) <=> t \in A
  BY ListedFacts DEF Sound
<1>3. CASE t \in A
  <2>1. p = RemoveTimer(r, t)
    BY <1>1, <1>2, <1>3 DEF CancelTimer, Queues
  <2>2. ws \in [Timer -> Seq(Wait)]
    BY <1>1
  <2>3. /\ r.waits = ws /\ r.heap = q.heap /\ Entries(r) = Entries(q)
        /\ HeapOf(r, A) /\ Chain(r, A)
    BY <2>2, <1>1, WaitsChange
  <2> HIDE DEF r
  <2>4. A \in SUBSET Timer
    BY ActiveIsTimer
  <2>5. /\ HeapOf(p, A \ {t}) /\ Chain(p, A \ {t})
        /\ p.waits = ws /\ Len(p.heap) = Len(q.heap) - 1
        /\ Entries(p) = { e \in Entries(q) : e.timer # t }
    BY <2>1, <2>3, <2>4, <1>3, RemoveTimerFacts
  <2> HIDE DEF p
  <2>6. Active(p) = A \ {t}
    BY <2>5, <1>1 DEF Active
  <2> QED
    BY <2>5, <2>6, SoundParts DEF p
<1>4. CASE t \notin A
  <2>1. p = q
    BY <1>2, <1>4 DEF CancelTimer
  <2>2. q.waits[t] = << >>
    BY <1>4 DEF Active
  <2>3. ws = q.waits
    BY <2>2, <1>1
  <2>4. \A e \in Entries(q) : e.timer # t
    BY <1>1, <1>4, InHeap DEF HeapOf
  <2> QED
    BY <2>1, <2>3, <2>4, <1>4
<1> QED
  BY <1>3, <1>4

\* cancel_timer, called with one wait: the timer stays while it has others.
LEMMA CancelOneWaitFacts ==
  ASSUME NEW q, Sound(q), NEW t \in Timer, q.waits[t] # << >>
  PROVE  LET p == CancelOneWait(q, t)
         IN  /\ Sound(p) /\ p.waits = [q.waits EXCEPT ![t] = Tail(@)]
             /\ Entries(p) \subseteq Entries(q)
<1> DEFINE p == CancelOneWait(q, t)
           A == Active(q)
           ws == [q.waits EXCEPT ![t] = Tail(q.waits[t])]
           r == [q EXCEPT !.waits = ws]
<1>1. /\ q \in Queues /\ HeapOf(q, A) /\ Chain(q, A) /\ HeapIndexed(q)
      /\ q.waits \in [Timer -> Seq(Wait)] /\ t \in A
  BY SoundParts, QueueFields DEF Sound, HeapOf, Active
<1>2. Listed(q, t)
  BY <1>1, ListedFacts DEF Sound
<1>3. ws \in [Timer -> Seq(Wait)]
  BY <1>1
<1>4. /\ r.waits = ws /\ r.heap = q.heap /\ Entries(r) = Entries(q)
      /\ HeapOf(r, A) /\ Chain(r, A)
  BY <1>1, <1>3, WaitsChange
<1>5. r = [q EXCEPT !.waits[t] = Tail(@)]
  BY <1>1 DEF Queues
<1>6. p = IF r.waits[t] = << >> THEN RemoveTimer(r, t) ELSE r
  BY <1>2, <1>5 DEF CancelOneWait
<1> HIDE DEF r
<1>7. CASE ws[t] = << >>
  <2>1. A \in SUBSET Timer
    BY ActiveIsTimer
  <2>4. p = RemoveTimer(r, t)
    BY <1>4, <1>6, <1>7
  <2> HIDE DEF p
  <2>2. /\ HeapOf(p, A \ {t}) /\ Chain(p, A \ {t}) /\ p.waits = ws
        /\ Entries(p) = { e \in Entries(q) : e.timer # t }
    BY <2>1, <2>4, <1>1, <1>4, RemoveTimerFacts
  <2>3. Active(p) = A \ {t}
    BY <2>2, <1>1, <1>7 DEF Active
  <2> QED
    BY <2>2, <2>3, SoundParts DEF p
<1>8. CASE ws[t] # << >>
  <2>1. p = r
    BY <1>4, <1>6, <1>8
  <2>2. Active(r) = A
    BY <1>1, <1>4, <1>8 DEF Active
  <2> QED
    BY <2>1, <2>2, <1>4, SoundParts
<1> QED
  BY <1>7, <1>8

LEMMA AppendFills ==
  ASSUME NEW S, NEW s \in Seq(S), NEW x \in S
  PROVE  Append(s, x) # << >>
<1>1. Len(Append(s, x)) = Len(s) + 1 /\ Len(s) \in Nat
  OBVIOUS
<1> QED
  BY <1>1

\* enqueue_timer: a timer that had no wait gets an entry and a link.
LEMMA EnqueueTimerFacts ==
  ASSUME NEW q, Sound(q), NEW time \in Nat, NEW t \in Timer, NEW wait \in Wait
  PROVE  LET p == EnqueueTimer(q, time, t, wait)
         IN  /\ Sound(p) /\ p.waits = [q.waits EXCEPT ![t] = Append(@, wait)]
             /\ t \in Active(q) => p.heap = q.heap
             /\ t \notin Active(q) =>
                  Entries(p) = Entries(q) \cup {[time |-> time, timer |-> t]}
<1> DEFINE A == Active(q)
           n == Len(q.heap) + 1
           e == [time |-> time, timer |-> t]
           base == [q EXCEPT !.heap = Append(q.heap, e), !.index = [q.index EXCEPT ![t] = n]]
           up == UpHeap(base, n)
           added == LinkFirst(up, t)
           r == IF t \in A THEN q ELSE added
           p == EnqueueTimer(q, time, t, wait)
<1>1. /\ q \in Queues /\ HeapOf(q, A) /\ Chain(q, A) /\ HeapIndexed(q) /\ HeapOrdered(q)
      /\ A \in SUBSET Timer
  BY SoundParts, ActiveIsTimer DEF Sound, HeapOf
<1>2. /\ q.waits \in [Timer -> Seq(Wait)] /\ q.heap \in Seq(Entry)
      /\ q.index \in [Timer -> Nat] /\ Len(q.heap) \in Nat
      /\ \A i \in 1 .. Len(q.heap) : q.heap[i].timer \in Timer /\ q.heap[i] \in Entry
  BY <1>1, QueueFields
<1>3. p = [r EXCEPT !.waits[t] = Append(@, wait)]
  <2>1. base = [q EXCEPT !.heap = Append(@, e), !.index[t] = n]
    BY <1>1, <1>2 DEF Queues
  <2>2. Listed(q, t) <=> t \in A
    BY ListedFacts DEF Sound
  <2> HIDE DEF base
  <2> QED
    BY <2>1, <2>2 DEF EnqueueTimer
<1>4. ASSUME t \notin A
      PROVE  /\ HeapOf(added, A \cup {t}) /\ Chain(added, A \cup {t})
             /\ added.waits = q.waits /\ Entries(added) = Entries(q) \cup {e}
  <2> DEFINE h == Append(q.heap, e)
             x == [q.index EXCEPT ![t] = n]
  <2>1. /\ base.heap = h /\ base.index = x /\ base.first = q.first
        /\ base.next = q.next /\ base.prev = q.prev /\ base.waits = q.waits
    BY <1>1 DEF Queues
  <2>2. e \in Entry /\ e.timer = t
    BY DEF Entry
  <2> HIDE DEF e
  <2>3. /\ h \in Seq(Entry) /\ Len(h) = n /\ h[n] = e
        /\ \A i \in 1 .. n - 1 : h[i] = q.heap[i]
    BY <1>2, <2>2
  <2>4. /\ x \in [Timer -> Nat] /\ x[t] = n
        /\ \A u \in Timer : u # t => x[u] = q.index[u]
    BY <1>2
  <2>5. base \in Queues
    BY <1>1, <2>3, <2>4 DEF Queues
  <2>6. q.index[t] = 0 /\ n \in Nat /\ n >= 1
    BY <1>2, <1>4, <1>1 DEF HeapOf
  <2> HIDE DEF h, x, base
  <2>7. HeapIndexed(base)
    <3>1. ASSUME NEW i \in 1 .. n
          PROVE  x[h[i].timer] = i
      <4>1. CASE i = n
        BY <4>1, <2>2, <2>3, <2>4
      <4>2. CASE i # n
        <5>1. i \in 1 .. n - 1 /\ i \in 1 .. Len(q.heap)
          BY <4>2, <2>6, <1>2
        <5>2. h[i] = q.heap[i] /\ q.heap[i].timer \in Timer /\ q.index[q.heap[i].timer] = i
          BY <5>1, <2>3, <1>1, <1>2 DEF HeapIndexed
        <5>3. q.heap[i].timer # t
          BY <5>1, <5>2, <2>6
        <5> QED
          BY <5>2, <5>3, <2>4
      <4> QED
        BY <4>1, <4>2
    <3>2. ASSUME NEW u \in Timer, x[u] # 0
          PROVE  x[u] \in 1 .. n /\ h[x[u]].timer = u
      <4>1. CASE u = t
        BY <4>1, <2>2, <2>3, <2>4, <2>6
      <4>2. CASE u # t
        <5>1. x[u] = q.index[u] /\ q.index[u] \in 1 .. Len(q.heap) /\ q.heap[q.index[u]].timer = u
          BY <4>2, <3>2, <2>4, <1>1 DEF HeapIndexed
        <5>2. q.index[u] \in 1 .. n /\ q.index[u] \in 1 .. n - 1
          BY <5>1, <1>2
        <5> QED
          BY <5>1, <5>2, <2>3
      <4> QED
        BY <4>1, <4>2
    <3> QED
      BY <3>1, <3>2, <2>1, <2>3 DEF HeapIndexed
  <2>8. LowAt(base, n)
    <3>1. ASSUME NEW j \in 2 .. n, j # n
          PROVE  h[j \div 2].time <= h[j].time
      <4>1. j \in 2 .. Len(q.heap) /\ j \in 1 .. n - 1 /\ j \div 2 \in 1 .. n - 1
        BY <3>1, <1>2, <2>6
      <4>2. q.heap[j \div 2].time <= q.heap[j].time
        BY <4>1, <1>1 DEF HeapOrdered
      <4> QED
        BY <4>1, <4>2, <2>3
    <3>2. \A j \in 2 .. n : j \div 2 # n
      BY <2>6
    <3> QED
      <4>1. Len(base.heap) = n /\ n \in 1 .. n
        BY <2>1, <2>3, <2>6
      <4>2. \A j \in 2 .. n : j # n => base.heap[j \div 2].time <= base.heap[j].time
        BY <3>1, <2>1
      <4> HIDE DEF n
      <4> QED
        BY <3>2, <4>1, <4>2, <2>5, <2>7 DEF LowAt
  <2>9. up \in Queues /\ HeapIndexed(up) /\ HeapOrdered(up) /\ Reordered(up, base)
    BY <2>8, UpHeapFacts
  <2> HIDE DEF up
  <2>10. Entries(base) = Entries(q) \cup {e}
    <3>1. Entries(base) = { h[i] : i \in 1 .. n }
      BY <2>1, <2>3 DEF Entries
    <3>2. ASSUME NEW i \in 1 .. n
          PROVE  i = n \/ i \in 1 .. Len(q.heap)
      BY <1>2
    <3>3. ASSUME NEW i \in 1 .. Len(q.heap)
          PROVE  i \in 1 .. n /\ h[i] = q.heap[i]
      BY <1>2, <2>3
    <3>4. n \in 1 .. n /\ h[n] = e
      BY <2>3, <2>6
    <3>5. \A d : d \in Entries(base) <=> d \in Entries(q) \/ d = e
      <4>1. ASSUME NEW d \in Entries(base)
            PROVE  d \in Entries(q) \/ d = e
        <5>1. PICK i \in 1 .. n : d = h[i]
          BY <3>1, <4>1
        <5> QED
          BY <5>1, <3>2, <3>3, <3>4 DEF Entries
      <4>2. ASSUME NEW d \in Entries(q)
            PROVE  d \in Entries(base)
        <5>1. PICK i \in 1 .. Len(q.heap) : d = q.heap[i]
          BY DEF Entries
        <5> QED
          BY <5>1, <3>1, <3>3
      <4>3. e \in Entries(base)
        BY <3>1, <3>4
      <4> QED
        BY <4>1, <4>2, <4>3
    <3> QED
      BY <3>5
  <2>11. Chain(up, A) /\ up.waits = q.waits /\ Entries(up) = Entries(q) \cup {e}
    BY <1>1, <2>1, <2>9, <2>10 DEF Chain, Reordered
  <2>12. t \in Timer \ A
    BY <1>4
  <2>13. /\ added \in Queues /\ Chain(added, A \cup {t})
         /\ added.heap = up.heap /\ added.index = up.index /\ added.waits = up.waits
    BY <1>1, <2>9, <2>11, <2>12, LinkFirstFacts
  <2> HIDE DEF added
  <2>14. HeapIndexed(added) /\ HeapOrdered(added) /\ Entries(added) = Entries(q) \cup {e}
    <3>1. HeapIndexed(added) /\ HeapOrdered(added)
      BY <2>9, <2>13 DEF HeapIndexed, HeapOrdered
    <3>2. Entries(added) = Entries(up)
      BY <2>13 DEF Entries
    <3> QED
      BY <3>1, <3>2, <2>11
  <2>15. ASSUME NEW u \in Timer
         PROVE  added.index[u] # 0 <=> u \in A \cup {t}
    <3>1. added.index[u] # 0 <=> \E d \in Entries(added) : d.timer = u
      BY <2>13, <2>14, InHeap
    <3>2. q.index[u] # 0 <=> \E d \in Entries(q) : d.timer = u
      BY <1>1, InHeap
    <3>3. q.index[u] # 0 <=> u \in A
      BY <1>1 DEF HeapOf
    <3> QED
      BY <3>1, <3>2, <3>3, <2>2, <2>14
  <2> QED
    BY <2>11, <2>13, <2>14, <2>15 DEF HeapOf
<1>5. /\ HeapOf(r, A \cup {t}) /\ Chain(r, A \cup {t}) /\ r.waits = q.waits
      /\ t \in A => r.heap = q.heap
      /\ t \notin A => Entries(r) = Entries(q) \cup {e}
  <2>1. CASE t \in A
    <3>1. A \cup {t} = A
      BY <2>1
    <3> QED
      BY <2>1, <3>1, <1>1
  <2>2. CASE t \notin A
    <3>1. r = added
      BY <2>2
    <3> HIDE DEF r, added
    <3> QED
      BY <3>1, <2>2, <1>4
  <2> QED
    BY <2>1, <2>2
<1> HIDE DEF r
<1> DEFINE ws == [q.waits EXCEPT ![t] = Append(q.waits[t], wait)]
<1>6. r \in Queues
  BY <1>5 DEF HeapOf
<1>7. p = [r EXCEPT !.waits = ws]
  BY <1>3, <1>5, <1>6 DEF Queues
<1>8. ws \in [Timer -> Seq(Wait)]
  BY <1>2
<1>10. ws[t] # << >> /\ \A u \in Timer : u # t => ws[u] = q.waits[u]
  <2>1. q.waits[t] \in Seq(Wait) /\ ws[t] = Append(q.waits[t], wait)
    BY <1>2
  <2>3. ws[t] # << >>
    BY <2>1, AppendFills
  <2> QED
    BY <2>3, <1>2
<1> HIDE DEF p, ws, A
<1>9. /\ p.waits = ws /\ p.heap = r.heap /\ Entries(p) = Entries(r)
      /\ HeapOf(p, A \cup {t}) /\ Chain(p, A \cup {t})
  BY <1>5, <1>6, <1>7, <1>8, WaitsChange
<1>11. Active(p) = A \cup {t}
  BY <1>9, <1>10 DEF Active, A
<1>12. Sound(p)
  BY <1>9, <1>11, SoundParts
<1> QED
  BY <1>5, <1>9, <1>12 DEF p, ws, A

\* The entry of a timer that has one, and the earliest entry.
LEMMA RootIsEarliest ==
  ASSUME NEW q \in Queues, HeapOrdered(q), NEW i \in 1 .. Len(q.heap)
  PROVE  q.heap[1].time <= q.heap[i].time
<1> DEFINE T == { j \in Nat : j \in 1 .. Len(q.heap) /\ ~ (q.heap[1].time <= q.heap[j].time) }
<1>1. Len(q.heap) \in Nat /\ \A j \in 1 .. Len(q.heap) : q.heap[j].time \in Nat
  BY QueueFields
<1>2. SUFFICES ASSUME T # {}
               PROVE  FALSE
  BY <1>1
<1>3. T \in SUBSET Nat
  OBVIOUS
<1>4. PICK j \in T : \A k \in T : j <= k
  <2> HIDE DEF T
  <2> QED
    BY <1>2, <1>3, LeastNat
<1>5. j \in 1 .. Len(q.heap) /\ ~ (q.heap[1].time <= q.heap[j].time) /\ 1 \in 1 .. Len(q.heap)
  BY <1>1
<1>6. j \in 2 .. Len(q.heap) /\ j \div 2 \in 1 .. Len(q.heap) /\ j \div 2 < j
  <2>1. j # 1
    BY <1>1, <1>5
  <2> QED
    BY <2>1, <1>1, <1>5
<1>7. q.heap[j \div 2].time <= q.heap[j].time
  BY <1>6 DEF HeapOrdered
<1>8. j \div 2 \in T
  BY <1>1, <1>5, <1>6, <1>7
<1>9. j <= j \div 2
  <2> HIDE DEF T
  <2> QED
    BY <1>4, <1>8
<1> QED
  BY <1>6, <1>9

\* get_ready_timers: the timers whose time has come leave, and no others.
LEMMA ReadyTimersFacts ==
  ASSUME NEW q, Sound(q), NEW time \in Nat
  PROVE  LET p == ReadyTimers(q, time)
         IN  /\ Sound(p) /\ Entries(p) = { e \in Entries(q) : e.time > time }
             /\ \A t \in Timer :
                  p.waits[t] = IF \E e \in Entries(q) : e.timer = t /\ e.time <= time
                               THEN << >> ELSE q.waits[t]
<1> DEFINE Kept(p) ==
             /\ Sound(p) /\ Entries(p) \subseteq Entries(q) /\ Len(p.heap) <= Len(q.heap)
             /\ \A e \in Entries(q) : e.time > time => e \in Entries(p)
             /\ \A t \in Timer : 
                  \/ p.waits[t] = q.waits[t]
                  \/ p.waits[t] = << >> /\ \E e \in Entries(q) : e.timer = t /\ e.time <= time
           S == { p \in Queues : Kept(p) }
           Done(p) == p.heap = << >> \/ p.heap[1].time > time
           f == [n \in Nat |-> [p \in S |-> TakeReady(p, time)]]
           after == CHOOSE g : g = [n \in Nat |-> IF n = 0 THEN q ELSE TakeReady(g[n - 1], time)]
<1>0. q \in Queues /\ Len(q.heap) \in Nat
  BY QueueFields DEF Sound
<1>1. q \in S
  BY <1>0
<1>2. ASSUME NEW p \in S
      PROVE  /\ TakeReady(p, time) \in S
             /\ \/ TakeReady(p, time) = p /\ Done(p)
                \/ Len(TakeReady(p, time).heap) = Len(p.heap) - 1
  <2>0. p \in Queues /\ Kept(p) /\ Sound(p) /\ HeapIndexed(p) /\ p.heap \in Seq(Entry)
    BY QueueFields, SoundParts DEF HeapOf
  <2>1. CASE p.heap # << >> /\ p.heap[1].time <= time
    <3> DEFINE e == p.heap[1]
               t == e.timer
               r == CancelTimer(p, t)
    <3>1. 1 \in 1 .. Len(p.heap) /\ Len(p.heap) \in Nat
      BY <2>0, <2>1
    <3>2. e \in Entry /\ t \in Timer /\ e \in Entries(p) /\ e.time <= time /\ e \in Entries(q)
      BY <2>0, <2>1, <3>1, QueueFields DEF Entries
    <3>3. \A d \in Entries(p) : d.timer = t => d = e
      BY <2>0, <3>1 DEF HeapIndexed, Entries
    <3> HIDE DEF e, t
    <3>4. t \in Active(p)
      <4>1. p.index[t] # 0
        BY <2>0, <3>2, InHeap DEF t
      <4> QED
        BY <4>1, <2>0, <3>2, SoundParts DEF HeapOf
    <3>5. TakeReady(p, time) = r
      <4>1. Listed(p, t)
        BY <2>0, <3>2, <3>4, ListedFacts DEF Sound
      <4> QED
        BY <2>1, <4>1 DEF TakeReady, CancelTimer, e, t
    <3>6. /\ Sound(r) /\ r.waits = [p.waits EXCEPT ![t] = << >>]
          /\ Entries(r) = { d \in Entries(p) : d.timer # t }
          /\ Len(r.heap) = Len(p.heap) - 1
      BY <2>0, <3>2, <3>4, CancelTimerFacts
    <3> HIDE DEF r
    <3>7. Entries(r) \subseteq Entries(q) /\ Len(r.heap) <= Len(q.heap)
      BY <2>0, <3>1, <3>6, <1>0
    <3>8. ASSUME NEW d \in Entries(q), d.time > time
          PROVE  d \in Entries(r)
      <4>1. d \in Entries(p)
        BY <3>8, <2>0
      <4>2. d # e
        <5>1. e.time \in Nat
          BY <3>2 DEF Entry
        <5> QED
          BY <5>1, <3>2, <3>8
      <4> QED
        BY <4>1, <4>2, <3>3, <3>6
    <3>9. ASSUME NEW u \in Timer
          PROVE  \/ r.waits[u] = q.waits[u]
                 \/ r.waits[u] = << >> /\ \E d \in Entries(q) : d.timer = u /\ d.time <= time
      <4>1. p.waits \in [Timer -> Seq(Wait)]
        BY <2>0, QueueFields
      <4>2. CASE u = t
        BY <4>1, <4>2, <3>2, <3>6 DEF t
      <4>3. CASE u # t
        <5>1. r.waits[u] = p.waits[u]
          BY <4>1, <4>3, <3>6
        <5> QED
          BY <5>1, <2>0
      <4> QED
        BY <4>2, <4>3
    <3>10. r \in S
      BY <3>6, <3>7, <3>8, <3>9 DEF Sound
    <3> QED
      BY <3>5, <3>6, <3>10
  <2>2. CASE ~ (p.heap # << >> /\ p.heap[1].time <= time)
    <3>1. TakeReady(p, time) = p
      BY <2>2 DEF TakeReady
    <3>2. Done(p)
      <4>1. CASE p.heap # << >>
        <5>1. 1 \in 1 .. Len(p.heap)
          BY <4>1, <2>0
        <5>2. p.heap[1].time \in Nat
          BY <5>1, <2>0, QueueFields
        <5> QED
          BY <4>1, <5>2, <2>2
      <4> QED
        BY <4>1
    <3> QED
      BY <3>1, <3>2
  <2> QED
    BY <2>1, <2>2
<1> HIDE DEF S
<1>3. f \in [Nat -> [S -> S]]
  BY <1>2
<1> HIDE DEF f
<1> DEFINE g == Loop(S, q, f)
<1>4. g \in [Nat -> S] /\ g[0] = q /\ \A n \in Nat : g[n + 1] = f[n][g[n]]
  BY <1>1, <1>3, Iterate
<1> HIDE DEF g
<1>5. ASSUME NEW n \in Nat
      PROVE  g[n] = IF n = 0 THEN q ELSE TakeReady(g[n - 1], time)
  <2>1. CASE n = 0
    BY <2>1, <1>4
  <2>2. CASE n # 0
    <3>1. n - 1 \in Nat /\ (n - 1) + 1 = n
      BY <2>2
    <3>2. g[n] = f[n - 1][g[n - 1]] /\ g[n - 1] \in S
      BY <3>1, <1>4
    <3> QED
      BY <2>2, <3>1, <3>2 DEF f
  <2> QED
    BY <2>1, <2>2
<1>6. g = [n \in Nat |-> IF n = 0 THEN q ELSE TakeReady(g[n - 1], time)]
  BY <1>5, <1>4
<1>7. after = [n \in Nat |-> IF n = 0 THEN q ELSE TakeReady(after[n - 1], time)]
  BY <1>6
<1>8. ReadyTimers(q, time) = after[Len(q.heap)]
  BY DEF ReadyTimers
<1> HIDE DEF after, Done
<1> DEFINE T == { n \in Nat : /\ after[n] \in S
                              /\ \/ Len(after[n].heap) <= Len(q.heap) - n
                                 \/ TakeReady(after[n], time) = after[n] /\ Done(after[n]) }
<1>9. 0 \in T
  BY <1>0, <1>1, <1>7
<1>10. ASSUME NEW n \in T
       PROVE  n + 1 \in T
  <2>1. after[n + 1] = TakeReady(after[n], time)
    BY <1>7
  <2>2. after[n + 1] \in S
    BY <1>2, <2>1
  <2>3. Len(after[n].heap) \in Nat /\ Len(after[n + 1].heap) \in Nat
    BY <2>2, QueueFields DEF S
  <2>4. \/ after[n + 1] = after[n] /\ Done(after[n])
        \/ Len(after[n + 1].heap) = Len(after[n].heap) - 1
    BY <1>2, <2>1
  <2>5. \/ Len(after[n + 1].heap) <= Len(q.heap) - (n + 1)
        \/ TakeReady(after[n + 1], time) = after[n + 1] /\ Done(after[n + 1])
    <3>1. CASE after[n + 1] = after[n] /\ Done(after[n])
      BY <3>1, <2>1
    <3>2. CASE TakeReady(after[n], time) = after[n] /\ Done(after[n])
      BY <3>2, <2>1
    <3>3. CASE /\ Len(after[n + 1].heap) = Len(after[n].heap) - 1
               /\ Len(after[n].heap) <= Len(q.heap) - n
      BY <3>3, <2>3, <1>0
    <3> QED
      BY <2>4, <3>1, <3>2, <3>3
  <2> QED
    BY <2>2, <2>5
<1>11. T = Nat
  <2>1. T \in SUBSET Nat
    OBVIOUS
  <2> QED
    BY <1>9, <1>10, <2>1, Induction DEF T
<1> DEFINE p == after[Len(q.heap)]
<1>12. p \in S /\ (Len(p.heap) <= Len(q.heap) - Len(q.heap) \/ Done(p))
  <2>1. Len(q.heap) \in T
    BY <1>0, <1>11
  <2> QED
    BY <2>1
<1> HIDE DEF p
<1>13. p \in Queues /\ Kept(p) /\ p.heap \in Seq(Entry) /\ Len(p.heap) \in Nat
  BY <1>12, QueueFields DEF S
<1>14. ASSUME NEW e \in Entries(p)
       PROVE  e.time > time
  <2>1. PICK i \in 1 .. Len(p.heap) : e = p.heap[i]
    BY DEF Entries
  <2>2. Len(p.heap) # 0 /\ 1 \in 1 .. Len(p.heap) /\ p.heap # << >>
    BY <2>1, <1>13
  <2>3. p.heap[1].time > time
    BY <2>2, <1>0, <1>12, <1>13 DEF Done
  <2>4. p.heap[1].time <= p.heap[i].time
    BY <1>13, RootIsEarliest DEF Sound
  <2>5. p.heap[1].time \in Nat /\ p.heap[i].time \in Nat
    BY <2>2, <1>13, QueueFields
  <2> QED
    BY <2>1, <2>3, <2>4, <2>5
<1>15. Entries(p) = { e \in Entries(q) : e.time > time }
  BY <1>13, <1>14
<1>16. ASSUME NEW t \in Timer
       PROVE  p.waits[t] = IF \E e \in Entries(q) : e.timer = t /\ e.time <= time
                           THEN << >> ELSE q.waits[t]
  <2>1. CASE \E e \in Entries(q) : e.timer = t /\ e.time <= time
    <3>1. PICK e \in Entries(q) : e.timer = t /\ e.time <= time
      BY <2>1
    <3>2. SUFFICES ASSUME p.waits[t] # << >>
                   PROVE  FALSE
      BY <2>1
    <3>3. t \in Active(p) /\ HeapOf(p, Active(p))
      BY <3>2, <1>13, SoundParts DEF Active
    <3>4. PICK d \in Entries(p) : d.timer = t
      BY <3>3, InHeap DEF HeapOf
    <3>5. d \in Entries(q) /\ d.time > time
      BY <3>4, <1>13, <1>14
    <3>6. HeapIndexed(q)
      BY SoundParts DEF HeapOf
    <3>7. d = e
      BY <3>1, <3>4, <3>5, <3>6 DEF Entries, HeapIndexed
    <3>8. e.time \in Nat
      BY <1>0, QueueFields DEF Entries
    <3> QED
      BY <3>1, <3>5, <3>7, <3>8
  <2>2. CASE ~ \E e \in Entries(q) : e.timer = t /\ e.time <= time
    BY <2>2, <1>13
  <2> QED
    BY <2>1, <2>2
<1> QED
  BY <1>8, <1>13, <1>15, <1>16 DEF p

-----------------------------------------------------------------------------
(* The invariant.                                                          *)

\* The types of the variables, but for the queue.
Types ==
  /\ now \in 0 .. MaxTime
  /\ expiry \in [Timer -> Nat]
  /\ pending \in [Timer -> BOOLEAN]
  /\ result \in [Wait -> {"new", "waiting", "due", "aborted"}]
  /\ armed \in Nat
  /\ checking \in BOOLEAN
  /\ updating \in {"none", "call", "run"}
  /\ delay \in Nat \cup {Unread}
  /\ slip \in Nat
  /\ calls \in 0 .. MaxCalls

\* An entry has the time of its timer.
Timed == \A e \in Entries(queue) : e.time = expiry[e.timer]

\* A timer with waits knows that it might have some.
Quiet == \A t \in Timer : ~ pending[t] => queue.waits[t] = << >>

\* A delay that is about to be used is too long by no more than the time that
\* has gone by since the clock was read.
Reading ==
  /\ updating = "none" => delay = Unread
  /\ delay # Unread /\ queue.heap # << >> =>
       delay = 0 \/ now + delay < queue.heap[1].time + Usec + slip

\* The inductive invariant.
TimersInv == Types /\ Sound(queue) /\ Timed /\ Quiet /\ Reading /\ ArmedInTime

\* No delay is about to be used when the mutex is taken.
LEMMA NothingRead ==
  ASSUME Reading, updating = "none", delay' = delay
  PROVE  Reading'
BY DEF Reading

\* A delay from now on ends in time for the earliest timer.
LEMMA TimeoutFacts ==
  ASSUME NEW q \in Queues, NEW time \in Nat
  PROVE  LET r == Timeout(q, time)
         IN  r \in Nat /\ (q.heap # << >> => r = 0 \/ time + r < q.heap[1].time + Usec)
<1> DEFINE left == q.heap[1].time - time
           r == Timeout(q, time)
<1>0. Usec \in Nat /\ Usec >= 1 /\ MaxUsec \in Nat /\ MaxUsec >= 1
  BY TimersAssumption
<1>1. CASE q.heap = << >>
  <2>1. r = Usec * MaxUsec
    BY <1>1 DEF Timeout
  <2>2. Usec * MaxUsec \in Nat
    BY <1>0
  <2> QED
    BY <1>1, <2>1, <2>2
<1>2. CASE q.heap # << >> /\ left <= 0
  BY <1>2 DEF Timeout
<1>3. CASE q.heap # << >> /\ ~ (left <= 0)
  <2>0. q.heap[1].time \in Nat
    <3>1. 1 \in 1 .. Len(q.heap)
      BY <1>3, QueueFields
    <3> QED
      BY <3>1, QueueFields
  <2>1. left \in Nat /\ left > 0 /\ q.heap[1].time = time + left
    BY <2>0, <1>3, SMTT(30)
  <2> DEFINE whole == left \div Usec
             usec == IF whole = 0 THEN 1 ELSE IF whole > MaxUsec THEN MaxUsec ELSE whole
  <2>2. r = Usec * usec
    BY <1>3 DEF Timeout
  <2> HIDE DEF left
  <2>3. whole \in Nat /\ Usec * whole <= left
    BY <1>0, <2>1
  <2> HIDE DEF whole
  <2>4. usec \in Nat /\ Usec * usec \in Nat /\ (usec = 1 \/ usec <= whole)
    BY <1>0, <2>3
  <2> HIDE DEF usec
  <2>5. CASE usec = 1
    BY <2>5, <2>1, <2>2, <1>0
  <2>6. CASE usec <= whole
    <3>1. Usec * usec <= Usec * whole /\ Usec * whole \in Nat
      BY <2>6, <1>0, <2>3, <2>4
    <3>2. Usec * usec <= left
      BY <3>1, <2>1, <2>3, <2>4
    <3>3. r \in Nat /\ time + r <= time + left
      BY <3>2, <2>1, <2>2, <2>4
    <3> QED
      BY <3>3, <2>1, <1>0
  <2> QED
    BY <2>4, <2>5, <2>6
<1> QED
  BY <1>1, <1>2, <1>3

LEMMA RootMoves ==
  ASSUME NEW p, NEW q, Sound(p), Sound(q), Entries(p) \subseteq Entries(q), p.heap # << >>
  PROVE  /\ q.heap # << >> /\ p.heap[1].time \in Nat /\ q.heap[1].time \in Nat
         /\ q.heap[1].time <= p.heap[1].time
<1>1. /\ p \in Queues /\ q \in Queues /\ p.heap \in Seq(Entry) /\ q.heap \in Seq(Entry)
      /\ 1 \in 1 .. Len(p.heap)
  BY QueueFields DEF Sound
<1>2. p.heap[1] \in Entries(q)
  BY <1>1 DEF Entries
<1>3. PICK i \in 1 .. Len(q.heap) : q.heap[i] = p.heap[1]
  BY <1>2 DEF Entries
<1>4. q.heap # << >> /\ 1 \in 1 .. Len(q.heap)
  BY <1>1, <1>3
<1> QED
  BY <1>1, <1>3, <1>4, RootIsEarliest, QueueFields DEF Sound

\* Fewer timers need no earlier time.
LEMMA StillArmed ==
  ASSUME Types, Sound(queue), Sound(queue'), ArmedInTime,
         Entries(queue') \subseteq Entries(queue),
         UNCHANGED << now, armed, checking, updating, slip >>
  PROVE  ArmedInTime'
<1>1. SUFFICES ASSUME queue'.heap # << >>
               PROVE  \/ checking \/ armed <= now \/ updating # "none"
                      \/ armed < queue'.heap[1].time + Usec + slip
  BY DEF ArmedInTime
<1>2. /\ queue.heap # << >> /\ queue'.heap[1].time \in Nat /\ queue.heap[1].time \in Nat
      /\ queue.heap[1].time <= queue'.heap[1].time
  BY <1>1, RootMoves
<1>3. armed \in Nat /\ Usec \in Nat /\ slip \in Nat
  BY TimersAssumption DEF Types
<1> QED
  BY <1>2, <1>3 DEF ArmedInTime

LEMMA NoEntry ==
  ASSUME NEW q, Sound(q), NEW t \in Timer, q.waits[t] = << >>
  PROVE  \A e \in Entries(q) : e.timer # t
<1>1. HeapOf(q, Active(q)) /\ t \notin Active(q)
  BY SoundParts DEF Active
<1> QED
  BY <1>1, InHeap DEF HeapOf

LEMMA EntryTimers == \A q \in Queues : \A e \in Entries(q) : e.timer \in Timer /\ e.time \in Nat
BY QueueFields DEF Entries

-----------------------------------------------------------------------------
(* The steps.                                                              *)

LEMMA AsyncWaitQueue ==
  ASSUME Types, Sound(queue), NEW t \in Timer, NEW w \in Wait, AsyncWait(t, w)
  PROVE  /\ Sound(queue') /\ queue'.waits = [queue.waits EXCEPT ![t] = Append(@, w)]
         /\ t \in Active(queue) => queue'.heap = queue.heap
         /\ t \notin Active(queue) =>
              Entries(queue') = Entries(queue) \cup {[time |-> expiry[t], timer |-> t]}
<1>1. /\ Sound(queue) /\ queue \in Queues /\ queue.waits \in [Timer -> Seq(Wait)]
      /\ expiry[t] \in Nat
  BY QueueFields DEF Types, Sound
<1>2. queue' = EnqueueTimer(queue, expiry[t], t, w)
  BY DEF AsyncWait
<1> QED
  BY <1>1, <1>2, EnqueueTimerFacts

LEMMA AsyncWaitStep ==
  ASSUME TimersInv, NEW t \in Timer, NEW w \in Wait, AsyncWait(t, w), updating = "none",
         calls' \in 0 .. MaxCalls
  PROVE  TimersInv'
<1>0. /\ Types /\ Sound(queue) /\ queue \in Queues /\ queue.waits \in [Timer -> Seq(Wait)]
      /\ expiry[t] \in Nat
  BY QueueFields DEF TimersInv, Types, Sound
<1>1. /\ queue' = EnqueueTimer(queue, expiry[t], t, w) /\ pending' = [pending EXCEPT ![t] = TRUE]
      /\ result' = [result EXCEPT ![w] = "waiting"]
      /\ Earliest(queue', t, w) => updating' = "call"
      /\ ~ Earliest(queue', t, w) => updating' = updating
      /\ now' = now /\ expiry' = expiry /\ checking' = checking
      /\ armed' = armed /\ delay' = delay /\ slip' = slip
  BY DEF AsyncWait, UpdateTimeout, armVars
<1>2. /\ Sound(queue') /\ queue'.waits = [queue.waits EXCEPT ![t] = Append(@, w)]
      /\ t \in Active(queue) => queue'.heap = queue.heap
      /\ t \notin Active(queue) =>
           Entries(queue') = Entries(queue) \cup {[time |-> expiry[t], timer |-> t]}
  BY <1>0, AsyncWaitQueue
<1>3. queue' \in Queues
  BY <1>2 DEF Sound
<1>4. now \in Nat /\ Usec \in Nat /\ armed \in Nat /\ slip \in Nat
  BY <1>0, TimersAssumption DEF Types
<1>5. Reading'
  BY <1>1, NothingRead DEF TimersInv
<1>6. Types'
  BY <1>0, <1>1 DEF Types
<1>7. Timed'
  <2>1. CASE t \in Active(queue)
    <3>1. Entries(queue') = Entries(queue)
      BY <2>1, <1>2 DEF Entries
    <3> QED
      BY <3>1, <1>1 DEF TimersInv, Timed
  <2>2. CASE t \notin Active(queue)
    BY <2>2, <1>1, <1>2 DEF TimersInv, Timed
  <2> QED
    BY <2>1, <2>2
<1>8. Quiet'
  BY <1>0, <1>1, <1>2 DEF TimersInv, Quiet, Types
<1>9. ArmedInTime'
  <2>1. CASE Earliest(queue', t, w)
    BY <2>1, <1>1 DEF ArmedInTime
  <2>2. CASE ~ Earliest(queue', t, w) /\ t \in Active(queue)
    BY <2>2, <1>1, <1>2 DEF ArmedInTime, TimersInv
  <2>3. CASE ~ Earliest(queue', t, w) /\ t \notin Active(queue)
    <3>1. queue.waits[t] = << >>
      BY <2>3 DEF Active
    <3>2. queue'.waits[t] = << w >>
      BY <3>1, <1>0, <1>2
    <3>3. queue'.index[t] # 1
      BY <3>2, <2>3 DEF Earliest
    <3>4. SUFFICES ASSUME queue'.heap # << >>
                   PROVE  \/ checking \/ armed <= now
                          \/ armed < queue'.heap[1].time + Usec + slip
      BY <1>1, <2>3 DEF ArmedInTime
    <3>5. 1 \in 1 .. Len(queue'.heap) /\ HeapIndexed(queue')
      BY <3>4, <1>2, <1>3, QueueFields, SoundParts DEF HeapOf
    <3>6. queue'.heap[1] \in Entries(queue') /\ queue'.heap[1].timer # t
      BY <3>3, <3>5 DEF Entries, HeapIndexed
    <3>7. queue'.heap[1] \in Entries(queue)
      BY <3>6, <1>2, <2>3
    <3>8. PICK i \in 1 .. Len(queue.heap) : queue.heap[i] = queue'.heap[1]
      BY <3>7 DEF Entries
    <3>9. queue.heap # << >> /\ 1 \in 1 .. Len(queue.heap)
      BY <3>8, <1>0, QueueFields
    <3>10. /\ queue.heap[1].time <= queue'.heap[1].time
           /\ queue.heap[1].time \in Nat /\ queue'.heap[1].time \in Nat
      BY <3>8, <3>9, <1>0, RootIsEarliest, QueueFields DEF Sound
    <3> QED
      BY <1>1, <2>3, <3>9, <3>10, <1>4, SMTT(30) DEF TimersInv, ArmedInTime
  <2> QED
    BY <2>1, <2>2, <2>3
<1> QED
  BY <1>2, <1>5, <1>6, <1>7, <1>8, <1>9 DEF TimersInv

LEMMA EndedType ==
  ASSUME Types, NEW ws, NEW how \in {"due", "aborted"}
  PROVE  Ended(ws, how) \in [Wait -> {"new", "waiting", "due", "aborted"}]
BY DEF Types, Ended

LEMMA CancelStep ==
  ASSUME TimersInv, NEW t \in Timer, Cancel(t), updating = "none", calls' \in 0 .. MaxCalls
  PROVE  TimersInv'
<1>0. Types /\ Sound(queue) /\ queue.waits \in [Timer -> Seq(Wait)]
  BY QueueFields DEF TimersInv, Sound
<1>1. /\ queue' = CancelTimer(queue, t) /\ result' = Ended(queue.waits[t], "aborted")
      /\ pending' = [pending EXCEPT ![t] = FALSE]
      /\ UNCHANGED << now, expiry, checking, armed, updating, delay, slip >>
  BY DEF Cancel, armVars
<1>2. /\ Sound(queue') /\ queue'.waits = [queue.waits EXCEPT ![t] = << >>]
      /\ Entries(queue') = { e \in Entries(queue) : e.timer # t }
  BY <1>0, <1>1, CancelTimerFacts
<1>3. Types'
  BY <1>0, <1>1, EndedType DEF Types
<1>4. Timed' /\ Quiet'
  BY <1>0, <1>1, <1>2 DEF TimersInv, Timed, Quiet, Types
<1>5. Reading' /\ ArmedInTime'
  BY <1>0, <1>1, <1>2, NothingRead, StillArmed DEF TimersInv
<1> QED
  BY <1>2, <1>3, <1>4, <1>5 DEF TimersInv

LEMMA CancelOneStep ==
  ASSUME TimersInv, NEW t \in Timer, CancelOne(t), updating = "none",
         calls' \in 0 .. MaxCalls
  PROVE  TimersInv'
<1>0. Types /\ Sound(queue) /\ queue.waits \in [Timer -> Seq(Wait)]
  BY QueueFields DEF TimersInv, Sound
<1>1. UNCHANGED << now, expiry, checking, armed, updating, delay, slip >> /\ pending[t]
  BY DEF CancelOne, armVars
<1>2. CASE queue.waits[t] = << >>
  <2>1. pending' = [pending EXCEPT ![t] = FALSE] /\ queue' = queue /\ result' = result
    BY <1>2 DEF CancelOne
  <2>2. Types'
    BY <1>0, <1>1, <2>1 DEF Types
  <2>3. Timed' /\ Quiet'
    BY <1>0, <1>1, <1>2, <2>1 DEF TimersInv, Timed, Quiet, Types
  <2> QED
    BY <1>0, <1>1, <2>1, <2>2, <2>3 DEF TimersInv, Reading, ArmedInTime
<1>3. CASE queue.waits[t] # << >>
  <2>1. /\ queue' = CancelOneWait(queue, t) /\ pending' = pending
        /\ result' = Ended(<< Head(queue.waits[t]) >>, "aborted")
    BY <1>3 DEF CancelOne
  <2>2. /\ Sound(queue') /\ queue'.waits = [queue.waits EXCEPT ![t] = Tail(@)]
        /\ Entries(queue') \subseteq Entries(queue)
    BY <1>0, <1>3, <2>1, CancelOneWaitFacts
  <2>3. Types'
    BY <1>0, <1>1, <2>1, EndedType DEF Types
  <2>4. Timed'
    BY <1>1, <2>2 DEF TimersInv, Timed
  <2>5. Quiet'
    BY <1>0, <1>1, <2>1, <2>2 DEF TimersInv, Quiet
  <2>6. Reading' /\ ArmedInTime'
    BY <1>0, <1>1, <2>2, NothingRead, StillArmed DEF TimersInv
  <2> QED
    BY <2>2, <2>3, <2>4, <2>5, <2>6 DEF TimersInv
<1> QED
  BY <1>2, <1>3

LEMMA ExpiresAfterStep ==
  ASSUME TimersInv, NEW t \in Timer, NEW d \in Delays, ExpiresAfter(t, d),
         updating = "none", calls' \in 0 .. MaxCalls
  PROVE  TimersInv'
<1>0. /\ Types /\ Sound(queue) /\ queue.waits \in [Timer -> Seq(Wait)] /\ queue \in Queues
      /\ expiry \in [Timer -> Nat] /\ d \in Nat
  BY QueueFields, TimersAssumption DEF TimersInv, Sound, Types
<1>4. PICK time \in Readings : expiry' = [expiry EXCEPT ![t] = time + d]
  BY DEF ExpiresAfter
<1>5. time + d \in Nat
  BY <1>0 DEF Readings
<1>1. /\ expiry' = [expiry EXCEPT ![t] = time + d]
      /\ UNCHANGED << now, checking, armed, updating, delay, slip >>
  BY <1>4 DEF ExpiresAfter, armVars
<1>2. CASE pending[t]
  <2>1. /\ queue' = CancelTimer(queue, t) /\ result' = Ended(queue.waits[t], "aborted")
        /\ pending' = [pending EXCEPT ![t] = FALSE]
    BY <1>2 DEF ExpiresAfter
  <2>2. /\ Sound(queue') /\ queue'.waits = [queue.waits EXCEPT ![t] = << >>]
        /\ Entries(queue') = { e \in Entries(queue) : e.timer # t }
    BY <1>0, <2>1, CancelTimerFacts
  <2>3. Types'
    BY <1>0, <1>1, <1>5, <2>1, EndedType DEF Types
  <2>4. Timed'
    BY <1>0, <1>1, <2>2, EntryTimers DEF TimersInv, Timed
  <2>5. Quiet'
    BY <1>0, <2>1, <2>2 DEF TimersInv, Quiet, Types
  <2>6. Reading' /\ ArmedInTime'
    BY <1>0, <1>1, <2>2, NothingRead, StillArmed DEF TimersInv
  <2> QED
    BY <2>2, <2>3, <2>4, <2>5, <2>6 DEF TimersInv
<1>3. CASE ~ pending[t]
  <2>1. queue' = queue /\ result' = result /\ pending' = pending
    BY <1>3 DEF ExpiresAfter
  <2>2. \A e \in Entries(queue) : e.timer # t
    BY <1>0, <1>3, NoEntry DEF TimersInv, Quiet
  <2>3. Types'
    BY <1>0, <1>1, <1>5, <2>1 DEF Types
  <2>4. Timed'
    BY <1>0, <1>1, <2>1, <2>2, EntryTimers DEF TimersInv, Timed
  <2> QED
    BY <1>1, <2>1, <2>3, <2>4 DEF TimersInv, Quiet, Reading, ArmedInTime
<1> QED
  BY <1>2, <1>3

LEMMA CheckTimersStep ==
  ASSUME TimersInv, CheckTimers
  PROVE  TimersInv'
<1>0. /\ Types /\ Sound(queue) /\ queue.waits \in [Timer -> Seq(Wait)] /\ now \in Nat
  BY QueueFields, TimersAssumption DEF TimersInv, Sound, Types
<1>1. /\ queue' = ReadyTimers(queue, now) /\ updating = "none" /\ updating' = "run"
      /\ UNCHANGED << now, expiry, pending, checking, armed, delay, slip, calls >>
  BY DEF CheckTimers, UpdateTimeout
<1>2. /\ Sound(queue') /\ Entries(queue') = { e \in Entries(queue) : e.time > now }
      /\ \A t \in Timer :
           queue'.waits[t] = IF \E e \in Entries(queue) : e.timer = t /\ e.time <= now
                             THEN << >> ELSE queue.waits[t]
  BY <1>0, <1>1, ReadyTimersFacts
<1>3. queue' \in Queues
  BY <1>2 DEF Sound
<1>4. Reading'
  BY <1>1, NothingRead DEF TimersInv
<1>5. Types'
  <2>1. result' \in [Wait -> {"new", "waiting", "due", "aborted"}]
    BY <1>0 DEF CheckTimers, Types
  <2> QED
    BY <2>1, <1>0, <1>1 DEF Types
<1>6. Timed' /\ Quiet'
  BY <1>1, <1>2 DEF TimersInv, Timed, Quiet
<1>7. ArmedInTime'
  BY <1>1 DEF ArmedInTime
<1> QED
  BY <1>2, <1>4, <1>5, <1>6, <1>7 DEF TimersInv

LEMMA GetTimeoutStep ==
  ASSUME TimersInv, GetTimeout
  PROVE  TimersInv'
<1>0. Types /\ Sound(queue) /\ queue \in Queues /\ now \in Nat /\ Usec \in Nat
  BY TimersAssumption DEF TimersInv, Sound, Types
<1>1. /\ updating # "none" /\ delay' = Timeout(queue, now) /\ slip' = 0
      /\ UNCHANGED << now, expiry, pending, queue, result, checking, armed, updating, calls >>
  BY DEF GetTimeout
<1>2. /\ delay' \in Nat
      /\ queue.heap # << >> => delay' = 0 \/ now + delay' < queue.heap[1].time + Usec
  BY <1>0, <1>1, TimeoutFacts
<1>3. Types'
  BY <1>0, <1>1, <1>2 DEF Types
<1>4. queue.heap # << >> => queue.heap[1].time \in Nat
  <2>1. queue.heap # << >> => 1 \in 1 .. Len(queue.heap)
    BY <1>0, QueueFields
  <2> QED
    BY <2>1, <1>0, QueueFields
<1>5. Reading'
  BY <1>0, <1>1, <1>2, <1>4 DEF Reading
<1> QED
  BY <1>1, <1>3, <1>5 DEF TimersInv, Timed, Quiet, ArmedInTime

LEMMA SetTimeStep ==
  ASSUME TimersInv, SetTime
  PROVE  TimersInv'
<1>0. Types /\ Sound(queue) /\ now \in Nat /\ delay \in Nat
  BY TimersAssumption DEF TimersInv, Types, SetTime
<1>1. /\ armed' = now + delay /\ updating' = "none" /\ delay' = Unread
      /\ checking' \in BOOLEAN
      /\ UNCHANGED << now, expiry, pending, queue, result, slip, calls >>
  BY DEF SetTime
<1>2. Types'
  BY <1>0, <1>1 DEF Types
<1>3. Reading'
  BY <1>1 DEF Reading
<1>4. delay # Unread
  BY <1>0 DEF Unread
<1>5. ArmedInTime'
  BY <1>0, <1>1, <1>4 DEF TimersInv, Reading, ArmedInTime
<1> QED
  BY <1>0, <1>1, <1>2, <1>3, <1>5 DEF TimersInv, Timed, Quiet

LEMMA TickStep ==
  ASSUME TimersInv, Tick
  PROVE  TimersInv'
<1>0. Types /\ Sound(queue) /\ queue \in Queues /\ MaxTime \in Nat /\ Usec \in Nat
  BY TimersAssumption DEF TimersInv, Sound
<1>1. /\ now < MaxTime /\ now' = now + 1
      /\ slip' = IF delay = Unread THEN slip ELSE slip + 1
      /\ UNCHANGED << expiry, pending, queue, result, checking, armed, updating, delay,
                      calls >>
  BY DEF Tick
<1>2. Types'
  BY <1>0, <1>1 DEF Types
<1>3. queue.heap # << >> => queue.heap[1].time \in Nat
  <2>1. queue.heap # << >> => 1 \in 1 .. Len(queue.heap)
    BY <1>0, QueueFields
  <2> QED
    BY <2>1, <1>0, QueueFields
<1>4. now \in Nat /\ armed \in Nat /\ slip \in Nat
  BY <1>0 DEF Types
<1>5. Reading'
  <2>1. delay # Unread => delay \in Nat
    BY <1>0 DEF Types
  <2>2. CASE delay = Unread
    BY <2>2, <1>1 DEF TimersInv, Reading
  <2>3. CASE delay # Unread /\ queue.heap # << >>
    <3>1. delay = 0 \/ now + delay < queue.heap[1].time + Usec + slip
      BY <2>3 DEF TimersInv, Reading
    <3>2. delay \in Nat /\ queue.heap[1].time \in Nat /\ slip' = slip + 1 /\ now' = now + 1
      BY <2>1, <2>3, <1>1, <1>3
    <3>3. delay = 0 \/ now' + delay < queue.heap[1].time + Usec + slip'
      BY <3>1, <3>2, <1>0, <1>4
    <3>4. updating # "none"
      BY <2>3 DEF TimersInv, Reading
    <3> QED
      BY <3>3, <3>4, <1>1 DEF Reading
  <2>4. CASE delay # Unread /\ queue.heap = << >>
    BY <2>4, <1>1 DEF TimersInv, Reading
  <2> QED
    BY <2>2, <2>3, <2>4
<1>6. ArmedInTime'
  BY <1>0, <1>1, <1>3, <1>4 DEF TimersInv, Reading, ArmedInTime
<1> QED
  BY <1>0, <1>1, <1>2, <1>5, <1>6 DEF TimersInv, Timed, Quiet

LEMMA EpollReturnsStep ==
  ASSUME TimersInv, EpollReturns \/ UNCHANGED timerVars
  PROVE  TimersInv'
<1>1. /\ UNCHANGED << now, expiry, pending, queue, result, armed, updating, delay, slip,
                      calls >>
      /\ checking' = TRUE \/ checking' = checking
  BY DEF EpollReturns, timerVars, armVars
<1> QED
  BY <1>1 DEF TimersInv, Types, Timed, Quiet, Reading, ArmedInTime

\* Every step keeps the invariant.
LEMMA TimersStep == TimersInv /\ [Next]_timerVars => TimersInv'
<1>1. SUFFICES ASSUME TimersInv, [Next]_timerVars
               PROVE  TimersInv'
  OBVIOUS
<1>2. ASSUME NEW t \in Timer, calls < MaxCalls, calls' = calls + 1
      PROVE  calls' \in 0 .. MaxCalls
  BY <1>1, <1>2, TimersAssumption DEF TimersInv, Types
<1>3. ASSUME NEW t \in Timer, updating = "none", calls < MaxCalls, calls' = calls + 1,
             \/ Cancel(t) \/ CancelOne(t) \/ \E w \in Wait : AsyncWait(t, w)
             \/ \E d \in Delays : ExpiresAfter(t, d)
      PROVE  TimersInv'
  BY <1>1, <1>2, <1>3, CancelStep, CancelOneStep, AsyncWaitStep, ExpiresAfterStep
<1>4. CASE EpollReturns \/ UNCHANGED timerVars
  BY <1>1, <1>4, EpollReturnsStep
<1>5. CASE GetTimeout \/ SetTime \/ CheckTimers \/ Tick
  BY <1>1, <1>5, GetTimeoutStep, SetTimeStep, CheckTimersStep, TickStep
<1> QED
  BY <1>1, <1>3, <1>4, <1>5 DEF Next

-----------------------------------------------------------------------------
(* The first state.                                                        *)

\* The waits of the first n of Early have been begun.
Begun(q, n) ==
  /\ Sound(q)
  /\ \A e : e \in Entries(q) <=>
       \E m \in 1 .. n : e = [time |-> Early[m].delay, timer |-> Early[m].timer]
  /\ \A t \in Timer :
       \/ \E m \in 1 .. n : Early[m].timer = t /\ q.waits[t] = << m >>
       \/ (\A m \in 1 .. n : Early[m].timer # t) /\ q.waits[t] = << >>

LEMMA EarlyFacts ==
  /\ Len(Early) \in Nat /\ Len(Early) <= NumWaits /\ DOMAIN Early = 1 .. Len(Early)
  /\ \A n \in 1 .. Len(Early) :
       Early[n].timer \in Timer /\ Early[n].delay \in Nat /\ n \in Wait
  /\ \A m, n \in 1 .. Len(Early) : Early[m].timer = Early[n].timer => m = n
<1>1. /\ Early \in Seq([timer : Timer, delay : Nat]) /\ Len(Early) <= NumWaits
      /\ NumWaits \in Nat
      /\ \A i, j \in DOMAIN Early : Early[i].timer = Early[j].timer => i = j
  BY TimersAssumption
<1>2. Len(Early) \in Nat /\ DOMAIN Early = 1 .. Len(Early)
  BY <1>1
<1> DEFINE R == [timer : Timer, delay : Nat]
<1>3. \A n \in 1 .. Len(Early) : Early[n] \in R
  <2>1. Early \in Seq(R)
    BY <1>1
  <2> HIDE DEF R
  <2> QED
    BY <2>1
<1>4. \A n \in 1 .. Len(Early) : n \in Wait
  BY <1>1, <1>2 DEF Wait
<1> QED
  BY <1>1, <1>2, <1>3, <1>4

LEMMA EmptyFacts == Begun(EmptyQueue, 0)
<1>1. EmptyQueue \in Queues
  BY DEF EmptyQueue, Queues, Entry
<1>2. /\ EmptyQueue.heap = << >> /\ Len(EmptyQueue.heap) = 0 /\ EmptyQueue.first = Nil
      /\ \A t \in Timer : /\ EmptyQueue.index[t] = 0 /\ EmptyQueue.next[t] = Nil
                          /\ EmptyQueue.prev[t] = Nil /\ EmptyQueue.waits[t] = << >>
  BY DEF EmptyQueue
<1>3. Active(EmptyQueue) = {}
  BY <1>2 DEF Active
<1>4. HeapOrdered(EmptyQueue) /\ WellIndexed(EmptyQueue) /\ WellLinked(EmptyQueue)
  BY <1>2, <1>3 DEF HeapOrdered, WellIndexed, WellLinked
<1>5. Entries(EmptyQueue) = {}
  BY <1>2 DEF Entries
<1> QED
  BY <1>1, <1>2, <1>4, <1>5 DEF Begun, Sound

LEMMA BegunStep ==
  ASSUME NEW q, NEW n \in Nat, Begun(q, n), n + 1 <= Len(Early)
  PROVE  Begun(EnqueueTimer(q, Early[n + 1].delay, Early[n + 1].timer, n + 1), n + 1)
<1> DEFINE t == Early[n + 1].timer
           d == Early[n + 1].delay
           w == n + 1
           p == EnqueueTimer(q, d, t, w)
<1>1. /\ n + 1 \in 1 .. Len(Early) /\ t \in Timer /\ d \in Nat /\ n + 1 \in Wait
      /\ \A m \in 1 .. n : Early[m].timer # t
  <2>1. n + 1 \in 1 .. Len(Early) /\ \A m \in 1 .. n : m \in 1 .. Len(Early) /\ m # n + 1
    BY EarlyFacts
  <2> QED
    BY <2>1, EarlyFacts
<1>2. q.waits[t] = << >> /\ t \notin Active(q) /\ Sound(q) /\ q.waits \in [Timer -> Seq(Wait)]
  <2>1. q.waits[t] = << >>
    BY <1>1 DEF Begun
  <2> QED
    BY <2>1, QueueFields DEF Begun, Active, Sound
<1> HIDE DEF t, d, w
<1>3. /\ Sound(p) /\ p.waits = [q.waits EXCEPT ![t] = Append(@, w)]
      /\ Entries(p) = Entries(q) \cup {[time |-> d, timer |-> t]}
  <2>1. w \in Wait
    BY <1>1 DEF w
  <2>2. /\ t \in Timer /\ d \in Nat /\ Sound(q) /\ t \notin Active(q)
        /\ q \in Queues /\ q.waits \in [Timer -> Seq(Wait)]
    BY <1>1, <1>2 DEF Sound
  <2>3. /\ Sound(p) /\ p.waits = [q.waits EXCEPT ![t] = Append(@, w)]
        /\ t \in Active(q) => p.heap = q.heap
        /\ t \notin Active(q) =>
             Entries(p) = Entries(q) \cup {[time |-> d, timer |-> t]}
    BY <2>1, <2>2, EnqueueTimerFacts
  <2> QED
    BY <2>2, <2>3
<1> HIDE DEF p
<1>4. \A m \in 1 .. n + 1 : m \in 1 .. n \/ m = n + 1
  OBVIOUS
<1>5. \A m \in 1 .. n : m \in 1 .. n + 1
  OBVIOUS
<1>6. n + 1 \in 1 .. n + 1
  OBVIOUS
<1>7. ASSUME NEW e
      PROVE  e \in Entries(p) <=>
               \E m \in 1 .. n + 1 : e = [time |-> Early[m].delay, timer |-> Early[m].timer]
  <2>1. e \in Entries(p) <=> e \in Entries(q) \/ e = [time |-> d, timer |-> t]
    BY <1>3
  <2>2. e \in Entries(q) <=>
          \E m \in 1 .. n : e = [time |-> Early[m].delay, timer |-> Early[m].timer]
    BY DEF Begun
  <2> QED
    BY <2>1, <2>2, <1>4, <1>5, <1>6 DEF t, d
<1>8. ASSUME NEW u \in Timer
      PROVE  \/ \E m \in 1 .. n + 1 : Early[m].timer = u /\ p.waits[u] = << m >>
             \/ (\A m \in 1 .. n + 1 : Early[m].timer # u) /\ p.waits[u] = << >>
  <2>1. CASE u = t
    <3>1. p.waits[t] = << w >>
      BY <1>1, <1>2, <1>3
    <3> QED
      BY <2>1, <3>1, <1>6 DEF t, w
  <2>2. CASE u # t
    <3>1. p.waits[u] = q.waits[u]
      BY <2>2, <1>2, <1>3
    <3> QED
      BY <2>2, <3>1, <1>4, <1>5 DEF t, Begun
  <2> QED
    BY <2>1, <2>2
<1> QED
  BY <1>3, <1>7, <1>8 DEF Begun, p, t, d, w

\* Init begins the waits of Early one after the other.
LEMMA EarlyBegun == Init => Begun(queue, Len(Early))
<1> DEFINE N == Len(Early)
           Add(q, n) == EnqueueTimer(q, Early[n].delay, Early[n].timer, n)
           after == CHOOSE g : g = [n \in 0 .. N |-> IF n = 0 THEN EmptyQueue
                                                     ELSE Add(g[n - 1], n)]
           S == { p \in Queues : Sound(p) }
           f == [n \in Nat |-> [p \in S |-> IF n < N THEN Add(p, n + 1) ELSE p]]
<1>0. N \in Nat
  BY EarlyFacts
<1>1. EmptyQueue \in S
  BY EmptyFacts DEF Begun, Sound
<1>2. ASSUME NEW n \in Nat, n < N, NEW p \in S
      PROVE  Add(p, n + 1) \in S
  <2>1. n + 1 \in 1 .. N
    BY <1>0, <1>2
  <2>2. /\ Early[n + 1].timer \in Timer /\ Early[n + 1].delay \in Nat /\ n + 1 \in Wait
    BY <2>1, EarlyFacts
  <2> QED
    BY <2>2, EnqueueTimerFacts DEF Sound
<1> HIDE DEF S, Add
<1>3. f \in [Nat -> [S -> S]]
  BY <1>2
<1> HIDE DEF f, N
<1> DEFINE g == Loop(S, EmptyQueue, f)
<1>4. g \in [Nat -> S] /\ g[0] = EmptyQueue /\ \A n \in Nat : g[n + 1] = f[n][g[n]]
  BY <1>1, <1>3, Iterate
<1> HIDE DEF g
<1> DEFINE h == [n \in 0 .. N |-> g[n]]
<1>5. ASSUME NEW n \in 0 .. N
      PROVE  h[n] = IF n = 0 THEN EmptyQueue ELSE Add(h[n - 1], n)
  <2>1. CASE n = 0
    BY <2>1, <1>4
  <2>2. CASE n # 0
    <3>1. n - 1 \in Nat /\ (n - 1) + 1 = n /\ n - 1 < N /\ n - 1 \in 0 .. N /\ n \in Nat
      BY <2>2, <1>0
    <3>2. g[n] = f[n - 1][g[n - 1]] /\ g[n - 1] \in S
      BY <3>1, <1>4
    <3>3. f[n - 1][g[n - 1]] = Add(g[n - 1], n)
      BY <3>1, <3>2 DEF f
    <3> QED
      BY <2>2, <3>1, <3>2, <3>3
  <2> QED
    BY <2>1, <2>2
<1>6. h = [n \in 0 .. N |-> IF n = 0 THEN EmptyQueue ELSE Add(h[n - 1], n)]
  <2>1. h = [n \in 0 .. N |-> h[n]]
    OBVIOUS
  <2> HIDE DEF h
  <2> QED
    BY <1>5, <2>1
<1> HIDE DEF h
<1>7. after = [n \in 0 .. N |-> IF n = 0 THEN EmptyQueue ELSE Add(after[n - 1], n)]
  BY <1>6
<1>8. Init => queue = after[N]
  BY DEF Init, Add, N
<1> HIDE DEF after
<1> DEFINE T == { n \in Nat : n <= N => Begun(after[n], n) }
<1>9. 0 \in T
  BY <1>0, <1>7, EmptyFacts
<1>10. ASSUME NEW n \in T
       PROVE  n + 1 \in T
  <2>1. ASSUME n + 1 <= N
        PROVE  Begun(after[n + 1], n + 1)
    <3>1. after[n + 1] = Add(after[n], n + 1)
      BY <1>0, <1>7, <2>1
    <3>2. Begun(after[n], n)
      BY <1>0, <2>1
    <3> QED
      BY <2>1, <3>1, <3>2, BegunStep DEF Add, N
  <2> QED
    BY <2>1
<1>11. T = Nat
  <2>1. T \in SUBSET Nat
    OBVIOUS
  <2> QED
    BY <1>9, <1>10, <2>1, Induction DEF T
<1>12. Begun(after[N], N)
  <2>1. N \in T
    BY <1>0, <1>11
  <2> QED
    BY <2>1, <1>0
<1> QED
  BY <1>8, <1>12 DEF N

LEMMA TimersInit == Init => TimersInv
<1>1. SUFFICES ASSUME Init
               PROVE  TimersInv
  OBVIOUS
<1>2. Begun(queue, Len(Early)) /\ Sound(queue) /\ queue \in Queues /\ queue.heap \in Seq(Entry)
  BY <1>1, EarlyBegun, QueueFields DEF Begun, Sound
<1>3. ASSUME NEW n \in 1 .. Len(Early)
      PROVE  Of(Early[n].timer) = {n}
  BY EarlyFacts DEF Of
<1>4. /\ expiry = [t \in Timer |-> IF Of(t) = {} THEN 0
                                   ELSE Early[CHOOSE n \in Of(t) : TRUE].delay]
      /\ pending = [t \in Timer |-> Of(t) # {}]
      /\ result = [w \in Wait |-> IF w \in DOMAIN Early THEN "waiting" ELSE "new"]
      /\ armed = IF Early = << >> THEN Never ELSE Timeout(queue, 0)
      /\ now = 0 /\ checking = FALSE /\ calls = 0
      /\ updating = "none" /\ delay = Unread /\ slip = 0
  BY <1>1 DEF Init
<1>5. \A t \in Timer : \A n \in Of(t) : n \in 1 .. Len(Early) /\ Early[n].timer = t
  BY EarlyFacts DEF Of
<1>6. ASSUME NEW t \in Timer
      PROVE  (IF Of(t) = {} THEN 0 ELSE Early[CHOOSE n \in Of(t) : TRUE].delay) \in Nat
  <2>1. CASE Of(t) # {}
    <3>1. (CHOOSE n \in Of(t) : TRUE) \in Of(t)
      BY <2>1
    <3> QED
      BY <2>1, <3>1, <1>5, EarlyFacts
  <2> QED
    BY <2>1
<1>7. Never \in Nat /\ MaxTime \in Nat /\ MaxCalls \in Nat
  BY TimersAssumption DEF Never
<1>8. /\ Timeout(queue, 0) \in Nat
      /\ queue.heap # << >> => \/ Timeout(queue, 0) = 0
                               \/ 0 + Timeout(queue, 0) < queue.heap[1].time + Usec
  BY <1>2, TimeoutFacts
<1>9. Types
  <2>1. expiry \in [Timer -> Nat]
    BY <1>4, <1>6
  <2>2. armed \in Nat
    BY <1>4, <1>7, <1>8
  <2>3. pending \in [Timer -> BOOLEAN]
    BY <1>4
  <2>4. result \in [Wait -> {"new", "waiting", "due", "aborted"}]
    BY <1>4
  <2>5. now \in 0 .. MaxTime /\ calls \in 0 .. MaxCalls /\ checking \in BOOLEAN
    <3>1. now = 0 /\ calls = 0
      BY <1>4
    <3>2. checking \in BOOLEAN
      BY <1>4
    <3>3. 0 \in 0 .. MaxTime /\ 0 \in 0 .. MaxCalls
      BY <1>7
    <3> QED
      BY <3>1, <3>2, <3>3
  <2> QED
    BY <2>1, <2>2, <2>3, <2>4, <2>5, <1>4 DEF Types
<1>10. Timed
  <2>1. ASSUME NEW e \in Entries(queue)
        PROVE  e.time = expiry[e.timer]
    <3>1. PICK n \in 1 .. Len(Early) : e = [time |-> Early[n].delay, timer |-> Early[n].timer]
      BY <1>2 DEF Begun
    <3>2. Of(e.timer) = {n} /\ e.timer \in Timer /\ e.time = Early[n].delay
      BY <3>1, <1>3, EarlyFacts
    <3>3. (CHOOSE m \in Of(e.timer) : TRUE) = n
      BY <3>2
    <3> QED
      BY <3>2, <3>3, <1>4
  <2> QED
    BY <2>1 DEF Timed
<1>11. Quiet
  <2>1. ASSUME NEW t \in Timer, ~ pending[t]
        PROVE  queue.waits[t] = << >>
    <3>1. Of(t) = {}
      BY <2>1, <1>4
    <3>2. \A m \in 1 .. Len(Early) : Early[m].timer # t
      BY <3>1, EarlyFacts DEF Of
    <3> QED
      BY <3>2, <1>2 DEF Begun
  <2> QED
    BY <2>1 DEF Quiet
<1>12. ArmedInTime
  <2>1. ASSUME queue.heap # << >>
        PROVE  Early # << >>
    <3>1. 1 \in 1 .. Len(queue.heap)
      BY <2>1, <1>2
    <3>2. queue.heap[1] \in Entries(queue)
      BY <3>1 DEF Entries
    <3>3. \E m \in 1 .. Len(Early) : TRUE
      BY <3>2, <1>2 DEF Begun
    <3> QED
      BY <3>3
  <2>2. queue.heap # << >> => queue.heap[1].time \in Nat /\ Usec \in Nat
    <3>1. queue.heap # << >> => 1 \in 1 .. Len(queue.heap)
      BY <1>2, QueueFields
    <3> QED
      BY <3>1, <1>2, QueueFields, TimersAssumption
  <2> QED
    BY <2>1, <2>2, <1>4, <1>8 DEF ArmedInTime
<1>13. Reading
  BY <1>4 DEF Reading
<1> QED
  BY <1>2, <1>9, <1>10, <1>11, <1>12, <1>13 DEF TimersInv

-----------------------------------------------------------------------------
LEMMA TimersHold == Spec => []TimersInv
BY TimersInit, TimersStep, PTL DEF Spec

\* After any sequence of enqueue_timer, cancel_timer and get_ready_timers, on any
\* number of timers, timer_queue's heap has an earliest timer in front, its
\* heap_index_ fields point where the entries are, and the heap and the list from
\* timers_ hold exactly the timers with waits.
THEOREM QueueIsSound == Spec => []QueueSound
<1>1. TimersInv => QueueSound
  BY DEF TimersInv, Sound, QueueSound
<1> QED
  BY <1>1, TimersHold, PTL

\* Whenever the queue is not empty and nobody is in update_timeout, the timerfd is
\* readable or will be before the earliest expiry, a microsecond, and the time for
\* which the last arming was held up between the clock and timerfd_settime:
\* async_wait has it armed for a new earliest wait, every check has it armed again,
\* and nothing else that is done to the queue makes the earliest timer earlier.
THEOREM NeverLate == Spec => []ArmedInTime
<1>1. TimersInv => ArmedInTime
  BY DEF TimersInv
<1> QED
  BY <1>1, TimersHold, PTL

\* The state has its types; an index of the heap is at most the number of timers,
\* because two entries never name the same timer.
THEOREM TimerTypes == Spec => []TypeOK
<1>1. ASSUME TimersInv
      PROVE  TypeOK
  <2>1. Types /\ Sound(queue) /\ queue \in Queues /\ IsFiniteSet(Timer)
    BY <1>1, TimersAssumption DEF TimersInv, Sound
  <2>2. /\ queue.heap \in Seq(Entry) /\ queue.index \in [Timer -> Nat]
        /\ queue.first \in Timer \cup {Nil} /\ queue.next \in [Timer -> Timer \cup {Nil}]
        /\ queue.prev \in [Timer -> Timer \cup {Nil}] /\ queue.waits \in [Timer -> Seq(Wait)]
        /\ Len(queue.heap) \in Nat /\ \A i \in 1 .. Len(queue.heap) : queue.heap[i].timer \in Timer
    BY <2>1, QueueFields
  <2>3. HeapIndexed(queue)
    BY <2>1, SoundParts DEF HeapOf
  <2>4. Len(queue.heap) <= Cardinality(Timer) /\ Cardinality(Timer) \in Nat
    <3> DEFINE D == 1 .. Len(queue.heap)
               at == [i \in D |-> queue.heap[i].timer]
    <3>1. at \in [D -> Timer]
      BY <2>2
    <3>2. \A i, j \in D : at[i] = at[j] => i = j
      BY <2>3 DEF HeapIndexed
    <3>3. at \in Injection(D, Timer)
      BY <3>1, <3>2 DEF Injection, IsInjective
    <3>4. Cardinality(D) <= Cardinality(Timer)
      BY <3>3, <2>1, FS_Injection
    <3>5. Cardinality(D) = Len(queue.heap)
      BY <2>2, FS_Interval
    <3> QED
      BY <3>4, <3>5, <2>1, FS_CardinalityType
  <2>5. queue.index \in [Timer -> 0 .. Cardinality(Timer)]
    <3>1. ASSUME NEW t \in Timer
          PROVE  queue.index[t] \in 0 .. Cardinality(Timer)
      <4>1. queue.index[t] \in Nat
        BY <2>2
      <4>2. queue.index[t] # 0 => queue.index[t] \in 1 .. Len(queue.heap)
        BY <2>3 DEF HeapIndexed
      <4> QED
        BY <4>1, <4>2, <2>2, <2>4
    <3> QED
      BY <3>1, <2>2
  <2> QED
    BY <2>1, <2>2, <2>5 DEF Types, TypeOK, Entry
<1> QED
  BY <1>1, TimersHold, PTL

-----------------------------------------------------------------------------
(* The promise to the user.                                                *)

LEMMA WaitsInit == Init => Waits!Init
<1>1. SUFFICES ASSUME Init
               PROVE  Waits!Init
  OBVIOUS
<1>2. Begun(queue, Len(Early)) /\ DOMAIN Early = 1 .. Len(Early)
  BY <1>1, EarlyBegun, EarlyFacts
<1>3. result = [w \in Wait |-> IF w \in DOMAIN Early THEN "waiting" ELSE "new"]
  BY <1>1 DEF Init
<1>4. ASSUME NEW w \in Wait
      PROVE  w \in DOMAIN Early <=>
               \E t \in Timer : \E i \in DOMAIN queue.waits[t] : queue.waits[t][i] = w
  <2>1. ASSUME w \in DOMAIN Early
        PROVE  \E t \in Timer : \E i \in DOMAIN queue.waits[t] : queue.waits[t][i] = w
    <3> DEFINE t == Early[w].timer
    <3>1. w \in 1 .. Len(Early) /\ t \in Timer
      BY <2>1, <1>2, EarlyFacts
    <3>2. PICK m \in 1 .. Len(Early) : Early[m].timer = t /\ queue.waits[t] = << m >>
      BY <3>1, <1>2 DEF Begun
    <3>3. m = w
      BY <3>1, <3>2, EarlyFacts
    <3>4. 1 \in DOMAIN queue.waits[t] /\ queue.waits[t][1] = w
      BY <3>2, <3>3
    <3> QED
      BY <3>1, <3>4
  <2>2. ASSUME NEW t \in Timer, NEW i \in DOMAIN queue.waits[t], queue.waits[t][i] = w
        PROVE  w \in DOMAIN Early
    <3>1. queue.waits[t] # << >>
      BY <2>2
    <3>2. PICK m \in 1 .. Len(Early) : queue.waits[t] = << m >>
      BY <3>1, <1>2 DEF Begun
    <3>3. i = 1 /\ w = m
      BY <2>2, <3>2
    <3> QED
      BY <3>3, <1>2
  <2> QED
    BY <2>1, <2>2
<1> QED
  BY <1>3, <1>4 DEF Waits!Init

LEMMA NobodyEnds ==
  ASSUME Types, NEW how
  PROVE  result = [w \in Wait |-> IF \E i \in DOMAIN << >> : << >>[i] = w THEN how ELSE result[w]]
BY DEF Types

\* Every step is one of AsioWaits, or changes nothing there.
LEMMA WaitsNext == TimersInv /\ [Next]_timerVars => [Waits!Next]_(Waits!waitVars)
<1>1. SUFFICES ASSUME TimersInv, [Next]_timerVars
               PROVE  [Waits!Next]_(Waits!waitVars)
  OBVIOUS
<1>2. /\ Types /\ Sound(queue) /\ queue \in Queues /\ queue.waits \in [Timer -> Seq(Wait)]
      /\ expiry \in [Timer -> Nat] /\ now \in Nat /\ Quiet /\ Timed
  BY <1>1, QueueFields, TimersAssumption DEF TimersInv, Types, Sound
<1>3. ASSUME NEW t \in Timer, Cancel(t)
      PROVE  Waits!Next
  <2>1. /\ queue' = CancelTimer(queue, t) /\ result' = Ended(queue.waits[t], "aborted")
        /\ now' = now /\ expiry' = expiry
    BY <1>3 DEF Cancel
  <2>2. queue'.waits = [queue.waits EXCEPT ![t] = << >>]
    BY <1>2, <2>1, CancelTimerFacts
  <2>3. Waits!Cancel(t)
    BY <2>1, <2>2 DEF Waits!Cancel, Waits!Ended, Ended
  <2> QED
    BY <2>3 DEF Waits!Next
<1>4. ASSUME NEW t \in Timer, CancelOne(t)
      PROVE  [Waits!Next]_(Waits!waitVars)
  <2>1. now' = now /\ expiry' = expiry
    BY <1>4 DEF CancelOne
  <2>2. CASE queue.waits[t] = << >>
    <3>1. queue' = queue /\ result' = result
      BY <1>4, <2>2 DEF CancelOne
    <3> QED
      BY <2>1, <3>1 DEF Waits!waitVars
  <2>3. CASE queue.waits[t] # << >>
    <3>1. /\ queue' = CancelOneWait(queue, t)
          /\ result' = Ended(<< Head(queue.waits[t]) >>, "aborted")
      BY <1>4, <2>3 DEF CancelOne
    <3>2. queue'.waits = [queue.waits EXCEPT ![t] = Tail(@)]
      BY <1>2, <2>3, <3>1, CancelOneWaitFacts
    <3>3. Waits!CancelOne(t)
      BY <2>1, <2>3, <3>1, <3>2 DEF Waits!CancelOne, Waits!Ended, Ended
    <3> QED
      BY <3>3 DEF Waits!Next
  <2> QED
    BY <2>2, <2>3
<1>5. ASSUME NEW t \in Timer, NEW w \in Wait, AsyncWait(t, w)
      PROVE  Waits!Next
  <2>1. /\ result[w] = "new" /\ queue' = EnqueueTimer(queue, expiry[t], t, w)
        /\ result' = [result EXCEPT ![w] = "waiting"] /\ now' = now /\ expiry' = expiry
    BY <1>5 DEF AsyncWait
  <2>3. queue'.waits = [queue.waits EXCEPT ![t] = Append(@, w)]
    BY <1>2, <1>5, AsyncWaitQueue
  <2>4. Waits!AsyncWait(t, w)
    BY <2>1, <2>3 DEF Waits!AsyncWait
  <2> QED
    BY <2>4 DEF Waits!Next
<1>6. ASSUME NEW t \in Timer, NEW d \in Delays, ExpiresAfter(t, d)
      PROVE  Waits!Next
  <2>1. now' = now
    BY <1>6 DEF ExpiresAfter
  <2>2. PICK time \in Readings : expiry' = [expiry EXCEPT ![t] = time + d]
    BY <1>6 DEF ExpiresAfter
  <2>3. expiry'[t] = time + d
    BY <1>2, <2>2
  <2>4. expiry' = [expiry EXCEPT ![t] = expiry'[t]]
    BY <2>2, <2>3
  <2>5. /\ queue'.waits = [queue.waits EXCEPT ![t] = << >>]
        /\ result' = [w \in Wait |-> IF \E i \in DOMAIN queue.waits[t] : queue.waits[t][i] = w
                                     THEN "aborted" ELSE result[w]]
    <3>1. CASE pending[t]
      <4>1. queue' = CancelTimer(queue, t) /\ result' = Ended(queue.waits[t], "aborted")
        BY <1>6, <3>1 DEF ExpiresAfter
      <4> QED
        BY <4>1, <1>2, CancelTimerFacts DEF Ended
    <3>2. CASE ~ pending[t]
      <4>1. queue' = queue /\ result' = result
        BY <1>6, <3>2 DEF ExpiresAfter
      <4>2. queue.waits[t] = << >>
        BY <3>2, <1>2 DEF Quiet
      <4>3. queue.waits = [queue.waits EXCEPT ![t] = << >>]
        BY <4>2, <1>2
      <4> QED
        BY <4>1, <4>2, <4>3, <1>2, NobodyEnds
    <3> QED
      BY <3>1, <3>2
  <2>6. Waits!ExpiresAt(t)
    BY <2>1, <2>4, <2>5 DEF Waits!ExpiresAt, Waits!Ended
  <2> QED
    BY <2>6 DEF Waits!Next
<1>7. ASSUME CheckTimers
      PROVE  Waits!Next
  <2>1. /\ queue' = ReadyTimers(queue, now) /\ now' = now /\ expiry' = expiry
        /\ result' = [w \in Wait |->
             IF \E t \in Timer : /\ queue'.waits[t] = << >>
                                 /\ \E i \in DOMAIN queue.waits[t] : queue.waits[t][i] = w
             THEN "due" ELSE result[w]]
    BY <1>7 DEF CheckTimers
  <2>2. /\ Sound(queue') /\ \A t \in Timer :
             queue'.waits[t] = IF \E e \in Entries(queue) : e.timer = t /\ e.time <= now
                               THEN << >> ELSE queue.waits[t]
    BY <1>2, <2>1, ReadyTimersFacts
  <2>3. ASSUME NEW t \in Timer
        PROVE  queue'.waits[t] = IF expiry[t] <= now THEN << >> ELSE queue.waits[t]
    <3>1. CASE queue.waits[t] = << >>
      BY <3>1, <2>2
    <3>2. CASE queue.waits[t] # << >>
      <4>1. t \in Active(queue) /\ HeapOf(queue, Active(queue))
        BY <3>2, <1>2, SoundParts DEF Active
      <4>2. PICK e \in Entries(queue) : e.timer = t
        BY <4>1, InHeap DEF HeapOf
      <4>3. \A d \in Entries(queue) : d.timer = t => d.time = expiry[t]
        BY <1>2 DEF Timed
      <4> QED
        BY <4>2, <4>3, <2>2
    <3> QED
      BY <3>1, <3>2
  <2>4. queue'.waits = [t \in Timer |-> IF expiry[t] <= now THEN << >> ELSE queue.waits[t]]
    <3>1. queue'.waits \in [Timer -> Seq(Wait)]
      BY <2>2, QueueFields DEF Sound
    <3> QED
      BY <3>1, <2>3
  <2>5. ASSUME NEW w \in Wait
        PROVE  (\E t \in Timer : /\ queue'.waits[t] = << >>
                                 /\ \E i \in DOMAIN queue.waits[t] : queue.waits[t][i] = w)
               <=> \E t \in Timer : /\ expiry[t] <= now
                                    /\ \E i \in DOMAIN queue.waits[t] : queue.waits[t][i] = w
    <3>1. ASSUME NEW t \in Timer, NEW i \in DOMAIN queue.waits[t]
          PROVE  queue'.waits[t] = << >> <=> expiry[t] <= now
      <4>1. queue.waits[t] # << >>
        OBVIOUS
      <4> QED
        BY <4>1, <2>3
    <3> QED
      BY <3>1
  <2>6. result' = [w \in Wait |->
           IF \E t \in Timer : /\ expiry[t] <= now
                               /\ \E i \in DOMAIN queue.waits[t] : queue.waits[t][i] = w
           THEN "due" ELSE result[w]]
    BY <2>1, <2>5
  <2>7. Waits!Expire
    BY <2>1, <2>4, <2>6 DEF Waits!Expire
  <2> QED
    BY <2>7 DEF Waits!Next
<1>8. CASE EpollReturns \/ GetTimeout \/ SetTime \/ UNCHANGED timerVars
  BY <1>8 DEF EpollReturns, GetTimeout, SetTime, timerVars, Waits!waitVars
<1>9. CASE Tick
  <2>1. Waits!Pass
    BY <1>2, <1>9 DEF Tick, Waits!Pass
  <2> QED
    BY <2>1 DEF Waits!Next
<1> QED
  BY <1>1, <1>3, <1>4, <1>5, <1>6, <1>7, <1>8, <1>9 DEF Next

\* Heap, list, might_have_pending_waits and timerfd together keep the promise of
\* AsioWaits, step by step: every async_wait, cancel, cancel_one, expires_after
\* and check of the timers is that operation on the waits of the user's timers, a
\* wait ends once, when its time has come and not before, or is aborted.
THEOREM WaitsAreImplemented == Spec => ImplementsWaits
<1>1. Init => Waits!Init
  BY WaitsInit
<1>2. TimersInv /\ [Next]_timerVars => [Waits!Next]_(Waits!waitVars)
  BY WaitsNext
<1> QED
  BY <1>1, <1>2, TimersHold, PTL DEF Spec, ImplementsWaits, Waits!Spec

=============================================================================
