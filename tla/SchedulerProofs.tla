-------------------------- MODULE SchedulerProofs --------------------------
(***************************************************************************)
(* Proofs about Scheduler, for any set of threads.                         *)
(***************************************************************************)
EXTENDS Scheduler, Integers, WellFoundedInduction, TLAPS

\* What the remainder does to an index that is in range, or one turn ahead.
LEMMA RemainderRange ==
  ASSUME NEW n \in Nat, NEW len \in Nat, len > 0
  PROVE  n % len \in 0..(len - 1)
  OBVIOUS

\* An index in range is its own remainder.
LEMMA RemainderSmall ==
  ASSUME NEW len \in Nat, NEW a \in 0..(len - 1)
  PROVE  a % len = a
  OBVIOUS

\* An index one turn ahead comes back by the length of the queue.
LEMMA RemainderTurn ==
  ASSUME NEW len \in Nat, NEW a \in 0..(len - 1)
  PROVE  (a + len) % len = a
  OBVIOUS

\* A set of naturals that is not empty has a least element.
LEMMA LeastElement ==
  ASSUME NEW N, N \subseteq Nat, N # {}
  PROVE  \E i \in N : \A j \in N : i <= j
  <1> DEFINE R == OpToRel(<, Nat)
  <1>1. PICK x \in N : \A y \in N : <<y, x>> \notin R
    BY NatLessThanWellFounded, WFMin
  <1>2. \A y \in N : y < x => <<y, x>> \in R
    BY DEF OpToRel
  <1> HIDE DEF R
  <1>3. \A y \in N : ~(y < x)
    BY <1>1, <1>2, Zenon
  <1>4. \A y \in N : x <= y
    BY <1>3
  <1> QED
    BY <1>4

-----------------------------------------------------------------------------
\* Queues in which every thread is at its own priority, and some are there.
GoodQueues(qs) ==
  /\ qs \in [Levels -> Seq(AllThreads)]
  /\ \A l \in Levels : \A i \in 1..Len(qs[l]) : Priority(qs[l][i]) = l
  /\ \E i \in 1..Len(qs[Normal]) : qs[Normal][i] = TaskThread

\* Some queue has threads: that of the executor, or a higher one.
LEMMA LevelExists ==
  ASSUME NEW qs, GoodQueues(qs)
  PROVE  /\ Level(qs) \in Levels /\ qs[Level(qs)] # <<>>
         /\ HighThreads = {} => Level(qs) = Normal
  <1> DEFINE Is(l) == qs[l] # <<>> /\ \A m \in Levels : m < l => qs[m] = <<>>
  <1>1. qs[Normal] # <<>>
    BY DEF GoodQueues, Levels
  <1>2. Is(High) \/ Is(Normal)
    BY <1>1 DEF Levels, High, Normal, Low
  <1>3. Level(qs) \in Levels /\ Is(Level(qs))
    BY <1>2 DEF Level, Levels
  <1>4. ASSUME HighThreads = {} PROVE Level(qs) = Normal
    <2>1. qs[High] \in Seq(AllThreads) /\ \A i \in 1..Len(qs[High]) : Priority(qs[High][i]) = High
      BY DEF GoodQueues, Levels
    <2>2. \A t \in AllThreads : Priority(t) # High
      BY <1>4 DEF Priority, High, Normal, Low
    <2>3. qs[High] = <<>>
      BY <2>1, <2>2
    <2> QED
      BY <1>1, <1>3, <2>3 DEF Levels, High, Normal, Low
  <1> QED
    BY <1>3, <1>4

\* schedule_next_thread finds a ready thread of the queues, or fails.
LEMMA ScheduleFinds ==
  ASSUME TypeOK, NEW qs, GoodQueues(qs), ScheduleNext(qs), ~stuck
  PROVE  /\ next' \in [Levels -> Nat] /\ current' \in AllThreads /\ stuck' \in BOOLEAN
         /\ \/ stuck'
            \/ /\ state[current'] = "Running"
               /\ \E i \in 1..Len(qs[Priority(current')]) : qs[Priority(current')][i] = current'
  <1> DEFINE l == Level(qs)
             q == qs[l]
             n == Start(q, next[l])
             F == Found(q, n)
             k == CHOOSE i \in F : \A j \in F : i <= j
             m == (n + k) % Len(q)
  <1>1. l \in Levels /\ q \in Seq(AllThreads) /\ q # <<>> /\ Len(q) \in Nat /\ Len(q) > 0
    BY LevelExists DEF GoodQueues
  <1>2. n \in Nat
    BY <1>1 DEF Start, TypeOK
  <1>3. CASE F = {}
    BY <1>3 DEF ScheduleNext, TypeOK
  <1>4. CASE F # {}
    <2>1. F \subseteq Nat
      BY <1>1 DEF Found
    <2>2. k \in F
      <3>1. \E i \in F : \A j \in F : i <= j
        BY <1>4, <2>1, LeastElement
      <3> QED
        BY <3>1
    <2>3. k \in Nat
      BY <2>1, <2>2
    <2>4. m \in 0..(Len(q) - 1) /\ (n + k + 1) % Len(q) \in Nat
      BY <1>1, <1>2, <2>3, RemainderRange
    <2>5. state[q[m + 1]] = "Running"
      BY <2>2 DEF Found, At
    <2>6. m + 1 \in 1..Len(q) /\ q[m + 1] \in AllThreads /\ Priority(q[m + 1]) = l
      BY <1>1, <2>4 DEF GoodQueues
    <2>7. current' = q[m + 1] /\ next' = [next EXCEPT ![l] = (n + k + 1) % Len(q)] /\ stuck' = stuck
      BY <1>4 DEF ScheduleNext, At
    <2> QED
      BY <1>1, <2>4, <2>5, <2>6, <2>7 DEF TypeOK
  <1> QED
    BY <1>3, <1>4

\* With the executor in the queue, and no High thread, it does not fail.
LEMMA ScheduleSucceeds ==
  ASSUME TypeOK, NEW qs, GoodQueues(qs), ScheduleNext(qs), ~stuck,
         HighThreads = {}, state[TaskThread] = "Running"
  PROVE  ~stuck'
  <1> DEFINE q == qs[Normal]
             n == Start(q, next[Normal])
             F == Found(q, n)
  <1>1. Level(qs) = Normal /\ q \in Seq(AllThreads) /\ Len(q) \in Nat /\ q # <<>> /\ Len(q) > 0
    <2>1. Level(qs) = Normal /\ q # <<>>
      BY LevelExists
    <2>2. q \in Seq(AllThreads)
      BY DEF GoodQueues, Levels
    <2> QED
      BY <2>1, <2>2
  <1>2. n \in 0..(Len(q) - 1)
    BY <1>1 DEF Start, TypeOK, Levels
  <1>3. PICK i \in 1..Len(q) : q[i] = TaskThread
    BY DEF GoodQueues
  <1>4. \E k \in 0..(Len(q) - 1) : (n + k) % Len(q) = i - 1
    <2>1. CASE n <= i - 1
      <3>1. (n + (i - 1 - n)) % Len(q) = i - 1
        BY <1>1, <1>2, <1>3, RemainderSmall
      <3> QED
        BY <1>1, <1>2, <1>3, <2>1, <3>1
    <2>2. CASE n > i - 1
      <3> DEFINE a == i - 1
                 k == a - n + Len(q)
      <3>1. a \in 0..(Len(q) - 1)
        BY <1>1, <1>3
      <3>2. (a + Len(q)) % Len(q) = a
        BY <1>1, <3>1, RemainderTurn
      <3>3. k \in 0..(Len(q) - 1) /\ n + k = a + Len(q)
        BY <1>1, <1>2, <2>2, <3>1
      <3>4. (n + k) % Len(q) = i - 1
        BY <3>2, <3>3
      <3> QED
        BY <3>3, <3>4
    <2> QED
      BY <1>1, <1>2, <1>3, <2>1, <2>2
  <1>5. F # {}
    BY <1>1, <1>3, <1>4 DEF Found, At
  <1> QED
    BY <1>1, <1>5 DEF ScheduleNext

-----------------------------------------------------------------------------
\* The executor is always queued and never waits.
TaskReady ==
  /\ \E i \in 1..Len(queues[Normal]) : queues[Normal][i] = TaskThread
  /\ state[TaskThread] = "Running"

IInv == TypeOK /\ TaskReady /\ CurrentIsReady /\ NeverStuck

\* Every thread has a priority, and the executor has Normal.
LEMMA PriorityOf ==
  /\ Priority(TaskThread) = Normal /\ Priority(IdleThread) = Low
  /\ \A t \in AllThreads : Priority(t) \in Levels
  /\ \A t \in UserThreads : Priority(t) = Normal
  BY DistinctAssumption DEF Priority, Levels, AllThreads

\* The queues of the scheduler are fit for the search.
LEMMA QueuesGood == ASSUME TypeOK, TaskReady PROVE GoodQueues(queues)
  BY DEF TypeOK, TaskReady, GoodQueues

\* The scheduler as boot leaves it satisfies the invariant.
LEMMA InitInv == Init => IInv
  <1> SUFFICES ASSUME Init PROVE IInv
    OBVIOUS
  <1> USE DEF Init, High, Normal, Low
  <1>1. queues = [l \in Levels |-> IF l = 0 THEN <<>> ELSE IF l = 1 THEN <<TaskThread>> ELSE <<IdleThread>>]
    BY DEF Levels
  <1>2. TypeOK
    <2>1. TaskThread \in AllThreads /\ IdleThread \in AllThreads
      BY DEF AllThreads
    <2>2. \A l \in Levels : queues[l] \in Seq(AllThreads)
      BY <1>1, <2>1 DEF Levels
    <2>3. \A l \in Levels : \A i \in 1..Len(queues[l]) : Priority(queues[l][i]) = l
      BY <1>1, PriorityOf DEF Levels
    <2>4. next \in [Levels -> Nat] /\ state \in [AllThreads -> {"Running", "Waiting"}]
      BY DEF Init
    <2> QED
      BY <1>1, <2>1, <2>2, <2>3, <2>4 DEF TypeOK
  <1>3. TaskReady
    BY <1>1 DEF TaskReady, AllThreads, Levels
  <1>4. CurrentIsReady
    BY <1>1, PriorityOf DEF CurrentIsReady, Queued, AllThreads, Levels
  <1> QED
    BY <1>2, <1>3, <1>4 DEF IInv, NeverStuck

\* What retain leaves: the other threads, in a sequence one shorter.
LEMMA WithoutKeeps ==
  ASSUME NEW U, NEW q \in Seq(U), NEW t
  PROVE  /\ Without(q, t) \in Seq(U)
         /\ \A j \in 1..Len(Without(q, t)) : \E i \in 1..Len(q) : Without(q, t)[j] = q[i]
         /\ \A i \in 1..Len(q) : q[i] # t => \E j \in 1..Len(Without(q, t)) : Without(q, t)[j] = q[i]
  <1>1. CASE \E i \in 1..Len(q) : q[i] = t
    <2> DEFINE i0 == CHOOSE i \in 1..Len(q) : q[i] = t
               w == [j \in 1..(Len(q) - 1) |-> IF j < i0 THEN q[j] ELSE q[j + 1]]
    <2>1. i0 \in 1..Len(q) /\ q[i0] = t
      BY <1>1
    <2>2. Without(q, t) = w
      BY <1>1 DEF Without
    <2> HIDE DEF i0
    <2>3. Len(q) \in Nat /\ Len(q) - 1 \in Nat
      BY <2>1
    <2>4. w \in Seq(U) /\ Len(w) = Len(q) - 1
      BY <2>1, <2>3
    <2>5. \A j \in 1..Len(w) : \E i \in 1..Len(q) : w[j] = q[i]
      <3> SUFFICES ASSUME NEW j \in 1..Len(w) PROVE \E i \in 1..Len(q) : w[j] = q[i]
        OBVIOUS
      <3>1. j \in 1..Len(q) /\ j + 1 \in 1..Len(q) /\ j \in 1..(Len(q) - 1)
        BY <2>3, <2>4
      <3>2. w[j] = q[j] \/ w[j] = q[j + 1]
        BY <3>1
      <3> QED
        BY <3>1, <3>2
    <2>6. \A i \in 1..Len(q) : q[i] # t => \E j \in 1..Len(w) : w[j] = q[i]
      <3> SUFFICES ASSUME NEW i \in 1..Len(q), q[i] # t PROVE \E j \in 1..Len(w) : w[j] = q[i]
        OBVIOUS
      <3>1. i # i0
        BY <2>1
      <3>2. CASE i < i0
        <4>1. i \in 1..(Len(q) - 1) /\ w[i] = q[i]
          BY <2>1, <2>3, <3>2
        <4> QED
          BY <2>4, <4>1
      <3>3. CASE i > i0
        <4>1. i - 1 \in 1..(Len(q) - 1) /\ ~(i - 1 < i0) /\ (i - 1) + 1 = i
          BY <2>1, <2>3, <3>3
        <4>2. w[i - 1] = q[i]
          BY <4>1
        <4> QED
          BY <2>4, <4>1, <4>2
      <3> QED
        BY <2>1, <2>3, <3>1, <3>2, <3>3
    <2> QED
      BY <2>2, <2>4, <2>5, <2>6
  <1>2. CASE ~\E i \in 1..Len(q) : q[i] = t
    BY <1>2 DEF Without
  <1> QED
    BY <1>1, <1>2

-----------------------------------------------------------------------------
\* The timer, and Yield.
LEMMA RescheduleInv == ASSUME IInv, Reschedule PROVE IInv'
  <1> USE DEF IInv
  <1>1. GoodQueues(queues)
    BY QueuesGood
  <1>2. TypeOK'
    BY <1>1, ScheduleFinds DEF Reschedule, TypeOK
  <1>3. TaskReady'
    BY DEF Reschedule, TaskReady
  <1>4. CurrentIsReady'
    BY <1>1, ScheduleFinds DEF Reschedule, CurrentIsReady, Queued
  <1>5. NeverStuck'
    BY <1>1, ScheduleSucceeds DEF Reschedule, NeverStuck, TaskReady
  <1> QED
    BY <1>2, <1>3, <1>4, <1>5

\* add_thread puts a new, ready thread in its queue.
LEMMA AddThreadInv ==
  ASSUME IInv, NEW t \in UserThreads \cup HighThreads, AddThread(t)
  PROVE  IInv'
  <1> USE DEF IInv
  <1> DEFINE p == Priority(t)
  <1>1. t \in AllThreads /\ p \in Levels /\ t # TaskThread
    BY PriorityOf, DistinctAssumption DEF AllThreads
  <1>2. queues' = [queues EXCEPT ![p] = Append(queues[p], t)] /\ queues[p] \in Seq(AllThreads)
    BY <1>1 DEF AddThread, Added, TypeOK
  <1>3. /\ Len(queues'[p]) = Len(queues[p]) + 1 /\ queues'[p][Len(queues[p]) + 1] = t
        /\ \A i \in 1..Len(queues[p]) : queues'[p][i] = queues[p][i]
        /\ queues'[p] \in Seq(AllThreads) /\ Len(queues[p]) \in Nat
        /\ \A l \in Levels \ {p} : queues'[l] = queues[l]
    BY <1>1, <1>2 DEF TypeOK
  <1>4. \A l \in Levels : \A i \in 1..Len(queues[l]) :
          i \in 1..Len(queues'[l]) /\ queues'[l][i] = queues[l][i]
    BY <1>3 DEF TypeOK
  <1>5. TypeOK'
    <2>1. queues' \in [Levels -> Seq(AllThreads)]
      BY <1>1, <1>2, <1>3 DEF TypeOK
    <2>2. \A l \in Levels : \A i \in 1..Len(queues'[l]) : Priority(queues'[l][i]) = l
      <3> SUFFICES ASSUME NEW l \in Levels, NEW i \in 1..Len(queues'[l])
                   PROVE  Priority(queues'[l][i]) = l
        OBVIOUS
      <3>1. CASE l = p /\ i = Len(queues[p]) + 1
        BY <1>3, <3>1
      <3>2. CASE l = p /\ i # Len(queues[p]) + 1
        <4>1. i \in 1..Len(queues[p])
          BY <1>3, <3>2
        <4> QED
          BY <1>1, <1>3, <3>2, <4>1 DEF TypeOK
      <3>3. CASE l # p
        BY <1>3, <3>3 DEF TypeOK
      <3> QED
        BY <3>1, <3>2, <3>3
    <2> QED
      BY <1>1, <2>1, <2>2 DEF AddThread, TypeOK
  <1>6. TaskReady'
    BY <1>1, <1>4 DEF AddThread, TaskReady, TypeOK, Levels
  <1>7. CurrentIsReady'
    BY <1>1, <1>4, PriorityOf DEF AddThread, CurrentIsReady, Queued, TypeOK
  <1> QED
    BY <1>5, <1>6, <1>7 DEF AddThread, NeverStuck

\* remove_thread takes out a thread that is not the executor.
LEMMA RemoveThreadInv ==
  ASSUME IInv, NEW t \in UserThreads \cup HighThreads, RemoveThread(t)
  PROVE  IInv'
  <1> USE DEF IInv
  <1> DEFINE p == Priority(t)
  <1>1. t \in AllThreads /\ p \in Levels /\ t # TaskThread
    BY PriorityOf, DistinctAssumption DEF AllThreads
  <1>2. queues' = [queues EXCEPT ![p] = Without(queues[p], t)] /\ queues[p] \in Seq(AllThreads)
    BY <1>1 DEF RemoveThread, Removed, TypeOK
  <1>3. \A l \in Levels : l # p => queues'[l] = queues[l]
    BY <1>2 DEF TypeOK
  <1>4. queues'[p] = Without(queues[p], t)
    BY <1>1, <1>2 DEF TypeOK
  <1>5. queues' \in [Levels -> Seq(AllThreads)]
    BY <1>1, <1>2, WithoutKeeps DEF TypeOK
  <1>6. \A l \in Levels : \A j \in 1..Len(queues'[l]) : \E i \in 1..Len(queues[l]) : queues'[l][j] = queues[l][i]
    <2> SUFFICES ASSUME NEW l \in Levels, NEW j \in 1..Len(queues'[l])
                 PROVE  \E i \in 1..Len(queues[l]) : queues'[l][j] = queues[l][i]
      OBVIOUS
    <2>1. CASE l = p
      BY <1>2, <1>4, <2>1, WithoutKeeps
    <2>2. CASE l # p
      BY <1>3, <2>2
    <2> QED
      BY <2>1, <2>2
  <1>7. \A l \in Levels : \A i \in 1..Len(queues[l]) :
          queues[l][i] # t => \E j \in 1..Len(queues'[l]) : queues'[l][j] = queues[l][i]
    <2> SUFFICES ASSUME NEW l \in Levels, NEW i \in 1..Len(queues[l]), queues[l][i] # t
                 PROVE  \E j \in 1..Len(queues'[l]) : queues'[l][j] = queues[l][i]
      OBVIOUS
    <2>1. CASE l = p
      BY <1>2, <1>4, <2>1, WithoutKeeps
    <2>2. CASE l # p
      BY <1>3, <2>2
    <2> QED
      BY <2>1, <2>2
  <1>8. \A l \in Levels : \A j \in 1..Len(queues'[l]) : Priority(queues'[l][j]) = l
    BY <1>6 DEF TypeOK
  <1>9. TaskReady'
    BY <1>1, <1>7 DEF RemoveThread, TaskReady, Levels
  <1>10. GoodQueues(queues')
    BY <1>5, <1>8, <1>9 DEF GoodQueues, TaskReady
  <1>11. CASE t = current
    <2>1. ScheduleNext(queues') /\ ~stuck /\ state' = state
      BY <1>11 DEF RemoveThread
    <2>2. TypeOK'
      BY <1>5, <1>8, <1>10, <2>1, ScheduleFinds DEF TypeOK
    <2>3. CurrentIsReady'
      BY <1>10, <2>1, ScheduleFinds DEF CurrentIsReady, Queued
    <2>4. NeverStuck'
      BY <1>10, <2>1, ScheduleSucceeds DEF NeverStuck, TaskReady
    <2> QED
      BY <1>9, <2>2, <2>3, <2>4
  <1>12. CASE t # current
    <2>1. UNCHANGED <<next, current, stuck, state>>
      BY <1>12 DEF RemoveThread
    <2>2. TypeOK'
      BY <1>5, <1>8, <2>1 DEF TypeOK
    <2>3. CurrentIsReady'
      BY <1>7, <1>12, <2>1, PriorityOf DEF RemoveThread, CurrentIsReady, Queued, TypeOK
    <2> QED
      BY <1>9, <2>1, <2>2, <2>3 DEF NeverStuck
  <1> QED
    BY <1>11, <1>12

\* A page fault: the executor, which is ready, runs next.
LEMMA BlockInv ==
  ASSUME IInv, NEW t \in UserThreads \cup HighThreads, Block(t)
  PROVE  IInv'
  <1> USE DEF IInv
  <1>1. t \in AllThreads /\ t # TaskThread /\ TaskThread \in AllThreads
    BY DistinctAssumption DEF AllThreads
  <1>2. TypeOK'
    BY <1>1 DEF Block, TypeOK
  <1>3. TaskReady'
    BY <1>1 DEF Block, TaskReady, TypeOK
  <1>4. CurrentIsReady'
    BY <1>3, PriorityOf DEF Block, CurrentIsReady, Queued, TaskReady
  <1> QED
    BY <1>2, <1>3, <1>4 DEF Block, NeverStuck

\* Every call of the scheduler keeps the invariant.
LEMMA NextInv == IInv /\ [Next]_vars => IInv'
  <1> SUFFICES ASSUME IInv, [Next]_vars PROVE IInv'
    OBVIOUS
  <1>1. CASE Reschedule
    BY <1>1, RescheduleInv
  <1>2. CASE \E t \in UserThreads \cup HighThreads : AddThread(t) \/ RemoveThread(t) \/ Block(t)
    BY <1>2, AddThreadInv, RemoveThreadInv, BlockInv
  <1>3. CASE UNCHANGED vars
    BY <1>3 DEF vars, IInv, TypeOK, TaskReady, CurrentIsReady, NeverStuck, Queued
  <1> QED
    BY <1>1, <1>2, <1>3 DEF Next

-----------------------------------------------------------------------------
\* No thread is in its queue twice: add_thread gets a thread that is new.
Once == \A l \in Levels : \A i, j \in 1..Len(queues[l]) : queues[l][i] = queues[l][j] => i = j

\* retain takes out the only occurrence and doubles none.
LEMMA WithoutOnce ==
  ASSUME NEW U, NEW q \in Seq(U), NEW t, \A i, j \in 1..Len(q) : q[i] = q[j] => i = j
  PROVE  /\ \A i \in 1..Len(Without(q, t)) : Without(q, t)[i] # t
         /\ \A i, j \in 1..Len(Without(q, t)) : Without(q, t)[i] = Without(q, t)[j] => i = j
  <1>1. CASE \E i \in 1..Len(q) : q[i] = t
    <2> DEFINE i0 == CHOOSE i \in 1..Len(q) : q[i] = t
               w == [j \in 1..(Len(q) - 1) |-> IF j < i0 THEN q[j] ELSE q[j + 1]]
               f(j) == IF j < i0 THEN j ELSE j + 1
    <2>1. i0 \in 1..Len(q) /\ q[i0] = t
      BY <1>1
    <2>2. Without(q, t) = w
      BY <1>1 DEF Without
    <2> HIDE DEF i0
    <2>3. Len(q) \in Nat /\ Len(q) - 1 \in Nat
      BY <2>1
    <2>4. w \in Seq(U) /\ Len(w) = Len(q) - 1
      BY <2>1, <2>3
    <2>5. \A j \in 1..Len(w) : w[j] = q[f(j)] /\ f(j) \in 1..Len(q) /\ f(j) # i0
      BY <2>1, <2>3, <2>4
    <2>6. \A i, j \in 1..Len(w) : f(i) = f(j) => i = j
      BY <2>1, <2>3, <2>4
    <2> HIDE DEF w, f
    <2>7. \A j \in 1..Len(w) : w[j] # t
      BY <2>1, <2>5
    <2>8. ASSUME NEW i \in 1..Len(w), NEW j \in 1..Len(w), w[i] = w[j] PROVE i = j
      <3>1. f(i) \in 1..Len(q) /\ f(j) \in 1..Len(q) /\ q[f(i)] = q[f(j)]
        BY <2>5, <2>8
      <3>2. f(i) = f(j)
        BY <3>1
      <3> QED
        BY <2>6, <3>2
    <2> QED
      BY <2>2, <2>7, <2>8
  <1>2. CASE ~\E i \in 1..Len(q) : q[i] = t
    BY <1>2 DEF Without
  <1> QED
    BY <1>1, <1>2

\* A thread that is removed is in no queue, the others stay where they are.
LEMMA RemovedIsGone ==
  ASSUME IInv, Once, NEW t \in UserThreads \cup HighThreads, RemoveThread(t)
  PROVE  Once' /\ ~Queued(t)' /\ \A u \in AllThreads : Queued(u)' => Queued(u)
  <1> DEFINE p == Priority(t)
  <1>1. t \in AllThreads /\ p \in Levels
    BY PriorityOf DEF AllThreads
  <1>2. queues' = [queues EXCEPT ![p] = Without(queues[p], t)] /\ queues[p] \in Seq(AllThreads)
    BY <1>1 DEF RemoveThread, Removed, IInv, TypeOK
  <1>3. \A l \in Levels : l # p => queues'[l] = queues[l]
    BY <1>2 DEF IInv, TypeOK
  <1>4. queues'[p] = Without(queues[p], t)
    BY <1>1, <1>2 DEF IInv, TypeOK
  <1>5. /\ \A i \in 1..Len(queues'[p]) : queues'[p][i] # t
        /\ \A i, j \in 1..Len(queues'[p]) : queues'[p][i] = queues'[p][j] => i = j
    <2>1. \A i, j \in 1..Len(queues[p]) : queues[p][i] = queues[p][j] => i = j
      BY <1>1 DEF Once
    <2> QED
      BY <1>2, <1>4, <2>1, WithoutOnce
  <1>6. \A i \in 1..Len(queues'[p]) : \E j \in 1..Len(queues[p]) : queues'[p][i] = queues[p][j]
    BY <1>2, <1>4, WithoutKeeps
  <1>7. Once'
    BY <1>3, <1>5 DEF Once
  <1>8. ~Queued(t)'
    BY <1>5 DEF Queued
  <1>9. ASSUME NEW u \in AllThreads, Queued(u)' PROVE Queued(u)
    BY <1>3, <1>6, <1>9, PriorityOf DEF Queued
  <1> QED
    BY <1>7, <1>8, <1>9

\* A thread that is added is queued once, and no other thread is queued by it.
LEMMA AddedOnce ==
  ASSUME IInv, Once, NEW t \in UserThreads \cup HighThreads, AddThread(t)
  PROVE  Once' /\ \A u \in AllThreads : Queued(u)' => Queued(u) \/ u = t
  <1> DEFINE p == Priority(t)
  <1>1. t \in AllThreads /\ p \in Levels
    BY PriorityOf DEF AllThreads
  <1>2. queues' = [queues EXCEPT ![p] = Append(queues[p], t)] /\ queues[p] \in Seq(AllThreads)
    BY <1>1 DEF AddThread, Added, IInv, TypeOK
  <1>3. /\ Len(queues'[p]) = Len(queues[p]) + 1 /\ queues'[p][Len(queues[p]) + 1] = t
        /\ \A i \in 1..Len(queues[p]) : queues'[p][i] = queues[p][i]
        /\ Len(queues[p]) \in Nat
        /\ \A l \in Levels : l # p => queues'[l] = queues[l]
    BY <1>1, <1>2 DEF IInv, TypeOK
  <1>4. \A i \in 1..Len(queues'[p]) : i \in 1..Len(queues[p]) \/ i = Len(queues[p]) + 1
    BY <1>3
  <1>5. \A i \in 1..Len(queues[p]) : queues[p][i] # t
    BY DEF AddThread, Queued
  <1>6. Once'
    BY <1>3, <1>4, <1>5 DEF Once
  <1>7. ASSUME NEW u \in AllThreads, Queued(u)' PROVE Queued(u) \/ u = t
    <2>1. CASE Priority(u) = p
      BY <1>3, <1>4, <1>7, <2>1 DEF Queued
    <2>2. CASE Priority(u) # p
      BY <1>3, <1>7, <2>2, PriorityOf DEF Queued
    <2> QED
      BY <2>1, <2>2
  <1> QED
    BY <1>6, <1>7

\* No call of the scheduler queues a thread twice.
LEMMA OnceKept == ASSUME IInv, Once, [Next]_vars PROVE Once'
  <1>1. CASE UNCHANGED queues
    BY <1>1 DEF Once
  <1>2. CASE \E t \in UserThreads \cup HighThreads : AddThread(t) \/ RemoveThread(t)
    BY <1>2, AddedOnce, RemovedIsGone
  <1> QED
    BY <1>1, <1>2 DEF Next, vars, Reschedule, Block

-----------------------------------------------------------------------------
\* The inductive invariant: the executor stays queued and ready.
THEOREM Invariant == Spec => []IInv
  BY InitInv, NextInv, PTL DEF Spec

\* A thread is queued at most once, so that remove_thread takes it out for good.
THEOREM QueuedOnce == Spec => []Once
  <1>1. Init => Once
    BY DEF Init, Once, Levels, High, Normal, Low
  <1> QED
    BY <1>1, Invariant, OnceKept, PTL DEF Spec

\* The scheduler's queues hold threads of their own priority.
THEOREM TypeCorrect == Spec => []TypeOK
  <1>1. IInv => TypeOK
    BY DEF IInv
  <1> QED
    BY <1>1, Invariant, PTL

\* resume_current_thread resumes only threads that are queued and ready.
THEOREM OnlyReadyRun == Spec => []CurrentIsReady
  <1>1. IInv => CurrentIsReady
    BY DEF IInv
  <1> QED
    BY <1>1, Invariant, PTL

\* schedule_next_thread always comes back while no thread is High.
THEOREM SearchEnds == Spec => []NeverStuck
  <1>1. IInv => NeverStuck
    BY DEF IInv
  <1> QED
    BY <1>1, Invariant, PTL
=============================================================================
