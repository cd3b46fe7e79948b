-------------------------- MODULE SemaphoreProofs --------------------------
(***************************************************************************)
(* Proofs about Semaphore, for any number of futures, threads and permits. *)
(***************************************************************************)
EXTENDS Semaphore, FiniteSetTheorems, SequenceTheorems, TLAPS

\* A compare-exchange expects a counter that was seen not to be zero.
SeenPositive == \A p \in Procs : pc[p] \in {"cas", "try_cas"} => seen[p] > 0

\* A thread, which cannot be dropped, has at most one waker in the queue.
WakerOnce ==
  \A i, j \in 1..Len(waker_queue) :
    waker_queue[i] = waker_queue[j] /\ waker_queue[i] \in Threads => i = j

CounterInv == SemTypeOK /\ SeenPositive /\ PermitsConserved
QueueInv == NoDanglingSignal /\ WakerOnce /\ SleepersAreQueued
IInv == CounterInv /\ QueueInv

-----------------------------------------------------------------------------
\* The holders are a finite set, so its cardinality is a number.
LEMMA HoldersFinite == IsFiniteSet(Holders) /\ Cardinality(Holders) \in Nat
  <1>1. IsFiniteSet(Procs)
    BY ProcsAssumption, FS_Union DEF Procs
  <1>2. Holders \in SUBSET Procs
    BY DEF Holders
  <1>3. IsFiniteSet(Holders)
    BY <1>1, <1>2, FS_Subset
  <1> QED
    BY <1>3, FS_CardinalityType

\* A step of p that neither takes nor gives a permit.
LEMMA HoldersKept ==
  ASSUME SemTypeOK, PermitsConserved, count' = count,
         NEW p \in Procs, NEW l, l # "held", pc[p] # "held",
         pc' = [pc EXCEPT ![p] = l]
  PROVE  PermitsConserved'
  <1>1. Holders' = Holders
    BY DEF Holders, SemTypeOK
  <1> QED
    BY <1>1 DEF PermitsConserved

\* A step of p that takes a permit.
LEMMA HolderAdded ==
  ASSUME SemTypeOK, PermitsConserved, count > 0, count' = count - 1,
         NEW p \in Procs, pc[p] # "held", pc' = [pc EXCEPT ![p] = "held"]
  PROVE  PermitsConserved'
  <1>1. Holders' = Holders \cup {p} /\ p \notin Holders
    BY DEF Holders, SemTypeOK
  <1>2. Cardinality(Holders') = Cardinality(Holders) + 1
    BY <1>1, HoldersFinite, FS_AddElement
  <1> QED
    BY <1>2, HoldersFinite, PermitsAssumption DEF PermitsConserved, SemTypeOK

\* A step that looks at neither the queue of wakers nor a sleeper.
LEMMA QueueKept ==
  ASSUME SemTypeOK, QueueInv, waker_queue' = waker_queue, asleep' = asleep,
         NEW p \in Procs, NEW l, l # "sleep", pc[p] # "sleep",
         pc' = [pc EXCEPT ![p] = l]
  PROVE  QueueInv'
  <1>1. NoDanglingSignal'
    BY DEF QueueInv, NoDanglingSignal, SemTypeOK, Procs
  <1>2. WakerOnce'
    BY DEF QueueInv, WakerOnce
  <1>3. SleepersAreQueued'
    BY DEF QueueInv, SleepersAreQueued, SemTypeOK
  <1> QED
    BY <1>1, <1>2, <1>3 DEF QueueInv

-----------------------------------------------------------------------------
\* Semaphore::new establishes the invariant.
LEMMA InitInv == SemInit => IInv
  <1> SUFFICES ASSUME SemInit PROVE IInv
    OBVIOUS
  <1>1. SemTypeOK /\ SeenPositive
    BY PermitsAssumption DEF SemInit, SemTypeOK, SeenPositive, Labels
  <1>2. Holders = {}
    BY DEF SemInit, Holders
  <1>3. PermitsConserved
    BY <1>2, FS_EmptySet, PermitsAssumption DEF SemInit, PermitsConserved
  <1>4. QueueInv
    BY DEF SemInit, QueueInv, NoDanglingSignal, WakerOnce, SleepersAreQueued
  <1> QED
    BY <1>1, <1>3, <1>4 DEF IInv, CounterInv

\* wait, try_wait and the load that follows each.
LEMMA LookInv ==
  ASSUME IInv, NEW p \in Procs, Wait(p) \/ TryWait(p) \/ Load(p) \/ TryLoad(p)
  PROVE  IInv'
  <1> USE DEF IInv, CounterInv
  <1>1. SemTypeOK' /\ SeenPositive'
    <2>1. CASE Wait(p) \/ TryWait(p)
      BY <2>1 DEF Wait, TryWait, SemGoto, SemTypeOK, SeenPositive, Labels
    <2>2. CASE Load(p) \/ TryLoad(p)
      <3>1. SemTypeOK'
        BY <2>2 DEF Load, TryLoad, SemGoto, SemTypeOK, Labels
      <3>2. SeenPositive'
        BY <2>2, PermitsAssumption DEF Load, TryLoad, SemGoto, SemTypeOK, SeenPositive
      <3> QED
        BY <3>1, <3>2
    <2> QED
      BY <2>1, <2>2
  <1>2. PermitsConserved'
    BY HoldersKept DEF Wait, TryWait, Load, TryLoad, SemGoto
  <1>3. QueueInv'
    BY QueueKept DEF Wait, TryWait, Load, TryLoad, SemGoto
  <1> QED
    BY <1>1, <1>2, <1>3

\* A waiter that saw 0 leaves its waker and sleeps.
LEMMA ParkInv == ASSUME IInv, NEW p \in Procs, Park(p) PROVE IInv'
  <1> USE DEF IInv, CounterInv
  <1>1. SemTypeOK' /\ SeenPositive'
    BY DEF Park, SemGoto, SemTypeOK, SeenPositive, Labels
  <1>2. PermitsConserved'
    BY HoldersKept DEF Park, SemGoto
  <1>3. /\ Len(waker_queue') = Len(waker_queue) + 1
        /\ \A i \in 1..Len(waker_queue) : waker_queue'[i] = waker_queue[i]
        /\ waker_queue'[Len(waker_queue) + 1] = p
        /\ Len(waker_queue) \in Nat
    BY DEF Park, SemTypeOK
  <1>4. \A i \in 1..Len(waker_queue) : waker_queue[i] \in Threads => waker_queue[i] # p
    BY DEF Park, QueueInv, NoDanglingSignal
  <1>5. NoDanglingSignal'
    BY <1>3, <1>4 DEF Park, SemGoto, QueueInv, NoDanglingSignal, SemTypeOK, Procs
  <1>6. WakerOnce'
    BY <1>3, <1>4 DEF Park, QueueInv, WakerOnce
  <1>7. SleepersAreQueued'
    BY <1>3 DEF Park, SemGoto, QueueInv, SleepersAreQueued, SemTypeOK
  <1> QED
    BY <1>1, <1>2, <1>5, <1>6, <1>7 DEF QueueInv

\* A waiter whose waker was used looks at the counter again.
LEMMA WakeUpInv == ASSUME IInv, NEW p \in Procs, WakeUp(p) PROVE IInv'
  <1> USE DEF IInv, CounterInv
  <1>1. SemTypeOK' /\ SeenPositive'
    BY DEF WakeUp, SemGoto, SemTypeOK, SeenPositive, Labels
  <1>2. PermitsConserved'
    BY HoldersKept DEF WakeUp, SemGoto
  <1>3. NoDanglingSignal'
    BY DEF WakeUp, SemGoto, QueueInv, NoDanglingSignal, SemTypeOK, Procs
  <1>4. WakerOnce' /\ SleepersAreQueued'
    BY DEF WakeUp, SemGoto, QueueInv, WakerOnce, SleepersAreQueued, SemTypeOK
  <1> QED
    BY <1>1, <1>2, <1>3, <1>4 DEF QueueInv

\* The compare-exchange of wait.
LEMMA CasInv == ASSUME IInv, NEW p \in Procs, Cas(p) PROVE IInv'
  <1> USE DEF IInv, CounterInv
  <1>1. CASE count = seen[p]
    <2>1. count > 0 /\ count' = count - 1 /\ pc' = [pc EXCEPT ![p] = "held"] /\ pc[p] = "cas"
      BY <1>1 DEF Cas, SemGoto, SeenPositive
    <2>2. SemTypeOK' /\ SeenPositive'
      BY <1>1, <2>1, PermitsAssumption DEF Cas, SemTypeOK, SeenPositive, Labels
    <2>3. PermitsConserved'
      BY <2>1, HolderAdded
    <2>4. QueueInv'
      BY <2>1, QueueKept DEF Cas
    <2> QED
      BY <2>2, <2>3, <2>4
  <1>2. CASE count # seen[p]
    <2>1. SemTypeOK'
      BY <1>2 DEF Cas, SemGoto, SemTypeOK, Labels
    <2>2. SeenPositive'
      BY <1>2, PermitsAssumption DEF Cas, SemGoto, SemTypeOK, SeenPositive
    <2>3. PermitsConserved'
      BY <1>2, HoldersKept DEF Cas, SemGoto
    <2>4. QueueInv'
      BY <1>2, QueueKept DEF Cas, SemGoto
    <2> QED
      BY <2>1, <2>2, <2>3, <2>4
  <1> QED
    BY <1>1, <1>2

\* The compare-exchange of try_wait.
LEMMA TryCasInv == ASSUME IInv, NEW p \in Procs, TryCas(p) PROVE IInv'
  <1> USE DEF IInv, CounterInv
  <1>1. CASE count = seen[p]
    <2>1. count > 0 /\ count' = count - 1 /\ pc' = [pc EXCEPT ![p] = "held"] /\ pc[p] = "try_cas"
      BY <1>1 DEF TryCas, SemGoto, SeenPositive
    <2>2. SemTypeOK' /\ SeenPositive'
      BY <1>1, <2>1, PermitsAssumption DEF TryCas, SemTypeOK, SeenPositive, Labels
    <2>3. PermitsConserved'
      BY <2>1, HolderAdded
    <2>4. QueueInv'
      BY <2>1, QueueKept DEF TryCas
    <2> QED
      BY <2>2, <2>3, <2>4
  <1>2. CASE count # seen[p]
    <2>1. SemTypeOK' /\ SeenPositive'
      BY <1>2 DEF TryCas, SemGoto, SemTypeOK, SeenPositive, Labels
    <2>2. PermitsConserved'
      BY <1>2, HoldersKept DEF TryCas, SemGoto
    <2>3. QueueInv'
      BY <1>2, QueueKept DEF TryCas, SemGoto
    <2> QED
      BY <2>1, <2>2, <2>3
  <1> QED
    BY <1>1, <1>2

\* A dropped future: only threads are bound to their wakers.
LEMMA CancelInv == ASSUME IInv, NEW p \in Futures, Cancel(p) PROVE IInv'
  <1> USE DEF IInv, CounterInv
  <1>1. p \in Procs /\ p \notin Threads
    BY ProcsAssumption DEF Procs
  <1>2. SemTypeOK' /\ SeenPositive'
    BY <1>1 DEF Cancel, SemGoto, SemTypeOK, SeenPositive, Labels
  <1>3. PermitsConserved'
    BY <1>1, HoldersKept DEF Cancel, SemGoto
  <1>4. NoDanglingSignal'
    BY <1>1 DEF Cancel, SemGoto, QueueInv, NoDanglingSignal, SemTypeOK, Procs
  <1>5. WakerOnce' /\ SleepersAreQueued'
    BY <1>1 DEF Cancel, SemGoto, QueueInv, WakerOnce, SleepersAreQueued, SemTypeOK
  <1> QED
    BY <1>2, <1>3, <1>4, <1>5 DEF QueueInv

\* signal: the permit comes back.
LEMMA SignalInv ==
  ASSUME IInv, NEW h \in Procs, NEW p \in Procs, Signal(h, p)
  PROVE  IInv'
  <1> USE DEF IInv, CounterInv
  <1>1. Holders' = Holders \ {h} /\ h \in Holders
    BY DEF Signal, Holders, SemTypeOK
  <1>2. Cardinality(Holders') = Cardinality(Holders) - 1 /\ Cardinality(Holders') \in Nat
    BY <1>1, HoldersFinite, FS_RemoveElement, FS_CardinalityType
  <1>3. PermitsConserved'
    BY <1>2, HoldersFinite, PermitsAssumption DEF Signal, PermitsConserved, SemTypeOK
  <1>4. count' \in 0..Permits
    BY <1>2, <1>3, HoldersFinite, PermitsAssumption DEF Signal, PermitsConserved, SemTypeOK
  <1>5. SemTypeOK' /\ SeenPositive'
    BY <1>4 DEF Signal, SemTypeOK, SeenPositive, Labels
  <1>6. NoDanglingSignal'
    BY DEF Signal, QueueInv, NoDanglingSignal, SemTypeOK, Procs
  <1>7. WakerOnce' /\ SleepersAreQueued'
    BY DEF Signal, QueueInv, WakerOnce, SleepersAreQueued, SemTypeOK
  <1> QED
    BY <1>3, <1>5, <1>6, <1>7 DEF QueueInv

\* The signal is passed to the waker at the head of the queue.
LEMMA WakeOneInv == ASSUME IInv, NEW p \in Procs, WakeOne(p) PROVE IInv'
  <1> USE DEF IInv, CounterInv
  <1>1. PermitsConserved'
    BY HoldersKept DEF WakeOne, SemGoto
  <1>2. CASE waker_queue = <<>>
    <2>1. SemTypeOK' /\ SeenPositive'
      BY <1>2 DEF WakeOne, SemGoto, SemTypeOK, SeenPositive, Labels
    <2>2. QueueInv'
      BY <1>2, QueueKept DEF WakeOne, SemGoto
    <2> QED
      BY <1>1, <2>1, <2>2
  <1>3. CASE waker_queue # <<>>
    <2> DEFINE q == Head(waker_queue)
    <2>1. /\ q = waker_queue[1] /\ q \in Procs
          /\ Len(waker_queue) \in Nat /\ Len(waker_queue) >= 1
          /\ Len(waker_queue') = Len(waker_queue) - 1
          /\ \A i \in 1..Len(waker_queue') : waker_queue'[i] = waker_queue[i + 1]
          /\ waker_queue' \in Seq(Procs)
      <3>1. waker_queue \in Seq(Procs) /\ waker_queue' = Tail(waker_queue)
        BY <1>3 DEF WakeOne, SemTypeOK
      <3> QED
        BY <1>3, <3>1, HeadTailProperties
    <2>2. asleep' = [asleep EXCEPT ![q] = FALSE] /\ pc' = [pc EXCEPT ![p] = "idle"] /\ pc[p] = "waking"
      BY <1>3 DEF WakeOne, SemGoto
    <2>3. SemTypeOK' /\ SeenPositive'
      BY <2>1, <2>2 DEF WakeOne, SemTypeOK, SeenPositive, Labels
    <2>4. \A i \in 1..Len(waker_queue') : waker_queue'[i] \in Threads => waker_queue'[i] # q
      BY <2>1 DEF QueueInv, WakerOnce
    <2>5. NoDanglingSignal'
      BY <2>1, <2>2, <2>4 DEF QueueInv, NoDanglingSignal, SemTypeOK, Procs
    <2>6. WakerOnce'
      BY <2>1 DEF QueueInv, WakerOnce
    <2>7. SleepersAreQueued'
      <3> SUFFICES ASSUME NEW r \in Procs, pc'[r] = "sleep", asleep'[r]
                   PROVE  \E i \in 1..Len(waker_queue') : waker_queue'[i] = r
        BY DEF SleepersAreQueued
      <3>1. pc[r] = "sleep" /\ asleep[r] /\ r # q
        BY <2>1, <2>2 DEF SemTypeOK
      <3>2. PICK i \in 1..Len(waker_queue) : waker_queue[i] = r
        BY <3>1 DEF QueueInv, SleepersAreQueued
      <3>3. i # 1
        BY <2>1, <3>1, <3>2
      <3>4. i - 1 \in 1..Len(waker_queue') /\ waker_queue'[i - 1] = r
        BY <2>1, <3>2, <3>3
      <3> QED
        BY <3>4
    <2> QED
      BY <1>1, <2>3, <2>5, <2>6, <2>7 DEF QueueInv
  <1> QED
    BY <1>2, <1>3

\* Every step of the semaphore keeps the invariant.
LEMMA NextInv == IInv /\ [SemNext]_semVars => IInv'
  <1> SUFFICES ASSUME IInv, [SemNext]_semVars PROVE IInv'
    OBVIOUS
  <1>1. CASE \E p \in Procs : Wait(p) \/ TryWait(p) \/ Step(p)
    BY <1>1, LookInv, ParkInv, WakeUpInv, CasInv, TryCasInv, WakeOneInv DEF Step
  <1>2. CASE \E p \in Futures : Cancel(p)
    BY <1>2, CancelInv
  <1>3. CASE \E h, p \in Procs : Signal(h, p)
    BY <1>3, SignalInv
  <1>4. CASE UNCHANGED semVars
    BY <1>4 DEF semVars, IInv, CounterInv, QueueInv, SemTypeOK, SeenPositive, PermitsConserved,
                Holders, NoDanglingSignal, WakerOnce, SleepersAreQueued
  <1> QED
    BY <1>1, <1>2, <1>3, <1>4 DEF SemNext

-----------------------------------------------------------------------------
\* The inductive invariant holds in every behaviour of the semaphore.
THEOREM Invariant == SemSpec => []IInv
  BY InitInv, NextInv, PTL DEF SemSpec

\* The counter never leaves 0..Permits, whatever interleaving of wait,
\* wait_blocking, try_wait, dropped futures and signal.
THEOREM TypeCorrect == SemSpec => []SemTypeOK
  <1>1. IInv => SemTypeOK
    BY DEF IInv, CounterInv
  <1> QED
    BY <1>1, Invariant, PTL

\* No permit is lost or made by the compare-exchange loops and fetch_add.
THEOREM Conservation == SemSpec => []PermitsConserved
  <1>1. IInv => PermitsConserved
    BY DEF IInv, CounterInv
  <1> QED
    BY <1>1, Invariant, PTL

\* Two holders of one permit would make the count negative.
LEMMA HolderAlone == IInv => MutualExclusion
  <1> SUFFICES ASSUME IInv, Permits = 1, NEW p \in Holders, NEW q \in Holders, p # q
               PROVE  FALSE
    BY DEF MutualExclusion
  <1>1. Cardinality(Holders \ {p}) = Cardinality(Holders) - 1
    BY HoldersFinite, FS_RemoveElement
  <1>2. IsFiniteSet(Holders \ {p}) /\ q \in Holders \ {p}
    BY HoldersFinite, FS_RemoveElement
  <1>3. Cardinality(Holders \ {p}) \in Nat /\ Cardinality(Holders \ {p}) # 0
    BY <1>2, FS_CardinalityType, FS_EmptySet
  <1>4. Cardinality(Holders) <= 1
    BY HoldersFinite DEF IInv, CounterInv, PermitsConserved, SemTypeOK
  <1> QED
    BY <1>1, <1>3, <1>4, HoldersFinite

\* A Mutex (a semaphore of one permit) has one holder at most.
THEOREM Mutex == SemSpec => []MutualExclusion
  BY HolderAlone, Invariant, PTL

\* The SAFETY comment of SemaphoreWaker::wake: the pointer it writes through
\* is that of a thread still inside wait_blocking.
THEOREM SignalIsValid == SemSpec => []NoDanglingSignal
  <1>1. IInv => NoDanglingSignal
    BY DEF IInv, QueueInv
  <1> QED
    BY <1>1, Invariant, PTL

\* Nobody sleeps without a waker in the queue.
THEOREM SleepersKnown == SemSpec => []SleepersAreQueued
  <1>1. IInv => SleepersAreQueued
    BY DEF IInv, QueueInv
  <1> QED
    BY <1>1, Invariant, PTL
=============================================================================
