------------------------------ MODULE Semaphore ------------------------------
(***************************************************************************)
(* kernel/src/tasks/locks.rs: the counting semaphore under every Mutex and *)
(* RwLock of the kernel.  One action per access to the shared counter or   *)
(* to the queue of wakers; processes interleave at any point.              *)
(*                                                                         *)
(* A process is a future polled by the executor (wait) or a thread that    *)
(* spins (wait_blocking).  Both look at the counter, leave a waker and     *)
(* start again once it has been used; asleep[p] says that no waker of p    *)
(* has been used since p left the last one: the AtomicBool of a thread, or *)
(* the task not being in the ready queue.                                  *)
(***************************************************************************)
EXTENDS Naturals, Sequences, FiniteSets

CONSTANTS Futures,  \* the WaitFutures: polled, and dropped while pending
          Threads,  \* the contexts that call wait_blocking
          Permits   \* Semaphore::new(count)

Procs == Futures \cup Threads

ASSUME ProcsAssumption == IsFiniteSet(Futures) /\ IsFiniteSet(Threads) /\ Futures \cap Threads = {}
ASSUME PermitsAssumption == Permits \in Nat \ {0}

VARIABLES count,        \* SemaphoreInner::count
          waker_queue,  \* SemaphoreInner::waker_queue
          asleep,       \* no waker of the process has been used
          seen,         \* each process: its copy of count
          pc            \* each process: where it is

semVars == <<count, waker_queue, asleep, seen, pc>>

SemGoto(p, label) == pc' = [pc EXCEPT ![p] = label]

SemInit ==
  /\ count = Permits
  /\ waker_queue = <<>>
  /\ asleep = [p \in Procs |-> FALSE]
  /\ seen = [p \in Procs |-> 0]
  /\ pc = [p \in Procs |-> "idle"]

-----------------------------------------------------------------------------
\* wait and wait_blocking.

Wait(p) ==
  /\ pc[p] = "idle"
  /\ SemGoto(p, "load")
  /\ UNCHANGED <<count, waker_queue, asleep, seen>>

\* Mutant of Load: the test for zero is dropped.
LoadUnchecked(p) ==
  /\ pc[p] = "load"
  /\ seen' = [seen EXCEPT ![p] = count]
  /\ SemGoto(p, "cas")
  /\ UNCHANGED <<count, waker_queue, asleep>>

\* The first look at the counter, and the one after being woken.
Load(p) ==
  /\ pc[p] = "load"
  /\ seen' = [seen EXCEPT ![p] = count]
  /\ SemGoto(p, IF count = 0 THEN "park" ELSE "cas")
  /\ UNCHANGED <<count, waker_queue, asleep>>

Park(p) ==
  /\ pc[p] = "park"
  /\ waker_queue' = Append(waker_queue, p)
  /\ asleep' = [asleep EXCEPT ![p] = TRUE]
  /\ SemGoto(p, "sleep")
  /\ UNCHANGED <<count, seen>>

\* Mutant of WakeUp: the process goes on without having been woken.
WakeUpEarly(p) ==
  /\ pc[p] = "sleep"
  /\ SemGoto(p, "load")
  /\ UNCHANGED <<count, waker_queue, asleep, seen>>

\* The executor polls the future again, or the thread sees its signal.
WakeUp(p) ==
  /\ pc[p] = "sleep" /\ ~asleep[p]
  /\ SemGoto(p, "load")
  /\ UNCHANGED <<count, waker_queue, asleep, seen>>

\* Mutant of Cas: a store in place of the compare-exchange.
CasBlind(p) ==
  /\ pc[p] = "cas"
  /\ count' = seen[p] - 1
  /\ SemGoto(p, "held")
  /\ UNCHANGED <<waker_queue, asleep, seen>>

Cas(p) ==
  /\ pc[p] = "cas"
  /\ IF count = seen[p]
     THEN count' = seen[p] - 1 /\ SemGoto(p, "held") /\ UNCHANGED seen
     ELSE /\ seen' = [seen EXCEPT ![p] = count]
          /\ SemGoto(p, IF count = 0 THEN "park" ELSE "cas")
          /\ UNCHANGED count
  /\ UNCHANGED <<waker_queue, asleep>>

\* A pending future is dropped; its waker stays in the queue.
Cancel(p) ==
  /\ pc[p] = "sleep"
  /\ SemGoto(p, "idle")
  /\ asleep' = [asleep EXCEPT ![p] = FALSE]
  /\ UNCHANGED <<count, waker_queue, seen>>

-----------------------------------------------------------------------------
\* try_wait.

TryWait(p) ==
  /\ pc[p] = "idle"
  /\ SemGoto(p, "try_load")
  /\ UNCHANGED <<count, waker_queue, asleep, seen>>

TryLoad(p) ==
  /\ pc[p] = "try_load"
  /\ seen' = [seen EXCEPT ![p] = count]
  /\ SemGoto(p, IF count = 0 THEN "idle" ELSE "try_cas")
  /\ UNCHANGED <<count, waker_queue, asleep>>

TryCas(p) ==
  /\ pc[p] = "try_cas"
  /\ IF count = seen[p]
     THEN count' = seen[p] - 1 /\ SemGoto(p, "held")
     ELSE SemGoto(p, "idle") /\ UNCHANGED count
  /\ UNCHANGED <<waker_queue, asleep, seen>>

-----------------------------------------------------------------------------
\* signal, called by p for the permit that h took (p and h differ when the
\* last reader of an RwLock releases what the first one took).

Signal(h, p) ==
  /\ pc[h] = "held" /\ (h = p \/ pc[p] = "idle")
  /\ count' = count + 1
  /\ pc' = [pc EXCEPT ![h] = "idle", ![p] = "waking"]
  /\ UNCHANGED <<waker_queue, asleep, seen>>

\* Mutant of WakeOne: the queue is drained and one process woken.
WakeOneDrains(p) ==
  /\ pc[p] = "waking"
  /\ SemGoto(p, "idle")
  /\ IF waker_queue = <<>>
     THEN UNCHANGED <<waker_queue, asleep>>
     ELSE /\ asleep' = [asleep EXCEPT ![Head(waker_queue)] = FALSE]
          /\ waker_queue' = <<>>
  /\ UNCHANGED <<count, seen>>

WakeOne(p) ==
  /\ pc[p] = "waking"
  /\ SemGoto(p, "idle")
  /\ IF waker_queue = <<>>
     THEN UNCHANGED <<waker_queue, asleep>>
     ELSE /\ asleep' = [asleep EXCEPT ![Head(waker_queue)] = FALSE]
          /\ waker_queue' = Tail(waker_queue)
  /\ UNCHANGED <<count, seen>>

-----------------------------------------------------------------------------
\* A step of an operation that has begun.
Step(p) ==
  \/ Load(p) \/ Park(p) \/ WakeUp(p) \/ Cas(p)
  \/ TryLoad(p) \/ TryCas(p)
  \/ WakeOne(p)

SemNext ==
  \/ \E p \in Procs : Wait(p) \/ TryWait(p) \/ Step(p)
  \/ \E p \in Futures : Cancel(p)
  \/ \E h, p \in Procs : Signal(h, p)

SemSpec == SemInit /\ [][SemNext]_semVars

-----------------------------------------------------------------------------
Labels == {"idle", "load", "park", "sleep", "cas", "try_load", "try_cas", "held", "waking"}

\* Type invariant: the counter stays between zero and what it was made with.
SemTypeOK ==
  /\ count \in 0..Permits
  /\ waker_queue \in Seq(Procs)
  /\ asleep \in [Procs -> BOOLEAN]
  /\ seen \in [Procs -> 0..Permits]
  /\ pc \in [Procs -> Labels]

Holders == {p \in Procs : pc[p] = "held"}

(***************************************************************************)
(* No permit is lost or made: what the counter is short of is held.        *)
(***************************************************************************)
PermitsConserved == count + Cardinality(Holders) = Permits

(***************************************************************************)
(* With one permit, as in Mutex and RwLock::write_mutex, two processes are *)
(* never both past wait.                                                   *)
(***************************************************************************)
MutualExclusion == Permits = 1 => \A p, q \in Holders : p = q

(***************************************************************************)
(* SemaphoreWaker::wake writes through a pointer into the stack frame of   *)
(* wait_blocking; "this pointer is guarenteed to be valid as long as       *)
(* `wait_blocking` only returns after getting signaled" (locks.rs).  A     *)
(* thread with a waker in the queue is still in wait_blocking.             *)
(***************************************************************************)
NoDanglingSignal ==
  \A i \in 1..Len(waker_queue) :
    waker_queue[i] \in Threads => pc[waker_queue[i]] = "sleep" /\ asleep[waker_queue[i]]

(***************************************************************************)
(* A process that sleeps is known to the semaphore: a later signal, or one *)
(* under way, will find its waker.                                         *)
(***************************************************************************)
SleepersAreQueued ==
  \A p \in Procs :
    pc[p] = "sleep" /\ asleep[p] => \E i \in 1..Len(waker_queue) : waker_queue[i] = p
=============================================================================
