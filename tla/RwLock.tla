------------------------------- MODULE RwLock -------------------------------
(***************************************************************************)
(* kernel/src/tasks/locks.rs: RwLock, made of a Mutex around the number of *)
(* readers and a semaphore that a writer, or the readers together, hold.   *)
(* Each shard of a CHashMap (ds/maps.rs) is behind one of these.           *)
(*                                                                         *)
(* The two semaphores are instances of Semaphore, step by step; rw[p] is   *)
(* where p is in the code around them.                                     *)
(***************************************************************************)
EXTENDS Naturals, Sequences, FiniteSets

CONSTANTS Futures, Threads,
          MaxWakers  \* bound on the wakers in a queue when a future is dropped
Procs == Futures \cup Threads

ASSUME ProcsAssumption == IsFiniteSet(Futures) /\ IsFiniteSet(Threads) /\ Futures \cap Threads = {}

VARIABLES r_count, r_wakers, r_asleep, r_seen, r_pc, \* reader_count.s
          w_count, w_wakers, w_asleep, w_seen, w_pc, \* write_mutex
          reader_count,                              \* *reader_count
          rw

rVars == <<r_count, r_wakers, r_asleep, r_seen, r_pc>>
wVars == <<w_count, w_wakers, w_asleep, w_seen, w_pc>>
rwVars == <<rVars, wVars, reader_count, rw>>

R == INSTANCE Semaphore WITH Permits <- 1, count <- r_count, waker_queue <- r_wakers,
                             asleep <- r_asleep, seen <- r_seen, pc <- r_pc
W == INSTANCE Semaphore WITH Permits <- 1, count <- w_count, waker_queue <- w_wakers,
                             asleep <- w_asleep, seen <- w_seen, pc <- w_pc

RwGoto(p, label) == rw' = [rw EXCEPT ![p] = label]

RwInit == R!SemInit /\ W!SemInit /\ reader_count = 0 /\ rw = [p \in Procs |-> "out"]

\* p's last operation on either semaphore is complete.
Quiet(p) == r_pc[p] = "idle" /\ w_pc[p] = "idle"

-----------------------------------------------------------------------------
\* read and read_blocking.

Read(p) ==
  /\ rw[p] = "out" /\ Quiet(p)
  /\ R!Wait(p) /\ RwGoto(p, "read_r")
  /\ UNCHANGED <<wVars, reader_count>>

\* Mutant of ReadCount: the first reader does not wait for a writer.
ReadCountNoWait(p) ==
  /\ rw[p] = "read_r" /\ r_pc[p] = "held"
  /\ reader_count' = reader_count + 1
  /\ R!Signal(p, p) /\ RwGoto(p, "reading") /\ UNCHANGED wVars

\* The first reader waits for the writer and keeps the count locked.
ReadCount(p) ==
  /\ rw[p] = "read_r" /\ r_pc[p] = "held"
  /\ reader_count' = reader_count + 1
  /\ IF reader_count' = 1
     THEN W!Wait(p) /\ RwGoto(p, "read_w") /\ UNCHANGED rVars
     ELSE R!Signal(p, p) /\ RwGoto(p, "reading") /\ UNCHANGED wVars

ReadEnter(p) ==
  /\ rw[p] = "read_w" /\ w_pc[p] = "held"
  /\ R!Signal(p, p) /\ RwGoto(p, "reading")
  /\ UNCHANGED <<wVars, reader_count>>

\* Drop for RwLockReadGuard.
DropRead(p) ==
  /\ rw[p] = "reading" /\ r_pc[p] = "idle"
  /\ R!Wait(p) /\ RwGoto(p, "drop_r")
  /\ UNCHANGED <<wVars, reader_count>>

\* Mutant of DropCount: a guard that is not the last leaves the count alone.
DropCountKept(p) ==
  /\ rw[p] = "drop_r" /\ r_pc[p] = "held"
  /\ IF reader_count = 1
     THEN /\ reader_count' = 0 /\ \E h \in Procs : W!Signal(h, p)
          /\ RwGoto(p, "drop_w") /\ UNCHANGED rVars
     ELSE R!Signal(p, p) /\ RwGoto(p, "out") /\ UNCHANGED <<reader_count, wVars>>

\* Mutant of DropCount: off by one, the last guard but one wakes a writer.
DropCountEarly(p) ==
  /\ rw[p] = "drop_r" /\ r_pc[p] = "held"
  /\ reader_count' = reader_count - 1
  /\ IF reader_count' = 1
     THEN /\ \E h \in Procs : W!Signal(h, p)
          /\ RwGoto(p, "drop_w") /\ UNCHANGED rVars
     ELSE R!Signal(p, p) /\ RwGoto(p, "out") /\ UNCHANGED wVars

DropCount(p) ==
  /\ rw[p] = "drop_r" /\ r_pc[p] = "held"
  /\ reader_count' = reader_count - 1
  /\ IF reader_count' = 0
     THEN /\ \E h \in Procs : W!Signal(h, p)
          /\ RwGoto(p, "drop_w") /\ UNCHANGED rVars
     ELSE R!Signal(p, p) /\ RwGoto(p, "out") /\ UNCHANGED wVars

DropLeave(p) ==
  /\ rw[p] = "drop_w" /\ w_pc[p] = "idle"
  /\ R!Signal(p, p) /\ RwGoto(p, "out")
  /\ UNCHANGED <<wVars, reader_count>>

-----------------------------------------------------------------------------
\* write and write_blocking, try_write, Drop for RwLockWriteGuard.

Write(p) ==
  /\ rw[p] = "out" /\ Quiet(p)
  /\ W!Wait(p) /\ RwGoto(p, "write")
  /\ UNCHANGED <<rVars, reader_count>>

TryWrite(p) ==
  /\ rw[p] = "out" /\ Quiet(p)
  /\ W!TryWait(p) /\ RwGoto(p, "write")
  /\ UNCHANGED <<rVars, reader_count>>

TryWriteRefused(p) ==
  /\ rw[p] = "write" /\ w_pc[p] = "idle"
  /\ RwGoto(p, "out")
  /\ UNCHANGED <<rVars, wVars, reader_count>>

DropWrite(p) ==
  /\ rw[p] = "write" /\ w_pc[p] = "held"
  /\ W!Signal(p, p) /\ RwGoto(p, "out")
  /\ UNCHANGED <<rVars, reader_count>>

-----------------------------------------------------------------------------
\* The future of read or write is dropped while it waits; its waker stays.

CancelRead(p) ==
  /\ rw[p] = "read_r" /\ Len(r_wakers) < MaxWakers
  /\ R!Cancel(p) /\ RwGoto(p, "out")
  /\ UNCHANGED <<wVars, reader_count>>

CancelWrite(p) ==
  /\ rw[p] = "write" /\ Len(w_wakers) < MaxWakers
  /\ W!Cancel(p) /\ RwGoto(p, "out")
  /\ UNCHANGED <<rVars, reader_count>>

-----------------------------------------------------------------------------
\* A step inside one of the semaphores.
SemaphoreStep(p) ==
  \/ R!Step(p) /\ UNCHANGED <<wVars, reader_count, rw>>
  \/ W!Step(p) /\ UNCHANGED <<rVars, reader_count, rw>>

ReadOp(p) == Read(p) \/ ReadCount(p) \/ ReadEnter(p) \/ DropRead(p) \/ DropCount(p) \/ DropLeave(p)
WriteOp(p) == Write(p) \/ TryWrite(p) \/ TryWriteRefused(p) \/ DropWrite(p)

\* The lock as the kernel uses it: nothing in the kernel calls try_read.
RwNext ==
  \/ \E p \in Procs : ReadOp(p) \/ WriteOp(p) \/ SemaphoreStep(p)
  \/ \E p \in Futures : CancelRead(p) \/ CancelWrite(p)
RwSpec == RwInit /\ [][RwNext]_rwVars

-----------------------------------------------------------------------------
Reading(p) == rw[p] = "reading"
Writing(p) == rw[p] = "write" /\ w_pc[p] = "held"

\* Type invariant.
RwTypeOK ==
  /\ R!SemTypeOK /\ W!SemTypeOK
  /\ reader_count \in 0..Cardinality(Procs)
  /\ rw \in [Procs -> {"out", "read_r", "read_w", "reading", "drop_r", "drop_w", "write"}]

(***************************************************************************)
(* The doc comments of read and write: reading is "shared but exclusive    *)
(* with writing", writing has "exclusive access".                          *)
(***************************************************************************)
WriterAlone ==
  \A p, q \in Procs : Writing(p) /\ (Reading(q) \/ Writing(q)) => p = q

(***************************************************************************)
(* While the count is not being changed it is the number of guards that    *)
(* are out, and the readers hold write_mutex exactly when it is not zero:  *)
(* the last Drop finds a permit to give back, and gives it back.           *)
(***************************************************************************)
CountIsExact ==
  R!Holders = {} =>
    /\ reader_count = Cardinality({p \in Procs : rw[p] \in {"reading", "drop_r"}})
    /\ reader_count > 0 <=> \E h \in W!Holders : ~Writing(h)
=============================================================================
