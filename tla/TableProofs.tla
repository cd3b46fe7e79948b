----------------------------- MODULE TableProofs ----------------------------
(***************************************************************************)
(* Proofs about what the kernel's shared tables are made of: the RwLock    *)
(* around each shard of the maps of interrupt and system call handlers     *)
(* (RwLock), and the lists of processes, threads and queues                *)
(* (ConcurrentList).                                                       *)
(*                                                                         *)
(* RwLock, for any number of futures and threads.  The proofs rest on      *)
(* those about Semaphore: every step of the lock is a step, or none, of    *)
(* each of its two semaphores, so the invariant of SemaphoreProofs holds   *)
(* of both.                                                                *)
(*                                                                         *)
(* ConcurrentList, for any keys, any finite memory and any number of       *)
(* pushes, where one context removes from a list: the executor or          *)
(* handlers, not both.  With both, TraversalsAreLive is false (the run     *)
(* list_removers).  The invariant gives the list as a sequence of nodes,   *)
(* so that no step needs an induction over the links; Chain is related to  *)
(* it once.                                                                *)
(***************************************************************************)
EXTENDS RwLock, ConcurrentList, FiniteSetTheorems, SequenceTheorems, WellFoundedInduction, TLAPS

-----------------------------------------------------------------------------
(* The lock: an instance of SemaphoreProofs for each of its semaphores. *)

RP == INSTANCE SemaphoreProofs WITH Permits <- 1, count <- r_count, waker_queue <- r_wakers,
                                    asleep <- r_asleep, seen <- r_seen, pc <- r_pc
WP == INSTANCE SemaphoreProofs WITH Permits <- 1, count <- w_count, waker_queue <- w_wakers,
                                    asleep <- w_asleep, seen <- w_seen, pc <- w_pc

SemInv == RP!IInv /\ WP!IInv

Waiting == {"load", "park", "sleep", "cas", "held"}

\* Where a process can be in each semaphore, from where it is in the lock.
\* One that is out may still have write_mutex: it was the first reader, and
\* others read on.
PlaceInv ==
  /\ rw \in [Procs -> {"out", "read_r", "read_w", "reading", "drop_r", "drop_w", "write"}]
  /\ \A p \in Procs :
       /\ rw[p] \in {"out", "reading"} => r_pc[p] \in {"idle", "waking"}
       /\ rw[p] \in {"read_r", "drop_r"} => r_pc[p] \in Waiting
       /\ rw[p] \in {"read_w", "drop_w"} => r_pc[p] = "held"
       /\ rw[p] = "write" => r_pc[p] = "idle"
       /\ rw[p] = "out" => w_pc[p] \in {"idle", "waking", "held"}
       /\ rw[p] = "read_r" => w_pc[p] = "idle"
       /\ rw[p] = "read_w" => w_pc[p] \in Waiting
       /\ rw[p] \in {"reading", "drop_r"} => w_pc[p] \in {"idle", "held"}
       /\ rw[p] = "drop_w" => w_pc[p] \in {"idle", "waking"}
       /\ rw[p] = "write" => w_pc[p] # "waking"

\* The processes that the count of readers stands for.
Counted == {p \in Procs : rw[p] \in {"read_w", "reading", "drop_r"}}

ForReaders(h) == w_pc[h] = "held" /\ rw[h] # "write"

\* The first reader is alone until it has write_mutex; from then on one
\* process has it for all of them.
ReaderInv ==
  /\ reader_count = Cardinality(Counted)
  /\ \A p \in Procs : rw[p] = "read_w" => reader_count = 1
  /\ \A p \in Procs : rw[p] \in {"reading", "drop_r"} => \E h \in Procs : ForReaders(h)
  /\ \A h \in Procs : ForReaders(h) => reader_count > 0

IInv == SemInv /\ PlaceInv /\ ReaderInv

-----------------------------------------------------------------------------
\* The two semaphores.

\* The assumptions of the two semaphores.
LEMMA SemAssumptions ==
  /\ RP!ProcsAssumption /\ RP!PermitsAssumption
  /\ WP!ProcsAssumption /\ WP!PermitsAssumption
  BY ProcsAssumption DEF RP!IsFiniteSet, WP!IsFiniteSet, IsFiniteSet

\* The names of a semaphore's definitions in RwLock and in the proofs.
LEMMA SameR == (R!SemNext => RP!SemNext) /\ (RP!IInv => R!SemTypeOK) /\ (R!SemInit => RP!SemInit)
  <1>1. R!SemNext => RP!SemNext
    BY DEF R!SemNext, RP!SemNext, R!Wait, RP!Wait, R!TryWait, RP!TryWait, R!Step, RP!Step,
           R!Load, RP!Load, R!Park, RP!Park, R!WakeUp, RP!WakeUp, R!Cas, RP!Cas,
           R!TryLoad, RP!TryLoad, R!TryCas, RP!TryCas, R!WakeOne, RP!WakeOne,
           R!Cancel, RP!Cancel, R!Signal, RP!Signal, R!SemGoto, RP!SemGoto, R!Procs, RP!Procs
  <1>2. RP!IInv => R!SemTypeOK
    BY DEF RP!IInv, RP!CounterInv, RP!SemTypeOK, R!SemTypeOK, RP!Labels, R!Labels, RP!Procs, R!Procs
  <1>3. R!SemInit => RP!SemInit
    BY DEF R!SemInit, RP!SemInit, R!Procs, RP!Procs
  <1> QED
    BY <1>1, <1>2, <1>3

\* The same for the other semaphore.
LEMMA SameW == (W!SemNext => WP!SemNext) /\ (WP!IInv => W!SemTypeOK) /\ (W!SemInit => WP!SemInit)
  <1>1. W!SemNext => WP!SemNext
    BY DEF W!SemNext, WP!SemNext, W!Wait, WP!Wait, W!TryWait, WP!TryWait, W!Step, WP!Step,
           W!Load, WP!Load, W!Park, WP!Park, W!WakeUp, WP!WakeUp, W!Cas, WP!Cas,
           W!TryLoad, WP!TryLoad, W!TryCas, WP!TryCas, W!WakeOne, WP!WakeOne,
           W!Cancel, WP!Cancel, W!Signal, WP!Signal, W!SemGoto, WP!SemGoto, W!Procs, WP!Procs
  <1>2. WP!IInv => W!SemTypeOK
    BY DEF WP!IInv, WP!CounterInv, WP!SemTypeOK, W!SemTypeOK, WP!Labels, W!Labels, WP!Procs, W!Procs
  <1>3. W!SemInit => WP!SemInit
    BY DEF W!SemInit, WP!SemInit, W!Procs, WP!Procs
  <1> QED
    BY <1>1, <1>2, <1>3

\* The invariant of a semaphore survives a step of it, or none.
LEMMA SemKept ==
  ASSUME SemInv, R!SemNext \/ UNCHANGED rVars, W!SemNext \/ UNCHANGED wVars
  PROVE  SemInv'
  <1>1. RP!IInv'
    BY RP!NextInv, SemAssumptions, SameR DEF SemInv, rVars, RP!semVars
  <1>2. WP!IInv'
    BY WP!NextInv, SemAssumptions, SameW DEF SemInv, wVars, WP!semVars
  <1> QED
    BY <1>1, <1>2 DEF SemInv

\* What the lock uses of the semaphores: each has one holder at most.
LEMMA OneHolder ==
  ASSUME SemInv
  PROVE  /\ r_pc \in [Procs -> RP!Labels] /\ w_pc \in [Procs -> WP!Labels]
         /\ \A p, q \in Procs : r_pc[p] = "held" /\ r_pc[q] = "held" => p = q
         /\ \A p, q \in Procs : w_pc[p] = "held" /\ w_pc[q] = "held" => p = q
  <1>1. RP!MutualExclusion /\ WP!MutualExclusion
    BY RP!HolderAlone, WP!HolderAlone, SemAssumptions DEF SemInv
  <1>2. r_pc \in [Procs -> RP!Labels] /\ w_pc \in [Procs -> WP!Labels]
    BY DEF SemInv, RP!IInv, RP!CounterInv, RP!SemTypeOK, WP!IInv, WP!CounterInv, WP!SemTypeOK,
           RP!Procs, WP!Procs, Procs
  <1> QED
    BY <1>1, <1>2 DEF RP!MutualExclusion, WP!MutualExclusion, RP!Holders, WP!Holders,
                      RP!Procs, WP!Procs, Procs

\* Counting the readers.
LEMMA CountedFinite ==
  /\ IsFiniteSet(Procs) /\ IsFiniteSet(Counted)
  /\ Cardinality(Counted) \in 0..Cardinality(Procs) /\ Cardinality(Procs) \in Nat
  <1>1. IsFiniteSet(Procs)
    BY ProcsAssumption, FS_Union DEF Procs
  <1>2. Counted \in SUBSET Procs
    BY DEF Counted
  <1>3. IsFiniteSet(Counted) /\ Cardinality(Counted) <= Cardinality(Procs)
    BY <1>1, <1>2, FS_Subset
  <1> QED
    BY <1>1, <1>3, FS_CardinalityType

\* One more reader, and one less.
LEMMA CountedAdd ==
  ASSUME reader_count = Cardinality(Counted), NEW p \in Procs, p \notin Counted,
         Counted' = Counted \cup {p}, reader_count' = reader_count + 1
  PROVE  reader_count' = Cardinality(Counted')
  BY CountedFinite, FS_AddElement

\* The count after a reader has left.
LEMMA CountedDrop ==
  ASSUME reader_count = Cardinality(Counted), NEW p \in Procs, p \in Counted,
         Counted' = Counted \ {p}, reader_count' = reader_count - 1
  PROVE  reader_count' = Cardinality(Counted') /\ reader_count > 0 /\ reader_count' \in Nat
  <1>1. Cardinality(Counted') = Cardinality(Counted) - 1
    BY CountedFinite, FS_RemoveElement
  <1>2. IsFiniteSet(Counted') /\ Cardinality(Counted') \in Nat
    BY CountedFinite, FS_RemoveElement, FS_CardinalityType
  <1> QED
    BY <1>1, <1>2, CountedFinite

\* Nobody is counted when the count is zero, and one process when it is one.
LEMMA CountedFew ==
  ASSUME reader_count = Cardinality(Counted)
  PROVE  /\ reader_count \in Nat
         /\ reader_count = 0 => Counted = {}
         /\ \A p, q \in Counted : reader_count = 1 => p = q
  <1>1. reader_count \in Nat /\ (reader_count = 0 => Counted = {})
    BY CountedFinite, FS_EmptySet
  <1>2. ASSUME NEW p \in Counted, NEW q \in Counted, reader_count = 1 PROVE p = q
    <2>1. IsFiniteSet(Counted \ {p}) /\ Cardinality(Counted \ {p}) = Cardinality(Counted) - 1
      BY CountedFinite, FS_RemoveElement
    <2>2. Counted \ {p} = {}
      BY <1>2, <2>1, FS_EmptySet
    <2> QED
      BY <2>2
  <1> QED
    BY <1>1, <1>2

-----------------------------------------------------------------------------
\* RwLock::new establishes the invariant.
LEMMA InitInv == RwInit => IInv
  <1> SUFFICES ASSUME RwInit PROVE IInv
    OBVIOUS
  <1>1. SemInv
    BY RP!InitInv, WP!InitInv, SemAssumptions, SameR, SameW DEF RwInit, SemInv
  <1>2. /\ r_pc = [p \in Procs |-> "idle"] /\ w_pc = [p \in Procs |-> "idle"]
        /\ rw = [p \in Procs |-> "out"] /\ reader_count = 0
    BY DEF RwInit, R!SemInit, W!SemInit, R!Procs, W!Procs, Procs
  <1>3. PlaceInv
    BY <1>2 DEF PlaceInv
  <1>4. Counted = {}
    BY <1>2 DEF Counted
  <1>5. ReaderInv
    BY <1>2, <1>4, FS_EmptySet DEF ReaderInv, ForReaders
  <1> QED
    BY <1>1, <1>3, <1>5 DEF IInv

\* read begins, and a guard is dropped: both first lock the count.
LEMMA ReadInv == ASSUME IInv, NEW p \in Procs, Read(p) \/ DropRead(p) PROVE IInv'
  <1> USE DEF IInv
  <1>1. R!Wait(p) /\ UNCHANGED <<wVars, reader_count>>
    BY DEF Read, DropRead
  <1>2. SemInv'
    BY <1>1, SemKept DEF R!SemNext, R!Procs, Procs
  <1>3. r_pc' = [r_pc EXCEPT ![p] = "load"] /\ w_pc' = w_pc /\ reader_count' = reader_count
    BY <1>1 DEF R!Wait, R!SemGoto, wVars
  <1>4. PlaceInv'
    BY <1>3, OneHolder DEF Read, DropRead, RwGoto, PlaceInv, Waiting, Quiet
  <1>5. Counted' = Counted
    BY DEF Counted, Read, DropRead, RwGoto, PlaceInv
  <1>6. ReaderInv'
    BY <1>3, <1>5 DEF ReaderInv, ForReaders, Read, DropRead, RwGoto, PlaceInv
  <1> QED
    BY <1>2, <1>4, <1>6

\* read has the count locked: the first reader goes on to write_mutex.
LEMMA ReadCountInv == ASSUME IInv, NEW p \in Procs, ReadCount(p) PROVE IInv'
  <1> USE DEF IInv
  <1>0. reader_count = Cardinality(Counted) /\ p \notin Counted /\ reader_count \in Nat
    BY CountedFew DEF ReadCount, Counted, ReaderInv
  <1>1. \A q \in Procs : r_pc[q] = "held" => q = p
    BY OneHolder DEF ReadCount
  <1>2. \A q \in Procs : rw[q] # "read_w"
    BY <1>1 DEF PlaceInv, ReadCount
  <1>3. CASE reader_count = 0
    <2>1. /\ w_pc' = [w_pc EXCEPT ![p] = "load"] /\ r_pc' = r_pc
          /\ rw' = [rw EXCEPT ![p] = "read_w"] /\ reader_count' = 1 /\ rw[p] = "read_r"
          /\ W!Wait(p) /\ UNCHANGED rVars /\ r_pc[p] = "held" /\ w_pc[p] = "idle"
      BY <1>3 DEF ReadCount, RwGoto, W!Wait, W!SemGoto, rVars
    <2>2. SemInv'
      BY <2>1, SemKept DEF W!SemNext, W!Procs, Procs
    <2>3. PlaceInv'
      BY <2>1, OneHolder DEF PlaceInv, Waiting
    <2>4. Counted' = Counted \cup {p} /\ Counted = {}
      BY <2>1, <1>0, <1>3, CountedFew DEF Counted, PlaceInv
    <2>5. reader_count' = Cardinality(Counted')
      BY <2>1, <2>4, <1>0, <1>3, CountedAdd
    <2>6. \A q \in Procs : rw'[q] \notin {"reading", "drop_r"}
      BY <2>1, <2>4 DEF Counted, PlaceInv
    <2>7. ReaderInv'
      BY <2>1, <2>5, <2>6 DEF ReaderInv
    <2> QED
      BY <2>2, <2>3, <2>7
  <1>4. CASE reader_count # 0
    <2>1. /\ r_pc' = [r_pc EXCEPT ![p] = "waking"] /\ w_pc' = w_pc
          /\ rw' = [rw EXCEPT ![p] = "reading"] /\ reader_count' = reader_count + 1 /\ rw[p] = "read_r"
          /\ R!Signal(p, p) /\ UNCHANGED wVars
      BY <1>4, <1>0, OneHolder DEF ReadCount, RwGoto, R!Signal, wVars
    <2>2. SemInv'
      BY <2>1, SemKept DEF R!SemNext, R!Procs, Procs
    <2>3. PlaceInv'
      BY <2>1, OneHolder DEF PlaceInv, Waiting
    <2>4. Counted' = Counted \cup {p}
      BY <2>1 DEF Counted, PlaceInv
    <2>5. reader_count' = Cardinality(Counted')
      BY <2>1, <2>4, <1>0, CountedAdd
    <2>6. PICK q0 \in Procs : q0 \in Counted
      BY <1>0, <1>4, FS_EmptySet DEF Counted
    <2>7. PICK h \in Procs : ForReaders(h)
      BY <2>6, <1>2 DEF ReaderInv, Counted
    <2>8. \A q \in Procs : rw'[q] # "read_w"
      BY <1>2, <2>1 DEF PlaceInv
    <2>9. \A h1 \in Procs : ForReaders(h1)' <=> ForReaders(h1)
      BY <2>1 DEF ForReaders, PlaceInv
    <2>10. ReaderInv'
      BY <2>1, <2>5, <2>7, <2>8, <2>9, <1>0 DEF ReaderInv
    <2> QED
      BY <2>2, <2>3, <2>10
  <1> QED
    BY <1>3, <1>4

\* The first reader has write_mutex and lets the next reader in.
LEMMA ReadEnterInv == ASSUME IInv, NEW p \in Procs, ReadEnter(p) PROVE IInv'
  <1> USE DEF IInv
  <1>1. /\ R!Signal(p, p) /\ UNCHANGED wVars /\ reader_count' = reader_count /\ rw[p] = "read_w"
        /\ r_pc' = [r_pc EXCEPT ![p] = "waking"] /\ w_pc' = w_pc /\ w_pc[p] = "held"
        /\ rw' = [rw EXCEPT ![p] = "reading"]
    BY OneHolder DEF ReadEnter, RwGoto, R!Signal, wVars
  <1>2. SemInv'
    BY <1>1, SemKept DEF R!SemNext, R!Procs, Procs
  <1>3. PlaceInv'
    BY <1>1, OneHolder DEF PlaceInv, Waiting
  <1>4. Counted' = Counted
    BY <1>1 DEF Counted, PlaceInv
  <1>5. \A h \in Procs : ForReaders(h)' <=> ForReaders(h)
    BY <1>1 DEF ForReaders, PlaceInv
  <1>6. ForReaders(p)
    BY <1>1 DEF ForReaders
  <1>7. ReaderInv'
    BY <1>1, <1>4, <1>5, <1>6 DEF ReaderInv, PlaceInv
  <1> QED
    BY <1>2, <1>3, <1>7

\* A guard has the count locked: the last one gives write_mutex back, for
\* the process that took it.
LEMMA DropCountInv == ASSUME IInv, NEW p \in Procs, DropCount(p) PROVE IInv'
  <1> USE DEF IInv
  <1>0. reader_count = Cardinality(Counted) /\ p \in Counted /\ reader_count \in Nat /\ rw[p] = "drop_r"
    BY CountedFew DEF DropCount, Counted, ReaderInv
  <1>1. \A q \in Procs : rw[q] # "read_w"
    BY OneHolder DEF PlaceInv, DropCount
  <1>2. CASE reader_count' = 0
    <2>1. PICK h \in Procs : W!Signal(h, p)
      BY <1>2 DEF DropCount
    <2>2. /\ rw' = [rw EXCEPT ![p] = "drop_w"] /\ UNCHANGED rVars /\ reader_count' = reader_count - 1
          /\ r_pc' = r_pc /\ w_pc[h] = "held" /\ w_pc' = [w_pc EXCEPT ![h] = "idle", ![p] = "waking"]
          /\ r_pc[p] = "held"
      BY <1>2, <2>1 DEF DropCount, RwGoto, W!Signal, rVars
    <2>3. SemInv'
      BY <2>1, <2>2, SemKept DEF W!SemNext, W!Procs, Procs
    <2>4. ForReaders(h)
      BY <2>2, <1>0, OneHolder DEF ReaderInv, ForReaders
    <2>5. rw[h] \in {"out", "reading", "drop_r"}
      BY <2>4, <1>1 DEF ForReaders, PlaceInv
    <2>6. PlaceInv'
      BY <2>2, <2>5, <1>0, OneHolder DEF PlaceInv, Waiting
    <2>7. Counted' = Counted \ {p}
      BY <2>2 DEF Counted, PlaceInv
    <2>8. reader_count' = Cardinality(Counted')
      BY <1>0, <2>2, <2>7, CountedDrop
    <2>9. Counted' = {}
      BY <2>8, <1>2, CountedFinite, <2>7, FS_RemoveElement, FS_EmptySet
    <2>10. \A q \in Procs : w_pc'[q] # "held"
      BY <2>2, OneHolder
    <2>11. ReaderInv'
      BY <2>8, <2>9, <2>10 DEF ReaderInv, ForReaders, Counted
    <2> QED
      BY <2>3, <2>6, <2>11
  <1>3. CASE reader_count' # 0
    <2>1. /\ R!Signal(p, p) /\ UNCHANGED wVars /\ reader_count' = reader_count - 1
          /\ r_pc' = [r_pc EXCEPT ![p] = "waking"] /\ w_pc' = w_pc
          /\ rw' = [rw EXCEPT ![p] = "out"]
      BY <1>3, OneHolder DEF DropCount, RwGoto, R!Signal, wVars
    <2>2. SemInv'
      BY <2>1, SemKept DEF R!SemNext, R!Procs, Procs
    <2>3. PlaceInv'
      BY <2>1, <1>0, OneHolder DEF PlaceInv, Waiting
    <2>4. Counted' = Counted \ {p}
      BY <2>1 DEF Counted, PlaceInv
    <2>5. reader_count' = Cardinality(Counted') /\ reader_count' > 0
      <3>1. reader_count' = Cardinality(Counted') /\ reader_count' \in Nat
        BY <1>0, <2>1, <2>4, CountedDrop
      <3> QED
        BY <1>3, <3>1
    <2>6. \A h \in Procs : ForReaders(h)' <=> ForReaders(h)
      BY <2>1, <1>0 DEF ForReaders, PlaceInv
    <2>7. ReaderInv'
      BY <2>1, <2>5, <2>6, <1>1 DEF ReaderInv, PlaceInv
    <2> QED
      BY <2>2, <2>3, <2>7
  <1> QED
    BY <1>2, <1>3

\* The last guard has given write_mutex back and unlocks the count.
LEMMA DropLeaveInv == ASSUME IInv, NEW p \in Procs, DropLeave(p) PROVE IInv'
  <1> USE DEF IInv
  <1>1. /\ R!Signal(p, p) /\ UNCHANGED wVars /\ reader_count' = reader_count /\ rw[p] = "drop_w"
        /\ r_pc' = [r_pc EXCEPT ![p] = "waking"] /\ w_pc' = w_pc /\ w_pc[p] = "idle"
        /\ rw' = [rw EXCEPT ![p] = "out"]
    BY OneHolder DEF DropLeave, RwGoto, R!Signal, wVars
  <1>2. SemInv'
    BY <1>1, SemKept DEF R!SemNext, R!Procs, Procs
  <1>3. PlaceInv'
    BY <1>1, OneHolder DEF PlaceInv, Waiting
  <1>4. Counted' = Counted
    BY <1>1 DEF Counted, PlaceInv
  <1>5. \A h \in Procs : ForReaders(h)' <=> ForReaders(h)
    BY <1>1 DEF ForReaders, PlaceInv
  <1>6. ReaderInv'
    BY <1>1, <1>4, <1>5 DEF ReaderInv, PlaceInv
  <1> QED
    BY <1>2, <1>3, <1>6

\* write and try_write up to their last step, and the ways out of a wait.
LEMMA WriteInv ==
  ASSUME IInv, NEW p \in Procs, Write(p) \/ TryWrite(p) \/ TryWriteRefused(p)
  PROVE  IInv'
  <1> USE DEF IInv
  <1>1. /\ W!Wait(p) \/ W!TryWait(p) \/ UNCHANGED wVars
        /\ UNCHANGED rVars /\ reader_count' = reader_count
    BY DEF Write, TryWrite, TryWriteRefused
  <1>2. SemInv'
    BY <1>1, SemKept DEF W!SemNext, W!Procs, Procs
  <1>3. /\ r_pc' = r_pc /\ w_pc[p] = "idle" /\ r_pc[p] = "idle"
        /\ \/ rw[p] = "out" /\ rw' = [rw EXCEPT ![p] = "write"]
              /\ \E l \in {"load", "try_load"} : w_pc' = [w_pc EXCEPT ![p] = l]
           \/ rw[p] = "write" /\ rw' = [rw EXCEPT ![p] = "out"] /\ w_pc' = w_pc
    BY DEF Write, TryWrite, TryWriteRefused, RwGoto, Quiet, W!Wait, W!TryWait, W!SemGoto, rVars, wVars, PlaceInv
  <1>4. PlaceInv'
    BY <1>3, OneHolder DEF PlaceInv, Waiting
  <1>5. Counted' = Counted
    BY <1>3 DEF Counted, PlaceInv
  <1>6. \A h \in Procs : ForReaders(h)' <=> ForReaders(h)
    BY <1>3, OneHolder DEF ForReaders, PlaceInv
  <1>7. ReaderInv'
    BY <1>1, <1>3, <1>5, <1>6 DEF ReaderInv, PlaceInv
  <1> QED
    BY <1>2, <1>4, <1>7

\* The writer's guard is dropped: no reader was counting on write_mutex.
LEMMA DropWriteInv == ASSUME IInv, NEW p \in Procs, DropWrite(p) PROVE IInv'
  <1> USE DEF IInv
  <1>1. /\ W!Signal(p, p) /\ UNCHANGED rVars /\ reader_count' = reader_count /\ rw[p] = "write"
        /\ w_pc' = [w_pc EXCEPT ![p] = "waking"] /\ r_pc' = r_pc /\ w_pc[p] = "held"
        /\ rw' = [rw EXCEPT ![p] = "out"]
    BY OneHolder DEF DropWrite, RwGoto, W!Signal, rVars
  <1>2. SemInv'
    BY <1>1, SemKept DEF W!SemNext, W!Procs, Procs
  <1>3. PlaceInv'
    BY <1>1, OneHolder DEF PlaceInv, Waiting
  <1>4. Counted' = Counted
    BY <1>1 DEF Counted, PlaceInv
  <1>5. \A h \in Procs : ForReaders(h)' <=> ForReaders(h)
    BY <1>1, OneHolder DEF ForReaders, PlaceInv
  <1>6. ReaderInv'
    BY <1>1, <1>4, <1>5 DEF ReaderInv, PlaceInv
  <1> QED
    BY <1>2, <1>3, <1>6

\* A future of read or write is dropped while it waits.
LEMMA CancelInv == ASSUME IInv, NEW p \in Futures, CancelRead(p) \/ CancelWrite(p) PROVE IInv'
  <1> USE DEF IInv
  <1>0. p \in Procs
    BY DEF Procs
  <1>1. SemInv'
    BY SemKept DEF CancelRead, CancelWrite, R!SemNext, W!SemNext
  <1>2. /\ reader_count' = reader_count /\ rw' = [rw EXCEPT ![p] = "out"]
        /\ \/ rw[p] = "read_r" /\ r_pc' = [r_pc EXCEPT ![p] = "idle"] /\ w_pc' = w_pc
           \/ rw[p] = "write" /\ w_pc' = [w_pc EXCEPT ![p] = "idle"] /\ r_pc' = r_pc /\ w_pc[p] = "sleep"
    BY DEF CancelRead, CancelWrite, RwGoto, R!Cancel, W!Cancel, R!SemGoto, W!SemGoto, rVars, wVars
  <1>3. PlaceInv'
    BY <1>0, <1>2, OneHolder DEF PlaceInv, Waiting
  <1>4. Counted' = Counted
    BY <1>0, <1>2 DEF Counted, PlaceInv
  <1>5. \A h \in Procs : ForReaders(h)' <=> ForReaders(h)
    BY <1>0, <1>2, OneHolder DEF ForReaders, PlaceInv
  <1>6. ReaderInv'
    BY <1>0, <1>2, <1>4, <1>5 DEF ReaderInv, PlaceInv
  <1> QED
    BY <1>1, <1>3, <1>6

\* A step inside a semaphore: the process stays where it is in the lock, and
\* takes write_mutex for the readers only as their first.
LEMMA StepInv == ASSUME IInv, NEW p \in Procs, SemaphoreStep(p) PROVE IInv'
  <1> USE DEF IInv
  <1>1. SemInv'
    BY SemKept DEF SemaphoreStep, R!SemNext, W!SemNext, R!Procs, W!Procs, Procs
  <1>2. reader_count' = reader_count /\ rw' = rw /\ Counted' = Counted
    BY DEF SemaphoreStep, Counted
  <1>3. CASE R!Step(p) /\ UNCHANGED wVars
    <2>1. /\ w_pc' = w_pc /\ \E l : r_pc' = [r_pc EXCEPT ![p] = l]
          /\ \/ r_pc[p] \in {"load", "park", "sleep", "cas"} /\ r_pc'[p] \in Waiting
             \/ r_pc[p] = "waking" /\ r_pc'[p] = "idle"
             \/ r_pc[p] \in {"try_load", "try_cas"}
      BY <1>3, OneHolder DEF wVars, R!Step, R!Load, R!Park, R!WakeUp, R!Cas, R!TryLoad, R!TryCas,
                             R!WakeOne, R!SemGoto, Waiting
    <2>2. PlaceInv'
      BY <1>2, <2>1, OneHolder DEF PlaceInv, Waiting
    <2>3. ReaderInv'
      BY <1>2, <2>1 DEF ReaderInv, ForReaders
    <2> QED
      BY <1>1, <2>2, <2>3
  <1>4. CASE W!Step(p) /\ UNCHANGED rVars
    <2>1. /\ r_pc' = r_pc /\ \E l : w_pc' = [w_pc EXCEPT ![p] = l]
          /\ \/ w_pc[p] \in {"load", "park", "sleep", "cas"} /\ w_pc'[p] \in Waiting
             \/ w_pc[p] = "waking" /\ w_pc'[p] = "idle"
             \/ w_pc[p] \in {"try_load", "try_cas"} /\ w_pc'[p] \in {"idle", "try_cas", "held"}
      BY <1>4, OneHolder DEF rVars, W!Step, W!Load, W!Park, W!WakeUp, W!Cas, W!TryLoad, W!TryCas,
                             W!WakeOne, W!SemGoto, Waiting
    <2>2. PlaceInv'
      BY <1>2, <2>1, OneHolder DEF PlaceInv, Waiting
    <2>3. rw[p] \in {"write", "read_w"} \/ w_pc'[p] = "idle"
      BY <2>1 DEF PlaceInv, Waiting
    <2>4. \A h \in Procs : ForReaders(h) => ForReaders(h)'
      BY <1>2, <2>1, OneHolder DEF ForReaders
    <2>5. \A h \in Procs : ForReaders(h)' => ForReaders(h) \/ rw[h] = "read_w"
      BY <1>2, <2>1, <2>3, OneHolder DEF ForReaders
    <2>6. ReaderInv'
      BY <1>2, <2>4, <2>5 DEF ReaderInv
    <2> QED
      BY <1>1, <2>2, <2>6
  <1> QED
    BY <1>3, <1>4 DEF SemaphoreStep

\* Every step of the lock keeps the invariant.
LEMMA NextInv == IInv /\ [RwNext]_rwVars => IInv'
  <1> SUFFICES ASSUME IInv, [RwNext]_rwVars PROVE IInv'
    OBVIOUS
  <1>1. CASE \E p \in Procs : ReadOp(p) \/ WriteOp(p) \/ SemaphoreStep(p)
    BY <1>1, ReadInv, ReadCountInv, ReadEnterInv, DropCountInv, DropLeaveInv, WriteInv,
       DropWriteInv, StepInv DEF ReadOp, WriteOp
  <1>2. CASE \E p \in Futures : CancelRead(p) \/ CancelWrite(p)
    BY <1>2, CancelInv
  <1>3. CASE UNCHANGED rwVars
    <2>1. SemInv'
      BY <1>3, SemKept DEF rwVars, IInv
    <2>2. PlaceInv' /\ ReaderInv'
      BY <1>3 DEF rwVars, rVars, wVars, IInv, PlaceInv, ReaderInv, ForReaders, Counted
    <2> QED
      BY <2>1, <2>2 DEF IInv
  <1> QED
    BY <1>1, <1>2, <1>3 DEF RwNext

-----------------------------------------------------------------------------
\* The inductive invariant holds in every behaviour of the lock.
THEOREM Invariant == RwSpec => []IInv
  BY InitInv, NextInv, PTL DEF RwSpec

\* The count of readers stays between zero and the number of processes, and
\* the two semaphores in their range, whatever is interleaved or dropped.
THEOREM TypeCorrect == RwSpec => []RwTypeOK
  <1>1. IInv => RwTypeOK
    BY SameR, SameW, CountedFinite DEF IInv, SemInv, PlaceInv, ReaderInv, RwTypeOK
  <1> QED
    BY <1>1, Invariant, PTL

\* The doc comments of read and write: a writer has nobody beside it.
THEOREM WriterExcludes == RwSpec => []WriterAlone
  <1>1. IInv => WriterAlone
    BY OneHolder DEF IInv, WriterAlone, Writing, Reading, ReaderInv, ForReaders
  <1> QED
    BY <1>1, Invariant, PTL

\* The count is that of the guards, and the readers have write_mutex exactly
\* when it is not zero: the last Drop gives back the permit of the first.
THEOREM CountExact == RwSpec => []CountIsExact
  <1>1. IInv => CountIsExact
    <2> SUFFICES ASSUME IInv, R!Holders = {}
                 PROVE  /\ reader_count = Cardinality({p \in Procs : rw[p] \in {"reading", "drop_r"}})
                        /\ reader_count > 0 <=> \E h \in W!Holders : ~Writing(h)
      BY DEF CountIsExact
    <2>1. \A p \in Procs : rw[p] # "read_w"
      BY DEF IInv, PlaceInv, R!Holders, R!Procs, Procs
    <2>2. Counted = {p \in Procs : rw[p] \in {"reading", "drop_r"}}
      BY <2>1 DEF Counted
    <2>3. reader_count > 0 => \E p \in Procs : p \in Counted
      BY CountedFinite, FS_EmptySet DEF IInv, ReaderInv, Counted
    <2>4. reader_count > 0 <=> \E h \in Procs : ForReaders(h)
      BY <2>2, <2>3 DEF IInv, ReaderInv
    <2>5. \A h \in Procs : ForReaders(h) <=> h \in W!Holders /\ ~Writing(h)
      BY DEF ForReaders, Writing, W!Holders, W!Procs, Procs
    <2> QED
      BY <2>2, <2>4, <2>5 DEF IInv, ReaderInv, W!Holders, W!Procs, Procs
  <1> QED
    BY <1>1, Invariant, PTL

-----------------------------------------------------------------------------
(* The list. Least elements of sets of naturals. *)

\* A set of naturals that is not empty has a least element.
LEMMA LeastElement ==
  ASSUME NEW N, N \subseteq Nat, N # {}
  PROVE  \E i \in N : \A j \in N : i <= j
  <1> DEFINE Less == OpToRel(<, Nat)
  <1>1. PICK x \in N : \A y \in N : <<y, x>> \notin Less
    BY NatLessThanWellFounded, WFMin
  <1>2. \A y \in N : y < x => <<y, x>> \in Less
    BY DEF OpToRel
  <1> HIDE DEF Less
  <1>3. \A y \in N : ~(y < x)
    BY <1>1, <1>2, Zenon
  <1>4. \A y \in N : x <= y
    BY <1>3
  <1> QED
    BY <1>4

-----------------------------------------------------------------------------
\* No list is removed from by both contexts.
OneRemover == \A regime \in Regimes : ~({"task", "handler"} \subseteq regime)

-----------------------------------------------------------------------------
\* Sequences of nodes.

Elems(s) == {s[i] : i \in 1..Len(s)}

\* The node at i, Null behind the last.
At(s, i) == IF i \in 1..Len(s) THEN s[i] ELSE Null

Once(s) == \A i, j \in 1..Len(s) : s[i] = s[j] => i = j

\* s with n in front, and without its i-th element.
Cons(n, s) == [j \in 1..Len(s) + 1 |-> IF j = 1 THEN n ELSE s[j - 1]]
Cut(s, i) == [j \in 1..Len(s) - 1 |-> IF j < i THEN s[j] ELSE s[j + 1]]

\* The list is the sequence s.
Chained(s) ==
  /\ s \in Seq(Nodes) /\ Once(s)
  /\ head = At(s, 1)
  /\ \A i \in 1..Len(s) : next[s[i]] = At(s, i + 1)

-----------------------------------------------------------------------------
\* The inductive invariant.

TypeInv ==
  /\ next \in [Nodes -> Nodes \cup {Null}] /\ data \in [Nodes -> Keys \cup {Null}]
  /\ pool \in Seq(Nodes) /\ Once(pool) /\ pc \in Labels
  /\ key \in Keys \cup {Null} /\ {node, cur, prev, nxt} \subseteq Nodes \cup {Null}
  /\ removers \in Regimes /\ pushes \in 0..MaxPushes
  /\ readers = IF pc \in {"iter", "reading"} THEN 1 ELSE 0

\* The elements of the list are distinct, and are those that should be there.
DataInv(N) ==
  /\ \A m, n \in N : data[m] = data[n] => m = n
  /\ \A n \in N : data[n] \in Keys
  /\ present = {data[n] : n \in N}

\* What is allocated is in the list, in the pool, or in the executor's hands.
InHand == {n \in Nodes : (pc = "push" /\ n = node) \/ (pc = "retire" /\ n = cur)}

LiveInv(N) ==
  /\ live = N \cup Elems(pool) \cup InHand
  /\ N \cap Elems(pool) = {}
  /\ InHand \cap (N \cup Elems(pool)) = {}
  /\ pc \notin {"iter", "reading", "pool", "free"} => pool = <<>>

\* An iterator walks through the list and through what was taken out of it
\* since it began; none of these nodes leads to one that is freed.
IteratorInv(N) ==
  /\ pc \in {"iter", "reading"} => \A n \in Elems(pool) : next[n] \in N \cup Elems(pool) \cup {Null}
  /\ pc = "reading" => cur \in N \cup Elems(pool) \cup {Null}
  /\ pc = "free" /\ cur = Null => pool = <<>>

\* The cursor of remove is at i: what is before i has another key.
CursorAt(s, i) ==
  /\ cur = At(s, i) /\ prev = At(s, i - 1)
  /\ \A j \in 1..Len(s) : j < i => data[s[j]] # key

Removing == {"at_head", "unlink_head", "walk", "unlink", "retire"}

CallInv(s) ==
  /\ pc = "push" => node \in Nodes /\ data[node] \in Keys /\ data[node] \notin present
  /\ pc \in Removing => "handler" \notin removers
  /\ pc \in {"at_head", "unlink_head"} => cur = head
  /\ pc = "unlink_head" => cur # Null /\ nxt = next[cur] /\ data[cur] = key
  /\ pc = "walk" => \E i \in 1..Len(s) + 1 : CursorAt(s, i)
  /\ pc = "unlink" => \E i \in 1..Len(s) : CursorAt(s, i) /\ nxt = next[cur] /\ data[cur] = key
  /\ pc = "retire" => cur \in Nodes

Good(s) ==
  Chained(s) /\ TypeInv /\ DataInv(Elems(s)) /\ LiveInv(Elems(s)) /\ IteratorInv(Elems(s)) /\ CallInv(s)

ListInv == \E s \in Seq(Nodes) : Good(s)

-----------------------------------------------------------------------------
\* The links and the sequence.

\* A sequence of distinct nodes is no longer than there are nodes.
LEMMA SequenceFits ==
  ASSUME NEW s \in Seq(Nodes), Once(s)
  PROVE  Cardinality(Nodes) \in Nat /\ Len(s) \in Nat /\ Len(s) <= Cardinality(Nodes)
  <1>1. Cardinality(Nodes) \in Nat /\ Len(s) \in Nat
    BY NodesAssumption, FS_CardinalityType
  <1>2. s \in Injection(1..Len(s), Nodes)
    BY DEF Injection, IsInjective, Once
  <1>3. Cardinality(1..Len(s)) <= Cardinality(Nodes)
    BY <1>2, NodesAssumption, FS_Injection
  <1>4. Cardinality(1..Len(s)) = Len(s)
    <2>1. 1 \in Int /\ Len(s) \in Int
      BY <1>1
    <2>2. Cardinality(1..Len(s)) = IF 1 > Len(s) THEN 0 ELSE Len(s) - 1 + 1
      BY <2>1, FS_Interval
    <2> QED
      BY <1>1, <2>2
  <1> QED
    BY <1>1, <1>3, <1>4

\* Chain goes through the sequence and stays at Null.
LEMMA ChainIsSequence ==
  ASSUME NEW s, Chained(s)
  PROVE  /\ DOMAIN Chain = 1..(Cardinality(Nodes) + 1)
         /\ \A i \in 1..(Cardinality(Nodes) + 1) : Chain[i] = At(s, i)
  <1> DEFINE D == 1..(Cardinality(Nodes) + 1)
             Turn(f) == [i \in D |-> IF i = 1 THEN head ELSE IF f[i - 1] = Null THEN Null ELSE next[f[i - 1]]]
             f0 == [i \in D |-> At(s, i)]
  <1>1. Chain = CHOOSE f : f = Turn(f)
    BY DEF Chain
  <1>2. Cardinality(Nodes) \in Nat /\ Len(s) \in Nat /\ s \in Seq(Nodes)
    BY SequenceFits DEF Chained
  <1>3. \A i \in 1..Len(s) : s[i] \in Nodes /\ s[i] # Null
    BY <1>2, NullAssumption
  <1>4. ASSUME NEW i \in D, i # 1
        PROVE  At(s, i) = IF At(s, i - 1) = Null THEN Null ELSE next[At(s, i - 1)]
    <2>1. i - 1 \in Nat \ {0} /\ (i - 1) + 1 = i
      BY <1>2, <1>4
    <2>2. CASE i - 1 \in 1..Len(s)
      <3>1. At(s, i - 1) = s[i - 1] /\ At(s, i - 1) # Null
        BY <1>3, <2>2 DEF At
      <3>2. next[s[i - 1]] = At(s, i)
        BY <2>1, <2>2 DEF Chained
      <3> QED
        BY <3>1, <3>2
    <2>3. CASE i - 1 \notin 1..Len(s)
      <3>1. i \notin 1..Len(s)
        BY <1>2, <2>1, <2>3
      <3> QED
        BY <2>3, <3>1 DEF At
    <2> QED
      BY <2>2, <2>3
  <1>5. f0 = Turn(f0)
    <2>1. \A i \in D : i # 1 => i - 1 \in D
      BY <1>2
    <2>2. \A i \in D : f0[i] = IF i = 1 THEN head ELSE IF f0[i - 1] = Null THEN Null ELSE next[f0[i - 1]]
      <3> TAKE i \in D
      <3>1. CASE i = 1
        BY <3>1 DEF Chained
      <3>2. CASE i # 1
        BY <1>4, <2>1, <3>2
      <3> QED
        BY <3>1, <3>2
    <2> QED
      BY <2>2
  <1>6. Chain = Turn(Chain)
    <2> HIDE DEF Turn, f0
    <2> QED
      BY <1>1, <1>5
  <1>7. \A i \in D : Chain[i] = IF i = 1 THEN head ELSE IF Chain[i - 1] = Null THEN Null ELSE next[Chain[i - 1]]
    <2> DEFINE ch == Chain
    <2>1. ch = Turn(ch)
      BY <1>6
    <2> HIDE DEF ch
    <2>2. \A i \in D : ch[i] = IF i = 1 THEN head ELSE IF ch[i - 1] = Null THEN Null ELSE next[ch[i - 1]]
      BY <2>1
    <2> QED
      BY <2>2 DEF ch
  <1> DEFINE Wrong == {i \in D : Chain[i] # At(s, i)}
  <1>8. Wrong = {}
    <2> SUFFICES ASSUME Wrong # {} PROVE FALSE
      OBVIOUS
    <2>1. Wrong \subseteq Nat
      BY <1>2
    <2>2. PICK i \in Wrong : \A j \in Wrong : i <= j
      <3> HIDE DEF Wrong
      <3> QED
        BY <2>1, LeastElement
    <2>3. i \in D /\ Chain[i] # At(s, i)
      BY <2>2
    <2>4. CASE i = 1
      BY <1>7, <2>3, <2>4 DEF Chained
    <2>5. CASE i # 1
      <3>1. i - 1 \in D /\ ~(i <= i - 1)
        BY <1>2, <2>3, <2>5
      <3>2. Chain[i - 1] = At(s, i - 1)
        BY <2>2, <3>1
      <3> QED
        BY <1>4, <1>7, <2>3, <2>5, <3>2
    <2> QED
      BY <2>4, <2>5
  <1>9. DOMAIN Chain = D
    <2> DEFINE ch == Chain
    <2>1. ch = Turn(ch)
      BY <1>6
    <2> HIDE DEF ch
    <2>2. DOMAIN ch = D
      BY <2>1
    <2> QED
      BY <2>2 DEF ch
  <1> QED
    BY <1>8, <1>9

\* The nodes that are linked are those of the sequence.
LEMMA LinkedIsElems ==
  ASSUME NEW s, Chained(s)
  PROVE  Linked = Elems(s)
  <1> DEFINE D == 1..(Cardinality(Nodes) + 1)
  <1>1. Cardinality(Nodes) \in Nat /\ Len(s) \in Nat /\ Len(s) <= Cardinality(Nodes) /\ s \in Seq(Nodes)
    BY SequenceFits DEF Chained
  <1>2. DOMAIN Chain = D
    BY ChainIsSequence
  <1>3. \A i \in D : Chain[i] = At(s, i)
    BY ChainIsSequence
  <1>4. \A i \in 1..Len(s) : i \in D /\ s[i] # Null
    BY <1>1, NullAssumption
  <1> HIDE DEF D
  <1>5. Linked = {At(s, i) : i \in D} \ {Null}
    BY <1>2, <1>3 DEF Linked
  <1>6. {At(s, i) : i \in D} \ {Null} = Elems(s)
    BY <1>4 DEF At, Elems
  <1> QED
    BY <1>5, <1>6

-----------------------------------------------------------------------------
\* Sequences of distinct nodes.

\* The nodes of a sequence, and what At gives inside it and behind its end.
LEMMA ElemsFacts ==
  ASSUME NEW s \in Seq(Nodes)
  PROVE  /\ Elems(s) \subseteq Nodes /\ Len(s) \in Nat /\ Null \notin Elems(s)
         /\ \A i \in 1..Len(s) : s[i] \in Elems(s) /\ At(s, i) = s[i]
         /\ \A n \in Elems(s) : \E i \in 1..Len(s) : s[i] = n
         /\ \A i \in Nat : At(s, i) \in Elems(s) \cup {Null} /\ (At(s, i) = Null <=> i \notin 1..Len(s))
  <1>1. Len(s) \in Nat /\ \A i \in 1..Len(s) : s[i] \in Nodes /\ s[i] # Null
    BY NullAssumption
  <1>2. \A i \in 1..Len(s) : s[i] \in Elems(s) /\ At(s, i) = s[i]
    BY DEF Elems, At
  <1>3. \A n \in Elems(s) : \E i \in 1..Len(s) : s[i] = n
    BY DEF Elems
  <1>4. \A i \in Nat : At(s, i) \in Elems(s) \cup {Null} /\ (At(s, i) = Null <=> i \notin 1..Len(s))
    BY <1>1, <1>2 DEF At
  <1>5. Elems(s) \subseteq Nodes /\ Null \notin Elems(s)
    BY <1>1 DEF Elems
  <1> QED
    BY <1>1, <1>2, <1>3, <1>4, <1>5

\* The empty list, and the empty pool.
LEMMA NoElems == Elems(<<>>) = {} /\ Once(<<>>) /\ <<>> \in Seq(Nodes)
  BY DEF Elems, Once

\* A sequence with a new node in front.
LEMMA ConsFacts ==
  ASSUME NEW s \in Seq(Nodes), Once(s), NEW n \in Nodes, n \notin Elems(s)
  PROVE  /\ Cons(n, s) \in Seq(Nodes) /\ Once(Cons(n, s)) /\ Elems(Cons(n, s)) = Elems(s) \cup {n}
         /\ Len(Cons(n, s)) = Len(s) + 1
         /\ \A i \in 1..Len(s) + 1 : Cons(n, s)[i] = IF i = 1 THEN n ELSE s[i - 1]
         /\ At(Cons(n, s), 1) = n /\ \A i \in 1..Len(s) + 1 : At(Cons(n, s), i + 1) = At(s, i)
  <1> DEFINE t == Cons(n, s)
  <1>1. Len(s) \in Nat
    OBVIOUS
  <1>2. t \in Seq(Nodes) /\ Len(t) = Len(s) + 1
    <2>1. \A i \in 1..Len(s) + 1 : i # 1 => s[i - 1] \in Nodes
      BY <1>1
    <2> QED
      BY <1>1, <2>1 DEF Cons
  <1>3. \A i \in 1..Len(s) + 1 : t[i] = IF i = 1 THEN n ELSE s[i - 1]
    BY DEF Cons
  <1> HIDE DEF t
  <1>4. Once(t)
    <2> SUFFICES ASSUME NEW i \in 1..Len(t), NEW j \in 1..Len(t), t[i] = t[j] PROVE i = j
      BY DEF Once
    <2>1. i \in 1..Len(s) + 1 /\ j \in 1..Len(s) + 1 /\ i \in Nat /\ j \in Nat
      BY <1>1, <1>2
    <2>2. (i # 1 => i - 1 \in 1..Len(s)) /\ (j # 1 => j - 1 \in 1..Len(s))
      BY <1>1, <2>1
    <2>3. \A m \in 1..Len(s) : s[m] # n
      BY DEF Elems
    <2>4. (i = 1 <=> j = 1)
      BY <1>3, <2>1, <2>2, <2>3
    <2>5. ASSUME i # 1 PROVE i - 1 = j - 1
      <3>1. s[i - 1] = s[j - 1]
        BY <1>3, <2>1, <2>4, <2>5
      <3> QED
        BY <2>2, <2>4, <2>5, <3>1 DEF Once
    <2> QED
      BY <2>1, <2>4, <2>5
  <1>5. Elems(t) = Elems(s) \cup {n}
    <2>1. ASSUME NEW x \in Elems(t) PROVE x \in Elems(s) \cup {n}
      <3>1. PICK i \in 1..Len(s) + 1 : x = t[i]
        BY <1>2 DEF Elems
      <3>2. i # 1 => i - 1 \in 1..Len(s)
        BY <1>1
      <3> QED
        BY <1>3, <3>1, <3>2 DEF Elems
    <2>2. ASSUME NEW i \in 1..Len(s) PROVE s[i] \in Elems(t)
      <3>1. i + 1 \in 1..Len(t) /\ i + 1 # 1 /\ (i + 1) - 1 = i /\ i + 1 \in 1..Len(s) + 1
        BY <1>1, <1>2
      <3>2. t[i + 1] = s[i]
        BY <1>3, <3>1
      <3> QED
        BY <3>1, <3>2 DEF Elems
    <2>3. n \in Elems(t)
      <3>1. 1 \in 1..Len(t) /\ 1 \in 1..Len(s) + 1
        BY <1>1, <1>2
      <3> QED
        BY <1>3, <3>1 DEF Elems
    <2> QED
      BY <2>1, <2>2, <2>3 DEF Elems
  <1>6. At(t, 1) = n
    <2>1. 1 \in 1..Len(t) /\ 1 \in 1..Len(s) + 1
      BY <1>1, <1>2
    <2> QED
      BY <1>3, <2>1 DEF At
  <1>7. ASSUME NEW i \in 1..Len(s) + 1 PROVE At(t, i + 1) = At(s, i)
    <2>1. (i + 1 \in 1..Len(t) <=> i \in 1..Len(s)) /\ i + 1 # 1 /\ (i + 1) - 1 = i
      BY <1>1, <1>2
    <2>2. i + 1 \in 1..Len(t) => t[i + 1] = s[i]
      BY <1>2, <1>3, <2>1
    <2> QED
      BY <2>1, <2>2 DEF At
  <1> QED
    BY <1>2, <1>3, <1>4, <1>5, <1>6, <1>7 DEF t

\* A sequence without its i-th node: the nodes behind it move up by one.
LEMMA CutFacts ==
  ASSUME NEW s \in Seq(Nodes), Once(s), NEW i \in 1..Len(s)
  PROVE  /\ Cut(s, i) \in Seq(Nodes) /\ Once(Cut(s, i)) /\ Elems(Cut(s, i)) = Elems(s) \ {s[i]}
         /\ Len(Cut(s, i)) = Len(s) - 1
         /\ \A j \in 1..Len(s) - 1 : Cut(s, i)[j] = IF j < i THEN s[j] ELSE s[j + 1]
         /\ \A j \in 1..Len(s) : At(Cut(s, i), j) = IF j < i THEN At(s, j) ELSE At(s, j + 1)
  <1> DEFINE t == Cut(s, i)
             f(j) == IF j < i THEN j ELSE j + 1
  <1>1. Len(s) \in Nat /\ Len(s) - 1 \in Nat /\ i \in Nat
    OBVIOUS
  <1>2. t \in Seq(Nodes) /\ Len(t) = Len(s) - 1
    <2>1. \A j \in 1..Len(s) - 1 : s[j] \in Nodes /\ s[j + 1] \in Nodes
      BY <1>1
    <2> QED
      BY <1>1, <2>1 DEF Cut
  <1>3. \A j \in 1..Len(s) - 1 : t[j] = IF j < i THEN s[j] ELSE s[j + 1]
    BY DEF Cut
  <1>4. \A j \in 1..Len(s) - 1 : t[j] = s[f(j)] /\ f(j) \in 1..Len(s) /\ f(j) # i
    BY <1>1, <1>3
  <1>5. \A j, k \in 1..Len(s) - 1 : f(j) = f(k) => j = k
    BY <1>1
  <1>6. \A k \in 1..Len(s) : k # i => \E j \in 1..Len(s) - 1 : f(j) = k
    <2> TAKE k \in 1..Len(s)
    <2>1. CASE k < i
      <3>1. k \in 1..Len(s) - 1 /\ f(k) = k
        BY <1>1, <2>1
      <3> QED
        BY <3>1
    <2>2. CASE k > i
      <3>1. k - 1 \in 1..Len(s) - 1 /\ f(k - 1) = k
        BY <1>1, <2>2
      <3> QED
        BY <3>1
    <2>3. k < i \/ k = i \/ k > i
      BY <1>1
    <2> QED
      BY <2>1, <2>2, <2>3
  <1> HIDE DEF t, f
  <1>7. Once(t)
    <2> SUFFICES ASSUME NEW j \in 1..Len(s) - 1, NEW k \in 1..Len(s) - 1, t[j] = t[k] PROVE j = k
      BY <1>2 DEF Once
    <2>1. f(j) = f(k)
      BY <1>4 DEF Once
    <2> QED
      BY <1>5, <2>1
  <1>8. Elems(t) = Elems(s) \ {s[i]}
    <2>1. ASSUME NEW j \in 1..Len(s) - 1 PROVE t[j] \in Elems(s) \ {s[i]}
      BY <1>4 DEF Elems, Once
    <2>2. ASSUME NEW k \in 1..Len(s), s[k] # s[i] PROVE s[k] \in Elems(t)
      <3>1. PICK j \in 1..Len(s) - 1 : f(j) = k
        BY <1>6, <2>2
      <3>2. t[j] = s[k]
        BY <1>4, <3>1
      <3> QED
        BY <1>2, <3>2 DEF Elems
    <2>3. Elems(t) = {t[j] : j \in 1..Len(s) - 1}
      BY <1>2 DEF Elems
    <2>4. Elems(s) = {s[k] : k \in 1..Len(s)}
      BY DEF Elems
    <2> QED
      BY <2>1, <2>2, <2>3, <2>4
  <1>9. ASSUME NEW j \in 1..Len(s) PROVE At(t, j) = IF j < i THEN At(s, j) ELSE At(s, j + 1)
    <2>1. CASE j = Len(s)
      <3>1. j \notin 1..Len(t) /\ ~(j < i) /\ j + 1 \notin 1..Len(s)
        BY <1>1, <1>2, <2>1
      <3> QED
        BY <3>1 DEF At
    <2>2. CASE j # Len(s)
      <3>1. j \in 1..Len(s) - 1 /\ j \in 1..Len(t) /\ j + 1 \in 1..Len(s)
        BY <1>1, <1>2, <2>2
      <3> QED
        BY <1>3, <3>1 DEF At
    <2> QED
      BY <2>1, <2>2
  <1> QED
    BY <1>2, <1>3, <1>7, <1>8, <1>9 DEF t

\* The pool, when a node is put in front and when its first one is freed.
LEMMA PoolPush ==
  ASSUME NEW q \in Seq(Nodes), Once(q), NEW n \in Nodes, n \notin Elems(q)
  PROVE  <<n>> \o q \in Seq(Nodes) /\ Once(<<n>> \o q) /\ Elems(<<n>> \o q) = Elems(q) \cup {n}
  <1>1. <<n>> \o q = Cons(n, q)
    <2>1. Len(q) \in Nat /\ Len(<<n>>) = 1 /\ <<n>>[1] = n /\ <<n>> \in Seq(Nodes)
      OBVIOUS
    <2>2. /\ <<n>> \o q \in Seq(Nodes) /\ Len(<<n>> \o q) = 1 + Len(q)
          /\ \A i \in 1..(1 + Len(q)) : (<<n>> \o q)[i] = IF i <= 1 THEN <<n>>[i] ELSE q[i - 1]
      BY <2>1, ConcatProperties
    <2>3. Cons(n, q) \in Seq(Nodes) /\ Len(Cons(n, q)) = Len(q) + 1
      BY ConsFacts
    <2>4. ASSUME NEW i \in 1..Len(q) + 1 PROVE (<<n>> \o q)[i] = Cons(n, q)[i]
      <3>1. i \in 1..(1 + Len(q)) /\ (i <= 1 <=> i = 1)
        BY <2>1
      <3>2. Cons(n, q)[i] = IF i = 1 THEN n ELSE q[i - 1]
        BY ConsFacts
      <3> QED
        BY <2>1, <2>2, <3>1, <3>2
    <2>5. Len(<<n>> \o q) = Len(q) + 1
      BY <2>1, <2>2
    <2> QED
      BY <2>2, <2>3, <2>4, <2>5, SeqEqual
  <1>2. Cons(n, q) \in Seq(Nodes) /\ Once(Cons(n, q)) /\ Elems(Cons(n, q)) = Elems(q) \cup {n}
    BY ConsFacts
  <1> DEFINE t == <<n>> \o q
  <1>3. t = Cons(n, q)
    BY <1>1
  <1> HIDE DEF t
  <1>4. t \in Seq(Nodes) /\ Once(t) /\ Elems(t) = Elems(q) \cup {n}
    BY <1>2, <1>3
  <1> QED
    BY <1>4 DEF t

\* free_pool takes the first cell off the pool.
LEMMA PoolTail ==
  ASSUME NEW q \in Seq(Nodes), Once(q), q # <<>>
  PROVE  /\ Tail(q) \in Seq(Nodes) /\ Once(Tail(q)) /\ Elems(Tail(q)) = Elems(q) \ {Head(q)}
         /\ Head(q) \in Elems(q) /\ Head(q) \in Nodes
  <1>1. Len(q) \in Nat /\ 1 \in 1..Len(q) /\ Head(q) = q[1]
    OBVIOUS
  <1>2. Tail(q) = Cut(q, 1)
    <2>1. /\ Tail(q) \in Seq(Nodes) /\ Len(Tail(q)) = Len(q) - 1
          /\ \A i \in 1..Len(Tail(q)) : Tail(q)[i] = q[i + 1]
      BY HeadTailProperties
    <2>2. /\ Cut(q, 1) \in Seq(Nodes) /\ Len(Cut(q, 1)) = Len(q) - 1
          /\ \A i \in 1..Len(q) - 1 : Cut(q, 1)[i] = IF i < 1 THEN q[i] ELSE q[i + 1]
      BY <1>1, CutFacts
    <2>3. \A i \in 1..Len(q) - 1 : ~(i < 1)
      BY <1>1
    <2>4. \A i \in 1..Len(Tail(q)) : Tail(q)[i] = Cut(q, 1)[i]
      BY <2>1, <2>2, <2>3
    <2> QED
      BY <2>1, <2>2, <2>4, SeqEqual
  <1>3. q[1] \in Elems(q)
    BY <1>1 DEF Elems
  <1>4. Cut(q, 1) \in Seq(Nodes) /\ Once(Cut(q, 1)) /\ Elems(Cut(q, 1)) = Elems(q) \ {q[1]}
    BY <1>1, CutFacts
  <1> DEFINE t == Tail(q)
  <1>5. t = Cut(q, 1)
    BY <1>2
  <1> HIDE DEF t
  <1>6. t \in Seq(Nodes) /\ Once(t) /\ Elems(t) = Elems(q) \ {q[1]}
    BY <1>4, <1>5
  <1>7. q[1] \in Nodes
    BY <1>1
  <1> QED
    BY <1>1, <1>3, <1>6, <1>7 DEF t

-----------------------------------------------------------------------------
\* What the invariant says of a list.

\* A sequence for which the invariant holds is a witness of it.
LEMMA GoodIs == ASSUME NEW s, Good(s)' PROVE ListInv'
  BY DEF Good, Chained, ListInv

\* The links of the nodes of the list lead to nodes of the list.
LEMMA LinksInside ==
  ASSUME NEW s, Chained(s)
  PROVE  /\ head \in Elems(s) \cup {Null} /\ (head = Null <=> Len(s) = 0)
         /\ \A n \in Elems(s) : next[n] \in Elems(s) \cup {Null}
  <1>1. s \in Seq(Nodes) /\ Len(s) \in Nat
    BY DEF Chained
  <1>2. head \in Elems(s) \cup {Null} /\ (head = Null <=> 1 \notin 1..Len(s))
    BY <1>1, ElemsFacts DEF Chained
  <1>3. ASSUME NEW n \in Elems(s) PROVE next[n] \in Elems(s) \cup {Null}
    <2>1. PICK i \in 1..Len(s) : s[i] = n
      BY <1>1, ElemsFacts
    <2>2. next[n] = At(s, i + 1) /\ i + 1 \in Nat
      BY <1>1, <2>1 DEF Chained
    <2> QED
      BY <1>1, <2>2, ElemsFacts
  <1> QED
    BY <1>1, <1>2, <1>3

\* The links are those of the same list when only other nodes' links change.
LEMMA SameChain ==
  ASSUME NEW s, Chained(s), head' = head, \A n \in Elems(s) : next'[n] = next[n]
  PROVE  Chained(s)'
  <1>1. \A i \in 1..Len(s) : s[i] \in Elems(s)
    BY DEF Elems
  <1> QED
    BY <1>1 DEF Chained

\* A node is put in front of the list.
LEMMA ConsChained ==
  ASSUME NEW s, Chained(s), next \in [Nodes -> Nodes \cup {Null}], NEW n \in Nodes, n \notin Elems(s),
         head' = n, next' = [next EXCEPT ![n] = head]
  PROVE  Chained(Cons(n, s))'
  <1> DEFINE t == Cons(n, s)
  <1>1. s \in Seq(Nodes) /\ Once(s) /\ Len(s) \in Nat
    BY DEF Chained
  <1>2. /\ t \in Seq(Nodes) /\ Once(t) /\ Len(t) = Len(s) + 1 /\ At(t, 1) = n
        /\ \A i \in 1..Len(s) + 1 : t[i] = IF i = 1 THEN n ELSE s[i - 1]
        /\ \A i \in 1..Len(s) + 1 : At(t, i + 1) = At(s, i)
    BY <1>1, ConsFacts
  <1> HIDE DEF t
  <1>3. ASSUME NEW i \in 1..Len(s) + 1 PROVE next'[t[i]] = At(t, i + 1)
    <2>1. CASE i = 1
      <3>1. next'[n] = head /\ head = At(s, 1) /\ 1 \in 1..Len(s) + 1
        BY <1>1 DEF Chained
      <3> QED
        BY <1>2, <2>1, <3>1
    <2>2. CASE i # 1
      <3>1. i - 1 \in 1..Len(s) /\ (i - 1) + 1 = i /\ t[i] = s[i - 1]
        BY <1>1, <1>2, <2>2
      <3>2. s[i - 1] \in Nodes /\ s[i - 1] # n
        BY <1>1, <3>1, ElemsFacts
      <3>3. next'[s[i - 1]] = next[s[i - 1]]
        BY <3>2
      <3>4. next[s[i - 1]] = At(s, i)
        BY <3>1 DEF Chained
      <3> QED
        BY <1>2, <3>1, <3>3, <3>4
    <2> QED
      BY <2>1, <2>2
  <1>4. Chained(t)'
    BY <1>2, <1>3 DEF Chained
  <1> QED
    BY <1>4 DEF t

\* The node at i is taken out, by a write to the link before it.
LEMMA CutChained ==
  ASSUME NEW s, Chained(s), next \in [Nodes -> Nodes \cup {Null}], NEW i \in 1..Len(s),
         i = 1 => head' = next[s[1]] /\ next' = next,
         i # 1 => head' = head /\ next' = [next EXCEPT ![s[i - 1]] = next[s[i]]]
  PROVE  Chained(Cut(s, i))'
  <1> DEFINE t == Cut(s, i)
  <1>1. s \in Seq(Nodes) /\ Once(s) /\ Len(s) \in Nat /\ i \in Nat
    BY DEF Chained
  <1>2. /\ t \in Seq(Nodes) /\ Once(t) /\ Len(t) = Len(s) - 1
        /\ \A j \in 1..Len(s) - 1 : t[j] = IF j < i THEN s[j] ELSE s[j + 1]
        /\ \A j \in 1..Len(s) : At(t, j) = IF j < i THEN At(s, j) ELSE At(s, j + 1)
    BY <1>1, CutFacts
  <1> HIDE DEF t
  <1>3. \A j \in 1..Len(s) : next[s[j]] = At(s, j + 1) /\ s[j] \in Nodes
    BY <1>1 DEF Chained
  <1>4. 1 \in 1..Len(s) /\ head = At(s, 1)
    BY <1>1 DEF Chained
  <1>5. head' = At(t, 1)
    BY <1>1, <1>2, <1>3, <1>4
  <1>6. ASSUME NEW j \in 1..Len(s), j # i PROVE next'[s[j]] = IF j + 1 = i THEN At(s, i + 1) ELSE At(s, j + 1)
    <2>1. CASE i = 1
      <3>1. next' = next /\ j + 1 # i
        BY <1>1, <2>1
      <3> QED
        BY <1>3, <3>1
    <2>2. CASE i # 1
      <3>1. i - 1 \in 1..Len(s) /\ (j + 1 = i <=> j = i - 1)
        BY <1>1, <2>2
      <3>2. s[j] = s[i - 1] <=> j = i - 1
        BY <1>1, <3>1 DEF Once
      <3>3. next'[s[j]] = IF s[j] = s[i - 1] THEN next[s[i]] ELSE next[s[j]]
        BY <1>3, <2>2, <3>1
      <3> QED
        BY <1>3, <3>1, <3>2, <3>3
    <2> QED
      BY <2>1, <2>2
  <1>7. ASSUME NEW j \in 1..Len(s) - 1 PROVE next'[t[j]] = At(t, j + 1)
    <2>1. j \in 1..Len(s) /\ j + 1 \in 1..Len(s) /\ j \in Nat
      BY <1>1
    <2>2. CASE j < i
      <3>1. t[j] = s[j] /\ j # i
        BY <1>1, <1>2, <2>1, <2>2
      <3>2. j + 1 = i \/ (j + 1 # i /\ j + 1 < i)
        BY <1>1, <2>1, <2>2
      <3>3. CASE j + 1 = i
        <4>1. At(t, j + 1) = At(s, i + 1)
          BY <1>1, <1>2, <2>1, <3>3
        <4> QED
          BY <1>6, <2>1, <3>1, <3>3, <4>1
      <3>4. CASE j + 1 # i /\ j + 1 < i
        <4>1. At(t, j + 1) = At(s, j + 1)
          BY <1>2, <2>1, <3>4
        <4> QED
          BY <1>6, <2>1, <3>1, <3>4, <4>1
      <3> QED
        BY <3>2, <3>3, <3>4
    <2>3. CASE ~(j < i)
      <3>1. t[j] = s[j + 1] /\ j + 1 # i /\ (j + 1) + 1 # i /\ ~(j + 1 < i)
        BY <1>1, <1>2, <2>1, <2>3
      <3>2. At(t, j + 1) = At(s, (j + 1) + 1)
        BY <1>2, <2>1, <3>1
      <3> QED
        BY <1>6, <2>1, <3>1, <3>2
    <2> QED
      BY <2>2, <2>3
  <1>8. Chained(t)'
    BY <1>2, <1>5, <1>7 DEF Chained
  <1> QED
    BY <1>8 DEF t

\* An element is added, or taken out.
LEMMA DataAdded ==
  ASSUME NEW N, NEW n, DataInv(N), n \notin N, data' = data, data[n] \in Keys, data[n] \notin present,
         present' = present \cup {data[n]}
  PROVE  DataInv(N \cup {n})'
  <1>1. \A m \in N : data[m] # data[n]
    BY DEF DataInv
  <1> QED
    BY <1>1 DEF DataInv

\* Only the element of the node that goes out is missing from then on.
LEMMA DataRemoved ==
  ASSUME NEW N, NEW n \in N, DataInv(N), data' = data, present' = present \ {data[n]}
  PROVE  DataInv(N \ {n})'
  BY DEF DataInv

-----------------------------------------------------------------------------
\* The calls of the executor.

\* A new list: no node, no call under way.
LEMMA ListInitInv == ASSUME ListInit PROVE ListInv
  <1>1. /\ <<>> \in Seq(Nodes) /\ Elems(<<>>) = {} /\ Once(<<>>) /\ Len(<<>>) = 0 /\ 1..0 = {}
        /\ At(<<>>, 1) = Null
    BY NoElems DEF At
  <1>2. Chained(<<>>)
    BY <1>1 DEF ListInit, Chained
  <1>3. TypeInv
    BY <1>1, BoundAssumption DEF ListInit, TypeInv, Labels
  <1>4. InHand = {}
    BY DEF ListInit, InHand
  <1>5. DataInv({}) /\ LiveInv({}) /\ IteratorInv({}) /\ CallInv(<<>>)
    BY <1>1, <1>4 DEF ListInit, DataInv, LiveInv, IteratorInv, CallInv, Removing
  <1> QED
    BY <1>1, <1>2, <1>3, <1>5 DEF ListInv, Good

\* push allocates a node that is nowhere else.
LEMMA PushInv ==
  ASSUME NEW s, Good(s), NEW k \in Keys, Push(k)
  PROVE  Good(s)'
  <1> DEFINE N == Elems(s)
  <1> USE DEF Good
  <1>1. PICK n \in Nodes \ live : live' = live \cup {n} /\ node' = n /\ data' = [data EXCEPT ![n] = k]
    BY DEF Push
  <1>2. N \subseteq Nodes /\ N \subseteq live /\ pool = <<>> /\ Elems(pool) = {} /\ pool' = pool
    BY ElemsFacts, NoElems DEF Push, Chained, LiveInv
  <1>3. Chained(s)'
    BY SameChain DEF Push
  <1>4. InHand = {} /\ InHand' = {n}
    BY <1>1 DEF Push, InHand
  <1>5. TypeInv'
    <2>1. data' \in [Nodes -> Keys \cup {Null}] /\ pushes' \in 0..MaxPushes
      BY <1>1, BoundAssumption DEF TypeInv, Push
    <2>2. cur' \in Nodes \cup {Null}
      BY <1>2, LinksInside DEF Push
    <2> QED
      BY <1>1, <1>2, <2>1, <2>2, NoElems DEF TypeInv, Push, Labels
  <1>6. \A m \in N : data'[m] = data[m]
    BY <1>1, <1>2 DEF TypeInv
  <1>7. DataInv(N)'
    BY <1>6 DEF DataInv, Push
  <1>8. LiveInv(N)'
    BY <1>1, <1>2, <1>4, NoElems DEF LiveInv, Push
  <1>9. data'[n] = k
    BY <1>1 DEF TypeInv
  <1>10. IteratorInv(N)' /\ CallInv(s)'
    BY <1>1, <1>9 DEF IteratorInv, CallInv, Push, Removing
  <1> QED
    BY <1>3, <1>5, <1>7, <1>8, <1>10

\* What a call leaves when it returns: no hands, no cursor.
LEMMA Returned ==
  ASSUME NEW s, Return, TypeInv, LiveInv(Elems(s)), UNCHANGED <<next, data, removers, pushes>>,
         readers' = 0, pool' = <<>>, live' = Elems(s)
  PROVE  TypeInv' /\ LiveInv(Elems(s))' /\ IteratorInv(Elems(s))' /\ CallInv(s)'
  <1>1. InHand' = {} /\ Elems(<<>>) = {} /\ Once(<<>>) /\ <<>> \in Seq(Nodes)
    BY NoElems DEF InHand, Return
  <1>2. TypeInv'
    BY <1>1 DEF TypeInv, Return, Labels
  <1>3. LiveInv(Elems(s))'
    BY <1>1 DEF LiveInv
  <1>4. IteratorInv(Elems(s))' /\ CallInv(s)'
    BY DEF Return, IteratorInv, CallInv, Removing
  <1> QED
    BY <1>2, <1>3, <1>4

\* The compare-exchange of push puts the node in front; when it fails, only
\* the link of the node, which is not in the list, has been written.
LEMMA PushCasInv ==
  ASSUME NEW s, Good(s), PushCas
  PROVE  ListInv'
  <1> DEFINE N == Elems(s)
  <1> USE DEF Good
  <1>1. /\ pc = "push" /\ node \in Nodes /\ node \notin N /\ data[node] \in Keys /\ data[node] \notin present
        /\ pool = <<>> /\ Elems(pool) = {} /\ InHand = {node} /\ N \subseteq Nodes /\ s \in Seq(Nodes) /\ Once(s)
        /\ next \in [Nodes -> Nodes \cup {Null}] /\ cur \in Nodes \cup {Null}
    BY ElemsFacts, NoElems DEF PushCas, Chained, LiveInv, CallInv, InHand, TypeInv
  <1>2. next' = [next EXCEPT ![node] = cur] /\ next' \in [Nodes -> Nodes \cup {Null}]
    BY <1>1 DEF PushCas
  <1>3. CASE head = cur
    <2>0. PICK n \in Nodes : n = node
      BY <1>1
    <2> DEFINE t == Cons(n, s)
    <2>1. Chained(t)'
      BY <1>1, <1>2, <1>3, <2>0, ConsChained DEF PushCas
    <2>2. Elems(t) = N \cup {n}
      BY <1>1, <2>0, ConsFacts
    <2>3. DataInv(N \cup {n})'
      BY <1>1, <1>3, <2>0, DataAdded DEF PushCas
    <2> HIDE DEF t
    <2>4. InHand' = {}
      BY <1>3 DEF InHand, PushCas, Return
    <2>5. TypeInv'
      BY <1>2, <1>3, <1>1 DEF TypeInv, PushCas, Return, Labels, bounds
    <2>6. LiveInv(N \cup {n})'
      BY <1>1, <1>3, <2>0, <2>4 DEF LiveInv, PushCas
    <2>7. IteratorInv(N \cup {n})' /\ CallInv(t)'
      BY <1>1, <1>3 DEF PushCas, Return, IteratorInv, CallInv, Removing
    <2>8. Good(t)'
      BY <2>1, <2>2, <2>3, <2>5, <2>6, <2>7
    <2> QED
      BY <2>8, GoodIs
  <1>4. CASE head # cur
    <2>1. Chained(s)'
      BY <1>1, <1>2, <1>4, SameChain DEF PushCas
    <2>2. TypeInv'
      BY <1>1, <1>2, <1>4, LinksInside DEF TypeInv, PushCas, bounds
    <2>3. InHand' = InHand
      BY <1>1, <1>4 DEF InHand, PushCas
    <2>4. DataInv(N)' /\ LiveInv(N)' /\ IteratorInv(N)' /\ CallInv(s)'
      BY <1>1, <1>4, <2>3 DEF DataInv, LiveInv, IteratorInv, CallInv, PushCas, Removing
    <2>5. Good(s)'
      BY <2>1, <2>2, <2>4
    <2> QED
      BY <2>5, GoodIs
  <1> QED
    BY <1>3, <1>4

\* A step of the executor that changes only its locals.
LEMMA LocalStep ==
  ASSUME NEW s, Good(s), UNCHANGED <<list, bounds, present>>, pc' \notin {"push", "retire"}, pc \notin {"push", "retire"}
  PROVE  /\ Chained(s)' /\ DataInv(Elems(s))' /\ InHand = {} /\ InHand' = {}
         /\ (pc \in {"iter", "reading", "pool", "free"} <=> pc' \in {"iter", "reading", "pool", "free"}) => LiveInv(Elems(s))'
         /\ UNCHANGED <<head, next, data, live, readers, pool, removers, pushes, present>>
  <1> USE DEF Good, list, bounds
  <1>1. Chained(s)'
    BY SameChain
  <1>2. DataInv(Elems(s))' /\ InHand = {} /\ InHand' = {}
    BY DEF DataInv, InHand
  <1>3. (pc \in {"iter", "reading", "pool", "free"} <=> pc' \in {"iter", "reading", "pool", "free"}) => LiveInv(Elems(s))'
    BY <1>2 DEF LiveInv
  <1> QED
    BY <1>1, <1>2, <1>3

\* remove begins at the head; its context is the only one that removes.
LEMMA RemoveInv ==
  ASSUME OneRemover, NEW s, Good(s), NEW k \in Keys, StartRemove(k)
  PROVE  Good(s)'
  <1>1. /\ Chained(s)' /\ DataInv(Elems(s))' /\ LiveInv(Elems(s))'
        /\ UNCHANGED <<head, next, data, live, readers, pool, removers, pushes, present>>
    BY LocalStep DEF StartRemove
  <1>2. "handler" \notin removers
    BY DEF OneRemover, Good, TypeInv, StartRemove
  <1>3. head \in Nodes \cup {Null}
    BY LinksInside, ElemsFacts DEF Good, Chained
  <1>4. TypeInv'
    BY <1>1, <1>3 DEF Good, TypeInv, StartRemove, Labels
  <1>5. IteratorInv(Elems(s))' /\ CallInv(s)'
    BY <1>1, <1>2 DEF StartRemove, IteratorInv, CallInv, Removing
  <1> QED
    BY <1>1, <1>4, <1>5 DEF Good

\* remove looks at the head, and starts to walk there if it is another element.
LEMMA AtHeadInv ==
  ASSUME NEW s, Good(s), AtHead
  PROVE  Good(s)'
  <1>1. /\ Chained(s)' /\ DataInv(Elems(s))' /\ LiveInv(Elems(s))' /\ InHand = {}
        /\ UNCHANGED <<head, next, data, live, readers, pool, removers, pushes, present>>
    BY LocalStep DEF AtHead, Return
  <1>2. /\ pc = "at_head" /\ cur = head /\ "handler" \notin removers /\ pool = <<>> /\ readers = 0
        /\ s \in Seq(Nodes) /\ Len(s) \in Nat /\ TypeInv
    BY DEF Good, AtHead, CallInv, LiveInv, TypeInv, Removing, Chained
  <1>3. live = Elems(s)
    BY <1>1, <1>2, NoElems DEF Good, LiveInv
  <1>4. CASE cur = Null
    <2>1. Return
      BY <1>4 DEF AtHead
    <2> QED
      BY <1>1, <1>2, <1>3, <2>1, Returned DEF Good
  <1>5. CASE cur # Null /\ data[cur] = key
    <2>1. TypeInv'
      BY <1>1, <1>2, <1>5 DEF TypeInv, AtHead, Labels
    <2>2. IteratorInv(Elems(s))' /\ CallInv(s)'
      BY <1>1, <1>2, <1>5 DEF AtHead, IteratorInv, CallInv, Removing
    <2> QED
      BY <1>1, <2>1, <2>2 DEF Good
  <1>6. CASE cur # Null /\ data[cur] # key
    <2>1. TypeInv'
      BY <1>1, <1>2, <1>6 DEF TypeInv, AtHead, Labels
    <2>2. cur' = At(s, 1) /\ prev' = Null /\ key' = key /\ pc' = "walk"
      BY <1>6 DEF AtHead, Good, Chained
    <2>3. At(s, 1 - 1) = Null /\ 1 \in 1..Len(s) + 1 /\ \A j \in 1..Len(s) : ~(j < 1)
      BY <1>2 DEF At
    <2>4. CursorAt(s, 1)'
      BY <2>2, <2>3 DEF CursorAt
    <2>5. IteratorInv(Elems(s))' /\ CallInv(s)'
      BY <1>1, <1>2, <2>2, <2>3, <2>4 DEF IteratorInv, CallInv, Removing
    <2> QED
      BY <1>1, <2>1, <2>5 DEF Good
  <1> QED
    BY <1>4, <1>5, <1>6

\* remove has taken out the node at i: it is in its hands now.
LEMMA TakenOut ==
  ASSUME NEW s, Good(s), NEW i \in 1..Len(s), pc \in Removing, pc # "retire", pc' = "retire",
         cur = s[i], data[cur] = key, next' \in [Nodes -> Nodes \cup {Null}],
         Chained(Cut(s, i))', present' = present \ {key},
         UNCHANGED <<data, live, readers, pool, key, node, cur, prev, nxt, bounds>>
  PROVE  ListInv'
  <1> DEFINE t == Cut(s, i)
             N == Elems(s)
  <1>1. s \in Seq(Nodes) /\ Once(s) /\ TypeInv /\ pool = <<>> /\ Elems(pool) = {} /\ InHand = {} /\ live = N
    BY NoElems DEF Good, Chained, LiveInv, InHand, Removing
  <1>2. cur \in N /\ cur \in Nodes
    BY <1>1, ElemsFacts
  <1>3. Elems(t) = N \ {cur}
    BY <1>1, CutFacts
  <1> HIDE DEF t
  <1>4. DataInv(N \ {cur})'
    BY <1>2, DataRemoved DEF Good
  <1>5. TypeInv'
    BY <1>1 DEF TypeInv, bounds, Removing, Labels
  <1>6. InHand' = {cur}
    BY <1>2 DEF InHand
  <1>7. LiveInv(N \ {cur})'
    BY <1>1, <1>2, <1>6 DEF LiveInv
  <1>8. IteratorInv(N \ {cur})' /\ CallInv(t)'
    BY <1>2 DEF Good, IteratorInv, CallInv, bounds, Removing
  <1>9. Good(t)'
    BY <1>3, <1>4, <1>5, <1>7, <1>8 DEF Good, t
  <1> QED
    BY <1>9, GoodIs

\* The head is taken out: nobody has moved it since it was read.
LEMMA UnlinkHeadInv ==
  ASSUME NEW s, Good(s), UnlinkHead
  PROVE  ListInv'
  <1>1. /\ pc = "unlink_head" /\ cur = head /\ cur # Null /\ nxt = next[cur] /\ data[cur] = key
        /\ TypeInv /\ s \in Seq(Nodes) /\ Chained(s) /\ Len(s) \in Nat
    BY DEF Good, UnlinkHead, CallInv, Chained
  <1>2. 1 \in 1..Len(s) /\ cur = s[1]
    <2>1. At(s, 1) # Null
      BY <1>1 DEF Chained
    <2> QED
      BY <1>1, <2>1 DEF Chained, At
  <1>3. head' = next[s[1]] /\ next' = next /\ present' = present \ {key} /\ pc' = "retire" /\ UNCHANGED cur
    BY <1>1, <1>2 DEF UnlinkHead
  <1>4. next \in [Nodes -> Nodes \cup {Null}]
    BY <1>1 DEF TypeInv
  <1>5. Chained(Cut(s, 1))'
    BY <1>1, <1>2, <1>3, <1>4, CutChained
  <1> QED
    BY <1>1, <1>2, <1>3, <1>4, <1>5, TakenOut DEF UnlinkHead, Removing

\* The cursor of remove goes from one node of the list to the next.
LEMMA WalkInv ==
  ASSUME NEW s, Good(s), Walk
  PROVE  Good(s)'
  <1>1. /\ Chained(s)' /\ DataInv(Elems(s))' /\ LiveInv(Elems(s))' /\ InHand = {}
        /\ UNCHANGED <<head, next, data, live, readers, pool, removers, pushes, present>>
    BY LocalStep DEF Walk, Return
  <1>2. /\ pc = "walk" /\ "handler" \notin removers /\ pool = <<>> /\ readers = 0
        /\ s \in Seq(Nodes) /\ Len(s) \in Nat /\ TypeInv
    BY DEF Good, Walk, CallInv, LiveInv, TypeInv, Removing, Chained
  <1>3. PICK i \in 1..Len(s) + 1 : CursorAt(s, i)
    BY <1>2 DEF Good, CallInv
  <1>4. live = Elems(s)
    BY <1>1, <1>2, NoElems DEF Good, LiveInv
  <1>5. i \in Nat /\ (cur # Null => i \in 1..Len(s) /\ cur = s[i] /\ cur \in Nodes)
    BY <1>2, <1>3 DEF CursorAt, At
  <1>6. CASE cur = Null
    <2>1. Return
      BY <1>6 DEF Walk
    <2> QED
      BY <1>1, <1>2, <1>4, <2>1, Returned DEF Good
  <1>7. CASE cur # Null /\ data[cur] = key
    <2>1. nxt' = next[cur] /\ pc' = "unlink" /\ UNCHANGED <<key, node, cur, prev>>
      BY <1>7 DEF Walk
    <2>2. TypeInv'
      BY <1>1, <1>2, <1>5, <1>7, <2>1 DEF TypeInv, Labels
    <2>3. CursorAt(s, i)'
      BY <1>1, <1>3, <2>1 DEF CursorAt
    <2>4. IteratorInv(Elems(s))' /\ CallInv(s)'
      BY <1>1, <1>2, <1>5, <1>7, <2>1, <2>3 DEF IteratorInv, CallInv, Removing
    <2> QED
      BY <1>1, <2>2, <2>4 DEF Good
  <1>8. CASE cur # Null /\ data[cur] # key
    <2>1. prev' = cur /\ cur' = next[cur] /\ UNCHANGED <<pc, key, node, nxt>>
      BY <1>8 DEF Walk
    <2>2. i + 1 \in 1..Len(s) + 1 /\ (i + 1) - 1 = i /\ i \in 1..Len(s) /\ cur = s[i]
      BY <1>2, <1>5, <1>8
    <2>3. cur' = At(s, i + 1) /\ prev' = At(s, i)
      BY <2>1, <2>2 DEF Good, Chained, At
    <2>4. \A j \in 1..Len(s) : j < i + 1 => data'[s[j]] # key'
      <3> TAKE j \in 1..Len(s)
      <3>1. j < i + 1 => j < i \/ j = i
        BY <1>5
      <3> QED
        BY <1>1, <1>3, <1>8, <2>1, <2>2, <3>1 DEF CursorAt
    <2>5. CursorAt(s, i + 1)'
      BY <2>2, <2>3, <2>4 DEF CursorAt
    <2>6. TypeInv'
      BY <1>1, <1>2, <1>5, <1>8, <2>1 DEF TypeInv
    <2>7. IteratorInv(Elems(s))' /\ CallInv(s)'
      BY <1>1, <1>2, <2>1, <2>2, <2>5 DEF IteratorInv, CallInv, Removing
    <2> QED
      BY <1>1, <2>6, <2>7 DEF Good
  <1> QED
    BY <1>6, <1>7, <1>8

\* The node at the cursor is taken out: the link before it still leads to it.
LEMMA UnlinkInv ==
  ASSUME NEW s, Good(s), Unlink
  PROVE  ListInv'
  <1>1. pc = "unlink" /\ TypeInv /\ s \in Seq(Nodes) /\ Chained(s) /\ Len(s) \in Nat
    BY DEF Good, Unlink, Chained
  <1>2. PICK i \in 1..Len(s) : CursorAt(s, i) /\ nxt = next[cur] /\ data[cur] = key
    BY <1>1 DEF Good, CallInv
  <1>3. cur = s[i] /\ i \in Nat
    BY <1>1, <1>2 DEF CursorAt, At
  <1>4. next \in [Nodes -> Nodes \cup {Null}] /\ \A j \in 1..Len(s) : s[j] \in Nodes /\ s[j] # Null
    BY <1>1, NullAssumption DEF TypeInv
  <1>5. CASE i = 1
    <2>1. prev = Null
      BY <1>1, <1>2, <1>5 DEF CursorAt, At
    <2>2. head = cur
      BY <1>1, <1>3, <1>5 DEF Chained, At
    <2>3. head' = nxt /\ next' = next /\ present' = present \ {key} /\ pc' = "retire" /\ UNCHANGED cur
      BY <2>1, <2>2 DEF Unlink, Link
    <2>4. Chained(Cut(s, i))'
      BY <1>1, <1>2, <1>3, <1>4, <1>5, <2>3, CutChained
    <2> QED
      BY <1>1, <1>2, <1>3, <1>4, <2>3, <2>4, TakenOut DEF Unlink, Removing
  <1>6. CASE i # 1
    <2>1. i - 1 \in 1..Len(s) /\ (i - 1) + 1 = i
      BY <1>1, <1>3, <1>6
    <2>2. prev = s[i - 1] /\ prev # Null /\ prev \in Nodes
      BY <1>2, <1>4, <2>1 DEF CursorAt, At
    <2>3. next[prev] = cur
      BY <1>1, <1>3, <2>1, <2>2 DEF Chained, At
    <2>4. /\ head' = head /\ next' = [next EXCEPT ![prev] = nxt] /\ present' = present \ {key}
          /\ pc' = "retire" /\ UNCHANGED cur
      BY <2>2, <2>3 DEF Unlink, Link
    <2>5. nxt \in Nodes \cup {Null}
      BY <1>1 DEF TypeInv
    <2>6. next' \in [Nodes -> Nodes \cup {Null}]
      BY <1>4, <2>4, <2>5
    <2>7. Chained(Cut(s, i))'
      BY <1>1, <1>2, <1>3, <1>4, <1>6, <2>2, <2>4, CutChained
    <2> QED
      BY <1>1, <1>2, <1>3, <2>4, <2>6, <2>7, TakenOut DEF Unlink, Removing
  <1> QED
    BY <1>5, <1>6

\* The removed node is freed, as the executor is the only one that reads.
LEMMA RetireRemovedInv ==
  ASSUME NEW s, Good(s), RetireRemoved
  PROVE  Good(s)'
  <1>1. /\ pc = "retire" /\ cur \in Nodes /\ pool = <<>> /\ Elems(pool) = {} /\ readers = 0 /\ InHand = {cur}
        /\ TypeInv /\ LiveInv(Elems(s)) /\ Return /\ Retire(cur)
        /\ UNCHANGED <<head, next, data, readers, removers, pushes, present>>
    BY NoElems DEF Good, RetireRemoved, CallInv, LiveInv, TypeInv, InHand, bounds
  <1>2. live' = Elems(s) /\ pool' = <<>>
    BY <1>1 DEF Retire, LiveInv
  <1>3. TypeInv' /\ LiveInv(Elems(s))' /\ IteratorInv(Elems(s))' /\ CallInv(s)'
    BY <1>1, <1>2, Returned
  <1>4. Chained(s)' /\ DataInv(Elems(s))'
    BY <1>1, SameChain DEF Good, DataInv
  <1> QED
    BY <1>3, <1>4 DEF Good

-----------------------------------------------------------------------------
\* Iterators.

\* An iterator goes along links of the list and of what was taken out.
LEMMA IterInv ==
  ASSUME NEW s, Good(s), Iter \/ IterHead \/ IterNext
  PROVE  Good(s)'
  <1> DEFINE N == Elems(s)
  <1>1. /\ pc \in {"idle", "iter", "reading"} /\ pc' \in {"iter", "reading"} /\ InHand = {} /\ InHand' = {}
        /\ UNCHANGED <<head, next, data, live, pool, key, node, prev, nxt, removers, pushes, present>>
    BY DEF Iter, IterHead, IterNext, list, locals, bounds, InHand
  <1>2. Chained(s) /\ TypeInv /\ s \in Seq(Nodes) /\ N \subseteq Nodes /\ Elems(pool) \subseteq Nodes
    BY ElemsFacts DEF Good, Chained, TypeInv
  <1>3. Chained(s)' /\ DataInv(N)'
    BY <1>1, SameChain DEF Good, DataInv
  <1>4. LiveInv(N)'
    BY <1>1 DEF Good, LiveInv
  <1>5. pc = "idle" => Elems(pool) = {}
    BY NoElems DEF Good, LiveInv
  <1>6. \A n \in Elems(pool) : next[n] \in N \cup Elems(pool) \cup {Null}
    BY <1>1, <1>5 DEF Good, IteratorInv
  <1>7. pc' = "reading" => cur' \in N \cup Elems(pool) \cup {Null}
    BY <1>2, <1>6, LinksInside DEF Iter, IterHead, IterNext, Good, IteratorInv
  <1>8. cur' \in Nodes \cup {Null}
    <2>1. CASE Iter
      BY <1>2, <2>1 DEF Iter, locals, TypeInv
    <2>2. CASE IterHead \/ IterNext
      <3>1. pc' = "reading"
        BY <2>2 DEF IterHead, IterNext
      <3> QED
        BY <1>2, <1>7, <3>1
    <2> QED
      BY <2>1, <2>2
  <1>9. TypeInv'
    <2>1. readers' = 1
      BY <1>2 DEF TypeInv, Iter, IterHead, IterNext, list
    <2> QED
      BY <1>1, <1>2, <1>8, <2>1 DEF TypeInv, Labels
  <1>10. IteratorInv(N)' /\ CallInv(s)'
    BY <1>1, <1>6, <1>7 DEF IteratorInv, CallInv, Removing
  <1> QED
    BY <1>3, <1>4, <1>9, <1>10 DEF Good

\* The first cell of the pool, if there is one.
LEMMA PoolHeadIs ==
  ASSUME TypeInv
  PROVE  /\ PoolHead \in Nodes \cup {Null} /\ (PoolHead = Null <=> pool = <<>>)
         /\ pool # <<>> => PoolHead = Head(pool)
  <1>1. pool # <<>> => Head(pool) \in Nodes
    BY PoolTail DEF TypeInv
  <1> QED
    BY <1>1, NullAssumption DEF PoolHead

\* The iterator is counted out, and free_pool begins.
LEMMA DropInv ==
  ASSUME NEW s, Good(s), IterDrop \/ FreePool
  PROVE  Good(s)'
  <1> DEFINE N == Elems(s)
  <1>1. TypeInv /\ (IterDrop => readers = 1) /\ (FreePool => readers = 0)
    BY DEF Good, TypeInv, IterDrop, FreePool
  <1>2. /\ pc \in {"reading", "pool"} /\ pc' = (IF pc = "reading" THEN "pool" ELSE "free")
        /\ cur' = (IF pc = "reading" THEN Null ELSE PoolHead) /\ readers' = 0
        /\ UNCHANGED <<head, next, data, live, pool, key, node, prev, nxt, removers, pushes, present>>
    BY <1>1 DEF IterDrop, FreePool, list, bounds
  <1>3. InHand = {} /\ InHand' = {}
    BY <1>2 DEF InHand
  <1>4. Chained(s)' /\ DataInv(N)'
    BY <1>2, SameChain DEF Good, DataInv
  <1>5. LiveInv(N)'
    BY <1>2, <1>3 DEF Good, LiveInv
  <1>6. TypeInv'
    BY <1>1, <1>2, PoolHeadIs DEF TypeInv, Labels
  <1>7. IteratorInv(N)' /\ CallInv(s)'
    BY <1>1, <1>2, PoolHeadIs DEF IteratorInv, CallInv, Removing
  <1> QED
    BY <1>4, <1>5, <1>6, <1>7 DEF Good

\* A turn of the loop of free_pool: a cell is freed when it leaves the pool.
LEMMA FreeOneInv ==
  ASSUME NEW s, Good(s), FreeOne
  PROVE  Good(s)'
  <1> DEFINE N == Elems(s)
  <1>1. /\ pc = "free" /\ TypeInv /\ InHand = {} /\ readers = 0 /\ cur \in Nodes \cup {Null}
        /\ live = N \cup Elems(pool) /\ N \cap Elems(pool) = {} /\ (cur = Null => pool = <<>>)
        /\ UNCHANGED <<head, next, data, readers, removers, pushes, present>>
    BY DEF Good, FreeOne, TypeInv, InHand, LiveInv, IteratorInv, bounds
  <1>2. Chained(s)' /\ DataInv(N)'
    BY <1>1, SameChain DEF Good, DataInv
  <1>3. CASE cur = Null
    <2>1. Return /\ pool' = <<>> /\ live' = N
      BY <1>1, <1>3, NoElems DEF FreeOne
    <2> QED
      BY <1>1, <1>2, <2>1, Returned DEF Good
  <1>4. CASE cur # Null /\ PoolHead = cur
    <2>1. pool' = Tail(pool) /\ live' = live \ {cur} /\ UNCHANGED <<pc, key, node, cur, prev, nxt>>
      BY <1>4 DEF FreeOne, locals
    <2>2. pool # <<>> /\ cur = Head(pool)
      BY <1>1, <1>4, PoolHeadIs
    <2>3. pool' \in Seq(Nodes) /\ Once(pool)' /\ Elems(pool)' = Elems(pool) \ {cur} /\ cur \in Elems(pool)
      <3>1. /\ Tail(pool) \in Seq(Nodes) /\ Once(Tail(pool)) /\ Elems(Tail(pool)) = Elems(pool) \ {cur}
            /\ cur \in Elems(pool)
        BY <1>1, <2>2, PoolTail DEF TypeInv
      <3> QED
        BY <2>1, <3>1
    <2>4. InHand' = {}
      BY <1>1, <2>1 DEF InHand
    <2>5. TypeInv'
      BY <1>1, <2>1, <2>3 DEF TypeInv
    <2>6. LiveInv(N)'
      BY <1>1, <2>1, <2>3, <2>4 DEF LiveInv
    <2>7. IteratorInv(N)' /\ CallInv(s)'
      BY <1>1, <1>4, <2>1 DEF IteratorInv, CallInv, Removing
    <2> QED
      BY <1>2, <2>5, <2>6, <2>7 DEF Good
  <1>5. CASE cur # Null /\ PoolHead # cur
    <2>1. cur' = PoolHead /\ UNCHANGED <<pool, live, pc, key, node, prev, nxt>>
      BY <1>5 DEF FreeOne
    <2>2. InHand' = {}
      BY <1>1, <2>1 DEF InHand
    <2>3. TypeInv'
      BY <1>1, <2>1, PoolHeadIs DEF TypeInv
    <2>4. LiveInv(N)'
      BY <1>1, <2>1, <2>2 DEF LiveInv, Good
    <2>5. IteratorInv(N)' /\ CallInv(s)'
      BY <1>1, <2>1, PoolHeadIs DEF IteratorInv, CallInv, Removing
    <2> QED
      BY <1>2, <2>3, <2>4, <2>5 DEF Good
  <1> QED
    BY <1>3, <1>4, <1>5

-----------------------------------------------------------------------------
\* Handlers.

\* A handler removes an element: the node is freed, or put in the pool while
\* the executor reads.  The nodes of the pool still lead to the list or the pool.
LEMMA HandlerRemoveInv ==
  ASSUME NEW s, Good(s), NEW k \in Keys, HandlerRemove(k)
  PROVE  ListInv'
  <1> DEFINE N == Elems(s)
  <1>1. Chained(s) /\ s \in Seq(Nodes) /\ Once(s) /\ TypeInv /\ Len(s) \in Nat /\ Linked = N
    BY LinkedIsElems DEF Good, Chained
  <1>2. PICK n \in N :
          /\ data[n] = k
          /\ IF n = head THEN head' = next[n] /\ UNCHANGED next
             ELSE \E m \in N : next[m] = n /\ next' = [next EXCEPT ![m] = next[n]] /\ UNCHANGED head
          /\ Retire(n)
    BY <1>1 DEF HandlerRemove
  <1>3. PICK i \in 1..Len(s) : s[i] = n
    BY <1>1, ElemsFacts
  <1>4. /\ "handler" \in removers /\ pc \notin Removing /\ present' = present \ {data[n]}
        /\ UNCHANGED <<data, readers, pc, key, node, cur, prev, nxt, removers, pushes>>
    BY <1>2 DEF HandlerRemove, Good, CallInv, locals, bounds
  <1>5. n \in Nodes /\ n # Null /\ next[n] \in Nodes \cup {Null} /\ next \in [Nodes -> Nodes \cup {Null}] /\ N \subseteq Nodes
    BY <1>1, ElemsFacts, NullAssumption DEF TypeInv
  <1>6. /\ i = 1 => head' = next[s[1]] /\ next' = next
        /\ i # 1 => head' = head /\ next' = [next EXCEPT ![s[i - 1]] = next[s[i]]]
    <2>1. n = head <=> i = 1
      <3>1. 1 \in 1..Len(s) /\ head = s[1]
        BY <1>1 DEF Chained, At
      <3> QED
        BY <1>1, <1>3, <3>1 DEF Once
    <2>2. CASE n = head
      BY <1>2, <1>3, <2>1, <2>2
    <2>3. CASE n # head
      <3>1. PICK m \in N : next[m] = n /\ next' = [next EXCEPT ![m] = next[n]] /\ head' = head
        BY <1>2, <2>3
      <3>2. PICK j \in 1..Len(s) : s[j] = m
        BY <1>1, ElemsFacts
      <3>3. At(s, j + 1) = n
        BY <1>1, <3>1, <3>2 DEF Chained
      <3>4. j + 1 \in 1..Len(s) /\ s[j + 1] = s[i]
        BY <1>3, <1>5, <3>3 DEF At
      <3>5. j + 1 = i
        BY <1>1, <3>4 DEF Once
      <3>6. i - 1 = j
        BY <1>1, <3>5
      <3> QED
        BY <1>3, <2>1, <2>3, <3>1, <3>2, <3>6
    <2> QED
      BY <2>2, <2>3
  <1>7. next' \in [Nodes -> Nodes \cup {Null}] /\ \A m \in Nodes : m \notin N => next'[m] = next[m]
    <2>1. i # 1 => i - 1 \in 1..Len(s)
      BY <1>1
    <2>2. i # 1 => s[i - 1] \in N /\ next[s[i]] \in Nodes \cup {Null}
      BY <1>1, <1>3, <1>5, <2>1, ElemsFacts
    <2> QED
      BY <1>5, <1>6, <2>2
  <1> DEFINE t == Cut(s, i)
  <1>8. Chained(t)' /\ Elems(t) = N \ {n}
    BY <1>1, <1>3, <1>5, <1>6, CutChained, CutFacts
  <1> HIDE DEF t
  <1>9. DataInv(N \ {n})'
    BY <1>4, DataRemoved DEF Good
  <1>10. InHand' = InHand
    BY <1>4 DEF InHand
  <1>11. CallInv(t)'
    BY <1>4 DEF Good, CallInv, Removing
  <1>12. /\ live = N \cup Elems(pool) \cup InHand /\ N \cap Elems(pool) = {} /\ InHand \cap (N \cup Elems(pool)) = {}
         /\ (pc \notin {"iter", "reading", "pool", "free"} => pool = <<>>) /\ pool \in Seq(Nodes) /\ Once(pool)
    BY DEF Good, LiveInv, TypeInv
  <1>13. CASE readers = 0
    <2>1. live' = live \ {n} /\ pool' = pool /\ pc \notin {"iter", "reading"}
      BY <1>1, <1>2, <1>13 DEF Retire, TypeInv
    <2>2. TypeInv'
      BY <1>1, <1>4, <1>7, <2>1 DEF TypeInv
    <2>3. LiveInv(N \ {n})'
      BY <1>4, <1>10, <1>12, <2>1 DEF LiveInv
    <2>4. IteratorInv(N \ {n})'
      BY <1>4, <2>1 DEF Good, IteratorInv
    <2>5. Good(t)'
      BY <1>8, <1>9, <1>11, <2>2, <2>3, <2>4 DEF Good
    <2> QED
      BY <2>5, GoodIs
  <1>14. CASE readers # 0
    <2>1. live' = live /\ pool' = <<n>> \o pool /\ pc \in {"iter", "reading"}
      BY <1>1, <1>2, <1>14 DEF Retire, TypeInv
    <2>2. pool' \in Seq(Nodes) /\ Once(pool)' /\ Elems(pool)' = Elems(pool) \cup {n}
      <3>1. n \notin Elems(pool)
        BY <1>12
      <3>2. <<n>> \o pool \in Seq(Nodes) /\ Once(<<n>> \o pool) /\ Elems(<<n>> \o pool) = Elems(pool) \cup {n}
        BY <1>5, <1>12, <3>1, PoolPush
      <3> QED
        BY <2>1, <3>2
    <2>3. TypeInv'
      BY <1>1, <1>4, <1>7, <2>2 DEF TypeInv
    <2>4. LiveInv(N \ {n})'
      BY <1>4, <1>10, <1>12, <2>1, <2>2 DEF LiveInv
    <2>5. IteratorInv(N \ {n})'
      <3>1. /\ \A m \in Elems(pool) : next[m] \in N \cup Elems(pool) \cup {Null}
            /\ pc = "reading" => cur \in N \cup Elems(pool) \cup {Null}
        BY <2>1 DEF Good, IteratorInv
      <3>2. Elems(pool) \subseteq Nodes
        BY <1>12, ElemsFacts
      <3>3. \A m \in Elems(pool) : next'[m] = next[m]
        BY <1>7, <1>12, <3>2
      <3>4. next'[n] \in N \cup {Null}
        <4>1. next'[n] = next[n]
          <5>1. i # 1 => i - 1 \in 1..Len(s) /\ i - 1 # i
            BY <1>1
          <5>2. i # 1 => s[i - 1] # n
            BY <1>1, <1>3, <5>1 DEF Once
          <5> QED
            BY <1>5, <1>6, <5>2
        <4> QED
          BY <1>1, <4>1, LinksInside
      <3> QED
        BY <1>4, <2>1, <2>2, <3>1, <3>3, <3>4 DEF IteratorInv
    <2>6. Good(t)'
      BY <1>8, <1>9, <1>11, <2>3, <2>4, <2>5 DEF Good
    <2> QED
      BY <2>6, GoodIs
  <1> QED
    BY <1>13, <1>14

\* An iterator of a handler frees a pool that nobody reads from.
LEMMA HandlerIterInv ==
  ASSUME NEW s, Good(s), HandlerIter
  PROVE  Good(s)'
  <1> DEFINE N == Elems(s)
  <1>1. /\ pc \in {"pool", "free"} /\ TypeInv /\ pool' = <<>> /\ live' = live \ Elems(pool)
        /\ UNCHANGED <<head, next, data, readers, pc, key, node, cur, prev, nxt, removers, pushes, present>>
    <2>1. readers = 0 /\ pool # <<>> /\ TypeInv
      BY DEF Good, HandlerIter
    <2>2. pc \in {"iter", "reading", "pool", "free"} /\ pc \notin {"iter", "reading"}
      BY <2>1 DEF Good, LiveInv, TypeInv
    <2> QED
      BY <2>1, <2>2 DEF HandlerIter, Elems, locals, bounds
  <1>2. InHand = {} /\ InHand' = {}
    BY <1>1 DEF InHand
  <1>3. Chained(s)' /\ DataInv(N)'
    BY <1>1, SameChain DEF Good, DataInv
  <1>4. TypeInv'
    BY <1>1, NoElems DEF TypeInv
  <1>5. LiveInv(N)'
    BY <1>1, <1>2, NoElems DEF Good, LiveInv
  <1>6. IteratorInv(N)' /\ CallInv(s)'
    BY <1>1 DEF IteratorInv, CallInv, Removing
  <1> QED
    BY <1>3, <1>4, <1>5, <1>6 DEF Good

-----------------------------------------------------------------------------
\* The theorems.

\* A step that changes nothing.
LEMMA StutterInv ==
  ASSUME NEW s, Good(s), UNCHANGED listVars
  PROVE  Good(s)'
  <1>1. UNCHANGED <<head, next, data, live, readers, pool, pc, key, node, cur, prev, nxt, removers, pushes, present>>
    BY DEF listVars, list, locals, bounds
  <1>2. InHand' = InHand
    BY <1>1 DEF InHand
  <1>3. Chained(s)' /\ TypeInv' /\ DataInv(Elems(s))'
    BY <1>1, SameChain DEF Good, TypeInv, DataInv
  <1>4. LiveInv(Elems(s))' /\ IteratorInv(Elems(s))'
    BY <1>1, <1>2 DEF Good, LiveInv, IteratorInv
  <1>5. \A i : CursorAt(s, i)' <=> CursorAt(s, i)
    BY <1>1 DEF CursorAt
  <1>6. CallInv(s)'
    BY <1>1, <1>5 DEF Good, CallInv
  <1> QED
    BY <1>3, <1>4, <1>6 DEF Good

\* Every step of the executor and of handlers keeps the invariant.
LEMMA ListNextInv == ASSUME OneRemover, ListInv, [ListNext]_listVars PROVE ListInv'
  <1> PICK s \in Seq(Nodes) : Good(s)
    BY DEF ListInv
  <1>1. CASE \E k \in Keys : Push(k) \/ StartRemove(k) \/ HandlerRemove(k)
    BY <1>1, PushInv, RemoveInv, HandlerRemoveInv, GoodIs
  <1>2. CASE PushCas
    BY <1>2, PushCasInv
  <1>3. CASE RemoveStep
    BY <1>3, AtHeadInv, UnlinkHeadInv, WalkInv, UnlinkInv, RetireRemovedInv, GoodIs DEF RemoveStep
  <1>4. CASE Iter \/ IterHead \/ IterNext
    BY <1>4, IterInv, GoodIs
  <1>5. CASE IterDrop \/ FreePool
    BY <1>5, DropInv, GoodIs
  <1>6. CASE FreeOne
    BY <1>6, FreeOneInv, GoodIs
  <1>7. CASE HandlerIter
    BY <1>7, HandlerIterInv, GoodIs
  <1>8. CASE UNCHANGED listVars
    BY <1>8, StutterInv, GoodIs
  <1> QED
    BY <1>1, <1>2, <1>3, <1>4, <1>5, <1>6, <1>7, <1>8 DEF ListNext

\* The invariant holds in every reachable state.
LEMMA ListInductive == ASSUME OneRemover PROVE ListSpec => []ListInv
  <1>1. ListInit => ListInv
    BY ListInitInv
  <1>2. ListInv /\ [ListNext]_listVars => ListInv'
    BY ListNextInv
  <1> QED
    BY <1>1, <1>2, PTL DEF ListSpec

\* The invariant gives the types.
LEMMA TypeFollows == ASSUME ListInv PROVE ListTypeOK
  <1>1. PICK s \in Seq(Nodes) : Good(s)
    BY DEF ListInv
  <1>2. Elems(s) \subseteq Nodes /\ Elems(pool) \subseteq Nodes /\ InHand \subseteq Nodes
    BY <1>1, ElemsFacts DEF Good, TypeInv, InHand
  <1>3. head \in Nodes \cup {Null} /\ live \subseteq Nodes /\ present \subseteq Keys
    BY <1>1, <1>2, LinksInside DEF Good, LiveInv, DataInv
  <1>4. readers \in 0..1
    BY <1>1 DEF Good, TypeInv
  <1> QED
    BY <1>1, <1>3, <1>4 DEF Good, TypeInv, ListTypeOK

\* The invariant puts every cursor on a node of the list or of the pool.
LEMMA LiveFollows == ASSUME ListInv PROVE TraversalsAreLive
  <1>1. PICK s \in Seq(Nodes) : Good(s)
    BY DEF ListInv
  <1>2. Chained(s) /\ s \in Seq(Nodes) /\ Len(s) \in Nat /\ Elems(s) \subseteq live /\ Elems(pool) \subseteq live
    BY <1>1 DEF Good, LiveInv, Chained
  <1>3. pc \in {"at_head", "reading"} => cur \in live \cup {Null}
    BY <1>1, <1>2, LinksInside DEF Good, CallInv, IteratorInv
  <1>4. pc = "walk" => cur \in live \cup {Null}
    <2> SUFFICES ASSUME pc = "walk" PROVE cur \in live \cup {Null}
      OBVIOUS
    <2>1. PICK i \in 1..Len(s) + 1 : CursorAt(s, i)
      BY <1>1 DEF Good, CallInv
    <2>2. i \in Nat
      BY <1>2
    <2> QED
      BY <1>2, <2>1, <2>2, ElemsFacts DEF CursorAt
  <1>5. pc = "unlink" => prev \in live \cup {Null}
    <2> SUFFICES ASSUME pc = "unlink" PROVE prev \in live \cup {Null}
      OBVIOUS
    <2>1. PICK i \in 1..Len(s) : CursorAt(s, i)
      BY <1>1 DEF Good, CallInv
    <2>2. i - 1 \in Nat
      BY <1>2
    <2> QED
      BY <1>2, <2>1, <2>2, ElemsFacts DEF CursorAt
  <1> QED
    BY <1>3, <1>4, <1>5 DEF TraversalsAreLive

\* The invariant gives the elements of the list, one node for each.
LEMMA ExactFollows == ASSUME ListInv PROVE ListIsExact
  <1>1. PICK s \in Seq(Nodes) : Good(s)
    BY DEF ListInv
  <1> DEFINE N == Elems(s)
  <1>2. Chained(s) /\ s \in Seq(Nodes) /\ Len(s) \in Nat /\ Linked = N /\ N \subseteq live /\ N \subseteq Nodes
    BY <1>1, LinkedIsElems, ElemsFacts DEF Good, LiveInv, Chained
  <1>3. DataInv(N)
    BY <1>1 DEF Good
  <1>4. Cardinality(N) = Cardinality(present)
    <2> DEFINE f == [n \in N |-> data[n]]
    <2>1. f \in [N -> present] /\ \A n \in N : f[n] = data[n]
      BY <1>3 DEF DataInv
    <2>2. \A m, n \in N : f[m] = f[n] => m = n
      BY <1>3, <2>1 DEF DataInv
    <2>3. \A x \in present : \E n \in N : f[n] = x
      BY <1>3, <2>1 DEF DataInv
    <2> HIDE DEF f
    <2>4. f \in Bijection(N, present)
      BY <2>1, <2>2, <2>3 DEF Bijection, Injection, IsInjective, Surjection
    <2>5. IsFiniteSet(N)
      BY <1>2, NodesAssumption, FS_Subset
    <2>6. ExistsBijection(N, present)
      BY <2>4 DEF ExistsBijection
    <2> QED
      BY <2>5, <2>6, FS_Bijection
  <1>5. ASSUME pc \in {"at_head", "walk"}, cur = Null PROVE key \notin present
    <2>1. \A j \in 1..Len(s) : data[s[j]] # key
      <3>1. CASE pc = "at_head"
        <4>1. head = Null
          BY <1>1, <1>5, <3>1 DEF Good, CallInv
        <4>2. Len(s) = 0
          BY <1>2, <4>1, LinksInside
        <4> QED
          BY <4>2
      <3>2. CASE pc = "walk"
        <4>1. PICK i \in 1..Len(s) + 1 : CursorAt(s, i)
          BY <1>1, <3>2 DEF Good, CallInv
        <4>2. i \notin 1..Len(s)
          BY <1>2, <1>5, <4>1, ElemsFacts DEF CursorAt
        <4>3. \A j \in 1..Len(s) : j < i
          BY <1>2, <4>2
        <4> QED
          BY <4>1, <4>3 DEF CursorAt
      <3> QED
        BY <1>5, <3>1, <3>2
    <2> QED
      BY <1>3, <2>1 DEF DataInv, Elems
  <1> QED
    BY <1>2, <1>3, <1>4, <1>5 DEF ListIsExact, DataInv

\* Between calls the executor has nothing in its hands and the pool is empty.
LEMMA DrainFollows == ASSUME ListInv PROVE PoolDrains
  <1>1. PICK s \in Seq(Nodes) : Good(s)
    BY DEF ListInv
  <1>2. Linked = Elems(s)
    BY <1>1, LinkedIsElems DEF Good
  <1>3. pc = "idle" => InHand = {} /\ pool = <<>> /\ Elems(pool) = {}
    BY <1>1, NoElems DEF Good, LiveInv, InHand
  <1> QED
    BY <1>1, <1>2, <1>3 DEF Good, LiveInv, PoolDrains

\* The types of the list and of the executor's locals: at most one reader is
\* counted, and iter, drop and free_pool leave the pool a list of nodes.
THEOREM ListTypeCorrect == ASSUME OneRemover PROVE ListSpec => []ListTypeOK
  <1>1. ListInv => ListTypeOK
    BY TypeFollows
  <1> QED
    BY <1>1, ListInductive, PTL

\* A lock-free list of any size that one context removes from: whatever is
\* pushed, removed and freed between two steps of iter or remove, they look
\* only at nodes that are allocated.
THEOREM TraversalsLive == ASSUME OneRemover PROVE ListSpec => []TraversalsAreLive
  <1>1. ListInv => TraversalsAreLive
    BY LiveFollows
  <1> QED
    BY <1>1, ListInductive, PTL

\* push and remove lose no element and double none, and a remove that finds
\* nothing is right.
THEOREM ListExact == ASSUME OneRemover PROVE ListSpec => []ListIsExact
  <1>1. ListInv => ListIsExact
    BY ExactFollows
  <1> QED
    BY <1>1, ListInductive, PTL

\* Every node that was taken out under a reader has been freed when the call
\* of the executor that was the reader has returned.
THEOREM NothingLeaks == ASSUME OneRemover PROVE ListSpec => []PoolDrains
  <1>1. ListInv => PoolDrains
    BY DrainFollows
  <1> QED
    BY <1>1, ListInductive, PTL
=============================================================================
