----------------------------- MODULE ArrayQueue -----------------------------
(***************************************************************************)
(* kapi/src/queue.rs: the lock-free ring that carries commands to the      *)
(* kernel and completions back, shared by user threads and the kernel.     *)
(*                                                                         *)
(* One action per access to shared memory.  The kernel is built for one    *)
(* core, so the accesses are sequentially consistent and the orderings of  *)
(* the source (Acquire, Release, Relaxed, fences) add nothing; the backoff *)
(* between retries only waits.                                             *)
(*                                                                         *)
(* A position (head, tail, stamp) is a usize: its low part is an index,    *)
(* the rest counts laps.  Laps is the number of laps a usize can hold      *)
(* (2^64 / one_lap in the code), so that counting laps wraps around.       *)
(***************************************************************************)
EXTENDS Naturals, Sequences, FiniteSets

CONSTANTS Posters, Pollers, \* the threads of control that use the queue
          Values,     \* the elements that are posted
          Nil,        \* no value: the argument of poll, an uninitialised slot
          Capacity,   \* Queue::capacity
          Laps,       \* how many laps fit in a usize
          Starts,     \* the positions at which the empty queue may be found
          MaxCalls,   \* bound on the number of calls
          MaxSpurious \* bound on spurious failures of compare_exchange_weak

ASSUME CapacityAssumption == Capacity \in Nat \ {0}
ASSUME LapsAssumption == Laps \in Nat \ {0}
ASSUME ProcsAssumption == IsFiniteSet(Posters) /\ IsFiniteSet(Pollers)
ASSUME ValuesAssumption == Nil \notin Values /\ "pending" \notin Values
ASSUME BoundsAssumption == MaxCalls \in Nat /\ MaxSpurious \in Nat

(***************************************************************************)
(* A counter that comes back to the same value while a call holds a copy   *)
(* of it would fool the compare-exchange.  The code has nothing against    *)
(* it but the width of a usize: fewer calls are made than it counts.       *)
(***************************************************************************)
ASSUME WidthAssumption == MaxCalls + Capacity < Laps * Capacity

Procs == Posters \cup Pollers

VARIABLES head, tail, \* Counters
          stamp,      \* Slot::stamp, per slot
          value,      \* Slot::value, per slot
          pc, arg, pos, res, \* each process: control, element posted,
                      \* its copy of tail or head, and its answer
          calls,      \* number of calls made so far
          spurious    \* number of spurious failures so far

vars == <<head, tail, stamp, value, pc, arg, pos, res, calls, spurious>>

-----------------------------------------------------------------------------
\* Positions.

\* (capacity + 1).next_power_of_two()
OneLap == CHOOSE n \in {2^k : k \in 0..(Capacity + 1)} :
            /\ n >= Capacity + 1
            /\ \A k \in 0..(Capacity + 1) : 2^k >= Capacity + 1 => n <= 2^k

\* next_power_of_two is at least its argument.
ASSUME OneLapAssumption == OneLap \in Nat /\ OneLap > Capacity

Usize == 0..(Laps * OneLap - 1)
Wrap(n) == n % (Laps * OneLap)
Slots == 0..(Capacity - 1)
Index(n) == n % OneLap
LapOf(n) == n - Index(n)

Positions == {n \in Usize : Index(n) < Capacity}

ASSUME StartsAssumption == Starts \subseteq Positions

\* Mutant of Advance: the comparison with the capacity is off by one.
AdvancePastEnd(n) ==
  IF Index(n) + 1 <= Capacity THEN n + 1 ELSE Wrap(LapOf(n) + OneLap)

\* new_tail and new in the loops: the next index, or index 0 of the next lap.
Advance(n) ==
  IF Index(n) + 1 < Capacity THEN n + 1 ELSE Wrap(LapOf(n) + OneLap)

-----------------------------------------------------------------------------
Goto(p, label) == pc' = [pc EXCEPT ![p] = label]

(***************************************************************************)
(* The queue at rest and empty.  initialize() leaves it at position 0; at  *)
(* position n, the slots below n's index have been used in n's lap.        *)
(***************************************************************************)
Init ==
  \E n \in Starts :
    /\ head = n /\ tail = n
    /\ stamp = [i \in Slots |->
                  IF i < Index(n) THEN Wrap(LapOf(n) + OneLap) + i ELSE LapOf(n) + i]
    /\ value = [i \in Slots |-> Nil]
    /\ pc = [p \in Procs |-> "idle"]
    /\ arg = [p \in Procs |-> Nil] /\ res = [p \in Procs |-> Nil]
    /\ pos = [p \in Procs |-> 0]
    /\ calls = 0 /\ spurious = 0

CallPost(p, v) ==
  /\ pc[p] = "idle" /\ calls < MaxCalls
  /\ calls' = calls + 1
  /\ arg' = [arg EXCEPT ![p] = v]
  /\ Goto(p, "post_load")
  /\ UNCHANGED <<head, tail, stamp, value, pos, res, spurious>>

CallPoll(p) ==
  /\ pc[p] = "idle" /\ calls < MaxCalls
  /\ calls' = calls + 1
  /\ Goto(p, "poll_load")
  /\ UNCHANGED <<head, tail, stamp, value, arg, pos, res, spurious>>

\* The call returns; the registers it used are dead.
Return(p) ==
  /\ pc[p] = "done"
  /\ Goto(p, "idle")
  /\ arg' = [arg EXCEPT ![p] = Nil] /\ res' = [res EXCEPT ![p] = Nil]
  /\ pos' = [pos EXCEPT ![p] = 0]
  /\ UNCHANGED <<head, tail, stamp, value, calls, spurious>>

\* compare_exchange_weak fails when the counter moved, or spuriously.
FailedCas(counter, expected) ==
  \/ counter # expected /\ UNCHANGED spurious
  \/ counter = expected /\ spurious < MaxSpurious /\ spurious' = spurious + 1

Finish(p, answer) == Goto(p, "done") /\ res' = [res EXCEPT ![p] = answer]

-----------------------------------------------------------------------------
\* post, with push_or_else.

PostLoadTail(p) ==
  /\ pc[p] = "post_load"
  /\ pos' = [pos EXCEPT ![p] = tail]
  /\ Goto(p, "post_stamp")
  /\ UNCHANGED <<head, tail, stamp, value, arg, res, calls, spurious>>

\* Mutant of PostBranch: the stamp is not looked at.
PostBranchAlwaysCas(t, s) == IF t \in Usize /\ s \in Usize THEN "post_cas" ELSE "post_load"

\* Where post goes after comparing its copy of tail with the slot's stamp.
PostBranch(t, s) ==
  IF t = s THEN "post_cas"
  ELSE IF Wrap(s + OneLap) = t + 1 THEN "post_full" ELSE "post_load"

PostLoadStamp(p) ==
  /\ pc[p] = "post_stamp"
  /\ Goto(p, PostBranch(pos[p], stamp[Index(pos[p])]))
  /\ UNCHANGED <<head, tail, stamp, value, arg, pos, res, calls, spurious>>

PostCasTail(p) ==
  /\ pc[p] = "post_cas" /\ tail = pos[p]
  /\ tail' = Advance(pos[p])
  /\ Goto(p, "post_write")
  /\ UNCHANGED <<head, stamp, value, arg, pos, res, calls, spurious>>

PostCasFail(p) ==
  /\ pc[p] = "post_cas"
  /\ FailedCas(tail, pos[p])
  /\ pos' = [pos EXCEPT ![p] = tail]
  /\ Goto(p, "post_stamp")
  /\ UNCHANGED <<head, tail, stamp, value, arg, res, calls>>

PostWrite(p) ==
  /\ pc[p] = "post_write"
  /\ value' = [value EXCEPT ![Index(pos[p])] = arg[p]]
  /\ Goto(p, "post_publish")
  /\ UNCHANGED <<head, tail, stamp, arg, pos, res, calls, spurious>>

PostPublish(p) ==
  /\ pc[p] = "post_publish"
  /\ stamp' = [stamp EXCEPT ![Index(pos[p])] = pos[p] + 1]
  /\ Finish(p, "ok")
  /\ UNCHANGED <<head, tail, value, arg, pos, calls, spurious>>

\* The slot still holds an element of the previous lap: full if head agrees.
PostCheckFull(p) ==
  /\ pc[p] = "post_full"
  /\ IF Wrap(head + OneLap) = pos[p]
     THEN Finish(p, "full")
     ELSE Goto(p, "post_load") /\ UNCHANGED res
  /\ UNCHANGED <<head, tail, stamp, value, arg, pos, calls, spurious>>

-----------------------------------------------------------------------------
\* poll.

PollLoadHead(p) ==
  /\ pc[p] = "poll_load"
  /\ pos' = [pos EXCEPT ![p] = head]
  /\ Goto(p, "poll_stamp")
  /\ UNCHANGED <<head, tail, stamp, value, arg, res, calls, spurious>>

PollBranch(h, s) ==
  IF h + 1 = s THEN "poll_cas"
  ELSE IF s = h THEN "poll_empty" ELSE "poll_load"

PollLoadStamp(p) ==
  /\ pc[p] = "poll_stamp"
  /\ Goto(p, PollBranch(pos[p], stamp[Index(pos[p])]))
  /\ UNCHANGED <<head, tail, stamp, value, arg, pos, res, calls, spurious>>

PollCasHead(p) ==
  /\ pc[p] = "poll_cas" /\ head = pos[p]
  /\ head' = Advance(pos[p])
  /\ Goto(p, "poll_read")
  /\ UNCHANGED <<tail, stamp, value, arg, pos, res, calls, spurious>>

PollCasFail(p) ==
  /\ pc[p] = "poll_cas"
  /\ FailedCas(head, pos[p])
  /\ pos' = [pos EXCEPT ![p] = head]
  /\ Goto(p, "poll_stamp")
  /\ UNCHANGED <<head, tail, stamp, value, arg, res, calls>>

PollRead(p) ==
  /\ pc[p] = "poll_read"
  /\ res' = [res EXCEPT ![p] = value[Index(pos[p])]]
  /\ Goto(p, "poll_release")
  /\ UNCHANGED <<head, tail, stamp, value, arg, pos, calls, spurious>>

\* Mutant of PollRelease: the slot is released for the lap that has passed.
PollReleaseSameLap(p) ==
  /\ pc[p] = "poll_release"
  /\ stamp' = [stamp EXCEPT ![Index(pos[p])] = pos[p]]
  /\ Goto(p, "done")
  /\ UNCHANGED <<head, tail, value, arg, pos, res, calls, spurious>>

\* The slot may be written in the next lap.
PollRelease(p) ==
  /\ pc[p] = "poll_release"
  /\ stamp' = [stamp EXCEPT ![Index(pos[p])] = Wrap(pos[p] + OneLap)]
  /\ Goto(p, "done")
  /\ UNCHANGED <<head, tail, value, arg, pos, res, calls, spurious>>

\* Mutant of PollCheckEmpty: a slot that is not published means empty.
PollCheckEmptyByStamp(p) ==
  /\ pc[p] = "poll_empty"
  /\ Finish(p, "empty")
  /\ UNCHANGED <<head, tail, stamp, value, arg, pos, calls, spurious>>

PollCheckEmpty(p) ==
  /\ pc[p] = "poll_empty"
  /\ IF tail = pos[p]
     THEN Finish(p, "empty")
     ELSE Goto(p, "poll_load") /\ UNCHANGED res
  /\ UNCHANGED <<head, tail, stamp, value, arg, pos, calls, spurious>>

-----------------------------------------------------------------------------
\* A step of a call in progress.
Step(p) ==
  \/ PostLoadTail(p) \/ PostLoadStamp(p) \/ PostCasTail(p) \/ PostCasFail(p)
  \/ PostWrite(p) \/ PostPublish(p) \/ PostCheckFull(p)
  \/ PollLoadHead(p) \/ PollLoadStamp(p) \/ PollCasHead(p) \/ PollCasFail(p)
  \/ PollRead(p) \/ PollRelease(p) \/ PollCheckEmpty(p)
  \/ Return(p)

Next ==
  \/ \E p \in Posters, v \in Values : CallPost(p, v)
  \/ \E p \in Pollers : CallPoll(p)
  \/ \E p \in Procs : Step(p)

Spec == Init /\ [][Next]_vars

\* Every process that is in a call keeps running.
Fairness == \A p \in Procs : WF_vars(Step(p))

-----------------------------------------------------------------------------
Labels ==
  {"idle", "done",
   "post_load", "post_stamp", "post_cas", "post_write", "post_publish", "post_full",
   "poll_load", "poll_stamp", "poll_cas", "poll_read", "poll_release", "poll_empty"}

(***************************************************************************)
(* Type invariant; its share in the code: the debug_assert that an index   *)
(* is below the capacity, and that tail + 1 and head + 1, which do not use *)
(* wrapping_add, never overflow a usize.                                   *)
(***************************************************************************)
TypeOK ==
  /\ head \in Positions /\ tail \in Positions
  /\ stamp \in [Slots -> Usize] /\ value \in [Slots -> Values \cup {Nil}]
  /\ pc \in [Procs -> Labels]
  /\ arg \in [Procs -> Values \cup {Nil}] /\ pos \in [Procs -> Positions]
  /\ res \in [Procs -> Values \cup {Nil, "ok", "full", "empty"}]
  /\ calls \in 0..MaxCalls /\ spurious \in 0..MaxSpurious

InSlot(p) == pc[p] \in {"post_write", "post_publish", "poll_read", "poll_release"}

(***************************************************************************)
(* The accesses to UnsafeCell<MaybeUninit<T>> in a slot never race: from   *)
(* the compare-exchange that claims a slot to the store of its stamp, the  *)
(* claimant is alone in it, and what poll reads has been written.          *)
(***************************************************************************)
SlotExclusive ==
  /\ \A p, q \in Procs :
       InSlot(p) /\ InSlot(q) /\ Index(pos[p]) = Index(pos[q]) => p = q
  /\ \A p \in Procs : pc[p] = "poll_read" => value[Index(pos[p])] # Nil

(***************************************************************************)
(* Every call of post and poll returns, whatever the other callers do.     *)
(***************************************************************************)
CallsReturn == \A p \in Procs : pc[p] # "idle" ~> pc[p] = "idle"

-----------------------------------------------------------------------------
(***************************************************************************)
(* The queue implements BoundedFifo.  A post takes effect when it moves    *)
(* tail, a poll when it moves head; the elements are those of the slots    *)
(* from head to tail, or still in the hands of the post that claimed one.  *)
(***************************************************************************)
Ordinal(n) == (n \div OneLap) * Capacity + Index(n)
Size == (Ordinal(tail) + Laps * Capacity - Ordinal(head)) % (Laps * Capacity)
PositionAt(k) ==
  LET o == (Ordinal(head) + k - 1) % (Laps * Capacity)
  IN  (o \div Capacity) * OneLap + (o % Capacity)

Element(n) ==
  IF \E p \in Procs : pc[p] = "post_write" /\ pos[p] = n
  THEN arg[CHOOSE p \in Procs : pc[p] = "post_write" /\ pos[p] = n]
  ELSE value[Index(n)]

Contents == [k \in 1..Size |-> Element(PositionAt(k))]

CallOf(p) ==
  [op |-> IF pc[p] = "idle" THEN "none" ELSE IF arg[p] # Nil THEN "post" ELSE "poll",
   arg |-> arg[p],
   res |-> CASE pc[p] \in {"post_write", "post_publish"} -> "ok"
             [] pc[p] = "poll_read" -> value[Index(pos[p])]
             [] pc[p] \in {"poll_release", "done"} -> res[p]
             [] OTHER -> "pending"]

Fifo == INSTANCE BoundedFifo WITH queue <- Contents, call <- [p \in Procs |-> CallOf(p)]

(***************************************************************************)
(* Elements come out once, in the order they went in, and the answers full *)
(* and empty are true when they are given: the doc comments of post ("If   *)
(* the queue is full, the element is returned back as an error.") and poll *)
(* ("If the queue is empty, `None` is returned.").                         *)
(***************************************************************************)
IsFifo == Fifo!Spec
=============================================================================
