----------------------------- MODULE Scheduler -----------------------------
(***************************************************************************)
(* kernel/src/process/thread/scheduler.rs: the round-robin scheduler with  *)
(* three priorities, from the moment interrupts are enabled.  It runs      *)
(* inside exception handlers and under its own lock, so one call is one    *)
(* step.  Its callers (handlers.rs, init.rs, process/mod.rs) are reduced   *)
(* here to the calls they make.                                            *)
(***************************************************************************)
EXTENDS Naturals, Sequences

CONSTANTS IdleThread,   \* IDLE_THREAD, priority Low
          TaskThread,   \* TASK_THREAD, priority Normal
          UserThreads,  \* threads of processes, priority Normal
          HighThreads   \* threads of priority High: the kernel makes none

ASSUME DistinctAssumption ==
  /\ IdleThread # TaskThread
  /\ {IdleThread, TaskThread} \cap (UserThreads \cup HighThreads) = {}
  /\ UserThreads \cap HighThreads = {}

AllThreads == {IdleThread, TaskThread} \cup UserThreads \cup HighThreads

High == 0
Normal == 1
Low == 2
Levels == {High, Normal, Low}
Priority(t) == IF t = IdleThread THEN Low ELSE IF t \in HighThreads THEN High ELSE Normal

VARIABLES queues,   \* ThreadScheduler::queues, the threads of each priority
          next,     \* ThreadScheduler::queues, the index in each
          current,  \* ThreadScheduler::current_thread
          state,    \* Thread::state of every thread
          stuck     \* the search for a ready thread has no end

vars == <<queues, next, current, state, stuck>>

Queued(t) == \E i \in 1..Len(queues[Priority(t)]) : queues[Priority(t)][i] = t

Init ==
  /\ queues = [l \in Levels |-> CASE l = High -> <<>> [] l = Normal -> <<TaskThread>> [] l = Low -> <<IdleThread>>]
  /\ next = [l \in Levels |-> 0]
  /\ current = IdleThread
  /\ state = [t \in AllThreads |-> "Running"]
  /\ stuck = FALSE

-----------------------------------------------------------------------------
\* Indices count from 0, as in the code.
At(q, i) == q[i + 1]
Start(q, n) == IF n >= Len(q) THEN 0 ELSE n
Found(q, n) == {i \in 0..(Len(q) - 1) : state[At(q, (n + i) % Len(q))] = "Running"}

\* The priority that is looked at: the highest one that has threads.
Level(qs) == CHOOSE l \in Levels : qs[l] # <<>> /\ \A m \in Levels : m < l => qs[m] = <<>>

\* Mutant of ScheduleNext: the index is left on the thread that was chosen.
ScheduleNextUnmoved(qs) ==
  LET l == Level(qs)
      n == Start(qs[l], next[l])
      k == CHOOSE i \in Found(qs[l], n) : \A j \in Found(qs[l], n) : i <= j
  IN  /\ current' = At(qs[l], (n + k) % Len(qs[l]))
      /\ next' = [next EXCEPT ![l] = (n + k) % Len(qs[l])]
      /\ UNCHANGED stuck

(***************************************************************************)
(* schedule_next_thread, on the queues qs.  The loop over waiting threads  *)
(* leaves the queue only by finding a ready one: with none, skips goes     *)
(* below zero, which panics or, unchecked, never ends.                     *)
(***************************************************************************)
ScheduleNext(qs) ==
  LET l == Level(qs)
      n == Start(qs[l], next[l])
      k == CHOOSE i \in Found(qs[l], n) : \A j \in Found(qs[l], n) : i <= j
  IN  IF Found(qs[l], n) = {}
      THEN stuck' = TRUE /\ UNCHANGED <<next, current>>
      ELSE /\ current' = At(qs[l], (n + k) % Len(qs[l]))
           /\ next' = [next EXCEPT ![l] = (n + k + 1) % Len(qs[l])]
           /\ UNCHANGED stuck

\* retain(|t| t.id != thread.id): a thread is in its queue at most once.
Without(q, t) ==
  IF \E i \in 1..Len(q) : q[i] = t
  THEN LET i == CHOOSE i \in 1..Len(q) : q[i] = t
       IN  [j \in 1..(Len(q) - 1) |-> IF j < i THEN q[j] ELSE q[j + 1]]
  ELSE q

\* Mutant of Added: every thread is put in the queue of the idle thread.
AddedLow(t) == [queues EXCEPT ![Low] = Append(@, t)]

Added(t) == [queues EXCEPT ![Priority(t)] = Append(@, t)]

\* Mutant of Removed: the test of retain is inverted.
RemovedOthers(t) == [queues EXCEPT ![Priority(t)] = <<t>>]

Removed(t) == [queues EXCEPT ![Priority(t)] = Without(@, t)]

-----------------------------------------------------------------------------
\* The timer interrupt, and the system call Yield.
Reschedule ==
  /\ ~stuck
  /\ ScheduleNext(queues)
  /\ UNCHANGED <<queues, state>>

\* add_thread, for a thread that has just been made.
AddThread(t) ==
  /\ ~stuck /\ ~Queued(t)
  /\ queues' = Added(t)
  /\ state' = [state EXCEPT ![t] = "Running"]
  /\ UNCHANGED <<next, current, stuck>>

\* Mutant of RemoveThread: the thread may stay current.
RemoveThreadOnly(t) ==
  /\ ~stuck
  /\ queues' = Removed(t)
  /\ UNCHANGED <<next, current, state, stuck>>

\* remove_thread, from Thread::exit.
RemoveThread(t) ==
  /\ ~stuck
  /\ queues' = Removed(t)
  /\ IF t = current THEN ScheduleNext(queues') ELSE UNCHANGED <<next, current, stuck>>
  /\ UNCHANGED state

\* A page fault: the thread waits and the executor runs next.
Block(t) ==
  /\ ~stuck /\ t = current
  /\ state' = [state EXCEPT ![t] = "Waiting"]
  /\ current' = TaskThread
  /\ UNCHANGED <<queues, next, stuck>>

Next ==
  \/ Reschedule
  \/ \E t \in UserThreads \cup HighThreads : AddThread(t) \/ RemoveThread(t) \/ Block(t)

\* The timer goes on interrupting.
Spec == Init /\ [][Next]_vars /\ WF_vars(Reschedule)

-----------------------------------------------------------------------------
\* Type invariant: a thread is queued only at its own priority.
TypeOK ==
  /\ queues \in [Levels -> Seq(AllThreads)]
  /\ \A l \in Levels : \A i \in 1..Len(queues[l]) : Priority(queues[l][i]) = l
  /\ next \in [Levels -> Nat]
  /\ current \in AllThreads
  /\ state \in [AllThreads -> {"Running", "Waiting"}]
  /\ stuck \in BOOLEAN

(***************************************************************************)
(* resume_current_thread never resumes a thread that has exited or that    *)
(* waits for a page: the current thread is in its queue and ready.         *)
(***************************************************************************)
CurrentIsReady == stuck \/ (Queued(current) /\ state[current] = "Running")

(***************************************************************************)
(* "There must be at least one thread that is always ready or the          *)
(* scheduler will panic.  This should be the [IDLE_THREAD]."  It is the    *)
(* executor that keeps the search from failing: the idle thread is not     *)
(* looked at while the Normal queue has threads, ready or not.             *)
(***************************************************************************)
NeverStuck == HighThreads = {} => ~stuck

(***************************************************************************)
(* Round robin: a thread that stays ready and queued is run, whatever      *)
(* threads come, go and block meanwhile.  remove_thread does not move the  *)
(* index when it shortens the queue, so a turn may be missed, but only for *)
(* a thread removed from before this one.                                  *)
(***************************************************************************)
ReadyThreadsRun ==
  HighThreads = {} =>
    \A t \in UserThreads :
      Queued(t) /\ state[t] = "Running" ~> current = t \/ ~Queued(t) \/ state[t] = "Waiting"
=============================================================================
