-------------------------- MODULE ProcessesProofs --------------------------
(***************************************************************************)
(* Proofs about Processes, for any number of processes, threads, tasks and *)
(* commands, and queues of any capacity.  What the scheduler does is taken *)
(* from SchedulerProofs.                                                   *)
(*                                                                         *)
(* The argument: a task gives up the executor only where it answers        *)
(* Pending, so of all tasks only the one in poll can be in the middle of   *)
(* making a thread or of making one exit.  Handlers come in between, and   *)
(* the threads they interrupt may exit or fault there; but they take       *)
(* themselves out of the scheduler first, and put nothing back.            *)
(***************************************************************************)
EXTENDS Processes, TLAPS

SP == INSTANCE SchedulerProofs WITH HighThreads <- {}

-----------------------------------------------------------------------------
\* The places of a task.

ExitCodes == {"Normal", "PageFault", "Killed"}
Answers == ExitCodes \cup {Nil, "Err", "New", "Success"}

Makes == {"s_lock", "s_push", "s_table", "s_sched", "s_add"}   \* a thread is being made
Takes == {"x_sched", "x_remove", "x_lock", "x_leave"}          \* a thread is being taken out
Tells == {"x_code", "x_wlock", "x_wake", "x_pcode", "x_pwlock", "x_pwake"} \* its exit is being told
Labels == {"start", "poll", "w_lock", "w_push", "alloc", "load", "io", "loaded", "c_queues",
           "k_lock", "k_clone", "post", "done"} \cup Makes \cup Takes \cup Tells
CommandKinds == {"spawn_thread", "spawn_process", "watch_thread", "watch_process", "kill"}
Kinds == CommandKinds \cup {"notify", "boot", "fault", "done"}

TaskRec == [kind : Kinds, proc : Pids \cup {Nil}, of : Exits \cup {Nil}, pc : Labels,
            todo : SUBSET UserThreads, sub : Exits \cup {Nil}, ans : Answers]

\* What the place and the kind of a task say about the rest of it.
TaskOK(r) ==
  /\ r \in TaskRec
  /\ r.kind # "done" => r.proc \in Pids
  /\ r.kind = "done" \/ r.pc = "done" => r = Finished
  /\ r.pc = "start" => r.kind \in CommandKinds
  /\ r.kind = "watch_thread" => r.of \in UserThreads
  /\ r.kind \in {"watch_process", "kill"} => r.of \in Pids
  /\ r.pc \in {"poll", "w_lock", "w_push"} => r.of \in Exits
  /\ r.pc = "c_queues" => r.of \in Pids
  /\ r.pc \in {"k_lock", "k_clone"} => r.kind = "kill"
  /\ r.pc \in {"alloc", "load", "io", "loaded", "c_queues"} \cup Makes => r.kind \in {"spawn_thread", "spawn_process"}
  /\ r.pc \in Makes => r.of \in UserThreads
  /\ r.todo # {} <=> r.pc \in Takes \cup Tells
  /\ r.todo # {} => r.kind \in {"kill", "fault"}
  /\ r.kind = "fault" => r.todo = {r.of}
  /\ r.pc \in {"x_pcode", "x_pwlock", "x_pwake"} => r.sub \in Pids
  /\ r.ans \in ExitCodes => r.pc = "post" /\ r.of \in Exits

\* A task that is not in poll has not started, waits, or is finished.
Rests(r) == r.pc \in {"start", "poll", "io", "done"} \/ (r.pc = "x_sched" /\ r.kind = "fault")

TaskInv ==
  /\ task \in Seq(TaskRec) /\ \A k \in TaskIds : TaskOK(task[k])
  /\ tasks \subseteq TaskIds /\ polling \in {0} \cup tasks
  /\ \A k \in TaskIds : k # polling => Rests(task[k])

\* The queues of the executor and the wakers hold ids of tasks.
QueueInv ==
  /\ new_task_queue \in Seq(TaskIds) /\ ready_queue \in Seq(TaskIds)
  /\ wakers \in [Exits -> Seq(TaskIds)] /\ overflow \in BOOLEAN

\* Whoever can be woken is in the map or finished.
KnownInv ==
  /\ ReadyIsKnown
  /\ \A x \in Exits : \A k \in TaskIds : InQueue(k, wakers[x]) => k \in tasks \/ task[k] = Finished
  /\ \A k \in TaskIds : task[k].pc = "io" => k \in tasks

-----------------------------------------------------------------------------
\* The tables, and the threads.

Locks == {SchedulerLock} \cup {ThreadsLock(p) : p \in Pids} \cup {WakersLock(x) : x \in Exits}

TableInv ==
  /\ processes \subseteq Pids /\ threads \subseteq UserThreads
  /\ members \in [Pids -> SUBSET UserThreads]
  /\ parent \in [UserThreads -> Pids \cup {Nil}]
  /\ freed \in [UserThreads -> 0..2]
  /\ code \in [Exits -> ExitCodes \cup {Nil}]
  /\ held \subseteq Locks
  /\ send \in [Pids -> Seq(Commands)]
  /\ machine \in {"up", "hung", "panic", "off"}

\* The task in poll is at one of these places.
In(places) == polling # 0 /\ T.pc \in places

\* Thread t faulted and the task that makes it exit is not finished.
Faulting(t) == \E k \in TaskIds : task[k].kind = "fault" /\ t \in task[k].todo

\* A thread that is queued has not exited; one that may run has not even
\* begun to, neither has a member of a process left it.
ThreadInv ==
  /\ \A t \in UserThreads : parent[t] = Nil => code[t] = Nil /\ freed[t] = 0
  /\ \A t \in UserThreads : S!Queued(t) => parent[t] \in Pids /\ code[t] = Nil
  /\ \A t \in UserThreads : S!Queued(t) /\ state[t] = "Running" => freed[t] = 0 /\ ~Faulting(t)
  /\ \A p \in Pids : \A t \in members[p] : parent[t] = p /\ freed[t] = 0
  /\ \A k \in TaskIds : \A t \in task[k].todo : parent[t] \in Pids
  /\ \A j, k \in TaskIds : task[j].kind = "fault" /\ task[k].kind = "fault" /\ task[j].of = task[k].of => j = k

\* Nobody knows a thread that is being made.
MakeInv ==
  In(Makes) =>
    /\ parent[T.of] \in Pids /\ ~S!Queued(T.of) /\ code[T.of] = Nil /\ freed[T.of] = 0
    /\ \A k \in TaskIds : T.of \notin task[k].todo

\* Past x_remove the scheduler does not know the victim.
VictimInv == In({"x_lock", "x_leave"} \cup Tells) => ~S!Queued(Victim)

\* The stack of t is still to be freed, by the kill in poll or by its fault.
Leaves(t) == (In(Takes) /\ t \in T.todo) \/ (In(Tells) /\ t \in T.todo \ {Victim})
ToKill(t) == T.kind = "kill" /\ Leaves(t)
ToFault(t) == \E k \in TaskIds : task[k].kind = "fault" /\ task[k].pc \in Takes /\ t \in task[k].todo

FreedInv ==
  \A t \in UserThreads : /\ freed[t] = 1 => ~(ToKill(t) /\ ToFault(t))
                         /\ freed[t] = 2 => ~ToKill(t) /\ ~ToFault(t)

\* A thread of a process is one of its members until its exit is told.
AccountInv ==
  \A t \in UserThreads : parent[t] \in Pids =>
    \/ t \in members[parent[t]] \/ code[t] # Nil
    \/ In({"s_lock", "s_push"}) /\ T.of = t
    \/ In({"x_code"}) /\ Victim = t

\* A kill has all members of its process on its list.
KillInv ==
  polling # 0 /\ T.kind = "kill" =>
    /\ T.pc \in Takes \cup Tells => \A t \in members[T.of] : Leaves(t)
    /\ \A t \in T.todo : parent[t] = T.of

LifeInv == ThreadInv /\ MakeInv /\ VictimInv /\ FreedInv /\ AccountInv /\ KillInv /\ KillIsComplete

\* Every exit that is told is that of the exit state.
AnswerInv == \A k \in TaskIds : task[k].ans \in ExitCodes => task[k].ans = code[task[k].of]

CompletionRec == [to : Kinds, of : Exits \cup {Nil}, ans : Answers]
IsTrue(c) == c.ans \in ExitCodes => c.of \in Exits /\ c.ans = code[c.of]
RecvInv ==
  /\ recv \in [Pids -> Seq(CompletionRec)]
  /\ \A p \in Pids : \A i \in 1..Len(recv[p]) : IsTrue(recv[p][i])

\* A dead process in the table is the one the task in poll is about to take out.
DeadInv ==
  \A p \in Pids : code[p] # Nil /\ p \in processes => In({"x_pwlock", "x_pwake"}) /\ T.sub = p

SchedInv == SP!IInv /\ SP!Once

IInv ==
  /\ TaskInv /\ QueueInv /\ KnownInv /\ PendingHasWaker
  /\ TableInv /\ LifeInv /\ AnswerInv /\ RecvInv /\ DeadInv /\ SchedInv

-----------------------------------------------------------------------------
\* The scheduler.

\* The assumption of SchedulerProofs.
LEMMA SchedAssumption == SP!DistinctAssumption
  BY ThreadsAssumption DEF SP!DistinctAssumption

\* What the invariant of the scheduler says in the terms of Processes.
LEMMA SchedFacts ==
  ASSUME SchedInv
  PROVE  /\ S!TypeOK /\ S!CurrentIsReady /\ ~stuck /\ stuck \in BOOLEAN
         /\ current \in S!AllThreads /\ state \in [S!AllThreads -> {"Running", "Waiting"}]
         /\ S!Queued(current) /\ state[current] = "Running"
  <1>1. S!TypeOK
    BY DEF SchedInv, SP!IInv, SP!TypeOK, S!TypeOK, SP!Levels, S!Levels, SP!AllThreads, S!AllThreads,
           SP!Priority, S!Priority, SP!High, S!High, SP!Normal, S!Normal, SP!Low, S!Low
  <1>2. ~stuck
    BY DEF SchedInv, SP!IInv, SP!NeverStuck
  <1>3. S!CurrentIsReady
    BY DEF SchedInv, SP!IInv, SP!CurrentIsReady, S!CurrentIsReady, SP!Queued, S!Queued,
           SP!Priority, S!Priority, SP!High, S!High, SP!Normal, S!Normal, SP!Low, S!Low
  <1> QED
    BY <1>1, <1>2, <1>3 DEF S!TypeOK, S!CurrentIsReady

\* Queued means the same in both.
LEMMA QueuedSame == \A t : S!Queued(t) <=> SP!Queued(t)
  BY DEF SP!Queued, S!Queued, SP!Priority, S!Priority, SP!High, S!High, SP!Normal, S!Normal, SP!Low, S!Low

\* A call of Scheduler is a call of SchedulerProofs.
LEMMA SchedCalls ==
  /\ S!Reschedule => SP!Reschedule
  /\ \A t : S!AddThread(t) => SP!AddThread(t)
  /\ \A t : S!RemoveThread(t) => SP!RemoveThread(t)
  /\ \A t : S!Block(t) => SP!Block(t)
  <1> USE DEF SP!High, S!High, SP!Normal, S!Normal, SP!Low, S!Low, SP!Levels, S!Levels
  <1>1. ASSUME NEW qs, S!ScheduleNext(qs) PROVE SP!ScheduleNext(qs)
    BY <1>1, Zenon DEF S!ScheduleNext, SP!ScheduleNext, S!Level, SP!Level, S!Start, SP!Start,
                S!Found, SP!Found, S!At, SP!At
  <1>2. S!Reschedule => SP!Reschedule
    BY <1>1 DEF S!Reschedule, SP!Reschedule
  <1>3. \A t : S!Priority(t) = SP!Priority(t)
    BY DEF S!Priority, SP!Priority
  <1>4. \A t : S!AddThread(t) => SP!AddThread(t)
    BY <1>3, QueuedSame, Zenon DEF S!AddThread, SP!AddThread, S!Added, SP!Added
  <1>5. \A t : S!Removed(t) = SP!Removed(t)
    BY <1>3, Zenon DEF S!Removed, SP!Removed, S!Without, SP!Without
  <1>6. \A t : S!RemoveThread(t) => SP!RemoveThread(t)
    BY <1>1, <1>5, Zenon DEF S!RemoveThread, SP!RemoveThread
  <1>7. \A t : S!Block(t) => SP!Block(t)
    BY DEF S!Block, SP!Block
  <1> QED
    BY <1>2, <1>4, <1>6, <1>7

\* A step that leaves the scheduler alone.
LEMMA SchedUnchanged ==
  ASSUME SchedInv, UNCHANGED schedVars
  PROVE  SchedInv' /\ \A t \in UserThreads : (S!Queued(t)' <=> S!Queued(t)) /\ state'[t] = state[t]
  <1>1. SP!IInv'
    BY SP!NextInv, SchedAssumption DEF SchedInv, schedVars, SP!vars
  <1>2. SP!Once'
    BY DEF SchedInv, schedVars, SP!Once
  <1>3. \A t \in UserThreads : (S!Queued(t)' <=> S!Queued(t)) /\ state'[t] = state[t]
    BY DEF schedVars, S!Queued
  <1> QED
    BY <1>1, <1>2, <1>3 DEF SchedInv

\* The timer changes neither queues nor the states of threads.
LEMMA SchedReschedule ==
  ASSUME SchedInv, S!Reschedule
  PROVE  SchedInv' /\ \A t \in UserThreads : (S!Queued(t)' <=> S!Queued(t)) /\ state'[t] = state[t]
  <1>1. SP!IInv'
    BY SP!RescheduleInv, SchedAssumption, SchedCalls DEF SchedInv
  <1>2. UNCHANGED <<queues, state>>
    BY DEF S!Reschedule
  <1>3. SP!Once'
    BY <1>2 DEF SchedInv, SP!Once
  <1> QED
    BY <1>1, <1>2, <1>3 DEF SchedInv, S!Queued

\* A thread that faults waits.
LEMMA SchedBlock ==
  ASSUME SchedInv, NEW t \in UserThreads, S!Block(t)
  PROVE  /\ SchedInv' /\ \A u \in UserThreads : S!Queued(u)' <=> S!Queued(u)
         /\ state'[t] = "Waiting" /\ \A u \in UserThreads : u # t => state'[u] = state[u]
  <1>1. SP!IInv'
    BY SP!BlockInv, SchedAssumption, SchedCalls DEF SchedInv
  <1>2. queues' = queues /\ state' = [state EXCEPT ![t] = "Waiting"]
    BY DEF S!Block
  <1>3. SP!Once'
    BY <1>2 DEF SchedInv, SP!Once
  <1>4. t \in S!AllThreads /\ state \in [S!AllThreads -> {"Running", "Waiting"}] /\ UserThreads \subseteq S!AllThreads
    BY SchedFacts DEF S!AllThreads
  <1> QED
    BY <1>1, <1>2, <1>3, <1>4 DEF SchedInv, S!Queued

\* A thread that is removed is not queued, and no other one is added.
LEMMA SchedRemove ==
  ASSUME SchedInv, NEW t \in UserThreads, S!RemoveThread(t)
  PROVE  /\ SchedInv' /\ ~S!Queued(t)'
         /\ \A u \in UserThreads : (S!Queued(u)' => S!Queued(u)) /\ state'[u] = state[u]
  <1>1. SP!IInv'
    BY SP!RemoveThreadInv, SchedAssumption, SchedCalls DEF SchedInv
  <1>2. SP!Once' /\ ~SP!Queued(t)' /\ \A u \in SP!AllThreads : SP!Queued(u)' => SP!Queued(u)
    BY SP!RemovedIsGone, SchedAssumption, SchedCalls DEF SchedInv
  <1>3. state' = state /\ UserThreads \subseteq SP!AllThreads
    BY DEF S!RemoveThread, SP!AllThreads
  <1>4. \A u : S!Queued(u)' <=> SP!Queued(u)'
    BY DEF SP!Queued, S!Queued, SP!Priority, S!Priority, SP!High, S!High, SP!Normal, S!Normal, SP!Low, S!Low
  <1> QED
    BY <1>1, <1>2, <1>3, <1>4, QueuedSame DEF SchedInv

\* Only the thread that is added is queued by it.
LEMMA SchedAdd ==
  ASSUME SchedInv, NEW t \in UserThreads, S!AddThread(t)
  PROVE  /\ SchedInv' /\ state'[t] = "Running"
         /\ \A u \in UserThreads : u # t => (S!Queued(u)' => S!Queued(u)) /\ state'[u] = state[u]
  <1>1. SP!IInv'
    BY SP!AddThreadInv, SchedAssumption, SchedCalls DEF SchedInv
  <1>2. SP!Once' /\ \A u \in SP!AllThreads : SP!Queued(u)' => SP!Queued(u) \/ u = t
    BY SP!AddedOnce, SchedAssumption, SchedCalls DEF SchedInv
  <1>3. state' = [state EXCEPT ![t] = "Running"] /\ UserThreads \subseteq SP!AllThreads
    BY DEF S!AddThread, SP!AllThreads
  <1>4. \A u : S!Queued(u)' <=> SP!Queued(u)'
    BY DEF SP!Queued, S!Queued, SP!Priority, S!Priority, SP!High, S!High, SP!Normal, S!Normal, SP!Low, S!Low
  <1>5. state \in [S!AllThreads -> {"Running", "Waiting"}] /\ UserThreads \subseteq S!AllThreads
    BY SchedFacts DEF S!AllThreads
  <1> QED
    BY <1>1, <1>2, <1>3, <1>4, <1>5, QueuedSame DEF SchedInv


-----------------------------------------------------------------------------
\* Steps of tasks.

\* A task as a handler or another task spawns it.
Fresh(r) == TaskOK(r) /\ Rests(r) /\ r.ans = Nil /\ r.pc \in {"start", "poll", "x_sched"}
Plain(r) == r.todo = {} /\ r.kind # "fault"

\* The task in poll becomes r, others may be spawned.
Becomes(r) ==
  /\ task' \in Seq(TaskRec) /\ TaskIds \subseteq TaskIds'
  /\ polling # 0 => task'[polling] = r
  /\ \A k \in TaskIds : k # polling => task'[k] = task[k]
  /\ \A k \in TaskIds' : k \notin TaskIds => Fresh(task'[k])

\* No task that is spawned is about an exit to be carried out.
SpawnsPlain == \A k \in TaskIds' : k \notin TaskIds => Plain(task'[k])

\* The task in poll is one of the tasks.
LEMMA PolledTask ==
  ASSUME TaskInv, polling # 0
  PROVE  polling \in TaskIds /\ polling \in tasks /\ TaskOK(T) /\ T \in TaskRec
  BY DEF TaskInv, TaskOK, T, TaskIds

\* The task in poll goes on as r, and spawns the tasks new.
LEMMA StepAndSpawn ==
  ASSUME TaskInv, polling # 0, NEW r \in TaskRec, NEW new \in Seq(TaskRec),
         \A i \in 1..Len(new) : Fresh(new[i]) /\ Plain(new[i]),
         task' = [task EXCEPT ![polling] = r] \o new
  PROVE  Becomes(r) /\ SpawnsPlain /\ TaskIds' = 1..(Len(task) + Len(new))
  <1> DEFINE s == [task EXCEPT ![polling] = r]
  <1>1. polling \in 1..Len(task) /\ task \in Seq(TaskRec) /\ Len(task) \in Nat /\ Len(new) \in Nat
    BY PolledTask DEF TaskInv, TaskIds
  <1>2. s \in Seq(TaskRec) /\ Len(s) = Len(task) /\ s[polling] = r
        /\ \A k \in 1..Len(task) : k # polling => s[k] = task[k]
    BY <1>1
  <1>3. task' = s \o new
    OBVIOUS
  <1> HIDE DEF s
  <1>4. /\ task' \in Seq(TaskRec) /\ Len(task') = Len(task) + Len(new)
        /\ \A k \in 1..Len(task) : task'[k] = s[k]
        /\ \A k \in 1..Len(task') : k \notin 1..Len(task) =>
             task'[k] = new[k - Len(task)] /\ k - Len(task) \in 1..Len(new)
    BY <1>1, <1>2, <1>3
  <1>5. \A k \in 1..Len(task') : k \notin 1..Len(task) => Fresh(task'[k]) /\ Plain(task'[k])
    BY <1>4
  <1> QED
    BY <1>1, <1>2, <1>4, <1>5 DEF Becomes, SpawnsPlain, TaskIds

\* The task in poll goes on as r.
LEMMA StepAlone ==
  ASSUME TaskInv, polling # 0, NEW r \in TaskRec, task' = [task EXCEPT ![polling] = r]
  PROVE  Becomes(r) /\ SpawnsPlain /\ TaskIds' = TaskIds
  <1>1. polling \in 1..Len(task) /\ task \in Seq(TaskRec) /\ Len(task) \in Nat
    BY PolledTask DEF TaskInv, TaskIds
  <1>2. task' \in Seq(TaskRec) /\ Len(task') = Len(task) /\ task'[polling] = r
        /\ \A k \in 1..Len(task) : k # polling => task'[k] = task[k]
    BY <1>1
  <1> QED
    BY <1>2 DEF Becomes, SpawnsPlain, TaskIds

\* A handler leaves the tasks as they are and spawns others.
LEMMA StepOfHandler ==
  ASSUME TaskInv, NEW new \in Seq(TaskRec), \A i \in 1..Len(new) : Fresh(new[i]),
         task' = task \o new
  PROVE  /\ Becomes(T) /\ TaskIds' = 1..(Len(task) + Len(new)) /\ \A k \in TaskIds : task'[k] = task[k]
         /\ \A k \in TaskIds' : k \notin TaskIds => k - Len(task) \in 1..Len(new) /\ task'[k] = new[k - Len(task)]
  <1>1. task \in Seq(TaskRec) /\ Len(task) \in Nat /\ Len(new) \in Nat
    BY DEF TaskInv
  <1>2. /\ task' \in Seq(TaskRec) /\ Len(task') = Len(task) + Len(new)
        /\ \A k \in 1..Len(task) : task'[k] = task[k]
        /\ \A k \in 1..Len(task') : k \notin 1..Len(task) =>
             task'[k] = new[k - Len(task)] /\ k - Len(task) \in 1..Len(new)
    BY <1>1
  <1>3. polling # 0 => polling \in 1..Len(task)
    BY PolledTask DEF TaskIds
  <1> QED
    BY <1>1, <1>2, <1>3 DEF Becomes, TaskIds, T

\* A step that leaves the tasks alone.
LEMMA StepOfNone ==
  ASSUME TaskInv, task' = task
  PROVE  Becomes(T) /\ SpawnsPlain /\ TaskIds' = TaskIds
  BY PolledTask DEF Becomes, SpawnsPlain, TaskIds, TaskInv, T

\* The poll goes on, or it ends with the task or where it waits.
PollStep(r) ==
  \/ polling' = polling /\ tasks' = tasks
  \/ polling # 0 /\ polling' = 0 /\ tasks' = tasks \ {polling} /\ r = Finished
  \/ /\ polling # 0 /\ polling' = 0 /\ tasks' = tasks
     /\ r.pc = "io" \/ (r.pc = "poll" /\ InQueue(polling, wakers'[r.of]))

\* The tasks are still as they should be.
LEMMA TaskKept ==
  ASSUME TaskInv, NEW r, Becomes(r), polling # 0 => TaskOK(r), PollStep(r)
  PROVE  TaskInv'
  <1>1. \A k \in TaskIds' : TaskOK(task'[k])
    <2>1. \A k \in TaskIds : TaskOK(task'[k])
      BY PolledTask DEF TaskInv, Becomes, TaskIds
    <2> QED
      BY <2>1 DEF Becomes, Fresh
  <1>2. tasks' \subseteq TaskIds' /\ polling' \in {0} \cup tasks'
    BY DEF TaskInv, Becomes, PollStep
  <1>3. \A k \in TaskIds' : k # polling' => Rests(task'[k])
    <2>1. \A k \in TaskIds' : k # polling => Rests(task'[k])
      BY DEF TaskInv, Becomes, Fresh
    <2>2. polling' = polling \/ (polling' = 0 /\ Rests(r))
      BY DEF PollStep, Rests, Finished, Task
    <2> QED
      BY <2>1, <2>2 DEF Becomes
  <1> QED
    BY <1>1, <1>2, <1>3 DEF TaskInv, Becomes, TaskOK, Rests


-----------------------------------------------------------------------------
\* The queues of the executor.

\* More tasks, the same queue.
LEMMA SeqGrows ==
  ASSUME NEW A, NEW B, A \subseteq B, NEW q \in Seq(A)
  PROVE  q \in Seq(B)
  OBVIOUS

\* What is in a queue after another one has been put behind it.
LEMMA InConcat ==
  ASSUME NEW A, NEW q \in Seq(A), NEW s \in Seq(A)
  PROVE  q \o s \in Seq(A) /\ \A k : InQueue(k, q \o s) <=> InQueue(k, q) \/ InQueue(k, s)
  <1>1. /\ q \o s \in Seq(A) /\ Len(q \o s) = Len(q) + Len(s) /\ Len(q) \in Nat /\ Len(s) \in Nat
        /\ \A i \in 1..Len(q) : (q \o s)[i] = q[i]
        /\ \A i \in 1..Len(s) : (q \o s)[Len(q) + i] = s[i]
    OBVIOUS
  <1> DEFINE c == q \o s
  <1> HIDE DEF c
  <1>2. /\ Len(c) = Len(q) + Len(s) /\ \A i \in 1..Len(q) : c[i] = q[i]
        /\ \A i \in 1..Len(s) : c[Len(q) + i] = s[i]
    BY <1>1 DEF c
  <1>3. ASSUME NEW k, InQueue(k, q) \/ InQueue(k, s) PROVE InQueue(k, c)
    <2>1. CASE InQueue(k, q)
      <3>1. PICK i \in 1..Len(q) : q[i] = k
        BY <2>1 DEF InQueue
      <3>2. i \in 1..Len(c) /\ c[i] = k
        BY <1>1, <1>2, <3>1
      <3> QED
        BY <3>2 DEF InQueue
    <2>2. CASE InQueue(k, s)
      <3>1. PICK i \in 1..Len(s) : s[i] = k
        BY <2>2 DEF InQueue
      <3>2. Len(q) + i \in 1..Len(c) /\ c[Len(q) + i] = k
        BY <1>1, <1>2, <3>1
      <3> QED
        BY <3>2 DEF InQueue
    <2> QED
      BY <1>3, <2>1, <2>2
  <1>4. ASSUME NEW k, InQueue(k, c) PROVE InQueue(k, q) \/ InQueue(k, s)
    <2>1. PICK i \in 1..Len(c) : c[i] = k
      BY <1>4 DEF InQueue
    <2>2. CASE i <= Len(q)
      BY <1>1, <1>2, <2>1, <2>2 DEF InQueue
    <2>3. CASE i > Len(q)
      <3>1. i - Len(q) \in 1..Len(s) /\ Len(q) + (i - Len(q)) = i
        BY <1>1, <1>2, <2>1, <2>3
      <3>2. s[i - Len(q)] = k
        BY <1>2, <2>1, <3>1
      <3> QED
        BY <3>1, <3>2 DEF InQueue
    <2> QED
      BY <1>1, <1>2, <2>1, <2>2, <2>3
  <1> QED
    BY <1>1, <1>3, <1>4 DEF c

\* The first of a queue is what a pop takes out of it.
LEMMA InTail ==
  ASSUME NEW A, NEW q \in Seq(A), q # <<>>
  PROVE  Tail(q) \in Seq(A) /\ Head(q) \in A /\ \A k : InQueue(k, q) <=> k = Head(q) \/ InQueue(k, Tail(q))
  <1>1. /\ Tail(q) \in Seq(A) /\ Head(q) \in A /\ Len(q) \in Nat /\ Len(q) > 0 /\ Len(Tail(q)) = Len(q) - 1
        /\ Head(q) = q[1] /\ \A i \in 1..Len(Tail(q)) : Tail(q)[i] = q[i + 1]
    OBVIOUS
  <1> DEFINE t == Tail(q)
  <1> HIDE DEF t
  <1>2. Len(t) = Len(q) - 1 /\ \A i \in 1..Len(t) : t[i] = q[i + 1]
    BY <1>1 DEF t
  <1>3. ASSUME NEW k, k = Head(q) \/ InQueue(k, t) PROVE InQueue(k, q)
    BY <1>1, <1>2, <1>3 DEF InQueue
  <1>4. ASSUME NEW k, InQueue(k, q), k # Head(q) PROVE InQueue(k, t)
    <2>1. PICK i \in 1..Len(q) : q[i] = k
      BY <1>4 DEF InQueue
    <2>2. i # 1
      BY <1>1, <1>4, <2>1
    <2>3. i - 1 \in 1..Len(t) /\ (i - 1) + 1 = i
      BY <1>1, <1>2, <2>1, <2>2
    <2>4. t[i - 1] = k
      BY <1>2, <2>1, <2>3
    <2> QED
      BY <2>3, <2>4 DEF InQueue
  <1> QED
    BY <1>1, <1>3, <1>4 DEF t

\* What spawn and wake do to the two queues: all ids are put in, or a push panics.
LEMMA Pushes ==
  ASSUME QueueInv, NEW A, TaskIds \subseteq A, NEW new \in Seq(A), NEW woken \in Seq(A), E!Push(new, woken)
  PROVE  /\ new_task_queue' \in Seq(A) /\ ready_queue' \in Seq(A) /\ overflow' \in BOOLEAN
         /\ \A k : InQueue(k, ready_queue') => InQueue(k, ready_queue) \/ InQueue(k, woken)
         /\ \A k : InQueue(k, ready_queue) \/ InQueue(k, woken) => InQueue(k, ready_queue') \/ overflow'
         /\ \A k : InQueue(k, new_task_queue) => InQueue(k, new_task_queue')
         /\ woken = <<>> => ready_queue' = ready_queue
  <1>1. new_task_queue \in Seq(A) /\ ready_queue \in Seq(A)
    BY SeqGrows DEF QueueInv
  <1>2. /\ \/ new_task_queue' = new_task_queue \o new
           \/ new_task_queue' = new_task_queue
        /\ \/ ready_queue' = ready_queue \o woken
           \/ ready_queue' = ready_queue /\ overflow'
        /\ overflow' \in BOOLEAN
    <2>1. /\ Len(new_task_queue) \in Nat /\ Len(new) \in Nat /\ Len(ready_queue) \in Nat /\ Len(woken) \in Nat
      BY <1>1
    <2>2. overflow' = (\/ Len(new_task_queue) + Len(new) > NewTaskCapacity
                       \/ Len(ready_queue) + Len(woken) > ReadyCapacity)
      BY DEF E!Push
    <2>3. overflow' \in BOOLEAN
      BY <2>2
    <2>4. CASE Len(ready_queue) + Len(woken) <= ReadyCapacity
      BY <2>3, <2>4 DEF E!Push, E!Pushed
    <2>5. CASE ~(Len(ready_queue) + Len(woken) <= ReadyCapacity)
      <3>1. Len(ready_queue) + Len(woken) > ReadyCapacity
        BY <2>1, <2>5, CapacityAssumption
      <3> QED
        BY <2>2, <2>3, <2>5, <3>1 DEF E!Push, E!Pushed
    <2> QED
      BY <2>4, <2>5
  <1>3. woken = <<>> => ready_queue \o woken = ready_queue
    BY <1>1
  <1> QED
    BY <1>1, <1>2, <1>3, InConcat


\* An exit state that is set stays as it is.
CodeStays == \A x \in Exits : code[x] # Nil => code'[x] = code[x]

\* Only tasks in the map, or finished ones, are woken; the ids that were in
\* a queue, and those that wait for an exit, are not forgotten.
WakeStep ==
  /\ \A k \in TaskIds' : InQueue(k, ready_queue') =>
       k \in TaskIds /\ (InQueue(k, ready_queue) \/ k \in tasks \/ task[k] = Finished)
  /\ \A x \in Exits : \A k \in TaskIds' : InQueue(k, wakers'[x]) =>
       k \in TaskIds /\ (InQueue(k, wakers[x]) \/ (polling # 0 /\ k = polling))
  /\ \A k \in tasks : InQueue(k, ready_queue) \/ InQueue(k, new_task_queue) =>
       InQueue(k, ready_queue') \/ InQueue(k, new_task_queue') \/ overflow'
  /\ \A x \in Exits : \A k \in tasks : InQueue(k, wakers[x]) \/ code[x] # Nil =>
       InQueue(k, wakers'[x]) \/ code'[x] # Nil \/ InQueue(k, ready_queue') \/ overflow'

\* Such a step keeps every task that waits reachable by a waker.
LEMMA WakeKept ==
  ASSUME TaskInv, KnownInv, PendingHasWaker, ~overflow, NEW r, Becomes(r), PollStep(r), WakeStep
  PROVE  KnownInv' /\ PendingHasWaker'
  <1>1. \A k \in TaskIds : k \in tasks \/ task[k] = Finished => k \in tasks' \/ task'[k] = Finished
    <2> SUFFICES ASSUME NEW k \in TaskIds, k \in tasks \/ task[k] = Finished
                 PROVE  k \in tasks' \/ task'[k] = Finished
      OBVIOUS
    <2>1. CASE k # polling
      BY <2>1 DEF Becomes, PollStep
    <2>2. CASE k = polling
      <3>1. polling # 0 /\ polling \in tasks
        BY <2>2, PolledTask DEF TaskIds
      <3> QED
        BY <2>2, <3>1 DEF Becomes, PollStep
    <2> QED
      BY <2>1, <2>2
  <1>2. ReadyIsKnown'
    BY <1>1 DEF WakeStep, KnownInv, ReadyIsKnown
  <1>3. \A x \in Exits : \A k \in TaskIds' : InQueue(k, wakers'[x]) => k \in tasks' \/ task'[k] = Finished
    BY <1>1, PolledTask DEF WakeStep, KnownInv
  <1>4. \A k \in TaskIds' : task'[k].pc = "io" => k \in tasks'
    <2> SUFFICES ASSUME NEW k \in TaskIds', task'[k].pc = "io" PROVE k \in tasks'
      OBVIOUS
    <2>1. k \in TaskIds
      BY DEF Becomes, Fresh
    <2>2. CASE k # polling
      BY <2>1, <2>2 DEF Becomes, KnownInv, PollStep
    <2>3. CASE k = polling
      <3>1. polling # 0 /\ r.pc = "io" /\ polling \in tasks
        BY <2>1, <2>3, PolledTask DEF Becomes, TaskIds
      <3>2. r # Finished
        BY <3>1 DEF Finished, Task
      <3> QED
        BY <2>3, <3>1, <3>2 DEF PollStep
    <2> QED
      BY <2>2, <2>3
  <1>5. PendingHasWaker'
    <2> SUFFICES ASSUME NEW k \in tasks', k # polling'
                 PROVE  \/ InQueue(k, ready_queue') \/ InQueue(k, new_task_queue') \/ overflow'
                        \/ task'[k].pc = "io"
                        \/ task'[k].pc = "poll" /\ (InQueue(k, wakers'[task'[k].of]) \/ code'[task'[k].of] # Nil)
      BY DEF PendingHasWaker
    <2>1. k \in tasks /\ k \in TaskIds
      BY DEF PollStep, TaskInv
    <2>2. CASE k = polling
      <3>1. polling # 0 /\ task'[k] = r
        BY <2>1, <2>2 DEF Becomes, TaskIds
      <3> QED
        BY <2>2, <3>1 DEF PollStep
    <2>3. CASE k # polling
      <3>1. task'[k] = task[k]
        BY <2>1, <2>3 DEF Becomes
      <3>2. CASE InQueue(k, ready_queue) \/ InQueue(k, new_task_queue)
        BY <2>1, <3>2 DEF WakeStep
      <3>3. CASE task[k].pc = "io"
        BY <3>1, <3>3
      <3>4. CASE task[k].pc = "poll" /\ (InQueue(k, wakers[task[k].of]) \/ code[task[k].of] # Nil)
        <4>1. task[k].of \in Exits
          BY <2>1, <3>4 DEF TaskInv, TaskOK
        <4> QED
          BY <2>1, <3>1, <3>4, <4>1 DEF WakeStep
      <3> QED
        BY <2>1, <2>3, <3>2, <3>3, <3>4 DEF PendingHasWaker
    <2> QED
      BY <2>2, <2>3
  <1> QED
    BY <1>2, <1>3, <1>4, <1>5 DEF KnownInv

\* The ids in a queue are those of tasks.
LEMMA QueuedAreTasks ==
  ASSUME NEW A, NEW q \in Seq(A), NEW k, InQueue(k, q)
  PROVE  k \in A
  BY DEF InQueue

\* A step that leaves the queues and wakers alone.
LEMMA QueuesUnchanged ==
  ASSUME QueueInv, TaskIds \subseteq TaskIds', CodeStays,
         UNCHANGED <<new_task_queue, ready_queue, overflow, wakers>>
  PROVE  QueueInv' /\ WakeStep
  <1>1. QueueInv'
    <2>1. new_task_queue' \in Seq(TaskIds') /\ ready_queue' \in Seq(TaskIds')
      BY SeqGrows DEF QueueInv
    <2>2. \A x \in Exits : wakers[x] \in Seq(TaskIds')
      BY SeqGrows DEF QueueInv
    <2> QED
      BY <2>1, <2>2 DEF QueueInv
  <1>2. \A k : InQueue(k, ready_queue) => k \in TaskIds
    BY QueuedAreTasks DEF QueueInv
  <1>3. \A x \in Exits : \A k : InQueue(k, wakers[x]) => k \in TaskIds
    BY QueuedAreTasks DEF QueueInv
  <1> QED
    BY <1>1, <1>2, <1>3 DEF WakeStep, CodeStays


-----------------------------------------------------------------------------
\* The life of threads.

\* Two places between which nothing happens to a thread.
SamePlace(a, b) ==
  /\ a \in {"s_lock", "s_push"} <=> b \in {"s_lock", "s_push"}
  /\ a \in {"s_table", "s_sched", "s_add"} <=> b \in {"s_table", "s_sched", "s_add"}
  /\ a \in Takes <=> b \in Takes
  /\ a = "x_code" <=> b = "x_code"
  /\ a \in Tells \ {"x_code"} <=> b \in Tells \ {"x_code"}

\* The task in poll goes on as r without a thread being made, taken out or told.
Idles(r) ==
  /\ SamePlace(T.pc, r.pc) /\ r.todo = T.todo
  /\ r.kind = "fault" <=> T.kind = "fault"
  /\ T.pc \in Makes \/ T.kind \in {"fault", "kill"} => r.of = T.of \/ r = Finished
  /\ polling' = 0 => r.pc \notin Makes \cup Takes \cup Tells
  /\ polling' # 0 => r.kind = T.kind
  /\ T.pc \in {"x_sched", "x_remove"} /\ r.pc \in {"x_lock", "x_leave"} => ~S!Queued(Victim)'
  /\ polling' # 0 /\ r.kind = "kill" /\ r.pc = "post" /\ r.ans = "Success" => T.pc = "post" /\ T.ans = "Success"

\* Nothing happens to a thread.
ThreadsIdle ==
  /\ UNCHANGED <<members, parent, freed>>
  /\ \A t \in UserThreads : code'[t] = code[t] /\ (S!Queued(t)' => S!Queued(t)) /\ state'[t] = state[t]

\* Then what is known of the threads stays true.
LEMMA LifeKept ==
  ASSUME TaskInv, TableInv, LifeInv, ThreadsIdle, NEW r, Becomes(r), SpawnsPlain,
         polling' \in {0, polling}, polling # 0 => TaskOK(r) /\ Idles(r)
  PROVE  LifeInv'
  <1> USE DEF LifeInv
  <1>1. \A k \in TaskIds : /\ task'[k].todo = task[k].todo
                           /\ task'[k].kind = "fault" <=> task[k].kind = "fault"
                           /\ task[k].kind = "fault" =>
                                task'[k].of = task[k].of /\ (task'[k].pc \in Takes <=> task[k].pc \in Takes)
    <2> SUFFICES ASSUME NEW k \in TaskIds
                 PROVE  /\ task'[k].todo = task[k].todo
                        /\ task'[k].kind = "fault" <=> task[k].kind = "fault"
                        /\ task[k].kind = "fault" =>
                             task'[k].of = task[k].of /\ (task'[k].pc \in Takes <=> task[k].pc \in Takes)
      OBVIOUS
    <2>1. CASE k # polling
      BY <2>1 DEF Becomes
    <2>2. CASE k = polling
      <3>1. polling # 0 /\ task'[k] = r /\ task[k] = T
        BY <2>2 DEF Becomes, TaskIds, T
      <3> QED
        BY <3>1 DEF Idles, SamePlace, Takes, Finished, Task
    <2> QED
      BY <2>1, <2>2
  <1>2. \A k \in TaskIds' : k \notin TaskIds => task'[k].todo = {} /\ task'[k].kind # "fault"
    BY DEF SpawnsPlain, Plain
  <1>3. TaskIds \subseteq TaskIds'
    BY DEF Becomes
  <1>4. \A t : (Faulting(t)' <=> Faulting(t)) /\ (ToFault(t)' <=> ToFault(t))
    BY <1>1, <1>2, <1>3 DEF Faulting, ToFault
  <1>5. CASE polling' # 0
    <2>1. polling' = polling /\ polling # 0 /\ T' = r /\ polling \in TaskIds /\ Idles(r) /\ TaskOK(T) /\ TaskOK(r)
      BY <1>5, PolledTask DEF Becomes, T
    <2>2. Victim' = Victim
      BY <2>1 DEF Victim, Idles
    <2>3. /\ In(Makes)' <=> In(Makes)
          /\ In(Takes)' <=> In(Takes)
          /\ In(Tells)' <=> In(Tells)
          /\ In({"s_lock", "s_push"})' <=> In({"s_lock", "s_push"})
          /\ In({"x_code"})' <=> In({"x_code"})
      BY <2>1 DEF In, Idles, SamePlace, Makes, Takes, Tells
    <2>4. \A t : Leaves(t)' <=> Leaves(t)
      BY <2>1, <2>2, <2>3 DEF Leaves, Idles
    <2>5. r.kind = T.kind /\ r.todo = T.todo
      BY <1>5, <2>1 DEF Idles
    <2>6. T.kind = "kill" => r.of = T.of
      BY <2>1, <2>5 DEF Idles, Finished, Task
    <2>7. T.pc \in Makes => r.of = T.of
      BY <2>1, <2>5 DEF Idles, SamePlace, Makes, Finished, Task
    <2>8. ThreadInv'
      <3>1. \A k \in TaskIds' : \A t \in task'[k].todo : parent'[t] \in Pids
        BY <1>1, <1>2 DEF ThreadInv, ThreadsIdle
      <3>2. \A j, k \in TaskIds' : task'[j].kind = "fault" /\ task'[k].kind = "fault" /\ task'[j].of = task'[k].of => j = k
        BY <1>1, <1>2 DEF ThreadInv
      <3> QED
        BY <1>4, <3>1, <3>2 DEF ThreadInv, ThreadsIdle, TableInv
    <2>9. MakeInv'
      <3> SUFFICES ASSUME In(Makes)'
                   PROVE  /\ parent'[r.of] \in Pids /\ ~S!Queued(r.of)' /\ code'[r.of] = Nil /\ freed'[r.of] = 0
                          /\ \A k \in TaskIds' : r.of \notin task'[k].todo
        BY <2>1 DEF MakeInv
      <3>1. In(Makes) /\ r.of = T.of /\ T.of \in UserThreads
        BY <2>1, <2>3, <2>7 DEF In, TaskOK
      <3> QED
        BY <1>1, <1>2, <3>1 DEF MakeInv, ThreadsIdle
    <2>10. VictimInv'
      <3> SUFFICES ASSUME r.pc \in {"x_lock", "x_leave"} \cup Tells PROVE ~S!Queued(Victim)'
        BY <2>1 DEF VictimInv, In
      <3>1. T.pc \in Takes \cup Tells
        BY <2>1 DEF Idles, SamePlace, Takes, Tells
      <3>2. Victim \in UserThreads
        BY <2>1, <3>1 DEF TaskOK, TaskRec, Victim
      <3>3. CASE T.pc \in {"x_sched", "x_remove"}
        BY <2>1, <3>3 DEF Idles, SamePlace, Tells
      <3>4. CASE T.pc \notin {"x_sched", "x_remove"}
        <4>1. In({"x_lock", "x_leave"} \cup Tells)
          BY <2>1, <3>1, <3>4 DEF In, Takes
        <4>2. \A t \in UserThreads : S!Queued(t)' => S!Queued(t)
          BY DEF ThreadsIdle
        <4> QED
          BY <2>2, <3>2, <4>1, <4>2 DEF VictimInv, S!Queued, S!Priority
      <3> QED
        BY <3>3, <3>4
    <2>11. FreedInv'
      BY <1>4, <2>1, <2>4, <2>5 DEF FreedInv, ToKill, ThreadsIdle
    <2>12. AccountInv'
      <3>1. In({"s_lock", "s_push"}) => r.of = T.of
        BY <2>7 DEF In, Makes
      <3> QED
        BY <2>1, <2>2, <2>3, <3>1 DEF AccountInv, ThreadsIdle
    <2>13. KillInv'
      <3>1. T.pc \in Takes \cup Tells <=> r.pc \in Takes \cup Tells
        BY <2>1 DEF Idles, SamePlace, Takes, Tells
      <3> QED
        BY <2>1, <2>4, <2>5, <2>6, <3>1 DEF KillInv, ThreadsIdle
    <2>14. KillIsComplete'
      BY <1>5, <2>1, <2>5, <2>6 DEF KillIsComplete, Idles, ThreadsIdle
    <2> QED
      BY <2>8, <2>9, <2>10, <2>11, <2>12, <2>13, <2>14
  <1>6. CASE polling' = 0
    <2>1. ThreadInv'
      <3>1. \A k \in TaskIds' : \A t \in task'[k].todo : parent'[t] \in Pids
        BY <1>1, <1>2 DEF ThreadInv, ThreadsIdle
      <3>2. \A j, k \in TaskIds' : task'[j].kind = "fault" /\ task'[k].kind = "fault" /\ task'[j].of = task'[k].of => j = k
        BY <1>1, <1>2 DEF ThreadInv
      <3> QED
        BY <1>4, <3>1, <3>2 DEF ThreadInv, ThreadsIdle, TableInv
    <2>2. (\A t : ~ToKill(t)') /\ ~In({"s_lock", "s_push"}) /\ ~In({"x_code"})
      <3>1. \A t : ~ToKill(t)'
        BY <1>6 DEF ToKill, Leaves, In
      <3>2. polling # 0 => T.pc \notin {"s_lock", "s_push", "x_code"}
        BY <1>6 DEF Idles, SamePlace, Makes, Takes, Tells
      <3> QED
        BY <3>1, <3>2 DEF In
    <2>3. FreedInv'
      BY <1>4, <2>2 DEF FreedInv, ThreadsIdle
    <2>4. AccountInv'
      BY <2>2 DEF AccountInv, ThreadsIdle
    <2>5. MakeInv' /\ VictimInv' /\ KillInv' /\ KillIsComplete'
      BY <1>6 DEF MakeInv, VictimInv, KillInv, KillIsComplete, In
    <2> QED
      BY <2>1, <2>3, <2>4, <2>5
  <1> QED
    BY <1>5, <1>6


-----------------------------------------------------------------------------
\* Answers, completions and the table of processes.

\* The answers of tasks stay true.
LEMMA AnswerKept ==
  ASSUME TaskInv, AnswerInv, CodeStays, NEW r, Becomes(r),
         polling # 0 => TaskOK(r) /\ (r.ans \in ExitCodes => r.ans = code'[r.of])
  PROVE  AnswerInv'
  <1> SUFFICES ASSUME NEW k \in TaskIds', task'[k].ans \in ExitCodes
               PROVE  task'[k].ans = code'[task'[k].of]
    BY DEF AnswerInv
  <1>1. k \in TaskIds
    BY NilAssumption DEF Becomes, Fresh, ExitCodes
  <1>2. CASE k = polling
    <2>1. polling # 0 /\ task'[k] = r
      BY <1>1, <1>2 DEF TaskIds, Becomes
    <2> QED
      BY <2>1
  <1>3. CASE k # polling
    <2>1. task'[k] = task[k] /\ TaskOK(task[k])
      BY <1>1, <1>3 DEF Becomes, TaskInv
    <2>2. task[k].of \in Exits /\ task[k].ans = code[task[k].of] /\ task[k].ans # Nil
      BY <1>1, <2>1, NilAssumption DEF TaskOK, AnswerInv, ExitCodes
    <2> QED
      BY <2>1, <2>2 DEF CodeStays
  <1> QED
    BY <1>2, <1>3

\* What has been told stays true.
LEMMA RecvKept ==
  ASSUME RecvInv, CodeStays, recv' = recv
  PROVE  RecvInv'
  <1> SUFFICES ASSUME NEW p \in Pids, NEW i \in 1..Len(recv[p]), recv[p][i].ans \in ExitCodes
               PROVE  recv[p][i].of \in Exits /\ recv[p][i].ans = code'[recv[p][i].of]
    BY DEF RecvInv, IsTrue
  <1>1. recv[p][i].of \in Exits /\ recv[p][i].ans = code[recv[p][i].of]
    BY DEF RecvInv, IsTrue
  <1>2. recv[p][i].ans # Nil
    BY NilAssumption DEF ExitCodes
  <1> QED
    BY <1>1, <1>2 DEF CodeStays

\* Processes are taken out of the table as before.
LEMMA DeadKept ==
  ASSUME TaskInv, DeadInv, processes' = processes, \A p \in Pids : code'[p] = code[p],
         NEW r, Becomes(r),
         polling # 0 /\ T.pc \in {"x_pwlock", "x_pwake"} =>
           polling' = polling /\ r.pc \in {"x_pwlock", "x_pwake"} /\ r.sub = T.sub
  PROVE  DeadInv'
  <1> SUFFICES ASSUME NEW p \in Pids, code'[p] # Nil, p \in processes'
               PROVE  polling' # 0 /\ T'.pc \in {"x_pwlock", "x_pwake"} /\ T'.sub = p
    BY DEF DeadInv, In
  <1>1. polling # 0 /\ T.pc \in {"x_pwlock", "x_pwake"} /\ T.sub = p
    BY DEF DeadInv, In
  <1>2. polling' = polling /\ T' = r
    BY <1>1 DEF Becomes, T
  <1> QED
    BY <1>1, <1>2

-----------------------------------------------------------------------------
\* A step of the task in poll that changes nothing but itself and the locks.

Idle(r) ==
  /\ ~overflow /\ polling # 0 /\ polling' = polling /\ tasks' = tasks
  /\ task' = [task EXCEPT ![polling] = r]
  /\ UNCHANGED <<schedVars, Queues, phase, tables, exits, channels, machine>>

\* Such a step keeps the invariant.
LEMMA IdleInv ==
  ASSUME IInv, NEW r, Idle(r), TaskOK(r), Idles(r), r.ans \in ExitCodes => r.ans = code[r.of],
         T.pc \in {"x_pwlock", "x_pwake"} => r.pc \in {"x_pwlock", "x_pwake"} /\ r.sub = T.sub,
         held' \subseteq Locks
  PROVE  IInv'
  <1>1. TaskInv /\ r \in TaskRec
    BY DEF IInv, TaskOK
  <1>2. Becomes(r) /\ SpawnsPlain /\ TaskIds' = TaskIds
    BY <1>1, StepAlone DEF Idle
  <1>3. PollStep(r) /\ CodeStays
    BY DEF PollStep, CodeStays, Idle, exits
  <1>4. TaskInv'
    BY <1>1, <1>2, <1>3, TaskKept
  <1>5. QueueInv' /\ WakeStep
    BY <1>2, <1>3, QueuesUnchanged DEF IInv, Idle, Queues, exits
  <1>6. KnownInv' /\ PendingHasWaker'
    BY <1>2, <1>3, <1>5, WakeKept DEF IInv, Idle
  <1>7. TableInv'
    BY DEF IInv, TableInv, Idle, tables, exits, channels
  <1>8. SchedInv' /\ \A t \in UserThreads : (S!Queued(t)' <=> S!Queued(t)) /\ state'[t] = state[t]
    BY SchedUnchanged DEF IInv, Idle
  <1>9. LifeInv'
    <2>1. ThreadsIdle
      BY <1>8 DEF ThreadsIdle, Idle, tables, exits
    <2> QED
      BY <1>2, <2>1, LifeKept DEF IInv, Idle
  <1>10. AnswerInv'
    BY <1>2, <1>3, AnswerKept DEF IInv, Idle, exits
  <1>11. RecvInv'
    BY <1>3, RecvKept DEF IInv, Idle, channels
  <1>12. DeadInv'
    BY <1>2, DeadKept DEF IInv, Idle, tables, exits
  <1> QED
    BY <1>4, <1>5, <1>6, <1>7, <1>8, <1>9, <1>10, <1>11, <1>12 DEF IInv


\* The fields of a task whose place changes.
LEMMA Relabelled ==
  ASSUME NEW r \in TaskRec, NEW l \in Labels
  PROVE  LET u == [r EXCEPT !.pc = l]
         IN  /\ u \in TaskRec /\ u.pc = l /\ u.kind = r.kind /\ u.proc = r.proc /\ u.of = r.of
             /\ u.todo = r.todo /\ u.sub = r.sub /\ u.ans = r.ans
  BY DEF TaskRec

\* Taking a lock.
LEMMA AcquireInv ==
  ASSUME IInv, NEW from, NEW to, NEW l \in Locks, Acquire(from, l, to),
         <<from, to>> \in {<<"w_lock", "w_push">>, <<"s_lock", "s_push">>, <<"s_sched", "s_add">>,
                           <<"k_lock", "k_clone">>, <<"x_sched", "x_remove">>, <<"x_lock", "x_leave">>,
                           <<"x_wlock", "x_wake">>, <<"x_pwlock", "x_pwake">>}
  PROVE  IInv'
  <1> DEFINE r == [T EXCEPT !.pc = to]
  <1>1. TaskInv /\ polling # 0 /\ TaskOK(T) /\ T \in TaskRec /\ T.pc = from /\ to \in Labels
    BY PolledTask DEF IInv, Acquire, At, Labels, Makes, Takes, Tells
  <1>2. Idle(r)
    BY <1>1 DEF Idle, Acquire, At, ExecutorRuns, Up, Goto, Continue, E!InPoll
  <1>3. /\ r \in TaskRec /\ r.pc = to /\ r.kind = T.kind /\ r.proc = T.proc /\ r.of = T.of
        /\ r.todo = T.todo /\ r.sub = T.sub /\ r.ans = T.ans
    BY <1>1, Relabelled
  <1> HIDE DEF r
  <1>4. T # Finished /\ T.kind # "done"
    BY <1>1 DEF TaskOK, Finished, Task
  <1>5. T.ans \notin ExitCodes
    BY <1>1 DEF TaskOK
  <1>6. TaskOK(r)
    BY <1>1, <1>3, <1>4, <1>5 DEF TaskOK, Makes, Takes, Tells, CommandKinds
  <1>7. Idles(r)
    BY <1>1, <1>2, <1>3 DEF Idles, Idle, SamePlace, Makes, Takes, Tells
  <1>8. held' \subseteq Locks
    BY DEF Acquire, IInv, TableInv
  <1>9. T.pc \in {"x_pwlock", "x_pwake"} => r.pc \in {"x_pwlock", "x_pwake"} /\ r.sub = T.sub
    BY <1>1, <1>3
  <1> QED
    BY <1>2, <1>3, <1>5, <1>6, <1>7, <1>8, <1>9, IdleInv


\* The thread that is made to exit is one of a process.
LEMMA VictimIs ==
  ASSUME IInv, In(Takes \cup Tells)
  PROVE  /\ polling # 0 /\ Victim \in T.todo /\ Victim \in UserThreads /\ parent[Victim] \in Pids
         /\ T.kind \in {"kill", "fault"} /\ TaskOK(T) /\ T \in TaskRec /\ T # Finished
  <1>1. polling # 0 /\ TaskOK(T) /\ polling \in TaskIds /\ T \in TaskRec /\ T.pc \in Takes \cup Tells
    BY PolledTask DEF IInv, In
  <1>2. T.todo # {} /\ T.kind \in {"kill", "fault"} /\ T.todo \subseteq UserThreads /\ T # Finished
    BY <1>1 DEF TaskOK, TaskRec, Finished, Task, Takes, Tells
  <1>3. Victim \in T.todo
    BY <1>2 DEF Victim
  <1>4. parent[Victim] \in Pids
    BY <1>1, <1>3 DEF IInv, LifeInv, ThreadInv, T
  <1> QED
    BY <1>1, <1>2, <1>3, <1>4

\* Every place where a task takes a lock.
LEMMA LocksInv ==
  ASSUME IInv, \/ LockWakers \/ LockMembers \/ LockToAdd \/ LockToKill \/ LockToRemove \/ LockToLeave
               \/ LockThreadWakers \/ LockProcessWakers
  PROVE  IInv'
  <1> USE DEF Locks
  <1>1. CASE LockWakers
    <2>1. T.of \in Exits
      BY <1>1, PolledTask DEF LockWakers, Acquire, At, IInv, TaskOK
    <2> QED
      BY <1>1, <2>1, AcquireInv DEF LockWakers
  <1>2. CASE LockMembers
    <2>1. parent[T.of] \in Pids
      BY <1>2 DEF LockMembers, Acquire, At, IInv, LifeInv, MakeInv, In, Makes
    <2> QED
      BY <1>2, <2>1, AcquireInv DEF LockMembers
  <1>3. CASE LockToAdd
    BY <1>3, AcquireInv DEF LockToAdd
  <1>4. CASE LockToKill
    <2>1. T.of \in Pids
      BY <1>4, PolledTask DEF LockToKill, Acquire, At, IInv, TaskOK
    <2> QED
      BY <1>4, <2>1, AcquireInv DEF LockToKill
  <1>5. CASE LockToRemove
    BY <1>5, AcquireInv DEF LockToRemove
  <1>6. CASE LockToLeave
    <2>1. parent[Victim] \in Pids
      BY <1>6, VictimIs DEF LockToLeave, Acquire, At, In, Takes
    <2> QED
      BY <1>6, <2>1, AcquireInv DEF LockToLeave
  <1>7. CASE LockThreadWakers
    <2>1. Victim \in Exits
      BY <1>7, VictimIs DEF LockThreadWakers, Acquire, At, In, Tells, Exits
    <2> QED
      BY <1>7, <2>1, AcquireInv DEF LockThreadWakers
  <1>8. CASE LockProcessWakers
    <2>1. T.sub \in Exits
      BY <1>8, PolledTask DEF LockProcessWakers, Acquire, At, IInv, TaskOK, Exits
    <2> QED
      BY <1>8, <2>1, AcquireInv DEF LockProcessWakers
  <1> QED
    BY <1>1, <1>2, <1>3, <1>4, <1>5, <1>6, <1>7, <1>8

\* A place that is left for another one, without an answer or with one.
LEMMA MoveInv ==
  ASSUME IInv, ExecutorRuns, polling # 0, NEW l \in Labels, Goto(l),
         <<T.pc, l>> \in {<<"start", "alloc">>, <<"start", "load">>, <<"start", "k_lock">>, <<"start", "poll">>,
                          <<"poll", "w_lock">>, <<"io", "loaded">>},
         l = "k_lock" => T.kind = "kill", l = "poll" => T.of \in Exits,
         l \in {"alloc", "load"} => T.kind \in {"spawn_thread", "spawn_process"},
         UNCHANGED <<schedVars, Queues, phase, held, tables, exits, channels, machine>>
  PROVE  IInv'
  <1> DEFINE r == [T EXCEPT !.pc = l]
  <1>1. TaskInv /\ TaskOK(T) /\ T \in TaskRec
    BY PolledTask DEF IInv
  <1>2. Idle(r)
    BY <1>1 DEF Idle, ExecutorRuns, Up, Goto, Continue, E!InPoll
  <1>3. /\ r \in TaskRec /\ r.pc = l /\ r.kind = T.kind /\ r.proc = T.proc /\ r.of = T.of
        /\ r.todo = T.todo /\ r.sub = T.sub /\ r.ans = T.ans
    BY <1>1, Relabelled
  <1> HIDE DEF r
  <1>4. T # Finished /\ T.kind # "done"
    BY <1>1 DEF TaskOK, Finished, Task
  <1>5. T.ans \notin ExitCodes
    BY <1>1 DEF TaskOK
  <1>6. TaskOK(r)
    BY <1>1, <1>3, <1>4, <1>5 DEF TaskOK, Makes, Takes, Tells, CommandKinds
  <1>7. Idles(r)
    BY <1>1, <1>2, <1>3 DEF Idles, Idle, SamePlace, Makes, Takes, Tells
  <1>8. held' \subseteq Locks
    BY DEF IInv, TableInv, Locks
  <1> QED
    BY <1>2, <1>3, <1>5, <1>6, <1>7, <1>8, IdleInv

\* A command is answered.
LEMMA AnswerStepInv ==
  ASSUME IInv, ExecutorRuns, polling # 0, NEW a \in Answers, Answer(a),
         T.pc \in {"start", "poll", "alloc", "load", "loaded", "c_queues"},
         a \in ExitCodes => T.of \in Exits /\ a = code[T.of], a # "Success",
         UNCHANGED <<schedVars, Queues, phase, held, tables, exits, channels, machine>>
  PROVE  IInv'
  <1> DEFINE r == [T EXCEPT !.pc = "post", !.ans = a]
  <1>1. TaskInv /\ TaskOK(T) /\ T \in TaskRec
    BY PolledTask DEF IInv
  <1>2. Idle(r)
    BY <1>1 DEF Idle, ExecutorRuns, Up, Answer, Continue, E!InPoll
  <1>3. /\ r \in TaskRec /\ r.pc = "post" /\ r.kind = T.kind /\ r.proc = T.proc /\ r.of = T.of
        /\ r.todo = T.todo /\ r.sub = T.sub /\ r.ans = a
    BY <1>1 DEF TaskRec, Labels
  <1> HIDE DEF r
  <1>4. T # Finished /\ T.kind # "done"
    BY <1>1 DEF TaskOK, Finished, Task
  <1>6. TaskOK(r)
    BY <1>1, <1>3, <1>4 DEF TaskOK, Makes, Takes, Tells, CommandKinds
  <1>7. Idles(r)
    BY <1>1, <1>2, <1>3 DEF Idles, Idle, SamePlace, Makes, Takes, Tells
  <1>8. held' \subseteq Locks
    BY DEF IInv, TableInv, Locks
  <1> QED
    BY <1>2, <1>3, <1>6, <1>7, <1>8, IdleInv


\* The task is finished.
LEMMA DoneInv ==
  ASSUME IInv, ExecutorRuns, polling # 0, Done, T.pc \in {"start", "post"}, RecvInv',
         UNCHANGED <<schedVars, Queues, held, tables, exits, send, machine>>
  PROVE  IInv'
  <1>1. TaskInv /\ TaskOK(T) /\ T \in TaskRec
    BY PolledTask DEF IInv
  <1>2. /\ Finished \in TaskRec /\ Finished.pc = "done" /\ Finished.kind = "done" /\ Finished.todo = {}
        /\ Finished.ans = Nil /\ Finished.sub = Nil
    BY DEF Finished, Task, TaskRec, Labels, Kinds, Answers
  <1>3. TaskOK(Finished)
    BY <1>2, NilAssumption DEF TaskOK, Makes, Takes, Tells, ExitCodes
  <1>4. Becomes(Finished) /\ SpawnsPlain /\ TaskIds' = TaskIds
    BY <1>1, <1>2, StepAlone DEF Done
  <1>5. PollStep(Finished) /\ CodeStays /\ polling' = 0
    BY DEF PollStep, CodeStays, Done, E!Ready, exits
  <1>6. TaskInv'
    BY <1>1, <1>3, <1>4, <1>5, TaskKept
  <1>7. QueueInv' /\ WakeStep
    BY <1>4, <1>5, QueuesUnchanged DEF IInv, Queues, exits
  <1>8. KnownInv' /\ PendingHasWaker'
    BY <1>4, <1>5, <1>7, WakeKept DEF IInv, ExecutorRuns, Up
  <1>9. TableInv'
    BY DEF IInv, TableInv, tables, exits
  <1>10. SchedInv' /\ \A t \in UserThreads : (S!Queued(t)' <=> S!Queued(t)) /\ state'[t] = state[t]
    BY SchedUnchanged DEF IInv
  <1>11. LifeInv'
    <2>1. ThreadsIdle
      BY <1>10 DEF ThreadsIdle, tables, exits
    <2>2. T.todo = {} /\ T.kind # "fault"
      BY <1>1 DEF TaskOK, Takes, Tells
    <2>3. Idles(Finished)
      BY <1>2, <1>5, <2>2 DEF Idles, SamePlace, Makes, Takes, Tells
    <2> QED
      BY <1>3, <1>4, <1>5, <2>1, <2>3, LifeKept DEF IInv
  <1>12. AnswerInv'
    BY <1>2, <1>3, <1>4, <1>5, AnswerKept, NilAssumption DEF IInv, ExitCodes
  <1>13. DeadInv'
    BY <1>4, DeadKept DEF IInv, tables, exits
  <1> QED
    BY <1>6, <1>7, <1>8, <1>9, <1>10, <1>11, <1>12, <1>13 DEF IInv

\* dispatch_command.
LEMMA StartInv == ASSUME IInv, Start PROVE IInv'
  <1>1. ExecutorRuns /\ polling # 0 /\ T.pc = "start" /\ TaskOK(T) /\ T.kind \in CommandKinds
    BY PolledTask DEF Start, At, IInv, TaskOK
  <1>2. UNCHANGED <<schedVars, Queues, phase, held, tables, exits, channels, machine>>
    BY DEF Start
  <1>3. CASE Done
    <2>1. RecvInv'
      BY <1>2, RecvKept DEF IInv, exits, channels, CodeStays
    <2> QED
      BY <1>1, <1>2, <1>3, <2>1, DoneInv DEF channels
  <1>4. CASE Answer("Err")
    BY <1>1, <1>2, <1>4, AnswerStepInv DEF Answers, ExitCodes
  <1>5. CASE ~Done /\ ~Answer("Err")
    <2>1. PICK l \in {"alloc", "load", "k_lock", "poll"} :
            /\ Goto(l) /\ (l = "k_lock" => T.kind = "kill")
            /\ l = "poll" => T.kind \in {"watch_thread", "watch_process"}
            /\ l \in {"alloc", "load"} => T.kind \in {"spawn_thread", "spawn_process"}
      <3>1. Goto([spawn_thread |-> "alloc", spawn_process |-> "load",
                  kill |-> "k_lock", watch_thread |-> "poll", watch_process |-> "poll"][T.kind])
        BY <1>5 DEF Start
      <3> QED
        BY <1>1, <3>1 DEF CommandKinds
    <2>2. l = "poll" => T.of \in Exits
      BY <1>1, <2>1 DEF TaskOK, Exits
    <2> QED
      BY <1>1, <1>2, <2>1, <2>2, MoveInv DEF Labels
  <1> QED
    BY <1>3, <1>4, <1>5

\* ExitFuture::poll finds the exit state set, or goes on to leave its waker.
LEMMA PollExitInv == ASSUME IInv, PollExit PROVE IInv'
  <1>1. ExecutorRuns /\ polling # 0 /\ T.pc = "poll" /\ TaskOK(T) /\ T.of \in Exits
    BY PolledTask DEF PollExit, At, IInv, TaskOK
  <1>2. UNCHANGED <<schedVars, Queues, phase, held, tables, exits, channels, machine>>
    BY DEF PollExit
  <1>3. CASE code[T.of] # Nil
    <2>1. code[T.of] \in ExitCodes /\ Answer(code[T.of])
      BY <1>1, <1>3 DEF PollExit, IInv, TableInv
    <2> QED
      BY <1>1, <1>2, <2>1, AnswerStepInv DEF Answers, ExitCodes
  <1>4. CASE code[T.of] = Nil
    <2>1. Goto("w_lock")
      BY <1>4 DEF PollExit
    <2> QED
      BY <1>1, <1>2, <2>1, MoveInv DEF Labels
  <1> QED
    BY <1>3, <1>4

\* A command fails.
LEMMA FailInv == ASSUME IInv, Fail PROVE IInv'
  BY AnswerStepInv DEF Fail, At, Answers, ExitCodes

\* The binary has been read.
LEMMA BinaryReadInv == ASSUME IInv, BinaryRead PROVE IInv'
  BY MoveInv DEF BinaryRead, At, Labels


\* Completions that are posted tell the truth.
LEMMA PostedIsTrue ==
  ASSUME IInv, polling # 0, T.pc = "post", UNCHANGED code,
         recv' = recv \/ recv' = [recv EXCEPT ![T.proc] = Append(@, Completion)]
  PROVE  RecvInv'
  <1>1. polling \in TaskIds /\ TaskOK(T) /\ T \in TaskRec
    BY PolledTask DEF IInv
  <1>2. T.proc \in Pids
    BY <1>1 DEF TaskOK, Finished, Task
  <1>3. Completion \in CompletionRec /\ Completion.ans = T.ans /\ Completion.of = T.of
    BY <1>1 DEF Completion, CompletionRec, TaskRec
  <1>4. IsTrue(Completion)
    BY <1>1, <1>3 DEF IsTrue, TaskOK, IInv, AnswerInv, T
  <1>5. CodeStays
    BY DEF CodeStays
  <1>6. CASE recv' = recv
    BY <1>5, <1>6, RecvKept DEF IInv
  <1>7. CASE recv' = [recv EXCEPT ![T.proc] = Append(@, Completion)]
    <2> DEFINE q == recv[T.proc]
    <2>1. q \in Seq(CompletionRec) /\ recv \in [Pids -> Seq(CompletionRec)]
      BY <1>2 DEF IInv, RecvInv
    <2>2. recv'[T.proc] = Append(q, Completion) /\ \A p \in Pids : p # T.proc => recv'[p] = recv[p]
      BY <1>2, <1>7, <2>1
    <2>3. /\ Len(Append(q, Completion)) = Len(q) + 1 /\ Len(q) \in Nat
          /\ Append(q, Completion)[Len(q) + 1] = Completion
          /\ \A i \in 1..Len(q) : Append(q, Completion)[i] = q[i]
      BY <1>3, <2>1
    <2>4. \A i \in 1..Len(q) : IsTrue(q[i])
      BY <1>2 DEF IInv, RecvInv
    <2>5. \A i \in 1..Len(recv'[T.proc]) : IsTrue(recv'[T.proc][i])
      BY <1>4, <2>2, <2>3, <2>4
    <2>6. \A p \in Pids : \A i \in 1..Len(recv'[p]) : IsTrue(recv'[p][i])
      BY <2>2, <2>5 DEF IInv, RecvInv
    <2>7. recv' \in [Pids -> Seq(CompletionRec)]
      BY <1>2, <1>3, <1>7, <2>1
    <2> QED
      BY <2>6, <2>7 DEF RecvInv, IsTrue
  <1> QED
    BY <1>6, <1>7

\* The completion of a command is posted.
LEMMA PostCompletionInv == ASSUME IInv, PostCompletion PROVE IInv'
  <1>1. RecvInv'
    BY PostedIsTrue DEF PostCompletion, At, exits
  <1> QED
    BY <1>1, DoneInv DEF PostCompletion, At

\* The completion of an exit is posted or dropped.
LEMMA PostExitInv == ASSUME IInv, PostExit PROVE IInv'
  <1>1. RecvInv'
    BY PostedIsTrue DEF PostExit, At, exits
  <1> QED
    BY <1>1, DoneInv DEF PostExit, At

-----------------------------------------------------------------------------
\* Steps that change no task and no thread.

\* A thread that runs has not begun to exit.
LEMMA RunnerIs ==
  ASSUME IInv, NEW t \in UserThreads, Runs(t)
  PROVE  /\ parent[t] \in Pids /\ S!Queued(t) /\ state[t] = "Running"
         /\ code[t] = Nil /\ freed[t] = 0 /\ ~Faulting(t)
  <1>1. S!Queued(t) /\ state[t] = "Running"
    BY SchedFacts DEF Runs, IInv
  <1> QED
    BY <1>1 DEF IInv, LifeInv, ThreadInv

\* A step of user code, or one that stops the machine.
LEMMA ChannelInv ==
  ASSUME IInv, ~overflow, UNCHANGED <<schedVars, execVars, task, held, tables, exits>>,
         RecvInv', send' \in [Pids -> Seq(Commands)], machine' \in {"up", "hung", "panic", "off"}
  PROVE  IInv'
  <1>1. TaskInv /\ (polling # 0 => TaskOK(T))
    BY PolledTask DEF IInv
  <1>2. Becomes(T) /\ SpawnsPlain /\ TaskIds' = TaskIds
    BY <1>1, StepOfNone
  <1>3. PollStep(T) /\ CodeStays /\ polling' = polling
    BY DEF PollStep, CodeStays, execVars, exits
  <1>4. TaskInv'
    BY <1>1, <1>2, <1>3, TaskKept
  <1>5. QueueInv' /\ WakeStep
    BY <1>2, <1>3, QueuesUnchanged DEF IInv, execVars, exits
  <1>6. KnownInv' /\ PendingHasWaker'
    BY <1>2, <1>3, <1>5, WakeKept DEF IInv
  <1>7. TableInv'
    BY DEF IInv, TableInv, tables, exits
  <1>8. SchedInv' /\ \A t \in UserThreads : (S!Queued(t)' <=> S!Queued(t)) /\ state'[t] = state[t]
    BY SchedUnchanged DEF IInv
  <1>9. LifeInv'
    <2>1. ThreadsIdle
      BY <1>8 DEF ThreadsIdle, tables, exits
    <2>2. polling # 0 => Idles(T)
      BY <1>3 DEF Idles, SamePlace
    <2> QED
      BY <1>1, <1>2, <1>3, <2>1, <2>2, LifeKept DEF IInv
  <1>10. AnswerInv'
    BY <1>2, <1>3 DEF IInv, AnswerInv, Becomes, exits
  <1>11. DeadInv'
    BY <1>2, <1>3, DeadKept DEF IInv, tables, exits
  <1> QED
    BY <1>4, <1>5, <1>6, <1>7, <1>8, <1>9, <1>10, <1>11 DEF IInv

\* User code posts a command.
LEMMA PostCommandInv ==
  ASSUME IInv, NEW t \in UserThreads, NEW c \in Commands, PostCommand(t, c)
  PROVE  IInv'
  <1>1. parent[t] \in Pids /\ send \in [Pids -> Seq(Commands)]
    BY RunnerIs DEF PostCommand, IInv, TableInv
  <1>2. send' \in [Pids -> Seq(Commands)]
    BY <1>1 DEF PostCommand
  <1>3. RecvInv'
    BY RecvKept DEF PostCommand, IInv, CodeStays, exits
  <1> QED
    BY <1>2, <1>3, ChannelInv DEF PostCommand, Runs, Up

\* User code takes a completion.
LEMMA TakeCompletionInv ==
  ASSUME IInv, NEW t \in UserThreads, TakeCompletion(t)
  PROVE  IInv'
  <1> DEFINE p == parent[t]
             q == recv[p]
  <1>1. p \in Pids /\ recv \in [Pids -> Seq(CompletionRec)] /\ q # <<>>
    BY RunnerIs DEF TakeCompletion, IInv, RecvInv
  <1>2. q \in Seq(CompletionRec)
    BY <1>1
  <1>3. recv' = [recv EXCEPT ![p] = Tail(q)]
    BY DEF TakeCompletion
  <1>4. recv'[p] = Tail(q) /\ \A o \in Pids : o # p => recv'[o] = recv[o]
    BY <1>1, <1>3
  <1>5. Tail(q) \in Seq(CompletionRec) /\ \A i \in 1..Len(Tail(q)) : i + 1 \in 1..Len(q) /\ Tail(q)[i] = q[i + 1]
    BY <1>1, <1>2
  <1>6. \A i \in 1..Len(q) : IsTrue(q[i])
    BY <1>1 DEF IInv, RecvInv
  <1>7. \A o \in Pids : \A i \in 1..Len(recv'[o]) : IsTrue(recv'[o][i])
    <2>1. \A i \in 1..Len(recv'[p]) : IsTrue(recv'[p][i])
      BY <1>4, <1>5, <1>6
    <2>2. \A o \in Pids : o # p => \A i \in 1..Len(recv'[o]) : IsTrue(recv'[o][i])
      BY <1>4 DEF IInv, RecvInv
    <2> QED
      BY <2>1, <2>2
  <1>8. RecvInv'
    BY <1>1, <1>3, <1>5, <1>7 DEF RecvInv, IsTrue, TakeCompletion, exits
  <1>9. send' \in [Pids -> Seq(Commands)]
    BY DEF TakeCompletion, IInv, TableInv
  <1> QED
    BY <1>8, <1>9, ChannelInv DEF TakeCompletion, Runs, Up, IInv, TableInv

\* The machine stops.
LEMMA MachineInv ==
  ASSUME IInv, Hang \/ PostOverflow \/ PowerOff \/ \E t \in UserThreads : WaitForMessage(t)
  PROVE  IInv'
  <1>1. /\ ~overflow /\ UNCHANGED <<schedVars, execVars, task, held, tables, exits, channels>>
        /\ machine' \in {"up", "hung", "panic", "off"}
    BY DEF Hang, PostOverflow, PowerOff, WaitForMessage, At, ExecutorRuns, EnterHandler, Up
  <1>2. RecvInv'
    BY <1>1, RecvKept DEF IInv, CodeStays, exits, channels
  <1>3. send' \in [Pids -> Seq(Commands)]
    BY <1>1 DEF IInv, TableInv, channels
  <1> QED
    BY <1>1, <1>2, <1>3, ChannelInv


-----------------------------------------------------------------------------
\* Polls that end Pending.

\* A task answers Pending, with its waker where it waits.
LEMMA PendingInv ==
  ASSUME IInv, ExecutorRuns, polling # 0, NEW l \in {"poll", "io"},
         task' = [task EXCEPT ![polling] = [T EXCEPT !.pc = l]], E!Pending,
         <<T.pc, l>> \in {<<"w_push", "poll">>, <<"load", "io">>},
         l = "poll" => InQueue(polling, wakers'[T.of]), QueueInv', WakeStep, held' \subseteq Locks,
         UNCHANGED <<schedVars, Queues, tables, code, channels, machine>>
  PROVE  IInv'
  <1> DEFINE r == [T EXCEPT !.pc = l]
  <1>1. TaskInv /\ TaskOK(T) /\ T \in TaskRec /\ l \in Labels
    BY PolledTask DEF IInv, Labels
  <1>2. /\ r \in TaskRec /\ r.pc = l /\ r.kind = T.kind /\ r.proc = T.proc /\ r.of = T.of
        /\ r.todo = T.todo /\ r.sub = T.sub /\ r.ans = T.ans
    BY <1>1, Relabelled
  <1>3. task' = [task EXCEPT ![polling] = r]
    OBVIOUS
  <1> HIDE DEF r
  <1>4. T # Finished /\ T.kind # "done" /\ T.ans \notin ExitCodes
    BY <1>1 DEF TaskOK, Finished, Task
  <1>5. TaskOK(r)
    BY <1>1, <1>2, <1>4 DEF TaskOK, Makes, Takes, Tells, CommandKinds
  <1>6. Becomes(r) /\ SpawnsPlain /\ TaskIds' = TaskIds
    BY <1>1, <1>2, <1>3, StepAlone
  <1>7. PollStep(r) /\ CodeStays /\ polling' = 0
    BY <1>2 DEF PollStep, CodeStays, E!Pending
  <1>8. TaskInv'
    BY <1>1, <1>5, <1>6, <1>7, TaskKept
  <1>9. KnownInv' /\ PendingHasWaker'
    BY <1>6, <1>7, WakeKept DEF IInv, ExecutorRuns, Up
  <1>10. TableInv'
    BY DEF IInv, TableInv, tables, channels
  <1>11. SchedInv' /\ \A t \in UserThreads : (S!Queued(t)' <=> S!Queued(t)) /\ state'[t] = state[t]
    BY SchedUnchanged DEF IInv
  <1>12. LifeInv'
    <2>1. ThreadsIdle
      BY <1>11 DEF ThreadsIdle, tables
    <2>2. Idles(r)
      BY <1>2, <1>7 DEF Idles, SamePlace, Makes, Takes, Tells
    <2> QED
      BY <1>5, <1>6, <1>7, <2>1, <2>2, LifeKept DEF IInv
  <1>13. AnswerInv'
    BY <1>2, <1>4, <1>5, <1>6, <1>7, AnswerKept DEF IInv
  <1>14. DeadInv'
    BY <1>6, DeadKept DEF IInv, tables
  <1>15. RecvInv'
    BY <1>7, RecvKept DEF IInv, channels
  <1> QED
    BY <1>8, <1>9, <1>10, <1>11, <1>12, <1>13, <1>14, <1>15 DEF IInv

\* The waker of the task is left in the exit state.
LEMMA PushWakerInv == ASSUME IInv, PushWaker PROVE IInv'
  <1>1. /\ ExecutorRuns /\ polling # 0 /\ T.pc = "w_push" /\ TaskOK(T) /\ T.of \in Exits
        /\ polling \in TaskIds
    BY PolledTask DEF PushWaker, At, IInv, TaskOK
  <1>2. task' = [task EXCEPT ![polling] = [T EXCEPT !.pc = "poll"]] /\ TaskIds' = TaskIds
    <2>1. task' = [task EXCEPT ![polling] = [T EXCEPT !.pc = "poll"]]
      BY DEF PushWaker, T
    <2>2. [T EXCEPT !.pc = "poll"] \in TaskRec
      BY <1>1, Relabelled DEF TaskOK, Labels
    <2> QED
      BY <1>1, <2>1, <2>2, StepAlone DEF IInv
  <1> DEFINE q == wakers[T.of]
             one == <<polling>>
  <1>3. q \in Seq(TaskIds) /\ wakers \in [Exits -> Seq(TaskIds)] /\ one \in Seq(TaskIds)
    BY <1>1 DEF IInv, QueueInv
  <1>4. wakers' = [wakers EXCEPT ![T.of] = q \o one]
    <2>1. Append(q, polling) = q \o one
      BY <1>1, <1>3
    <2> QED
      BY <2>1 DEF PushWaker
  <1>5. /\ wakers'[T.of] = q \o one /\ \A x \in Exits : x # T.of => wakers'[x] = wakers[x]
    BY <1>1, <1>3, <1>4
  <1>6. /\ q \o one \in Seq(TaskIds)
        /\ \A k : InQueue(k, q \o one) <=> InQueue(k, q) \/ InQueue(k, one)
    BY <1>3, InConcat
  <1>7. \A k : InQueue(k, one) <=> k = polling
    BY DEF InQueue
  <1> HIDE DEF one, q
  <1>8. InQueue(polling, wakers'[T.of])
    BY <1>5, <1>6, <1>7
  <1>9. UNCHANGED <<new_task_queue, ready_queue, overflow, code>>
    BY DEF PushWaker, Queues
  <1>10. QueueInv'
    BY <1>2, <1>3, <1>4, <1>6, <1>9 DEF IInv, QueueInv
  <1>11. WakeStep
    <2>1. \A k : InQueue(k, ready_queue) => k \in TaskIds
      BY QueuedAreTasks DEF IInv, QueueInv
    <2>2. \A x \in Exits : \A k : InQueue(k, wakers'[x]) => InQueue(k, wakers[x]) \/ k = polling
      BY <1>5, <1>6, <1>7 DEF q
    <2>3. \A x \in Exits : \A k : InQueue(k, wakers[x]) => InQueue(k, wakers'[x])
      BY <1>5, <1>6 DEF q
    <2> QED
      BY <1>1, <1>2, <1>9, <2>1, <2>2, <2>3 DEF WakeStep
  <1>12. held' \subseteq Locks
    BY DEF PushWaker, IInv, TableInv
  <1> QED
    BY <1>1, <1>2, <1>8, <1>10, <1>11, <1>12, PendingInv DEF PushWaker

\* The task waits for the device.
LEMMA ReadBinaryInv == ASSUME IInv, ReadBinary PROVE IInv'
  <1>1. ExecutorRuns /\ polling # 0 /\ T.pc = "load" /\ TaskOK(T)
    BY PolledTask DEF ReadBinary, At, IInv
  <1>2. task' = [task EXCEPT ![polling] = [T EXCEPT !.pc = "io"]] /\ TaskIds' = TaskIds
    <2>1. task' = [task EXCEPT ![polling] = [T EXCEPT !.pc = "io"]]
      BY DEF ReadBinary, T
    <2>2. [T EXCEPT !.pc = "io"] \in TaskRec
      BY <1>1, Relabelled DEF TaskOK, Labels
    <2> QED
      BY <1>1, <2>1, <2>2, StepAlone DEF IInv
  <1>3. QueueInv' /\ WakeStep
    BY <1>2, QueuesUnchanged DEF IInv, ReadBinary, Queues, exits, CodeStays
  <1>4. held' \subseteq Locks
    BY DEF ReadBinary, IInv, TableInv
  <1> QED
    BY <1>1, <1>2, <1>3, <1>4, PendingInv DEF ReadBinary, exits


-----------------------------------------------------------------------------
\* The loops of the executor.

\* Between two polls nothing but the choice of the next task happens.
LEMMA LoopInv ==
  ASSUME IInv, ~overflow, polling = 0, polling' \in {0} \cup tasks', tasks' \subseteq TaskIds,
         tasks \subseteq tasks', QueueInv', KnownInv', PendingHasWaker',
         UNCHANGED <<schedVars, task, held, tables, exits, channels, machine>>
  PROVE  IInv'
  <1>1. TaskIds' = TaskIds /\ task' = task
    BY DEF TaskIds
  <1>2. \A k \in TaskIds : TaskOK(task[k]) /\ Rests(task[k])
    BY DEF IInv, TaskInv, TaskIds
  <1>3. TaskInv'
    BY <1>1, <1>2 DEF IInv, TaskInv, TaskOK, Rests
  <1>4. TableInv' /\ AnswerInv'
    BY <1>1 DEF IInv, TableInv, AnswerInv, tables, exits, channels
  <1>5. RecvInv'
    BY RecvKept DEF IInv, channels, exits, CodeStays
  <1>6. SchedInv' /\ \A t \in UserThreads : (S!Queued(t)' <=> S!Queued(t)) /\ state'[t] = state[t]
    BY SchedUnchanged DEF IInv
  <1>7. DeadInv'
    BY DEF IInv, DeadInv, In, tables, exits
  <1>8. LifeInv'
    <2>1. polling' # 0 => T' = task[polling'] /\ TaskOK(T') /\ Rests(T')
      BY <1>1, <1>2 DEF T
    <2>2. /\ ~In(Makes)' /\ ~In(Tells)' /\ ~In({"x_lock", "x_leave"} \cup Tells)'
          /\ ~In({"s_lock", "s_push"}) /\ ~In({"x_code"})
      BY <2>1 DEF In, Rests, Makes, Tells
    <2>3. polling' # 0 /\ T'.kind = "kill" => T'.pc \notin Takes \cup Tells /\ T'.todo = {} /\ T'.pc # "post"
      BY <2>1 DEF Rests, TaskOK, Takes, Tells
    <2>4. \A t : ~ToKill(t)'
      BY <2>2, <2>3 DEF ToKill, Leaves, In
    <2>5. \A t : (Faulting(t)' <=> Faulting(t)) /\ (ToFault(t)' <=> ToFault(t))
      BY <1>1 DEF Faulting, ToFault
    <2>6. ThreadInv'
      BY <1>1, <1>6, <2>5 DEF IInv, LifeInv, ThreadInv, tables, exits
    <2>7. MakeInv' /\ VictimInv'
      BY <2>2 DEF MakeInv, VictimInv
    <2>8. FreedInv'
      BY <2>4, <2>5 DEF IInv, LifeInv, FreedInv, tables
    <2>9. AccountInv'
      BY <2>2 DEF IInv, LifeInv, AccountInv, tables, exits
    <2>10. KillInv' /\ KillIsComplete'
      BY <2>3 DEF KillInv, KillIsComplete
    <2> QED
      BY <2>6, <2>7, <2>8, <2>9, <2>10 DEF LifeInv
  <1> QED
    BY <1>3, <1>4, <1>5, <1>6, <1>7, <1>8 DEF IInv

\* run_executor outside of a poll.
LEMMA ExecutorLoopInv == ASSUME IInv, ExecutorLoop PROVE IInv'
  <1>1. /\ ~overflow /\ UNCHANGED <<schedVars, task, held, tables, exits, channels, machine>>
        /\ TaskIds' = TaskIds /\ wakers' = wakers /\ code' = code
    BY DEF ExecutorLoop, ExecutorRuns, Up, exits, TaskIds
  <1>2. QueueInv /\ KnownInv /\ PendingHasWaker /\ TaskInv
    BY DEF IInv
  <1>3. CASE E!AddNewTask
    <2> DEFINE h == Head(new_task_queue)
               one == <<h>>
    <2>1. /\ polling = 0 /\ polling' = 0 /\ new_task_queue # <<>>
          /\ new_task_queue' = Tail(new_task_queue) /\ tasks' = tasks \cup {h}
      BY <1>3 DEF E!AddNewTask
    <2>2. /\ Tail(new_task_queue) \in Seq(TaskIds) /\ h \in TaskIds
          /\ \A k : InQueue(k, new_task_queue) <=> k = h \/ InQueue(k, Tail(new_task_queue))
      BY <1>2, <2>1, InTail DEF QueueInv
    <2>3. one \in Seq(TaskIds) /\ Len(one) = 1
      BY <2>2
    <2>4. \A k : InQueue(k, one) <=> k = h
      BY DEF InQueue
    <2>5. /\ ready_queue' = E!Pushed(ready_queue, one, ReadyCapacity)
          /\ overflow' = (Len(ready_queue) >= ReadyCapacity)
      BY <1>3 DEF E!AddNewTask
    <2> HIDE DEF h, one
    <2>6. ready_queue \in Seq(TaskIds) /\ Len(ready_queue) \in Nat
      BY <1>2 DEF QueueInv
    <2>7. \/ ready_queue' = ready_queue \o one
          \/ ready_queue' = ready_queue /\ overflow'
      <3>1. CASE Len(ready_queue) + Len(one) <= ReadyCapacity
        BY <2>5, <3>1 DEF E!Pushed
      <3>2. CASE ~(Len(ready_queue) + Len(one) <= ReadyCapacity)
        <4>1. Len(ready_queue) >= ReadyCapacity
          BY <2>3, <2>6, <3>2, CapacityAssumption
        <4>2. overflow'
          BY <2>5, <4>1
        <4> QED
          BY <2>5, <3>2, <4>2 DEF E!Pushed
      <3> QED
        BY <3>1, <3>2
    <2>8. ready_queue \o one \in Seq(TaskIds) /\ \A k : InQueue(k, ready_queue \o one) <=> InQueue(k, ready_queue) \/ k = h
      BY <2>3, <2>4, <2>6, InConcat
    <2>9. QueueInv'
      <3>1. ready_queue' \in Seq(TaskIds) /\ new_task_queue' \in Seq(TaskIds)
        BY <2>1, <2>2, <2>6, <2>7, <2>8
      <3>2. overflow' \in BOOLEAN
        BY <2>5
      <3> QED
        BY <1>1, <1>2, <3>1, <3>2 DEF QueueInv
    <2>10. KnownInv'
      BY <1>1, <1>2, <2>1, <2>7, <2>8 DEF KnownInv, ReadyIsKnown
    <2>11. PendingHasWaker'
      <3> SUFFICES ASSUME NEW k \in tasks', k # 0
                   PROVE  \/ InQueue(k, ready_queue') \/ InQueue(k, new_task_queue') \/ overflow'
                          \/ task[k].pc = "io"
                          \/ task[k].pc = "poll" /\ (InQueue(k, wakers[task[k].of]) \/ code[task[k].of] # Nil)
        BY <1>1, <2>1 DEF PendingHasWaker
      <3>1. CASE k = h
        BY <2>7, <2>8, <3>1
      <3>2. CASE k # h
        <4>1. k \in tasks \ {polling}
          BY <2>1, <3>2
        <4>2. InQueue(k, ready_queue) => InQueue(k, ready_queue') \/ overflow'
          BY <2>7, <2>8
        <4>3. InQueue(k, new_task_queue) => InQueue(k, new_task_queue')
          BY <2>1, <2>2, <3>2
        <4> QED
          BY <1>1, <1>2, <4>1, <4>2, <4>3 DEF PendingHasWaker
      <3> QED
        BY <3>1, <3>2
    <2>12. tasks \subseteq tasks' /\ tasks' \subseteq TaskIds
      BY <1>2, <2>1, <2>2 DEF TaskInv
    <2> QED
      BY <1>1, <2>1, <2>9, <2>10, <2>11, <2>12, LoopInv
  <1>4. CASE E!SwitchLoop
    <2>1. polling = 0 /\ UNCHANGED <<new_task_queue, ready_queue, tasks, polling, overflow>>
      BY <1>4 DEF E!SwitchLoop
    <2>2. QueueInv' /\ KnownInv' /\ PendingHasWaker'
      BY <1>1, <1>2, <2>1 DEF QueueInv, KnownInv, ReadyIsKnown, PendingHasWaker
    <2> QED
      BY <1>1, <1>2, <2>1, <2>2, LoopInv DEF TaskInv
  <1>5. CASE E!PopReady
    <2> DEFINE h == Head(ready_queue)
    <2>1. /\ polling = 0 /\ polling' = (IF h \in tasks THEN h ELSE 0) /\ ready_queue # <<>>
          /\ ready_queue' = Tail(ready_queue) /\ UNCHANGED <<new_task_queue, tasks, overflow>>
      BY <1>5 DEF E!PopReady
    <2>2. /\ Tail(ready_queue) \in Seq(TaskIds) /\ h \in TaskIds
          /\ \A k : InQueue(k, ready_queue) <=> k = h \/ InQueue(k, Tail(ready_queue))
      BY <1>2, <2>1, InTail DEF QueueInv
    <2> HIDE DEF h
    <2>3. QueueInv'
      BY <1>1, <1>2, <2>1, <2>2 DEF QueueInv
    <2>4. KnownInv'
      BY <1>1, <1>2, <2>1, <2>2 DEF KnownInv, ReadyIsKnown
    <2>5. PendingHasWaker'
      <3> SUFFICES ASSUME NEW k \in tasks, k # polling'
                   PROVE  \/ InQueue(k, ready_queue') \/ InQueue(k, new_task_queue') \/ overflow'
                          \/ task[k].pc = "io"
                          \/ task[k].pc = "poll" /\ (InQueue(k, wakers[task[k].of]) \/ code[task[k].of] # Nil)
        BY <1>1, <2>1 DEF PendingHasWaker
      <3>1. k # h
        BY <2>1
      <3>2. k \in tasks \ {polling}
        BY <1>2, <2>1 DEF TaskInv, TaskIds
      <3>3. InQueue(k, ready_queue) => InQueue(k, ready_queue')
        BY <2>1, <2>2, <3>1
      <3> QED
        BY <1>1, <1>2, <2>1, <3>2, <3>3 DEF PendingHasWaker
    <2> QED
      BY <1>1, <1>2, <2>1, <2>3, <2>4, <2>5, LoopInv DEF TaskInv
  <1> QED
    BY <1>3, <1>4, <1>5 DEF ExecutorLoop, E!Loop


-----------------------------------------------------------------------------
\* Steps of the task in poll that do something to a thread or a process.

\* What such a step keeps whatever it does to them.
LEMMA WorkInv ==
  ASSUME IInv, ~overflow, polling # 0, polling' = polling, tasks' = tasks,
         NEW r, task' = [task EXCEPT ![polling] = r], TaskOK(r),
         r.ans \notin ExitCodes, CodeStays,
         UNCHANGED <<Queues, wakers, recv>>, TableInv', LifeInv', DeadInv', SchedInv'
  PROVE  IInv'
  <1>1. TaskInv /\ r \in TaskRec
    BY DEF IInv, TaskOK
  <1>2. Becomes(r) /\ SpawnsPlain /\ TaskIds' = TaskIds
    BY <1>1, StepAlone
  <1>3. PollStep(r)
    BY DEF PollStep
  <1>4. TaskInv'
    BY <1>1, <1>2, <1>3, TaskKept
  <1>5. QueueInv' /\ WakeStep
    BY <1>2, QueuesUnchanged DEF IInv, Queues
  <1>6. KnownInv' /\ PendingHasWaker'
    BY <1>2, <1>3, <1>5, WakeKept DEF IInv
  <1>7. AnswerInv'
    BY <1>2, AnswerKept DEF IInv
  <1>8. RecvInv'
    BY RecvKept DEF IInv
  <1> QED
    BY <1>4, <1>5, <1>6, <1>7, <1>8 DEF IInv

\* The process is in the table, without a thread.
LEMMA MakeProcessInv == ASSUME IInv, MakeProcess PROVE IInv'
  <1> DEFINE r == [T EXCEPT !.pc = "c_queues", !.of = NewPid]
  <1>1. /\ ExecutorRuns /\ polling # 0 /\ T.pc = "loaded" /\ TaskInv /\ TaskOK(T) /\ T \in TaskRec
        /\ T.kind \in {"spawn_thread", "spawn_process"} /\ ~overflow
    BY PolledTask DEF MakeProcess, At, IInv, TaskOK, ExecutorRuns, Up
  <1>2. NewPid \in Pids /\ code[NewPid] = Nil
    <2>1. NewPid \in Unused
      BY DEF MakeProcess, NewPid
    <2> QED
      BY <2>1 DEF Unused
  <1>3. /\ r \in TaskRec /\ r.pc = "c_queues" /\ r.kind = T.kind /\ r.proc = T.proc /\ r.of = NewPid
        /\ r.todo = T.todo /\ r.sub = T.sub /\ r.ans = T.ans
    BY <1>1, <1>2 DEF TaskRec, Labels, Exits
  <1>4. task' = [task EXCEPT ![polling] = r] /\ polling' = polling /\ tasks' = tasks
    BY DEF MakeProcess, Continue, E!InPoll
  <1> HIDE DEF r
  <1>5. TaskOK(r) /\ r.ans \notin ExitCodes
    BY <1>1, <1>2, <1>3 DEF TaskOK, Makes, Takes, Tells, CommandKinds, Finished, Task
  <1>6. Becomes(r) /\ SpawnsPlain
    BY <1>1, <1>3, <1>4, StepAlone
  <1>7. /\ processes' = processes \cup {NewPid}
        /\ UNCHANGED <<schedVars, Queues, held, threads, members, parent, freed, exits, channels, machine>>
    BY DEF MakeProcess
  <1>8. TableInv'
    BY <1>2, <1>7 DEF IInv, TableInv, exits, channels
  <1>9. SchedInv' /\ \A t \in UserThreads : (S!Queued(t)' <=> S!Queued(t)) /\ state'[t] = state[t]
    BY <1>7, SchedUnchanged DEF IInv
  <1>10. LifeInv'
    <2>1. ThreadsIdle
      BY <1>7, <1>9 DEF ThreadsIdle, exits
    <2>2. Idles(r)
      BY <1>1, <1>3, <1>4 DEF Idles, SamePlace, Makes, Takes, Tells
    <2> QED
      BY <1>4, <1>5, <1>6, <2>1, <2>2, LifeKept DEF IInv
  <1>11. DeadInv'
    BY <1>1, <1>2, <1>7 DEF IInv, DeadInv, In, exits
  <1>12. CodeStays /\ UNCHANGED <<wakers, recv>>
    BY <1>7 DEF CodeStays, exits, channels
  <1> QED
    BY <1>1, <1>4, <1>5, <1>7, <1>8, <1>9, <1>10, <1>11, <1>12, WorkInv

\* The thread is made: nobody has known it so far.
LEMMA MakeLife ==
  ASSUME IInv, polling # 0, polling' = polling, T.pc \in {"alloc", "c_queues"},
         \E t \in UserThreads : parent[t] = Nil, NEW p \in Pids, parent' = [parent EXCEPT ![NewTid] = p],
         NEW r, TaskOK(r), Becomes(r), SpawnsPlain, r.pc = "s_lock", r.of = NewTid, r.kind = T.kind,
         UNCHANGED <<schedVars, members, freed, exits>>
  PROVE  LifeInv' /\ parent' \in [UserThreads -> Pids \cup {Nil}]
  <1>1. PICK n \in UserThreads : n = NewTid /\ parent[n] = Nil
    BY DEF NewTid
  <1>2. ThreadInv /\ FreedInv /\ AccountInv /\ TaskInv /\ TableInv
    BY DEF IInv, LifeInv
  <1>3. parent'[n] = p /\ \A t \in UserThreads : t # n => parent'[t] = parent[t]
    BY <1>1, <1>2 DEF TableInv
  <1>4. \A t \in UserThreads : (S!Queued(t)' <=> S!Queued(t)) /\ state'[t] = state[t]
    BY SchedUnchanged DEF IInv
  <1>5. ~S!Queued(n) /\ code[n] = Nil /\ freed[n] = 0 /\ \A q \in Pids : n \notin members[q]
    BY <1>1, <1>2, PidsAssumption DEF ThreadInv
  <1>6. polling \in TaskIds /\ TaskOK(T) /\ T' = r /\ T.kind \in {"spawn_thread", "spawn_process"} /\ T.todo = {}
    BY <1>2, PolledTask DEF Becomes, T, TaskOK, Takes, Tells
  <1>7. r.todo = {}
    BY DEF TaskOK, Takes, Tells
  <1>8. \A k \in TaskIds' : task'[k].todo # {} \/ task'[k].kind = "fault" => k \in TaskIds /\ task'[k] = task[k]
    BY <1>6, <1>7 DEF Becomes, SpawnsPlain, Plain
  <1>9. \A k \in TaskIds : task[k].kind = "fault" => task'[k] = task[k]
    BY <1>6 DEF Becomes, T
  <1>10. \A k \in TaskIds : \A t \in task[k].todo : t # n
    BY <1>1, <1>2, PidsAssumption DEF ThreadInv
  <1>11. \A t : (Faulting(t)' <=> Faulting(t)) /\ (ToFault(t)' <=> ToFault(t))
    BY <1>8, <1>9 DEF Faulting, ToFault, Becomes
  <1>12. ThreadInv'
    <2>1. \A t \in UserThreads : parent'[t] = Nil => code'[t] = Nil /\ freed'[t] = 0
      BY <1>2, <1>3, <1>5 DEF ThreadInv, exits
    <2>2. \A t \in UserThreads : S!Queued(t)' => parent'[t] \in Pids /\ code'[t] = Nil
      BY <1>2, <1>3, <1>4, <1>5 DEF ThreadInv, exits
    <2>3. \A t \in UserThreads : S!Queued(t)' /\ state'[t] = "Running" => freed'[t] = 0 /\ ~Faulting(t)'
      BY <1>2, <1>4, <1>11 DEF ThreadInv
    <2>4. \A q \in Pids : \A t \in members'[q] : parent'[t] = q /\ freed'[t] = 0
      <3> SUFFICES ASSUME NEW q \in Pids, NEW t \in members[q] PROVE parent'[t] = q /\ freed[t] = 0
        OBVIOUS
      <3>1. t \in UserThreads /\ t # n
        BY <1>2, <1>5 DEF TableInv
      <3> QED
        BY <1>2, <1>3, <3>1 DEF ThreadInv
    <2>5. \A k \in TaskIds' : \A t \in task'[k].todo : parent'[t] \in Pids
      <3> SUFFICES ASSUME NEW k \in TaskIds', NEW t \in task'[k].todo PROVE parent'[t] \in Pids
        OBVIOUS
      <3>1. k \in TaskIds /\ t \in task[k].todo
        BY <1>8
      <3>2. t \in UserThreads /\ t # n /\ parent[t] \in Pids
        BY <1>2, <1>10, <3>1 DEF TaskInv, TaskOK, TaskRec, ThreadInv
      <3> QED
        BY <1>3, <3>2
    <2>6. \A j, k \in TaskIds' : task'[j].kind = "fault" /\ task'[k].kind = "fault" /\ task'[j].of = task'[k].of => j = k
      BY <1>2, <1>8 DEF ThreadInv
    <2> QED
      BY <2>1, <2>2, <2>3, <2>4, <2>5, <2>6 DEF ThreadInv
  <1>13. MakeInv'
    <2>1. \A k \in TaskIds' : n \notin task'[k].todo
      BY <1>8, <1>10
    <2>2. T'.of = n
      BY <1>1, <1>6
    <2>3. ~S!Queued(n)'
      BY <1>1, <1>4, <1>5
    <2> QED
      BY <1>1, <1>3, <1>5, <2>1, <2>2, <2>3 DEF MakeInv, exits, S!Queued, S!Priority
  <1>14. VictimInv' /\ KillInv' /\ KillIsComplete' /\ \A t : ~ToKill(t)'
    BY <1>6 DEF VictimInv, KillInv, KillIsComplete, In, ToKill, Tells
  <1>15. FreedInv'
    BY <1>2, <1>11, <1>14 DEF FreedInv
  <1>16. AccountInv'
    <2> SUFFICES ASSUME NEW t \in UserThreads, parent'[t] \in Pids
                 PROVE  \/ t \in members[parent'[t]] \/ code[t] # Nil
                        \/ In({"s_lock", "s_push"})' /\ T'.of = t
      BY DEF AccountInv, exits
    <2>1. CASE t = n
      BY <1>1, <1>6, <2>1 DEF In
    <2>2. CASE t # n
      <3>1. ~In({"s_lock", "s_push"}) /\ ~In({"x_code"})
        BY DEF In
      <3> QED
        BY <1>2, <1>3, <2>2, <3>1 DEF AccountInv
    <2> QED
      BY <2>1, <2>2
  <1>17. parent' \in [UserThreads -> Pids \cup {Nil}]
    BY <1>2 DEF TableInv
  <1> QED
    BY <1>12, <1>13, <1>14, <1>15, <1>16, <1>17 DEF LifeInv


\* The main thread of a new process is made.
LEMMA MakeMainThreadInv == ASSUME IInv, MakeMainThread PROVE IInv'
  <1> DEFINE r == [T EXCEPT !.pc = "s_lock", !.of = NewTid]
  <1>1. /\ ExecutorRuns /\ polling # 0 /\ T.pc = "c_queues" /\ TaskInv /\ TaskOK(T) /\ T \in TaskRec
        /\ T.kind \in {"spawn_thread", "spawn_process"} /\ ~overflow /\ T.of \in Pids
    BY PolledTask DEF MakeMainThread, At, IInv, TaskOK, ExecutorRuns, Up
  <1>2. NewTid \in UserThreads
    BY DEF MakeMainThread, NewTid
  <1>3. /\ r \in TaskRec /\ r.pc = "s_lock" /\ r.kind = T.kind /\ r.proc = T.proc /\ r.of = NewTid
        /\ r.todo = T.todo /\ r.sub = T.sub /\ r.ans = T.ans
    BY <1>1, <1>2 DEF TaskRec, Labels, Makes, Exits
  <1>4. task' = [task EXCEPT ![polling] = r] /\ polling' = polling /\ tasks' = tasks
    BY DEF MakeMainThread, Continue, E!InPoll
  <1> HIDE DEF r
  <1>5. TaskOK(r) /\ r.ans \notin ExitCodes
    BY <1>1, <1>2, <1>3 DEF TaskOK, Makes, Takes, Tells, CommandKinds, Finished, Task
  <1>6. Becomes(r) /\ SpawnsPlain
    BY <1>1, <1>3, <1>4, StepAlone
  <1>7. /\ parent' = [parent EXCEPT ![NewTid] = T.of] /\ \E t \in UserThreads : parent[t] = Nil
        /\ UNCHANGED <<schedVars, Queues, held, processes, threads, members, freed, exits, channels, machine>>
    BY DEF MakeMainThread
  <1>8. LifeInv' /\ parent' \in [UserThreads -> Pids \cup {Nil}]
    BY <1>1, <1>3, <1>4, <1>5, <1>6, <1>7, MakeLife
  <1>9. TableInv'
    BY <1>7, <1>8 DEF IInv, TableInv, exits, channels
  <1>10. SchedInv'
    BY <1>7, SchedUnchanged DEF IInv
  <1>11. DeadInv'
    BY <1>1, <1>7 DEF IInv, DeadInv, In, exits
  <1>12. CodeStays /\ UNCHANGED <<wakers, recv>>
    BY <1>7 DEF CodeStays, exits, channels
  <1> QED
    BY <1>1, <1>4, <1>5, <1>7, <1>8, <1>9, <1>10, <1>11, <1>12, WorkInv

\* What is pushed to the executor, the wakers of the exits D among it.
LEMMA WakersUsed ==
  ASSUME IInv, TaskIds \subseteq TaskIds', CodeStays, NEW D \in SUBSET Exits,
         NEW new \in Seq(TaskIds'), NEW woken \in Seq(TaskIds), E!Push(new, woken),
         \A x \in Exits : wakers'[x] = (IF x \in D THEN <<>> ELSE wakers[x]),
         wakers' \in [Exits -> Seq(TaskIds)],
         \A x \in D : \A k : InQueue(k, wakers[x]) => InQueue(k, woken),
         \A k \in TaskIds : InQueue(k, woken) => k \in tasks \/ task[k] = Finished
  PROVE  QueueInv' /\ WakeStep
  <1>1. QueueInv /\ woken \in Seq(TaskIds')
    BY SeqGrows DEF IInv
  <1>2. /\ new_task_queue' \in Seq(TaskIds') /\ ready_queue' \in Seq(TaskIds') /\ overflow' \in BOOLEAN
        /\ \A k : InQueue(k, ready_queue') => InQueue(k, ready_queue) \/ InQueue(k, woken)
        /\ \A k : InQueue(k, ready_queue) \/ InQueue(k, woken) => InQueue(k, ready_queue') \/ overflow'
        /\ \A k : InQueue(k, new_task_queue) => InQueue(k, new_task_queue')
    BY <1>1, Pushes
  <1>3. QueueInv'
    <2>1. \A x \in Exits : wakers'[x] \in Seq(TaskIds')
      BY SeqGrows
    <2> QED
      BY <1>2, <2>1 DEF QueueInv
  <1>4. \A k : InQueue(k, ready_queue) \/ InQueue(k, woken) => k \in TaskIds
    BY <1>1, QueuedAreTasks DEF QueueInv
  <1>5. \A x \in Exits : \A k : InQueue(k, wakers[x]) => k \in TaskIds
    BY <1>1, QueuedAreTasks DEF QueueInv
  <1>6. \A k : ~InQueue(k, <<>>)
    BY DEF InQueue
  <1>7. \A x \in Exits : \A k : InQueue(k, wakers'[x]) => InQueue(k, wakers[x])
    BY <1>6
  <1>8. \A x \in Exits : \A k : InQueue(k, wakers[x]) => InQueue(k, wakers'[x]) \/ InQueue(k, woken)
    OBVIOUS
  <1>9. \A k \in TaskIds' : InQueue(k, ready_queue') =>
          k \in TaskIds /\ (InQueue(k, ready_queue) \/ k \in tasks \/ task[k] = Finished)
    BY <1>2, <1>4
  <1>10. \A x \in Exits : \A k \in TaskIds' : InQueue(k, wakers'[x]) =>
           k \in TaskIds /\ (InQueue(k, wakers[x]) \/ (polling # 0 /\ k = polling))
    BY <1>5, <1>7
  <1>11. \A x \in Exits : \A k \in tasks : InQueue(k, wakers[x]) \/ code[x] # Nil =>
           InQueue(k, wakers'[x]) \/ code'[x] # Nil \/ InQueue(k, ready_queue') \/ overflow'
    BY <1>2, <1>8 DEF CodeStays
  <1> QED
    BY <1>2, <1>3, <1>9, <1>10, <1>11 DEF WakeStep

\* The ids that spawn gives are those of the new tasks.
LEMMA IdsAreNew ==
  ASSUME task \in Seq(TaskRec), NEW new \in Seq(TaskRec), TaskIds' = 1..(Len(task) + Len(new))
  PROVE  Ids(new) \in Seq(TaskIds')
  <1>1. Len(task) \in Nat /\ Len(new) \in Nat
    OBVIOUS
  <1>2. \A i \in 1..Len(new) : Len(task) + i \in 1..(Len(task) + Len(new))
    BY <1>1
  <1>3. Ids(new) \in [1..Len(new) -> 1..(Len(task) + Len(new))]
    BY <1>2 DEF Ids
  <1> QED
    BY <1>1, <1>3

\* A task that spawns: the common part of MakeThread and PushThread.
LEMMA SpawnInv ==
  ASSUME IInv, ~overflow, polling # 0, polling' = polling, tasks' = tasks,
         NEW r, TaskOK(r), r.ans \notin ExitCodes, NEW new \in Seq(TaskRec),
         \A i \in 1..Len(new) : Fresh(new[i]) /\ Plain(new[i]),
         task' = [task EXCEPT ![polling] = r] \o new, E!Push(Ids(new), <<>>),
         UNCHANGED <<exits, recv>>, TableInv', DeadInv', SchedInv',
         Becomes(r) /\ SpawnsPlain => LifeInv'
  PROVE  IInv'
  <1>1. TaskInv /\ r \in TaskRec
    BY DEF IInv, TaskOK
  <1>2. Becomes(r) /\ SpawnsPlain /\ TaskIds' = 1..(Len(task) + Len(new))
    BY <1>1, StepAndSpawn
  <1>3. PollStep(r) /\ CodeStays
    BY DEF PollStep, CodeStays, exits
  <1>4. TaskInv'
    BY <1>1, <1>2, <1>3, TaskKept
  <1>5. QueueInv' /\ WakeStep
    <2>1. Ids(new) \in Seq(TaskIds')
      BY <1>1, <1>2, IdsAreNew DEF TaskInv
    <2>2. TaskIds \subseteq TaskIds' /\ wakers' = wakers /\ wakers \in [Exits -> Seq(TaskIds)]
      BY <1>2 DEF Becomes, exits, IInv, QueueInv
    <2>3. <<>> \in Seq(TaskIds) /\ \A k : ~InQueue(k, <<>>)
      BY DEF InQueue
    <2> DEFINE none == {}
    <2>4. /\ none \in SUBSET Exits /\ \A x \in Exits : wakers'[x] = (IF x \in none THEN <<>> ELSE wakers[x])
          /\ \A x \in none : \A k : InQueue(k, wakers[x]) => InQueue(k, <<>>)
          /\ wakers' \in [Exits -> Seq(TaskIds)]
      BY <2>2
    <2>5. \A k \in TaskIds : InQueue(k, <<>>) => k \in tasks \/ task[k] = Finished
      BY <2>3
    <2> HIDE DEF none
    <2> QED
      BY <1>3, <2>1, <2>2, <2>3, <2>4, <2>5, WakersUsed
  <1>6. KnownInv' /\ PendingHasWaker'
    BY <1>2, <1>3, <1>5, WakeKept DEF IInv
  <1>7. AnswerInv'
    BY <1>2, <1>3, AnswerKept DEF IInv
  <1>8. RecvInv'
    BY <1>3, RecvKept DEF IInv
  <1> QED
    BY <1>2, <1>4, <1>5, <1>6, <1>7, <1>8 DEF IInv


\* The task of send_completion_on_exit, when there is one.
LEMMA WatchIsFresh ==
  ASSUME TaskOK(T), T.kind # "done", NEW x \in Exits, NEW new \in {<<>>, Watch(x)}
  PROVE  new \in Seq(TaskRec) /\ \A i \in 1..Len(new) : Fresh(new[i]) /\ Plain(new[i])
  <1> DEFINE w == Task("notify", T.proc, x, "poll", {})
  <1>1. T.proc \in Pids
    BY DEF TaskOK
  <1>2. /\ w \in TaskRec /\ w.kind = "notify" /\ w.proc = T.proc /\ w.of = x /\ w.pc = "poll"
        /\ w.todo = {} /\ w.sub = Nil /\ w.ans = Nil
    BY <1>1 DEF Task, TaskRec, Labels, Kinds, Answers
  <1>3. Watch(x) = <<w>>
    BY DEF Watch
  <1> HIDE DEF w
  <1>4. TaskOK(w)
    BY <1>1, <1>2, NilAssumption DEF TaskOK, Makes, Takes, Tells, ExitCodes
  <1>5. Fresh(w) /\ Plain(w)
    BY <1>2, <1>4 DEF Fresh, Plain, Rests
  <1>6. CASE new = <<>>
    BY <1>6
  <1>7. CASE new = Watch(x)
    BY <1>2, <1>3, <1>5, <1>7
  <1> QED
    BY <1>6, <1>7

\* The thread is made, and maybe a task that watches it.
LEMMA MakeThreadInv == ASSUME IInv, MakeThread PROVE IInv'
  <1> DEFINE r == [T EXCEPT !.pc = "s_lock", !.of = NewTid]
  <1>1. /\ ExecutorRuns /\ polling # 0 /\ T.pc = "alloc" /\ TaskInv /\ TaskOK(T) /\ T \in TaskRec
        /\ T.kind \in {"spawn_thread", "spawn_process"} /\ ~overflow /\ T.proc \in Pids /\ polling \in TaskIds
    BY PolledTask DEF MakeThread, At, IInv, TaskOK, ExecutorRuns, Up
  <1>2. NewTid \in UserThreads
    BY DEF MakeThread, NewTid
  <1>3. /\ r \in TaskRec /\ r.pc = "s_lock" /\ r.kind = T.kind /\ r.proc = T.proc /\ r.of = NewTid
        /\ r.todo = T.todo /\ r.sub = T.sub /\ r.ans = T.ans
    BY <1>1, <1>2 DEF TaskRec, Labels, Makes, Exits
  <1>4. PICK new \in {<<>>, Watch(NewTid)} :
          /\ task' = [task EXCEPT ![polling].pc = "s_lock", ![polling].of = NewTid] \o new
          /\ E!Push(Ids(new), <<>>)
    BY DEF MakeThread
  <1>5. task' = [task EXCEPT ![polling] = r] \o new
    <2>1. task \in Seq(TaskRec) /\ polling \in DOMAIN task
      BY <1>1 DEF TaskInv, TaskIds
    <2>2. [task EXCEPT ![polling].pc = "s_lock", ![polling].of = NewTid] = [task EXCEPT ![polling] = r]
      BY <2>1 DEF T
    <2> QED
      BY <1>4, <2>2
  <1> HIDE DEF r
  <1>6. TaskOK(r) /\ r.ans \notin ExitCodes
    BY <1>1, <1>2, <1>3 DEF TaskOK, Makes, Takes, Tells, CommandKinds, Finished, Task
  <1>7. new \in Seq(TaskRec) /\ \A i \in 1..Len(new) : Fresh(new[i]) /\ Plain(new[i])
    BY <1>1, <1>2, <1>4, WatchIsFresh DEF Exits
  <1>8. /\ parent' = [parent EXCEPT ![NewTid] = T.proc] /\ \E t \in UserThreads : parent[t] = Nil
        /\ UNCHANGED <<schedVars, held, processes, threads, members, freed, exits, channels, machine, polling, tasks>>
    BY DEF MakeThread, E!InPoll
  <1>9. Becomes(r) /\ SpawnsPlain
    BY <1>1, <1>3, <1>5, <1>7, StepAndSpawn
  <1>10. LifeInv' /\ parent' \in [UserThreads -> Pids \cup {Nil}]
    BY <1>1, <1>3, <1>6, <1>8, <1>9, MakeLife
  <1>11. TableInv'
    BY <1>8, <1>10 DEF IInv, TableInv, exits, channels
  <1>12. SchedInv'
    BY <1>8, SchedUnchanged DEF IInv
  <1>13. DeadInv'
    BY <1>1, <1>8 DEF IInv, DeadInv, In, exits
  <1>14. UNCHANGED <<exits, recv>>
    BY <1>8 DEF channels
  <1> QED
    BY <1>1, <1>4, <1>5, <1>6, <1>7, <1>8, <1>10, <1>11, <1>12, <1>13, <1>14, SpawnInv

\* The thread enters the table of threads, and maybe a task watches its process.
LEMMA PushThreadInv == ASSUME IInv, PushThread PROVE IInv'
  <1> DEFINE r == [T EXCEPT !.pc = "s_sched"]
  <1>1. /\ ExecutorRuns /\ polling # 0 /\ T.pc = "s_table" /\ TaskInv /\ TaskOK(T) /\ T \in TaskRec
        /\ T.kind \in {"spawn_thread", "spawn_process"} /\ ~overflow /\ T.of \in UserThreads /\ polling \in TaskIds
    BY PolledTask DEF PushThread, At, IInv, TaskOK, ExecutorRuns, Up, Makes
  <1>2. parent[T.of] \in Pids
    BY <1>1 DEF IInv, LifeInv, MakeInv, In, Makes
  <1>3. /\ r \in TaskRec /\ r.pc = "s_sched" /\ r.kind = T.kind /\ r.proc = T.proc /\ r.of = T.of
        /\ r.todo = T.todo /\ r.sub = T.sub /\ r.ans = T.ans
    BY <1>1, Relabelled DEF Labels, Makes
  <1>4. PICK new \in {<<>>, Watch(parent[T.of])} :
          task' = [task EXCEPT ![polling].pc = "s_sched"] \o new /\ E!Push(Ids(new), <<>>)
    BY DEF PushThread
  <1>5. task' = [task EXCEPT ![polling] = r] \o new
    <2>1. task \in Seq(TaskRec) /\ polling \in DOMAIN task
      BY <1>1 DEF TaskInv, TaskIds
    <2>2. [task EXCEPT ![polling].pc = "s_sched"] = [task EXCEPT ![polling] = r]
      BY <2>1 DEF T
    <2> QED
      BY <1>4, <2>2
  <1> HIDE DEF r
  <1>6. TaskOK(r) /\ r.ans \notin ExitCodes
    BY <1>1, <1>3 DEF TaskOK, Makes, Takes, Tells, CommandKinds, Finished, Task
  <1>7. new \in Seq(TaskRec) /\ \A i \in 1..Len(new) : Fresh(new[i]) /\ Plain(new[i])
    BY <1>1, <1>2, <1>4, WatchIsFresh DEF Exits
  <1>8. /\ threads' = threads \cup {T.of}
        /\ UNCHANGED <<schedVars, held, processes, members, parent, freed, exits, channels, machine, polling, tasks>>
    BY DEF PushThread, E!InPoll
  <1>9. Becomes(r) /\ SpawnsPlain
    BY <1>1, <1>3, <1>5, <1>7, StepAndSpawn
  <1>10. SchedInv' /\ \A t \in UserThreads : (S!Queued(t)' <=> S!Queued(t)) /\ state'[t] = state[t]
    BY <1>8, SchedUnchanged DEF IInv
  <1>11. LifeInv'
    <2>1. ThreadsIdle
      BY <1>8, <1>10 DEF ThreadsIdle, exits
    <2>2. Idles(r)
      BY <1>1, <1>3, <1>8 DEF Idles, SamePlace, Makes, Takes, Tells
    <2> QED
      BY <1>6, <1>8, <1>9, <2>1, <2>2, LifeKept DEF IInv
  <1>12. TableInv'
    BY <1>1, <1>8 DEF IInv, TableInv, exits, channels
  <1>13. DeadInv'
    BY <1>1, <1>8 DEF IInv, DeadInv, In, exits
  <1>14. UNCHANGED <<exits, recv>>
    BY <1>8 DEF channels
  <1> QED
    BY <1>1, <1>4, <1>5, <1>6, <1>7, <1>8, <1>10, <1>11, <1>12, <1>13, <1>14, SpawnInv


\* The exits that tasks have to carry out, when the task in poll keeps its list.
LEMMA TodoKept ==
  ASSUME TaskInv, ThreadInv, polling # 0, NEW r, Becomes(r), SpawnsPlain,
         r.todo = T.todo, r.kind = T.kind, T.kind = "fault" => r.of = T.of
  PROVE  /\ \A t : Faulting(t)' <=> Faulting(t)
         /\ (T.kind = "fault" => (r.pc \in Takes <=> T.pc \in Takes)) => \A t : ToFault(t)' <=> ToFault(t)
         /\ \A k \in TaskIds' : \A t \in task'[k].todo : k \in TaskIds /\ t \in task[k].todo
         /\ \A j, k \in TaskIds' : task'[j].kind = "fault" /\ task'[k].kind = "fault" /\ task'[j].of = task'[k].of => j = k
  <1>1. polling \in TaskIds /\ task'[polling] = r /\ task[polling] = T
    BY PolledTask DEF Becomes, T
  <1>2. \A k \in TaskIds : /\ task'[k].todo = task[k].todo /\ task'[k].kind = task[k].kind
                           /\ task[k].kind = "fault" => task'[k].of = task[k].of
                           /\ k # polling => task'[k].pc = task[k].pc
    BY <1>1 DEF Becomes
  <1>3. \A k \in TaskIds' : k \notin TaskIds => task'[k].todo = {} /\ task'[k].kind # "fault"
    BY DEF SpawnsPlain, Plain
  <1>4. TaskIds \subseteq TaskIds'
    BY DEF Becomes
  <1>5. \A t : Faulting(t)' <=> Faulting(t)
    BY <1>2, <1>3, <1>4 DEF Faulting
  <1>6. ASSUME T.kind = "fault" => (r.pc \in Takes <=> T.pc \in Takes)
        PROVE  \A t : ToFault(t)' <=> ToFault(t)
    <2>1. \A k \in TaskIds : task[k].kind = "fault" => (task'[k].pc \in Takes <=> task[k].pc \in Takes)
      BY <1>1, <1>2, <1>6
    <2> QED
      BY <1>2, <1>3, <1>4, <2>1 DEF ToFault
  <1>7. \A j, k \in TaskIds' : task'[j].kind = "fault" /\ task'[k].kind = "fault" /\ task'[j].of = task'[k].of => j = k
    BY <1>2, <1>3 DEF ThreadInv
  <1> QED
    BY <1>2, <1>3, <1>5, <1>6, <1>7

\* The thread becomes a member of its process.
LEMMA PushMemberInv == ASSUME IInv, PushMember PROVE IInv'
  <1> DEFINE r == [T EXCEPT !.pc = "s_table"]
  <1>1. /\ ExecutorRuns /\ polling # 0 /\ T.pc = "s_push" /\ TaskInv /\ TaskOK(T) /\ T \in TaskRec
        /\ T.kind \in {"spawn_thread", "spawn_process"} /\ ~overflow /\ T.of \in UserThreads
    BY PolledTask DEF PushMember, At, IInv, TaskOK, ExecutorRuns, Up, Makes
  <1>2. /\ r \in TaskRec /\ r.pc = "s_table" /\ r.kind = T.kind /\ r.proc = T.proc /\ r.of = T.of
        /\ r.todo = T.todo /\ r.sub = T.sub /\ r.ans = T.ans
    BY <1>1, Relabelled DEF Labels, Makes
  <1>3. task' = [task EXCEPT ![polling] = r] /\ polling' = polling /\ tasks' = tasks
    BY DEF PushMember, Goto, Continue, E!InPoll
  <1> HIDE DEF r
  <1>4. TaskOK(r) /\ r.ans \notin ExitCodes
    BY <1>1, <1>2 DEF TaskOK, Makes, Takes, Tells, CommandKinds, Finished, Task
  <1>5. Becomes(r) /\ SpawnsPlain /\ T' = r
    BY <1>1, <1>2, <1>3, StepAlone DEF Becomes, T
  <1>6. PICK n \in UserThreads, p \in Pids :
          /\ n = T.of /\ p = parent[n] /\ ~S!Queued(n) /\ code[n] = Nil /\ freed[n] = 0
          /\ \A k \in TaskIds : n \notin task[k].todo
    BY <1>1 DEF IInv, LifeInv, MakeInv, In, Makes
  <1>7. /\ members' = [members EXCEPT ![p] = @ \cup {n}] /\ held' \subseteq held
        /\ UNCHANGED <<schedVars, Queues, processes, threads, parent, freed, exits, channels, machine>>
    BY <1>6 DEF PushMember
  <1>8. TableInv /\ ThreadInv /\ FreedInv /\ AccountInv
    BY DEF IInv, LifeInv
  <1>9. /\ members' \in [Pids -> SUBSET UserThreads] /\ members'[p] = members[p] \cup {n}
        /\ \A q \in Pids : q # p => members'[q] = members[q]
    BY <1>7, <1>8 DEF TableInv
  <1>10. TableInv'
    BY <1>7, <1>8, <1>9 DEF TableInv, exits, channels
  <1>11. SchedInv' /\ \A t \in UserThreads : (S!Queued(t)' <=> S!Queued(t)) /\ state'[t] = state[t]
    BY <1>7, SchedUnchanged DEF IInv
  <1>12. /\ \A t : (Faulting(t)' <=> Faulting(t)) /\ (ToFault(t)' <=> ToFault(t))
         /\ \A k \in TaskIds' : \A t \in task'[k].todo : k \in TaskIds /\ t \in task[k].todo
         /\ \A j, k \in TaskIds' : task'[j].kind = "fault" /\ task'[k].kind = "fault" /\ task'[j].of = task'[k].of => j = k
    BY <1>1, <1>2, <1>5, <1>8, TodoKept
  <1>13. LifeInv'
    <2>1. ThreadInv'
      <3>1. \A q \in Pids : \A t \in members'[q] : parent'[t] = q /\ freed'[t] = 0
        BY <1>6, <1>7, <1>8, <1>9 DEF ThreadInv
      <3>2. \A t \in UserThreads : code'[t] = code[t]
        BY <1>7 DEF exits
      <3> QED
        BY <1>7, <1>8, <1>11, <1>12, <3>1, <3>2 DEF ThreadInv
    <2>2. MakeInv'
      <3>1. ~S!Queued(n)' /\ code'[n] = Nil /\ \A k \in TaskIds' : n \notin task'[k].todo
        BY <1>6, <1>7, <1>11, <1>12 DEF exits
      <3>2. T'.of = n
        BY <1>2, <1>5, <1>6
      <3> QED
        BY <1>6, <1>7, <3>1, <3>2 DEF MakeInv, S!Queued, S!Priority
    <2>3. VictimInv' /\ KillInv' /\ KillIsComplete' /\ \A t : ~ToKill(t)'
      BY <1>1, <1>2, <1>5 DEF VictimInv, KillInv, KillIsComplete, In, ToKill, Tells
    <2>4. FreedInv'
      BY <1>7, <1>8, <1>12, <2>3 DEF FreedInv
    <2>5. AccountInv'
      <3> SUFFICES ASSUME NEW t \in UserThreads, parent[t] \in Pids
                   PROVE  t \in members'[parent[t]] \/ code[t] # Nil
        BY <1>7 DEF AccountInv, exits
      <3>1. CASE t = n
        BY <1>6, <1>9, <3>1
      <3>2. CASE t # n
        BY <1>1, <1>6, <1>8, <1>9, <3>2 DEF AccountInv, In
      <3> QED
        BY <3>1, <3>2
    <2> QED
      BY <2>1, <2>2, <2>3, <2>4, <2>5 DEF LifeInv
  <1>14. DeadInv'
    BY <1>1, <1>7 DEF IInv, DeadInv, In, exits
  <1>15. CodeStays /\ UNCHANGED <<wakers, recv>>
    BY <1>7 DEF CodeStays, exits, channels
  <1> QED
    BY <1>1, <1>3, <1>4, <1>7, <1>10, <1>11, <1>13, <1>14, <1>15, WorkInv

\* The thread is scheduled, and may run from here on.
LEMMA ScheduleInv == ASSUME IInv, Schedule PROVE IInv'
  <1> DEFINE r == [T EXCEPT !.pc = "post", !.ans = "New"]
  <1>1. /\ ExecutorRuns /\ polling # 0 /\ T.pc = "s_add" /\ TaskInv /\ TaskOK(T) /\ T \in TaskRec
        /\ T.kind \in {"spawn_thread", "spawn_process"} /\ ~overflow /\ T.of \in UserThreads
    BY PolledTask DEF Schedule, At, IInv, TaskOK, ExecutorRuns, Up, Makes
  <1>2. /\ r \in TaskRec /\ r.pc = "post" /\ r.kind = T.kind /\ r.proc = T.proc /\ r.of = T.of
        /\ r.todo = T.todo /\ r.sub = T.sub /\ r.ans = "New"
    BY <1>1 DEF TaskRec, Labels, Answers
  <1>3. task' = [task EXCEPT ![polling] = r] /\ polling' = polling /\ tasks' = tasks
    BY DEF Schedule, Answer, Continue, E!InPoll
  <1> HIDE DEF r
  <1>4. TaskOK(r) /\ r.ans \notin ExitCodes
    BY <1>1, <1>2 DEF TaskOK, Makes, Takes, Tells, CommandKinds, Finished, Task, ExitCodes
  <1>5. Becomes(r) /\ SpawnsPlain /\ T' = r
    BY <1>1, <1>2, <1>3, StepAlone DEF Becomes, T
  <1>6. PICK n \in UserThreads :
          /\ n = T.of /\ parent[n] \in Pids /\ code[n] = Nil /\ freed[n] = 0
          /\ \A k \in TaskIds : n \notin task[k].todo
    BY <1>1 DEF IInv, LifeInv, MakeInv, In, Makes
  <1>7. S!AddThread(n) /\ held' \subseteq held /\ UNCHANGED <<Queues, tables, exits, channels, machine>>
    BY <1>6 DEF Schedule
  <1>8. TableInv /\ ThreadInv /\ FreedInv /\ AccountInv
    BY DEF IInv, LifeInv
  <1>9. TableInv'
    BY <1>7, <1>8 DEF TableInv, tables, exits, channels
  <1>10. SchedInv' /\ \A u \in UserThreads : u # n => (S!Queued(u)' => S!Queued(u)) /\ state'[u] = state[u]
    BY <1>7, SchedAdd DEF IInv
  <1>11. /\ \A t : (Faulting(t)' <=> Faulting(t)) /\ (ToFault(t)' <=> ToFault(t))
         /\ \A k \in TaskIds' : \A t \in task'[k].todo : k \in TaskIds /\ t \in task[k].todo
         /\ \A j, k \in TaskIds' : task'[j].kind = "fault" /\ task'[k].kind = "fault" /\ task'[j].of = task'[k].of => j = k
    BY <1>1, <1>2, <1>5, <1>8, TodoKept
  <1>12. LifeInv'
    <2>1. ThreadInv'
      <3>1. parent' = parent /\ freed' = freed /\ members' = members /\ code' = code
        BY <1>7 DEF tables, exits
      <3>2. \A t \in UserThreads : S!Queued(t)' => parent'[t] \in Pids /\ code'[t] = Nil
        BY <1>6, <1>8, <1>10, <3>1 DEF ThreadInv
      <3>3. \A t \in UserThreads : S!Queued(t)' /\ state'[t] = "Running" => freed'[t] = 0 /\ ~Faulting(t)'
        BY <1>6, <1>8, <1>10, <1>11, <3>1 DEF ThreadInv, Faulting
      <3> QED
        BY <1>8, <1>11, <3>1, <3>2, <3>3 DEF ThreadInv
    <2>2. MakeInv' /\ VictimInv' /\ KillInv' /\ KillIsComplete' /\ \A t : ~ToKill(t)'
      BY <1>1, <1>2, <1>5 DEF MakeInv, VictimInv, KillInv, KillIsComplete, In, ToKill, Makes, Tells
    <2>3. FreedInv'
      BY <1>7, <1>8, <1>11, <2>2 DEF FreedInv, tables
    <2>4. AccountInv'
      BY <1>1, <1>7, <1>8 DEF AccountInv, In, tables, exits
    <2> QED
      BY <2>1, <2>2, <2>3, <2>4 DEF LifeInv
  <1>13. DeadInv'
    BY <1>1, <1>7 DEF IInv, DeadInv, In, exits, tables
  <1>14. CodeStays /\ UNCHANGED <<wakers, recv>>
    BY <1>7 DEF CodeStays, exits, channels
  <1> QED
    BY <1>1, <1>3, <1>4, <1>7, <1>9, <1>10, <1>12, <1>13, <1>14, WorkInv

\* The list of a kill: all members of the process, none of which has begun to exit.
LEMMA CloneMembersInv == ASSUME IInv, CloneMembers PROVE IInv'
  <1>1. /\ ExecutorRuns /\ polling # 0 /\ T.pc = "k_clone" /\ TaskInv /\ TaskOK(T) /\ T \in TaskRec
        /\ T.kind = "kill" /\ ~overflow /\ T.of \in Pids /\ T.todo = {}
    BY PolledTask DEF CloneMembers, At, IInv, TaskOK, ExecutorRuns, Up, Takes, Tells
  <1>2. held' \subseteq held /\ UNCHANGED <<schedVars, Queues, tables, exits, channels, machine, polling, tasks>>
    BY DEF CloneMembers, Answer, Continue, E!InPoll
  <1>3. TableInv /\ ThreadInv /\ FreedInv /\ AccountInv
    BY DEF IInv, LifeInv
  <1>4. TableInv'
    BY <1>2, <1>3 DEF TableInv, tables, exits, channels
  <1>5. SchedInv' /\ \A t \in UserThreads : (S!Queued(t)' <=> S!Queued(t)) /\ state'[t] = state[t]
    BY <1>2, SchedUnchanged DEF IInv
  <1>6. DeadInv'
    BY <1>1, <1>2 DEF IInv, DeadInv, In, exits, tables
  <1>7. CodeStays /\ UNCHANGED <<wakers, recv>>
    BY <1>2 DEF CodeStays, exits, channels
  <1>8. parent' = parent /\ freed' = freed /\ members' = members /\ code' = code
    BY <1>2 DEF tables, exits
  <1>9. \A t \in UserThreads : parent[t] \in Pids => t \in members[parent[t]] \/ code[t] # Nil
    BY <1>1, <1>3 DEF AccountInv, In
  <1>10. AccountInv'
    BY <1>8, <1>9 DEF AccountInv
  <1>11. CASE members[T.of] = {}
    <2> DEFINE r == [T EXCEPT !.pc = "post", !.ans = "Success"]
    <2>1. /\ r \in TaskRec /\ r.pc = "post" /\ r.kind = T.kind /\ r.proc = T.proc /\ r.of = T.of
          /\ r.todo = T.todo /\ r.sub = T.sub /\ r.ans = "Success"
      BY <1>1 DEF TaskRec, Labels, Answers
    <2>2. task' = [task EXCEPT ![polling] = r]
      BY <1>11 DEF CloneMembers, Answer, Continue
    <2> HIDE DEF r
    <2>3. TaskOK(r) /\ r.ans \notin ExitCodes
      BY <1>1, <2>1 DEF TaskOK, Makes, Takes, Tells, CommandKinds, Finished, Task, ExitCodes
    <2>4. Becomes(r) /\ SpawnsPlain /\ T' = r
      BY <1>1, <1>2, <2>1, <2>2, StepAlone DEF Becomes, T
    <2>5. /\ \A t : (Faulting(t)' <=> Faulting(t)) /\ (ToFault(t)' <=> ToFault(t))
          /\ \A k \in TaskIds' : \A t \in task'[k].todo : k \in TaskIds /\ t \in task[k].todo
          /\ \A j, k \in TaskIds' : task'[j].kind = "fault" /\ task'[k].kind = "fault" /\ task'[j].of = task'[k].of => j = k
      BY <1>1, <1>3, <2>1, <2>4, TodoKept
    <2>6. ThreadInv'
      BY <1>3, <1>5, <1>8, <2>5 DEF ThreadInv
    <2>7. MakeInv' /\ VictimInv' /\ KillInv' /\ \A t : ~ToKill(t)'
      BY <1>1, <2>1, <2>4 DEF MakeInv, VictimInv, KillInv, In, ToKill, Leaves, Makes, Takes, Tells
    <2>8. FreedInv'
      BY <1>3, <1>8, <2>5, <2>7 DEF FreedInv
    <2>9. KillIsComplete'
      <3>1. \A t \in UserThreads : parent[t] = T.of => code[t] # Nil
        BY <1>1, <1>9, <1>11
      <3> QED
        BY <1>8, <1>11, <2>1, <2>4, <3>1 DEF KillIsComplete
    <2> QED
      BY <1>1, <1>2, <1>4, <1>5, <1>6, <1>7, <1>10, <2>2, <2>3, <2>6, <2>7, <2>8, <2>9, WorkInv DEF LifeInv
  <1>12. CASE members[T.of] # {}
    <2> DEFINE r == [T EXCEPT !.pc = "x_sched", !.todo = members[T.of]]
    <2>1. members[T.of] \subseteq UserThreads /\ \A t \in members[T.of] : parent[t] = T.of /\ freed[t] = 0
      BY <1>1, <1>3 DEF TableInv, ThreadInv
    <2>2. /\ r \in TaskRec /\ r.pc = "x_sched" /\ r.kind = T.kind /\ r.proc = T.proc /\ r.of = T.of
          /\ r.todo = members[T.of] /\ r.sub = T.sub /\ r.ans = T.ans
      BY <1>1, <2>1 DEF TaskRec, Labels, Takes
    <2>3. task' = [task EXCEPT ![polling] = r]
      BY <1>12 DEF CloneMembers, Continue
    <2> HIDE DEF r
    <2>4. TaskOK(r) /\ r.ans \notin ExitCodes
      BY <1>1, <1>12, <2>2 DEF TaskOK, Makes, Takes, Tells, CommandKinds, Finished, Task, ExitCodes
    <2>5. Becomes(r) /\ SpawnsPlain /\ T' = r /\ polling \in TaskIds
      BY <1>1, <1>2, <2>2, <2>3, StepAlone, PolledTask DEF Becomes, T
    <2>6. \A k \in TaskIds' : k # polling =>
            \/ k \in TaskIds /\ task'[k] = task[k]
            \/ task'[k].todo = {} /\ task'[k].kind # "fault"
      BY <2>5 DEF Becomes, SpawnsPlain, Plain
    <2>7. \A t : (Faulting(t)' <=> Faulting(t)) /\ (ToFault(t)' <=> ToFault(t))
      BY <1>1, <2>2, <2>5, <2>6 DEF Faulting, ToFault, Becomes, T
    <2>8. ThreadInv'
      <3>1. \A k \in TaskIds' : \A t \in task'[k].todo : parent'[t] \in Pids
        BY <1>1, <1>3, <1>8, <2>1, <2>2, <2>5, <2>6 DEF ThreadInv, Becomes
      <3>2. \A j, k \in TaskIds' : task'[j].kind = "fault" /\ task'[k].kind = "fault" /\ task'[j].of = task'[k].of => j = k
        BY <1>1, <1>3, <2>2, <2>5, <2>6 DEF ThreadInv, Becomes
      <3> QED
        BY <1>3, <1>5, <1>8, <2>7, <3>1, <3>2 DEF ThreadInv
    <2>9. MakeInv' /\ VictimInv' /\ KillIsComplete'
      BY <2>2, <2>5 DEF MakeInv, VictimInv, KillIsComplete, In, Makes, Tells
    <2>10. \A t : Leaves(t)' <=> t \in members[T.of]
      BY <1>1, <1>2, <2>2, <2>5 DEF Leaves, In, Takes, Tells
    <2>11. FreedInv'
      <3> SUFFICES ASSUME NEW t \in UserThreads
                   PROVE  /\ freed[t] = 1 => ~(ToKill(t)' /\ ToFault(t))
                          /\ freed[t] = 2 => ~ToKill(t)' /\ ~ToFault(t)
        BY <1>8, <2>7 DEF FreedInv
      <3>1. ToKill(t)' => freed[t] = 0
        BY <2>1, <2>10 DEF ToKill
      <3> QED
        BY <1>3, <3>1 DEF FreedInv
    <2>12. KillInv'
      BY <1>8, <2>1, <2>2, <2>5, <2>10 DEF KillInv
    <2> QED
      BY <1>1, <1>2, <1>4, <1>5, <1>6, <1>7, <1>10, <2>3, <2>4, <2>8, <2>9, <2>11, <2>12, WorkInv DEF LifeInv
  <1> QED
    BY <1>11, <1>12


\* The scheduler forgets the thread.
LEMMA RemoveVictimInv == ASSUME IInv, RemoveVictim PROVE IInv'
  <1> DEFINE r == [T EXCEPT !.pc = "x_lock"]
  <1>1. /\ polling # 0 /\ T.pc = "x_remove" /\ TaskInv /\ ~overflow
        /\ Victim \in T.todo /\ Victim \in UserThreads /\ T.kind \in {"kill", "fault"} /\ TaskOK(T) /\ T \in TaskRec
    BY VictimIs DEF RemoveVictim, At, In, Takes, IInv, ExecutorRuns, Up
  <1>2. /\ r \in TaskRec /\ r.pc = "x_lock" /\ r.kind = T.kind /\ r.proc = T.proc /\ r.of = T.of
        /\ r.todo = T.todo /\ r.sub = T.sub /\ r.ans = T.ans
    BY <1>1, Relabelled DEF Labels, Takes
  <1>3. task' = [task EXCEPT ![polling] = r] /\ polling' = polling /\ tasks' = tasks
    BY DEF RemoveVictim, Goto, Continue, E!InPoll
  <1> HIDE DEF r
  <1>4. TaskOK(r) /\ r.ans \notin ExitCodes
    BY <1>1, <1>2 DEF TaskOK, Makes, Takes, Tells, CommandKinds, Finished, Task
  <1>5. Becomes(r) /\ SpawnsPlain /\ T' = r
    BY <1>1, <1>2, <1>3, StepAlone DEF Becomes, T
  <1>6. /\ threads' = threads \ {Victim} /\ held' \subseteq held
        /\ UNCHANGED <<Queues, processes, members, parent, freed, exits, channels, machine>>
    BY DEF RemoveVictim
  <1>7. PICK v \in UserThreads : v = Victim /\ v = Victim'
    BY <1>1, <1>2, <1>5 DEF Victim
  <1>8. SchedInv' /\ ~S!Queued(v)' /\ \A u \in UserThreads : (S!Queued(u)' => S!Queued(u)) /\ state'[u] = state[u]
    BY <1>7, SchedRemove DEF IInv, RemoveVictim
  <1>9. LifeInv'
    <2>1. ThreadsIdle
      BY <1>6, <1>8 DEF ThreadsIdle, exits
    <2>2. ~S!Queued(Victim)'
      BY <1>7, <1>8 DEF S!Queued, S!Priority
    <2>3. Idles(r)
      BY <1>1, <1>2, <1>3, <2>2 DEF Idles, SamePlace, Makes, Takes, Tells
    <2> QED
      BY <1>3, <1>4, <1>5, <2>1, <2>3, LifeKept DEF IInv
  <1>10. TableInv'
    BY <1>6 DEF IInv, TableInv, exits, channels
  <1>11. DeadInv'
    BY <1>1, <1>6 DEF IInv, DeadInv, In, exits
  <1>12. CodeStays /\ UNCHANGED <<wakers, recv>>
    BY <1>6 DEF CodeStays, exits, channels
  <1> QED
    BY <1>1, <1>3, <1>4, <1>6, <1>8, <1>9, <1>10, <1>11, <1>12, WorkInv

\* The thread leaves its process and its stack is freed, once more by a kill
\* and once by its fault at most.
LEMMA LeaveProcessInv == ASSUME IInv, LeaveProcess PROVE IInv'
  <1> DEFINE r == [T EXCEPT !.pc = "x_code", !.sub = IF IsLast(Victim) THEN parent[Victim] ELSE Victim]
  <1>1. /\ polling # 0 /\ T.pc = "x_leave" /\ TaskInv /\ ~overflow /\ T \in TaskRec /\ polling \in TaskIds
        /\ Victim \in T.todo /\ Victim \in UserThreads /\ parent[Victim] \in Pids
        /\ T.kind \in {"kill", "fault"} /\ TaskOK(T)
    BY VictimIs, PolledTask DEF LeaveProcess, At, In, Takes, IInv, ExecutorRuns, Up
  <1>2. /\ r \in TaskRec /\ r.pc = "x_code" /\ r.kind = T.kind /\ r.proc = T.proc /\ r.of = T.of
        /\ r.todo = T.todo /\ r.ans = T.ans
    BY <1>1 DEF TaskRec, Labels, Tells, Exits
  <1>3. task' = [task EXCEPT ![polling] = r] /\ polling' = polling /\ tasks' = tasks
    BY DEF LeaveProcess, Continue, E!InPoll
  <1> HIDE DEF r
  <1>4. TaskOK(r) /\ r.ans \notin ExitCodes
    BY <1>1, <1>2 DEF TaskOK, Makes, Takes, Tells, CommandKinds, Finished, Task
  <1>5. Becomes(r) /\ SpawnsPlain /\ T' = r
    BY <1>1, <1>2, <1>3, StepAlone DEF Becomes, T
  <1>6. PICK v \in UserThreads, p \in Pids : v = Victim /\ v = Victim' /\ p = parent[v]
    BY <1>1, <1>2, <1>5 DEF Victim
  <1>7. /\ members' = [members EXCEPT ![p] = @ \ {v}] /\ freed' = [freed EXCEPT ![v] = @ + 1] /\ held' \subseteq held
        /\ UNCHANGED <<schedVars, Queues, processes, threads, parent, exits, channels, machine>>
    BY <1>6 DEF LeaveProcess
  <1>8. TableInv /\ ThreadInv /\ VictimInv /\ FreedInv /\ AccountInv /\ KillInv
    BY DEF IInv, LifeInv
  <1>9. /\ members'[p] = members[p] \ {v} /\ \A q \in Pids : q # p => members'[q] = members[q]
        /\ freed'[v] = freed[v] + 1 /\ \A t \in UserThreads : t # v => freed'[t] = freed[t]
    BY <1>7, <1>8 DEF TableInv
  <1>10. /\ \A t : Leaves(t) <=> t \in T.todo
         /\ \A t : Leaves(t)' <=> t \in T.todo /\ t # v
    BY <1>1, <1>2, <1>3, <1>5, <1>6 DEF Leaves, In, Takes, Tells
  <1>11. \A t : ToFault(t)' => ToFault(t)
    <2>1. \A k \in TaskIds' : task'[k].kind = "fault" => k \in TaskIds /\ (k = polling \/ task'[k] = task[k])
      BY <1>5 DEF Becomes, SpawnsPlain, Plain
    <2>2. \A k \in TaskIds' : task'[k].pc \in Takes => k # polling
      BY <1>2, <1>5, <1>3 DEF T, Takes
    <2> QED
      BY <2>1, <2>2 DEF ToFault
  <1>12. ToKill(v) \/ (ToFault(v) /\ ~ToFault(v)')
    <2>1. CASE T.kind = "kill"
      BY <1>1, <1>6, <1>10, <2>1 DEF ToKill
    <2>2. CASE T.kind = "fault"
      <3>1. ToFault(v)
        BY <1>1, <1>6, <2>2 DEF ToFault, T, Takes
      <3>2. T.of = v
        BY <1>1, <1>6, <2>2 DEF TaskOK
      <3>3. ASSUME NEW k \in TaskIds', task'[k].kind = "fault", task'[k].pc \in Takes, v \in task'[k].todo
            PROVE  FALSE
        <4>1. k # polling
          BY <1>2, <1>5, <1>3, <3>3 DEF T, Takes
        <4>2. k \in TaskIds /\ task'[k] = task[k] /\ TaskOK(task[k])
          BY <1>1, <1>5, <3>3, <4>1 DEF Becomes, SpawnsPlain, Plain, TaskInv
        <4>3. task[k].of = v
          BY <3>3, <4>2 DEF TaskOK
        <4> QED
          BY <1>1, <1>8, <2>2, <3>2, <3>3, <4>1, <4>2, <4>3 DEF ThreadInv, T
      <3> QED
        BY <3>1, <3>3 DEF ToFault
    <2> QED
      BY <1>1, <2>1, <2>2
  <1>13. freed[v] \in {0, 1}
    <2>1. freed[v] \in 0..2 /\ freed[v] # 2
      BY <1>8, <1>12 DEF TableInv, FreedInv
    <2> QED
      BY <2>1
  <1>14. TableInv'
    <2>1. freed' \in [UserThreads -> 0..2]
      BY <1>7, <1>8, <1>13 DEF TableInv
    <2>2. members' \in [Pids -> SUBSET UserThreads]
      BY <1>7, <1>8 DEF TableInv
    <2> QED
      BY <1>7, <1>8, <2>1, <2>2 DEF TableInv, exits, channels
  <1>15. SchedInv' /\ \A t \in UserThreads : (S!Queued(t)' <=> S!Queued(t)) /\ state'[t] = state[t]
    BY <1>7, SchedUnchanged DEF IInv
  <1>16. ~S!Queued(v)
    BY <1>1, <1>6, <1>8 DEF VictimInv, In
  <1>17. LifeInv'
    <2>1. ThreadInv'
      <3>1. /\ \A t : Faulting(t)' <=> Faulting(t)
            /\ \A k \in TaskIds' : \A t \in task'[k].todo : k \in TaskIds /\ t \in task[k].todo
            /\ \A j, k \in TaskIds' : task'[j].kind = "fault" /\ task'[k].kind = "fault" /\ task'[j].of = task'[k].of => j = k
        BY <1>1, <1>2, <1>5, <1>8, TodoKept
      <3>2. \A q \in Pids : \A t \in members'[q] : parent'[t] = q /\ freed'[t] = 0
        <4> SUFFICES ASSUME NEW q \in Pids, NEW t \in members'[q] PROVE parent[t] = q /\ freed'[t] = 0
          BY <1>7
        <4>1. t \in members[q] /\ parent[t] = q /\ freed[t] = 0 /\ t \in UserThreads
          BY <1>8, <1>9 DEF ThreadInv, TableInv
        <4>2. t # v
          BY <1>6, <1>9, <4>1
        <4> QED
          BY <1>9, <4>1, <4>2
      <3>3. \A t \in UserThreads : parent'[t] = Nil => code'[t] = Nil /\ freed'[t] = 0
        BY <1>6, <1>7, <1>8, <1>9, PidsAssumption DEF ThreadInv, exits
      <3>4. \A t \in UserThreads : S!Queued(t)' => parent'[t] \in Pids /\ code'[t] = Nil
        BY <1>7, <1>8, <1>15 DEF ThreadInv, exits
      <3>5. \A t \in UserThreads : S!Queued(t)' /\ state'[t] = "Running" => freed'[t] = 0 /\ ~Faulting(t)'
        BY <1>8, <1>9, <1>15, <1>16, <3>1 DEF ThreadInv
      <3>6. \A k \in TaskIds' : \A t \in task'[k].todo : parent'[t] \in Pids
        BY <1>7, <1>8, <3>1 DEF ThreadInv
      <3> QED
        BY <3>1, <3>2, <3>3, <3>4, <3>5, <3>6 DEF ThreadInv
    <2>2. MakeInv' /\ KillIsComplete'
      BY <1>2, <1>5 DEF MakeInv, KillIsComplete, In, Makes
    <2>3. VictimInv'
      <3>1. ~S!Queued(v)'
        BY <1>15, <1>16
      <3> QED
        BY <1>6, <3>1 DEF VictimInv, S!Queued, S!Priority
    <2>4. FreedInv'
      <3> SUFFICES ASSUME NEW t \in UserThreads
                   PROVE  /\ freed'[t] = 1 => ~(ToKill(t)' /\ ToFault(t)')
                          /\ freed'[t] = 2 => ~ToKill(t)' /\ ~ToFault(t)'
        BY DEF FreedInv
      <3>1. ToKill(t)' => ToKill(t) /\ t # v
        BY <1>2, <1>5, <1>10 DEF ToKill
      <3>2. CASE t # v
        BY <1>8, <1>9, <1>11, <3>1, <3>2 DEF FreedInv
      <3>3. CASE t = v
        <4>1. freed'[v] = 2 => freed[v] = 1
          BY <1>9, <1>13
        <4> QED
          BY <1>8, <1>11, <1>12, <3>1, <3>3, <4>1 DEF FreedInv
      <3> QED
        BY <3>2, <3>3
    <2>5. AccountInv'
      <3> SUFFICES ASSUME NEW t \in UserThreads, parent[t] \in Pids
                   PROVE  \/ t \in members'[parent[t]] \/ code[t] # Nil
                          \/ In({"x_code"})' /\ Victim' = t
        BY <1>7 DEF AccountInv, exits
      <3>1. CASE t = v
        BY <1>1, <1>2, <1>3, <1>5, <1>6, <3>1 DEF In
      <3>2. CASE t # v
        <4>1. t \in members[parent[t]] \/ code[t] # Nil
          BY <1>1, <1>8 DEF AccountInv, In
        <4> QED
          BY <1>9, <3>2, <4>1
      <3> QED
        BY <3>1, <3>2
    <2>6. KillInv'
      <3> SUFFICES ASSUME T.kind = "kill"
                   PROVE  /\ \A t \in members'[T.of] : Leaves(t)'
                          /\ \A t \in T.todo : parent[t] = T.of
        BY <1>2, <1>5, <1>7 DEF KillInv
      <3>1. \A t \in T.todo : parent[t] = T.of
        BY <1>1, <1>8 DEF KillInv
      <3>2. p = T.of
        BY <1>1, <1>6, <3>1
      <3>3. \A t \in members[T.of] : t \in T.todo
        BY <1>1, <1>8, <1>10 DEF KillInv, Takes
      <3> QED
        BY <1>9, <1>10, <3>1, <3>2, <3>3
    <2> QED
      BY <2>1, <2>2, <2>3, <2>4, <2>5, <2>6 DEF LifeInv
  <1>18. DeadInv'
    BY <1>1, <1>7 DEF IInv, DeadInv, In, exits
  <1>19. CodeStays /\ UNCHANGED <<wakers, recv>>
    BY <1>7 DEF CodeStays, exits, channels
  <1> QED
    BY <1>1, <1>3, <1>4, <1>7, <1>14, <1>15, <1>17, <1>18, <1>19, WorkInv


\* ExitState::set keeps a code that is there.
LEMMA CodeIsSet ==
  ASSUME IInv, NEW x \in Exits, NEW c \in ExitCodes, code' = [code EXCEPT ![x] = Coded(x, c)]
  PROVE  /\ CodeStays /\ code' \in [Exits -> ExitCodes \cup {Nil}] /\ code'[x] # Nil
         /\ \A y \in Exits : y # x => code'[y] = code[y]
  <1>1. code \in [Exits -> ExitCodes \cup {Nil}]
    BY DEF IInv, TableInv
  <1>2. Coded(x, c) \in ExitCodes /\ (code[x] # Nil => Coded(x, c) = code[x])
    BY <1>1 DEF Coded
  <1>3. code'[x] = Coded(x, c) /\ (\A y \in Exits : y # x => code'[y] = code[y]) /\ code' \in [Exits -> ExitCodes \cup {Nil}]
    BY <1>1, <1>2
  <1>4. Coded(x, c) # Nil
    BY <1>2, NilAssumption DEF ExitCodes
  <1> QED
    BY <1>2, <1>3, <1>4 DEF CodeStays

\* The exit of the thread can be observed.
LEMMA SetThreadCodeInv == ASSUME IInv, SetThreadCode PROVE IInv'
  <1> DEFINE r == [T EXCEPT !.pc = "x_wlock"]
  <1>1. /\ polling # 0 /\ T.pc = "x_code" /\ TaskInv /\ ~overflow /\ T \in TaskRec
        /\ Victim \in T.todo /\ Victim \in UserThreads /\ parent[Victim] \in Pids
        /\ T.kind \in {"kill", "fault"} /\ TaskOK(T)
    BY VictimIs DEF SetThreadCode, SetCode, At, In, Tells, IInv, ExecutorRuns, Up
  <1>2. /\ r \in TaskRec /\ r.pc = "x_wlock" /\ r.kind = T.kind /\ r.proc = T.proc /\ r.of = T.of
        /\ r.todo = T.todo /\ r.sub = T.sub /\ r.ans = T.ans
    BY <1>1, Relabelled DEF Labels, Tells
  <1>3. task' = [task EXCEPT ![polling] = r] /\ polling' = polling /\ tasks' = tasks
    BY DEF SetThreadCode, SetCode, Goto, Continue, E!InPoll
  <1> HIDE DEF r
  <1>4. TaskOK(r) /\ r.ans \notin ExitCodes
    BY <1>1, <1>2 DEF TaskOK, Makes, Takes, Tells, CommandKinds, Finished, Task
  <1>5. Becomes(r) /\ SpawnsPlain /\ T' = r
    BY <1>1, <1>2, <1>3, StepAlone DEF Becomes, T
  <1>6. PICK v \in UserThreads : v = Victim /\ v = Victim'
    BY <1>1, <1>2, <1>5 DEF Victim
  <1>7. /\ code' = [code EXCEPT ![v] = Coded(v, ExitReason)] /\ ExitReason \in ExitCodes
        /\ UNCHANGED <<schedVars, Queues, held, tables, wakers, channels, machine>>
    BY <1>6 DEF SetThreadCode, SetCode, ExitReason, ExitCodes
  <1>8. /\ CodeStays /\ code' \in [Exits -> ExitCodes \cup {Nil}] /\ code'[v] # Nil
        /\ \A y \in Exits : y # v => code'[y] = code[y]
    BY <1>7, CodeIsSet DEF Exits
  <1>9. TableInv /\ ThreadInv /\ VictimInv /\ FreedInv /\ AccountInv /\ KillInv
    BY DEF IInv, LifeInv
  <1>10. TableInv'
    BY <1>7, <1>8, <1>9 DEF TableInv, tables, channels
  <1>11. SchedInv' /\ \A t \in UserThreads : (S!Queued(t)' <=> S!Queued(t)) /\ state'[t] = state[t]
    BY <1>7, SchedUnchanged DEF IInv
  <1>12. ~S!Queued(v) /\ parent[v] \in Pids
    BY <1>1, <1>6, <1>9 DEF VictimInv, In, Tells
  <1>13. /\ \A t : (Faulting(t)' <=> Faulting(t)) /\ (ToFault(t)' <=> ToFault(t))
         /\ \A k \in TaskIds' : \A t \in task'[k].todo : k \in TaskIds /\ t \in task[k].todo
         /\ \A j, k \in TaskIds' : task'[j].kind = "fault" /\ task'[k].kind = "fault" /\ task'[j].of = task'[k].of => j = k
    <2>1. r.pc \in Takes <=> T.pc \in Takes
      BY <1>1, <1>2 DEF Takes
    <2> QED
      BY <1>1, <1>2, <1>5, <1>9, <2>1, TodoKept
  <1>14. \A t : Leaves(t)' <=> Leaves(t)
    BY <1>1, <1>2, <1>3, <1>5, <1>6 DEF Leaves, In, Takes, Tells
  <1>15. parent' = parent /\ freed' = freed /\ members' = members /\ processes' = processes
    BY <1>7 DEF tables
  <1>16. LifeInv'
    <2>1. ThreadInv'
      <3>1. \A t \in UserThreads : parent'[t] = Nil => code'[t] = Nil /\ freed'[t] = 0
        BY <1>8, <1>9, <1>12, <1>15, PidsAssumption DEF ThreadInv, Exits
      <3>2. \A t \in UserThreads : S!Queued(t)' => parent'[t] \in Pids /\ code'[t] = Nil
        BY <1>8, <1>9, <1>11, <1>12, <1>15 DEF ThreadInv, Exits
      <3>3. \A t \in UserThreads : S!Queued(t)' /\ state'[t] = "Running" => freed'[t] = 0 /\ ~Faulting(t)'
        BY <1>9, <1>11, <1>13, <1>15 DEF ThreadInv
      <3> QED
        BY <1>9, <1>13, <1>15, <3>1, <3>2, <3>3 DEF ThreadInv
    <2>2. MakeInv' /\ KillIsComplete'
      BY <1>2, <1>5 DEF MakeInv, KillIsComplete, In, Makes
    <2>3. VictimInv'
      <3>1. ~S!Queued(v)'
        BY <1>11, <1>12
      <3> QED
        BY <1>6, <3>1 DEF VictimInv, S!Queued, S!Priority
    <2>4. FreedInv'
      BY <1>2, <1>5, <1>9, <1>13, <1>14, <1>15 DEF FreedInv, ToKill
    <2>5. AccountInv'
      <3> SUFFICES ASSUME NEW t \in UserThreads, parent[t] \in Pids
                   PROVE  t \in members[parent[t]] \/ code'[t] # Nil
        BY <1>15 DEF AccountInv
      <3>1. CASE t = v
        BY <1>8, <3>1
      <3>2. CASE t # v
        BY <1>1, <1>6, <1>8, <1>9, <3>2 DEF AccountInv, In, Exits
      <3> QED
        BY <3>1, <3>2
    <2>6. KillInv'
      BY <1>1, <1>2, <1>5, <1>9, <1>14, <1>15 DEF KillInv, Tells
    <2> QED
      BY <2>1, <2>2, <2>3, <2>4, <2>5, <2>6 DEF LifeInv
  <1>17. DeadInv'
    <2>1. \A p \in Pids : code'[p] = code[p]
      BY <1>8, PidsAssumption DEF Exits
    <2> QED
      BY <1>1, <1>5, <1>15, <2>1, DeadKept DEF IInv
  <1>18. UNCHANGED <<wakers, recv>>
    BY <1>7 DEF channels
  <1> QED
    BY <1>1, <1>3, <1>4, <1>7, <1>8, <1>10, <1>11, <1>16, <1>17, <1>18, WorkInv

\* The exit of the process can be observed; it is about to leave the table.
LEMMA SetProcessCodeInv == ASSUME IInv, SetProcessCode PROVE IInv'
  <1> DEFINE r == [T EXCEPT !.pc = "x_pwlock"]
  <1>1. /\ polling # 0 /\ T.pc = "x_pcode" /\ TaskInv /\ ~overflow /\ T \in TaskRec
        /\ T.kind \in {"kill", "fault"} /\ TaskOK(T) /\ T.sub \in Pids
    BY VictimIs DEF SetProcessCode, SetCode, At, In, Tells, IInv, ExecutorRuns, Up, TaskOK
  <1>2. /\ r \in TaskRec /\ r.pc = "x_pwlock" /\ r.kind = T.kind /\ r.proc = T.proc /\ r.of = T.of
        /\ r.todo = T.todo /\ r.sub = T.sub /\ r.ans = T.ans
    BY <1>1, Relabelled DEF Labels, Tells
  <1>3. task' = [task EXCEPT ![polling] = r] /\ polling' = polling /\ tasks' = tasks
    BY DEF SetProcessCode, SetCode, Goto, Continue, E!InPoll
  <1> HIDE DEF r
  <1>4. TaskOK(r) /\ r.ans \notin ExitCodes
    BY <1>1, <1>2 DEF TaskOK, Makes, Takes, Tells, CommandKinds, Finished, Task
  <1>5. Becomes(r) /\ SpawnsPlain /\ T' = r
    BY <1>1, <1>2, <1>3, StepAlone DEF Becomes, T
  <1>6. /\ code' = [code EXCEPT ![T.sub] = Coded(T.sub, ExitReason)] /\ ExitReason \in ExitCodes
        /\ UNCHANGED <<schedVars, Queues, held, tables, wakers, channels, machine>>
    BY DEF SetProcessCode, SetCode, ExitReason, ExitCodes
  <1>7. /\ CodeStays /\ code' \in [Exits -> ExitCodes \cup {Nil}]
        /\ \A y \in Exits : y # T.sub => code'[y] = code[y]
    BY <1>1, <1>6, CodeIsSet DEF Exits
  <1>8. TableInv'
    BY <1>6, <1>7 DEF IInv, TableInv, tables, channels
  <1>9. SchedInv' /\ \A t \in UserThreads : (S!Queued(t)' <=> S!Queued(t)) /\ state'[t] = state[t]
    BY <1>6, SchedUnchanged DEF IInv
  <1>10. LifeInv'
    <2>1. \A t \in UserThreads : code'[t] = code[t]
      BY <1>1, <1>7, PidsAssumption DEF Exits
    <2>2. ThreadsIdle
      BY <1>6, <1>9, <2>1 DEF ThreadsIdle, tables
    <2>3. Idles(r)
      BY <1>1, <1>2, <1>3 DEF Idles, SamePlace, Makes, Takes, Tells
    <2> QED
      BY <1>3, <1>4, <1>5, <2>2, <2>3, LifeKept DEF IInv
  <1>11. DeadInv'
    <2> SUFFICES ASSUME NEW p \in Pids, code'[p] # Nil, p \in processes PROVE p = T.sub
      BY <1>1, <1>2, <1>3, <1>5, <1>6 DEF DeadInv, In, tables
    <2> QED
      BY <1>1, <1>7 DEF IInv, DeadInv, In, Exits
  <1>12. UNCHANGED <<wakers, recv>>
    BY <1>6 DEF channels
  <1> QED
    BY <1>1, <1>3, <1>4, <1>6, <1>7, <1>8, <1>9, <1>10, <1>11, <1>12, WorkInv


\* The task goes on with the next thread of its list, or has none left: then
\* a kill finds no thread of the process that has not exited.
LEMMA VictimDone ==
  ASSUME IInv, polling # 0, T.pc \in {"x_wake", "x_pwake"}, NextVictim,
         UNCHANGED <<schedVars, members, parent, freed, code>>
  PROVE  \E r : /\ task' = [task EXCEPT ![polling] = r] /\ TaskOK(r) /\ r.ans \notin ExitCodes
                /\ PollStep(r) /\ LifeInv'
  <1>1. /\ TaskInv /\ T \in TaskRec /\ Victim \in T.todo /\ Victim \in UserThreads /\ polling \in TaskIds
        /\ T.kind \in {"kill", "fault"} /\ TaskOK(T) /\ T.todo \subseteq UserThreads
    BY VictimIs, PolledTask DEF In, Tells, IInv, TaskRec
  <1>2. PICK v \in UserThreads : v = Victim
    BY <1>1
  <1>3. PICK r \in TaskRec :
          /\ task' = [task EXCEPT ![polling] = r] /\ TaskOK(r) /\ r.ans \notin ExitCodes
          /\ r.kind # "fault" /\ r.todo = T.todo \ {v}
          /\ \/ /\ T.kind = "kill" /\ r.kind = "kill" /\ r.of = T.of /\ polling' = polling /\ tasks' = tasks
                /\ r.pc = "x_sched" \/ (r.pc = "post" /\ r.todo = {})
             \/ r = Finished /\ polling' = 0 /\ tasks' = tasks \ {polling}
    <2>1. CASE T.todo \ {v} # {}
      <3> DEFINE r == [T EXCEPT !.pc = "x_sched", !.todo = T.todo \ {v}, !.sub = Nil]
      <3>1. task' = [task EXCEPT ![polling] = r] /\ polling' = polling /\ tasks' = tasks
        BY <1>2, <2>1 DEF NextVictim, Continue, E!InPoll
      <3>2. /\ r \in TaskRec /\ r.pc = "x_sched" /\ r.kind = T.kind /\ r.proc = T.proc /\ r.of = T.of
            /\ r.todo = T.todo \ {v} /\ r.sub = Nil /\ r.ans = T.ans
        BY <1>1 DEF TaskRec, Labels, Takes
      <3>3. T.kind = "kill"
        BY <1>1, <1>2, <2>1 DEF TaskOK
      <3> HIDE DEF r
      <3>4. TaskOK(r) /\ r.ans \notin ExitCodes
        BY <1>1, <2>1, <3>2, <3>3 DEF TaskOK, Makes, Takes, Tells, CommandKinds, Finished, Task
      <3> QED
        BY <3>1, <3>2, <3>3, <3>4
    <2>2. CASE T.todo \ {v} = {} /\ T.kind = "kill"
      <3> DEFINE r == [T EXCEPT !.pc = "post", !.todo = {}, !.sub = Nil, !.ans = "Success"]
      <3>1. task' = [task EXCEPT ![polling] = r] /\ polling' = polling /\ tasks' = tasks
        BY <1>2, <2>2 DEF NextVictim, Continue, E!InPoll
      <3>2. /\ r \in TaskRec /\ r.pc = "post" /\ r.kind = T.kind /\ r.proc = T.proc /\ r.of = T.of
            /\ r.todo = {} /\ r.sub = Nil /\ r.ans = "Success"
        BY <1>1 DEF TaskRec, Labels, Answers
      <3> HIDE DEF r
      <3>3. TaskOK(r) /\ r.ans \notin ExitCodes
        BY <1>1, <2>2, <3>2 DEF TaskOK, Makes, Takes, Tells, CommandKinds, Finished, Task, ExitCodes
      <3> QED
        BY <2>2, <3>1, <3>2, <3>3
    <2>3. CASE T.todo \ {v} = {} /\ T.kind = "fault"
      <3>1. task' = [task EXCEPT ![polling] = Finished] /\ polling' = 0 /\ tasks' = tasks \ {polling}
        BY <1>2, <2>3 DEF NextVictim, Done, E!Ready
      <3>2. /\ Finished \in TaskRec /\ Finished.pc = "done" /\ Finished.kind = "done" /\ Finished.todo = {}
            /\ Finished.ans = Nil /\ Finished.sub = Nil
        BY DEF Finished, Task, TaskRec, Labels, Kinds, Answers
      <3>3. TaskOK(Finished) /\ Finished.ans \notin ExitCodes
        BY <3>2, NilAssumption DEF TaskOK, Makes, Takes, Tells, ExitCodes
      <3> QED
        BY <2>3, <3>1, <3>2, <3>3
    <2> QED
      BY <1>1, <2>1, <2>2, <2>3
  <1>4. PollStep(r)
    BY <1>3 DEF PollStep
  <1>5. Becomes(r) /\ SpawnsPlain
    BY <1>1, <1>3, StepAlone
  <1>6. ThreadInv /\ FreedInv /\ AccountInv /\ KillInv
    BY DEF IInv, LifeInv
  <1>7. \A k \in TaskIds' : \/ k \in TaskIds /\ k # polling /\ task'[k] = task[k]
                            \/ k = polling /\ task'[k] = r
                            \/ task'[k].todo = {} /\ task'[k].kind # "fault"
    BY <1>5 DEF Becomes, SpawnsPlain, Plain
  <1>8. \A t : (Faulting(t)' => Faulting(t)) /\ (ToFault(t)' => ToFault(t))
    BY <1>3, <1>7 DEF Faulting, ToFault
  <1>9. \A t \in UserThreads : (S!Queued(t)' <=> S!Queued(t)) /\ state'[t] = state[t]
    BY SchedUnchanged DEF IInv
  <1>10. ThreadInv'
    <2>1. \A k \in TaskIds' : \A t \in task'[k].todo : parent'[t] \in Pids
      BY <1>1, <1>3, <1>6, <1>7 DEF ThreadInv, T
    <2>2. \A j, k \in TaskIds' : task'[j].kind = "fault" /\ task'[k].kind = "fault" /\ task'[j].of = task'[k].of => j = k
      BY <1>3, <1>6, <1>7 DEF ThreadInv
    <2> QED
      BY <1>6, <1>8, <1>9, <2>1, <2>2 DEF ThreadInv
  <1>11. AccountInv'
    BY <1>6 DEF AccountInv, In
  <1>12. CASE polling' = polling
    <2>1. T' = r /\ T.kind = "kill" /\ r.kind = "kill" /\ r.of = T.of /\ (r.pc = "x_sched" \/ (r.pc = "post" /\ r.todo = {}))
      BY <1>3, <1>5, <1>12 DEF Becomes, T
    <2>2. \A t : Leaves(t) <=> t \in T.todo \ {v}
      BY <1>2 DEF Leaves, In, Takes, Tells
    <2>3. \A t : Leaves(t)' <=> t \in T.todo \ {v}
      BY <1>3, <1>12, <2>1 DEF Leaves, In, Takes, Tells
    <2>4. MakeInv' /\ VictimInv'
      BY <2>1 DEF MakeInv, VictimInv, In, Makes, Tells
    <2>5. FreedInv'
      BY <1>6, <1>8, <2>1, <2>2, <2>3 DEF FreedInv, ToKill
    <2>6. (\A t \in members[T.of] : t \in T.todo \ {v}) /\ \A t \in T.todo : parent[t] = T.of
      BY <1>6, <2>1, <2>2 DEF KillInv, Tells
    <2>7. KillInv'
      BY <1>3, <2>1, <2>3, <2>6 DEF KillInv
    <2>8. KillIsComplete'
      <3> SUFFICES ASSUME r.pc = "post"
                   PROVE  members[T.of] = {} /\ \A t \in UserThreads : parent[t] = T.of => code[t] # Nil
        BY <2>1 DEF KillIsComplete
      <3>1. members[T.of] = {}
        BY <1>3, <2>1, <2>6
      <3>2. T.of \in Pids
        BY <1>1, <2>1 DEF TaskOK
      <3> QED
        BY <1>6, <3>1, <3>2 DEF AccountInv, In
    <2> QED
      BY <1>3, <1>4, <1>10, <1>11, <2>4, <2>5, <2>7, <2>8 DEF LifeInv
  <1>13. CASE polling' = 0
    <2>1. MakeInv' /\ VictimInv' /\ KillInv' /\ KillIsComplete' /\ \A t : ~ToKill(t)'
      BY <1>13 DEF MakeInv, VictimInv, KillInv, KillIsComplete, In, ToKill, Leaves
    <2>2. FreedInv'
      BY <1>6, <1>8, <2>1 DEF FreedInv
    <2> QED
      BY <1>3, <1>4, <1>10, <1>11, <2>1, <2>2 DEF LifeInv
  <1> QED
    BY <1>3, <1>12, <1>13

\* The wakers of an exit state are used.
LEMMA WakeInv ==
  ASSUME IInv, ~overflow, polling # 0, NEW r, task' = [task EXCEPT ![polling] = r], TaskOK(r),
         r.ans \notin ExitCodes, PollStep(r), UNCHANGED <<code, recv>>,
         NEW x \in Exits, wakers' = [wakers EXCEPT ![x] = <<>>], E!Push(<<>>, wakers[x]),
         TableInv', LifeInv', DeadInv', SchedInv'
  PROVE  IInv'
  <1>1. TaskInv /\ r \in TaskRec
    BY DEF IInv, TaskOK
  <1>2. Becomes(r) /\ SpawnsPlain /\ TaskIds' = TaskIds
    BY <1>1, StepAlone
  <1>3. CodeStays
    BY DEF CodeStays
  <1>4. TaskInv'
    BY <1>1, <1>2, TaskKept
  <1>5. QueueInv' /\ WakeStep
    <2> DEFINE D == {x}
    <2>1. wakers \in [Exits -> Seq(TaskIds)] /\ wakers[x] \in Seq(TaskIds) /\ <<>> \in Seq(TaskIds)
      BY DEF IInv, QueueInv
    <2>2. /\ \A y \in Exits : wakers'[y] = (IF y \in D THEN <<>> ELSE wakers[y])
          /\ wakers' \in [Exits -> Seq(TaskIds)] /\ D \in SUBSET Exits
          /\ \A y \in D : \A k : InQueue(k, wakers[y]) => InQueue(k, wakers[x])
      BY <2>1
    <2>3. \A k \in TaskIds : InQueue(k, wakers[x]) => k \in tasks \/ task[k] = Finished
      BY DEF IInv, KnownInv
    <2>4. <<>> \in Seq(TaskIds') /\ TaskIds \subseteq TaskIds'
      BY <1>2
    <2> HIDE DEF D
    <2> QED
      BY <1>3, <2>1, <2>2, <2>3, <2>4, WakersUsed
  <1>6. KnownInv' /\ PendingHasWaker'
    BY <1>2, <1>5, WakeKept DEF IInv
  <1>7. AnswerInv'
    BY <1>2, <1>3, AnswerKept DEF IInv
  <1>8. RecvInv'
    BY <1>3, RecvKept DEF IInv
  <1> QED
    BY <1>4, <1>5, <1>6, <1>7, <1>8 DEF IInv

\* The watchers of a thread are woken.
LEMMA WakeThreadWatchersInv == ASSUME IInv, WakeThreadWatchers PROVE IInv'
  <1>1. /\ polling # 0 /\ T.pc = "x_wake" /\ TaskInv /\ ~overflow /\ T \in TaskRec /\ polling \in TaskIds
        /\ Victim \in T.todo /\ Victim \in Exits /\ T.kind \in {"kill", "fault"} /\ TaskOK(T)
    BY VictimIs, PolledTask DEF WakeThreadWatchers, At, In, Tells, IInv, ExecutorRuns, Up, Exits
  <1>2. /\ wakers' = [wakers EXCEPT ![Victim] = <<>>] /\ E!Push(<<>>, wakers[Victim]) /\ held' \subseteq held
        /\ UNCHANGED <<schedVars, tables, code, channels, machine>>
    BY DEF WakeThreadWatchers
  <1>3. TableInv'
    BY <1>2 DEF IInv, TableInv, tables, channels
  <1>4. SchedInv' /\ \A t \in UserThreads : (S!Queued(t)' <=> S!Queued(t)) /\ state'[t] = state[t]
    BY <1>2, SchedUnchanged DEF IInv
  <1>5. DeadInv'
    BY <1>1, <1>2 DEF IInv, DeadInv, In, tables
  <1>6. \E r : /\ task' = [task EXCEPT ![polling] = r] /\ TaskOK(r) /\ r.ans \notin ExitCodes
               /\ PollStep(r) /\ LifeInv'
    <2>1. CASE T.sub \in Pids
      <3> DEFINE r == [T EXCEPT !.pc = "x_pcode"]
      <3>1. /\ r \in TaskRec /\ r.pc = "x_pcode" /\ r.kind = T.kind /\ r.proc = T.proc /\ r.of = T.of
            /\ r.todo = T.todo /\ r.sub = T.sub /\ r.ans = T.ans
        BY <1>1, Relabelled DEF Labels, Tells
      <3>2. task' = [task EXCEPT ![polling] = r] /\ polling' = polling /\ tasks' = tasks
        BY <2>1 DEF WakeThreadWatchers, Goto, Continue, E!InPoll
      <3> HIDE DEF r
      <3>3. TaskOK(r) /\ r.ans \notin ExitCodes
        BY <1>1, <2>1, <3>1 DEF TaskOK, Makes, Takes, Tells, CommandKinds, Finished, Task
      <3>4. Becomes(r) /\ SpawnsPlain
        BY <1>1, <3>1, <3>2, StepAlone
      <3>5. ThreadsIdle
        BY <1>2, <1>4 DEF ThreadsIdle, tables
      <3>6. Idles(r)
        BY <1>1, <3>1, <3>2 DEF Idles, SamePlace, Makes, Takes, Tells
      <3>7. LifeInv'
        BY <3>2, <3>3, <3>4, <3>5, <3>6, LifeKept DEF IInv
      <3> QED
        BY <3>2, <3>3, <3>7 DEF PollStep
    <2>2. CASE T.sub \notin Pids
      <3>1. NextVictim
        BY <2>2 DEF WakeThreadWatchers
      <3> QED
        BY <1>1, <1>2, <3>1, VictimDone DEF tables
    <2> QED
      BY <2>1, <2>2
  <1> QED
    BY <1>1, <1>2, <1>3, <1>4, <1>5, <1>6, WakeInv DEF channels

\* The watchers of a process are woken and it leaves the table.
LEMMA WakeProcessWatchersInv == ASSUME IInv, WakeProcessWatchers PROVE IInv'
  <1>1. /\ polling # 0 /\ T.pc = "x_pwake" /\ ~overflow /\ T.sub \in Exits
    BY PolledTask DEF WakeProcessWatchers, At, IInv, ExecutorRuns, Up, Exits, TaskOK
  <1>2. /\ wakers' = [wakers EXCEPT ![T.sub] = <<>>] /\ E!Push(<<>>, wakers[T.sub]) /\ held' \subseteq held
        /\ processes' = processes \ {T.sub} /\ NextVictim
        /\ UNCHANGED <<schedVars, threads, members, parent, freed, code, channels, machine>>
    BY DEF WakeProcessWatchers
  <1>3. TableInv'
    BY <1>2 DEF IInv, TableInv, channels
  <1>4. SchedInv'
    BY <1>2, SchedUnchanged DEF IInv
  <1>5. DeadInv'
    BY <1>1, <1>2 DEF IInv, DeadInv, In
  <1>6. \E r : /\ task' = [task EXCEPT ![polling] = r] /\ TaskOK(r) /\ r.ans \notin ExitCodes
               /\ PollStep(r) /\ LifeInv'
    BY <1>1, <1>2, VictimDone
  <1> QED
    BY <1>1, <1>2, <1>3, <1>4, <1>5, <1>6, WakeInv DEF channels


-----------------------------------------------------------------------------
\* Handlers.

\* A command becomes a task that has not started.
LEMMA CommandIsFresh ==
  ASSUME NEW c \in Commands, NEW p \in Pids
  PROVE  LET w == Task(c.op, p, c.of, "start", {}) IN w \in TaskRec /\ Fresh(w) /\ Plain(w)
  <1> DEFINE w == Task(c.op, p, c.of, "start", {})
  <1>1. /\ c.op \in CommandKinds /\ c.of \in Exits \cup {Nil}
        /\ c.op = "watch_thread" => c.of \in UserThreads
        /\ c.op \in {"watch_process", "kill"} => c.of \in Pids
    BY DEF Commands, CommandKinds, Exits
  <1>2. /\ w \in TaskRec /\ w.kind = c.op /\ w.proc = p /\ w.of = c.of /\ w.pc = "start"
        /\ w.todo = {} /\ w.sub = Nil /\ w.ans = Nil
    BY <1>1 DEF Task, TaskRec, Labels, Kinds, Answers
  <1> HIDE DEF w
  <1>3. TaskOK(w)
    BY <1>1, <1>2, NilAssumption DEF TaskOK, Makes, Takes, Tells, ExitCodes, CommandKinds
  <1>4. Fresh(w) /\ Plain(w)
    BY <1>1, <1>2, <1>3 DEF Fresh, Plain, Rests, CommandKinds
  <1> QED
    BY <1>2, <1>4 DEF w

\* What dispatch_new_commands spawns: plain tasks, and behind them those of the handler.
LEMMA Dispatched ==
  ASSUME IInv, NEW also \in Seq(TaskRec), \A i \in 1..Len(also) : Fresh(also[i]), NEW woken, Dispatch(also, woken)
  PROVE  /\ \E new \in Seq(TaskRec) : Ids(new) \in Seq(TaskIds') /\ E!Push(Ids(new), woken)
         /\ Becomes(T) /\ (\A k \in TaskIds : task'[k] = task[k]) /\ TaskIds \subseteq TaskIds'
         /\ \E m \in Nat : \A k \in TaskIds' : k \notin TaskIds =>
              Plain(task'[k]) \/ (k - m \in 1..Len(also) /\ task'[k] = also[k - m])
         /\ send' \in [Pids -> Seq(Commands)] /\ recv' = recv
  <1> DEFINE p == ProcessOf(current)
             commands == IF p = Nil THEN <<>>
                         ELSE [i \in 1..Len(send[p]) |-> Task(send[p][i].op, p, send[p][i].of, "start", {})]
             new == commands \o also
  <1>1. TaskInv /\ TableInv
    BY DEF IInv
  <1>2. p \in Pids \cup {Nil}
    BY <1>1 DEF ProcessOf, TableInv
  <1>3. commands \in Seq(TaskRec) /\ \A i \in 1..Len(commands) : Fresh(commands[i]) /\ Plain(commands[i])
    <2>1. CASE p = Nil
      BY <2>1
    <2>2. CASE p # Nil
      <3>1. p \in Pids /\ send[p] \in Seq(Commands)
        BY <1>1, <1>2, <2>2 DEF TableInv
      <3>2. \A i \in 1..Len(send[p]) : send[p][i] \in Commands
        BY <3>1
      <3>3. \A i \in 1..Len(send[p]) : LET w == Task(send[p][i].op, p, send[p][i].of, "start", {})
                                       IN  w \in TaskRec /\ Fresh(w) /\ Plain(w)
        BY <3>1, <3>2, CommandIsFresh
      <3>4. Len(send[p]) \in Nat
        BY <3>1
      <3> HIDE DEF p
      <3> QED
        BY <2>2, <3>3, <3>4
    <2> QED
      BY <2>1, <2>2
  <1>4. task' = task \o new /\ E!Push(Ids(new), woken) /\ recv' = recv
        /\ send' = IF p = Nil THEN send ELSE [send EXCEPT ![p] = <<>>]
    BY DEF Dispatch
  <1> HIDE DEF commands, p
  <1>5. /\ new \in Seq(TaskRec) /\ Len(new) = Len(commands) + Len(also) /\ Len(commands) \in Nat /\ Len(also) \in Nat
        /\ \A i \in 1..Len(commands) : new[i] = commands[i]
        /\ \A i \in 1..Len(new) : i \notin 1..Len(commands) =>
             i - Len(commands) \in 1..Len(also) /\ new[i] = also[i - Len(commands)]
    BY <1>3
  <1> HIDE DEF new
  <1>6. \A i \in 1..Len(new) : Fresh(new[i])
    BY <1>3, <1>5
  <1>7. /\ Becomes(T) /\ TaskIds' = 1..(Len(task) + Len(new)) /\ \A k \in TaskIds : task'[k] = task[k]
        /\ \A k \in TaskIds' : k \notin TaskIds => k - Len(task) \in 1..Len(new) /\ task'[k] = new[k - Len(task)]
    BY <1>1, <1>4, <1>5, <1>6, StepOfHandler
  <1>8. Ids(new) \in Seq(TaskIds')
    BY <1>1, <1>5, <1>7, IdsAreNew DEF TaskInv
  <1>9. Len(task) \in Nat
    BY <1>1 DEF TaskInv
  <1>10. ASSUME NEW k \in TaskIds', k \notin TaskIds, ~Plain(task'[k])
         PROVE  LET m == Len(task) + Len(commands) IN k - m \in 1..Len(also) /\ task'[k] = also[k - m]
    <2>1. k - Len(task) \in 1..Len(new) /\ task'[k] = new[k - Len(task)]
      BY <1>7, <1>10
    <2>2. k - Len(task) \notin 1..Len(commands)
      BY <1>3, <1>5, <1>10, <2>1
    <2>3. /\ (k - Len(task)) - Len(commands) \in 1..Len(also)
          /\ task'[k] = also[(k - Len(task)) - Len(commands)]
      BY <1>5, <2>1, <2>2
    <2>4. (k - Len(task)) - Len(commands) = k - (Len(task) + Len(commands))
      <3>1. k \in Nat
        BY <1>7, <1>10 DEF TaskIds
      <3> QED
        BY <1>5, <1>9, <3>1
    <2> QED
      BY <2>3, <2>4
  <1>11. Len(task) + Len(commands) \in Nat
    BY <1>5, <1>9
  <1>12. send' \in [Pids -> Seq(Commands)]
    BY <1>1, <1>2, <1>4 DEF TableInv
  <1>13. TaskIds \subseteq TaskIds'
    BY <1>7 DEF Becomes
  <1> QED
    BY <1>4, <1>5, <1>7, <1>8, <1>10, <1>11, <1>12, <1>13

\* What every handler keeps.
LEMMA HandlerInv ==
  ASSUME IInv, ~overflow, NEW also \in Seq(TaskRec), \A i \in 1..Len(also) : Fresh(also[i]),
         NEW woken \in Seq(TaskIds), Dispatch(also, woken), UNCHANGED <<tasks, polling>>, CodeStays,
         NEW D \in SUBSET Exits, \A x \in Exits : wakers'[x] = (IF x \in D THEN <<>> ELSE wakers[x]),
         wakers' \in [Exits -> Seq(TaskIds)],
         \A x \in D : \A k : InQueue(k, wakers[x]) => InQueue(k, woken),
         \A k \in TaskIds : InQueue(k, woken) => k \in tasks \/ task[k] = Finished,
         TableInv', LifeInv', DeadInv', SchedInv'
  PROVE  IInv'
  <1>1. TaskInv /\ (polling # 0 => TaskOK(T) /\ polling \in TaskIds)
    BY PolledTask DEF IInv
  <1>2. PICK new \in Seq(TaskRec) : Ids(new) \in Seq(TaskIds') /\ E!Push(Ids(new), woken)
    BY Dispatched
  <1>3. Becomes(T) /\ recv' = recv /\ TaskIds \subseteq TaskIds'
    BY Dispatched
  <1>4. PollStep(T)
    BY DEF PollStep
  <1>5. TaskInv'
    BY <1>1, <1>3, <1>4, TaskKept
  <1>6. QueueInv' /\ WakeStep
    BY <1>2, <1>3, WakersUsed
  <1>7. KnownInv' /\ PendingHasWaker'
    BY <1>3, <1>4, <1>6, WakeKept DEF IInv
  <1>8. AnswerInv'
    <2>1. polling # 0 /\ T.ans \in ExitCodes => T.ans = code'[T.of]
      <3> SUFFICES ASSUME polling # 0, T.ans \in ExitCodes PROVE T.ans = code'[T.of]
        OBVIOUS
      <3>1. T.of \in Exits /\ T.ans = code[T.of]
        BY <1>1 DEF TaskOK, IInv, AnswerInv, T
      <3>2. T.ans # Nil
        BY NilAssumption DEF ExitCodes
      <3> QED
        BY <3>1, <3>2 DEF CodeStays
    <2> QED
      BY <1>1, <1>3, <2>1, AnswerKept DEF IInv
  <1>9. RecvInv'
    BY <1>3, RecvKept DEF IInv
  <1> QED
    BY <1>5, <1>6, <1>7, <1>8, <1>9 DEF IInv

\* A handler that does nothing to a thread, and wakes those in woken.
LEMMA QuietHandlerInv ==
  ASSUME IInv, ~overflow, NEW woken \in Seq(TaskIds), Dispatch(<<>>, woken),
         \A k \in TaskIds : InQueue(k, woken) => k \in tasks \/ task[k] = Finished,
         UNCHANGED <<tasks, polling, held, tables, exits, machine>>, SchedInv',
         \A t \in UserThreads : (S!Queued(t)' <=> S!Queued(t)) /\ state'[t] = state[t]
  PROVE  IInv'
  <1> DEFINE none == <<>>
             D == {}
  <1>1. none \in Seq(TaskRec) /\ (\A i \in 1..Len(none) : Fresh(none[i])) /\ Dispatch(none, woken) /\ Len(none) = 0
    OBVIOUS
  <1>2. /\ D \in SUBSET Exits /\ \A x \in Exits : wakers'[x] = (IF x \in D THEN <<>> ELSE wakers[x])
        /\ wakers' \in [Exits -> Seq(TaskIds)]
        /\ \A x \in D : \A k : InQueue(k, wakers[x]) => InQueue(k, woken)
    BY DEF IInv, QueueInv, exits
  <1> HIDE DEF none, D
  <1>3. Becomes(T) /\ send' \in [Pids -> Seq(Commands)]
    BY <1>1, Dispatched
  <1>4. SpawnsPlain
    <2>1. PICK m \in Nat : \A k \in TaskIds' : k \notin TaskIds =>
            Plain(task'[k]) \/ (k - m \in 1..Len(none) /\ task'[k] = none[k - m])
      BY <1>1, Dispatched
    <2>2. \A i : i \notin 1..Len(none)
      BY <1>1
    <2> QED
      BY <2>1, <2>2 DEF SpawnsPlain
  <1>5. TableInv'
    BY <1>3 DEF IInv, TableInv, tables, exits
  <1>6. LifeInv'
    <2>1. ThreadsIdle
      BY DEF ThreadsIdle, tables, exits
    <2>2. polling # 0 => TaskOK(T) /\ Idles(T)
      BY PolledTask DEF Idles, SamePlace, IInv
    <2> QED
      BY <1>3, <1>4, <2>1, <2>2, LifeKept DEF IInv
  <1>7. DeadInv'
    BY <1>3, DeadKept DEF IInv, tables, exits
  <1>8. CodeStays
    BY DEF CodeStays, exits
  <1> QED
    BY <1>1, <1>2, <1>5, <1>6, <1>7, <1>8, HandlerInv

\* The timer, and Yield.
LEMMA TimerOrYieldInv == ASSUME IInv, TimerOrYield PROVE IInv'
  <1> DEFINE none == <<>>
  <1>1. none \in Seq(TaskIds) /\ (\A k : ~InQueue(k, none)) /\ Dispatch(<<>>, none)
    BY DEF TimerOrYield, InQueue
  <1> HIDE DEF none
  <1>2. SchedInv' /\ \A t \in UserThreads : (S!Queued(t)' <=> S!Queued(t)) /\ state'[t] = state[t]
    BY SchedReschedule DEF TimerOrYield, IInv
  <1>3. ~overflow /\ UNCHANGED <<tasks, polling, held, tables, exits, machine>>
    BY DEF TimerOrYield, EnterHandler, Up
  <1> QED
    BY <1>1, <1>2, <1>3, QuietHandlerInv

\* The device wakes a task that waits for it.
LEMMA IoInterruptInv == ASSUME IInv, NEW k \in TaskIds, IoInterrupt(k) PROVE IInv'
  <1> DEFINE one == <<k>>
  <1>1. one \in Seq(TaskIds) /\ (\A j : InQueue(j, one) => j = k) /\ Dispatch(<<>>, one)
    BY DEF IoInterrupt, InQueue
  <1>2. k \in tasks
    BY DEF IoInterrupt, IInv, KnownInv
  <1> HIDE DEF one
  <1>3. SchedInv' /\ \A t \in UserThreads : (S!Queued(t)' <=> S!Queued(t)) /\ state'[t] = state[t]
    BY SchedUnchanged DEF IoInterrupt, IInv
  <1>4. ~overflow /\ UNCHANGED <<tasks, polling, held, tables, exits, machine>>
    BY DEF IoInterrupt, EnterHandler, Up
  <1> QED
    BY <1>1, <1>2, <1>3, <1>4, QuietHandlerInv


\* The task in poll does not notice a handler.
LEMMA PollUndisturbed ==
  ASSUME IInv, UNCHANGED polling, \A k \in TaskIds : task'[k] = task[k]
  PROVE  /\ \A places : In(places)' <=> In(places)
         /\ polling # 0 => polling' # 0 /\ T' = T /\ Victim' = Victim
         /\ polling' # 0 => polling # 0
         /\ \A t : (Leaves(t)' <=> Leaves(t)) /\ (polling # 0 => (ToKill(t)' <=> ToKill(t)))
  <1>1. polling # 0 => T' = T
    BY PolledTask DEF IInv, T
  <1>2. polling # 0 => Victim' = Victim
    BY <1>1 DEF Victim
  <1>3. \A places : In(places)' <=> In(places)
    BY <1>1 DEF In
  <1>4. \A t : Leaves(t)' <=> Leaves(t)
    BY <1>1, <1>2, <1>3 DEF Leaves, In
  <1> QED
    BY <1>1, <1>2, <1>3, <1>4 DEF ToKill

\* A thread that faults: a task will make it exit.
LEMMA PageFaultInv == ASSUME IInv, NEW t \in UserThreads, PageFault(t) PROVE IInv'
  <1> DEFINE f == Task("fault", parent[t], t, "x_sched", {t})
             also == <<f>>
             none == <<>>
             D == {}
  <1>1. /\ parent[t] \in Pids /\ S!Queued(t) /\ state[t] = "Running" /\ code[t] = Nil /\ freed[t] = 0 /\ ~Faulting(t)
        /\ ~overflow
    BY RunnerIs DEF PageFault, EnterHandler, Up
  <1>2. /\ f \in TaskRec /\ f.kind = "fault" /\ f.proc = parent[t] /\ f.of = t /\ f.pc = "x_sched"
        /\ f.todo = {t} /\ f.sub = Nil /\ f.ans = Nil
    BY <1>1 DEF Task, TaskRec, Labels, Kinds, Answers, Takes, Exits
  <1> HIDE DEF f
  <1>3. TaskOK(f)
    BY <1>1, <1>2, NilAssumption DEF TaskOK, Makes, Takes, Tells, ExitCodes, CommandKinds
  <1>4. Fresh(f)
    BY <1>2, <1>3 DEF Fresh, Rests
  <1>5. also \in Seq(TaskRec) /\ (\A i \in 1..Len(also) : Fresh(also[i])) /\ \A i \in 1..Len(also) : i = 1 /\ also[i] = f
    BY <1>2, <1>4
  <1>6. Dispatch(also, none) /\ S!Block(t) /\ UNCHANGED <<tasks, polling, held, tables, exits, machine>>
    BY DEF PageFault, f
  <1>7. none \in Seq(TaskIds) /\ \A k : ~InQueue(k, none)
    BY DEF InQueue
  <1>8. /\ D \in SUBSET Exits /\ \A x \in Exits : wakers'[x] = (IF x \in D THEN <<>> ELSE wakers[x])
        /\ wakers' \in [Exits -> Seq(TaskIds)]
        /\ \A x \in D : \A k : InQueue(k, wakers[x]) => InQueue(k, none)
    BY <1>6 DEF IInv, QueueInv, exits
  <1> HIDE DEF also, none, D
  <1>9. Becomes(T) /\ send' \in [Pids -> Seq(Commands)] /\ (\A k \in TaskIds : task'[k] = task[k]) /\ TaskIds \subseteq TaskIds'
    BY <1>5, <1>6, Dispatched
  <1>10. PICK n \in Nat : \A k \in TaskIds' : k \notin TaskIds => Plain(task'[k]) \/ (k = n /\ task'[k] = f)
    <2>1. PICK m \in Nat : \A k \in TaskIds' : k \notin TaskIds =>
            Plain(task'[k]) \/ (k - m \in 1..Len(also) /\ task'[k] = also[k - m])
      BY <1>5, <1>6, Dispatched
    <2>2. \A k \in TaskIds' : k - m = 1 => k = m + 1
      BY DEF TaskIds
    <2>3. \A k \in TaskIds' : k \notin TaskIds => Plain(task'[k]) \/ (k = m + 1 /\ task'[k] = f)
      BY <1>5, <2>1, <2>2
    <2> QED
      BY <2>3
  <1>11. /\ SchedInv' /\ \A u \in UserThreads : S!Queued(u)' <=> S!Queued(u)
         /\ state'[t] = "Waiting" /\ \A u \in UserThreads : u # t => state'[u] = state[u]
    BY <1>6, SchedBlock DEF IInv
  <1>12. parent' = parent /\ freed' = freed /\ members' = members /\ code' = code /\ processes' = processes
    BY <1>6 DEF tables, exits
  <1>13. TableInv'
    BY <1>6, <1>9 DEF IInv, TableInv, tables, exits
  <1>14. /\ TaskInv /\ ThreadInv /\ MakeInv /\ VictimInv /\ FreedInv /\ AccountInv /\ KillInv /\ KillIsComplete
    BY DEF IInv, LifeInv
  <1>15. \A u : u # t => (Faulting(u)' => Faulting(u)) /\ (ToFault(u)' => ToFault(u))
    BY <1>2, <1>9, <1>10 DEF Faulting, ToFault, Plain
  <1>16. \A places : In(places)' <=> In(places)
    BY <1>6, <1>9, PollUndisturbed
  <1>17. polling # 0 => polling' # 0 /\ T' = T /\ Victim' = Victim
    BY <1>6, <1>9, PollUndisturbed
  <1>18. \A u : (Leaves(u)' <=> Leaves(u)) /\ (polling # 0 => (ToKill(u)' <=> ToKill(u)))
    BY <1>6, <1>9, PollUndisturbed
  <1>19. LifeInv'
    <2>1. ThreadInv'
      <3>1. \A k \in TaskIds' : \A u \in task'[k].todo : parent'[u] \in Pids
        BY <1>1, <1>2, <1>9, <1>10, <1>12, <1>14 DEF ThreadInv, Plain
      <3>2. \A j, k \in TaskIds' : task'[j].kind = "fault" /\ task'[k].kind = "fault" /\ task'[j].of = task'[k].of => j = k
        <4>1. \A k \in TaskIds : task[k].kind = "fault" => task[k].of # t
          BY <1>1, <1>14 DEF TaskInv, TaskOK, Faulting
        <4>2. \A k \in TaskIds' : task'[k].kind = "fault" =>
                (k \in TaskIds /\ task'[k] = task[k]) \/ (k = n /\ task'[k].of = t)
          BY <1>2, <1>9, <1>10 DEF Plain
        <4> QED
          BY <1>14, <4>1, <4>2 DEF ThreadInv
      <3>3. \A u \in UserThreads : S!Queued(u)' /\ state'[u] = "Running" => freed'[u] = 0 /\ ~Faulting(u)'
        BY <1>11, <1>12, <1>14, <1>15 DEF ThreadInv
      <3> QED
        BY <1>11, <1>12, <1>14, <3>1, <3>2, <3>3 DEF ThreadInv
    <2>2. MakeInv'
      <3> SUFFICES ASSUME In(Makes)
                   PROVE  /\ parent[T.of] \in Pids /\ ~S!Queued(T.of)' /\ code[T.of] = Nil /\ freed[T.of] = 0
                          /\ \A k \in TaskIds' : T.of \notin task'[k].todo
        BY <1>12, <1>16, <1>17 DEF MakeInv, In, S!Queued, S!Priority
      <3>1. T.of \in UserThreads
        BY <1>14, PolledTask DEF In, TaskOK
      <3>2. T.of # t
        BY <1>1, <1>14 DEF MakeInv
      <3>3. \A k \in TaskIds' : T.of \notin task'[k].todo
        BY <1>2, <1>9, <1>10, <1>14, <3>2 DEF MakeInv, Plain
      <3>4. ~S!Queued(T.of) => ~S!Queued(T.of)'
        <4>1. PICK o \in UserThreads : o = T.of /\ o = T'.of
          BY <1>17, <3>1 DEF In
        <4>2. ~S!Queued(o) => ~S!Queued(o)'
          BY <1>11
        <4> QED
          BY <4>1, <4>2 DEF S!Queued, S!Priority
      <3> QED
        BY <1>14, <3>3, <3>4 DEF MakeInv
    <2>3. VictimInv'
      <3> SUFFICES ASSUME In({"x_lock", "x_leave"} \cup Tells) PROVE ~S!Queued(Victim)'
        BY <1>16 DEF VictimInv
      <3>1. Victim \in UserThreads
        BY VictimIs DEF In, Takes, Tells
      <3>2. PICK v \in UserThreads : v = Victim /\ v = Victim'
        BY <1>17, <3>1 DEF In
      <3>3. ~S!Queued(v)'
        BY <1>11, <1>14, <3>2 DEF VictimInv
      <3> QED
        BY <3>2, <3>3 DEF S!Queued, S!Priority
    <2>4. FreedInv'
      <3>1. \A u \in UserThreads : ToKill(u)' => ToKill(u)
        BY <1>17, <1>18 DEF ToKill, Leaves, In
      <3> QED
        BY <1>1, <1>12, <1>14, <1>15, <3>1 DEF FreedInv
    <2>5. AccountInv'
      <3>1. /\ In({"s_lock", "s_push"}) => In({"s_lock", "s_push"})' /\ T' = T
            /\ In({"x_code"}) => In({"x_code"})' /\ Victim' = Victim
        BY <1>16, <1>17 DEF In
      <3> QED
        BY <1>12, <1>14, <3>1 DEF AccountInv
    <2>6. KillInv' /\ KillIsComplete'
      BY <1>6, <1>12, <1>14, <1>17, <1>18 DEF KillInv, KillIsComplete
    <2> QED
      BY <2>1, <2>2, <2>3, <2>4, <2>5, <2>6 DEF LifeInv
  <1>20. DeadInv'
    BY <1>6, <1>9, <1>12, DeadKept DEF IInv
  <1>21. CodeStays
    BY <1>12 DEF CodeStays
  <1>22. \A k \in TaskIds : InQueue(k, none) => k \in tasks \/ task[k] = Finished
    BY <1>7
  <1> QED
    BY <1>1, <1>5, <1>6, <1>7, <1>8, <1>11, <1>13, <1>19, <1>20, <1>21, <1>22, HandlerInv


\* The system call Exit.
LEMMA ExitInv == ASSUME IInv, NEW t \in UserThreads, Exit(t) PROVE IInv'
  <1>1. /\ parent[t] \in Pids /\ S!Queued(t) /\ code[t] = Nil /\ freed[t] = 0 /\ ~Faulting(t) /\ ~overflow
    BY RunnerIs DEF Exit, EnterHandler, Up
  <1>2. PICK p \in Pids : p = parent[t] /\ p # t
    BY <1>1, PidsAssumption
  <1>3. PICK D \in SUBSET Exits : D = (IF IsLast(t) THEN {t, p} ELSE {t})
    BY DEF Exits
  <1>4. PICK woken : woken = wakers[t] \o (IF p \in D THEN wakers[p] ELSE <<>>)
    OBVIOUS
  <1>5. /\ S!RemoveThread(t) /\ Dispatch(<<>>, woken)
        /\ threads' = threads \ {t} /\ members' = [members EXCEPT ![p] = @ \ {t}]
        /\ freed' = [freed EXCEPT ![t] = @ + 1]
        /\ code' = [x \in Exits |-> IF x \in D THEN Coded(x, "Normal") ELSE code[x]]
        /\ wakers' = [x \in Exits |-> IF x \in D THEN <<>> ELSE wakers[x]]
        /\ processes' = processes \ D
        /\ UNCHANGED <<tasks, polling, held, parent, machine>>
    BY <1>2, <1>3, <1>4 DEF Exit
  <1>6. t \in D /\ D \subseteq {t, p} /\ t \in Exits /\ p \in Exits
    BY <1>3 DEF Exits
  <1>7. wakers \in [Exits -> Seq(TaskIds)] /\ TableInv /\ TaskInv
    BY DEF IInv, QueueInv
  <1>8. /\ woken \in Seq(TaskIds)
        /\ \A k : InQueue(k, woken) <=> InQueue(k, wakers[t]) \/ (p \in D /\ InQueue(k, wakers[p]))
    <2> DEFINE s == IF p \in D THEN wakers[p] ELSE <<>>
    <2>1. wakers[t] \in Seq(TaskIds) /\ s \in Seq(TaskIds) /\ woken = wakers[t] \o s
      BY <1>4, <1>6, <1>7
    <2>2. \A k : InQueue(k, s) <=> p \in D /\ InQueue(k, wakers[p])
      <3>1. \A k : ~InQueue(k, <<>>)
        BY DEF InQueue
      <3> QED
        BY <3>1
    <2> HIDE DEF s
    <2> QED
      BY <2>1, <2>2, InConcat
  <1>9. \A x \in D : \A k : InQueue(k, wakers[x]) => InQueue(k, woken)
    BY <1>6, <1>8
  <1>10. \A k \in TaskIds : InQueue(k, woken) => k \in tasks \/ task[k] = Finished
    BY <1>6, <1>8 DEF IInv, KnownInv
  <1>11. /\ wakers' \in [Exits -> Seq(TaskIds)]
         /\ \A x \in Exits : wakers'[x] = (IF x \in D THEN <<>> ELSE wakers[x])
    BY <1>5, <1>7
  <1>12. /\ CodeStays /\ code' \in [Exits -> ExitCodes \cup {Nil}]
         /\ \A x \in D : code'[x] # Nil
         /\ \A x \in Exits : x \notin D => code'[x] = code[x]
    <2>1. code \in [Exits -> ExitCodes \cup {Nil}]
      BY <1>7 DEF TableInv
    <2>2. \A x \in Exits : Coded(x, "Normal") \in ExitCodes /\ (code[x] # Nil => Coded(x, "Normal") = code[x])
      BY <2>1 DEF Coded, ExitCodes
    <2>3. /\ \A x \in D : code'[x] = Coded(x, "Normal") /\ Coded(x, "Normal") \in ExitCodes
          /\ \A x \in Exits : x \notin D => code'[x] = code[x]
      BY <1>5, <2>2
    <2>4. \A x \in D : code'[x] # Nil
      BY <2>3, NilAssumption DEF ExitCodes
    <2>5. code' \in [Exits -> ExitCodes \cup {Nil}]
      BY <1>5, <2>1, <2>2
    <2> QED
      BY <2>2, <2>3, <2>4, <2>5 DEF CodeStays
  <1> DEFINE none == <<>>
  <1>13. none \in Seq(TaskRec) /\ (\A i \in 1..Len(none) : Fresh(none[i])) /\ Dispatch(none, woken) /\ \A i : i \notin 1..Len(none)
    BY <1>5
  <1> HIDE DEF none
  <1>14. Becomes(T) /\ send' \in [Pids -> Seq(Commands)] /\ (\A k \in TaskIds : task'[k] = task[k]) /\ TaskIds \subseteq TaskIds'
    BY <1>13, Dispatched
  <1>15. \A k \in TaskIds' : k \notin TaskIds => Plain(task'[k])
    BY <1>13, Dispatched
  <1>16. SchedInv' /\ ~S!Queued(t)' /\ \A u \in UserThreads : (S!Queued(u)' => S!Queued(u)) /\ state'[u] = state[u]
    BY <1>5, SchedRemove DEF IInv
  <1>17. /\ members'[p] = members[p] \ {t} /\ \A q \in Pids : q # p => members'[q] = members[q]
         /\ freed'[t] = 1 /\ \A u \in UserThreads : u # t => freed'[u] = freed[u]
    BY <1>1, <1>5, <1>7 DEF TableInv
  <1>18. TableInv'
    <2>1. freed' \in [UserThreads -> 0..2]
      BY <1>1, <1>5, <1>7 DEF TableInv
    <2>2. members' \in [Pids -> SUBSET UserThreads]
      BY <1>5, <1>7 DEF TableInv
    <2> QED
      BY <1>5, <1>7, <1>12, <1>14, <2>1, <2>2 DEF TableInv
  <1>19. /\ ThreadInv /\ MakeInv /\ VictimInv /\ FreedInv /\ AccountInv /\ KillInv /\ KillIsComplete
    BY DEF IInv, LifeInv
  <1>20. \A u : (Faulting(u)' <=> Faulting(u)) /\ (ToFault(u)' <=> ToFault(u))
    BY <1>14, <1>15 DEF Faulting, ToFault, Plain
  <1>21. \A places : In(places)' <=> In(places)
    BY <1>5, <1>14, PollUndisturbed
  <1>22. polling # 0 => polling' # 0 /\ T' = T /\ Victim' = Victim
    BY <1>5, <1>14, PollUndisturbed
  <1>23. \A u : (Leaves(u)' <=> Leaves(u)) /\ (polling # 0 => (ToKill(u)' <=> ToKill(u)))
    BY <1>5, <1>14, PollUndisturbed
  <1>24. \A u \in UserThreads : u # t => code'[u] = code[u]
    BY <1>2, <1>6, <1>12, PidsAssumption DEF Exits
  <1>25. LifeInv'
    <2>1. ThreadInv'
      <3>1. \A k \in TaskIds' : \A u \in task'[k].todo : parent'[u] \in Pids
        BY <1>5, <1>14, <1>15, <1>19 DEF ThreadInv, Plain
      <3>2. \A j, k \in TaskIds' : task'[j].kind = "fault" /\ task'[k].kind = "fault" /\ task'[j].of = task'[k].of => j = k
        BY <1>14, <1>15, <1>19 DEF ThreadInv, Plain
      <3>3. \A u \in UserThreads : S!Queued(u)' /\ state'[u] = "Running" => freed'[u] = 0 /\ ~Faulting(u)'
        BY <1>16, <1>17, <1>19, <1>20 DEF ThreadInv
      <3>4. \A u \in UserThreads : S!Queued(u)' => parent'[u] \in Pids /\ code'[u] = Nil
        BY <1>5, <1>16, <1>19, <1>24 DEF ThreadInv
      <3>5. \A u \in UserThreads : parent'[u] = Nil => code'[u] = Nil /\ freed'[u] = 0
        BY <1>2, <1>5, <1>17, <1>19, <1>24, PidsAssumption DEF ThreadInv
      <3>6. \A q \in Pids : \A u \in members'[q] : parent'[u] = q /\ freed'[u] = 0
        <4> SUFFICES ASSUME NEW q \in Pids, NEW u \in members'[q] PROVE parent[u] = q /\ freed'[u] = 0
          BY <1>5
        <4>1. u \in members[q] /\ parent[u] = q /\ freed[u] = 0 /\ u \in UserThreads
          BY <1>7, <1>17, <1>19 DEF ThreadInv, TableInv
        <4>2. u # t
          BY <1>2, <1>17, <4>1
        <4> QED
          BY <1>17, <4>1, <4>2
      <3> QED
        BY <3>1, <3>2, <3>3, <3>4, <3>5, <3>6 DEF ThreadInv
    <2>2. MakeInv'
      <3> SUFFICES ASSUME In(Makes)
                   PROVE  /\ parent[T.of] \in Pids /\ ~S!Queued(T.of)' /\ code'[T.of] = Nil /\ freed'[T.of] = 0
                          /\ \A k \in TaskIds' : T.of \notin task'[k].todo
        BY <1>5, <1>21, <1>22 DEF MakeInv, In, S!Queued, S!Priority
      <3>1. T.of \in UserThreads
        BY <1>7, PolledTask DEF In, TaskOK
      <3>2. T.of # t
        BY <1>1, <1>19 DEF MakeInv
      <3>3. \A k \in TaskIds' : T.of \notin task'[k].todo
        BY <1>14, <1>15, <1>19 DEF MakeInv, Plain
      <3>4. ~S!Queued(T.of) => ~S!Queued(T.of)'
        <4>1. PICK o \in UserThreads : o = T.of /\ o = T'.of
          BY <1>22, <3>1 DEF In
        <4>2. ~S!Queued(o) => ~S!Queued(o)'
          BY <1>16
        <4> QED
          BY <4>1, <4>2 DEF S!Queued, S!Priority
      <3> QED
        BY <1>17, <1>19, <1>24, <3>1, <3>2, <3>3, <3>4 DEF MakeInv
    <2>3. VictimInv'
      <3> SUFFICES ASSUME In({"x_lock", "x_leave"} \cup Tells) PROVE ~S!Queued(Victim)'
        BY <1>21 DEF VictimInv
      <3>1. Victim \in UserThreads
        BY VictimIs DEF In, Takes, Tells
      <3>2. PICK v \in UserThreads : v = Victim /\ v = Victim'
        BY <1>22, <3>1 DEF In
      <3>3. ~S!Queued(v)'
        BY <1>16, <1>19, <3>2 DEF VictimInv
      <3> QED
        BY <3>2, <3>3 DEF S!Queued, S!Priority
    <2>4. FreedInv'
      <3> SUFFICES ASSUME NEW u \in UserThreads
                   PROVE  /\ freed'[u] = 1 => ~(ToKill(u)' /\ ToFault(u))
                          /\ freed'[u] = 2 => ~ToKill(u)' /\ ~ToFault(u)
        BY <1>20 DEF FreedInv
      <3>1. ToKill(u)' => ToKill(u)
        BY <1>21, <1>22, <1>23 DEF ToKill, Leaves, In
      <3>2. CASE u = t
        <4>1. ~ToFault(t)
          BY <1>1 DEF ToFault, Faulting
        <4> QED
          BY <1>17, <3>2, <4>1
      <3>3. CASE u # t
        BY <1>17, <1>19, <3>1, <3>3 DEF FreedInv
      <3> QED
        BY <3>2, <3>3
    <2>5. AccountInv'
      <3>1. /\ In({"s_lock", "s_push"}) => In({"s_lock", "s_push"})' /\ T' = T
            /\ In({"x_code"}) => In({"x_code"})' /\ Victim' = Victim
        BY <1>21, <1>22 DEF In
      <3>2. \A u \in UserThreads : code[u] # Nil => code'[u] # Nil
        BY <1>12 DEF CodeStays, Exits
      <3>3. \A u \in UserThreads : parent[u] \in Pids /\ u \in members[parent[u]] => u \in members'[parent[u]] \/ code'[u] # Nil
        BY <1>6, <1>12, <1>17
      <3> QED
        BY <1>5, <1>19, <3>1, <3>2, <3>3 DEF AccountInv
    <2>6. KillInv' /\ KillIsComplete'
      <3>1. \A q \in Pids : members'[q] \subseteq members[q]
        BY <1>17
      <3>2. polling # 0 /\ T.kind = "kill" => T.of \in Pids
        BY <1>7, PolledTask DEF TaskOK
      <3>3. KillInv'
        BY <1>5, <1>19, <1>22, <1>23, <3>1, <3>2 DEF KillInv
      <3>4. \A u \in UserThreads : code[u] # Nil => code'[u] # Nil
        BY <1>12 DEF CodeStays, Exits
      <3>5. KillIsComplete'
        <4> SUFFICES ASSUME polling # 0, T.kind = "kill", T.pc = "post", T.ans = "Success"
                     PROVE  members'[T.of] = {} /\ \A u \in UserThreads : parent[u] = T.of => code'[u] # Nil
          BY <1>5, <1>22 DEF KillIsComplete
        <4> QED
          BY <1>19, <3>1, <3>2, <3>4 DEF KillIsComplete
      <3> QED
        BY <3>3, <3>5
    <2> QED
      BY <2>1, <2>2, <2>3, <2>4, <2>5, <2>6 DEF LifeInv
  <1>26. DeadInv'
    <2> SUFFICES ASSUME NEW q \in Pids, code'[q] # Nil, q \in processes'
                 PROVE  In({"x_pwlock", "x_pwake"})' /\ T'.sub = q
      BY DEF DeadInv
    <2>1. q \in processes /\ code[q] # Nil
      BY <1>5, <1>12 DEF Exits
    <2>2. In({"x_pwlock", "x_pwake"}) /\ T.sub = q
      BY <2>1 DEF IInv, DeadInv
    <2>3. polling # 0
      BY <2>2 DEF In
    <2> QED
      BY <1>21, <1>22, <2>2, <2>3
  <1> QED
    BY <1>1, <1>5, <1>8, <1>9, <1>10, <1>11, <1>12, <1>13, <1>16, <1>18, <1>25, <1>26, HandlerInv


-----------------------------------------------------------------------------
\* The invariant.

\* The scheduler at boot: the executor, and the main thread of init.
LEMMA InitSched == ASSUME Init PROVE SchedInv /\ \A t \in UserThreads : S!Queued(t) => t = InitTid
  <1>1. /\ S!Levels = {0, 1, 2} /\ SP!Levels = {0, 1, 2} /\ SP!AllThreads = {IdleThread, TaskThread} \cup UserThreads
        /\ S!AllThreads = SP!AllThreads /\ InitTid \in UserThreads
    BY InitAssumption DEF S!Levels, SP!Levels, S!AllThreads, SP!AllThreads, S!High, S!Normal, S!Low, SP!High, SP!Normal, SP!Low
  <1>2. /\ queues = [l \in SP!Levels |-> IF l = 0 THEN <<>> ELSE IF l = 1 THEN <<TaskThread, InitTid>> ELSE <<IdleThread>>]
        /\ next = [l \in SP!Levels |-> 0] /\ current = TaskThread
        /\ state = [t \in SP!AllThreads |-> "Running"] /\ stuck = FALSE
    BY <1>1 DEF Init, S!High, S!Normal, S!Low
  <1>3. /\ SP!Priority(TaskThread) = 1 /\ SP!Priority(IdleThread) = 2 /\ \A t \in UserThreads : SP!Priority(t) = 1
    BY ThreadsAssumption DEF SP!Priority, SP!High, SP!Normal, SP!Low
  <1>4. queues[0] = <<>> /\ queues[1] = <<TaskThread, InitTid>> /\ queues[2] = <<IdleThread>> /\ DOMAIN queues = SP!Levels
    BY <1>1, <1>2
  <1>5. SP!TypeOK
    <2>1. \A l \in SP!Levels : queues[l] \in Seq(SP!AllThreads)
      <3>1. <<>> \in Seq(SP!AllThreads) /\ <<TaskThread, InitTid>> \in Seq(SP!AllThreads) /\ <<IdleThread>> \in Seq(SP!AllThreads)
        BY <1>1
      <3> QED
        BY <1>1, <1>4, <3>1
    <2>2. \A l \in SP!Levels : \A i \in 1..Len(queues[l]) : SP!Priority(queues[l][i]) = l
      <3>1. \A i \in 1..Len(queues[1]) : SP!Priority(queues[1][i]) = 1
        BY <1>1, <1>3, <1>4
      <3> QED
        BY <1>1, <1>3, <1>4, <3>1
    <2>3. queues \in [SP!Levels -> Seq(SP!AllThreads)]
      BY <1>2, <2>1
    <2> QED
      BY <1>1, <1>2, <2>2, <2>3 DEF SP!TypeOK
  <1>6. SP!TaskReady
    BY <1>1, <1>2, <1>4 DEF SP!TaskReady, SP!Normal
  <1>7. SP!CurrentIsReady
    BY <1>1, <1>2, <1>3, <1>4 DEF SP!CurrentIsReady, SP!Queued
  <1>8. SP!Once
    <2>1. \A i, j \in 1..Len(queues[1]) : queues[1][i] = queues[1][j] => i = j
      BY <1>1, <1>4, ThreadsAssumption
    <2> QED
      BY <1>1, <1>4, <2>1 DEF SP!Once
  <1>9. \A t \in UserThreads : S!Queued(t) => t = InitTid
    BY <1>3, <1>4, QueuedSame, ThreadsAssumption DEF SP!Queued
  <1> QED
    BY <1>2, <1>5, <1>6, <1>7, <1>8, <1>9 DEF SchedInv, SP!IInv, SP!NeverStuck

\* It holds when finish_boot waits for the init process.
LEMMA InitInv == Init => IInv
  <1> SUFFICES ASSUME Init PROVE IInv
    OBVIOUS
  <1> DEFINE b == Task("boot", InitPid, InitTid, "poll", {})
  <1>1. /\ b \in TaskRec /\ b.kind = "boot" /\ b.proc = InitPid /\ b.of = InitTid /\ b.pc = "poll"
        /\ b.todo = {} /\ b.sub = Nil /\ b.ans = Nil
    BY InitAssumption DEF Task, TaskRec, Labels, Kinds, Answers, Exits
  <1>2. task = <<b>>
    BY DEF Init
  <1> HIDE DEF b
  <1>3. TaskOK(b)
    BY <1>1, InitAssumption, NilAssumption DEF TaskOK, Makes, Takes, Tells, ExitCodes, Exits
  <1>4. task \in Seq(TaskRec) /\ TaskIds = {1} /\ task[1] = b
    BY <1>1, <1>2 DEF TaskIds
  <1>5. /\ tasks = {1} /\ polling = 0 /\ new_task_queue = <<>> /\ ready_queue = <<>> /\ overflow = FALSE
        /\ wakers = [x \in Exits |-> IF x = InitTid THEN <<1>> ELSE <<>>] /\ code = [x \in Exits |-> Nil]
        /\ processes = {InitPid} /\ threads = {InitTid} /\ held = {}
        /\ members = [p \in Pids |-> IF p = InitPid THEN {InitTid} ELSE {}]
        /\ parent = [t \in UserThreads |-> IF t = InitTid THEN InitPid ELSE Nil]
        /\ freed = [t \in UserThreads |-> 0] /\ machine = "up"
        /\ send = [p \in Pids |-> <<>>] /\ recv = [p \in Pids |-> <<>>]
    BY DEF Init
  <1>6. InitTid \in Exits /\ InitTid \in UserThreads /\ InitPid \in Pids /\ Nil \notin Pids
    BY InitAssumption, PidsAssumption DEF Exits
  <1>7. TaskInv
    BY <1>1, <1>3, <1>4, <1>5 DEF TaskInv, Rests
  <1>8. QueueInv
    <2>1. <<>> \in Seq(TaskIds) /\ <<1>> \in Seq(TaskIds)
      BY <1>4
    <2> QED
      BY <1>5, <2>1 DEF QueueInv
  <1>9. KnownInv
    <2>1. ReadyIsKnown
      BY <1>5 DEF ReadyIsKnown, InQueue
    <2> QED
      BY <1>4, <1>5, <2>1 DEF KnownInv
  <1>10. PendingHasWaker
    <2>1. wakers[InitTid] = <<1>> /\ InQueue(1, <<1>>)
      BY <1>5, <1>6 DEF InQueue
    <2> QED
      BY <1>1, <1>4, <1>5, <2>1 DEF PendingHasWaker
  <1>11. TableInv
    BY <1>5, <1>6 DEF TableInv, Locks
  <1>12. LifeInv
    <2>1. \A t \in UserThreads : ~Faulting(t) /\ ~ToFault(t)
      BY <1>1, <1>4 DEF Faulting, ToFault
    <2>2. \A t \in UserThreads : freed[t] = 0 /\ code[t] = Nil
      BY <1>5 DEF Exits
    <2>3. \A p \in Pids : \A t \in members[p] : t = InitTid /\ p = InitPid
      BY <1>5
    <2>4. parent[InitTid] = InitPid /\ InitTid \in members[InitPid] /\ \A t \in UserThreads : t # InitTid => parent[t] = Nil
      BY <1>5, <1>6
    <2>5. ThreadInv
      BY <1>1, <1>4, <1>6, <2>1, <2>2, <2>3, <2>4, InitSched DEF ThreadInv
    <2>6. MakeInv /\ VictimInv /\ KillInv /\ KillIsComplete
      BY <1>5 DEF MakeInv, VictimInv, KillInv, KillIsComplete, In
    <2>7. FreedInv
      BY <2>2 DEF FreedInv
    <2>8. AccountInv
      BY <1>6, <2>4 DEF AccountInv
    <2> QED
      BY <2>5, <2>6, <2>7, <2>8 DEF LifeInv
  <1>13. AnswerInv
    BY <1>1, <1>4, NilAssumption DEF AnswerInv, ExitCodes
  <1>14. RecvInv
    BY <1>5 DEF RecvInv
  <1>15. DeadInv
    BY <1>5 DEF DeadInv, Exits
  <1>16. SchedInv
    BY InitSched
  <1> QED
    BY <1>7, <1>8, <1>9, <1>10, <1>11, <1>12, <1>13, <1>14, <1>15, <1>16 DEF IInv

\* So does a step that changes nothing.
LEMMA StutterInv == ASSUME IInv, UNCHANGED vars PROVE IInv'
  <1>1. UNCHANGED <<schedVars, execVars, task, held, tables, exits, send, recv, machine>>
    BY DEF vars, channels
  <1>2. TaskInv /\ (polling # 0 => TaskOK(T))
    BY PolledTask DEF IInv
  <1>3. Becomes(T) /\ SpawnsPlain /\ TaskIds' = TaskIds
    BY <1>1, <1>2, StepOfNone
  <1>4. PollStep(T) /\ CodeStays /\ polling' = polling
    BY <1>1 DEF PollStep, CodeStays, execVars, exits
  <1>5. TaskInv'
    BY <1>2, <1>3, <1>4, TaskKept
  <1>6. QueueInv'
    BY <1>1, <1>3, <1>4, QueuesUnchanged DEF IInv, execVars, exits
  <1>7. KnownInv' /\ PendingHasWaker'
    BY <1>1, <1>3 DEF IInv, KnownInv, ReadyIsKnown, PendingHasWaker, InQueue, execVars, exits
  <1>8. TableInv'
    BY <1>1 DEF IInv, TableInv, tables, exits
  <1>9. SchedInv' /\ \A t \in UserThreads : (S!Queued(t)' <=> S!Queued(t)) /\ state'[t] = state[t]
    BY <1>1, SchedUnchanged DEF IInv
  <1>10. LifeInv'
    <2>1. ThreadsIdle
      BY <1>1, <1>9 DEF ThreadsIdle, tables, exits
    <2>2. polling # 0 => Idles(T)
      BY <1>4 DEF Idles, SamePlace
    <2> QED
      BY <1>2, <1>3, <1>4, <2>1, <2>2, LifeKept DEF IInv
  <1>11. AnswerInv'
    BY <1>1, <1>3 DEF IInv, AnswerInv, exits
  <1>12. RecvInv'
    BY <1>1, <1>4, RecvKept DEF IInv
  <1>13. DeadInv'
    BY <1>1, <1>3, <1>4, DeadKept DEF IInv, tables, exits
  <1> QED
    BY <1>5, <1>6, <1>7, <1>8, <1>9, <1>10, <1>11, <1>12, <1>13 DEF IInv

\* Every step keeps it.
LEMMA NextInv == IInv /\ [Next]_vars => IInv'
  <1> SUFFICES ASSUME IInv, [Next]_vars PROVE IInv'
    OBVIOUS
  <1>1. CASE UserStep
    BY <1>1, PostCommandInv, TakeCompletionInv DEF UserStep
  <1>2. CASE Handler
    <2>1. CASE \E k \in 1..Len(task) : IoInterrupt(k)
      BY <2>1, IoInterruptInv DEF TaskIds
    <2>2. CASE \E t \in UserThreads : PageFault(t)
      BY <2>2, PageFaultInv
    <2>3. CASE \E t \in UserThreads : Exit(t)
      BY <2>3, ExitInv
    <2> QED
      BY <1>2, <2>1, <2>2, <2>3, TimerOrYieldInv, MachineInv DEF Handler
  <1>3. CASE ExecutorLoop
    BY <1>3, ExecutorLoopInv
  <1>4. CASE TaskStep
    BY <1>4, StartInv, FailInv, PollExitInv, LocksInv, PushWakerInv, MakeThreadInv, ReadBinaryInv, BinaryReadInv,
       MakeProcessInv, MakeMainThreadInv, PushMemberInv, PushThreadInv, ScheduleInv, CloneMembersInv,
       RemoveVictimInv, LeaveProcessInv, SetThreadCodeInv, WakeThreadWatchersInv, SetProcessCodeInv,
       WakeProcessWatchersInv, PostCompletionInv, PostExitInv, MachineInv DEF TaskStep
  <1>5. CASE UNCHANGED vars
    BY <1>5, StutterInv
  <1> QED
    BY <1>1, <1>2, <1>3, <1>4, <1>5 DEF Next

\* No step sets an exit state a second time.
LEMMA CodesStay == ASSUME IInv, [Next]_vars PROVE CodeStays
  <1>1. CASE code' = code
    BY <1>1 DEF CodeStays
  <1>2. CASE \E t \in UserThreads : Exit(t)
    <2>1. PICK t \in UserThreads : Exit(t)
      BY <1>2
    <2>2. \A x \in Exits : code'[x] = Coded(x, "Normal") \/ code'[x] = code[x]
      BY <2>1 DEF Exit
    <2> QED
      BY <2>2 DEF CodeStays, Coded
  <1>3. CASE SetThreadCode
    <2>1. Victim \in Exits
      BY <1>3, VictimIs DEF SetThreadCode, SetCode, At, In, Tells, Exits
    <2>2. ExitReason \in ExitCodes /\ code' = [code EXCEPT ![Victim] = Coded(Victim, ExitReason)]
      BY <1>3 DEF SetThreadCode, SetCode, ExitReason, ExitCodes
    <2> QED
      BY <2>1, <2>2, CodeIsSet
  <1>4. CASE SetProcessCode
    <2>1. T.sub \in Exits
      BY <1>4, PolledTask DEF SetProcessCode, SetCode, At, TaskOK, Exits, IInv
    <2>2. ExitReason \in ExitCodes /\ code' = [code EXCEPT ![T.sub] = Coded(T.sub, ExitReason)]
      BY <1>4 DEF SetProcessCode, SetCode, ExitReason, ExitCodes
    <2> QED
      BY <2>1, <2>2, CodeIsSet
  <1>5. CASE UserStep \/ ExecutorLoop \/ UNCHANGED vars
    BY <1>1, <1>5 DEF UserStep, PostCommand, TakeCompletion, ExecutorLoop, vars, exits
  <1>6. CASE Handler /\ ~\E t \in UserThreads : Exit(t)
    BY <1>1, <1>6 DEF Handler, TimerOrYield, IoInterrupt, PageFault, WaitForMessage, Hang, exits
  <1>7. CASE TaskStep /\ ~SetThreadCode /\ ~SetProcessCode
    <2>1. \A from, l, to : Acquire(from, l, to) => code' = code
      BY DEF Acquire, exits
    <2>2. LockWakers \/ LockMembers \/ LockToAdd \/ LockToKill \/ LockToRemove \/ LockToLeave
          \/ LockThreadWakers \/ LockProcessWakers => code' = code
      BY <2>1 DEF LockWakers, LockMembers, LockToAdd, LockToKill, LockToRemove, LockToLeave, LockThreadWakers, LockProcessWakers
    <2>3. Start \/ Fail \/ PollExit \/ PushWaker \/ MakeThread \/ ReadBinary \/ BinaryRead \/ MakeProcess \/ MakeMainThread
          => code' = code
      BY DEF Start, Fail, PollExit, PushWaker, MakeThread, ReadBinary, BinaryRead, MakeProcess, MakeMainThread, exits
    <2>4. PushMember \/ PushThread \/ Schedule \/ CloneMembers \/ RemoveVictim \/ LeaveProcess => code' = code
      BY DEF PushMember, PushThread, Schedule, CloneMembers, RemoveVictim, LeaveProcess, exits
    <2>5. WakeThreadWatchers \/ WakeProcessWatchers \/ PostCompletion \/ PostOverflow \/ PostExit \/ PowerOff => code' = code
      BY DEF WakeThreadWatchers, WakeProcessWatchers, PostCompletion, PostOverflow, PostExit, PowerOff, exits
    <2> QED
      BY <1>1, <1>7, <2>2, <2>3, <2>4, <2>5 DEF TaskStep
  <1> QED
    BY <1>2, <1>3, <1>4, <1>5, <1>6, <1>7 DEF Next

-----------------------------------------------------------------------------
\* What is proved.

\* The invariant on which the theorems rest.
THEOREM Invariant == Spec => []IInv
  BY InitInv, NextInv, PTL DEF Spec

\* Queues, wakers and tables hold ids of tasks, threads and processes, and no
\* stack is freed more often than twice.
THEOREM TypeCorrect == Spec => []TypeOK
  <1>1. IInv => TypeOK
    <2> SUFFICES ASSUME IInv PROVE TypeOK
      OBVIOUS
    <2>1. S!TypeOK
      BY SchedFacts DEF IInv
    <2> QED
      BY <2>1 DEF IInv, TypeOK, TaskInv, QueueInv, TableInv, Locks, ExitCodes
  <1> QED
    BY <1>1, Invariant, PTL

\* Thread::exit: a thread whose exit can be observed never runs again, and
\* the handlers resume only threads that are ready.
THEOREM ExitedStops == Spec => []ExitedNeverRuns
  <1>1. IInv => ExitedNeverRuns
    <2> SUFFICES ASSUME IInv PROVE ExitedNeverRuns
      OBVIOUS
    <2>1. S!CurrentIsReady /\ S!Queued(current)
      BY SchedFacts DEF IInv
    <2>2. \A t \in UserThreads : code[t] # Nil => ~S!Queued(t)
      BY DEF IInv, LifeInv, ThreadInv
    <2> QED
      BY <2>1, <2>2 DEF ExitedNeverRuns
  <1> QED
    BY <1>1, Invariant, PTL

\* ExitFuture and the device: a task that waits can be woken.
THEOREM PendingWakes == Spec => []PendingHasWaker
  <1>1. IInv => PendingHasWaker
    BY DEF IInv
  <1> QED
    BY <1>1, Invariant, PTL

\* run_executor: no id is popped whose task is still to be added to the map.
THEOREM ReadyKnown == Spec => []ReadyIsKnown
  <1>1. IInv => ReadyIsKnown
    BY DEF IInv, KnownInv
  <1> QED
    BY <1>1, Invariant, PTL

\* Process::exit: a process whose exit can be observed is leaving the table.
THEOREM DeadLeave == Spec => []DeadLeavesTable
  <1>1. IInv => DeadLeavesTable
    BY PolledTask DEF IInv, DeadInv, DeadLeavesTable, In, T
  <1> QED
    BY <1>1, Invariant, PTL

\* KillProcess: when the kill is answered all threads of the process have exited.
THEOREM KillComplete == Spec => []KillIsComplete
  <1>1. IInv => KillIsComplete
    BY DEF IInv, LifeInv
  <1> QED
    BY <1>1, Invariant, PTL

\* ExitState::set: the first exit code stays, and every completion tells it.
THEOREM FirstExit == Spec => FirstExitStays
  <1>1. ASSUME IInv, [Next]_vars
        PROVE  [ /\ \A x \in Exits : code[x] # Nil => code'[x] = code[x]
                 /\ \A p \in Pids : \A i \in 1..Len(recv'[p]) :
                      LET c == recv'[p][i]
                      IN  c.ans \in {"Normal", "PageFault", "Killed"} => c.ans = code'[c.of] ]_vars
    <2>1. IInv' /\ CodeStays
      BY <1>1, NextInv, CodesStay
    <2> QED
      BY <2>1 DEF IInv, RecvInv, IsTrue, CodeStays, ExitCodes
  <1> QED
    BY <1>1, Invariant, PTL DEF Spec, FirstExitStays

=============================================================================
