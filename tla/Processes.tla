----------------------------- MODULE Processes -----------------------------
(***************************************************************************)
(* Processes and threads of the kernel, from the boot of the init process: *)
(* process/mod.rs, process/commands.rs, process/spawn.rs,                  *)
(* process/thread/mod.rs, exception/handlers.rs and init.rs, on top of the *)
(* scheduler and of the task executor.                                     *)
(*                                                                         *)
(* There is one core.  A handler runs with interrupts masked and is one    *)
(* step.  User threads, and the executor with the task it polls, can be    *)
(* interrupted between any two of theirs.  A handler that needs a lock the *)
(* interrupted executor holds spins for ever (machine = "hung").           *)
(***************************************************************************)
EXTENDS Naturals, Sequences, FiniteSets

CONSTANTS IdleThread, TaskThread, UserThreads,
          Pids,            \* process ids
          InitPid, InitTid,
          Nil,
          NewTaskCapacity, ReadyCapacity,
          RecvCapacity,    \* capacity of a completion queue
          MaxCommands      \* bound on the commands posted

ASSUME InitAssumption == InitPid \in Pids /\ InitTid \in UserThreads
ASSUME PidsAssumption == Pids \cap UserThreads = {} /\ Nil \notin Pids
ASSUME ThreadsAssumption == IdleThread # TaskThread /\ {IdleThread, TaskThread} \cap UserThreads = {}
ASSUME CapacityAssumption == NewTaskCapacity \in Nat /\ ReadyCapacity \in Nat
ASSUME NilAssumption == Nil \notin {"Normal", "PageFault", "Killed"}

VARIABLES
  queues, next, current, state, stuck,                          \* Scheduler
  new_task_queue, ready_queue, tasks, polling, phase, overflow, \* TaskExecutor
  task,      \* the tasks spawned so far, by id: what each is doing
  held,      \* the locks held by the executor
  processes, \* PROCESSES
  threads,   \* THREADS, the user threads in it
  members,   \* Process::threads
  parent,    \* Thread::parent, Nil for a thread not made yet
  freed,     \* how often the stack of a thread has been freed
  code,      \* ExitState::code of threads and processes
  wakers,    \* ExitState::wakers
  send,      \* each process: its queue of commands
  recv,      \* each process: its queue of completions
  posted,    \* number of commands posted
  machine    \* "up", "hung", "panic" or "off"

schedVars == <<queues, next, current, state, stuck>>
execVars == <<new_task_queue, ready_queue, tasks, polling, phase, overflow>>
tables == <<processes, threads, members, parent, freed>>
exits == <<code, wakers>>
channels == <<send, recv, posted>>
vars == <<schedVars, execVars, task, held, tables, exits, channels, machine>>

S == INSTANCE Scheduler WITH HighThreads <- {}
E == INSTANCE TaskExecutor

Exits == UserThreads \cup Pids
Up == machine = "up" /\ ~overflow /\ ~stuck

-----------------------------------------------------------------------------
\* Locks of the executor, tasks and their parts.

SchedulerLock == <<"scheduler", Nil>>
ThreadsLock(p) == <<"threads", p>>   \* Process::threads, taken by exit
WakersLock(x) == <<"wakers", x>>     \* ExitState::wakers

(***************************************************************************)
(* A task: what it is for, the process it answers to, the thread, process  *)
(* or exit state it is about, where it is, the threads it has yet to make  *)
(* exit with the exit state it sets, and its answer.                       *)
(***************************************************************************)
Task(kind, p, x, label, todo) ==
  [kind |-> kind, proc |-> p, of |-> x, pc |-> label, todo |-> todo, sub |-> Nil, ans |-> Nil]

Finished == Task("done", Nil, Nil, "done", {})

Ids(new) == [i \in 1..Len(new) |-> Len(task) + i]

ProcessOf(x) == IF x \in Pids THEN x ELSE IF x \in UserThreads THEN parent[x] ELSE Nil

\* The processes that a task keeps alive by its Arcs.  A command that has
\* not started and an exit watcher hold only weak references.
Keeps(k) ==
  IF task[k].kind \in {"done", "notify"} \/ task[k].pc = "start" THEN {}
  ELSE {task[k].proc, ProcessOf(task[k].of)} \cup {parent[t] : t \in task[k].todo}

Alive(p) ==
  \/ p \in processes \/ members[p] # {}
  \/ \E t \in threads : parent[t] = p
  \/ \E k \in 1..Len(task) : p \in Keeps(k)

\* The commands of user space; "of" is their argument.
Commands ==
  [op : {"spawn_thread", "spawn_process"}, of : {Nil}]
  \cup [op : {"watch_thread"}, of : UserThreads]
  \cup [op : {"watch_process", "kill"}, of : Pids]

-----------------------------------------------------------------------------
\* The init process runs; finish_boot waits for its main thread to exit.
Init ==
  /\ queues = [l \in S!Levels |-> CASE l = S!High -> <<>> [] l = S!Low -> <<IdleThread>>
                                    [] l = S!Normal -> <<TaskThread, InitTid>>]
  /\ next = [l \in S!Levels |-> 0] /\ current = TaskThread
  /\ state = [t \in S!AllThreads |-> "Running"] /\ stuck = FALSE
  /\ new_task_queue = <<>> /\ ready_queue = <<>> /\ tasks = {1}
  /\ polling = 0 /\ phase = "ready" /\ overflow = FALSE
  /\ task = <<Task("boot", InitPid, InitTid, "poll", {})>>
  /\ held = {}
  /\ processes = {InitPid} /\ threads = {InitTid}
  /\ members = [p \in Pids |-> IF p = InitPid THEN {InitTid} ELSE {}]
  /\ parent = [t \in UserThreads |-> IF t = InitTid THEN InitPid ELSE Nil]
  /\ freed = [t \in UserThreads |-> 0]
  /\ code = [x \in Exits |-> Nil]
  /\ wakers = [x \in Exits |-> IF x = InitTid THEN <<1>> ELSE <<>>]
  /\ send = [p \in Pids |-> <<>>] /\ recv = [p \in Pids |-> <<>>] /\ posted = 0
  /\ machine = "up"

-----------------------------------------------------------------------------
\* User code, and the queues it shares with the kernel.

Runs(t) == Up /\ current = t /\ t \in UserThreads

PostCommand(t, c) ==
  /\ Runs(t) /\ posted < MaxCommands
  /\ posted' = posted + 1
  /\ send' = [send EXCEPT ![parent[t]] = Append(@, c)]
  /\ UNCHANGED <<schedVars, execVars, task, held, tables, exits, recv, machine>>

TakeCompletion(t) ==
  /\ Runs(t) /\ recv[parent[t]] # <<>>
  /\ recv' = [recv EXCEPT ![parent[t]] = Tail(@)]
  /\ UNCHANGED <<schedVars, execVars, task, held, tables, exits, send, posted, machine>>

-----------------------------------------------------------------------------
\* Handlers.  Each begins with pause_current_thread, which takes the lock of
\* the scheduler.

(***************************************************************************)
(* dispatch_new_commands of the process of the interrupted thread, if it   *)
(* has one, then the task the handler itself spawns, and the wakers it     *)
(* uses.                                                                   *)
(***************************************************************************)
Dispatch(also, woken) ==
  LET p == ProcessOf(current)
      commands == IF p = Nil THEN <<>>
                  ELSE [i \in 1..Len(send[p]) |-> Task(send[p][i].op, p, send[p][i].of, "start", {})]
      new == commands \o also
  IN  /\ task' = task \o new
      /\ E!Push(Ids(new), woken)
      /\ send' = IF p = Nil THEN send ELSE [send EXCEPT ![p] = <<>>]
      /\ UNCHANGED <<recv, posted>>

EnterHandler == Up /\ SchedulerLock \notin held

\* The timer interrupt, and the system call Yield of a user thread.
TimerOrYield ==
  /\ EnterHandler
  /\ S!Reschedule
  /\ Dispatch(<<>>, <<>>)
  /\ UNCHANGED <<tasks, polling, phase, held, tables, exits, machine>>

\* The device has read the file that task k of spawn_process waits for.
IoInterrupt(k) ==
  /\ EnterHandler
  /\ task[k].pc = "io" /\ \A i \in 1..Len(ready_queue) : ready_queue[i] # k
  /\ Dispatch(<<>>, <<k>>)
  /\ UNCHANGED <<schedVars, tasks, polling, phase, held, tables, exits, machine>>

\* on_page_fault makes the thread exit, in a task.
PageFault(t) ==
  /\ EnterHandler /\ Runs(t)
  /\ S!Block(t)
  /\ Dispatch(<<Task("fault", parent[t], t, "x_sched", {t})>>, <<>>)
  /\ UNCHANGED <<tasks, polling, phase, held, tables, exits, machine>>

\* The handler of this system call ends in todo!().
WaitForMessage(t) ==
  /\ EnterHandler /\ Runs(t)
  /\ machine' = "panic"
  /\ UNCHANGED <<schedVars, execVars, task, held, tables, exits, channels>>

-----------------------------------------------------------------------------
\* Thread::exit of t: the parts.

\* t is the last thread in its process.
IsLast(t) == members[parent[t]] \subseteq {t}

\* Mutant of Coded: the code is stored again by a second exit.
CodedAgain(x, c) == c

\* Once::call_once.
Coded(x, c) == IF code[x] = Nil THEN c ELSE code[x]

ExitLocks(t) ==
  {ThreadsLock(parent[t]), WakersLock(t)} \cup (IF IsLast(t) THEN {WakersLock(parent[t])} ELSE {})

\* The system call Exit: all of Thread::exit in the handler.
Exit(t) ==
  LET p == parent[t]
      dead == IF IsLast(t) THEN {t, p} ELSE {t}
  IN  /\ EnterHandler /\ Runs(t) /\ ExitLocks(t) \cap held = {}
      /\ S!RemoveThread(t)
      /\ Dispatch(<<>>, wakers[t] \o (IF p \in dead THEN wakers[p] ELSE <<>>))
      /\ threads' = threads \ {t}
      /\ members' = [members EXCEPT ![p] = @ \ {t}]
      /\ freed' = [freed EXCEPT ![t] = @ + 1]
      /\ code' = [x \in Exits |-> IF x \in dead THEN Coded(x, "Normal") ELSE code[x]]
      /\ wakers' = [x \in Exits |-> IF x \in dead THEN <<>> ELSE wakers[x]]
      /\ processes' = processes \ dead
      /\ UNCHANGED <<tasks, polling, phase, held, parent, machine>>

\* A handler spins on a lock that the executor holds.
Hang ==
  /\ Up
  /\ \/ SchedulerLock \in held
     \/ \E t \in UserThreads : Runs(t) /\ ExitLocks(t) \cap held # {}
  /\ machine' = "hung"
  /\ UNCHANGED <<schedVars, execVars, task, held, tables, exits, channels>>

-----------------------------------------------------------------------------
\* Steps of the task that the executor polls.  T is that task.

ExecutorRuns == Up /\ current = TaskThread

ExecutorLoop ==
  /\ ExecutorRuns
  /\ E!Loop
  /\ UNCHANGED <<schedVars, task, held, tables, exits, channels, machine>>

T == task[polling]
At(label) == ExecutorRuns /\ polling # 0 /\ T.pc = label

\* The task goes on from label, with some of its fields changed.
Continue(r) == task' = [task EXCEPT ![polling] = r] /\ E!InPoll
Goto(label) == Continue([T EXCEPT !.pc = label])
Answer(a) == Continue([T EXCEPT !.pc = "post", !.ans = a])
Done == task' = [task EXCEPT ![polling] = Finished] /\ E!Ready

Queues == <<new_task_queue, ready_queue, overflow>>

\* The closure of dispatch_new_commands, and dispatch_command up to the
\* first step of the command.
Start ==
  LET found == T.of \in (IF T.kind = "watch_thread" THEN threads ELSE processes)
      first == [spawn_thread |-> "alloc", spawn_process |-> "load",
                kill |-> "k_lock", watch_thread |-> "poll", watch_process |-> "poll"]
  IN  /\ At("start")
      /\ IF ~Alive(T.proc) THEN Done
         ELSE IF T.kind \in {"kill", "watch_thread", "watch_process"} /\ ~found THEN Answer("Err")
         ELSE Goto(first[T.kind])
      /\ UNCHANGED <<schedVars, Queues, phase, held, tables, exits, channels, machine>>

\* Take lock l, and go on.
Acquire(from, l, to) ==
  /\ At(from)
  /\ held' = held \cup {l}
  /\ Goto(to)
  /\ UNCHANGED <<schedVars, Queues, phase, tables, exits, channels, machine>>

-----------------------------------------------------------------------------
\* ExitFuture::poll, in WatchThread, WatchProcess, the exit watchers and boot.

PollExit ==
  /\ At("poll")
  /\ IF code[T.of] # Nil THEN Answer(code[T.of]) ELSE Goto("w_lock")
  /\ UNCHANGED <<schedVars, Queues, phase, held, tables, exits, channels, machine>>

LockWakers == Acquire("w_lock", WakersLock(T.of), "w_push")

\* Mutant of PushWaker: the future is pending and nobody knows.
PushWakerNot ==
  /\ At("w_push")
  /\ held' = held \ {WakersLock(T.of)}
  /\ task' = [task EXCEPT ![polling].pc = "poll"] /\ E!Pending
  /\ UNCHANGED <<schedVars, Queues, phase, tables, exits, channels, machine>>

PushWaker ==
  /\ At("w_push")
  /\ wakers' = [wakers EXCEPT ![T.of] = Append(@, polling)]
  /\ held' = held \ {WakersLock(T.of)}
  /\ task' = [task EXCEPT ![polling].pc = "poll"] /\ E!Pending
  /\ UNCHANGED <<schedVars, Queues, phase, tables, code, channels, machine>>

-----------------------------------------------------------------------------
\* SpawnThread and SpawnProcess.

NewTid == CHOOSE t \in UserThreads : parent[t] = Nil
Unused == {p \in Pids \ processes : code[p] = Nil /\ \A t \in UserThreads : parent[t] # p}
NewPid == CHOOSE p \in Unused : TRUE

Watch(x) == <<Task("notify", T.proc, x, "poll", {})>>

\* Memory runs out, or the file is not a program: the command fails.
Fail ==
  /\ \/ At("alloc") \/ At("load") \/ At("loaded") \/ At("c_queues")
  /\ Answer("Err")
  /\ UNCHANGED <<schedVars, Queues, phase, held, tables, exits, channels, machine>>

\* The thread and its stack are made; send_completion_on_exit spawns a task.
MakeThread ==
  /\ At("alloc") /\ \E t \in UserThreads : parent[t] = Nil
  /\ parent' = [parent EXCEPT ![NewTid] = T.proc]
  /\ \E new \in {<<>>, Watch(NewTid)} :
       /\ task' = [task EXCEPT ![polling].pc = "s_lock", ![polling].of = NewTid] \o new
       /\ E!Push(Ids(new), <<>>)
  /\ E!InPoll
  /\ UNCHANGED <<schedVars, phase, held, processes, threads, members, freed, exits, channels, machine>>

\* spawn_process reads the binary: the task waits for the device.
ReadBinary ==
  /\ At("load")
  /\ task' = [task EXCEPT ![polling].pc = "io"] /\ E!Pending
  /\ UNCHANGED <<schedVars, Queues, phase, held, tables, exits, channels, machine>>

BinaryRead ==
  /\ At("io")
  /\ Goto("loaded")
  /\ UNCHANGED <<schedVars, Queues, phase, held, tables, exits, channels, machine>>

\* The process is in the table before it has queues, a stack or a thread.
MakeProcess ==
  /\ At("loaded") /\ Unused # {}
  /\ processes' = processes \cup {NewPid}
  /\ Continue([T EXCEPT !.pc = "c_queues", !.of = NewPid])
  /\ UNCHANGED <<schedVars, Queues, phase, held, threads, members, parent, freed, exits, channels, machine>>

MakeMainThread ==
  /\ At("c_queues") /\ \E t \in UserThreads : parent[t] = Nil
  /\ parent' = [parent EXCEPT ![NewTid] = T.of]
  /\ Continue([T EXCEPT !.pc = "s_lock", !.of = NewTid])
  /\ UNCHANGED <<schedVars, Queues, phase, held, processes, threads, members, freed, exits, channels, machine>>

LockMembers == Acquire("s_lock", ThreadsLock(parent[T.of]), "s_push")

PushMember ==
  /\ At("s_push")
  /\ members' = [members EXCEPT ![parent[T.of]] = @ \cup {T.of}]
  /\ held' = held \ {ThreadsLock(parent[T.of])}
  /\ Goto("s_table")
  /\ UNCHANGED <<schedVars, Queues, phase, processes, threads, parent, freed, exits, channels, machine>>

\* The thread enters THREADS; for a new process before_launch may spawn a
\* task that watches the process.
PushThread ==
  /\ At("s_table")
  /\ threads' = threads \cup {T.of}
  /\ \E new \in {<<>>} \cup (IF T.kind = "spawn_process" THEN {Watch(parent[T.of])} ELSE {}) :
       /\ task' = [task EXCEPT ![polling].pc = "s_sched"] \o new
       /\ E!Push(Ids(new), <<>>)
  /\ E!InPoll
  /\ UNCHANGED <<schedVars, phase, held, processes, members, parent, freed, exits, channels, machine>>

LockToAdd == Acquire("s_sched", SchedulerLock, "s_add")

Schedule ==
  /\ At("s_add")
  /\ S!AddThread(T.of)
  /\ held' = held \ {SchedulerLock}
  /\ Answer("New")
  /\ UNCHANGED <<Queues, phase, tables, exits, channels, machine>>

-----------------------------------------------------------------------------
\* KillProcess; Thread::exit as a task runs it, for kill and page faults.

LockToKill == Acquire("k_lock", ThreadsLock(T.of), "k_clone")

CloneMembers ==
  /\ At("k_clone")
  /\ held' = held \ {ThreadsLock(T.of)}
  /\ IF members[T.of] = {} THEN Answer("Success")
     ELSE Continue([T EXCEPT !.pc = "x_sched", !.todo = members[T.of]])
  /\ UNCHANGED <<schedVars, Queues, phase, tables, exits, channels, machine>>

\* The thread that is made to exit.
Victim == CHOOSE t \in T.todo : TRUE

LockToRemove == Acquire("x_sched", SchedulerLock, "x_remove")

\* Mutant of RemoveVictim: the scheduler keeps the thread.
RemoveVictimNot ==
  /\ At("x_remove")
  /\ threads' = threads \ {Victim}
  /\ held' = held \ {SchedulerLock}
  /\ Goto("x_lock")
  /\ UNCHANGED <<schedVars, Queues, phase, processes, members, parent, freed, exits, channels, machine>>

RemoveVictim ==
  /\ At("x_remove")
  /\ S!RemoveThread(Victim)
  /\ threads' = threads \ {Victim}
  /\ held' = held \ {SchedulerLock}
  /\ Goto("x_lock")
  /\ UNCHANGED <<Queues, phase, processes, members, parent, freed, exits, channels, machine>>

LockToLeave == Acquire("x_lock", ThreadsLock(parent[Victim]), "x_leave")

\* The thread leaves its process and its stack is freed; sub is the exit
\* state to set last.
LeaveProcess ==
  LET p == parent[Victim]
  IN  /\ At("x_leave")
      /\ members' = [members EXCEPT ![p] = @ \ {Victim}]
      /\ freed' = [freed EXCEPT ![Victim] = @ + 1]
      /\ held' = held \ {ThreadsLock(p)}
      /\ Continue([T EXCEPT !.pc = "x_code", !.sub = IF IsLast(Victim) THEN p ELSE Victim])
      /\ UNCHANGED <<schedVars, Queues, phase, processes, threads, parent, exits, channels, machine>>

\* ExitState::set of the thread, then of its process if it was the last.
ExitReason == IF T.kind = "kill" THEN "Killed" ELSE "PageFault"

SetCode(from, x, to) ==
  /\ At(from)
  /\ code' = [code EXCEPT ![x] = Coded(x, ExitReason)]
  /\ Goto(to)
  /\ UNCHANGED <<schedVars, Queues, phase, held, tables, wakers, channels, machine>>

SetThreadCode == SetCode("x_code", Victim, "x_wlock")
SetProcessCode == SetCode("x_pcode", T.sub, "x_pwlock")

LockThreadWakers == Acquire("x_wlock", WakersLock(Victim), "x_wake")
LockProcessWakers == Acquire("x_pwlock", WakersLock(T.sub), "x_pwake")

\* Mutant of NextVictim: the loop does not move on.
NextVictimAgain == Continue([T EXCEPT !.pc = "x_sched", !.sub = Nil])

\* Mutant of NextVictim: the command is finished with the first thread.
NextVictimNone ==
  IF T.kind = "kill" THEN Continue([T EXCEPT !.pc = "post", !.todo = {}, !.sub = Nil, !.ans = "Success"])
  ELSE Done

\* The thread has exited: on to the next one, or the task is finished.
NextVictim ==
  LET todo == T.todo \ {Victim}
  IN  IF todo # {} THEN Continue([T EXCEPT !.pc = "x_sched", !.todo = todo, !.sub = Nil])
      ELSE IF T.kind = "kill" THEN Continue([T EXCEPT !.pc = "post", !.todo = {}, !.sub = Nil, !.ans = "Success"])
      ELSE Done

WakeThreadWatchers ==
  /\ At("x_wake")
  /\ wakers' = [wakers EXCEPT ![Victim] = <<>>]
  /\ E!Push(<<>>, wakers[Victim])
  /\ held' = held \ {WakersLock(Victim)}
  /\ IF T.sub \in Pids THEN Goto("x_pcode") ELSE NextVictim
  /\ UNCHANGED <<schedVars, phase, tables, code, channels, machine>>

\* Mutant of WakeProcessWatchers: the process stays in the table.
WakeProcessWatchersOnly ==
  /\ At("x_pwake")
  /\ wakers' = [wakers EXCEPT ![T.sub] = <<>>]
  /\ E!Push(<<>>, wakers[T.sub])
  /\ held' = held \ {WakersLock(T.sub)}
  /\ NextVictim
  /\ UNCHANGED <<schedVars, phase, tables, code, channels, machine>>

WakeProcessWatchers ==
  /\ At("x_pwake")
  /\ wakers' = [wakers EXCEPT ![T.sub] = <<>>]
  /\ E!Push(<<>>, wakers[T.sub])
  /\ held' = held \ {WakersLock(T.sub)}
  /\ processes' = processes \ {T.sub}
  /\ NextVictim
  /\ UNCHANGED <<schedVars, phase, threads, members, parent, freed, code, channels, machine>>

-----------------------------------------------------------------------------
\* The end of a task: the completion is posted.

Completion == [to |-> T.kind, of |-> T.of, ans |-> T.ans]
Room == Len(recv[T.proc]) < RecvCapacity

\* A command: the completion queue lives as long as the process, which the
\* task keeps alive.
PostCompletion ==
  /\ At("post") /\ T.kind \notin {"notify", "boot"} /\ Room
  /\ recv' = [recv EXCEPT ![T.proc] = Append(@, Completion)]
  /\ Done
  /\ UNCHANGED <<schedVars, Queues, phase, held, tables, exits, send, posted, machine>>

\* todo!("kill process on queue overflow")
PostOverflow ==
  /\ At("post") /\ T.kind \notin {"notify", "boot"} /\ ~Room
  /\ machine' = "panic"
  /\ UNCHANGED <<schedVars, execVars, task, held, tables, exits, channels>>

\* An exit watcher drops the completion if there is no room or no queue.
PostExit ==
  /\ At("post") /\ T.kind = "notify"
  /\ recv' = IF Alive(T.proc) /\ Room THEN [recv EXCEPT ![T.proc] = Append(@, Completion)] ELSE recv
  /\ Done
  /\ UNCHANGED <<schedVars, Queues, phase, held, tables, exits, send, posted, machine>>

\* The init process has exited.
PowerOff ==
  /\ At("post") /\ T.kind = "boot"
  /\ machine' = "off"
  /\ UNCHANGED <<schedVars, execVars, task, held, tables, exits, channels>>

-----------------------------------------------------------------------------
UserStep ==
  \E t \in UserThreads :
    \/ \E c \in Commands : PostCommand(t, c)
    \/ TakeCompletion(t)

Handler ==
  \/ TimerOrYield
  \/ \E k \in 1..Len(task) : IoInterrupt(k)
  \/ \E t \in UserThreads : PageFault(t) \/ WaitForMessage(t) \/ Exit(t)
  \/ Hang

TaskStep ==
  \/ Start \/ Fail
  \/ PollExit \/ LockWakers \/ PushWaker
  \/ MakeThread \/ ReadBinary \/ BinaryRead \/ MakeProcess \/ MakeMainThread
  \/ LockMembers \/ PushMember \/ PushThread \/ LockToAdd \/ Schedule
  \/ LockToKill \/ CloneMembers
  \/ LockToRemove \/ RemoveVictim \/ LockToLeave \/ LeaveProcess
  \/ SetThreadCode \/ LockThreadWakers \/ WakeThreadWatchers
  \/ SetProcessCode \/ LockProcessWakers \/ WakeProcessWatchers
  \/ PostCompletion \/ PostOverflow \/ PostExit \/ PowerOff

Next == UserStep \/ Handler \/ ExecutorLoop \/ TaskStep

Spec == Init /\ [][Next]_vars

-----------------------------------------------------------------------------
InQueue(k, q) == \E i \in 1..Len(q) : q[i] = k
TaskIds == 1..Len(task)

\* Type invariant.
TypeOK ==
  /\ S!TypeOK
  /\ new_task_queue \in Seq(TaskIds) /\ ready_queue \in Seq(TaskIds)
  /\ tasks \subseteq TaskIds /\ polling \in {0} \cup tasks
  /\ processes \subseteq Pids /\ threads \subseteq UserThreads
  /\ members \in [Pids -> SUBSET UserThreads]
  /\ parent \in [UserThreads -> Pids \cup {Nil}]
  /\ freed \in [UserThreads -> 0..2]
  /\ code \in [Exits -> {Nil, "Normal", "PageFault", "Killed"}]
  /\ wakers \in [Exits -> Seq(TaskIds)]
  /\ held \subseteq {SchedulerLock} \cup {ThreadsLock(p) : p \in Pids} \cup {WakersLock(x) : x \in Exits}
  /\ machine \in {"up", "hung", "panic", "off"}

(***************************************************************************)
(* A thread whose exit can be observed never runs again: it is not         *)
(* current and the scheduler does not know it.  Thread::exit takes it out  *)
(* of the scheduler before it sets the exit state, and the threads that a  *)
(* command makes are scheduled before any other task can make them exit.   *)
(***************************************************************************)
ExitedNeverRuns ==
  /\ \A t \in UserThreads : code[t] # Nil => ~S!Queued(t) /\ current # t
  /\ Up => S!CurrentIsReady

(***************************************************************************)
(* A thread can be made to exit twice (a fault or an Exit while a kill is  *)
(* under way).  The first exit code stays, and every completion that tells *)
(* one tells that code.                                                    *)
(***************************************************************************)
FirstExitStays ==
  [][ /\ \A x \in Exits : code[x] # Nil => code'[x] = code[x]
      /\ \A p \in Pids : \A i \in 1..Len(recv'[p]) :
           LET c == recv'[p][i]
           IN  c.ans \in {"Normal", "PageFault", "Killed"} => c.ans = code'[c.of]
    ]_vars

(***************************************************************************)
(* A task that is not finished and not queued to be polled has left its    *)
(* waker where it waits, or waits for the device.                          *)
(***************************************************************************)
PendingHasWaker ==
  \A k \in tasks \ {polling} :
    \/ InQueue(k, ready_queue) \/ InQueue(k, new_task_queue) \/ overflow
    \/ task[k].pc = "io"
    \/ task[k].pc = "poll" /\ (InQueue(k, wakers[task[k].of]) \/ code[task[k].of] # Nil)

(***************************************************************************)
(* "make sure tasks are only in the ready queue after they have been added *)
(* to the tasks map" (tasks/mod.rs): an id that is not in the map when it  *)
(* is popped is skipped for good, so it must be that of a finished task.   *)
(***************************************************************************)
ReadyIsKnown ==
  \A k \in TaskIds : InQueue(k, ready_queue) => k \in tasks \/ task[k] = Finished

(***************************************************************************)
(* A process whose exit can be observed is no longer "live": it is in the  *)
(* table only while the exit of its last thread is being carried out.      *)
(***************************************************************************)
DeadLeavesTable ==
  \A p \in Pids :
    code[p] # Nil /\ p \in processes =>
      \E k \in tasks : task[k].sub = p /\ task[k].pc \in {"x_pwlock", "x_pwake"}

(***************************************************************************)
(* "Kill a process. This will cause all threads in the process to exit     *)
(* immediately" (kapi/src/commands.rs).  When the completion of a kill is  *)
(* about to be posted, every thread the process ever had has exited, also  *)
(* those that left by themselves, or faulted, after the list was cloned.   *)
(***************************************************************************)
KillIsComplete ==
  polling # 0 /\ T.kind = "kill" /\ T.pc = "post" /\ T.ans = "Success" =>
    members[T.of] = {} /\ \A t \in UserThreads : parent[t] = T.of => code[t] # Nil

(***************************************************************************)
(* send_completion_on_exit: "an additional completion will be sent when    *)
(* the thread exits" (kapi/src/commands.rs).  A task that waits for an     *)
(* exit that has happened is about to be polled.                           *)
(***************************************************************************)
ExitIsNoticed ==
  \A k \in tasks \ {polling} :
    task[k].pc = "poll" /\ code[task[k].of] # Nil =>
      \/ InQueue(k, ready_queue) \/ overflow
      \/ InQueue(k, wakers[task[k].of])
         /\ \E j \in tasks : task[j].pc \in {"x_wlock", "x_wake", "x_pwlock", "x_pwake"}
=============================================================================
