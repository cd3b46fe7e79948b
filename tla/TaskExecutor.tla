---------------------------- MODULE TaskExecutor ----------------------------
(***************************************************************************)
(* kernel/src/tasks/mod.rs: the executor of asynchronous tasks, a kernel   *)
(* thread that takes interrupts like any other.  Handlers and tasks put    *)
(* ids in its two queues (crossbeam's ArrayQueue, whose push and pop are   *)
(* single steps here); the map of tasks is its own.  A push on a full      *)
(* queue panics.                                                           *)
(***************************************************************************)
EXTENDS Naturals, Sequences

CONSTANTS NewTaskCapacity,  \* 32 in Executor::default
          ReadyCapacity     \* 128 in Executor::default

VARIABLES new_task_queue,   \* ids of the tasks that have been spawned
          ready_queue,      \* ids of the tasks to poll
          tasks,            \* ids in the map of run_forever
          polling,          \* the task in poll, 0 if none
          phase,            \* which of the two loops of run_forever
          overflow          \* a push on a full queue has panicked

vars == <<new_task_queue, ready_queue, tasks, polling, phase, overflow>>

Init ==
  /\ new_task_queue = <<>> /\ ready_queue = <<>>
  /\ tasks = {} /\ polling = 0 /\ phase = "new" /\ overflow = FALSE

Pushed(queue, ids, capacity) ==
  IF Len(queue) + Len(ids) <= capacity THEN queue \o ids ELSE queue

(***************************************************************************)
(* What a step of a caller pushes: spawn for the ids in new, and           *)
(* TaskWaker::wake for the ids in woken.                                   *)
(***************************************************************************)
Push(new, woken) ==
  /\ new_task_queue' = Pushed(new_task_queue, new, NewTaskCapacity)
  /\ ready_queue' = Pushed(ready_queue, woken, ReadyCapacity)
  /\ overflow' = (\/ Len(new_task_queue) + Len(new) > NewTaskCapacity
                  \/ Len(ready_queue) + Len(woken) > ReadyCapacity)

\* Mutant of AddNewTask: the id is made ready and the task not kept.
AddNewTaskUnknown ==
  /\ phase = "new" /\ polling = 0 /\ new_task_queue # <<>>
  /\ new_task_queue' = Tail(new_task_queue)
  /\ ready_queue' = Pushed(ready_queue, <<Head(new_task_queue)>>, ReadyCapacity)
  /\ overflow' = (Len(ready_queue) >= ReadyCapacity)
  /\ UNCHANGED <<tasks, polling, phase>>

AddNewTask ==
  /\ phase = "new" /\ polling = 0 /\ new_task_queue # <<>>
  /\ new_task_queue' = Tail(new_task_queue)
  /\ tasks' = tasks \cup {Head(new_task_queue)}
  /\ ready_queue' = Pushed(ready_queue, <<Head(new_task_queue)>>, ReadyCapacity)
  /\ overflow' = (Len(ready_queue) >= ReadyCapacity)
  /\ UNCHANGED <<polling, phase>>

\* One of the loops finds its queue empty and the other one starts.
SwitchLoop ==
  /\ polling = 0
  /\ \/ phase = "new" /\ new_task_queue = <<>> /\ ready_queue # <<>> /\ phase' = "ready"
     \/ phase = "ready" /\ ready_queue = <<>> /\ phase' = "new"
  /\ UNCHANGED <<new_task_queue, ready_queue, tasks, polling, overflow>>

\* An id whose task is gone is skipped.
PopReady ==
  /\ phase = "ready" /\ polling = 0 /\ ready_queue # <<>>
  /\ ready_queue' = Tail(ready_queue)
  /\ polling' = IF Head(ready_queue) \in tasks THEN Head(ready_queue) ELSE 0
  /\ UNCHANGED <<new_task_queue, tasks, phase, overflow>>

Loop == AddNewTask \/ SwitchLoop \/ PopReady

\* The poll of the current task answers Pending, or Ready.
Pending == polling' = 0 /\ UNCHANGED tasks
Ready == polling' = 0 /\ tasks' = tasks \ {polling}
InPoll == UNCHANGED <<polling, tasks>>
=============================================================================
