--------------------------- MODULE CommandDispatch ---------------------------
(***************************************************************************)
(* How the kernel takes commands from a process (process/mod.rs,           *)
(* dispatch_new_commands) when an exception or interrupt is handled        *)
(* (exception/handlers.rs): on the one core, with interrupts masked, so    *)
(* that no thread of the process runs until the handler is done.  The      *)
(* send queue is an ArrayQueue whose pollers are the kernel alone.         *)
(***************************************************************************)
EXTENDS ArrayQueue

CONSTANTS Kernel,          \* the handler: the one member of Pollers
          NewTaskCapacity  \* room in Executor::new_task_queue

VARIABLES mode,      \* who has the core: "user" code, the "handler", or "panic"
          new_tasks  \* the commands whose tasks are in new_task_queue

dispatchVars == <<vars, mode, new_tasks>>

DispatchInit == Init /\ mode = "user" /\ new_tasks = <<>>

\* A thread of the process runs: it calls post, or takes its next step.
UserStep ==
  /\ mode = "user"
  /\ \E p \in Posters : (\E v \in Values : CallPost(p, v)) \/ Step(p)
  /\ UNCHANGED <<mode, new_tasks>>

\* The task executor, when it is scheduled, empties new_task_queue.
RunExecutor ==
  /\ mode = "user" /\ new_tasks # <<>>
  /\ new_tasks' = <<>>
  /\ UNCHANGED <<vars, mode>>

KernelCallsPoll ==
  /\ pc' = [pc EXCEPT ![Kernel] = "poll_load"]
  /\ UNCHANGED <<head, tail, stamp, value, arg, pos, calls, spurious>>

\* A timer interrupt, another interrupt or a system call, between any two
\* steps of the threads; the handler calls dispatch_new_commands.
EnterHandler ==
  /\ mode = "user" /\ pc[Kernel] = "idle"
  /\ mode' = "handler"
  /\ KernelCallsPoll /\ UNCHANGED <<res, new_tasks>>

KernelPollStep ==
  /\ mode = "handler" /\ pc[Kernel] # "done" /\ Step(Kernel)
  /\ UNCHANGED <<mode, new_tasks>>

\* while let Some(cmd) = send_qu.poll() { spawn(..) }
SpawnCommand ==
  /\ mode = "handler" /\ pc[Kernel] = "done" /\ res[Kernel] # "empty"
  /\ IF Len(new_tasks) < NewTaskCapacity
     THEN new_tasks' = Append(new_tasks, res[Kernel]) /\ UNCHANGED mode
     ELSE mode' = "panic" /\ UNCHANGED new_tasks  \* "new task queue overflow"
  /\ res' = [res EXCEPT ![Kernel] = Nil]
  /\ KernelCallsPoll

LeaveHandler ==
  /\ mode = "handler" /\ pc[Kernel] = "done" /\ res[Kernel] = "empty"
  /\ mode' = "user"
  /\ Return(Kernel) /\ UNCHANGED new_tasks

DispatchNext ==
  \/ UserStep \/ RunExecutor
  \/ EnterHandler \/ KernelPollStep \/ SpawnCommand \/ LeaveHandler

\* The handler runs whenever it has the core; threads run between handlers.
DispatchSpec ==
  /\ DispatchInit /\ [][DispatchNext]_dispatchVars
  /\ WF_dispatchVars(KernelPollStep) /\ WF_dispatchVars(SpawnCommand)
  /\ WF_dispatchVars(LeaveHandler)

(***************************************************************************)
(* poll only attempts to pop an element (kapi/src/queue.rs), so the        *)
(* handler that polls a queue always comes back to user code, wherever the *)
(* interrupt found the threads of the process.                             *)
(***************************************************************************)
HandlerReturns == mode = "handler" ~> mode # "handler"
=============================================================================
