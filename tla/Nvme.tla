-------------------------------- MODULE Nvme --------------------------------
(***************************************************************************)
(* The NVMe driver (storage/nvme) with the controller it drives and the    *)
(* interrupt path between them (exception/handlers.rs).  One core runs     *)
(* either a task, until it awaits something, or a handler; the controller  *)
(* takes its steps at any time.                                            *)
(*                                                                         *)
(* A command's life: a task fills a slot of the submission queue and rings *)
(* the doorbell (ReadBlocks, WriteBlocks), the controller moves the data,  *)
(* writes a completion and signals the vector (DeviceStep), the interrupt  *)
(* handler pops the completion and leaves it in pending_completions        *)
(* (HandleInterrupt), and the task's future finds it there (PollCommand).  *)
(***************************************************************************)
EXTENDS NvmeQueue, InterruptController, TLC

CONSTANTS
  Tasks,             \* the tasks of the executor that use the volume
  NoTask,
  Pages,             \* the pages of memory the controller is given
  Capacity,          \* the number of blocks of the namespace
  IdSpan,            \* command ids are counted modulo this (2^16)
  AdminEntries,      \* entries of a page of the admin submission queue (64)
  IoEntries,         \* and of the I/O submission queue (128)
  MaxFaults,         \* bound on the commands the controller refuses
  Junk               \* a block of memory nobody here has filled

VARIABLES
  admin, io,             \* the two pairs of queues
  ctl,                   \* CC.EN and CSTS.RDY of the controller
  vector, gic,           \* MSI-X entry and interrupt controller
  handler,               \* the interrupt id the handler is registered for
  pending_completions,   \* command id -> Waiting(task) or Ready(ok)
  next_cmd_id,
  boot,                  \* where configure, open_block_store and mount are
  disk,                  \* the blocks of the namespace
  mem,                   \* the pages of memory, each a sequence of blocks
  woken,                 \* tasks in the executor's ready queue
  panicked,              \* why the kernel stopped, if it did
  faults

nvmeVars == <<admin, io, ctl, vector, gic, handler, pending_completions,
              next_cmd_id, boot, disk, mem, woken, panicked, faults>>

NvmeInit(volume) ==
  /\ admin = NoQueue /\ io = NoQueue
  /\ ctl = [enabled |-> TRUE, ready |-> TRUE]  \* as the firmware left it
  /\ vector = NewVector /\ gic = NewController /\ handler = 0
  /\ pending_completions = <<>> /\ next_cmd_id = 0
  /\ boot = "check_ready"
  /\ disk = volume
  /\ mem = [p \in Pages |-> [i \in 1 .. BlocksPerPage |-> Junk]]
  /\ woken = {} /\ panicked = "" /\ faults = 0

-----------------------------------------------------------------------------
(* configure and open_block_store: the task busy-waits, so no other task   *)
(* runs in between.                                                        *)

AdminCommand(op) == [Blank EXCEPT !.op = op]

\* Reset the controller: it must have been ready once.
Reset ==
  /\ boot = "check_ready" /\ ctl.ready
  /\ ctl' = [ctl EXCEPT !.enabled = FALSE]
  /\ boot' = "wait_reset"
  /\ UNCHANGED <<admin, io, vector, gic, handler, pending_completions,
                 next_cmd_id, disk, mem, woken, panicked, faults>>

\* New admin queues of a page each; the two sizes reach AQA exchanged, and
\* counted from one where the controller counts from zero.
SetUpAdminQueues ==
  /\ boot = "wait_reset" /\ ~ctl.ready
  /\ LET cqEntries == 4 * AdminEntries
     IN  admin' = NewQueue(0, AdminEntries, cqEntries, cqEntries + 1, AdminEntries + 1)
  /\ ctl' = [ctl EXCEPT !.enabled = TRUE]
  /\ boot' = "wait_ready"
  /\ UNCHANGED <<io, vector, gic, handler, pending_completions, next_cmd_id,
                 disk, mem, woken, panicked, faults>>

\* The controller follows CC.EN (external).
ControllerFollows ==
  /\ ctl.ready # ctl.enabled
  /\ ctl' = [ctl EXCEPT !.ready = ctl.enabled]
  /\ UNCHANGED <<admin, io, vector, gic, handler, pending_completions,
                 next_cmd_id, boot, disk, mem, woken, panicked, faults>>

IdentifyController ==
  /\ boot = "wait_ready" /\ ctl.ready
  /\ admin' = Submit(admin, AdminCommand("identify"))
  /\ boot' = "controller"
  /\ UNCHANGED <<io, ctl, vector, gic, handler, pending_completions,
                 next_cmd_id, disk, mem, woken, panicked, faults>>

\* The completion of Identify is logged, whatever its status.
ListNamespaces ==
  /\ boot = "controller" /\ HasCompletion(admin)
  /\ admin' = Submit(Popped(admin), AdminCommand("identify"))
  /\ boot' = "namespaces"
  /\ UNCHANGED <<io, ctl, vector, gic, handler, pending_completions,
                 next_cmd_id, disk, mem, woken, panicked, faults>>

\* End of configure; open_block_store for a namespace of the list allocates
\* an interrupt, which panics when there is none left, and asks for the
\* completion queue.
CreateCompletionQueue ==
  /\ boot = "namespaces" /\ HasCompletion(admin)
  /\ IF OutOfMsis(gic)
     THEN /\ panicked' = "device" /\ boot' = "failed"
          /\ admin' = Popped(admin)
          /\ UNCHANGED <<gic, vector>>
     ELSE /\ gic' = AllocMsi(gic)
          /\ vector' = WriteVector(vector, gic.next_spi)
          /\ admin' = Submit(Popped(admin), AdminCommand("create_cq"))
          /\ boot' = "create_cq"
          /\ UNCHANGED panicked
  /\ UNCHANGED <<io, ctl, handler, pending_completions, next_cmd_id,
                 disk, mem, woken, faults>>

\* A refused queue is dropped, which sends its delete command, and the error
\* goes up to finish_boot, which unwraps it.
QueueRefused(drops) ==
  /\ admin' = FoldLeft(LAMBDA q, op : Submit(q, AdminCommand(op)), Popped(admin), drops)
  /\ io' = NoQueue
  /\ boot' = "failed"
  /\ panicked' = "device"
  /\ UNCHANGED <<gic, handler>>

CreateSubmissionQueue ==
  /\ boot = "create_cq" /\ HasCompletion(admin)
  /\ \/ /\ Completion(admin).ok
        /\ io' = NewQueue(1, IoEntries, 4 * IoEntries, IoEntries, 4 * IoEntries)
        /\ admin' = Submit(Popped(admin), AdminCommand("create_sq"))
        /\ boot' = "create_sq"
        /\ UNCHANGED <<panicked, gic, handler>>
     \/ ~Completion(admin).ok /\ QueueRefused(<<"delete_cq">>)
  /\ UNCHANGED <<ctl, vector, pending_completions, next_cmd_id, disk, mem,
                 woken, faults>>

\* register_completion_queue: the handler owns the queue from here on.
RegisterQueue ==
  /\ boot = "create_sq" /\ HasCompletion(admin)
  /\ \/ /\ Completion(admin).ok
        /\ handler' = vector.id
        /\ gic' = EnableInterrupts(gic, vector.id)
        /\ admin' = Submit(Popped(admin), AdminCommand("identify"))
        /\ boot' = "identify"
        /\ UNCHANGED <<io, panicked>>
     \/ ~Completion(admin).ok /\ QueueRefused(<<"delete_sq", "delete_cq">>)
  /\ UNCHANGED <<ctl, vector, pending_completions, next_cmd_id, disk, mem,
                 woken, faults>>

\* The block size is read and the vector unmasked: the store is open.
OpenStore ==
  /\ boot = "identify" /\ HasCompletion(admin)
  /\ admin' = Popped(admin)
  /\ vector' = set_mask(vector, FALSE)
  /\ gic' = IF vector.waiting THEN Raise(gic, vector.id) ELSE gic
  /\ boot' = "open"
  /\ UNCHANGED <<io, ctl, handler, pending_completions, next_cmd_id, disk,
                 mem, woken, panicked, faults>>

-----------------------------------------------------------------------------
(* The controller at work (external). *)

Blocks == 0 .. Capacity - 1

\* NVMe counts the blocks of a command from zero.
Wanted(cmd) == cmd.nlb + 1

PagesOfCommand(cmd) ==
  DevicePages(cmd.prp, CeilDiv(Wanted(cmd), BlocksPerPage))

\* The index, in the command's data, of block i of page p.
DataIndex(cmd, p, i) ==
  LET pages == PagesOfCommand(cmd)
      k == CHOOSE j \in DOMAIN pages : pages[j] = p
  IN  (k - 1) * BlocksPerPage + i - 1

InData(cmd, p, i) ==
  p \in Range(PagesOfCommand(cmd)) /\ DataIndex(cmd, p, i) < Wanted(cmd)

ReadInto(cmd) ==
  [p \in Pages |-> [i \in 1 .. BlocksPerPage |->
    IF InData(cmd, p, i) THEN disk[cmd.start + DataIndex(cmd, p, i)] ELSE mem[p][i]]]

\* What lies at a page that is not ours is junk.
WriteFrom(cmd) ==
  LET pages == PagesOfCommand(cmd)
      page(k)  == pages[1 + (k \div BlocksPerPage)]
      block(k) == IF page(k) \in Pages THEN mem[page(k)][1 + (k % BlocksPerPage)] ELSE Junk
  IN  [b \in Blocks |->
        IF b - cmd.start \in 0 .. Wanted(cmd) - 1 THEN block(b - cmd.start) ELSE disk[b]]

\* A command is refused if it leaves the namespace, or for a reason of the
\* controller's own; a refused command moves no data.
DeviceAnswers(q, ok) ==
  /\ DeviceHasWork(q)
  /\ LET cmd == DeviceCommand(q)
         fits == cmd.op \in {"read", "write"} => cmd.start + Wanted(cmd) <= Capacity
     IN  /\ ok => fits
         /\ mem'  = IF ok /\ cmd.op = "read"  THEN ReadInto(cmd)  ELSE mem
         /\ disk' = IF ok /\ cmd.op = "write" THEN WriteFrom(cmd) ELSE disk
         /\ faults' = IF ok \/ ~fits THEN faults ELSE faults + 1
  /\ faults' <= MaxFaults

DeviceStep ==
  /\ \E ok \in BOOLEAN :
       \/ /\ DeviceAnswers(admin, ok)
          /\ admin' = DeviceCompletes(admin, ok)
          /\ UNCHANGED <<io, vector, gic>>
       \/ /\ DeviceAnswers(io, ok)
          /\ io' = DeviceCompletes(io, ok)
          /\ vector' = Signalled(vector)
          /\ gic' = IF vector.masked THEN gic ELSE Raise(gic, vector.id)
          /\ UNCHANGED admin
  /\ UNCHANGED <<ctl, handler, pending_completions, next_cmd_id, boot, woken, panicked>>

-----------------------------------------------------------------------------
(* The interrupt handler.  handle_interrupt of exception/handlers.rs loops *)
(* until nothing is pending; each turn is a step.                          *)

Known(id) == id \in DOMAIN pending_completions

\* A completion whose future was never polled is kept for it.
KeepReady(cmp) == (cmp.id :> [state |-> "Ready", task |-> NoTask, ok |-> cmp.ok]) @@ pending_completions

\* Mutant: a completion nobody waits for yet is dropped.
DeliverWaited(cmp) == IF Known(cmp.id) THEN KeepReady(cmp) ELSE pending_completions

Deliver(cmp) == KeepReady(cmp)

\* The handler of the NVMe driver takes one completion; an interrupt nobody
\* has a handler for, or that finds the queue empty, is only logged.
HandleInterrupt ==
  \E id \in Deliverable(gic) :
    /\ gic' = finish_interrupt(ack_interrupt(gic, id), id)
    /\ IF id = handler /\ HasCompletion(io)
       THEN LET cmp == Completion(io)
                twice == Known(cmp.id) /\ pending_completions[cmp.id].state = "Ready"
            IN  /\ io' = Popped(io)
                /\ panicked' = IF twice THEN "second completion" ELSE panicked
                /\ pending_completions' = Deliver(cmp)
                /\ woken' = IF Known(cmp.id) THEN woken \cup {pending_completions[cmp.id].task}
                                             ELSE woken
       ELSE UNCHANGED <<io, panicked, pending_completions, woken>>
    /\ UNCHANGED <<admin, ctl, vector, handler, next_cmd_id, boot, disk, mem, faults>>

-----------------------------------------------------------------------------
(* The BlockStore of a namespace (block_store.rs): what a task does with   *)
(* it.  The caller says which of its own variables change.                 *)

\* read_blocks and write_blocks up to their await.
IssueCommand(op, start, regions) ==
  LET blocks == FoldLeft(LAMBDA n, r : n + r[2], 0, regions)
  IN  /\ IF Full(io)
         THEN panicked' = "queue full" /\ UNCHANGED <<io, next_cmd_id>>
         ELSE /\ io' = Submit(io, [op |-> op, id |-> next_cmd_id, start |-> start,
                                   nlb |-> blocks, prp |-> SetDataPtrs(regions)])
              /\ next_cmd_id' = (next_cmd_id + 1) % IdSpan
              /\ UNCHANGED panicked
      /\ UNCHANGED <<admin, ctl, vector, gic, handler, pending_completions,
                     boot, disk, mem, woken, faults>>

\* Poll::Pending: with interrupts masked, so nothing comes between the look
\* and the waker.  Some(Waiting) is a task polled twice for one wake-up.
WaitFor(t, id) ==
  /\ Known(id) => pending_completions[id].state = "Waiting"
  /\ pending_completions' =
       (id :> [state |-> "Waiting", task |-> t, ok |-> TRUE]) @@ pending_completions
  /\ woken' = woken \ {t}
  /\ UNCHANGED <<admin, io, ctl, vector, gic, handler, next_cmd_id, boot,
                 disk, mem, panicked, faults>>

\* Poll::Ready: the entry leaves the map.
TakeReady(t, id) ==
  /\ Known(id) /\ pending_completions[id].state = "Ready"
  /\ pending_completions' =
       [i \in DOMAIN pending_completions \ {id} |-> pending_completions[i]]
  /\ woken' = woken \ {t}

\* A second wake-up of a task that is already in the ready queue, or awaits:
\* a waker pushes its id without looking (tasks/mod.rs, ArcWake).
SpuriousWake ==
  /\ \E t \in Tasks \ woken :
       /\ \E id \in DOMAIN pending_completions : pending_completions[id].task = t
       /\ woken' = woken \cup {t}
  /\ UNCHANGED <<admin, io, ctl, vector, gic, handler, pending_completions,
                 next_cmd_id, boot, disk, mem, panicked, faults>>

BootStep ==
  \/ Reset \/ SetUpAdminQueues \/ IdentifyController \/ ListNamespaces
  \/ CreateCompletionQueue \/ CreateSubmissionQueue \/ RegisterQueue \/ OpenStore
=============================================================================
