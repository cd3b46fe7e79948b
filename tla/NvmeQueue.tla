------------------------------ MODULE NvmeQueue ------------------------------
(***************************************************************************)
(* The ring buffers the kernel shares with an NVMe controller              *)
(* (storage/nvme/queue.rs): a submission queue with the completion queue   *)
(* that reports on it, and the list of pages (PRP list) that says where a  *)
(* command's data is in memory.  A pair of queues is one record: the       *)
(* driver's cursors and the memory of both rings, and, under the names     *)
(* dev..., what the controller (external) keeps.                           *)
(***************************************************************************)
EXTENDS Integers, Sequences, SequencesExt

CONSTANTS BlocksPerPage,  \* PAGE_SIZE / supported_block_size
          PrpPerPage      \* entries in a page of a PRP list (512 on the device)

ASSUME PageAssumption ==
  /\ BlocksPerPage \in Nat \ {0}
  /\ PrpPerPage \in Nat /\ PrpPerPage > 1

NoQueue == [id |-> -1]

Blank == [op |-> "none", id |-> 0, start |-> 0, nlb |-> 0, prp |-> <<>>]

\* alloc_zeroed: the phase tags of a new completion queue are all clear.
NoCompletion == [id |-> 0, head |-> 0, ok |-> TRUE, phase |-> FALSE]

\* A new pair; the controller is told devSq and devCq entries.
NewQueue(id, entries, cqEntries, devSq, devCq) ==
  [id |-> id, entries |-> entries, cqEntries |-> cqEntries,
   tail |-> 0, head |-> 0, slots |-> [i \in 0 .. entries - 1 |-> Blank],
   cqHead |-> 0, phase |-> TRUE,
   cmpls |-> [i \in 0 .. cqEntries - 1 |-> NoCompletion],
   doorbell |-> 0, cqDoorbell |-> 0,
   devSq |-> devSq, devCq |-> devCq, devHead |-> 0, devTail |-> 0,
   devPhase |-> TRUE]

\* full: note that tail + 1 is not taken modulo the size.
Full(q) == q.head = q.tail + 1

\* Mutant: the tail does not wrap around.
SubmitUnwrapped(q, cmd) ==
  [q EXCEPT !.slots[q.tail] = cmd, !.tail = q.tail + 1, !.doorbell = q.tail + 1]

\* begin and submit: fill the slot at tail, move tail, ring the doorbell.
Submit(q, cmd) ==
  LET new_tail == (q.tail + 1) % q.entries
  IN  [q EXCEPT !.slots[q.tail] = cmd, !.tail = new_tail, !.doorbell = new_tail]

HasCompletion(q) == q.cmpls[q.cqHead].phase = q.phase

Completion(q) == q.cmpls[q.cqHead]

\* pop, when it finds a completion: step over it, turn the phase where the
\* ring wraps, learn the controller's position in the submission queue.
Popped(q) ==
  LET wraps == q.cqHead + 1 >= q.cqEntries
      next  == IF wraps THEN 0 ELSE q.cqHead + 1
  IN  [q EXCEPT !.cqHead = next,
                !.phase = IF wraps THEN ~q.phase ELSE q.phase,
                !.head = Completion(q).head,
                !.cqDoorbell = next]

(* The controller's side (external). *)

DeviceHasWork(q) ==
  /\ q # NoQueue
  /\ q.devHead # q.doorbell
  /\ (q.devTail + 1) % q.devCq # q.cqDoorbell

DeviceCommand(q) == q.slots[q.devHead]

DeviceCompletes(q, ok) ==
  LET head == (q.devHead + 1) % q.devSq
      last == q.devTail + 1 = q.devCq
  IN  [q EXCEPT
        !.devHead = head,
        !.cmpls[q.devTail] = [id |-> DeviceCommand(q).id, head |-> head,
                              ok |-> ok, phase |-> q.devPhase],
        !.devTail = IF last THEN 0 ELSE q.devTail + 1,
        !.devPhase = IF last THEN ~q.devPhase ELSE q.devPhase]

-----------------------------------------------------------------------------
(* Data pointers *)

CeilDiv(n, d) == (n + d - 1) \div d

\* The pages of a vector of <<first page, number of blocks>> regions.
RegionPages(regions) ==
  FlattenSeq([i \in DOMAIN regions |->
    [k \in 1 .. CeilDiv(regions[i][2], BlocksPerPage) |-> regions[i][1] + k - 1]])

ListPointer == 0

\* set_data_ptrs: the command itself is a first list of two entries; where a
\* page is due and one entry is left, that entry points to a new list.
AddPointer(lists, page) ==
  LET cap  == IF Len(lists) = 1 THEN 2 ELSE PrpPerPage
      last == Last(lists)
  IN  IF Len(last) = cap - 1
      THEN Append([lists EXCEPT ![Len(lists)] = Append(last, ListPointer)], <<page>>)
      ELSE [lists EXCEPT ![Len(lists)] = Append(last, page)]

SetDataPtrs(regions) == FoldLeft(AddPointer, << <<>> >>, RegionPages(regions))

\* The pages the controller (external) finds for n pages of data: the last
\* entry of a list leads to another one only if the data does not end here.
\* Entries that were never set are 0.
DevicePages(lists, n) ==
  LET left(k) == IF k = 1 THEN n ELSE n - 1 - (k - 2) * (PrpPerPage - 1)
      cap(k)  == IF k = 1 THEN 2 ELSE PrpPerPage
      used(k) == IF left(k) <= cap(k) THEN left(k) ELSE cap(k) - 1
      page(k, i) == IF k <= Len(lists) /\ i <= Len(lists[k]) THEN lists[k][i] ELSE 0
  IN  FlattenSeq([k \in DOMAIN lists |->
        IF left(k) <= 0 THEN <<>> ELSE [i \in 1 .. used(k) |-> page(k, i)]])
=============================================================================
