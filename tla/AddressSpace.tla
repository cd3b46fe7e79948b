---------------------------- MODULE AddressSpace ----------------------------
(***************************************************************************)
(* The memory of the kernel and of one process: who owns which physical    *)
(* page and which virtual range, through every path that allocates or      *)
(* frees.  It composes the bitmap of physical pages, the free lists of     *)
(* addresses and the page tables (PageTables and what it extends).         *)
(*                                                                         *)
(* Two actors share this state on the one core.  The executor thread runs  *)
(* one job at a time (create or destroy a queue, allocate a stack, a       *)
(* kernel buffer) and can be interrupted between any two of its steps; a   *)
(* step is one critical section.  A user thread of the process then enters *)
(* a handler, which runs to its end with interrupts masked: HeapAllocate   *)
(* and HeapFree are one step each.  A handler that spins on a lock its     *)
(* victim holds spins for ever: kernel = "spinning".                       *)
(***************************************************************************)
EXTENDS PageTables

CONSTANTS
    VaPages,      \* pages in the free list of the process and of the kernel
    Segments,     \* the segments of the binary: a sequence of [page, pages]
    FilePages,    \* pages of the buffer the binary is read into
    Sizes,        \* page counts asked for
    IdBits,       \* width of next_queue_id, 16
    MaxRegions,   \* bound: heap and stack regions the process holds at once
    MaxOps        \* bound: operations started in a behaviour

ASSUME AddressSpaceAssumption ==
    /\ VaPages \in Nat \ {0}
    /\ Segments \in Seq([page : Nat, pages : Nat \ {0}])
    /\ FilePages \in Nat \ {0}
    /\ Sizes \subseteq Nat \ {0}
    /\ IdBits \in Nat \ {0} /\ 2 ^ IdBits \in Nat \ {0, 1}
    /\ MaxRegions \in Nat
    /\ MaxOps \in Nat

VARIABLES
    used,         \* the bitmap of physical pages
    ktable,       \* the kernel's page table
    kfree,        \* the kernel's free list of addresses
    root,         \* page of the process's level 0 table, -1 without a process
    utable,       \* the process's page table
    ufree,        \* address_space_allocator of the process
    locked,       \* the executor holds the mutex of address_space_allocator
    nextId,       \* next_queue_id
    queues,       \* recv_queues and send_queues of the process
    regions,      \* heap and stack regions the process holds
    buffers,      \* PhysicalBuffers alive
    job,          \* the executor's job and the step it is at
    kernel,       \* "running", "spinning" or "panicked"
    failed,       \* an allocation has failed half way, or has mapped over a page
    ops           \* operations started, for the bound

vars == <<used, ktable, kfree, root, utable, ufree, locked, nextId, queues,
          regions, buffers, job, kernel, failed, ops>>

\* A buffer lives in kernel memory, a process is the rest.  Allocating or
\* dropping a buffer and making a process are one step each: until the process
\* exists no handler reads the kernel's table or list, and its own changes to
\* the bitmap commute with theirs.
kmem == <<used, ktable, kfree>>
proc == <<root, utable, ufree, locked, nextId, queues, regions>>

Idle == [at |-> "idle"]

Counted == ops < MaxOps /\ ops' = ops + 1

Free(pages) == used \ UNION pages

Init ==
    /\ used = InitialUsed
    /\ ktable = NoEntries
    /\ kfree = NewList(0, VaPages)
    /\ root = -1
    /\ utable = NoEntries
    /\ ufree = <<>>
    /\ locked = FALSE
    /\ nextId = 0
    /\ queues = {}
    /\ regions = {}
    /\ buffers = {}
    /\ job = Idle
    /\ kernel = "running"
    /\ failed = FALSE
    /\ ops = 0

\* The steps of a kernel buffer, each on [used, ktable, kfree, state].
KMem == [used |-> used, ktable |-> ktable, kfree |-> kfree, state |-> "ok", base |-> 0, addr |-> 0]

\* PhysicalBuffer::alloc: pages, then addresses, then the mapping; what it
\* has taken when the addresses run out is lost, and map_range must succeed.
BufferAlloc(m, n) ==
    LET Mapped(p, a, r) ==
            IF ~p.ok THEN [m EXCEPT !.state = "error"]
            ELSE IF ~a.ok THEN [m EXCEPT !.used = @ \cup PagesFrom(p.base, n), !.state = "error"]
            ELSE [used |-> r.used, ktable |-> r.pt, kfree |-> a.list, base |-> p.base,
                  addr |-> a.addr, state |-> IF r.state = "ok" THEN "ok" ELSE "panic"]
        Map(p, a) ==
            Mapped(p, a, MapRange(m.ktable, m.used \cup PagesFrom(p.base, n), p.base, a.addr, n))
    IN  Map(AllocContig(m.used, n), VAlloc(m.kfree, n))

\* PhysicalBuffer::unmap_virtual.
UnmapVirtual(m, b) ==
    [m EXCEPT !.ktable = UnmapRange(@, b.addr, b.pages).pt, !.kfree = VFree(@, b.addr, b.pages)]

BufferDrop(m, b) ==
    [UnmapVirtual(m, b) EXCEPT !.used = FreePages(@, b.base, b.pages)]

\* load_segment, on [kernel memory, table, list]: a buffer is filled, let go
\* of with its pages kept, and its pages mapped into the process.
LoadSegment(s, seg) ==
    LET Reserved(kept, r, v) ==
            IF r.state # "ok"
              THEN [s EXCEPT !.mem = [kept EXCEPT !.used = r.used, !.state = r.state], !.pt = r.pt]
            ELSE [mem |-> [kept EXCEPT !.used = r.used, !.state = IF v.ok THEN "ok" ELSE "panic"],
                  pt |-> r.pt, list |-> v.list]
        Kept(m) == Reserved(m, MapRange(s.pt, m.used, m.base, Bytes(seg.page), seg.pages),
                            VReserve(s.list, Bytes(seg.page), seg.pages))
        Filled(m) == IF m.state # "ok" THEN [s EXCEPT !.mem = m]
                     ELSE Kept(UnmapVirtual(m, [addr |-> m.addr, pages |-> seg.pages]))
    IN  IF s.mem.state # "ok" THEN s ELSE Filled(BufferAlloc(s.mem, seg.pages))

\* The empty table and the segments, once the file is in its buffer.
LoadBinary(file, top) ==
    FoldLeft(LoadSegment,
             [mem |-> [file EXCEPT !.used = @ \cup {top.base}], pt |-> NoEntries,
              list |-> NewList(PAGE_SIZE, VaPages)], Segments)

\* The file buffer is dropped; a failure drops the table too, but not the
\* pages that it maps: the process whose drop frees them does not exist yet.
Loaded(file, top, s) ==
    LET buffer == [base |-> file.base, addr |-> file.addr, pages |-> FilePages]
        made == {top.base} \cup TablePages(s.pt)
        Outcome(ok, mem, state) ==
            [ok |-> ok, mem |-> mem, state |-> state, root |-> IF ok THEN top.base ELSE -1,
             pt |-> IF ok THEN s.pt ELSE NoEntries, list |-> IF ok THEN s.list ELSE <<>>]
    IN  IF file.state # "ok" THEN Outcome(FALSE, file, file.state)
        ELSE IF ~top.ok THEN Outcome(FALSE, BufferDrop(file, buffer), "error")
        ELSE IF s.mem.state # "ok"
          THEN Outcome(FALSE, BufferDrop([s.mem EXCEPT !.used = @ \ made], buffer), s.mem.state)
        ELSE Outcome(TRUE, BufferDrop(s.mem, buffer), "ok")

\* Two segments have a page in common: the later is mapped over the earlier.
SegmentsOverlap ==
    \E i, j \in DOMAIN Segments :
       i # j /\ PagesFrom(Segments[i].page, Segments[i].pages)
                \cap PagesFrom(Segments[j].page, Segments[j].pages) # {}

\* spawn_process up to the new process, without the buffer of its parameter.
SpawnProcess ==
    LET Table(file, top) == Loaded(file, top, LoadBinary(file, top))
        File(file) == Table(file, AllocContig(file.used, 1))
    IN  /\ kernel = "running" /\ job = Idle /\ root = -1
        /\ Counted
        /\ \E end \in {File(BufferAlloc(KMem, FilePages))} :
              /\ used' = end.mem.used /\ ktable' = end.mem.ktable /\ kfree' = end.mem.kfree
              /\ root' = end.root
              /\ utable' = end.pt
              /\ ufree' = end.list
              /\ nextId' = IF end.ok THEN 1 ELSE 0
              /\ failed' = (failed \/ ~end.ok \/ SegmentsOverlap)
              /\ kernel' = IF end.state = "panic" THEN "panicked" ELSE kernel
        /\ UNCHANGED <<locked, queues, regions, buffers, job>>

-----------------------------------------------------------------------------
(* Handlers: the system calls of a user thread. *)

\* The loop of alloc_memory in a handler, on [used, pt, off, state].
AllocLoop(s, n) ==
    LET Round(t, k) ==
            LET p == TryAllocContig(t.used, n - t.off)
                r == MapRange(t.pt, t.used \cup PagesFrom(p.base, p.count), p.base,
                              t.addr + Bytes(t.off), p.count)
            IN  IF t.off >= n \/ t.state # "ok" THEN t
                ELSE IF ~p.ok THEN [t EXCEPT !.state = "error"]
                ELSE [t EXCEPT !.used = r.used, !.pt = r.pt, !.state = r.state,
                               !.off = @ + p.count]
    IN  FoldLeft(Round, s, [k \in 1..n |-> k])

\* One of n pages at address a is mapped already: reserve has left a segment in
\* the free list, and map_range replaces the entries of the pages it maps over.
MappedOver(pt, a, n) == \E i \in 0 .. n - 1 : Lookup(pt, a \div PAGE_SIZE + i) # -1

UserRuns == kernel = "running" /\ root # -1

HeapAllocate(n) ==
    LET a == VAlloc(ufree, n)
        s == AllocLoop([used |-> used, pt |-> utable, off |-> 0, addr |-> a.addr, state |-> "ok"], n)
    IN  /\ UserRuns
        /\ Counted
        /\ Cardinality(regions) < MaxRegions
        /\ IF locked
             THEN /\ kernel' = "spinning"           \* block_on, waiting for the executor
                  /\ UNCHANGED <<used, utable, ufree, regions, failed>>
           ELSE IF ~a.ok THEN UNCHANGED <<used, utable, ufree, regions, failed, kernel>>
           ELSE /\ ufree' = a.list
                /\ used' = s.used
                /\ utable' = s.pt
                /\ failed' = (failed \/ s.state # "ok" \/ MappedOver(utable, a.addr, n))
                /\ regions' = IF s.state = "ok" THEN regions \cup {[addr |-> a.addr, pages |-> n]}
                              ELSE regions
                /\ kernel' = IF s.state = "panic" THEN "panicked" ELSE kernel
        /\ UNCHANGED <<ktable, kfree, root, locked, nextId, queues, buffers, job>>

\* free_memory in a handler: HeapFree, or a thread that exits frees its stack.
\* The region is one the process holds, freed whole and once; HeapFree does not
\* check what the program gives it.
FreeRegion(r) ==
    LET u == UnmapRange(utable, r.addr, r.pages)
    IN  /\ UserRuns
        /\ Counted
        /\ regions' = regions \ {r}
        /\ utable' = u.pt
        /\ used' = Free(u.regions)
        /\ IF locked THEN kernel' = "spinning" /\ UNCHANGED ufree   \* lock_blocking
           ELSE /\ ufree' = VFree(ufree, r.addr, r.pages)
                /\ kernel' = IF u.state = "panic" THEN "panicked" ELSE kernel
        /\ UNCHANGED <<ktable, kfree, root, locked, nextId, queues, buffers, job, failed>>

-----------------------------------------------------------------------------
(* The executor's jobs. *)

ExecutorRuns == kernel = "running"

Goto(step) == job' = [job EXCEPT !.at = step]

\* alloc_memory for a queue (shared with the kernel) or for a stack (not).
BeginAlloc(kind, n, assoc, id) ==
    job' = [at |-> "lock", kind |-> kind, id |-> id, assoc |-> assoc, pages |-> n, off |-> 0,
            uaddr |-> 0, kaddr |-> 0, base |-> 0, count |-> 0]

\* next_queue_id: zero, once reached, stays.
NextQueueId ==
    IF nextId = 0 THEN UNCHANGED nextId ELSE nextId' = (nextId + 1) % 2 ^ IdBits

\* create_completion_queue.
CreateCompletionQueue(n) ==
    /\ ExecutorRuns /\ job = Idle /\ root # -1
    /\ Counted
    /\ NextQueueId
    /\ IF nextId = 0 THEN UNCHANGED job ELSE BeginAlloc("recv", n, 0, nextId)
    /\ UNCHANGED <<kmem, root, utable, ufree, locked, queues, regions, buffers, kernel, failed>>

\* create_submission_queue: the completion queue is looked up first.
CreateSubmissionQueue(n, assoc) ==
    /\ ExecutorRuns /\ job = Idle /\ root # -1
    /\ Counted
    /\ \E q \in queues : q.kind = "recv" /\ q.id = assoc
    /\ NextQueueId
    /\ IF nextId = 0 THEN UNCHANGED job ELSE BeginAlloc("send", n, assoc, nextId)
    /\ UNCHANGED <<kmem, root, utable, ufree, locked, queues, regions, buffers, kernel, failed>>

\* The stack of a new thread.
AllocStack(n) ==
    /\ ExecutorRuns /\ job = Idle /\ root # -1
    /\ Counted
    /\ Cardinality(regions) < MaxRegions
    /\ BeginAlloc("stack", n, 0, 0)
    /\ UNCHANGED <<kmem, proc, buffers, kernel, failed>>

TakeLock ==
    /\ ExecutorRuns /\ job.at \in {"lock", "lock_free"}
    /\ locked' = TRUE
    /\ Goto(IF job.at = "lock" THEN "uaddr" ELSE "vfree")
    /\ UNCHANGED <<kmem, root, utable, ufree, nextId, queues, regions, buffers, kernel, failed, ops>>

AllocUserAddress ==
    LET a == VAlloc(ufree, job.pages)
    IN  /\ ExecutorRuns /\ job.at = "uaddr"
        /\ locked' = FALSE
        /\ ufree' = a.list
        /\ job' = IF a.ok THEN [job EXCEPT !.at = IF job.kind = "stack" THEN "pages" ELSE "kaddr",
                                           !.uaddr = a.addr]
                  ELSE Idle
        /\ UNCHANGED <<kmem, root, utable, nextId, queues, regions, buffers, kernel, failed, ops>>

AllocKernelAddress ==
    LET a == VAlloc(kfree, job.pages)
    IN  /\ ExecutorRuns /\ job.at = "kaddr"
        /\ kfree' = a.list
        /\ failed' = (failed \/ ~a.ok)
        /\ job' = IF a.ok THEN [job EXCEPT !.at = "pages", !.kaddr = a.addr] ELSE Idle
        /\ UNCHANGED <<used, ktable, proc, buffers, kernel, ops>>

\* One round of the loop of alloc_memory: pages, the process's mapping, the
\* kernel's mapping.  Handlers run between the three, not inside them: a handler
\* that meets the spin lock of the pages or of the kernel's addresses held (they
\* are taken with interrupts enabled) is left out.
AllocPages ==
    LET p == TryAllocContig(used, job.pages - job.off)
    IN  /\ ExecutorRuns /\ job.at = "pages" /\ job.off < job.pages
        /\ used' = IF p.ok THEN used \cup PagesFrom(p.base, p.count) ELSE used
        /\ failed' = (failed \/ ~p.ok)
        /\ job' = IF p.ok THEN [job EXCEPT !.at = "umap", !.base = p.base, !.count = p.count] ELSE Idle
        /\ UNCHANGED <<ktable, kfree, proc, buffers, kernel, ops>>

NextRound == [job EXCEPT !.at = "pages", !.off = @ + job.count]

MapUser ==
    LET r == MapRange(utable, used, job.base, job.uaddr + Bytes(job.off), job.count)
    IN  /\ ExecutorRuns /\ job.at = "umap"
        /\ utable' = r.pt
        /\ used' = r.used
        /\ failed' = (failed \/ r.state # "ok" \/ MappedOver(utable, job.uaddr + Bytes(job.off), job.count))
        /\ kernel' = IF r.state = "panic" THEN "panicked" ELSE kernel
        /\ job' = IF r.state # "ok" THEN Idle
                  ELSE IF job.kind = "stack" THEN NextRound ELSE [job EXCEPT !.at = "kmap"]
        /\ UNCHANGED <<ktable, kfree, root, ufree, locked, nextId, queues, regions, buffers, ops>>

\* The address of the round's pages in the kernel, kvaddr.add(offset); mutant: kvaddr.
KernelTargetFirst == job.kaddr

KernelTarget == job.kaddr + Bytes(job.off)

MapKernel ==
    LET r == MapRange(ktable, used, job.base, KernelTarget, job.count)
    IN  /\ ExecutorRuns /\ job.at = "kmap"
        /\ ktable' = r.pt
        /\ used' = r.used
        /\ failed' = (failed \/ r.state # "ok")
        /\ kernel' = IF r.state = "panic" THEN "panicked" ELSE kernel
        /\ job' = IF r.state = "ok" THEN NextRound ELSE Idle
        /\ UNCHANGED <<kfree, proc, buffers, ops>>

\* The queue is added to the process's lists, the stack to its thread.
AllocDone ==
    /\ ExecutorRuns /\ job.at = "pages" /\ job.off >= job.pages
    /\ job' = Idle
    /\ IF job.kind = "stack"
         THEN regions' = regions \cup {[addr |-> job.uaddr, pages |-> job.pages]} /\ UNCHANGED queues
       ELSE /\ queues' = queues \cup {[id |-> job.id, kind |-> job.kind, assoc |-> job.assoc,
                                       uaddr |-> job.uaddr, kaddr |-> job.kaddr, pages |-> job.pages]}
            /\ UNCHANGED regions
    /\ UNCHANGED <<kmem, root, utable, ufree, locked, nextId, buffers, kernel, failed, ops>>

\* destroy_queue, once the queue is found unused and off its list.
DestroyQueue(q) ==
    /\ ExecutorRuns /\ job = Idle
    /\ Counted
    /\ ~\E s \in queues : s.kind = "send" /\ s.assoc = q.id
    /\ queues' = queues \ {q}
    /\ job' = [at |-> "unmap", kind |-> "destroy", uaddr |-> q.uaddr, kaddr |-> q.kaddr, pages |-> q.pages]
    /\ UNCHANGED <<kmem, root, utable, ufree, locked, nextId, regions, buffers, kernel, failed>>

\* Mutant: destroy_queue unmaps the queue and does not free its pages.
DestroyUnmapKeepsPages ==
    LET u == UnmapRange(utable, job.uaddr, job.pages)
    IN  /\ ExecutorRuns /\ job.at = "unmap"
        /\ utable' = u.pt
        /\ Goto("lock_free")
        /\ UNCHANGED <<kmem, root, ufree, locked, nextId, queues, regions, buffers, kernel, failed, ops>>

DestroyUnmap ==
    LET u == UnmapRange(utable, job.uaddr, job.pages)
    IN  /\ ExecutorRuns /\ job.at = "unmap"
        /\ utable' = u.pt
        /\ used' = Free(u.regions)
        /\ kernel' = IF u.state = "panic" THEN "panicked" ELSE kernel
        /\ Goto("lock_free")
        /\ UNCHANGED <<ktable, kfree, root, ufree, locked, nextId, queues, regions, buffers, failed, ops>>

DestroyFreeAddress ==
    /\ ExecutorRuns /\ job.at = "vfree"
    /\ ufree' = VFree(ufree, job.uaddr, job.pages)
    /\ locked' = FALSE
    /\ Goto("kunmap")
    /\ UNCHANGED <<kmem, root, utable, nextId, queues, regions, buffers, kernel, failed, ops>>

\* The kernel's mapping goes; its addresses are not given back.
DestroyKernelUnmap ==
    LET u == UnmapRange(ktable, job.kaddr, job.pages)
    IN  /\ ExecutorRuns /\ job.at = "kunmap"
        /\ ktable' = u.pt
        /\ kernel' = IF u.state = "panic" THEN "panicked" ELSE kernel
        /\ job' = Idle
        /\ UNCHANGED <<used, kfree, proc, buffers, failed, ops>>

\* A kernel buffer for I/O.
AllocBuffer(n) ==
    LET m == BufferAlloc(KMem, n)
    IN  /\ ExecutorRuns /\ job = Idle /\ buffers = {}
        /\ Counted
        /\ used' = m.used /\ ktable' = m.ktable /\ kfree' = m.kfree
        /\ failed' = (failed \/ (m.used # used /\ m.state # "ok"))
        /\ kernel' = IF m.state = "panic" THEN "panicked" ELSE kernel
        /\ buffers' = IF m.state = "ok" THEN {[base |-> m.base, addr |-> m.addr, pages |-> n]} ELSE {}
        /\ UNCHANGED <<proc, job>>

DropBuffer(b) ==
    LET m == BufferDrop(KMem, b)
    IN  /\ ExecutorRuns /\ job = Idle
        /\ Counted
        /\ used' = m.used /\ ktable' = m.ktable /\ kfree' = m.kfree
        /\ buffers' = buffers \ {b}
        /\ UNCHANGED <<proc, job, kernel, failed>>

\* Process::drop, then the drop of its page table.  The kernel's addresses of
\* the queues go back to the free list; their mappings stay in the table.
DropProcess ==
    LET GiveBack(list, q) == VFree(list, q.kaddr, q.pages)
    IN  /\ ExecutorRuns /\ job = Idle /\ root # -1
        /\ Counted
        /\ kfree' = FoldSet(LAMBDA q, list : GiveBack(list, q), kfree, queues)
        /\ used' = used \ (MappedPages(utable) \cup TablePages(utable) \cup {root})
        /\ root' = -1
        /\ utable' = NoEntries
        /\ ufree' = <<>>
        /\ nextId' = 0
        /\ queues' = {}
        /\ regions' = {}
        /\ UNCHANGED <<ktable, locked, buffers, job, kernel, failed>>

Handler ==
    \/ \E n \in Sizes : HeapAllocate(n)
    \/ \E r \in regions : FreeRegion(r)

AllocStep ==
    \/ TakeLock
    \/ AllocUserAddress
    \/ AllocKernelAddress
    \/ AllocPages
    \/ MapUser
    \/ MapKernel
    \/ AllocDone

DestroyStep ==
    \/ DestroyUnmap
    \/ DestroyFreeAddress
    \/ DestroyKernelUnmap

StartJob ==
    \/ SpawnProcess
    \/ DropProcess
    \/ \E n \in Sizes : \/ CreateCompletionQueue(n)
                        \/ \E q \in queues : CreateSubmissionQueue(n, q.id)
                        \/ AllocStack(n)
                        \/ AllocBuffer(n)
    \/ \E q \in queues : DestroyQueue(q)
    \/ \E b \in buffers : DropBuffer(b)

Next == Handler \/ StartJob \/ AllocStep \/ DestroyStep

Spec == Init /\ [][Next]_vars

-----------------------------------------------------------------------------
(* Properties. *)

\* Type invariant; the executor's lock is held in two steps only.
TypeOK ==
    /\ used \subseteq Pages
    /\ \A pt \in {ktable, utable} : \A e \in DOMAIN pt :
          e[1] \in 0..3 /\ pt[e].page \in Pages /\ (pt[e].kind = "table" => e[1] < 3)
    /\ root \in Pages \cup {-1}
    /\ nextId \in 0 .. 2 ^ IdBits - 1
    /\ kernel \in {"running", "spinning", "panicked"}
    /\ locked => job.at \in {"uaddr", "vfree"}

\* Everything that holds physical page p: entries of the process's table,
\* tables of the kernel, buffers, and the executor between AllocPages and
\* MapUser.  An entry that maps a page for the kernel is a second view of it and
\* no holder; it can outlive the page (DroppedIsUnmapped).
Holders(p) ==
    {<<"user", e>> : e \in {x \in DOMAIN utable : p \in IF IsTable(utable, x) THEN {utable[x].page}
                                                         ELSE PagesOf(utable, x)}}
    \cup {<<"kernel", e>> : e \in {x \in DOMAIN ktable : IsTable(ktable, x) /\ ktable[x].page = p}}
    \cup {<<"buffer", b>> : b \in {x \in buffers : p \in PagesFrom(x.base, x.pages)}}
    \cup {<<"other", o>> : o \in {x \in {"boot", "root", "job"} :
              \/ x = "boot" /\ p \in InitialUsed
              \/ x = "root" /\ p = root
              \/ x = "job" /\ job.at = "umap" /\ p \in PagesFrom(job.base, job.count)}}

\* A physical page has one holder, and its bit is set while it has one: no
\* order of allocations, frees, destroyed queues and dropped processes hands
\* a page out twice or frees a page that a table, a buffer or a mapping of the
\* process uses.
OnePageOneHolder ==
    \A p \in Pages : /\ Cardinality(Holders(p)) <= 1
                     /\ Holders(p) # {} => p \in used

\* Until an allocation fails half way or maps over a page, none is lost: free_memory,
\* destroy_queue, PhysicalBuffer::drop and Process::drop give back all.
NoPageLost == ~failed => used = {p \in Pages : Holders(p) # {}}

QueueIds == {q.id : q \in queues}

\* The kernel's view of a queue and the process's are the same pages in the
\* same order, however many pieces try_alloc_contig made of them and whatever
\* handlers did in between; a heap or stack region is mapped throughout.  A
\* queue is found by an id of its own, which is not zero and is not issued
\* again, also when the counter has wrapped (next_queue_id).
QueuesAreShared ==
    kernel = "running" =>
      /\ \A q \in queues : \A i \in 0 .. q.pages - 1 :
            /\ Lookup(utable, q.uaddr \div PAGE_SIZE + i) # -1
            /\ Lookup(utable, q.uaddr \div PAGE_SIZE + i) = Lookup(ktable, q.kaddr \div PAGE_SIZE + i)
      /\ \A r \in regions : \A i \in 0 .. r.pages - 1 :
            Lookup(utable, r.addr \div PAGE_SIZE + i) # -1
      /\ Cardinality(QueueIds) = Cardinality(queues)
      /\ \A i \in QueueIds : i # 0 /\ (nextId = 0 \/ i < nextId)
      /\ "id" \in DOMAIN job => job.id \notin QueueIds

Separate(a, b) == a.addr + Bytes(a.pages) <= b.addr \/ b.addr + Bytes(b.pages) <= a.addr

Disjoint(S) == \A a, b \in S : a # b => Separate(a, b)

Blocks(list) == {[owner |-> <<"free", i>>, addr |-> list[i].address, pages |-> list[i].size] : i \in DOMAIN list}

Held(S, owner) == {[owner |-> <<owner, x>>, addr |-> x.addr, pages |-> x.pages] : x \in S}

\* No address is both free and in use, or in use twice, in the kernel's or in
\* the process's address space: alloc and free keep the ranges apart although
\* free does not keep the list sorted, and whatever reserve has cut out of it.
AddressesDisjoint ==
    /\ Disjoint(Blocks(kfree) \cup Held(buffers, "buffer")
                \cup Held({[addr |-> q.kaddr, pages |-> q.pages] : q \in queues}, "queue"))
    /\ Disjoint(Blocks(ufree) \cup Held(regions, "region")
                \cup Held({[addr |-> q.uaddr, pages |-> q.pages] : q \in queues}, "queue"))

\* A copy out of the process's memory succeeds when every byte is mapped, it
\* starts in the first page of its block or page, and it does not end with the
\* last region of the table; then it has read the bytes that the table maps
\* there, over any mix of blocks and pages.  Otherwise it fails.
CopyIsExact ==
    root # -1 =>
    \A src \in 0 .. Bytes(VaPages) : \A len \in {1, PAGE_SIZE + 1, Bytes(2)} :
        LET c == MappedCopyFrom(utable, src, len)
            v == src \div PAGE_SIZE
            page(i) == Lookup(utable, (src + i) \div PAGE_SIZE)
            all == \A i \in 0 .. len - 1 : page(i) # -1
            inner == v % Span(WalkLevel(utable, v)) # 0
            last == \A e \in Maps(utable) : BaseOf(e) <= (src + len - 1) \div PAGE_SIZE
        IN  /\ c.ok <=> all /\ ~inner /\ ~last
            /\ c.ok => c.out = [i \in 1..len |-> Bytes(page(i - 1)) + ((src + i - 1) % PAGE_SIZE)]

-----------------------------------------------------------------------------
(* What the comments of the code say and the code does not do. *)

\* reserve: "These addresses will not be returned from alloc()."  No free
\* block, region or queue of the process overlaps a segment of its binary.
ReservedStays ==
    root # -1 =>
    \A i \in DOMAIN Segments :
       LET segment == [addr |-> Bytes(Segments[i].page), pages |-> Segments[i].pages]
       IN  \A b \in Blocks(ufree) \cup Held(regions, "region")
                    \cup Held({[addr |-> q.uaddr, pages |-> q.pages] : q \in queues}, "queue") :
              Separate(segment, b)

\* Process::drop: "clean up the kernel mapping for all the queues in this
\* process [...] it will result in a page fault".  Between two jobs the kernel
\* has no page mapped that the bitmap gives as free.
DroppedIsUnmapped ==
    job = Idle => \A e \in Maps(ktable) : PagesOf(ktable, e) \subseteq used

\* mapped_copy_from: "The whole range must be mapped, or an error will occur."
\* A copy out of a range that is mapped throughout succeeds.
MappedIsCopied ==
    root # -1 =>
    \A src \in 0 .. Bytes(VaPages) : \A len \in {1, PAGE_SIZE + 1, Bytes(2)} :
        (\A i \in 0 .. len - 1 : Lookup(utable, (src + i) \div PAGE_SIZE) # -1)
            => MappedCopyFrom(utable, src, len).ok

=============================================================================
