------------------------- MODULE AddressSpaceProofs -------------------------
(***************************************************************************)
(* Proofs about AddressSpace, for every size of memory, fan-out of the     *)
(* tables, page size, binary and set of sizes asked for. What each         *)
(* operator computes is in MemoryProofs. Five invariants, each by one      *)
(* lemma for every action:                                                 *)
(*                                                                         *)
(*   PhysInv   types, and the parts of memory with no page in common;      *)
(*   ShareInv  free blocks and ranges in use are apart;                    *)
(*   MapInv    what is in use is mapped, as far as the job has got;        *)
(*   IdInv     the ids of queues and of the one in the making differ;      *)
(*   FullInv   every page in use is in one of the parts.                   *)
(*                                                                         *)
(* The ones further down use the ones above; that copies out of a process  *)
(* are exact needs only the first. Nothing is supposed of the binary:      *)
(* where reserve moves a free block by bytes instead of pages, the block   *)
(* can be inside a segment, and can be unaligned; map_range then refuses   *)
(* it, so what the process holds is aligned once a page of it is mapped.   *)
(***************************************************************************)
EXTENDS MemoryProofs

-----------------------------------------------------------------------------
(* The invariant. *)

\* A region of the process.
Region == [addr : Nat, pages : Nat \ {0}]

\* A kernel buffer.
Buffer == [base : Nat, addr : Nat, pages : Nat \ {0}]

\* The executor's jobs, at the steps they can be at.
AllocJob ==
  [at : {"lock", "uaddr", "kaddr", "pages", "umap", "kmap"}, kind : {"recv", "send", "stack"}, id : Nat, assoc : Nat,
   pages : Nat \ {0}, off : Nat, uaddr : Nat, kaddr : Nat, base : Nat, count : Nat]

\* The job that destroys a queue.
DestroyJob ==
  [at : {"unmap", "lock_free", "vfree", "kunmap"}, kind : {"destroy"}, uaddr : Nat, kaddr : Nat, pages : Nat \ {0}]

\* An allocation: how far it is and, in a round, the pages it has taken.
IsAllocJob(j) ==
  /\ j \in AllocJob /\ j.off <= j.pages
  /\ j.kind = "stack" => j.at \notin {"kaddr", "kmap"}
  /\ j.at \in {"umap", "kmap"} => /\ j.count # 0 /\ j.off + j.count <= j.pages
                                  /\ PagesFrom(j.base, j.count) \subseteq Pages
  /\ j.at \in {"lock", "uaddr", "kaddr"} => j.off = 0

\* The executor's job.
IsJob(j) == j = Idle \/ IsAllocJob(j) \/ j \in DestroyJob

\* The type of the job.
JobOK == IsJob(job)

\* The types of the bitmap, of the tables and of the free lists.
MemOK ==
  /\ used \subseteq Pages /\ PtOK(ktable) /\ PtOK(utable)
  /\ kfree \in Seq(Block) /\ ufree \in Seq(Block)

\* The process: without one, nothing of it is left.
ProcOK ==
  /\ root \in Pages \cup {-1} /\ nextId \in 0..2 ^ IdBits - 1
  /\ queues \subseteq Queue /\ IsFiniteSet(queues) /\ regions \subseteq Region
  /\ root = -1 => /\ queues = {} /\ regions = {} /\ utable = NoEntries
                  /\ ufree = <<>> /\ nextId = 0 /\ job = Idle

\* The kernel: one buffer at a time, and the lock is held in two steps only.
KernelOK ==
  /\ buffers \subseteq Buffer /\ \A b, c \in buffers : b = c
  /\ kernel \in {"running", "spinning", "panicked"}
  /\ locked => job.at \in {"uaddr", "vfree"}

\* The parts of the memory in use: the top table of the process,
RootPages == {root} \ {-1}

\* the pages that the executor has taken and not mapped yet,
JobPages == IF job.at = "umap" THEN PagesFrom(job.base, job.count) ELSE {}

\* and the kernel's buffers.
BufferPages == UNION {PagesFrom(b.base, b.pages) : b \in buffers}

\* The pages in use are shared out: no two of the holders have a page in common.
Split(U, A, B, C, D, E, F) ==
  /\ A \cup B \cup C \cup D \cup E \cup F \subseteq U
  /\ A \cap B = {} /\ A \cap C = {} /\ A \cap D = {} /\ A \cap E = {} /\ A \cap F = {}
  /\ B \cap C = {} /\ B \cap D = {} /\ B \cap E = {} /\ B \cap F = {}
  /\ C \cap D = {} /\ C \cap E = {} /\ C \cap F = {}
  /\ D \cap E = {} /\ D \cap F = {}
  /\ E \cap F = {}

\* The parts have no page in common, and all of them are in use.
PagesOK ==
  /\ Split(used, InitialUsed, RootPages, JobPages, UserPages(utable), TablePages(ktable), BufferPages)
  /\ EntriesApart(utable) /\ TablesApart(ktable)

\* The inductive invariant of the physical pages.
PhysInv == MemOK /\ JobOK /\ ProcOK /\ KernelOK /\ PagesOK

\* The page of an address.
Page(a) == a \div PAGE_SIZE

\* The steps of a job at which it holds a range of the kernel,
JobHoldsK ==
  \/ job.at \in {"unmap", "lock_free", "vfree", "kunmap"}
  \/ job.at \in {"pages", "umap", "kmap"} /\ job.kind # "stack"

\* and those at which it holds one of the process.
JobHoldsU == job.at \in {"kaddr", "pages", "umap", "kmap", "unmap", "lock_free", "vfree"}

\* The ranges in use, with their holders.
URange(q) == [owner |-> <<"queue", q>>, addr |-> q.uaddr, pages |-> q.pages]

\* The range of a region or of a buffer.
Range1(kind, x) == [owner |-> <<kind, x>>, addr |-> x.addr, pages |-> x.pages]

\* The job's range in the kernel.
JobKRange == [owner |-> <<"job", 0>>, addr |-> job.kaddr, pages |-> job.pages]

\* The job's range in the process.
JobURange == [owner |-> <<"job", 0>>, addr |-> job.uaddr, pages |-> job.pages]

\* All ranges in use of the kernel.
KHeld ==
  {Range1("buffer", b) : b \in buffers} \cup {KRange(q) : q \in queues}
  \cup (IF JobHoldsK THEN {JobKRange} ELSE {})

\* All ranges in use of the process, but for the segments of its binary.
UHeld ==
  {Range1("region", r) : r \in regions} \cup {URange(q) : q \in queues}
  \cup (IF JobHoldsU THEN {JobURange} ELSE {})

\* The kernel's address space: free blocks and ranges in use, apart and aligned.
Side(list, H) == Shares(list, H) /\ AlignedList(list) /\ \A h \in H : Aligned(h.addr)

\* The inductive invariant of the virtual ranges, in both address spaces.
ShareInv == Side(kfree, KHeld) /\ Shares(ufree, UHeld)

\* The same pages, in the same order, in the process's table and the kernel's.
SamePages(ut, x, kt, y, n) == \A i \in 0..(n - 1) : Lookup(ut, x + i) = Lookup(kt, y + i)

\* A queue is mapped in both tables, to the same pages.
QueueMapped(q, ut, kt) ==
  /\ Aligned(q.uaddr)
  /\ Tiled(ut, Page(q.uaddr), q.pages) /\ Tiled(kt, Page(q.kaddr), q.pages)
  /\ SamePages(ut, Page(q.uaddr), kt, Page(q.kaddr), q.pages)

\* A region is mapped throughout.
RegionMapped(r, pt) == Tiled(pt, Page(r.addr), r.pages)

\* The pages of an allocation that the process's table maps already.
Done(j) == IF j.at = "kmap" THEN j.off + j.count ELSE j.off

\* An allocation has mapped the pages it is done with.
AllocMaps(j, ut, kt) ==
  /\ Done(j) # 0 => Aligned(j.uaddr)
  /\ Tiled(ut, Page(j.uaddr), Done(j))
  /\ j.at = "kmap" => MapsTo(ut, Page(j.uaddr) + j.off, j.count, j.base)
  /\ j.at # "kaddr" /\ j.kind # "stack" => /\ Tiled(kt, Page(j.kaddr), j.off)
                                           /\ SamePages(ut, Page(j.uaddr), kt, Page(j.kaddr), j.off)

\* What the job has mapped, at each of its steps.
JobMaps(j, ut, kt) ==
  /\ j.at \in {"kaddr", "pages", "umap", "kmap"} => AllocMaps(j, ut, kt)
  /\ j.at \in {"unmap", "lock_free", "vfree", "kunmap"} => Tiled(kt, Page(j.kaddr), j.pages)
  /\ j.at = "unmap" => Aligned(j.uaddr) /\ Tiled(ut, Page(j.uaddr), j.pages)

\* What is in use is mapped.
MapInv ==
  /\ \A q \in queues : QueueMapped(q, utable, ktable)
  /\ \A r \in regions : Aligned(r.addr) /\ RegionMapped(r, utable)
  /\ \A b \in buffers : RegionMapped(b, ktable)
  /\ JobMaps(job, utable, ktable)

\* No id is issued twice: those in use are below the next, or there is no next.
IdInv ==
  /\ \A q \in queues : q.id # 0 /\ (nextId = 0 \/ q.id < nextId)
  /\ \A q, s \in queues : q.id = s.id => q = s
  /\ IsAllocJob(job) /\ job.kind # "stack" =>
       job.id # 0 /\ (nextId = 0 \/ job.id < nextId) /\ \A q \in queues : q.id # job.id
  /\ IsAllocJob(job) /\ job.kind = "stack" => job.id = 0

\* The pages that have a holder.
HeldPages == InitialUsed \cup RootPages \cup JobPages \cup UserPages(utable) \cup TablePages(ktable) \cup BufferPages

\* Until an allocation fails half way or maps over a page, every page in use has
\* a holder.
FullInv ==
  ~failed => used \subseteq HeldPages

\* A job is told apart by its step.
LEMMA JobCases ==
  ASSUME NEW j, IsJob(j)
  PROVE  /\ j.at \in {"lock", "uaddr", "kaddr", "pages", "umap", "kmap"} => IsAllocJob(j)
         /\ j.at \in {"unmap", "lock_free", "vfree", "kunmap"} => j \in DestroyJob
         /\ j.at = "idle" <=> j = Idle
         /\ j.at \in {"idle", "lock", "uaddr", "kaddr", "pages", "umap", "kmap", "unmap", "lock_free", "vfree", "kunmap"}
  BY DEF IsJob, IsAllocJob, AllocJob, DestroyJob, Idle

\* The fields of an allocation.
LEMMA AllocJobFacts ==
  ASSUME NEW j, IsAllocJob(j)
  PROVE  /\ j.pages \in Nat \ {0} /\ j.off \in Nat /\ j.uaddr \in Nat /\ j.kaddr \in Nat /\ j.base \in Nat
         /\ j.count \in Nat /\ j.id \in Nat /\ j.assoc \in Nat /\ j.kind \in {"recv", "send", "stack"}
         /\ j.at \in {"lock", "uaddr", "kaddr", "pages", "umap", "kmap"} /\ j.off <= j.pages
         /\ j = [at |-> j.at, kind |-> j.kind, id |-> j.id, assoc |-> j.assoc, pages |-> j.pages, off |-> j.off,
                 uaddr |-> j.uaddr, kaddr |-> j.kaddr, base |-> j.base, count |-> j.count]
  <1>1. j \in AllocJob /\ j.off <= j.pages
    BY DEF IsAllocJob
  <1> QED
    BY <1>1 DEF AllocJob

\* The fields of the destruction of a queue.
LEMMA DestroyJobFacts ==
  ASSUME NEW j \in DestroyJob
  PROVE  /\ j.pages \in Nat \ {0} /\ j.uaddr \in Nat /\ j.kaddr \in Nat /\ j.kind = "destroy"
         /\ j.at \in {"unmap", "lock_free", "vfree", "kunmap"}
         /\ j = [at |-> j.at, kind |-> j.kind, uaddr |-> j.uaddr, kaddr |-> j.kaddr, pages |-> j.pages]
  BY DEF DestroyJob

\* The boot state.
LEMMA InitPhys == Init => PhysInv
  <1> SUFFICES ASSUME Init PROVE PhysInv
    OBVIOUS
  <1> USE DEF Init
  <1>1. InitialUsed \subseteq Pages /\ -1 \notin Pages
    BY PhysicalMemoryAssumption DEF InitialUsed, Pages
  <1>2. MemOK
    <2>1. NewList(0, VaPages) \in Seq(Block)
      BY AddressSpaceAssumption DEF NewList, Block
    <2>2. <<>> \in Seq(Block)
      OBVIOUS
    <2> QED
      BY <1>1, <2>1, <2>2, NoEntriesFacts DEF MemOK
  <1>3. JobOK
    BY DEF JobOK, IsJob
  <1>4. ProcOK
    <2>1. 2 ^ IdBits \in Nat \ {0}
      BY AddressSpaceAssumption
    <2>2. 0 \in 0..2 ^ IdBits - 1
      BY <2>1
    <2> QED
      BY <2>2, FS_EmptySet DEF ProcOK
  <1>5. KernelOK
    BY DEF KernelOK
  <1>6. PagesOK
    <2>1. RootPages = {} /\ JobPages = {} /\ BufferPages = {}
      BY DEF RootPages, JobPages, BufferPages, Idle
    <2> QED
      BY <2>1, NoEntriesFacts DEF PagesOK, Split
  <1> QED
    BY <1>2, <1>3, <1>4, <1>5, <1>6 DEF PhysInv

\* The steps after which only the step of an allocation changes.
MayMove(j, at) ==
  \/ at \in {"lock", "uaddr"} /\ j.at \in {"lock", "uaddr"}
  \/ at = "kmap" /\ j.at = "umap" /\ j.kind # "stack"

\* The step of a job changes, nothing else.
LEMMA JobMoves ==
  ASSUME NEW j, NEW at
  PROVE  /\ IsAllocJob(j) /\ MayMove(j, at)
              => IsAllocJob([j EXCEPT !.at = at])
         /\ j \in DestroyJob /\ at \in {"unmap", "lock_free", "vfree", "kunmap"} => [j EXCEPT !.at = at] \in DestroyJob
         /\ IsAllocJob(j) \/ j \in DestroyJob => [j EXCEPT !.at = at].at = at
  <1> DEFINE k == [j EXCEPT !.at = at]
  <1>1. ASSUME IsAllocJob(j), MayMove(j, at)
        PROVE  IsAllocJob(k) /\ k.at = at
    <2>1. /\ k.at = at /\ k.kind = j.kind /\ k.id = j.id /\ k.assoc = j.assoc /\ k.pages = j.pages /\ k.off = j.off
          /\ k.uaddr = j.uaddr /\ k.kaddr = j.kaddr /\ k.base = j.base /\ k.count = j.count
          /\ k = [at |-> k.at, kind |-> k.kind, id |-> k.id, assoc |-> k.assoc, pages |-> k.pages, off |-> k.off,
                  uaddr |-> k.uaddr, kaddr |-> k.kaddr, base |-> k.base, count |-> k.count]
      BY <1>1, AllocJobFacts
    <2> HIDE DEF k
    <2>2. k \in AllocJob
      BY <1>1, <2>1, AllocJobFacts DEF AllocJob, MayMove
    <2> QED
      BY <1>1, <2>1, <2>2 DEF IsAllocJob, MayMove
  <1>2. ASSUME j \in DestroyJob, at \in {"unmap", "lock_free", "vfree", "kunmap"}
        PROVE  k \in DestroyJob /\ k.at = at
    BY <1>2 DEF DestroyJob
  <1>3. ASSUME IsAllocJob(j) PROVE k.at = at
    BY <1>3, AllocJobFacts
  <1>4. ASSUME j \in DestroyJob PROVE k.at = at
    BY <1>4, DestroyJobFacts
  <1> QED
    BY <1>1, <1>2, <1>3, <1>4

-----------------------------------------------------------------------------
(* The steps keep the physical pages apart. *)

\* Steps that change no page, no table and no buffer.
LEMMA PagesFrame ==
  ASSUME PagesOK, UNCHANGED <<used, utable, ktable, root, buffers>>, JobPages' \subseteq JobPages
  PROVE  PagesOK'
  <1>1. RootPages' = RootPages /\ BufferPages' = BufferPages
    BY DEF RootPages, BufferPages
  <1> QED
    BY <1>1 DEF PagesOK, Split

\* Steps that change no page and no table.
LEMMA MemFrame ==
  ASSUME MemOK, UNCHANGED <<used, utable, ktable>>, kfree' \in Seq(Block), ufree' \in Seq(Block)
  PROVE  MemOK'
  BY DEF MemOK

\* The counter of queue ids stays in its range.
LEMMA NextIdRange ==
  ASSUME nextId \in 0..2 ^ IdBits - 1, NextQueueId
  PROVE  nextId' \in 0..2 ^ IdBits - 1
  <1> DEFINE w == 2 ^ IdBits
  <1>1. w \in Nat \ {0, 1}
    BY AddressSpaceAssumption
  <1>2. nextId' = nextId \/ nextId' = (nextId + 1) % w
    BY DEF NextQueueId
  <1> HIDE DEF w
  <1>3. (nextId + 1) % w \in 0..(w - 1)
    <2>1. nextId + 1 \in Int
      BY <1>1 DEF w
    <2> QED
      BY <1>1, <2>1
  <1> QED
    BY <1>2, <1>3 DEF w

\* alloc_memory begins.
LEMMA BeginAllocJob ==
  ASSUME NEW kind \in {"recv", "send", "stack"}, NEW n \in Nat \ {0}, NEW assoc \in Nat, NEW id \in Nat, BeginAlloc(kind, n, assoc, id)
  PROVE  IsAllocJob(job') /\ job'.at = "lock" /\ job'.kind = kind /\ job'.id = id
  <1>1. job' = [at |-> "lock", kind |-> kind, id |-> id, assoc |-> assoc, pages |-> n, off |-> 0,
                uaddr |-> 0, kaddr |-> 0, base |-> 0, count |-> 0]
    BY DEF BeginAlloc
  <1> QED
    BY <1>1 DEF IsAllocJob, AllocJob

\* Creating a queue, when the ids last.
LEMMA CreatePhys ==
  ASSUME PhysInv, NEW n \in Sizes, NEW kind \in {"recv", "send"}, NEW assoc \in Nat,
         job = Idle, root # -1, NextQueueId,
         IF nextId = 0 THEN UNCHANGED job ELSE BeginAlloc(kind, n, assoc, nextId),
         UNCHANGED <<kmem, root, utable, ufree, locked, queues, regions, buffers, kernel, failed>>
  PROVE  PhysInv'
  <1> USE DEF kmem
  <1>1. MemOK /\ JobOK /\ ProcOK /\ KernelOK /\ PagesOK
    BY DEF PhysInv
  <1>2. n \in Nat \ {0} /\ nextId \in Nat
    BY <1>1, AddressSpaceAssumption DEF ProcOK
  <1>3. JobOK' /\ job'.at # "umap" /\ (job'.at = "idle" \/ job'.at = "lock")
    <2>1. CASE nextId = 0
      BY <2>1 DEF JobOK, IsJob, Idle
    <2>2. CASE nextId # 0
      <3>1. BeginAlloc(kind, n, assoc, nextId)
        BY <2>2
      <3>2. IsAllocJob(job') /\ job'.at = "lock"
        BY <1>2, <3>1, BeginAllocJob
      <3> QED
        BY <3>2 DEF JobOK, IsJob
    <2> QED
      BY <2>1, <2>2
  <1>4. MemOK'
    BY <1>1, MemFrame DEF MemOK
  <1>5. PagesOK'
    <2>1. JobPages' \subseteq JobPages
      BY <1>3 DEF JobPages
    <2> QED
      BY <1>1, <2>1, PagesFrame
  <1>6. ProcOK'
    <2>1. nextId' \in 0..2 ^ IdBits - 1
      BY <1>1, NextIdRange DEF ProcOK
    <2> QED
      BY <1>1, <2>1 DEF ProcOK
  <1>7. KernelOK'
    BY <1>1 DEF KernelOK, Idle
  <1> QED
    BY <1>3, <1>4, <1>5, <1>6, <1>7 DEF PhysInv

\* The allocation of a stack begins.
LEMMA AllocStackPhys ==
  ASSUME PhysInv, NEW n \in Sizes, AllocStack(n)
  PROVE  PhysInv'
  <1> USE DEF kmem, proc, AllocStack
  <1>1. MemOK /\ JobOK /\ ProcOK /\ KernelOK /\ PagesOK
    BY DEF PhysInv
  <1>2. n \in Nat \ {0}
    BY AddressSpaceAssumption
  <1>3. IsAllocJob(job') /\ job'.at = "lock"
    <2>1. BeginAlloc("stack", n, 0, 0)
      OBVIOUS
    <2>2. "stack" \in {"recv", "send", "stack"} /\ 0 \in Nat
      OBVIOUS
    <2> QED
      BY <1>2, <2>1, <2>2, BeginAllocJob
  <1>4. MemOK'
    BY <1>1, MemFrame DEF MemOK
  <1>5. PagesOK'
    <2>1. JobPages' \subseteq JobPages
      BY <1>3 DEF JobPages
    <2> QED
      BY <1>1, <2>1, PagesFrame
  <1>6. ProcOK'
    BY <1>1 DEF ProcOK
  <1>7. KernelOK'
    BY <1>1 DEF KernelOK, Idle
  <1>8. JobOK'
    BY <1>3 DEF JobOK, IsJob
  <1> QED
    BY <1>4, <1>5, <1>6, <1>7, <1>8 DEF PhysInv

\* The executor takes the lock of the process's free list.
LEMMA TakeLockPhys ==
  ASSUME PhysInv, TakeLock
  PROVE  PhysInv'
  <1> USE DEF kmem, TakeLock, Goto
  <1>1. MemOK /\ JobOK /\ ProcOK /\ KernelOK /\ PagesOK
    BY DEF PhysInv
  <1>2. JobOK' /\ job'.at \in {"uaddr", "vfree"} /\ job # Idle
    <2>1. CASE job.at = "lock"
      <3>1. IsAllocJob(job) /\ job # Idle
        BY <1>1, <2>1, JobCases DEF JobOK
      <3>2. job' = [job EXCEPT !.at = "uaddr"] /\ MayMove(job, "uaddr")
        BY <2>1 DEF MayMove
      <3>3. IsAllocJob(job') /\ job'.at = "uaddr"
        BY <3>1, <3>2, JobMoves
      <3> QED
        BY <3>1, <3>3 DEF JobOK, IsJob
    <2>2. CASE job.at = "lock_free"
      <3>1. job \in DestroyJob /\ job # Idle
        BY <1>1, <2>2, JobCases DEF JobOK
      <3>2. job' = [job EXCEPT !.at = "vfree"]
        BY <2>2
      <3>3. job' \in DestroyJob /\ job'.at = "vfree"
        BY <3>1, <3>2, JobMoves
      <3> QED
        BY <3>1, <3>3 DEF JobOK, IsJob
    <2> QED
      BY <2>1, <2>2
  <1>4. MemOK'
    BY <1>1, MemFrame DEF MemOK
  <1>5. PagesOK'
    <2>1. JobPages' \subseteq JobPages
      BY <1>2 DEF JobPages
    <2> QED
      BY <1>1, <2>1, PagesFrame
  <1>6. ProcOK'
    BY <1>1, <1>2 DEF ProcOK
  <1>7. KernelOK'
    BY <1>1, <1>2 DEF KernelOK
  <1> QED
    BY <1>2, <1>4, <1>5, <1>6, <1>7 DEF PhysInv

\* An allocation with the fields that its steps change.
SetJob(j, at, off, uaddr, kaddr, base, count) ==
  [at |-> at, kind |-> j.kind, id |-> j.id, assoc |-> j.assoc, pages |-> j.pages, off |-> off,
   uaddr |-> uaddr, kaddr |-> kaddr, base |-> base, count |-> count]

\* The fields of an allocation after a step.
LEMMA SetJobFields ==
  ASSUME NEW j, NEW at, NEW off, NEW uaddr, NEW kaddr, NEW base, NEW count,
         NEW k, k = SetJob(j, at, off, uaddr, kaddr, base, count)
  PROVE  /\ k.at = at /\ k.kind = j.kind /\ k.id = j.id /\ k.assoc = j.assoc /\ k.pages = j.pages /\ k.off = off
         /\ k.uaddr = uaddr /\ k.kaddr = kaddr /\ k.base = base /\ k.count = count
  BY DEF SetJob

\* What the steps of an allocation do to it.
LEMMA SetJobSteps ==
  ASSUME NEW j, IsAllocJob(j), NEW at, NEW x
  PROVE  /\ [j EXCEPT !.at = at, !.uaddr = x] = SetJob(j, at, j.off, x, j.kaddr, j.base, j.count)
         /\ [j EXCEPT !.at = at, !.kaddr = x] = SetJob(j, at, j.off, j.uaddr, x, j.base, j.count)
         /\ [j EXCEPT !.at = at, !.off = x] = SetJob(j, at, x, j.uaddr, j.kaddr, j.base, j.count)
         /\ [j EXCEPT !.at = at] = SetJob(j, at, j.off, j.uaddr, j.kaddr, j.base, j.count)
  <1> DEFINE Whole(k) == k = [at |-> k.at, kind |-> k.kind, id |-> k.id, assoc |-> k.assoc, pages |-> k.pages, off |-> k.off,
                              uaddr |-> k.uaddr, kaddr |-> k.kaddr, base |-> k.base, count |-> k.count]
  <1>1. Whole(j)
    BY AllocJobFacts
  <1>2. ASSUME NEW k, k = [j EXCEPT !.at = at, !.uaddr = x]
        PROVE  k = SetJob(j, at, j.off, x, j.kaddr, j.base, j.count)
    <2>1. /\ k.at = at /\ k.kind = j.kind /\ k.id = j.id /\ k.assoc = j.assoc /\ k.pages = j.pages /\ k.off = j.off
          /\ k.uaddr = x /\ k.kaddr = j.kaddr /\ k.base = j.base /\ k.count = j.count /\ Whole(k)
      BY <1>1, <1>2
    <2> QED
      BY <2>1 DEF SetJob
  <1>3. ASSUME NEW k, k = [j EXCEPT !.at = at, !.kaddr = x]
        PROVE  k = SetJob(j, at, j.off, j.uaddr, x, j.base, j.count)
    <2>1. /\ k.at = at /\ k.kind = j.kind /\ k.id = j.id /\ k.assoc = j.assoc /\ k.pages = j.pages /\ k.off = j.off
          /\ k.uaddr = j.uaddr /\ k.kaddr = x /\ k.base = j.base /\ k.count = j.count /\ Whole(k)
      BY <1>1, <1>3
    <2> QED
      BY <2>1 DEF SetJob
  <1>5. ASSUME NEW k, k = [j EXCEPT !.at = at, !.off = x]
        PROVE  k = SetJob(j, at, x, j.uaddr, j.kaddr, j.base, j.count)
    <2>1. /\ k.at = at /\ k.kind = j.kind /\ k.id = j.id /\ k.assoc = j.assoc /\ k.pages = j.pages /\ k.off = x
          /\ k.uaddr = j.uaddr /\ k.kaddr = j.kaddr /\ k.base = j.base /\ k.count = j.count /\ Whole(k)
      BY <1>1, <1>5
    <2> QED
      BY <2>1 DEF SetJob
  <1>6. ASSUME NEW k, k = [j EXCEPT !.at = at]
        PROVE  k = SetJob(j, at, j.off, j.uaddr, j.kaddr, j.base, j.count)
    <2>1. /\ k.at = at /\ k.kind = j.kind /\ k.id = j.id /\ k.assoc = j.assoc /\ k.pages = j.pages /\ k.off = j.off
          /\ k.uaddr = j.uaddr /\ k.kaddr = j.kaddr /\ k.base = j.base /\ k.count = j.count /\ Whole(k)
      BY <1>1, <1>6
    <2> QED
      BY <2>1 DEF SetJob
  <1> HIDE DEF Whole
  <1> QED
    BY <1>2, <1>3, <1>5, <1>6

\* A round has taken its pages.
LEMMA SetJobPages ==
  ASSUME NEW j, IsAllocJob(j), NEW at, NEW x, NEW y, NEW k, k = [j EXCEPT !.at = at, !.base = x, !.count = y]
  PROVE  k = SetJob(j, at, j.off, j.uaddr, j.kaddr, x, y)
  <1>1. /\ k.at = at /\ k.kind = j.kind /\ k.id = j.id /\ k.assoc = j.assoc /\ k.pages = j.pages /\ k.off = j.off
        /\ k.uaddr = j.uaddr /\ k.kaddr = j.kaddr /\ k.base = x /\ k.count = y
        /\ k = [at |-> k.at, kind |-> k.kind, id |-> k.id, assoc |-> k.assoc, pages |-> k.pages, off |-> k.off,
                uaddr |-> k.uaddr, kaddr |-> k.kaddr, base |-> k.base, count |-> k.count]
    <2>1. j = [at |-> j.at, kind |-> j.kind, id |-> j.id, assoc |-> j.assoc, pages |-> j.pages, off |-> j.off,
               uaddr |-> j.uaddr, kaddr |-> j.kaddr, base |-> j.base, count |-> j.count]
      BY AllocJobFacts
    <2> QED
      BY <2>1
  <1> QED
    BY <1>1 DEF SetJob

\* The changes that make an allocation of an allocation.
MaySet(j, at, off, uaddr, kaddr, base, count) ==
  /\ at \in {"lock", "uaddr", "kaddr", "pages", "umap", "kmap"} /\ off \in Nat
  /\ uaddr \in Nat /\ kaddr \in Nat /\ base \in Nat /\ count \in Nat /\ off <= j.pages
  /\ j.kind = "stack" => at \notin {"kaddr", "kmap"}
  /\ at \in {"umap", "kmap"} => count # 0 /\ off + count <= j.pages /\ PagesFrom(base, count) \subseteq Pages
  /\ at \in {"lock", "uaddr", "kaddr"} => off = 0

\* An allowed change makes an allocation of an allocation.
LEMMA SetJobTyped ==
  ASSUME NEW j, IsAllocJob(j), NEW at, NEW off, NEW uaddr, NEW kaddr, NEW base, NEW count,
         MaySet(j, at, off, uaddr, kaddr, base, count)
  PROVE  IsAllocJob(SetJob(j, at, off, uaddr, kaddr, base, count))
  <1> DEFINE k == SetJob(j, at, off, uaddr, kaddr, base, count)
  <1>1. k \in AllocJob
    BY AllocJobFacts DEF SetJob, AllocJob, MaySet
  <1>2. /\ k.at = at /\ k.kind = j.kind /\ k.pages = j.pages /\ k.off = off /\ k.base = base /\ k.count = count
    BY SetJobFields
  <1> HIDE DEF k
  <1>3. IsAllocJob(k)
    BY <1>1, <1>2 DEF IsAllocJob, MaySet
  <1> QED
    BY <1>3 DEF k

\* j becomes k, by the changes of a step.
Becomes(j, k, at, off, uaddr, kaddr, base, count) ==
  /\ IsAllocJob(k)
  /\ k.at = at /\ k.kind = j.kind /\ k.id = j.id /\ k.assoc = j.assoc /\ k.pages = j.pages /\ k.off = off
  /\ k.uaddr = uaddr /\ k.kaddr = kaddr /\ k.base = base /\ k.count = count

\* The allocation has its addresses in the process.
LEMMA JobTakesUser ==
  ASSUME NEW j, IsAllocJob(j), j.at = "uaddr", NEW x \in Nat, NEW k,
         k = [j EXCEPT !.at = IF j.kind = "stack" THEN "pages" ELSE "kaddr", !.uaddr = x]
  PROVE  Becomes(j, k, IF j.kind = "stack" THEN "pages" ELSE "kaddr", j.off, x, j.kaddr, j.base, j.count) /\ j.off = 0
  <1>1. PICK at \in {"pages", "kaddr"} : at = IF j.kind = "stack" THEN "pages" ELSE "kaddr"
    OBVIOUS
  <1>2. j.off = 0 /\ j.off \in Nat /\ j.off <= j.pages /\ j.kaddr \in Nat /\ j.base \in Nat /\ j.count \in Nat
    BY AllocJobFacts DEF IsAllocJob
  <1>5. [j EXCEPT !.at = at, !.uaddr = x] = SetJob(j, at, j.off, x, j.kaddr, j.base, j.count)
    BY SetJobSteps
  <1>3. k = SetJob(j, at, j.off, x, j.kaddr, j.base, j.count)
    BY <1>1, <1>5
  <1>6. MaySet(j, at, j.off, x, j.kaddr, j.base, j.count)
    BY <1>1, <1>2 DEF MaySet
  <1>4. IsAllocJob(k)
    BY <1>3, <1>6, SetJobTyped
  <1> QED
    BY <1>1, <1>2, <1>3, <1>4, SetJobFields DEF Becomes

\* The allocation has its addresses in the kernel.
LEMMA JobTakesKernel ==
  ASSUME NEW j, IsAllocJob(j), NEW x \in Nat, NEW k, k = [j EXCEPT !.at = "pages", !.kaddr = x]
  PROVE  Becomes(j, k, "pages", j.off, j.uaddr, x, j.base, j.count)
  <1>2. j.off \in Nat /\ j.off <= j.pages /\ j.uaddr \in Nat /\ j.base \in Nat /\ j.count \in Nat
    BY AllocJobFacts DEF IsAllocJob
  <1>3. k = SetJob(j, "pages", j.off, j.uaddr, x, j.base, j.count)
    BY SetJobSteps
  <1>6. MaySet(j, "pages", j.off, j.uaddr, x, j.base, j.count)
    BY <1>2 DEF MaySet
  <1>4. IsAllocJob(k)
    BY <1>3, <1>6, SetJobTyped
  <1> QED
    BY <1>2, <1>3, <1>4, SetJobFields DEF Becomes

\* The round has its pages.
LEMMA JobTakesPages ==
  ASSUME NEW j, IsAllocJob(j), NEW b \in Nat, NEW c \in Nat, c # 0, j.off + c <= j.pages, PagesFrom(b, c) \subseteq Pages,
         NEW k, k = [j EXCEPT !.at = "umap", !.base = b, !.count = c]
  PROVE  Becomes(j, k, "umap", j.off, j.uaddr, j.kaddr, b, c)
  <1>2. j.off \in Nat /\ j.off <= j.pages /\ j.uaddr \in Nat /\ j.kaddr \in Nat
    BY AllocJobFacts DEF IsAllocJob
  <1>3. k = SetJob(j, "umap", j.off, j.uaddr, j.kaddr, b, c)
    BY SetJobPages
  <1>6. MaySet(j, "umap", j.off, j.uaddr, j.kaddr, b, c)
    BY <1>2 DEF MaySet
  <1>4. IsAllocJob(k)
    BY <1>3, <1>6, SetJobTyped
  <1> QED
    BY <1>2, <1>3, <1>4, SetJobFields DEF Becomes

\* The round's pages are mapped in the process and go into the kernel next.
LEMMA JobMapsKernel ==
  ASSUME NEW j, IsAllocJob(j), j.at = "umap", j.kind # "stack", NEW k, k = [j EXCEPT !.at = "kmap"]
  PROVE  Becomes(j, k, "kmap", j.off, j.uaddr, j.kaddr, j.base, j.count)
  <1>1. IsAllocJob(k)
    BY JobMoves DEF MayMove
  <1>3. k = SetJob(j, "kmap", j.off, j.uaddr, j.kaddr, j.base, j.count)
    BY SetJobSteps
  <1> QED
    BY <1>1, <1>3, SetJobFields DEF Becomes

\* The round is done.
LEMMA JobNextRound ==
  ASSUME NEW j, IsAllocJob(j), j.at \in {"umap", "kmap"}, NEW k, k = [j EXCEPT !.at = "pages", !.off = j.off + j.count]
  PROVE  Becomes(j, k, "pages", j.off + j.count, j.uaddr, j.kaddr, j.base, j.count)
  <1>2. j.off \in Nat /\ j.off + j.count <= j.pages /\ j.uaddr \in Nat /\ j.kaddr \in Nat /\ j.base \in Nat /\ j.count \in Nat
    BY AllocJobFacts DEF IsAllocJob
  <1>5. PICK o \in Nat : o = j.off + j.count
    BY <1>2
  <1>6. [j EXCEPT !.at = "pages", !.off = o] = SetJob(j, "pages", o, j.uaddr, j.kaddr, j.base, j.count)
    BY SetJobSteps
  <1>3. k = SetJob(j, "pages", o, j.uaddr, j.kaddr, j.base, j.count)
    BY <1>5, <1>6
  <1>7. MaySet(j, "pages", o, j.uaddr, j.kaddr, j.base, j.count)
    BY <1>2, <1>5 DEF MaySet
  <1>4. IsAllocJob(k)
    BY <1>3, <1>7, SetJobTyped
  <1> QED
    BY <1>3, <1>4, <1>5, SetJobFields DEF Becomes

\* alloc_memory takes addresses of the process.
LEMMA AllocUserAddressPhys ==
  ASSUME PhysInv, AllocUserAddress
  PROVE  PhysInv'
  <1> USE DEF kmem
  <1>1. MemOK /\ JobOK /\ ProcOK /\ KernelOK /\ PagesOK
    BY DEF PhysInv
  <1>2. IsAllocJob(job) /\ job # Idle /\ job.at = "uaddr"
    BY <1>1, JobCases DEF JobOK, AllocUserAddress
  <1>3. job.pages \in Nat \ {0}
    BY <1>2, AllocJobFacts
  <1> DEFINE a == VAlloc(ufree, job.pages)
  <1>4. a.list \in Seq(Block) /\ (a.ok => a.addr \in Nat)
    BY <1>1, <1>3, VAllocFacts DEF MemOK
  <1>10. /\ ufree' = a.list /\ locked' = FALSE
         /\ ~a.ok => job' = Idle
         /\ a.ok => job' = [job EXCEPT !.at = IF job.kind = "stack" THEN "pages" ELSE "kaddr", !.uaddr = a.addr]
         /\ UNCHANGED <<used, ktable, kfree, root, utable, nextId, queues, regions, buffers, kernel, failed, ops>>
    BY DEF AllocUserAddress
  <1> HIDE DEF a
  <1>5. JobOK' /\ job'.at \in {"idle", "pages", "kaddr"}
    <2>1. CASE ~a.ok
      BY <1>10, <2>1 DEF JobOK, IsJob, Idle
    <2>2. CASE a.ok
      <3>1. Becomes(job, job', IF job.kind = "stack" THEN "pages" ELSE "kaddr", job.off, a.addr, job.kaddr, job.base, job.count)
        BY <1>2, <1>4, <1>10, <2>2, JobTakesUser
      <3> QED
        BY <3>1 DEF JobOK, IsJob, Becomes
    <2> QED
      BY <2>1, <2>2
  <1>6. MemOK'
    BY <1>1, <1>4, <1>10, MemFrame DEF MemOK
  <1>7. PagesOK'
    <2>1. JobPages' \subseteq JobPages
      BY <1>5 DEF JobPages
    <2> QED
      BY <1>1, <1>10, <2>1, PagesFrame
  <1>8. ProcOK'
    BY <1>1, <1>2, <1>10 DEF ProcOK
  <1>9. KernelOK'
    BY <1>1, <1>10 DEF KernelOK
  <1> QED
    BY <1>5, <1>6, <1>7, <1>8, <1>9 DEF PhysInv

\* alloc_memory takes addresses of the kernel.
LEMMA AllocKernelAddressPhys ==
  ASSUME PhysInv, AllocKernelAddress
  PROVE  PhysInv'
  <1>1. MemOK /\ JobOK /\ ProcOK /\ KernelOK /\ PagesOK
    BY DEF PhysInv
  <1>2. IsAllocJob(job) /\ job # Idle /\ job.at = "kaddr"
    BY <1>1, JobCases DEF JobOK, AllocKernelAddress
  <1>3. job.pages \in Nat \ {0}
    BY <1>2, AllocJobFacts
  <1> DEFINE a == VAlloc(kfree, job.pages)
  <1>4. a.list \in Seq(Block) /\ (a.ok => a.addr \in Nat)
    BY <1>1, <1>3, VAllocFacts DEF MemOK
  <1>10. /\ kfree' = a.list
         /\ ~a.ok => job' = Idle
         /\ a.ok => job' = [job EXCEPT !.at = "pages", !.kaddr = a.addr]
         /\ UNCHANGED <<used, ktable, root, utable, ufree, locked, nextId, queues, regions, buffers, kernel, ops>>
    BY DEF AllocKernelAddress, proc
  <1> HIDE DEF a
  <1>5. JobOK' /\ job'.at \in {"idle", "pages"}
    <2>1. CASE ~a.ok
      BY <1>10, <2>1 DEF JobOK, IsJob, Idle
    <2>2. CASE a.ok
      <3>1. Becomes(job, job', "pages", job.off, job.uaddr, a.addr, job.base, job.count)
        BY <1>2, <1>4, <1>10, <2>2, JobTakesKernel
      <3> QED
        BY <3>1 DEF JobOK, IsJob, Becomes
    <2> QED
      BY <2>1, <2>2
  <1>6. MemOK'
    BY <1>1, <1>4, <1>10, MemFrame DEF MemOK
  <1>7. PagesOK'
    <2>1. JobPages' \subseteq JobPages
      BY <1>5 DEF JobPages
    <2> QED
      BY <1>1, <1>10, <2>1, PagesFrame
  <1>8. ProcOK'
    BY <1>1, <1>2, <1>10 DEF ProcOK
  <1>9. KernelOK'
    BY <1>1, <1>2, <1>10 DEF KernelOK
  <1> QED
    BY <1>5, <1>6, <1>7, <1>8, <1>9 DEF PhysInv

\* alloc_memory takes the pages of a round.
LEMMA AllocPagesPhys ==
  ASSUME PhysInv, AllocPages
  PROVE  PhysInv'
  <1>1. MemOK /\ JobOK /\ ProcOK /\ KernelOK /\ PagesOK
    BY DEF PhysInv
  <1>2. IsAllocJob(job) /\ job # Idle /\ job.at = "pages" /\ job.off < job.pages
    BY <1>1, JobCases DEF JobOK, AllocPages
  <1>3. job.pages \in Nat /\ job.off \in Nat
    BY <1>2, AllocJobFacts
  <1>11. PICK n \in Nat \ {0} : n = job.pages - job.off
    BY <1>2, <1>3
  <1> DEFINE p == TryAllocContig(used, n)
  <1>4. p.ok => p.base \in Nat /\ p.count \in 1..n /\ PagesFrom(p.base, p.count) \subseteq Pages \ used
    <2>1. ASSUME p.ok PROVE p.base \in Pages /\ p.count \in 1..n /\ PagesFrom(p.base, p.count) \subseteq Pages \ used
      BY <1>1, <2>1, TryAllocContigFacts DEF MemOK
    <2> QED
      BY <2>1, PhysicalMemoryAssumption DEF Pages
  <1>10. /\ used' = IF p.ok THEN used \cup PagesFrom(p.base, p.count) ELSE used
         /\ job' = IF p.ok THEN [job EXCEPT !.at = "umap", !.base = p.base, !.count = p.count] ELSE Idle
         /\ UNCHANGED <<ktable, kfree, root, utable, ufree, locked, nextId, queues, regions, buffers, kernel, ops>>
    BY <1>11 DEF AllocPages, proc
  <1> HIDE DEF p
  <1>5. /\ JobOK'
        /\ p.ok => job'.at = "umap" /\ job'.base = p.base /\ job'.count = p.count
        /\ ~p.ok => job'.at = "idle"
    <2>1. CASE ~p.ok
      BY <1>10, <2>1 DEF JobOK, IsJob, Idle
    <2>2. CASE p.ok
      <3>1. p.count \in Nat /\ p.count # 0 /\ job.off + p.count <= job.pages
        BY <1>3, <1>4, <1>11, <2>2
      <3>2. p.base \in Nat /\ PagesFrom(p.base, p.count) \subseteq Pages
        BY <1>4, <2>2
      <3>3. job' = [job EXCEPT !.at = "umap", !.base = p.base, !.count = p.count]
        BY <1>10, <2>2
      <3>4. Becomes(job, job', "umap", job.off, job.uaddr, job.kaddr, p.base, p.count)
        BY <1>2, <3>1, <3>2, <3>3, JobTakesPages
      <3> QED
        BY <2>2, <3>4 DEF JobOK, IsJob, Becomes
    <2> QED
      BY <2>1, <2>2
  <1>6. MemOK'
    BY <1>1, <1>4, <1>10 DEF MemOK
  <1>7. PagesOK'
    <2>1. RootPages' = RootPages /\ BufferPages' = BufferPages /\ JobPages = {}
      BY <1>2, <1>10 DEF RootPages, BufferPages, JobPages
    <2>2. JobPages' = IF p.ok THEN PagesFrom(p.base, p.count) ELSE {}
      BY <1>5 DEF JobPages
    <2>3. CASE p.ok
      BY <1>1, <1>4, <1>10, <2>1, <2>2, <2>3 DEF PagesOK, Split
    <2>4. CASE ~p.ok
      BY <1>1, <1>10, <2>1, <2>2, <2>4 DEF PagesOK, Split
    <2> QED
      BY <2>3, <2>4
  <1>8. ProcOK'
    BY <1>1, <1>2, <1>10 DEF ProcOK
  <1>9. KernelOK'
    BY <1>1, <1>2, <1>10 DEF KernelOK
  <1> QED
    BY <1>5, <1>6, <1>7, <1>8, <1>9 DEF PhysInv

\* The arguments of a round's mapping.
LEMMA RoundFacts ==
  ASSUME NEW j, IsAllocJob(j), j.at \in {"umap", "kmap"}
  PROVE  /\ j.base \in Nat /\ j.count \in Nat /\ PagesFrom(j.base, j.count) \subseteq Pages
         /\ j.uaddr + Bytes(j.off) \in Nat /\ j.kaddr + Bytes(j.off) \in Nat
         /\ (j.uaddr + Bytes(j.off)) \div PAGE_SIZE = (j.uaddr \div PAGE_SIZE) + j.off
         /\ (j.kaddr + Bytes(j.off)) \div PAGE_SIZE = (j.kaddr \div PAGE_SIZE) + j.off
         /\ j.uaddr \div PAGE_SIZE \in Nat /\ j.kaddr \div PAGE_SIZE \in Nat /\ j.off \in Nat
  <1>1. j.base \in Nat /\ j.count \in Nat /\ PagesFrom(j.base, j.count) \subseteq Pages
    BY AllocJobFacts DEF IsAllocJob
  <1>2. j.uaddr \in Nat /\ j.kaddr \in Nat /\ j.off \in Nat
    BY AllocJobFacts
  <1>3. /\ (j.uaddr + Bytes(j.off)) \div PAGE_SIZE = (j.uaddr \div PAGE_SIZE) + j.off
        /\ j.uaddr \div PAGE_SIZE \in Nat /\ j.uaddr + Bytes(j.off) \in Nat
    BY <1>2, OffsetPage
  <1>4. /\ (j.kaddr + Bytes(j.off)) \div PAGE_SIZE = (j.kaddr \div PAGE_SIZE) + j.off
        /\ j.kaddr \div PAGE_SIZE \in Nat /\ j.kaddr + Bytes(j.off) \in Nat
    BY <1>2, OffsetPage
  <1> QED
    BY <1>1, <1>2, <1>3, <1>4

\* The round's pages are mapped into the process: the executor's pages become
\* the table's.
LEMMA MapUserPhys ==
  ASSUME PhysInv, MapUser
  PROVE  PhysInv'
  <1>1. MemOK /\ JobOK /\ ProcOK /\ KernelOK /\ PagesOK
    BY DEF PhysInv
  <1>2. IsAllocJob(job) /\ job # Idle /\ job.at = "umap"
    BY <1>1, JobCases DEF JobOK, MapUser
  <1>3. PICK va : va = job.uaddr + Bytes(job.off)
    OBVIOUS
  <1>4. /\ va \in Nat /\ job.base \in Nat /\ job.count \in Nat /\ PagesFrom(job.base, job.count) \subseteq Pages
        /\ va \div PAGE_SIZE \in Nat
    BY <1>2, <1>3, RoundFacts
  <1> DEFINE r == MapRange(utable, used, job.base, va, job.count)
  <1>10. /\ utable' = r.pt /\ used' = r.used
         /\ kernel' = IF r.state = "panic" THEN "panicked" ELSE kernel
         /\ job' = IF r.state # "ok" THEN Idle
                   ELSE IF job.kind = "stack" THEN NextRound ELSE [job EXCEPT !.at = "kmap"]
         /\ UNCHANGED <<ktable, kfree, root, ufree, locked, nextId, queues, regions, buffers, ops>>
    BY <1>3 DEF MapUser
  <1>5. MapLoop(utable, used, job.base, va \div PAGE_SIZE, job.count, r)
    BY <1>1, <1>4, MapRangeFacts DEF MemOK
  <1> HIDE DEF r
  <1>6. JobOK' /\ job'.at \in {"idle", "pages", "kmap"}
    <2>1. CASE r.state # "ok"
      BY <1>10, <2>1 DEF JobOK, IsJob, Idle
    <2>2. CASE r.state = "ok" /\ job.kind = "stack"
      <3>1. job' = [job EXCEPT !.at = "pages", !.off = job.off + job.count]
        BY <1>10, <2>2 DEF NextRound
      <3>2. Becomes(job, job', "pages", job.off + job.count, job.uaddr, job.kaddr, job.base, job.count)
        BY <1>2, <3>1, JobNextRound
      <3> QED
        BY <3>2 DEF JobOK, IsJob, Becomes
    <2>3. CASE r.state = "ok" /\ job.kind # "stack"
      <3>2. Becomes(job, job', "kmap", job.off, job.uaddr, job.kaddr, job.base, job.count)
        BY <1>2, <1>10, <2>3, JobMapsKernel
      <3> QED
        BY <3>2 DEF JobOK, IsJob, Becomes
    <2> QED
      BY <2>1, <2>2, <2>3
  <1>7. PtOK(r.pt) /\ used \subseteq r.used /\ r.used \subseteq Pages
    BY <1>5 DEF MapLoop
  <1>8. MemOK'
    BY <1>1, <1>7, <1>10 DEF MemOK
  <1>9. PagesOK'
    <2>1. RootPages' = RootPages /\ BufferPages' = BufferPages /\ JobPages = PagesFrom(job.base, job.count) /\ JobPages' = {}
      BY <1>2, <1>6, <1>10 DEF RootPages, BufferPages, JobPages
    <2>2. /\ UserPages(utable) \subseteq used /\ JobPages \subseteq used /\ JobPages \cap UserPages(utable) = {}
          /\ EntriesApart(utable)
      BY <1>1 DEF PagesOK, Split
    <2>3. EntriesApart(r.pt) /\ UserPages(r.pt) \subseteq UserPages(utable) \cup JobPages \cup (r.used \ used)
      BY <1>1, <1>4, <1>5, <2>1, <2>2, MapUserFacts DEF MemOK
    <2>4. UserPages(r.pt) \subseteq r.used
      BY <1>7, <2>2, <2>3
    <2> QED
      BY <1>1, <1>7, <1>10, <2>1, <2>3, <2>4 DEF PagesOK, Split
  <1>12. ProcOK'
    BY <1>1, <1>2, <1>10 DEF ProcOK
  <1>13. KernelOK'
    BY <1>1, <1>2, <1>10 DEF KernelOK
  <1> QED
    BY <1>6, <1>8, <1>9, <1>12, <1>13 DEF PhysInv

\* The round's pages are mapped into the kernel.
LEMMA MapKernelPhys ==
  ASSUME PhysInv, MapKernel
  PROVE  PhysInv'
  <1>1. MemOK /\ JobOK /\ ProcOK /\ KernelOK /\ PagesOK
    BY DEF PhysInv
  <1>2. IsAllocJob(job) /\ job # Idle /\ job.at = "kmap"
    BY <1>1, JobCases DEF JobOK, MapKernel
  <1>3. PICK va : va = KernelTarget
    OBVIOUS
  <1>4. /\ va \in Nat /\ job.base \in Nat /\ job.count \in Nat /\ PagesFrom(job.base, job.count) \subseteq Pages
        /\ va \div PAGE_SIZE \in Nat
    BY <1>2, <1>3, RoundFacts DEF KernelTarget
  <1> DEFINE r == MapRange(ktable, used, job.base, va, job.count)
  <1>10. /\ ktable' = r.pt /\ used' = r.used
         /\ kernel' = IF r.state = "panic" THEN "panicked" ELSE kernel
         /\ job' = IF r.state = "ok" THEN NextRound ELSE Idle
         /\ UNCHANGED <<kfree, root, utable, ufree, locked, nextId, queues, regions, buffers, ops>>
    BY <1>3 DEF MapKernel, proc
  <1>5. MapLoop(ktable, used, job.base, va \div PAGE_SIZE, job.count, r)
    BY <1>1, <1>4, MapRangeFacts DEF MemOK
  <1> HIDE DEF r
  <1>6. JobOK' /\ job'.at \in {"idle", "pages"}
    <2>1. CASE r.state # "ok"
      BY <1>10, <2>1 DEF JobOK, IsJob, Idle
    <2>2. CASE r.state = "ok"
      <3>1. job' = [job EXCEPT !.at = "pages", !.off = job.off + job.count]
        BY <1>10, <2>2 DEF NextRound
      <3>2. Becomes(job, job', "pages", job.off + job.count, job.uaddr, job.kaddr, job.base, job.count)
        BY <1>2, <3>1, JobNextRound
      <3> QED
        BY <3>2 DEF JobOK, IsJob, Becomes
    <2> QED
      BY <2>1, <2>2
  <1>7. PtOK(r.pt) /\ used \subseteq r.used /\ r.used \subseteq Pages
    BY <1>5 DEF MapLoop
  <1>8. MemOK'
    BY <1>1, <1>7, <1>10 DEF MemOK
  <1>9. PagesOK'
    <2>1. RootPages' = RootPages /\ BufferPages' = BufferPages /\ JobPages = {} /\ JobPages' = {}
      BY <1>2, <1>6, <1>10 DEF RootPages, BufferPages, JobPages
    <2>2. TablePages(ktable) \subseteq used /\ TablesApart(ktable) /\ used \subseteq Pages /\ PtOK(ktable)
      BY <1>1 DEF PagesOK, Split, MemOK
    <2>3. TablesApart(r.pt) /\ TablePages(r.pt) = TablePages(ktable) \cup (r.used \ used)
      BY <1>5, <2>2, MapKernelFacts
    <2> QED
      BY <1>1, <1>7, <1>10, <2>1, <2>3 DEF PagesOK, Split
  <1>12. ProcOK'
    BY <1>1, <1>2, <1>10 DEF ProcOK
  <1>13. KernelOK'
    BY <1>1, <1>2, <1>10 DEF KernelOK
  <1> QED
    BY <1>6, <1>8, <1>9, <1>12, <1>13 DEF PhysInv

\* alloc_memory is done: the queue or the stack belongs to the process.
LEMMA AllocDonePhys ==
  ASSUME PhysInv, AllocDone
  PROVE  PhysInv'
  <1>1. MemOK /\ JobOK /\ ProcOK /\ KernelOK /\ PagesOK
    BY DEF PhysInv
  <1>2. IsAllocJob(job) /\ job # Idle /\ job.at = "pages"
    BY <1>1, JobCases DEF JobOK, AllocDone
  <1> DEFINE q == [id |-> job.id, kind |-> job.kind, assoc |-> job.assoc,
                   uaddr |-> job.uaddr, kaddr |-> job.kaddr, pages |-> job.pages]
             g == [addr |-> job.uaddr, pages |-> job.pages]
  <1>10. /\ job' = Idle
         /\ job.kind = "stack" => regions' = regions \cup {g} /\ queues' = queues
         /\ job.kind # "stack" => queues' = queues \cup {q} /\ regions' = regions
         /\ UNCHANGED <<used, ktable, kfree, root, utable, ufree, locked, nextId, buffers, kernel, failed, ops>>
    BY DEF AllocDone, kmem
  <1>3. /\ job.pages \in Nat \ {0} /\ job.uaddr \in Nat /\ job.kaddr \in Nat /\ job.id \in Nat /\ job.assoc \in Nat
        /\ job.kind \in {"recv", "send", "stack"}
    BY <1>2, AllocJobFacts
  <1>4. g \in Region /\ (job.kind # "stack" => q \in Queue)
    BY <1>3 DEF Region, Queue
  <1> HIDE DEF q, g
  <1>5. JobOK'
    BY <1>10 DEF JobOK, IsJob
  <1>6. MemOK'
    BY <1>1, <1>10, MemFrame DEF MemOK
  <1>7. PagesOK'
    <2>1. JobPages' \subseteq JobPages
      BY <1>10 DEF JobPages, Idle
    <2> QED
      BY <1>1, <1>10, <2>1, PagesFrame
  <1>8. ProcOK'
    <2>1. IsFiniteSet(queues \cup {q})
      BY <1>1, FS_AddElement DEF ProcOK
    <2>2. root # -1
      BY <1>1, <1>2 DEF ProcOK
    <2> QED
      BY <1>1, <1>4, <1>10, <2>1, <2>2 DEF ProcOK
  <1>9. KernelOK'
    BY <1>1, <1>2, <1>10 DEF KernelOK
  <1> QED
    BY <1>5, <1>6, <1>7, <1>8, <1>9 DEF PhysInv

\* destroy_queue takes a queue off its list.
LEMMA DestroyQueuePhys ==
  ASSUME PhysInv, NEW q \in queues, DestroyQueue(q)
  PROVE  PhysInv'
  <1>1. MemOK /\ JobOK /\ ProcOK /\ KernelOK /\ PagesOK
    BY DEF PhysInv
  <1>10. /\ queues' = queues \ {q} /\ job = Idle
         /\ job' = [at |-> "unmap", kind |-> "destroy", uaddr |-> q.uaddr, kaddr |-> q.kaddr, pages |-> q.pages]
         /\ UNCHANGED <<used, ktable, kfree, root, utable, ufree, locked, nextId, regions, buffers, kernel, failed>>
    BY DEF DestroyQueue, kmem
  <1>2. q \in Queue /\ root # -1
    BY <1>1 DEF ProcOK
  <1>3. job' \in DestroyJob /\ job'.at = "unmap"
    BY <1>2, <1>10 DEF DestroyJob, Queue
  <1>5. JobOK'
    BY <1>3 DEF JobOK, IsJob
  <1>6. MemOK'
    BY <1>1, <1>10, MemFrame DEF MemOK
  <1>7. PagesOK'
    <2>1. JobPages' \subseteq JobPages
      BY <1>3 DEF JobPages
    <2> QED
      BY <1>1, <1>10, <2>1, PagesFrame
  <1>8. ProcOK'
    <2>1. IsFiniteSet(queues \ {q})
      BY <1>1, FS_RemoveElement DEF ProcOK
    <2> QED
      BY <1>1, <1>2, <1>10, <2>1 DEF ProcOK
  <1>9. KernelOK'
    BY <1>1, <1>10 DEF KernelOK, Idle
  <1> QED
    BY <1>5, <1>6, <1>7, <1>8, <1>9 DEF PhysInv

\* Pages are unmapped from the process and freed.
LEMMA UnmapUserPages ==
  ASSUME MemOK, PagesOK, NEW addr \in Nat, NEW n \in Nat \ {0}, NEW u, u = UnmapRange(utable, addr, n),
         utable' = u.pt, used' = Free(u.regions), UNCHANGED <<ktable, kfree, root, buffers>>,
         ufree' \in Seq(Block), JobPages' \subseteq JobPages
  PROVE  MemOK' /\ PagesOK'
  <1>1. UnmapLoop(utable, addr \div PAGE_SIZE, n, u)
    BY UnmapRangeFacts DEF MemOK
  <1>2. PtOK(u.pt)
    BY <1>1 DEF UnmapLoop
  <1>3. PICK v0 : v0 = addr \div PAGE_SIZE
    OBVIOUS
  <1>4. PtOK(utable) /\ EntriesApart(utable)
    BY DEF MemOK, PagesOK
  <1>5. /\ EntriesApart(u.pt) /\ UserPages(u.pt) = UserPages(utable) \ UNION u.regions
        /\ UNION u.regions \subseteq UserPages(utable)
    BY <1>1, <1>3, <1>4, UnmapPhysical
  <1>6. used' = used \ UNION u.regions
    BY DEF Free
  <1>7. MemOK'
    BY <1>2, <1>6 DEF MemOK
  <1>8. RootPages' = RootPages /\ BufferPages' = BufferPages
    BY DEF RootPages, BufferPages
  <1>9. PagesOK'
    BY <1>5, <1>6, <1>8 DEF PagesOK, Split
  <1> QED
    BY <1>7, <1>9

\* destroy_queue unmaps the queue from the process and frees its pages.
LEMMA DestroyUnmapPhys ==
  ASSUME PhysInv, DestroyUnmap
  PROVE  PhysInv'
  <1>1. MemOK /\ JobOK /\ ProcOK /\ KernelOK /\ PagesOK
    BY DEF PhysInv
  <1>2. job \in DestroyJob /\ job # Idle /\ job.at = "unmap"
    BY <1>1, JobCases DEF JobOK, DestroyUnmap
  <1>3. job.pages \in Nat \ {0} /\ job.uaddr \in Nat
    BY <1>2, DestroyJobFacts
  <1> DEFINE u == UnmapRange(utable, job.uaddr, job.pages)
  <1>10. /\ utable' = u.pt /\ used' = Free(u.regions)
         /\ kernel' = IF u.state = "panic" THEN "panicked" ELSE kernel
         /\ job' = [job EXCEPT !.at = "lock_free"]
         /\ UNCHANGED <<ktable, kfree, root, ufree, locked, nextId, queues, regions, buffers, failed, ops>>
    BY DEF DestroyUnmap, Goto
  <1>4. job' \in DestroyJob /\ job'.at = "lock_free"
    BY <1>2, <1>10, JobMoves
  <1>5. MemOK' /\ PagesOK'
    <2>1. ufree' \in Seq(Block) /\ JobPages' \subseteq JobPages
      BY <1>1, <1>4, <1>10 DEF MemOK, JobPages
    <2> QED
      BY <1>1, <1>3, <1>10, <2>1, UnmapUserPages
  <1> HIDE DEF u
  <1>8. ProcOK'
    BY <1>1, <1>2, <1>10 DEF ProcOK
  <1>9. KernelOK'
    BY <1>1, <1>2, <1>10 DEF KernelOK
  <1>6. JobOK'
    BY <1>4 DEF JobOK, IsJob
  <1> QED
    BY <1>5, <1>6, <1>8, <1>9 DEF PhysInv

\* destroy_queue gives back the process's addresses.
LEMMA DestroyFreeAddressPhys ==
  ASSUME PhysInv, DestroyFreeAddress
  PROVE  PhysInv'
  <1>1. MemOK /\ JobOK /\ ProcOK /\ KernelOK /\ PagesOK
    BY DEF PhysInv
  <1>2. job \in DestroyJob /\ job # Idle /\ job.at = "vfree"
    BY <1>1, JobCases DEF JobOK, DestroyFreeAddress
  <1>3. job.pages \in Nat \ {0} /\ job.uaddr \in Nat
    BY <1>2, DestroyJobFacts
  <1>10. /\ ufree' = VFree(ufree, job.uaddr, job.pages) /\ locked' = FALSE
         /\ job' = [job EXCEPT !.at = "kunmap"]
         /\ UNCHANGED <<used, ktable, kfree, root, utable, nextId, queues, regions, buffers, kernel, failed, ops>>
    BY DEF DestroyFreeAddress, Goto, kmem
  <1>4. job' \in DestroyJob /\ job'.at = "kunmap"
    BY <1>2, <1>10, JobMoves
  <1>11. ufree' \in Seq(Block)
    BY <1>1, <1>3, <1>10, VFreeFacts DEF MemOK
  <1>5. JobOK'
    BY <1>4 DEF JobOK, IsJob
  <1>6. MemOK'
    BY <1>1, <1>10, <1>11, MemFrame DEF MemOK
  <1>7. PagesOK'
    <2>1. JobPages' \subseteq JobPages
      BY <1>4 DEF JobPages
    <2> QED
      BY <1>1, <1>10, <2>1, PagesFrame
  <1>8. ProcOK'
    BY <1>1, <1>2, <1>10 DEF ProcOK
  <1>9. KernelOK'
    BY <1>1, <1>2, <1>10 DEF KernelOK
  <1> QED
    BY <1>5, <1>6, <1>7, <1>8, <1>9 DEF PhysInv

\* destroy_queue unmaps the queue from the kernel.
LEMMA DestroyKernelUnmapPhys ==
  ASSUME PhysInv, DestroyKernelUnmap
  PROVE  PhysInv'
  <1>1. MemOK /\ JobOK /\ ProcOK /\ KernelOK /\ PagesOK
    BY DEF PhysInv
  <1>2. job \in DestroyJob /\ job # Idle /\ job.at = "kunmap"
    BY <1>1, JobCases DEF JobOK, DestroyKernelUnmap
  <1>3. job.pages \in Nat \ {0} /\ job.kaddr \in Nat
    BY <1>2, DestroyJobFacts
  <1> DEFINE u == UnmapRange(ktable, job.kaddr, job.pages)
  <1>10. /\ ktable' = u.pt
         /\ kernel' = IF u.state = "panic" THEN "panicked" ELSE kernel
         /\ job' = Idle
         /\ UNCHANGED <<used, kfree, root, utable, ufree, locked, nextId, queues, regions, buffers, failed, ops>>
    BY DEF DestroyKernelUnmap, proc
  <1>4. UnmapLoop(ktable, job.kaddr \div PAGE_SIZE, job.pages, u)
    BY <1>1, <1>3, UnmapRangeFacts DEF MemOK
  <1> HIDE DEF u
  <1>5. PtOK(u.pt)
    BY <1>4 DEF UnmapLoop
  <1>6. PICK v0, n : v0 = job.kaddr \div PAGE_SIZE /\ n = job.pages
    OBVIOUS
  <1>7. PtOK(ktable) /\ TablesApart(ktable)
    BY <1>1 DEF MemOK, PagesOK
  <1>11. TablePages(u.pt) = TablePages(ktable) /\ TablesApart(u.pt)
    BY <1>4, <1>6, <1>7, UnmapPhysical
  <1>12. JobOK'
    BY <1>10 DEF JobOK, IsJob
  <1>13. MemOK'
    BY <1>1, <1>5, <1>10 DEF MemOK
  <1>14. PagesOK'
    <2>1. RootPages' = RootPages /\ BufferPages' = BufferPages /\ JobPages' = {}
      BY <1>10 DEF RootPages, BufferPages, JobPages, Idle
    <2> QED
      BY <1>1, <1>10, <1>11, <2>1 DEF PagesOK, Split
  <1>8. ProcOK'
    BY <1>1, <1>2, <1>10 DEF ProcOK
  <1>9. KernelOK'
    BY <1>1, <1>2, <1>10 DEF KernelOK
  <1> QED
    BY <1>8, <1>9, <1>12, <1>13, <1>14 DEF PhysInv

\* HeapFree, or the stack of a thread that exits.
LEMMA FreeRegionPhys ==
  ASSUME PhysInv, NEW r \in regions, FreeRegion(r)
  PROVE  PhysInv'
  <1>1. MemOK /\ JobOK /\ ProcOK /\ KernelOK /\ PagesOK
    BY DEF PhysInv
  <1>3. r.pages \in Nat \ {0} /\ r.addr \in Nat
    BY <1>1 DEF ProcOK, Region
  <1> DEFINE u == UnmapRange(utable, r.addr, r.pages)
  <1>10. /\ utable' = u.pt /\ used' = Free(u.regions) /\ regions' = regions \ {r} /\ root # -1
         /\ kernel' \in {kernel, "panicked", "spinning"}
         /\ ufree' = ufree \/ ufree' = VFree(ufree, r.addr, r.pages)
         /\ UNCHANGED <<ktable, kfree, root, locked, nextId, queues, buffers, job, failed>>
    BY DEF FreeRegion, UserRuns
  <1>5. MemOK' /\ PagesOK'
    <2>1. ufree' \in Seq(Block)
      BY <1>1, <1>3, <1>10, VFreeFacts DEF MemOK
    <2>2. JobPages' \subseteq JobPages
      BY <1>10 DEF JobPages
    <2> QED
      BY <1>1, <1>3, <1>10, <2>1, <2>2, UnmapUserPages
  <1> HIDE DEF u
  <1>8. ProcOK'
    BY <1>1, <1>10 DEF ProcOK
  <1>9. KernelOK'
    BY <1>1, <1>10 DEF KernelOK
  <1>6. JobOK'
    BY <1>1, <1>10 DEF JobOK
  <1> QED
    BY <1>5, <1>6, <1>8, <1>9 DEF PhysInv

\* HeapAllocate takes free pages only.
LEMMA HeapAllocatePhys ==
  ASSUME PhysInv, NEW n \in Sizes, HeapAllocate(n)
  PROVE  PhysInv'
  <1>1. MemOK /\ JobOK /\ ProcOK /\ KernelOK /\ PagesOK
    BY DEF PhysInv
  <1>2. n \in Nat \ {0}
    BY AddressSpaceAssumption
  <1> DEFINE a == VAlloc(ufree, n)
             s == AllocLoop([used |-> used, pt |-> utable, off |-> 0, addr |-> a.addr, state |-> "ok"], n)
             g == [addr |-> a.addr, pages |-> n]
  <1>10. /\ root # -1
         /\ \/ UNCHANGED <<used, utable, ufree, regions>> /\ kernel' \in {kernel, "spinning"}
            \/ /\ a.ok /\ ufree' = a.list /\ used' = s.used /\ utable' = s.pt
               /\ regions' = IF s.state = "ok" THEN regions \cup {g} ELSE regions
               /\ kernel' \in {kernel, "panicked"}
         /\ UNCHANGED <<ktable, kfree, root, locked, nextId, queues, buffers, job>>
    BY DEF HeapAllocate, UserRuns
  <1>3. a.list \in Seq(Block) /\ (a.ok => a.addr \in Nat)
    BY <1>1, <1>2, VAllocFacts DEF MemOK
  <1>4. ASSUME a.ok
        PROVE  /\ PtOK(s.pt) /\ EntriesApart(s.pt) /\ used \subseteq s.used /\ s.used \subseteq Pages
               /\ UserPages(s.pt) \subseteq UserPages(utable) \cup (s.used \ used)
    <2>1. /\ PtOK(utable) /\ EntriesApart(utable) /\ UserPages(utable) \subseteq used /\ used \subseteq Pages
      BY <1>1 DEF MemOK, PagesOK, Split
    <2>2. PICK addr \in Nat : addr = a.addr
      BY <1>3, <1>4
    <2>3. PICK v0 : v0 = addr \div PAGE_SIZE
      OBVIOUS
    <2>4. AllocOK(utable, used, addr, n, AllocLoop([used |-> used, pt |-> utable, off |-> 0, addr |-> addr, state |-> "ok"], n))
      BY <1>2, <2>1, <2>3, AllocLoopFacts
    <2>5. AllocOK(utable, used, addr, n, s)
      BY <2>2, <2>4
    <2> HIDE DEF s
    <2> QED
      BY <2>5 DEF AllocOK
  <1>5. a.ok => g \in Region
    BY <1>2, <1>3 DEF Region
  <1> HIDE DEF a, s, g
  <1>6. MemOK'
    BY <1>1, <1>3, <1>4, <1>10 DEF MemOK
  <1>7. PagesOK'
    <2>1. RootPages' = RootPages /\ BufferPages' = BufferPages /\ JobPages' = JobPages
      BY <1>10 DEF RootPages, BufferPages, JobPages
    <2>2. CASE UNCHANGED <<used, utable>>
      BY <1>1, <1>10, <2>1, <2>2 DEF PagesOK
    <2>3. CASE a.ok /\ used' = s.used /\ utable' = s.pt
      <3>1. UserPages(s.pt) \subseteq s.used
        BY <1>1, <1>4, <2>3 DEF PagesOK, Split
      <3> QED
        BY <1>1, <1>4, <1>10, <2>1, <2>3, <3>1 DEF PagesOK, Split
    <2> QED
      BY <1>10, <2>2, <2>3
  <1>8. ProcOK'
    BY <1>1, <1>5, <1>10 DEF ProcOK
  <1>9. KernelOK'
    BY <1>1, <1>10 DEF KernelOK
  <1>11. JobOK'
    BY <1>1, <1>10 DEF JobOK
  <1> QED
    BY <1>6, <1>7, <1>8, <1>9, <1>11 DEF PhysInv

\* The kernel's memory as the operations on a buffer take it.
LEMMA KMemFacts ==
  ASSUME MemOK, PagesOK
  PROVE  /\ KMemOK(KMem) /\ KMem.used = used /\ KMem.ktable = ktable /\ KMem.kfree = kfree /\ KMem.state = "ok"
  <1>1. KMem.used = used /\ KMem.ktable = ktable /\ KMem.kfree = kfree /\ KMem.state = "ok"
    BY DEF KMem
  <1>2. /\ used \subseteq Pages /\ PtOK(ktable) /\ TablesApart(ktable) /\ TablePages(ktable) \subseteq used
        /\ kfree \in Seq(Block)
    BY DEF MemOK, PagesOK, Split
  <1>3. KMem = [used |-> KMem.used, ktable |-> KMem.ktable, kfree |-> KMem.kfree, state |-> KMem.state,
                base |-> KMem.base, addr |-> KMem.addr] /\ KMem.base \in Nat /\ KMem.addr \in Nat
    BY DEF KMem
  <1> QED
    BY <1>1, <1>2, <1>3 DEF KMemOK

\* A kernel buffer takes free pages only.
LEMMA AllocBufferPhys ==
  ASSUME PhysInv, NEW n \in Sizes, AllocBuffer(n)
  PROVE  PhysInv'
  <1>1. MemOK /\ JobOK /\ ProcOK /\ KernelOK /\ PagesOK
    BY DEF PhysInv
  <1>2. n \in Nat \ {0}
    BY AddressSpaceAssumption
  <1> DEFINE m == BufferAlloc(KMem, n)
             b == [base |-> m.base, addr |-> m.addr, pages |-> n]
  <1>10. /\ job = Idle /\ buffers = {}
         /\ used' = m.used /\ ktable' = m.ktable /\ kfree' = m.kfree
         /\ kernel' \in {kernel, "panicked"}
         /\ buffers' = IF m.state = "ok" THEN {b} ELSE {}
         /\ UNCHANGED <<root, utable, ufree, locked, nextId, queues, regions, job>>
    BY DEF AllocBuffer, proc
  <1>3. Buffered(KMem, m, n)
    BY <1>1, <1>2, KMemFacts, BufferAllocFacts
  <1>4. b.base = m.base /\ b.addr = m.addr /\ b.pages = n /\ (m.base \in Nat /\ m.addr \in Nat => b \in Buffer)
    BY <1>2 DEF Buffer
  <1> HIDE DEF m, b
  <1>5. KMem.used = used /\ KMem.ktable = ktable
    BY DEF KMem
  <1>6. KMemOK(m) /\ used \subseteq m.used /\ TablePages(m.ktable) \subseteq TablePages(ktable) \cup (m.used \ used)
    BY <1>3, <1>5 DEF Buffered
  <1>7. m.used \subseteq Pages /\ PtOK(m.ktable) /\ TablesApart(m.ktable) /\ m.kfree \in Seq(Block) /\ m.base \in Nat /\ m.addr \in Nat
        /\ TablePages(m.ktable) \subseteq m.used
    BY <1>6 DEF KMemOK
  <1>8. MemOK'
    BY <1>1, <1>7, <1>10 DEF MemOK
  <1>9. PagesOK'
    <2>1. RootPages' = RootPages /\ JobPages' = JobPages
      BY <1>10 DEF RootPages, JobPages
    <2>2. CASE m.state # "ok"
      <3>1. BufferPages' = {}
        BY <1>10, <2>2 DEF BufferPages
      <3> QED
        BY <1>1, <1>6, <1>7, <1>10, <2>1, <3>1 DEF PagesOK, Split
    <2>3. CASE m.state = "ok"
      <3>1. BufferPages' = PagesFrom(m.base, n)
        BY <1>4, <1>10, <2>3 DEF BufferPages
      <3>2. /\ PagesFrom(m.base, n) \subseteq m.used \ used
            /\ TablePages(m.ktable) = TablePages(ktable) \cup ((m.used \ used) \ PagesFrom(m.base, n))
        BY <1>3, <1>5, <2>3 DEF Buffered
      <3> QED
        BY <1>1, <1>6, <1>7, <1>10, <2>1, <3>1, <3>2 DEF PagesOK, Split
    <2> QED
      BY <2>2, <2>3
  <1>11. ProcOK'
    BY <1>1, <1>10 DEF ProcOK
  <1>12. KernelOK'
    BY <1>1, <1>4, <1>7, <1>10 DEF KernelOK
  <1>13. JobOK'
    BY <1>1, <1>10 DEF JobOK
  <1> QED
    BY <1>8, <1>9, <1>11, <1>12, <1>13 DEF PhysInv

\* A kernel buffer is dropped.
LEMMA DropBufferPhys ==
  ASSUME PhysInv, NEW b \in buffers, DropBuffer(b)
  PROVE  PhysInv'
  <1>1. MemOK /\ JobOK /\ ProcOK /\ KernelOK /\ PagesOK
    BY DEF PhysInv
  <1>2. b.addr \in Nat /\ b.pages \in Nat \ {0} /\ b.base \in Nat
    BY <1>1 DEF KernelOK, Buffer
  <1> DEFINE m == BufferDrop(KMem, b)
  <1>10. /\ used' = m.used /\ ktable' = m.ktable /\ kfree' = m.kfree /\ buffers' = buffers \ {b}
         /\ UNCHANGED <<root, utable, ufree, locked, nextId, queues, regions, job, kernel>>
    BY DEF DropBuffer, proc
  <1>3. BufferPages = PagesFrom(b.base, b.pages) /\ BufferPages' = {}
    <2>1. buffers = {b} /\ buffers' = {}
      BY <1>1, <1>10 DEF KernelOK
    <2> QED
      BY <2>1 DEF BufferPages
  <1>4. KMem.used = used /\ KMem.ktable = ktable /\ KMemOK(KMem)
    BY <1>1, KMemFacts
  <1>5. PagesFrom(b.base, b.pages) \cap TablePages(KMem.ktable) = {}
    BY <1>1, <1>3, <1>4 DEF PagesOK, Split
  <1>6. KMemOK(m) /\ m.used = KMem.used \ PagesFrom(b.base, b.pages) /\ TablePages(m.ktable) = TablePages(KMem.ktable)
    BY <1>2, <1>4, <1>5, BufferDropFacts
  <1> HIDE DEF m
  <1>7. m.used \subseteq Pages /\ PtOK(m.ktable) /\ TablesApart(m.ktable) /\ m.kfree \in Seq(Block)
    BY <1>6 DEF KMemOK
  <1>8. MemOK'
    BY <1>1, <1>7, <1>10 DEF MemOK
  <1>9. PagesOK'
    <2>1. RootPages' = RootPages /\ JobPages' = JobPages
      BY <1>10 DEF RootPages, JobPages
    <2> QED
      BY <1>1, <1>3, <1>4, <1>6, <1>7, <1>10, <2>1 DEF PagesOK, Split
  <1>11. ProcOK'
    BY <1>1, <1>10 DEF ProcOK
  <1>12. KernelOK'
    BY <1>1, <1>10 DEF KernelOK
  <1>13. JobOK'
    BY <1>1, <1>10 DEF JobOK
  <1> QED
    BY <1>8, <1>9, <1>11, <1>12, <1>13 DEF PhysInv

\* What SpawnProcess does, in terms of Spawn.
LEMMA SpawnEffect ==
  ASSUME SpawnProcess
  PROVE  /\ job = Idle /\ root = -1
         /\ \E end : /\ end = Spawn(KMem)
                     /\ used' = end.mem.used /\ ktable' = end.mem.ktable /\ kfree' = end.mem.kfree
                     /\ root' = end.root /\ utable' = end.pt /\ ufree' = end.list
                     /\ nextId' = IF end.ok THEN 1 ELSE 0
                     /\ failed' = (failed \/ ~end.ok \/ SegmentsOverlap)
                     /\ kernel' = IF end.state = "panic" THEN "panicked" ELSE kernel
         /\ UNCHANGED <<locked, queues, regions, buffers, job>>
  BY DEF SpawnProcess, Spawn

\* A process starts from nothing else than the pages that were free.
LEMMA SpawnProcessPhys ==
  ASSUME PhysInv, SpawnProcess
  PROVE  PhysInv'
  <1>1. MemOK /\ JobOK /\ ProcOK /\ KernelOK /\ PagesOK
    BY DEF PhysInv
  <1>2. PICK end : /\ end = Spawn(KMem)
                   /\ used' = end.mem.used /\ ktable' = end.mem.ktable /\ kfree' = end.mem.kfree
                   /\ root' = end.root /\ utable' = end.pt /\ ufree' = end.list
                   /\ nextId' = IF end.ok THEN 1 ELSE 0
                   /\ kernel' = IF end.state = "panic" THEN "panicked" ELSE kernel
    BY SpawnEffect
  <1>3. job = Idle /\ root = -1 /\ UNCHANGED <<locked, queues, regions, buffers, job>>
    BY SpawnEffect
  <1>4. KMemOK(KMem) /\ KMem.used = used /\ KMem.ktable = ktable
    BY <1>1, KMemFacts
  <1>5. Spawned(KMem, end)
    BY <1>2, <1>4, SpawnFacts
  <1>6. KMemOK(end.mem) /\ used \subseteq end.mem.used /\ TablePages(end.mem.ktable) \subseteq TablePages(ktable) \cup (end.mem.used \ used)
    BY <1>4, <1>5 DEF Spawned
  <1>7. /\ end.mem.used \subseteq Pages /\ PtOK(end.mem.ktable) /\ TablesApart(end.mem.ktable) /\ end.mem.kfree \in Seq(Block)
        /\ TablePages(end.mem.ktable) \subseteq end.mem.used
    BY <1>6 DEF KMemOK
  <1>8. /\ ~end.ok => end.root = -1 /\ end.pt = NoEntries /\ end.list = <<>>
        /\ end.ok => /\ end.root \in Pages /\ end.root \in end.mem.used \ used
                     /\ end.root \notin TablePages(end.mem.ktable) /\ end.root \notin UserPages(end.pt)
                     /\ PtOK(end.pt) /\ EntriesApart(end.pt) /\ end.list \in Seq(Block)
                     /\ UserPages(end.pt) \subseteq end.mem.used \ used
                     /\ UserPages(end.pt) \cap TablePages(end.mem.ktable) = {}
    BY <1>4, <1>5 DEF Spawned
  <1>9. PtOK(end.pt) /\ EntriesApart(end.pt) /\ end.list \in Seq(Block) /\ end.root \in Pages \cup {-1}
    <2>1. <<>> \in Seq(Block)
      OBVIOUS
    <2> QED
      BY <1>8, <2>1, NoEntriesFacts
  <1>20. -1 \notin Pages
    BY PhysicalMemoryAssumption DEF Pages
  <1>10. MemOK'
    BY <1>1, <1>2, <1>7, <1>9 DEF MemOK
  <1>11. PagesOK'
    <2>1. BufferPages' = BufferPages /\ JobPages' = {} /\ JobPages = {} /\ RootPages = {}
      BY <1>3 DEF BufferPages, JobPages, RootPages, Idle
    <2>2. Split(used, InitialUsed, {}, {}, UserPages(utable), TablePages(ktable), BufferPages)
      BY <1>1, <2>1 DEF PagesOK
    <2>3. CASE ~end.ok
      <3>1. RootPages' = {} /\ UserPages(utable') = {}
        BY <1>2, <1>8, <2>3, NoEntriesFacts DEF RootPages
      <3>2. Split(used', InitialUsed, {}, {}, {}, TablePages(ktable'), BufferPages)
        BY <1>2, <1>6, <1>7, <2>2 DEF Split
      <3> QED
        BY <1>2, <1>7, <1>9, <2>1, <3>1, <3>2 DEF PagesOK
    <2>4. CASE end.ok
      <3>1. RootPages' = {end.root}
        BY <1>2, <1>8, <1>20, <2>4 DEF RootPages
      <3>2. Split(used', InitialUsed, {end.root}, {}, UserPages(utable'), TablePages(ktable'), BufferPages)
        BY <1>2, <1>6, <1>7, <1>8, <2>2, <2>4 DEF Split
      <3> QED
        BY <1>2, <1>7, <1>9, <2>1, <3>1, <3>2 DEF PagesOK
    <2> QED
      BY <2>3, <2>4
  <1>12. ProcOK'
    <2>1. nextId' \in 0..2 ^ IdBits - 1
      <3>1. PICK w \in Nat \ {0, 1} : w = 2 ^ IdBits
        BY AddressSpaceAssumption
      <3> QED
        BY <1>2, <3>1
    <2>2. root' = -1 => ~end.ok
      BY <1>2, <1>8, <1>20
    <2>3. root' = -1 => utable' = NoEntries /\ ufree' = <<>> /\ nextId' = 0
      BY <1>2, <1>8, <2>2
    <2>4. queues' = {} /\ regions' = {} /\ job' = Idle
      BY <1>1, <1>3 DEF ProcOK
    <2> QED
      BY <1>2, <1>9, <2>1, <2>3, <2>4, FS_EmptySet DEF ProcOK
  <1>13. KernelOK'
    BY <1>1, <1>2, <1>3 DEF KernelOK
  <1>14. JobOK'
    BY <1>1, <1>3 DEF JobOK
  <1> QED
    BY <1>10, <1>11, <1>12, <1>13, <1>14 DEF PhysInv

\* A process is dropped: its pages, tables and top table are free.
LEMMA DropProcessPhys ==
  ASSUME PhysInv, DropProcess
  PROVE  PhysInv'
  <1>1. MemOK /\ JobOK /\ ProcOK /\ KernelOK /\ PagesOK
    BY DEF PhysInv
  <1>2. /\ job = Idle
        /\ kfree' = FoldSet(LAMBDA q, list : VFree(list, q.kaddr, q.pages), kfree, queues)
        /\ used' = used \ (MappedPages(utable) \cup TablePages(utable) \cup {root})
        /\ root' = -1 /\ utable' = NoEntries /\ ufree' = <<>> /\ nextId' = 0 /\ queues' = {} /\ regions' = {}
        /\ UNCHANGED <<ktable, locked, buffers, job, kernel, failed>>
    BY DEF DropProcess
  <1>3. kfree' \in Seq(Block)
    <2>1. kfree \in Seq(Block) /\ IsFiniteSet(queues) /\ queues \subseteq Queue
      BY <1>1 DEF MemOK, ProcOK
    <2>2. FoldSet(LAMBDA q, l : VFree(l, q.kaddr, q.pages), kfree, queues) \in Seq(Block)
      BY <2>1, GiveBackFacts
    <2> QED
      BY <1>2, <2>2
  <1>4. used' = used \ (UserPages(utable) \cup {root})
    BY <1>1, <1>2, DroppedPages DEF MemOK
  <1>5. MemOK'
    <2>1. <<>> \in Seq(Block)
      OBVIOUS
    <2> QED
      BY <1>1, <1>2, <1>3, <1>4, <2>1, NoEntriesFacts DEF MemOK
  <1>6. PagesOK'
    <2>1. BufferPages' = BufferPages /\ JobPages' = JobPages /\ RootPages' = {} /\ UserPages(utable') = {} /\ EntriesApart(utable')
      BY <1>2, NoEntriesFacts DEF BufferPages, JobPages, RootPages
    <2>2. used \ (UserPages(utable) \cup RootPages) \subseteq used'
      <3>1. -1 \notin used
        BY <1>1, PhysicalMemoryAssumption DEF MemOK, Pages
      <3> QED
        BY <1>4, <3>1 DEF RootPages
    <2> QED
      BY <1>1, <1>2, <2>1, <2>2 DEF PagesOK, Split
  <1>7. ProcOK'
    <2>1. 0 \in 0..2 ^ IdBits - 1
      <3>1. PICK w \in Nat \ {0, 1} : w = 2 ^ IdBits
        BY AddressSpaceAssumption
      <3> QED
        BY <3>1
    <2> QED
      BY <1>2, <2>1, FS_EmptySet DEF ProcOK
  <1>8. KernelOK'
    BY <1>1, <1>2 DEF KernelOK
  <1>9. JobOK'
    BY <1>1, <1>2 DEF JobOK
  <1> QED
    BY <1>5, <1>6, <1>7, <1>8, <1>9 DEF PhysInv

\* Nothing happens.
LEMMA StutterPhys ==
  ASSUME PhysInv, UNCHANGED vars
  PROVE  PhysInv'
  <1> USE DEF vars
  <1>1. MemOK /\ JobOK /\ ProcOK /\ KernelOK /\ PagesOK
    BY DEF PhysInv
  <1>2. MemOK'
    BY <1>1 DEF MemOK
  <1>3. JobOK'
    BY <1>1 DEF JobOK
  <1>4. ProcOK'
    BY <1>1 DEF ProcOK
  <1>5. KernelOK'
    BY <1>1 DEF KernelOK
  <1>6. PagesOK'
    <2>1. RootPages' = RootPages /\ BufferPages' = BufferPages /\ JobPages' = JobPages
      BY DEF RootPages, BufferPages, JobPages
    <2> QED
      BY <1>1, <2>1 DEF PagesOK
  <1> QED
    BY <1>2, <1>3, <1>4, <1>5, <1>6 DEF PhysInv

\* No step of a handler or of the executor breaks the invariant.
LEMMA NextPhys ==
  ASSUME PhysInv, [Next]_vars
  PROVE  PhysInv'
  <1>1. ASSUME NEW n \in Sizes, HeapAllocate(n) PROVE PhysInv'
    BY <1>1, HeapAllocatePhys
  <1>2. ASSUME NEW r \in regions, FreeRegion(r) PROVE PhysInv'
    BY <1>2, FreeRegionPhys
  <1>3. CASE SpawnProcess
    BY <1>3, SpawnProcessPhys
  <1>4. CASE DropProcess
    BY <1>4, DropProcessPhys
  <1>5. ASSUME NEW n \in Sizes, CreateCompletionQueue(n) PROVE PhysInv'
    <2>1. "recv" \in {"recv", "send"} /\ 0 \in Nat
      OBVIOUS
    <2> QED
      BY <1>5, <2>1, CreatePhys DEF CreateCompletionQueue
  <1>6. ASSUME NEW n \in Sizes, NEW q \in queues, CreateSubmissionQueue(n, q.id) PROVE PhysInv'
    <2>1. "send" \in {"recv", "send"} /\ q.id \in Nat
      BY DEF PhysInv, ProcOK, Queue
    <2> QED
      BY <1>6, <2>1, CreatePhys DEF CreateSubmissionQueue
  <1>7. ASSUME NEW n \in Sizes, AllocStack(n) PROVE PhysInv'
    BY <1>7, AllocStackPhys
  <1>8. ASSUME NEW n \in Sizes, AllocBuffer(n) PROVE PhysInv'
    BY <1>8, AllocBufferPhys
  <1>9. ASSUME NEW q \in queues, DestroyQueue(q) PROVE PhysInv'
    BY <1>9, DestroyQueuePhys
  <1>10. ASSUME NEW b \in buffers, DropBuffer(b) PROVE PhysInv'
    BY <1>10, DropBufferPhys
  <1>11. CASE AllocStep
    BY <1>11, TakeLockPhys, AllocUserAddressPhys, AllocKernelAddressPhys, AllocPagesPhys, MapUserPhys, MapKernelPhys,
       AllocDonePhys DEF AllocStep
  <1>12. CASE DestroyStep
    BY <1>12, DestroyUnmapPhys, DestroyFreeAddressPhys, DestroyKernelUnmapPhys DEF DestroyStep
  <1>13. CASE UNCHANGED vars
    BY <1>13, StutterPhys
  <1>14. CASE Handler
    BY <1>1, <1>2, <1>14 DEF Handler
  <1>15. CASE StartJob
    BY <1>3, <1>4, <1>5, <1>6, <1>7, <1>8, <1>9, <1>10, <1>15 DEF StartJob
  <1> QED
    BY <1>11, <1>12, <1>13, <1>14, <1>15 DEF Next

\* The invariant of the physical pages.
LEMMA PhysAlways == Spec => []PhysInv
  <1>1. Init => PhysInv
    BY InitPhys
  <1>2. PhysInv /\ [Next]_vars => PhysInv'
    BY NextPhys
  <1> QED
    BY <1>1, <1>2, PTL DEF Spec

\* Type correctness: every entry of the kernel's and of the process's table
\* points to a page of memory and stands at one of its four levels, no table
\* hangs below the last, and the executor holds the process's lock in the two
\* steps of alloc_memory and destroy_queue that use the list it guards.
THEOREM TypeCorrect == Spec => []TypeOK
  <1>1. PhysInv => TypeOK
    <2> SUFFICES ASSUME PhysInv PROVE TypeOK
      OBVIOUS
    <2>1. MemOK /\ ProcOK /\ KernelOK
      BY DEF PhysInv
    <2>2. ASSUME NEW pt \in {ktable, utable}, NEW e \in DOMAIN pt
          PROVE  e[1] \in 0..3 /\ pt[e].page \in Pages /\ (pt[e].kind = "table" => e[1] < 3)
      <3>1. PtOK(pt)
        BY <2>1 DEF MemOK
      <3> QED
        BY <3>1 DEF PtOK, Entry
    <2> QED
      BY <2>1, <2>2 DEF TypeOK, MemOK, ProcOK, KernelOK
  <1> QED
    BY <1>1, PhysAlways, PTL

\* The six kinds of holder that the invariant tells apart.
LEMMA HolderKinds ==
  ASSUME PhysInv, NEW p, NEW h \in Holders(p)
  PROVE  \/ \E e \in DOMAIN utable : h = <<"user", e>> /\ p \in EntryPages(utable, e) /\ p \in UserPages(utable)
         \/ \E e \in DOMAIN ktable : h = <<"kernel", e>> /\ IsTable(ktable, e) /\ ktable[e].page = p /\ p \in TablePages(ktable)
         \/ \E b \in buffers : h = <<"buffer", b>> /\ p \in BufferPages
         \/ h = <<"other", "boot">> /\ p \in InitialUsed
         \/ h = <<"other", "root">> /\ p = root
         \/ h = <<"other", "job">> /\ p \in JobPages
  <1>1. CASE h \in {<<"user", e>> : e \in {x \in DOMAIN utable : p \in IF IsTable(utable, x) THEN {utable[x].page}
                                                         ELSE PagesOf(utable, x)}}
    BY <1>1 DEF EntryPages, UserPages
  <1>2. CASE h \in {<<"kernel", e>> : e \in {x \in DOMAIN ktable : IsTable(ktable, x) /\ ktable[x].page = p}}
    BY <1>2 DEF TablePages
  <1>3. CASE h \in {<<"buffer", b>> : b \in {x \in buffers : p \in PagesFrom(x.base, x.pages)}}
    BY <1>3 DEF BufferPages
  <1>4. CASE h \in {<<"other", o>> : o \in {x \in {"boot", "root", "job"} :
              \/ x = "boot" /\ p \in InitialUsed
              \/ x = "root" /\ p = root
              \/ x = "job" /\ job.at = "umap" /\ p \in PagesFrom(job.base, job.count)}}
    BY <1>4 DEF JobPages
  <1> QED
    BY <1>1, <1>2, <1>3, <1>4 DEF Holders

\* The parts of Split have no page in common and are in use.
LEMMA SplitParts ==
  ASSUME PhysInv, NEW p \in Pages
  PROVE  /\ (p = root) => p \in RootPages
         /\ p \in InitialUsed \/ p \in RootPages \/ p \in JobPages \/ p \in UserPages(utable)
            \/ p \in TablePages(ktable) \/ p \in BufferPages => p \in used
         /\ p \in InitialUsed => p \notin RootPages /\ p \notin JobPages /\ p \notin UserPages(utable)
                                 /\ p \notin TablePages(ktable) /\ p \notin BufferPages
         /\ p \in RootPages => p \notin JobPages /\ p \notin UserPages(utable)
                               /\ p \notin TablePages(ktable) /\ p \notin BufferPages
         /\ p \in JobPages => p \notin UserPages(utable) /\ p \notin TablePages(ktable) /\ p \notin BufferPages
         /\ p \in UserPages(utable) => p \notin TablePages(ktable) /\ p \notin BufferPages
         /\ p \in TablePages(ktable) => p \notin BufferPages
  <1>1. Split(used, InitialUsed, RootPages, JobPages, UserPages(utable), TablePages(ktable), BufferPages)
    BY DEF PhysInv, PagesOK
  <1>2. p # -1
    BY PhysicalMemoryAssumption DEF Pages
  <1>3. (p = root) => p \in RootPages
    BY <1>2 DEF RootPages
  <1> QED
    BY <1>1, <1>3 DEF Split

\* Two holders of a page are one.
LEMMA OneHolder ==
  ASSUME PhysInv, NEW p \in Pages, NEW h \in Holders(p), NEW g \in Holders(p)
  PROVE  h = g /\ p \in used
  <1>1. EntriesApart(utable) /\ TablesApart(ktable) /\ (\A b, c \in buffers : b = c)
    BY DEF PhysInv, PagesOK, KernelOK
  <1>2. ASSUME NEW e \in DOMAIN utable, NEW f \in DOMAIN utable, p \in EntryPages(utable, e), p \in EntryPages(utable, f)
        PROVE  e = f
    BY <1>1, <1>2 DEF EntriesApart
  <1>3. ASSUME NEW e \in DOMAIN ktable, NEW f \in DOMAIN ktable, IsTable(ktable, e), IsTable(ktable, f),
               ktable[e].page = p, ktable[f].page = p
        PROVE  e = f
    BY <1>1, <1>3 DEF TablesApart
  <1> DEFINE Kind(x) ==
         \/ \E e \in DOMAIN utable : x = <<"user", e>> /\ p \in EntryPages(utable, e) /\ p \in UserPages(utable)
         \/ \E e \in DOMAIN ktable : x = <<"kernel", e>> /\ IsTable(ktable, e) /\ ktable[e].page = p /\ p \in TablePages(ktable)
         \/ \E b \in buffers : x = <<"buffer", b>> /\ p \in BufferPages
         \/ x = <<"other", "boot">> /\ p \in InitialUsed
         \/ x = <<"other", "root">> /\ p = root
         \/ x = <<"other", "job">> /\ p \in JobPages
  <1>4. Kind(h) /\ Kind(g)
    <2>1. Kind(h)
      BY HolderKinds
    <2>2. Kind(g)
      BY HolderKinds
    <2> QED
      BY <2>1, <2>2
  <1> QED
    BY <1>1, <1>2, <1>3, <1>4, SplitParts

\* A page has at most one holder, and is in use while it has one: no order of
\* the handlers and of the executor's steps hands a page out twice or frees a
\* page that a table, a buffer or a mapping of the process uses.
THEOREM PageHolders == Spec => []OnePageOneHolder
  <1>1. PhysInv => OnePageOneHolder
    <2> SUFFICES ASSUME PhysInv, NEW p \in Pages
                 PROVE  Cardinality(Holders(p)) <= 1 /\ (Holders(p) # {} => p \in used)
      BY DEF OnePageOneHolder
    <2>1. CASE Holders(p) = {}
      BY <2>1, FS_EmptySet
    <2>2. CASE Holders(p) # {}
      <3>1. PICK h : h \in Holders(p)
        BY <2>2
      <3>2. p \in used /\ Holders(p) = {h}
        BY <3>1, OneHolder
      <3>3. Cardinality({h}) = 1
        BY FS_Singleton
      <3> QED
        BY <3>2, <3>3
    <2> QED
      BY <2>1, <2>2
  <1> QED
    BY <1>1, PhysAlways, PTL

-----------------------------------------------------------------------------
(* The steps keep the virtual ranges apart. *)

\* Fewer ranges are apart when more are.
LEMMA SideFewer ==
  ASSUME NEW list, NEW H, NEW G, Side(list, H), G \subseteq H
  PROVE  Side(list, G)
  BY SharesFewer DEF Side

\* A range that alloc hands out joins the others.
LEMMA SharesTake ==
  ASSUME NEW list, NEW H, Shares(list, H), NEW n \in Nat \ {0}, VAlloc(list, n).ok,
         NEW h, h.addr = VAlloc(list, n).addr, h.pages = n, NEW G, G \subseteq H \cup {h}
  PROVE  Shares(VAlloc(list, n).list, G)
  <1> DEFINE r == VAlloc(list, n)
  <1>1. list \in Seq(Block)
    BY DEF Shares
  <1>2. \A I, i : r.ok /\ Shares(list, I) /\ i.addr = r.addr /\ i.pages = n => Shares(r.list, I \cup {i})
    BY <1>1, VAllocFacts
  <1>3. Shares(r.list, H \cup {h})
    BY <1>2
  <1> QED
    BY <1>3, SharesFewer

\* A range that is freed joins the list.
LEMMA SharesGive ==
  ASSUME NEW list, NEW H, Shares(list, H), NEW h \in H, NEW G, G \subseteq H \ {h}
  PROVE  Shares(VFree(list, h.addr, h.pages), G)
  <1>1. list \in Seq(Block) /\ h.addr \in Nat /\ h.pages \in Nat \ {0}
    BY DEF Shares
  <1>2. PICK a \in Nat, n \in Nat \ {0} : a = h.addr /\ n = h.pages
    BY <1>1
  <1>3. \A I : \A i \in I : i.addr = a /\ i.pages = n /\ Shares(list, I) => Shares(VFree(list, a, n), I \ {i})
    BY <1>1, VFreeFacts
  <1>4. Shares(VFree(list, a, n), H \ {h})
    BY <1>2, <1>3
  <1> QED
    BY <1>2, <1>4, SharesFewer

\* A range passes from one holder to another.
LEMMA SharesRename ==
  ASSUME NEW list, NEW H, Shares(list, H), NEW h \in H, NEW g, g.addr = h.addr, g.pages = h.pages,
         NEW G, G \subseteq (H \ {h}) \cup {g}
  PROVE  Shares(list, G)
  BY DEF Shares

\* The same in the kernel, where everything stays aligned: a range handed out,
LEMMA SideAlloc ==
  ASSUME NEW list, NEW H, Side(list, H), NEW n \in Nat \ {0}, VAlloc(list, n).ok,
         NEW h, h.addr = VAlloc(list, n).addr, h.pages = n, NEW G, G \subseteq H \cup {h}
  PROVE  Side(VAlloc(list, n).list, G)
  <1> DEFINE r == VAlloc(list, n)
  <1>1. list \in Seq(Block) /\ Shares(list, H) /\ AlignedList(list) /\ \A g \in H : Aligned(g.addr)
    BY DEF Side, Shares
  <1>3. Shares(r.list, H \cup {h})
    BY <1>1, SharesTake
  <1>4. AlignedList(r.list) /\ Aligned(h.addr)
    BY <1>1, VAllocAligned
  <1>5. Side(r.list, H \cup {h})
    BY <1>1, <1>3, <1>4 DEF Side
  <1> QED
    BY <1>5, SideFewer

\* a range freed,
LEMMA SideFree ==
  ASSUME NEW list, NEW H, Side(list, H), NEW h \in H, NEW G, G \subseteq H \ {h}
  PROVE  Side(VFree(list, h.addr, h.pages), G)
  <1>1. /\ list \in Seq(Block) /\ Shares(list, H) /\ AlignedList(list) /\ \A g \in H : Aligned(g.addr)
        /\ h.addr \in Nat /\ h.pages \in Nat \ {0}
    BY DEF Side, Shares
  <1>2. PICK a \in Nat, n \in Nat \ {0} : a = h.addr /\ n = h.pages
    BY <1>1
  <1>4. Shares(VFree(list, a, n), H \ {h})
    BY <1>1, <1>2, SharesGive
  <1>5. AlignedList(VFree(list, a, n))
    BY <1>1, <1>2, VFreeAligned
  <1>6. Side(VFree(list, a, n), H \ {h})
    BY <1>1, <1>4, <1>5 DEF Side
  <1> QED
    BY <1>2, <1>6, SideFewer

\* and a range passed on.
LEMMA SideRename ==
  ASSUME NEW list, NEW H, Side(list, H), NEW h \in H, NEW g, g.addr = h.addr, g.pages = h.pages,
         NEW G, G \subseteq (H \ {h}) \cup {g}
  PROVE  Side(list, G)
  BY DEF Side, Shares

\* Steps that leave the free lists.
LEMMA SideKept ==
  ASSUME ShareInv, UNCHANGED <<kfree, ufree>>, KHeld' \subseteq KHeld, UHeld' \subseteq UHeld
  PROVE  ShareInv'
  <1>1. Side(kfree, KHeld') /\ Shares(ufree, UHeld')
    BY SideFewer, SharesFewer DEF ShareInv
  <1> QED
    BY <1>1 DEF ShareInv

\* The ranges of a step's job: when the executor has them.
LEMMA HeldParts ==
  /\ \A h : h \in KHeld <=> \/ \E b \in buffers : h = Range1("buffer", b)
                            \/ \E q \in queues : h = KRange(q)
                            \/ JobHoldsK /\ h = JobKRange
  /\ \A h : h \in UHeld <=> \/ \E r \in regions : h = Range1("region", r)
                            \/ \E q \in queues : h = URange(q)
                            \/ JobHoldsU /\ h = JobURange
  BY DEF KHeld, UHeld

\* Ranges of different owners are different.
LEMMA OwnersDiffer ==
  /\ \A b, c : Range1("buffer", b) = Range1("buffer", c) => b = c
  /\ \A b, c : Range1("region", b) = Range1("region", c) => b = c
  /\ \A b, c : KRange(b) = KRange(c) => b = c
  /\ \A b, c : URange(b) = URange(c) => b = c
  /\ \A b, q : Range1("buffer", b) # KRange(q) /\ Range1("region", b) # URange(q) /\ Range1("buffer", b) # JobKRange
               /\ KRange(q) # JobKRange /\ URange(q) # JobURange /\ Range1("region", b) # JobURange
  <1> DEFINE Owner(h) == h.owner
  <1>1. /\ \A b : Owner(Range1("buffer", b)) = <<"buffer", b>> /\ Owner(Range1("region", b)) = <<"region", b>>
        /\ \A b : Owner(KRange(b)) = <<"queue", b>> /\ Owner(URange(b)) = <<"queue", b>>
        /\ Owner(JobKRange) = <<"job", 0>> /\ Owner(JobURange) = <<"job", 0>>
    BY DEF Range1, KRange, URange, JobKRange, JobURange
  <1>2. \A a, b, c, d : <<a, b>> = <<c, d>> => a = c /\ b = d
    OBVIOUS
  <1> HIDE DEF Owner
  <1> QED
    BY <1>1, <1>2

\* The ranges in use after a step.
LEMMA HeldPartsNext ==
  /\ \A h : h \in KHeld' <=> \/ \E b \in buffers' : h = Range1("buffer", b)
                             \/ \E q \in queues' : h = KRange(q)
                             \/ JobHoldsK' /\ h = JobKRange'
  /\ \A h : h \in UHeld' <=> \/ \E r \in regions' : h = Range1("region", r)
                             \/ \E q \in queues' : h = URange(q)
                             \/ JobHoldsU' /\ h = JobURange'
  BY DEF KHeld, UHeld

\* What the executor holds at each step.
LEMMA HeldAt ==
  /\ job.at \in {"idle", "lock", "uaddr"} => ~JobHoldsK /\ ~JobHoldsU
  /\ job.at = "kaddr" => ~JobHoldsK /\ JobHoldsU
  /\ job.at \in {"pages", "umap", "kmap"} => JobHoldsU /\ (JobHoldsK <=> job.kind # "stack")
  /\ job.at \in {"unmap", "lock_free", "vfree"} => JobHoldsK /\ JobHoldsU
  /\ job.at = "kunmap" => JobHoldsK /\ ~JobHoldsU
  BY DEF JobHoldsK, JobHoldsU

\* The ranges that the job holds after a step.
LEMMA HeldAtNext ==
  /\ job'.at \in {"idle", "lock", "uaddr"} => ~JobHoldsK' /\ ~JobHoldsU'
  /\ job'.at = "kaddr" => ~JobHoldsK' /\ JobHoldsU'
  /\ job'.at \in {"pages", "umap", "kmap"} => JobHoldsU' /\ (JobHoldsK' <=> job'.kind # "stack")
  /\ job'.at \in {"unmap", "lock_free", "vfree"} => JobHoldsK' /\ JobHoldsU'
  /\ job'.at = "kunmap" => JobHoldsK' /\ ~JobHoldsU'
  BY DEF JobHoldsK, JobHoldsU

\* The ranges of a job whose addresses stay are the same.
LEMMA JobRanges ==
  /\ job'.kaddr = job.kaddr /\ job'.pages = job.pages => JobKRange' = JobKRange
  /\ job'.uaddr = job.uaddr /\ job'.pages = job.pages => JobURange' = JobURange
  BY DEF JobKRange, JobURange

\* The executor holds what it held, or less, and nothing else changes.
LEMMA HeldLess ==
  ASSUME UNCHANGED <<root, queues, regions, buffers>>,
         JobHoldsK' => JobHoldsK /\ job'.kaddr = job.kaddr /\ job'.pages = job.pages,
         JobHoldsU' => JobHoldsU /\ job'.uaddr = job.uaddr /\ job'.pages = job.pages
  PROVE  KHeld' \subseteq KHeld /\ UHeld' \subseteq UHeld
  BY HeldParts, HeldPartsNext, JobRanges

\* Steps of the executor that touch no list.
LEMMA StepShares ==
  ASSUME ShareInv, UNCHANGED <<root, queues, regions, buffers, kfree, ufree>>,
         JobHoldsK' => JobHoldsK /\ job'.kaddr = job.kaddr /\ job'.pages = job.pages,
         JobHoldsU' => JobHoldsU /\ job'.uaddr = job.uaddr /\ job'.pages = job.pages
  PROVE  ShareInv'
  BY HeldLess, SideKept

\* The steps of the executor that take no address and give none back.
LEMMA QuietShares ==
  ASSUME PhysInv, PhysInv', ShareInv,
         \/ \E n \in Sizes : CreateCompletionQueue(n) \/ AllocStack(n) \/ \E a \in Nat : CreateSubmissionQueue(n, a)
         \/ TakeLock \/ AllocPages \/ MapUser \/ MapKernel \/ DestroyUnmap \/ DestroyKernelUnmap \/ UNCHANGED vars
  PROVE  ShareInv'
  <1>1. JobOK
    BY DEF PhysInv
  <1>2. CASE \E n \in Sizes : CreateCompletionQueue(n) \/ AllocStack(n) \/ \E a \in Nat : CreateSubmissionQueue(n, a)
    <2>1. UNCHANGED <<root, queues, regions, buffers, kfree, ufree>>
      BY <1>2 DEF CreateCompletionQueue, AllocStack, CreateSubmissionQueue, kmem, proc
    <2>2. job'.at \in {"idle", "lock"}
      BY <1>2 DEF CreateCompletionQueue, AllocStack, CreateSubmissionQueue, BeginAlloc, Idle
    <2>3. ~JobHoldsK' /\ ~JobHoldsU'
      BY <2>2, HeldAtNext
    <2> QED
      BY <2>1, <2>3, StepShares
  <1>3. CASE TakeLock
    <2>1. UNCHANGED <<root, queues, regions, buffers, kfree, ufree>>
      BY <1>3 DEF TakeLock, kmem
    <2>2. CASE job.at = "lock"
      <3>1. IsAllocJob(job) /\ job' = [job EXCEPT !.at = "uaddr"]
        BY <1>1, <1>3, <2>2, JobCases DEF JobOK, TakeLock, Goto
      <3>2. job'.at = "uaddr"
        BY <3>1, JobMoves
      <3>3. ~JobHoldsK' /\ ~JobHoldsU'
        BY <3>2, HeldAtNext
      <3> QED
        BY <2>1, <3>3, StepShares
    <2>3. CASE job.at = "lock_free"
      <3>1. job \in DestroyJob /\ job' = [job EXCEPT !.at = "vfree"]
        BY <1>1, <1>3, <2>3, JobCases DEF JobOK, TakeLock, Goto
      <3>2. job'.at = "vfree" /\ job'.uaddr = job.uaddr /\ job'.kaddr = job.kaddr /\ job'.pages = job.pages
        BY <3>1 DEF DestroyJob
      <3> QED
        BY <2>1, <2>3, <3>2, HeldAt, HeldAtNext, StepShares
    <2> QED
      BY <1>3, <2>2, <2>3 DEF TakeLock
  <1>4. CASE AllocPages \/ MapUser \/ MapKernel
    <2>1. UNCHANGED <<root, queues, regions, buffers, kfree, ufree>>
      BY <1>4 DEF AllocPages, MapUser, MapKernel, proc
    <2>2. IsAllocJob(job) /\ job.at \in {"pages", "umap", "kmap"}
      BY <1>1, <1>4, JobCases DEF JobOK, AllocPages, MapUser, MapKernel
    <2>3. job' = Idle \/ (/\ job'.at \in {"pages", "umap", "kmap"} /\ job'.uaddr = job.uaddr /\ job'.kaddr = job.kaddr
                          /\ job'.pages = job.pages /\ job'.kind = job.kind)
      <3>1. /\ job = [at |-> job.at, kind |-> job.kind, id |-> job.id, assoc |-> job.assoc, pages |-> job.pages, off |-> job.off,
                      uaddr |-> job.uaddr, kaddr |-> job.kaddr, base |-> job.base, count |-> job.count]
        BY <2>2, AllocJobFacts
      <3>2. \/ job' = Idle
            \/ \E x, y : job' = [job EXCEPT !.at = "umap", !.base = x, !.count = y]
            \/ \E x : job' = [job EXCEPT !.at = "pages", !.off = x]
            \/ job' = [job EXCEPT !.at = "kmap"]
        BY <1>4 DEF AllocPages, MapUser, MapKernel, NextRound
      <3>3. CASE \E x, y : job' = [job EXCEPT !.at = "umap", !.base = x, !.count = y]
        BY <3>1, <3>3
      <3>4. CASE \E x : job' = [job EXCEPT !.at = "pages", !.off = x]
        BY <3>1, <3>4
      <3>5. CASE job' = [job EXCEPT !.at = "kmap"]
        BY <3>1, <3>5
      <3> QED
        BY <3>2, <3>3, <3>4, <3>5
    <2>4. CASE job' = Idle
      <3>1. job'.at = "idle"
        BY <2>4 DEF Idle
      <3> QED
        BY <2>1, <3>1, HeldAtNext, StepShares
    <2> QED
      BY <2>1, <2>2, <2>3, <2>4, HeldAt, HeldAtNext, StepShares
  <1>5. CASE DestroyUnmap
    <2>1. UNCHANGED <<root, queues, regions, buffers, kfree, ufree>> /\ job' = [job EXCEPT !.at = "lock_free"] /\ job.at = "unmap"
      BY <1>5 DEF DestroyUnmap, Goto
    <2>2. job \in DestroyJob
      BY <1>1, <2>1, JobCases DEF JobOK
    <2>3. job'.at = "lock_free" /\ job'.uaddr = job.uaddr /\ job'.kaddr = job.kaddr /\ job'.pages = job.pages
      BY <2>1, <2>2 DEF DestroyJob
    <2> QED
      BY <2>1, <2>3, HeldAt, HeldAtNext, StepShares
  <1>6. CASE DestroyKernelUnmap
    <2>1. UNCHANGED <<root, queues, regions, buffers, kfree, ufree>> /\ job'.at = "idle"
      BY <1>6 DEF DestroyKernelUnmap, proc, Idle
    <2> QED
      BY <2>1, HeldAtNext, StepShares
  <1>7. CASE UNCHANGED vars
    BY <1>7, StepShares DEF vars, JobHoldsK, JobHoldsU
  <1> QED
    BY <1>2, <1>3, <1>4, <1>5, <1>6, <1>7

\* Fields of the ranges.
LEMMA RangeFields ==
  /\ \A b : Range1("buffer", b).addr = b.addr /\ Range1("buffer", b).pages = b.pages
  /\ \A b : Range1("region", b).addr = b.addr /\ Range1("region", b).pages = b.pages
  /\ \A q : KRange(q).addr = q.kaddr /\ KRange(q).pages = q.pages /\ URange(q).addr = q.uaddr /\ URange(q).pages = q.pages
  /\ JobKRange.addr = job.kaddr /\ JobKRange.pages = job.pages /\ JobURange.addr = job.uaddr /\ JobURange.pages = job.pages
  BY DEF Range1, KRange, URange, JobKRange, JobURange

\* HeapAllocate: its range leaves the free list and becomes the region's.
LEMMA HeapAllocateShares ==
  ASSUME PhysInv, ShareInv, NEW n \in Sizes, HeapAllocate(n)
  PROVE  ShareInv'
  <1>1. n \in Nat \ {0}
    BY AddressSpaceAssumption
  <1> DEFINE a == VAlloc(ufree, n)
             g == [addr |-> a.addr, pages |-> n]
  <1>2. /\ \/ UNCHANGED <<ufree, regions>>
           \/ a.ok /\ ufree' = a.list /\ (regions' = regions \cup {g} \/ regions' = regions)
        /\ UNCHANGED <<kfree, root, queues, buffers, job>>
    BY DEF HeapAllocate
  <1>3. g.addr = a.addr /\ g.pages = n
    OBVIOUS
  <1> HIDE DEF g
  <1>4. UNCHANGED <<JobHoldsK, JobHoldsU, JobKRange, JobURange>>
    BY <1>2 DEF JobHoldsK, JobHoldsU, JobKRange, JobURange
  <1>5. KHeld' = KHeld /\ UHeld' \subseteq UHeld \cup {Range1("region", g)} /\ (regions' = regions => UHeld' \subseteq UHeld)
    <2>1. /\ regions' \subseteq regions \cup {g} /\ UNCHANGED <<root, queues, buffers>>
      BY <1>2
    <2>2. KHeld' = KHeld
      BY <1>4, <2>1, HeldParts, HeldPartsNext
    <2>3. UHeld' \subseteq UHeld \cup {Range1("region", g)}
      BY <1>4, <2>1, HeldParts, HeldPartsNext
    <2>4. regions' = regions => UHeld' \subseteq UHeld
      BY <1>4, <2>1, HeldParts, HeldPartsNext
    <2> QED
      BY <2>2, <2>3, <2>4
  <1>6. CASE UNCHANGED <<ufree, regions>>
    BY <1>2, <1>5, <1>6, SideKept
  <1>7. CASE a.ok /\ ufree' = a.list
    <2>1. Shares(a.list, UHeld')
      <3>1. Range1("region", g).addr = a.addr /\ Range1("region", g).pages = n
        BY <1>3, RangeFields
      <3>2. Shares(ufree, UHeld)
        BY DEF ShareInv
      <3> QED
        BY <1>1, <1>5, <1>7, <3>1, <3>2, SharesTake
    <2>2. Side(kfree, KHeld')
      BY <1>5 DEF ShareInv
    <2> QED
      BY <1>2, <1>7, <2>1, <2>2 DEF ShareInv
  <1> QED
    BY <1>2, <1>6, <1>7

\* HeapFree: the region's range goes back, or to nobody when the handler spins.
LEMMA FreeRegionShares ==
  ASSUME PhysInv, ShareInv, NEW r \in regions, FreeRegion(r)
  PROVE  ShareInv'
  <1>2. /\ ufree' = ufree \/ ufree' = VFree(ufree, r.addr, r.pages)
        /\ regions' = regions \ {r}
        /\ UNCHANGED <<kfree, root, queues, buffers, job>>
    BY DEF FreeRegion
  <1>4. UNCHANGED <<JobHoldsK, JobHoldsU, JobKRange, JobURange>>
    BY <1>2 DEF JobHoldsK, JobHoldsU, JobKRange, JobURange
  <1> DEFINE h == Range1("region", r)
  <1>3. h \in UHeld /\ h.addr = r.addr /\ h.pages = r.pages
    BY HeldParts, RangeFields
  <1>5. KHeld' = KHeld /\ UHeld' \subseteq UHeld \ {h}
    BY <1>2, <1>4, HeldParts, HeldPartsNext, OwnersDiffer
  <1> HIDE DEF h
  <1>6. CASE ufree' = ufree
    BY <1>2, <1>5, <1>6, SideKept
  <1>7. CASE ufree' = VFree(ufree, r.addr, r.pages)
    <2>1. Shares(VFree(ufree, h.addr, h.pages), UHeld')
      BY <1>3, <1>5, SharesGive DEF ShareInv
    <2> QED
      BY <1>2, <1>3, <1>5, <1>7, <2>1 DEF ShareInv
  <1> QED
    BY <1>2, <1>6, <1>7

\* alloc_memory holds the addresses it takes in the process.
LEMMA AllocUserAddressShares ==
  ASSUME PhysInv, ShareInv, AllocUserAddress
  PROVE  ShareInv'
  <1>1. IsAllocJob(job) /\ job.at = "uaddr"
    BY JobCases DEF PhysInv, JobOK, AllocUserAddress
  <1>2. job.pages \in Nat \ {0} /\ ufree \in Seq(Block)
    BY <1>1, AllocJobFacts DEF PhysInv, MemOK
  <1> DEFINE a == VAlloc(ufree, job.pages)
  <1>3. /\ ufree' = a.list
        /\ ~a.ok => job' = Idle
        /\ a.ok => job' = [job EXCEPT !.at = IF job.kind = "stack" THEN "pages" ELSE "kaddr", !.uaddr = a.addr]
        /\ UNCHANGED <<kfree, root, queues, regions, buffers>>
    BY DEF AllocUserAddress, kmem
  <1>4. (~a.ok => a.list = ufree) /\ (a.ok => a.addr \in Nat)
    BY <1>2, VAllocFacts
  <1>5. CASE ~a.ok
    <2>1. job'.at = "idle" /\ ufree' = ufree
      BY <1>3, <1>4, <1>5 DEF Idle
    <2> QED
      BY <1>3, <2>1, HeldAtNext, StepShares
  <1>6. CASE a.ok
    <2>1. Becomes(job, job', IF job.kind = "stack" THEN "pages" ELSE "kaddr", job.off, a.addr, job.kaddr, job.base, job.count)
      BY <1>1, <1>3, <1>4, <1>6, JobTakesUser
    <2>2. job'.uaddr = a.addr /\ job'.pages = job.pages /\ job'.kind = job.kind /\ job'.at = IF job.kind = "stack" THEN "pages" ELSE "kaddr"
      BY <2>1 DEF Becomes
    <2>3. ~JobHoldsK' /\ JobHoldsU'
      BY <2>2, HeldAtNext
    <2>4. JobURange'.addr = a.addr /\ JobURange'.pages = job.pages
      BY <2>2 DEF JobURange
    <2>5. KHeld' \subseteq KHeld /\ UHeld' \subseteq UHeld \cup {JobURange'}
      BY <1>3, <2>3, HeldParts, HeldPartsNext
    <2>6. Shares(ufree, UHeld) /\ Side(kfree, KHeld)
      BY DEF ShareInv
    <2>7. PICK h : h = JobURange'
      OBVIOUS
    <2>8. Shares(a.list, UHeld')
      BY <1>2, <1>6, <2>4, <2>5, <2>6, <2>7, SharesTake
    <2>9. Side(kfree, KHeld')
      BY <2>5, <2>6, SideFewer
    <2> QED
      BY <1>3, <2>8, <2>9 DEF ShareInv
  <1> QED
    BY <1>5, <1>6

\* alloc_memory holds the addresses it takes in the kernel.
LEMMA AllocKernelAddressShares ==
  ASSUME PhysInv, ShareInv, AllocKernelAddress
  PROVE  ShareInv'
  <1>1. IsAllocJob(job) /\ job.at = "kaddr"
    BY JobCases DEF PhysInv, JobOK, AllocKernelAddress
  <1>2. job.pages \in Nat \ {0} /\ kfree \in Seq(Block)
    BY <1>1, AllocJobFacts DEF PhysInv, MemOK
  <1> DEFINE a == VAlloc(kfree, job.pages)
  <1>3. /\ kfree' = a.list
        /\ ~a.ok => job' = Idle
        /\ a.ok => job' = [job EXCEPT !.at = "pages", !.kaddr = a.addr]
        /\ UNCHANGED <<ufree, root, queues, regions, buffers>>
    BY DEF AllocKernelAddress, proc
  <1>4. (~a.ok => a.list = kfree) /\ (a.ok => a.addr \in Nat)
    BY <1>2, VAllocFacts
  <1>5. CASE ~a.ok
    <2>1. job'.at = "idle" /\ kfree' = kfree
      BY <1>3, <1>4, <1>5 DEF Idle
    <2> QED
      BY <1>3, <2>1, HeldAtNext, StepShares
  <1>6. CASE a.ok
    <2>1. Becomes(job, job', "pages", job.off, job.uaddr, a.addr, job.base, job.count)
      BY <1>1, <1>3, <1>4, <1>6, JobTakesKernel
    <2>2. job'.kaddr = a.addr /\ job'.uaddr = job.uaddr /\ job'.pages = job.pages /\ job'.kind = job.kind /\ job'.at = "pages"
      BY <2>1 DEF Becomes
    <2>3. JobHoldsU /\ JobHoldsU' /\ JobURange' = JobURange
      BY <1>1, <2>2, HeldAt, HeldAtNext, JobRanges
    <2>4. JobKRange'.addr = a.addr /\ JobKRange'.pages = job.pages
      BY <2>2 DEF JobKRange
    <2>5. KHeld' \subseteq KHeld \cup {JobKRange'} /\ UHeld' \subseteq UHeld
      BY <1>3, <2>3, HeldParts, HeldPartsNext
    <2>6. Shares(ufree, UHeld) /\ Side(kfree, KHeld)
      BY DEF ShareInv
    <2>7. PICK h : h = JobKRange'
      OBVIOUS
    <2>8. Side(a.list, KHeld')
      BY <1>2, <1>6, <2>4, <2>5, <2>6, <2>7, SideAlloc
    <2>9. Shares(ufree, UHeld')
      BY <2>5, <2>6, SharesFewer
    <2> QED
      BY <1>3, <2>8, <2>9 DEF ShareInv
  <1> QED
    BY <1>5, <1>6

\* The ranges of the job become those of the queue or of the stack.
LEMMA AllocDoneShares ==
  ASSUME PhysInv, ShareInv, AllocDone
  PROVE  ShareInv'
  <1>1. IsAllocJob(job) /\ job.at = "pages"
    BY JobCases DEF PhysInv, JobOK, AllocDone
  <1> DEFINE q == [id |-> job.id, kind |-> job.kind, assoc |-> job.assoc,
                   uaddr |-> job.uaddr, kaddr |-> job.kaddr, pages |-> job.pages]
             g == [addr |-> job.uaddr, pages |-> job.pages]
  <1>2. /\ job'.at = "idle"
        /\ job.kind = "stack" => regions' = regions \cup {g} /\ queues' = queues
        /\ job.kind # "stack" => queues' = queues \cup {q} /\ regions' = regions
        /\ UNCHANGED <<kfree, root, ufree, buffers>>
    BY DEF AllocDone, kmem, Idle
  <1>3. /\ Range1("region", g).addr = JobURange.addr /\ Range1("region", g).pages = JobURange.pages
        /\ URange(q).addr = JobURange.addr /\ URange(q).pages = JobURange.pages
        /\ KRange(q).addr = JobKRange.addr /\ KRange(q).pages = JobKRange.pages
    BY RangeFields
  <1> HIDE DEF q, g
  <1>4. ~JobHoldsK' /\ ~JobHoldsU' /\ JobHoldsU /\ (JobHoldsK <=> job.kind # "stack")
    BY <1>1, <1>2, HeldAt, HeldAtNext
  <1>5. Shares(ufree, UHeld) /\ Side(kfree, KHeld) /\ JobURange \in UHeld /\ (JobHoldsK => JobKRange \in KHeld)
    BY <1>4, HeldParts DEF ShareInv
  <1>6. CASE job.kind = "stack"
    <2>1. KHeld' \subseteq KHeld /\ UHeld' \subseteq (UHeld \ {JobURange}) \cup {Range1("region", g)}
      BY <1>2, <1>4, <1>6, HeldParts, HeldPartsNext, OwnersDiffer
    <2>2. Shares(ufree, UHeld') /\ Side(kfree, KHeld')
      BY <1>3, <1>5, <2>1, SharesRename, SideFewer
    <2> QED
      BY <1>2, <2>2 DEF ShareInv
  <1>7. CASE job.kind # "stack"
    <2>1. /\ KHeld' \subseteq (KHeld \ {JobKRange}) \cup {KRange(q)}
          /\ UHeld' \subseteq (UHeld \ {JobURange}) \cup {URange(q)}
      BY <1>2, <1>4, <1>7, HeldParts, HeldPartsNext, OwnersDiffer
    <2>2. Shares(ufree, UHeld')
      BY <1>3, <1>5, <2>1, SharesRename
    <2>3. Side(kfree, KHeld')
      BY <1>3, <1>4, <1>5, <1>7, <2>1, SideRename
    <2> QED
      BY <1>2, <2>2, <2>3 DEF ShareInv
  <1> QED
    BY <1>6, <1>7

\* The ranges of the queue become those of the job.
LEMMA DestroyQueueShares ==
  ASSUME PhysInv, ShareInv, NEW q \in queues, DestroyQueue(q)
  PROVE  ShareInv'
  <1>2. /\ queues' = queues \ {q} /\ job.at = "idle" /\ job'.at = "unmap"
        /\ job'.uaddr = q.uaddr /\ job'.kaddr = q.kaddr /\ job'.pages = q.pages
        /\ UNCHANGED <<kfree, root, ufree, regions, buffers>>
    BY DEF DestroyQueue, kmem, Idle
  <1>3. /\ JobURange'.addr = URange(q).addr /\ JobURange'.pages = URange(q).pages
        /\ JobKRange'.addr = KRange(q).addr /\ JobKRange'.pages = KRange(q).pages
    BY <1>2, RangeFields DEF JobURange, JobKRange
  <1>4. JobHoldsK' /\ JobHoldsU' /\ ~JobHoldsU /\ ~JobHoldsK
    BY <1>2, HeldAt, HeldAtNext
  <1>5. Shares(ufree, UHeld) /\ Side(kfree, KHeld) /\ URange(q) \in UHeld /\ KRange(q) \in KHeld
    BY HeldParts DEF ShareInv
  <1>6. PICK ju, jk : ju = JobURange' /\ jk = JobKRange'
    OBVIOUS
  <1>7. KHeld' \subseteq (KHeld \ {KRange(q)}) \cup {jk} /\ UHeld' \subseteq (UHeld \ {URange(q)}) \cup {ju}
    BY <1>2, <1>4, <1>6, HeldParts, HeldPartsNext, OwnersDiffer
  <1>8. Shares(ufree, UHeld')
    BY <1>3, <1>5, <1>6, <1>7, SharesRename
  <1>9. Side(kfree, KHeld')
    BY <1>3, <1>5, <1>6, <1>7, SideRename
  <1> QED
    BY <1>2, <1>8, <1>9 DEF ShareInv

\* destroy_queue gives back the process's range.
LEMMA DestroyFreeAddressShares ==
  ASSUME PhysInv, ShareInv, DestroyFreeAddress
  PROVE  ShareInv'
  <1>1. job \in DestroyJob /\ job.at = "vfree"
    BY JobCases DEF PhysInv, JobOK, DestroyFreeAddress
  <1>2. /\ ufree' = VFree(ufree, job.uaddr, job.pages) /\ job' = [job EXCEPT !.at = "kunmap"]
        /\ UNCHANGED <<kfree, root, queues, regions, buffers>>
    BY DEF DestroyFreeAddress, Goto, kmem
  <1>3. job'.at = "kunmap" /\ job'.kaddr = job.kaddr /\ job'.pages = job.pages
    BY <1>1, <1>2 DEF DestroyJob
  <1>4. JobHoldsK' /\ ~JobHoldsU' /\ JobHoldsU /\ JobHoldsK /\ JobKRange' = JobKRange
    BY <1>1, <1>3, HeldAt, HeldAtNext, JobRanges
  <1>5. KHeld' \subseteq KHeld /\ UHeld' \subseteq UHeld \ {JobURange} /\ JobURange \in UHeld
    BY <1>2, <1>4, HeldParts, HeldPartsNext, OwnersDiffer
  <1>6. Shares(VFree(ufree, JobURange.addr, JobURange.pages), UHeld') /\ Side(kfree, KHeld')
    BY <1>5, SharesGive, SideFewer DEF ShareInv
  <1> QED
    BY <1>2, <1>6, RangeFields DEF ShareInv

\* PhysicalBuffer::drop gives back the buffer's range.
LEMMA DropBufferShares ==
  ASSUME PhysInv, ShareInv, NEW b \in buffers, DropBuffer(b)
  PROVE  ShareInv'
  <1>1. MemOK /\ KernelOK /\ PagesOK
    BY DEF PhysInv
  <1>2. b.addr \in Nat /\ b.pages \in Nat \ {0} /\ b.base \in Nat
    BY <1>1 DEF KernelOK, Buffer
  <1> DEFINE m == BufferDrop(KMem, b)
  <1>3. /\ kfree' = m.kfree /\ buffers' = buffers \ {b}
        /\ UNCHANGED <<root, ufree, queues, regions, job>>
    BY DEF DropBuffer, proc
  <1>4. KMem.kfree = kfree /\ KMem.ktable = ktable /\ KMemOK(KMem)
    BY <1>1, KMemFacts
  <1>5. PagesFrom(b.base, b.pages) \cap TablePages(KMem.ktable) = {}
    BY <1>1, <1>4 DEF PagesOK, Split, BufferPages
  <1>6. m.kfree = VFree(KMem.kfree, b.addr, b.pages)
    BY <1>2, <1>4, <1>5, BufferDropFacts
  <1> HIDE DEF m
  <1>7. UNCHANGED <<JobHoldsK, JobHoldsU, JobKRange, JobURange>>
    BY <1>3 DEF JobHoldsK, JobHoldsU, JobKRange, JobURange
  <1> DEFINE h == Range1("buffer", b)
  <1>8. h \in KHeld /\ h.addr = b.addr /\ h.pages = b.pages
    BY HeldParts, RangeFields
  <1>9. UHeld' = UHeld /\ KHeld' \subseteq KHeld \ {h}
    BY <1>3, <1>7, HeldParts, HeldPartsNext, OwnersDiffer
  <1> HIDE DEF h
  <1>10. Side(VFree(kfree, h.addr, h.pages), KHeld')
    BY <1>8, <1>9, SideFree DEF ShareInv
  <1> QED
    BY <1>3, <1>4, <1>6, <1>8, <1>9, <1>10 DEF ShareInv

\* Process::drop gives back the kernel's ranges of all the queues.
LEMMA DropProcessShares ==
  ASSUME PhysInv, ShareInv, DropProcess
  PROVE  ShareInv'
  <1>2. /\ job = Idle
        /\ kfree' = FoldSet(LAMBDA q, list : VFree(list, q.kaddr, q.pages), kfree, queues)
        /\ root' = -1 /\ ufree' = <<>> /\ queues' = {} /\ regions' = {}
        /\ UNCHANGED <<buffers, job>>
    BY DEF DropProcess
  <1>3. kfree \in Seq(Block) /\ IsFiniteSet(queues) /\ queues \subseteq Queue
    BY DEF PhysInv, MemOK, ProcOK
  <1>4. ~JobHoldsK' /\ ~JobHoldsU'
    BY <1>2, HeldAtNext DEF Idle
  <1> DEFINE z == FoldSet(LAMBDA q, l : VFree(l, q.kaddr, q.pages), kfree, queues)
             K == {KRange(q) : q \in queues}
  <1>5. /\ \A H : Shares(kfree, H) /\ K \subseteq H => Shares(z, H \ K)
        /\ AlignedList(kfree) /\ (\A q \in queues : Aligned(q.kaddr)) => AlignedList(z)
    BY <1>3, GiveBackFacts
  <1>6. kfree' = z
    BY <1>2
  <1> HIDE DEF z
  <1>7. Shares(kfree, KHeld) /\ AlignedList(kfree) /\ (\A h \in KHeld : Aligned(h.addr)) /\ K \subseteq KHeld
    BY HeldParts DEF ShareInv, Side
  <1>8. KHeld' \subseteq KHeld \ K
    BY <1>2, <1>4, HeldParts, HeldPartsNext, OwnersDiffer
  <1>9. \A q \in queues : Aligned(q.kaddr)
    <2> TAKE q \in queues
    <2>1. KRange(q) \in KHeld
      BY HeldParts
    <2>2. Aligned(KRange(q).addr)
      BY <1>7, <2>1
    <2> QED
      BY <2>2, RangeFields
  <1>10. Shares(z, KHeld \ K) /\ AlignedList(z)
    BY <1>5, <1>7, <1>9
  <1> HIDE DEF K
  <1>11. Side(z, KHeld')
    BY <1>7, <1>8, <1>10, SharesFewer DEF Side
  <1>12. UHeld' = {}
    BY <1>2, <1>4, HeldPartsNext
  <1>13. Shares(<<>>, {})
    BY DEF Shares
  <1> QED
    BY <1>2, <1>6, <1>11, <1>12, <1>13 DEF ShareInv

-----------------------------------------------------------------------------
(* What a step leaves mapped. *)

\* A page of memory is mapped by one entry.
LEMMA CoverOne ==
  ASSUME NEW pt, PtOK(pt), NEW w \in Nat, NEW e \in Maps(pt), e = EntryAt(e[1], w), NEW f \in Maps(pt), f = EntryAt(f[1], w)
  PROVE  e = f
  <1>1. e = EntryAt(WalkLevel(pt, w), w)
    BY CoverUnique
  <1>2. f = EntryAt(WalkLevel(pt, w), w)
    BY CoverUnique
  <1> QED
    BY <1>1, <1>2

\* unmap_range of a range that its mappings fill exactly: nothing outside
\* changes and nothing inside stays.
LEMMA UnmapOutside ==
  ASSUME NEW pt, PtOK(pt), NEW v0 \in Nat, NEW n \in Nat, Tiled(pt, v0, n),
         NEW r, UnmapLoop(pt, v0, n, r), NEW w \in Nat, Outside(w, v0, n)
  PROVE  SameAt(pt, r.pt, w)
  <1>1. PtOK(r.pt) /\ DOMAIN r.pt \subseteq DOMAIN pt /\ \A e \in DOMAIN r.pt : r.pt[e] = pt[e]
    BY DEF UnmapLoop
  <1>2. ASSUME NEW e \in DOMAIN pt \ DOMAIN r.pt, e = EntryAt(e[1], w) PROVE FALSE
    <2>1. PICK i \in 0..(n - 1) : e = EntryAt(e[1], v0 + i)
      BY <1>2 DEF UnmapLoop
    <2>2. e \in Maps(pt)
      BY <1>2 DEF UnmapLoop, Maps
    <2>3. PICK f \in Maps(pt) : f = EntryAt(f[1], v0 + i) /\ v0 <= BaseOf(f) /\ BaseOf(f) + Span(f[1]) <= v0 + n
      BY DEF Tiled
    <2>4. v0 + i \in Nat
      OBVIOUS
    <2>5. e = f
      BY <2>1, <2>2, <2>3, <2>4, CoverOne
    <2>6. e \in Entry
      BY <2>2 DEF Maps, PtOK
    <2>7. BaseOf(e) \in Nat /\ Span(e[1]) \in Nat \ {0} /\ BaseOf(e) <= w /\ w < BaseOf(e) + Span(e[1])
      BY <1>2, <2>6, CoverFacts
    <2>8. v0 <= BaseOf(e) /\ BaseOf(e) + Span(e[1]) <= v0 + n
      BY <2>3, <2>5
    <2>9. v0 <= w /\ w < v0 + n
      BY <2>7, <2>8
    <2> QED
      BY <2>9 DEF Outside
  <1>3. ASSUME NEW e \in Maps(pt), e = EntryAt(e[1], w) PROVE e \in Maps(r.pt) /\ r.pt[e] = pt[e]
    BY <1>1, <1>2, <1>3 DEF Maps
  <1>4. ASSUME NEW e \in Maps(r.pt), e = EntryAt(e[1], w) PROVE e \in Maps(pt)
    BY <1>1 DEF Maps
  <1>5. Lookup(r.pt, w) = Lookup(pt, w) /\ (Covered(r.pt, w) <=> Covered(pt, w))
    BY <1>1, <1>3, <1>4, LookupAgrees
  <1> QED
    BY <1>3, <1>5 DEF SameAt

\* unmap_range of a mapped range leaves nothing mapped in it.
LEMMA UnmapInside ==
  ASSUME NEW pt, PtOK(pt), NEW v0 \in Nat, NEW n \in Nat, Tiled(pt, v0, n),
         NEW r, UnmapLoop(pt, v0, n, r), UnmapAt(v0, n, r), r.next = n
  PROVE  ClearRange(r.pt, v0, n)
  <1>1. PtOK(r.pt) /\ DOMAIN r.pt \subseteq DOMAIN pt /\ \A e \in DOMAIN r.pt : r.pt[e] = pt[e]
    BY DEF UnmapLoop
  <1>2. ASSUME NEW i \in 0..(n - 1), NEW e \in Maps(r.pt), e = EntryAt(e[1], v0 + i) PROVE FALSE
    <2>1. e \in Maps(pt) /\ v0 + i \in Nat
      BY <1>1 DEF Maps
    <2>2. PICK f \in Maps(pt) : f = EntryAt(f[1], v0 + i) /\ v0 <= BaseOf(f) /\ BaseOf(f) + Span(f[1]) <= v0 + n
      BY DEF Tiled
    <2>3. e = f
      BY <1>2, <2>1, <2>2, CoverOne
    <2>4. e \in Entry
      BY <2>1 DEF Maps, PtOK
    <2>5. BaseOf(e) \in Nat /\ Span(e[1]) \in Nat \ {0}
      BY <2>1, <2>4, CoverFacts
    <2>6. v0 <= BaseOf(e) /\ BaseOf(e) < v0 + n
      BY <2>2, <2>3, <2>5
    <2>7. v0 + n <= BaseOf(e)
      BY <2>6 DEF UnmapAt
    <2> QED
      BY <2>5, <2>6, <2>7
  <1> QED
    BY <1>2 DEF ClearRange, Covered

\* Two tables agree on n pages from x.
Agree(p, q, x, n) == \A w \in Nat : x <= w /\ w < x + n => SameAt(p, q, w)

\* Tables that agree on a range map it alike.
LEMMA AgreeFacts ==
  ASSUME NEW p, NEW q, NEW x \in Nat, NEW n \in Nat, Agree(p, q, x, n)
  PROVE  /\ Tiled(p, x, n) => Tiled(q, x, n)
         /\ ClearRange(p, x, n) => ClearRange(q, x, n)
         /\ \A i \in 0..(n - 1) : Lookup(q, x + i) = Lookup(p, x + i)
  <1>1. ASSUME NEW i \in 0..(n - 1) PROVE SameAt(p, q, x + i)
    <2>1. x + i \in Nat /\ x <= x + i /\ x + i < x + n
      OBVIOUS
    <2> QED
      BY <2>1 DEF Agree
  <1>2. Tiled(p, x, n) => Tiled(q, x, n)
    BY <1>1 DEF Tiled, SameAt
  <1>3. ClearRange(p, x, n) => ClearRange(q, x, n)
    BY <1>1 DEF ClearRange, SameAt
  <1> QED
    BY <1>1, <1>2, <1>3 DEF SameAt

\* Agreement is transitive.
LEMMA AgreeTrans ==
  ASSUME NEW p, NEW q, NEW r, NEW x, NEW n, Agree(p, q, x, n), Agree(q, r, x, n)
  PROVE  Agree(p, r, x, n)
  BY SameTrans DEF Agree

\* A table agrees with itself.
LEMMA AgreeSelf ==
  ASSUME NEW p, NEW x, NEW n
  PROVE  Agree(p, p, x, n)
  BY DEF Agree, SameAt

\* Ranges that are apart are apart as pages too.
LEMMA ApartPages ==
  ASSUME NEW a \in Nat, NEW m \in Nat, NEW b \in Nat, NEW n \in Nat, Aligned(a), Aligned(b), Apart(a, m, b, n)
  PROVE  Page(a) + m <= Page(b) \/ Page(b) + n <= Page(a)
  <1>1. PICK x \in Nat, y \in Nat : x = Page(a) /\ y = Page(b) /\ a = Bytes(x) /\ b = Bytes(y)
    BY DEF Aligned, Page
  <1>2. Bytes(x + m) = a + Bytes(m) /\ Bytes(y + n) = b + Bytes(n)
    <2>1. Bytes(x + m) = Bytes(x) + Bytes(m) /\ Bytes(y + n) = Bytes(y) + Bytes(n)
      BY BytesFacts
    <2> QED
      BY <1>1, <2>1
  <1>3. x + m \in Nat /\ y + n \in Nat
    OBVIOUS
  <1>4. /\ y < x + m => Bytes(y) < Bytes(x + m)
        /\ x < y + n => Bytes(x) < Bytes(y + n)
    BY <1>3, BytesFacts
  <1>5. Bytes(x) \in Nat /\ Bytes(y) \in Nat /\ Bytes(x + m) \in Nat /\ Bytes(y + n) \in Nat
    BY <1>3, BytesFacts
  <1> QED
    BY <1>1, <1>2, <1>3, <1>4, <1>5 DEF Apart

\* The tables p and q agree on the ranges of H.
Kept(H, p, q) == \A h \in H : Agree(p, q, Page(h.addr), h.pages)

\* The ranges of H that start at a whole page; nothing is mapped in another.
Fit(H) == {h \in H : Aligned(h.addr)}

\* What happens in a range apart from those of H keeps them.
LEMMA KeptApart ==
  ASSUME NEW list, NEW H, Shares(list, H), NEW g \in H, Aligned(g.addr), NEW p, NEW q,
         \A w \in Nat : Outside(w, Page(g.addr), g.pages) => SameAt(p, q, w)
  PROVE  Kept(Fit(H \ {g}), p, q)
  <1> SUFFICES ASSUME NEW h \in H, h # g, Aligned(h.addr) PROVE Agree(p, q, Page(h.addr), h.pages)
    BY DEF Kept, Fit
  <1>1. PICK a \in Nat, m \in Nat, b \in Nat, n \in Nat : a = h.addr /\ m = h.pages /\ b = g.addr /\ n = g.pages
    BY DEF Shares
  <1>2. Aligned(a) /\ Aligned(b) /\ Apart(a, m, b, n)
    BY <1>1 DEF Shares
  <1>3. Page(a) + m <= Page(b) \/ Page(b) + n <= Page(a)
    BY <1>2, ApartPages
  <1>4. Page(a) \in Nat /\ Page(b) \in Nat
    BY <1>2 DEF Aligned, Page
  <1>5. ASSUME NEW w \in Nat, Page(a) <= w, w < Page(a) + m PROVE SameAt(p, q, w)
    <2>1. Outside(w, Page(b), n)
      BY <1>3, <1>4, <1>5 DEF Outside
    <2> QED
      BY <1>1, <2>1
  <1> QED
    BY <1>1, <1>5 DEF Agree

\* The same in the kernel, where every range starts at a whole page.
LEMMA SideKeptApart ==
  ASSUME NEW list, NEW H, Side(list, H), NEW g \in H, NEW p, NEW q,
         \A w \in Nat : Outside(w, Page(g.addr), g.pages) => SameAt(p, q, w)
  PROVE  Kept(H \ {g}, p, q)
  <1>1. Shares(list, H) /\ Aligned(g.addr) /\ Fit(H \ {g}) = H \ {g}
    BY DEF Side, Fit
  <1>2. Kept(Fit(H \ {g}), p, q)
    BY <1>1, KeptApart
  <1> QED
    BY <1>1, <1>2

\* What two steps keep, both keep.
LEMMA KeptTrans ==
  ASSUME NEW H, NEW p, NEW q, NEW r, Kept(H, p, q), Kept(H, q, r)
  PROVE  Kept(H, p, r)
  BY AgreeTrans DEF Kept

\* What is kept of more ranges is kept of fewer.
LEMMA KeptFewer ==
  ASSUME NEW H, NEW G, NEW p, NEW q, Kept(H, p, q), G \subseteq H
  PROVE  Kept(G, p, q)
  BY DEF Kept

\* The facts about the ranges in use.
LEMMA SideRange ==
  ASSUME NEW list, NEW H, Side(list, H), NEW h \in H
  PROVE  /\ h.addr \in Nat /\ h.pages \in Nat \ {0} /\ Aligned(h.addr) /\ Page(h.addr) \in Nat
         /\ Page(h.addr) = h.addr \div PAGE_SIZE
  BY DEF Side, Shares, Aligned, Page

\* A new range is apart from the ranges in use.
LEMMA SharesNew ==
  ASSUME NEW list, NEW H, Shares(list, H), NEW n \in Nat \ {0}, VAlloc(list, n).ok, NEW h, h.addr = VAlloc(list, n).addr, h.pages = n
  PROVE  Shares(VAlloc(list, n).list, H \cup {h}) /\ h \notin H
  <1> DEFINE r == VAlloc(list, n)
  <1>1. Shares(r.list, H \cup {h})
    BY SharesTake
  <1>2. ASSUME h \in H PROVE FALSE
    <2>1. list \in Seq(Block)
      BY DEF Shares
    <2>2. PICK i \in 1..Len(list) : r.addr = list[i].address
      BY <2>1, VAllocCases
    <2>3. list[i].address \in Nat /\ list[i].size \in Nat \ {0}
      BY <2>1, BlockFacts
    <2>4. Apart(list[i].address, list[i].size, h.addr, h.pages)
      BY <1>2 DEF Shares
    <2>5. PICK a \in Nat, m \in Nat \ {0}, b \in Nat : a = list[i].address /\ m = list[i].size /\ b = h.addr
      BY <2>2, <2>3
    <2>6. a # b
      BY <2>4, <2>5, ApartDiffer
    <2> QED
      BY <2>2, <2>5, <2>6
  <1> QED
    BY <1>1, <1>2

\* The same in the kernel.
LEMMA VAllocNew ==
  ASSUME NEW list, NEW H, Side(list, H), NEW n \in Nat \ {0}, VAlloc(list, n).ok, NEW h, h.addr = VAlloc(list, n).addr, h.pages = n
  PROVE  Side(VAlloc(list, n).list, H \cup {h}) /\ h \notin H
  <1>1. Side(VAlloc(list, n).list, H \cup {h})
    BY SideAlloc
  <1>2. h \notin H
    BY SharesNew DEF Side
  <1> QED
    BY <1>1, <1>2

\* PhysicalBuffer::alloc takes a new range, maps all of it, and changes
\* nothing in the ranges in use.
TakesRange(H, m, r, n) ==
  /\ Side(r.kfree, H) /\ Kept(H, m.ktable, r.ktable)
  /\ r.state = "ok" =>
       /\ \A h : h.addr = r.addr /\ h.pages = n => Side(r.kfree, H \cup {h}) /\ h \notin H
       /\ Tiled(r.ktable, Page(r.addr), n)

\* PhysicalBuffer::alloc maps its own range and leaves the others.
LEMMA BufferAllocKeeps ==
  ASSUME NEW m, KMemOK(m), NEW n \in Nat \ {0}, NEW H, Side(m.kfree, H)
  PROVE  TakesRange(H, m, BufferAlloc(m, n), n)
  <1> DEFINE p == AllocContig(m.used, n)
             a == VAlloc(m.kfree, n)
             V == m.used \cup PagesFrom(p.base, n)
             r == MapRange(m.ktable, V, p.base, a.addr, n)
             z == BufferAlloc(m, n)
  <1>1. z = IF ~p.ok THEN [m EXCEPT !.state = "error"]
            ELSE IF ~a.ok THEN [m EXCEPT !.used = V, !.state = "error"]
            ELSE [used |-> r.used, ktable |-> r.pt, kfree |-> a.list, base |-> p.base,
                  addr |-> a.addr, state |-> IF r.state = "ok" THEN "ok" ELSE "panic"]
    BY DEF BufferAlloc
  <1>2. p.ok => p.base \in Nat /\ PagesFrom(p.base, n) \subseteq Pages
    <2>1. p.ok => p.base \in Pages /\ PagesFrom(p.base, n) \subseteq Pages \ m.used
      BY AllocContigFacts
    <2>2. Pages \subseteq Nat
      BY PhysicalMemoryAssumption DEF Pages
    <2> QED
      BY <2>1, <2>2
  <1>3. a.ok \in BOOLEAN /\ (a.ok => a.addr \in Nat)
    BY VAllocFacts DEF KMemOK
  <1>4. ASSUME a.ok, NEW h, h.addr = a.addr, h.pages = n PROVE Side(a.list, H \cup {h}) /\ h \notin H
    BY <1>4, VAllocNew
  <1> HIDE DEF p, a, z
  <1>5. /\ m = [used |-> m.used, ktable |-> m.ktable, kfree |-> m.kfree, state |-> m.state, base |-> m.base, addr |-> m.addr]
        /\ m.used \subseteq Pages /\ PtOK(m.ktable)
    BY DEF KMemOK
  <1>6. CASE ~p.ok \/ ~a.ok
    <2>1. z.ktable = m.ktable /\ z.kfree = m.kfree /\ z.state = "error"
      BY <1>1, <1>5, <1>6
    <2> QED
      BY <2>1, AgreeSelf DEF TakesRange, Kept, z
  <1>7. CASE p.ok /\ a.ok
    <2>1. z.ktable = r.pt /\ z.kfree = a.list /\ z.addr = a.addr /\ (z.state = "ok" => r.state = "ok")
      BY <1>1, <1>7
    <2>2. V \subseteq Pages /\ PagesFrom(p.base, n) \subseteq Pages /\ p.base \in Nat /\ a.addr \in Nat
      BY <1>2, <1>3, <1>5, <1>7
    <2> HIDE DEF V
    <2>3. /\ MapLoop(m.ktable, V, p.base, a.addr \div PAGE_SIZE, n, r)
          /\ r.state = "ok" => r.next = n
      BY <1>5, <2>2, MapRangeFacts
    <2> HIDE DEF r
    <2>4. PICK h : h = [owner |-> "new", addr |-> a.addr, pages |-> n]
      OBVIOUS
    <2>5. h.addr = a.addr /\ h.pages = n
      BY <2>4
    <2>6. Side(a.list, H \cup {h}) /\ h \notin H
      BY <1>4, <1>7, <2>5
    <2>7. Page(a.addr) \in Nat /\ Page(a.addr) = a.addr \div PAGE_SIZE
      BY <2>5, <2>6, SideRange
    <2>20. PICK pt : pt = m.ktable
      OBVIOUS
    <2>8. PICK ph \in Nat, v0 \in Nat : ph = p.base /\ v0 = a.addr \div PAGE_SIZE
      BY <2>2, <2>7
    <2>9. PtOK(pt) /\ MapLoop(pt, V, ph, v0, n, r) /\ n \in Nat
      BY <1>5, <2>3, <2>8, <2>20
    <2>10. \A w \in Nat : Outside(w, v0, n) => SameAt(pt, r.pt, w)
      BY <2>9, MapOutside
    <2>11. r.next = n => Tiled(r.pt, v0, n)
      BY <2>9, MapInside
    <2>12. Kept((H \cup {h}) \ {h}, m.ktable, r.pt)
      BY <2>5, <2>6, <2>7, <2>8, <2>10, <2>20, SideKeptApart
    <2>13. H \subseteq (H \cup {h}) \ {h}
      BY <2>6
    <2>14. Kept(H, m.ktable, r.pt) /\ Side(a.list, H)
      BY <2>6, <2>12, <2>13, KeptFewer, SideFewer
    <2> QED
      BY <1>4, <1>7, <2>1, <2>3, <2>7, <2>8, <2>11, <2>14 DEF TakesRange, z
  <1> QED
    BY <1>6, <1>7

\* unmap_virtual of a range that is mapped throughout gives it back.
LEMMA UnmapVirtualKeeps ==
  ASSUME NEW m, KMemOK(m), NEW H, Side(m.kfree, H), NEW h \in H, NEW b, b.addr = h.addr, b.pages = h.pages,
         Tiled(m.ktable, Page(b.addr), b.pages), NEW r, r.kfree = VFree(m.kfree, b.addr, b.pages),
         r.ktable = UnmapRange(m.ktable, b.addr, b.pages).pt
  PROVE  Side(r.kfree, H \ {h}) /\ Kept(H \ {h}, m.ktable, r.ktable)
  <1>1. Side(r.kfree, H \ {h})
    BY SideFree
  <1>2. /\ h.addr \in Nat /\ h.pages \in Nat \ {0} /\ Page(h.addr) \in Nat
        /\ Page(h.addr) = h.addr \div PAGE_SIZE
    BY SideRange
  <1>20. PICK pt : pt = m.ktable
    OBVIOUS
  <1>3. PICK a \in Nat, n \in Nat, v0 \in Nat : a = b.addr /\ n = b.pages /\ v0 = Page(b.addr)
    BY <1>2
  <1> DEFINE u == UnmapRange(pt, a, n)
  <1>4. PtOK(pt) /\ v0 = a \div PAGE_SIZE
    BY <1>2, <1>3, <1>20 DEF KMemOK
  <1>5. UnmapLoop(pt, v0, n, u)
    BY <1>4, UnmapRangeFacts
  <1> HIDE DEF u
  <1>6. Tiled(pt, v0, n)
    BY <1>3, <1>20
  <1>7. \A w \in Nat : Outside(w, v0, n) => SameAt(pt, u.pt, w)
    BY <1>4, <1>5, <1>6, UnmapOutside
  <1>8. r.ktable = u.pt
    BY <1>3, <1>20 DEF u
  <1>9. \A w \in Nat : Outside(w, Page(h.addr), h.pages) => SameAt(m.ktable, r.ktable, w)
    BY <1>3, <1>7, <1>8, <1>20
  <1> QED
    BY <1>1, <1>9, SideKeptApart

-----------------------------------------------------------------------------
(* The kernel while a binary is loaded. *)

\* While a binary is loaded, the kernel's ranges in use stay as they are.
LoadKeeps(H, m0, s) == Side(s.mem.kfree, H) /\ Kept(H, m0.ktable, s.mem.ktable)

\* load_segment leaves the kernel's ranges.
LEMMA LoadSegmentKeeps ==
  ASSUME NEW m0, NEW s, LoadOK(m0, s), NEW seg, seg.page \in Nat, seg.pages \in Nat \ {0}, NEW H, LoadKeeps(H, m0, s)
  PROVE  LoadKeeps(H, m0, LoadSegment(s, seg))
  <1> DEFINE n == seg.pages
             m == BufferAlloc(s.mem, n)
             b == [addr |-> m.addr, pages |-> n]
             k == UnmapVirtual(m, b)
             r == MapRange(s.pt, k.used, k.base, Bytes(seg.page), n)
             v == VReserve(s.list, Bytes(seg.page), n)
             z == LoadSegment(s, seg)
  <1>1. s = [mem |-> s.mem, pt |-> s.pt, list |-> s.list] /\ KMemOK(s.mem)
    BY DEF LoadOK
  <1>2. \/ s.mem.state # "ok" /\ z = s
        \/ s.mem.state = "ok" /\ m.state # "ok" /\ z = [mem |-> m, pt |-> s.pt, list |-> s.list]
        \/ /\ s.mem.state = "ok" /\ m.state = "ok" /\ r.state # "ok"
           /\ z = [mem |-> [k EXCEPT !.used = r.used, !.state = r.state], pt |-> r.pt, list |-> s.list]
        \/ /\ s.mem.state = "ok" /\ m.state = "ok" /\ r.state = "ok"
           /\ z = [mem |-> [k EXCEPT !.used = r.used, !.state = IF v.ok THEN "ok" ELSE "panic"],
                   pt |-> r.pt, list |-> v.list]
    BY <1>1, LoadSegmentCases
  <1>3. TakesRange(H, s.mem, m, n) /\ Buffered(s.mem, m, n)
    BY <1>1, BufferAllocKeeps, BufferAllocFacts DEF LoadKeeps
  <1>10. b.addr = m.addr /\ b.pages = n
    OBVIOUS
  <1> HIDE DEF m, r, v, z, b, n
  <1>4. KMemOK(m) /\ Side(m.kfree, H) /\ Kept(H, s.mem.ktable, m.ktable)
    BY <1>3 DEF TakesRange, Buffered
  <1>5. Kept(H, m0.ktable, m.ktable)
    BY <1>4, KeptTrans DEF LoadKeeps
  <1>6. ASSUME m.state = "ok" PROVE Side(k.kfree, H) /\ Kept(H, m0.ktable, k.ktable) /\ KMemOK(k)
    <2>1. Side(m.kfree, H \cup {b}) /\ b \notin H /\ Tiled(m.ktable, Page(m.addr), n)
      BY <1>3, <1>6, <1>10 DEF TakesRange
    <2>2. b.addr \in Nat /\ b.pages \in Nat \ {0}
      BY <1>4, <1>10 DEF KMemOK, n
    <2>3. KMemOK(k) /\ k.ktable = UnmapRange(m.ktable, b.addr, b.pages).pt /\ k.kfree = VFree(m.kfree, b.addr, b.pages)
      BY <1>4, <2>2, UnmapVirtualFacts
    <2> HIDE DEF k
    <2>4. Side(k.kfree, (H \cup {b}) \ {b}) /\ Kept((H \cup {b}) \ {b}, m.ktable, k.ktable)
      BY <1>4, <1>10, <2>1, <2>3, UnmapVirtualKeeps
    <2>5. (H \cup {b}) \ {b} = H
      BY <2>1
    <2>6. Side(k.kfree, H) /\ Kept(H, m.ktable, k.ktable)
      BY <2>4, <2>5
    <2> QED
      BY <1>5, <2>3, <2>6, KeptTrans
  <1> HIDE DEF k
  <1>7. ASSUME m.state = "ok", NEW u, NEW st, z.mem = [k EXCEPT !.used = u, !.state = st] PROVE LoadKeeps(H, m0, z)
    <2>1. KMemOK(k) /\ Side(k.kfree, H) /\ Kept(H, m0.ktable, k.ktable)
      BY <1>6, <1>7
    <2>2. k = [used |-> k.used, ktable |-> k.ktable, kfree |-> k.kfree, state |-> k.state, base |-> k.base, addr |-> k.addr]
      BY <2>1 DEF KMemOK
    <2>3. z.mem.kfree = k.kfree /\ z.mem.ktable = k.ktable
      BY <1>7, <2>2
    <2> QED
      BY <2>1, <2>3 DEF LoadKeeps
  <1>8. CASE s.mem.state = "ok" /\ m.state # "ok" /\ z = [mem |-> m, pt |-> s.pt, list |-> s.list]
    BY <1>4, <1>5, <1>8 DEF LoadKeeps, z
  <1>9. CASE m.state = "ok" /\ \E st, x, y : z = [mem |-> [k EXCEPT !.used = r.used, !.state = st], pt |-> x, list |-> y]
    <2>1. PICK st, x, y : z = [mem |-> [k EXCEPT !.used = r.used, !.state = st], pt |-> x, list |-> y]
      BY <1>9
    <2>2. z.mem = [k EXCEPT !.used = r.used, !.state = st]
      BY <2>1
    <2>3. LoadKeeps(H, m0, z)
      BY <1>7, <1>9, <2>2
    <2> QED
      BY <2>3 DEF z
  <1> QED
    BY <1>2, <1>8, <1>9 DEF z

\* The page w belongs to segment i.
InSegment(i, w) == Segments[i].page <= w /\ w < Segments[i].page + Segments[i].pages

\* What loading the first k segments makes, when it succeeds: the table maps
\* the segments only, and every page that was taken is in a table or mapped.
LoadMapped(m0, k, s) ==
  /\ \A w \in Nat : Covered(s.pt, w) => \E i \in 1..k : InSegment(i, w)
  /\ s.mem.used \subseteq m0.used \cup UserPages(s.pt) \cup TablePages(s.mem.ktable)
  /\ TablePages(m0.ktable) \subseteq TablePages(s.mem.ktable)

\* A segment that overlaps no other is loaded where nothing is mapped yet.
LEMMA SegmentClear ==
  ASSUME ~SegmentsOverlap, NEW k \in 0..(Len(Segments) - 1), NEW pt,
         \A w \in Nat : Covered(pt, w) => \E i \in 1..k : InSegment(i, w)
  PROVE  ClearRange(pt, Segments[k + 1].page, Segments[k + 1].pages)
  <1>0. k \in Nat /\ k + 1 \in 1..Len(Segments) /\ Len(Segments) \in Nat /\ DOMAIN Segments = 1..Len(Segments)
    BY SegmentFacts, AddressSpaceAssumption
  <1>1. PICK p \in Nat, n \in Nat \ {0} : p = Segments[k + 1].page /\ n = Segments[k + 1].pages
    BY <1>0, SegmentFacts
  <1> SUFFICES ASSUME NEW c \in 0..(n - 1), Covered(pt, p + c) PROVE FALSE
    BY <1>1 DEF ClearRange
  <1>2. p + c \in Nat
    OBVIOUS
  <1>3. PICK i \in 1..k : InSegment(i, p + c)
    BY <1>2
  <1>4. i # k + 1 /\ i \in DOMAIN Segments /\ k + 1 \in DOMAIN Segments
    BY <1>0
  <1>5. PICK q \in Nat, m \in Nat \ {0} : q = Segments[i].page /\ m = Segments[i].pages
    BY <1>0, <1>4, SegmentFacts
  <1>6. q <= p + c /\ p + c < q + m
    BY <1>3, <1>5 DEF InSegment
  <1>7. p + c \in PagesFrom(p, n) /\ p + c \in PagesFrom(q, m)
    BY <1>6 DEF PagesFrom
  <1>8. PagesFrom(Segments[i].page, Segments[i].pages) \cap PagesFrom(Segments[k + 1].page, Segments[k + 1].pages) # {}
    BY <1>1, <1>5, <1>7
  <1> QED
    BY <1>4, <1>8 DEF SegmentsOverlap

\* load_segment maps its segment and nothing else, and loses no page.
LEMMA LoadSegmentMapped ==
  ASSUME ~SegmentsOverlap, NEW k \in 0..(Len(Segments) - 1), NEW m0, KMemOK(m0), NEW s, LoadOK(m0, s), s.mem.state = "ok" => LoadMapped(m0, k, s),
         NEW z, z = LoadSegment(s, Segments[k + 1]), z.mem.state = "ok"
  PROVE  LoadMapped(m0, k + 1, z)
  <1>0. k \in Nat /\ k + 1 \in 1..Len(Segments) /\ Len(Segments) \in Nat
    BY SegmentFacts
  <1>1. PICK seg : seg = Segments[k + 1]
    OBVIOUS
  <1>2. PICK p \in Nat, n \in Nat \ {0} : p = seg.page /\ n = seg.pages
    BY <1>0, <1>1, SegmentFacts
  <1>3. PICK va \in Nat : va = Bytes(p)
    BY BytesFacts
  <1> DEFINE m == BufferAlloc(s.mem, n)
             b == [addr |-> m.addr, pages |-> n]
             u == UnmapVirtual(m, b)
             r == MapRange(s.pt, u.used, u.base, va, n)
             v == VReserve(s.list, va, n)
  <1>4. /\ s = [mem |-> s.mem, pt |-> s.pt, list |-> s.list] /\ KMemOK(s.mem) /\ PtOK(s.pt)
        /\ m0.used \subseteq s.mem.used
    BY DEF LoadOK
  <1>5. LET mm == BufferAlloc(s.mem, seg.pages)
            kk == UnmapVirtual(mm, [addr |-> mm.addr, pages |-> seg.pages])
            rr == MapRange(s.pt, kk.used, kk.base, Bytes(seg.page), seg.pages)
            vv == VReserve(s.list, Bytes(seg.page), seg.pages)
            zz == LoadSegment(s, seg)
         IN  \/ s.mem.state # "ok" /\ zz = s
             \/ s.mem.state = "ok" /\ mm.state # "ok" /\ zz = [mem |-> mm, pt |-> s.pt, list |-> s.list]
             \/ /\ s.mem.state = "ok" /\ mm.state = "ok" /\ rr.state # "ok"
                /\ zz = [mem |-> [kk EXCEPT !.used = rr.used, !.state = rr.state], pt |-> rr.pt, list |-> s.list]
             \/ /\ s.mem.state = "ok" /\ mm.state = "ok" /\ rr.state = "ok"
                /\ zz = [mem |-> [kk EXCEPT !.used = rr.used, !.state = IF vv.ok THEN "ok" ELSE "panic"],
                        pt |-> rr.pt, list |-> vv.list]
    <2>1. seg.pages \in Nat \ {0}
      BY <1>2
    <2> QED
      BY <1>4, <2>1, LoadSegmentCases
  <1>6. \/ s.mem.state # "ok" /\ z = s
        \/ s.mem.state = "ok" /\ m.state # "ok" /\ z = [mem |-> m, pt |-> s.pt, list |-> s.list]
        \/ /\ s.mem.state = "ok" /\ m.state = "ok" /\ r.state # "ok"
           /\ z = [mem |-> [u EXCEPT !.used = r.used, !.state = r.state], pt |-> r.pt, list |-> s.list]
        \/ /\ s.mem.state = "ok" /\ m.state = "ok" /\ r.state = "ok"
           /\ z = [mem |-> [u EXCEPT !.used = r.used, !.state = IF v.ok THEN "ok" ELSE "panic"],
                   pt |-> r.pt, list |-> v.list]
    BY <1>1, <1>2, <1>3, <1>5
  <1>7. Buffered(s.mem, m, n) /\ b.addr = m.addr /\ b.pages = n
    BY <1>4, BufferAllocFacts
  <1> HIDE DEF m, b, v
  <1>8. KMemOK(m)
    BY <1>7 DEF Buffered
  <1>9. b.addr \in Nat /\ b.pages \in Nat \ {0} /\ m.base \in Nat /\ m.used \subseteq Pages
    BY <1>7, <1>8 DEF KMemOK
  <1>10. /\ KMemOK(u) /\ u.used = m.used /\ u.state = m.state /\ u.base = m.base
         /\ TablePages(u.ktable) = TablePages(m.ktable)
    BY <1>8, <1>9, UnmapVirtualFacts
  <1> HIDE DEF u
  <1>11. u = [used |-> u.used, ktable |-> u.ktable, kfree |-> u.kfree, state |-> u.state, base |-> u.base, addr |-> u.addr]
    BY <1>10 DEF KMemOK
  <1> HIDE DEF r
  <1>13. /\ s.mem.state = "ok" /\ m.state = "ok" /\ r.state = "ok" /\ v.ok
         /\ z.pt = r.pt /\ z.list = v.list /\ z.mem.used = r.used /\ z.mem.ktable = u.ktable
    <2>1. CASE /\ s.mem.state = "ok" /\ m.state = "ok" /\ r.state # "ok"
               /\ z = [mem |-> [u EXCEPT !.used = r.used, !.state = r.state], pt |-> r.pt, list |-> s.list]
      <3>1. z.mem = [u EXCEPT !.used = r.used, !.state = r.state]
        BY <2>1
      <3>2. PICK y, x, st : y = z.mem /\ x = r.used /\ st = r.state
        OBVIOUS
      <3>3. y = [u EXCEPT !.used = x, !.state = st]
        BY <3>1, <3>2
      <3>4. y.used = x /\ y.state = st /\ y.ktable = u.ktable
        BY <1>11, <3>3
      <3> QED
        BY <2>1, <3>2, <3>4
    <2>2. CASE /\ s.mem.state = "ok" /\ m.state = "ok" /\ r.state = "ok"
               /\ z = [mem |-> [u EXCEPT !.used = r.used, !.state = IF v.ok THEN "ok" ELSE "panic"],
                       pt |-> r.pt, list |-> v.list]
      <3>1. z.mem = [u EXCEPT !.used = r.used, !.state = IF v.ok THEN "ok" ELSE "panic"] /\ z.pt = r.pt /\ z.list = v.list
        BY <2>2
      <3>2. PICK y, x, st : y = z.mem /\ x = r.used /\ st = (IF v.ok THEN "ok" ELSE "panic")
        OBVIOUS
      <3>3. y = [u EXCEPT !.used = x, !.state = st]
        BY <3>1, <3>2
      <3>4. y.used = x /\ y.state = st /\ y.ktable = u.ktable
        BY <1>11, <3>3
      <3> QED
        BY <2>2, <3>1, <3>2, <3>4
    <2>3. CASE s.mem.state = "ok" /\ m.state # "ok" /\ z = [mem |-> m, pt |-> s.pt, list |-> s.list]
      BY <2>3
    <2>4. CASE s.mem.state # "ok" /\ z = s
      BY <2>4
    <2> QED
      BY <1>6, <2>1, <2>2, <2>3, <2>4
  <1>14. LoadMapped(m0, k, s)
    BY <1>13
  <1>16. /\ \A w \in Nat : Covered(s.pt, w) => \E i \in 1..k : InSegment(i, w)
         /\ s.mem.used \subseteq m0.used \cup UserPages(s.pt) \cup TablePages(s.mem.ktable)
         /\ TablePages(m0.ktable) \subseteq TablePages(s.mem.ktable)
    BY <1>14 DEF LoadMapped
  <1>17. PICK pt, U : pt = s.pt /\ U = m.used
    OBVIOUS
  <1>18. PICK ph \in Nat : ph = m.base
    BY <1>9
  <1>19. ClearRange(pt, p, n)
    <2>1. \A w \in Nat : Covered(pt, w) => \E i \in 1..k : InSegment(i, w)
      BY <1>16, <1>17
    <2>2. ClearRange(pt, Segments[k + 1].page, Segments[k + 1].pages)
      BY <2>1, SegmentClear
    <2> QED
      BY <1>1, <1>2, <2>2
  <1>20. /\ PagesFrom(ph, n) \subseteq m.used \ s.mem.used
         /\ TablePages(m.ktable) = TablePages(s.mem.ktable) \cup ((m.used \ s.mem.used) \ PagesFrom(ph, n))
    BY <1>7, <1>13, <1>18 DEF Buffered
  <1>21. r = MapRange(pt, U, ph, va, n)
    BY <1>10, <1>17, <1>18 DEF r
  <1>22. PtOK(pt) /\ U \subseteq Pages /\ PagesFrom(ph, n) \subseteq Pages
    BY <1>4, <1>9, <1>17, <1>20
  <1>23. /\ MapLoop(pt, U, ph, va \div PAGE_SIZE, n, r) /\ (r.state = "ok" => r.next = n)
    BY <1>21, <1>22, MapRangeFacts
  <1>24. va \div PAGE_SIZE = p
    BY <1>3, AlignedFacts
  <1>25. MapLoop(pt, U, ph, p, n, r) /\ r.next = n
    BY <1>13, <1>23, <1>24
  <1>26. UserPages(pt) \cup PagesFrom(ph, n) \cup (r.used \ U) \subseteq UserPages(r.pt)
    BY <1>19, <1>22, <1>25, MapUserExact
  <1>27. z.mem.used \subseteq m0.used \cup UserPages(z.pt) \cup TablePages(z.mem.ktable)
    BY <1>10, <1>13, <1>16, <1>17, <1>20, <1>26
  <1>28. TablePages(m0.ktable) \subseteq TablePages(z.mem.ktable)
    BY <1>10, <1>13, <1>16, <1>20
  <1>29. ASSUME NEW w \in Nat, Covered(z.pt, w) PROVE \E i \in 1..(k + 1) : InSegment(i, w)
    <2>1. CASE Outside(w, p, n)
      <3>1. SameAt(pt, r.pt, w)
        BY <1>22, <1>25, <2>1, MapOutside
      <3>2. Covered(pt, w)
        BY <1>13, <1>29, <3>1 DEF SameAt
      <3>3. 1..k \subseteq 1..(k + 1)
        BY <1>0
      <3> QED
        BY <1>16, <1>17, <3>2, <3>3
    <2>2. CASE ~Outside(w, p, n)
      <3>1. InSegment(k + 1, w)
        BY <1>1, <1>2, <2>2 DEF InSegment, Outside
      <3> QED
        BY <1>0, <3>1
    <2> QED
      BY <2>1, <2>2
  <1> QED
    BY <1>27, <1>28, <1>29 DEF LoadMapped

\* Until the first segment is loaded nothing is mapped.
LEMMA LoadStarts ==
  ASSUME NEW m0, NEW s, s = [mem |-> m0, pt |-> NoEntries, list |-> NewList(PAGE_SIZE, VaPages)]
  PROVE  LoadMapped(m0, 0, s)
  <1>1. s.mem = m0 /\ s.pt = NoEntries
    OBVIOUS
  <1>2. \A w \in Nat : ~Covered(s.pt, w)
    BY <1>1, NoEntriesFacts DEF Covered
  <1> QED
    BY <1>1, <1>2, NoEntriesFacts DEF LoadMapped

\* The list of a new process is one block.
LEMMA NewFenced == FencedList(NewList(PAGE_SIZE, VaPages))
  <1>1. PICK list : list = NewList(PAGE_SIZE, VaPages)
    OBVIOUS
  <1>2. list \in Seq(Block) /\ Len(list) = 1
    BY <1>1, PageSizeAssumption, AddressSpaceAssumption DEF NewList, Block
  <1>3. \A i, j \in 1..Len(list) : i = j
    BY <1>2
  <1> QED
    BY <1>1, <1>2, <1>3 DEF FencedList

\* load_segment leaves the list or reserves its segment in it.
LEMMA LoadSegmentFenced ==
  ASSUME NEW m0, NEW s, LoadOK(m0, s), FencedList(s.list), NEW seg, seg.page \in Nat, seg.pages \in Nat \ {0}
  PROVE  FencedList(LoadSegment(s, seg).list)
  <1> DEFINE z == LoadSegment(s, seg)
             v == VReserve(s.list, Bytes(seg.page), seg.pages)
  <1>1. s = [mem |-> s.mem, pt |-> s.pt, list |-> s.list] /\ KMemOK(s.mem)
    BY DEF LoadOK
  <1>2. z.list = s.list \/ z.list = v.list
    <2> HIDE DEF v
    <2> DEFINE m == BufferAlloc(s.mem, seg.pages)
               kk == UnmapVirtual(m, [addr |-> m.addr, pages |-> seg.pages])
               r == MapRange(s.pt, kk.used, kk.base, Bytes(seg.page), seg.pages)
    <2>1. \/ s.mem.state # "ok" /\ z = s
          \/ s.mem.state = "ok" /\ m.state # "ok" /\ z = [mem |-> m, pt |-> s.pt, list |-> s.list]
          \/ /\ s.mem.state = "ok" /\ m.state = "ok" /\ r.state # "ok"
             /\ z = [mem |-> [kk EXCEPT !.used = r.used, !.state = r.state], pt |-> r.pt, list |-> s.list]
          \/ /\ s.mem.state = "ok" /\ m.state = "ok" /\ r.state = "ok"
             /\ z = [mem |-> [kk EXCEPT !.used = r.used, !.state = IF v.ok THEN "ok" ELSE "panic"],
                     pt |-> r.pt, list |-> v.list]
      BY <1>1, LoadSegmentCases DEF v
    <2> HIDE DEF z, m, kk, r
    <2> QED
      BY <2>1
  <1>3. FencedList(v.list)
    BY ReserveFenced
  <1> QED
    BY <1>2, <1>3

\* The list of a process that is loaded, whatever its segments are.
LEMMA LoadBinaryFenced ==
  ASSUME NEW file, NEW top, NEW m0, m0 = [file EXCEPT !.used = @ \cup {top.base}], KMemOK(m0)
  PROVE  FencedList(LoadBinary(file, top).list)
  <1> DEFINE N == Len(Segments)
             start == [mem |-> m0, pt |-> NoEntries, list |-> NewList(PAGE_SIZE, VaPages)]
  <1>1. PICK h : /\ h[0] = start /\ LoadBinary(file, top) = h[N]
                 /\ \A k \in 1..N : h[k] = LoadSegment(h[k - 1], Segments[k])
    BY LoadBinaryTurns
  <1>2. N \in Nat /\ \A k \in 1..N : Segments[k].page \in Nat /\ Segments[k].pages \in Nat \ {0}
    BY SegmentFacts
  <1>3. LoadOK(m0, start) /\ FencedList(start.list)
    BY LoadStartOK, NewFenced
  <1> HIDE DEF start, N
  <1> DEFINE G == {k \in 0..N : LoadOK(m0, h[k]) /\ FencedList(h[k].list)}
  <1>4. 0 \in G
    BY <1>1, <1>2, <1>3
  <1>5. \A k \in 0..(N - 1) : k \in G => k + 1 \in G
    <2> SUFFICES ASSUME NEW k \in 0..(N - 1), k \in G PROVE k + 1 \in G
      OBVIOUS
    <2>1. k + 1 \in 1..N /\ (k + 1) - 1 = k /\ k + 1 \in 0..N
      BY <1>2
    <2>2. h[k + 1] = LoadSegment(h[k], Segments[k + 1])
      BY <1>1, <2>1
    <2>3. Segments[k + 1].page \in Nat /\ Segments[k + 1].pages \in Nat \ {0}
      BY <1>2, <2>1
    <2>4. LoadOK(m0, LoadSegment(h[k], Segments[k + 1]))
      BY <2>3, LoadSegmentPhysical
    <2>5. FencedList(LoadSegment(h[k], Segments[k + 1]).list)
      BY <2>3, LoadSegmentFenced
    <2> QED
      BY <2>1, <2>2, <2>4, <2>5
  <1> HIDE DEF G
  <1>6. \A k \in 0..N : k \in G
    BY <1>2, <1>4, <1>5, Induction
  <1>7. N \in G
    BY <1>2, <1>6
  <1> QED
    BY <1>1, <1>7 DEF G

\* Loading a binary keeps the ranges that the kernel has in use.
LEMMA LoadBinaryKeeps ==
  ASSUME NEW file, NEW top, NEW m0, m0 = [file EXCEPT !.used = @ \cup {top.base}], KMemOK(m0),
         NEW H, Side(m0.kfree, H)
  PROVE  LoadKeeps(H, m0, LoadBinary(file, top))
  <1> DEFINE N == Len(Segments)
             start == [mem |-> m0, pt |-> NoEntries, list |-> NewList(PAGE_SIZE, VaPages)]
  <1>1. PICK h : /\ h[0] = start /\ LoadBinary(file, top) = h[N]
                 /\ \A k \in 1..N : h[k] = LoadSegment(h[k - 1], Segments[k])
    BY LoadBinaryTurns
  <1>2. N \in Nat /\ \A k \in 1..N : Segments[k].page \in Nat /\ Segments[k].pages \in Nat \ {0}
    BY SegmentFacts
  <1>3. LoadOK(m0, start) /\ LoadKeeps(H, m0, start)
    <2>1. start.mem = m0
      OBVIOUS
    <2> HIDE DEF start
    <2>2. LoadKeeps(H, m0, start)
      BY <2>1, AgreeSelf DEF LoadKeeps, Kept
    <2> QED
      BY <2>2, LoadStartOK DEF start
  <1> HIDE DEF start, N
  <1> DEFINE G == {k \in 0..N : LoadOK(m0, h[k]) /\ LoadKeeps(H, m0, h[k])}
  <1>4. 0 \in G
    BY <1>1, <1>2, <1>3
  <1>5. \A k \in 0..(N - 1) : k \in G => k + 1 \in G
    <2> SUFFICES ASSUME NEW k \in 0..(N - 1), k \in G PROVE k + 1 \in G
      OBVIOUS
    <2>1. k + 1 \in 1..N /\ (k + 1) - 1 = k /\ k + 1 \in 0..N
      BY <1>2
    <2>2. h[k + 1] = LoadSegment(h[k], Segments[k + 1])
      BY <1>1, <2>1
    <2>3. Segments[k + 1].page \in Nat /\ Segments[k + 1].pages \in Nat \ {0}
      BY <1>2, <2>1
    <2>4. LoadOK(m0, LoadSegment(h[k], Segments[k + 1]))
      BY <2>3, LoadSegmentPhysical
    <2>5. LoadKeeps(H, m0, LoadSegment(h[k], Segments[k + 1]))
      BY <2>3, LoadSegmentKeeps
    <2> QED
      BY <2>1, <2>2, <2>4, <2>5
  <1> HIDE DEF G
  <1>6. \A k \in 0..N : k \in G
    BY <1>2, <1>4, <1>5, Induction
  <1>7. N \in G
    BY <1>2, <1>6
  <1> QED
    BY <1>1, <1>7 DEF G

\* A binary that is loaded: its segments are what is mapped, and every page
\* taken is mapped or is a table.
LEMMA LoadBinaryMapped ==
  ASSUME ~SegmentsOverlap, NEW file, NEW top, NEW m0, m0 = [file EXCEPT !.used = @ \cup {top.base}], KMemOK(m0),
         NEW s, s = LoadBinary(file, top), s.mem.state = "ok"
  PROVE  LoadMapped(m0, Len(Segments), s)
  <1> DEFINE N == Len(Segments)
             start == [mem |-> m0, pt |-> NoEntries, list |-> NewList(PAGE_SIZE, VaPages)]
  <1>1. PICK h : /\ h[0] = start /\ LoadBinary(file, top) = h[N]
                 /\ \A k \in 1..N : h[k] = LoadSegment(h[k - 1], Segments[k])
    BY LoadBinaryTurns
  <1>2. N \in Nat /\ \A k \in 1..N : Segments[k].page \in Nat /\ Segments[k].pages \in Nat \ {0}
    BY SegmentFacts
  <1>3. LoadOK(m0, start) /\ LoadMapped(m0, 0, start)
    BY LoadStartOK, LoadStarts
  <1> HIDE DEF start
  <1> DEFINE G == {k \in 0..N : LoadOK(m0, h[k]) /\ (h[k].mem.state = "ok" => LoadMapped(m0, k, h[k]))}
  <1>4. 0 \in G
    BY <1>1, <1>2, <1>3
  <1>5. \A k \in 0..(N - 1) : k \in G => k + 1 \in G
    <2> SUFFICES ASSUME NEW k \in 0..(N - 1), k \in G PROVE k + 1 \in G
      OBVIOUS
    <2>1. k + 1 \in 1..N /\ (k + 1) - 1 = k /\ k + 1 \in 0..N
      BY <1>2
    <2>2. PICK t, z : t = h[k] /\ z = h[k + 1]
      OBVIOUS
    <2>3. z = LoadSegment(t, Segments[k + 1])
      BY <1>1, <2>1, <2>2
    <2>4. LoadOK(m0, t) /\ (t.mem.state = "ok" => LoadMapped(m0, k, t))
      BY <2>2
    <2>5. Segments[k + 1].page \in Nat /\ Segments[k + 1].pages \in Nat \ {0}
      BY <1>2, <2>1
    <2>6. LoadOK(m0, z)
      BY <2>3, <2>4, <2>5, LoadSegmentPhysical
    <2>7. ASSUME z.mem.state = "ok" PROVE LoadMapped(m0, k + 1, z)
      BY <2>3, <2>4, <2>7, LoadSegmentMapped
    <2> QED
      BY <2>1, <2>2, <2>6, <2>7
  <1> HIDE DEF G, N
  <1>6. \A k \in 0..N : k \in G
    BY <1>2, <1>4, <1>5, Induction
  <1>7. N \in G
    BY <1>2, <1>6
  <1>8. LoadMapped(m0, N, s)
    BY <1>1, <1>7 DEF G
  <1> QED
    BY <1>8 DEF N

-----------------------------------------------------------------------------
(* spawn_process. *)

\* The buffer of the file is dropped, whatever was loaded meanwhile.
DropsFile(H, p, file, m, b, h) ==
  /\ KMemOK(m) /\ Side(m.kfree, H \cup {h}) /\ h \notin H
  /\ Kept(H, p, file.ktable) /\ Kept(H \cup {h}, file.ktable, m.ktable)
  /\ Tiled(file.ktable, Page(b.addr), b.pages) /\ h.addr = b.addr /\ h.pages = b.pages
  /\ b.addr \in Nat /\ b.pages \in Nat \ {0} /\ PagesFrom(b.base, b.pages) \cap TablePages(m.ktable) = {}

\* The kernel's other ranges keep their mappings and their addresses.
LEMMA DropFileKeeps ==
  ASSUME NEW H, NEW p, NEW file, NEW m, NEW b, NEW h, DropsFile(H, p, file, m, b, h), NEW r, r = BufferDrop(m, b)
  PROVE  Side(r.kfree, H) /\ Kept(H, p, r.ktable)
  <1> DEFINE G == H \cup {h}
  <1>1. /\ KMemOK(m) /\ Side(m.kfree, G) /\ h \in G /\ G \ {h} = H
        /\ Kept(H, p, file.ktable) /\ Kept(G, file.ktable, m.ktable) /\ H \subseteq G
        /\ Tiled(file.ktable, Page(b.addr), b.pages) /\ h.addr = b.addr /\ h.pages = b.pages
        /\ b.addr \in Nat /\ b.pages \in Nat \ {0} /\ PagesFrom(b.base, b.pages) \cap TablePages(m.ktable) = {}
    BY DEF DropsFile
  <1> HIDE DEF G
  <1>2. r.ktable = UnmapRange(m.ktable, b.addr, b.pages).pt /\ r.kfree = VFree(m.kfree, b.addr, b.pages)
    BY <1>1, BufferDropFacts
  <1>3. Tiled(m.ktable, Page(b.addr), b.pages)
    <2>1. Agree(file.ktable, m.ktable, Page(h.addr), h.pages)
      BY <1>1 DEF Kept
    <2>2. PICK x \in Nat, n \in Nat : x = Page(b.addr) /\ n = b.pages
      BY <1>1, SideRange
    <2>3. Agree(file.ktable, m.ktable, x, n) /\ Tiled(file.ktable, x, n)
      BY <1>1, <2>1, <2>2
    <2> QED
      BY <2>2, <2>3, AgreeFacts
  <1>4. Side(r.kfree, G \ {h}) /\ Kept(G \ {h}, m.ktable, r.ktable)
    BY <1>1, <1>2, <1>3, UnmapVirtualKeeps
  <1>5. Kept(H, file.ktable, m.ktable)
    BY <1>1, KeptFewer
  <1>6. Kept(H, p, m.ktable)
    BY <1>1, <1>5, KeptTrans
  <1> QED
    BY <1>1, <1>4, <1>6, KeptTrans

\* What spawn_process leaves to the kernel and gives to the process.
SpawnKept(m, H, end) ==
  /\ Side(end.mem.kfree, H) /\ Kept(H, m.ktable, end.mem.ktable)
  /\ end.ok => Shares(end.list, {})
  /\ end.ok /\ ~SegmentsOverlap =>
       /\ TablePages(m.ktable) \subseteq TablePages(end.mem.ktable)
       /\ end.mem.used \subseteq m.used \cup UserPages(end.pt) \cup TablePages(end.mem.ktable) \cup {end.root}

\* spawn_process leaves the kernel's ranges, and gives the process its segments.
LEMMA SpawnKeeps ==
  ASSUME NEW m, KMemOK(m), NEW H, Side(m.kfree, H)
  PROVE  SpawnKept(m, H, Spawn(m))
  <1> DEFINE file == BufferAlloc(m, FilePages)
             top == AllocContig(file.used, 1)
             s == LoadBinary(file, top)
             buffer == [base |-> file.base, addr |-> file.addr, pages |-> FilePages]
             made == {top.base} \cup TablePages(s.pt)
             end == Spawn(m)
             B == PagesFrom(file.base, FilePages)
             m0 == [file EXCEPT !.used = @ \cup {top.base}]
             m1 == [s.mem EXCEPT !.used = s.mem.used \ made]
             h == [owner |-> <<"file", 0>>, addr |-> file.addr, pages |-> FilePages]
  <1>1. \/ /\ file.state # "ok"
           /\ ~end.ok /\ end.mem = file /\ end.state = file.state
           /\ end.root = -1 /\ end.pt = NoEntries /\ end.list = <<>>
        \/ /\ file.state = "ok" /\ ~top.ok
           /\ ~end.ok /\ end.mem = BufferDrop(file, buffer) /\ end.state = "error"
           /\ end.root = -1 /\ end.pt = NoEntries /\ end.list = <<>>
        \/ /\ file.state = "ok" /\ top.ok /\ s.mem.state # "ok"
           /\ ~end.ok /\ end.mem = BufferDrop(m1, buffer)
           /\ end.state = s.mem.state
           /\ end.root = -1 /\ end.pt = NoEntries /\ end.list = <<>>
        \/ /\ file.state = "ok" /\ top.ok /\ s.mem.state = "ok"
           /\ end.ok /\ end.mem = BufferDrop(s.mem, buffer) /\ end.state = "ok"
           /\ end.root = top.base /\ end.pt = s.pt /\ end.list = s.list
    BY SpawnCases
  <1>2. SpawnParts(m, file, top, s, made, m0, m1)
    BY SpawnPartsFacts
  <1>3. TakesRange(H, m, file, FilePages)
    BY <1>2, BufferAllocKeeps DEF SpawnParts
  <1>4. ASSUME top.ok, NEW G, Side(file.kfree, G) PROVE LoadKeeps(G, m0, s)
    <2>1. KMemOK(m0) /\ m0.kfree = file.kfree
      BY <1>2, <1>4 DEF SpawnParts
    <2>2. Side(m0.kfree, G)
      BY <1>4, <2>1
    <2> QED
      BY <2>1, <2>2, LoadBinaryKeeps
  <1>18. ASSUME top.ok PROVE Shares(s.list, {})
    <2>1. KMemOK(m0)
      BY <1>2, <1>18 DEF SpawnParts
    <2>2. FencedList(s.list)
      BY <2>1, LoadBinaryFenced
    <2> QED
      BY <2>2, FencedShares
  <1>5. ASSUME top.ok, s.mem.state = "ok", ~SegmentsOverlap PROVE LoadMapped(m0, Len(Segments), s)
    <2>1. KMemOK(m0)
      BY <1>2, <1>5 DEF SpawnParts
    <2> QED
      BY <1>5, <2>1, LoadBinaryMapped
  <1> HIDE DEF file, end, m0, m1, top, s, made
  <1>6. /\ FilePages \in Nat \ {0} /\ KMemOK(file) /\ file.addr \in Nat
        /\ TablePages(m.ktable) \subseteq TablePages(file.ktable) /\ TablePages(m.ktable) \subseteq m.used
        /\ TablePages(file.ktable) \subseteq file.used /\ m.used \subseteq file.used
        /\ file.state = "ok" => /\ B \subseteq file.used \ m.used /\ B \cap TablePages(file.ktable) = {}
                                /\ file.used \subseteq m.used \cup B \cup TablePages(file.ktable)
    BY <1>2 DEF SpawnParts, Buffered, KMemOK
  <1>7. top.ok => /\ m0.used = file.used \cup {top.base} /\ m0.ktable = file.ktable
                  /\ KMemOK(s.mem) /\ s.mem.kfree = m1.kfree /\ s.mem.ktable = m1.ktable /\ KMemOK(m1)
                  /\ TablePages(s.mem.ktable) \subseteq TablePages(m0.ktable) \cup (s.mem.used \ m0.used)
    BY <1>2 DEF SpawnParts, LoadOK
  <1>8. top.ok /\ file.state = "ok" => B \cap TablePages(s.mem.ktable) = {}
    BY <1>6, <1>7
  <1>9. h.addr = file.addr /\ h.pages = FilePages /\ buffer.addr = file.addr /\ buffer.pages = FilePages /\ buffer.base = file.base
    OBVIOUS
  <1> HIDE DEF h, buffer
  <1>10. Side(file.kfree, H) /\ Kept(H, m.ktable, file.ktable)
    BY <1>3 DEF TakesRange
  <1>11. ASSUME file.state = "ok" PROVE Side(file.kfree, H \cup {h}) /\ h \notin H /\ Tiled(file.ktable, Page(buffer.addr), buffer.pages)
    BY <1>3, <1>9, <1>11 DEF TakesRange
  <1>12. ASSUME file.state = "ok", NEW mm, KMemOK(mm), Side(mm.kfree, H \cup {h}), Kept(H \cup {h}, file.ktable, mm.ktable),
                B \cap TablePages(mm.ktable) = {}
         PROVE  Side(BufferDrop(mm, buffer).kfree, H) /\ Kept(H, m.ktable, BufferDrop(mm, buffer).ktable)
    <2>1. DropsFile(H, m.ktable, file, mm, buffer, h)
      BY <1>6, <1>9, <1>10, <1>11, <1>12 DEF DropsFile
    <2> QED
      BY <2>1, DropFileKeeps
  <1>13. ASSUME file.state = "ok", top.ok
         PROVE  Side(s.mem.kfree, H \cup {h}) /\ Kept(H \cup {h}, file.ktable, s.mem.ktable)
    <2>1. LoadKeeps(H \cup {h}, m0, s)
      BY <1>4, <1>11, <1>13
    <2> QED
      BY <1>7, <1>13, <2>1 DEF LoadKeeps
  <1>14. CASE file.state # "ok"
    BY <1>1, <1>10, <1>14 DEF SpawnKept, end
  <1>15. CASE file.state = "ok" /\ ~top.ok
    <2>1. end.mem = BufferDrop(file, buffer) /\ ~end.ok
      BY <1>1, <1>15
    <2>2. Kept(H \cup {h}, file.ktable, file.ktable)
      BY AgreeSelf DEF Kept
    <2>3. Side(BufferDrop(file, buffer).kfree, H) /\ Kept(H, m.ktable, BufferDrop(file, buffer).ktable)
      BY <1>6, <1>11, <1>12, <1>15, <2>2
    <2> QED
      BY <2>1, <2>3 DEF SpawnKept, end
  <1>16. CASE file.state = "ok" /\ top.ok /\ s.mem.state # "ok"
    <2>1. end.mem = BufferDrop(m1, buffer) /\ ~end.ok
      BY <1>1, <1>16
    <2>2. KMemOK(m1) /\ Side(m1.kfree, H \cup {h}) /\ Kept(H \cup {h}, file.ktable, m1.ktable) /\ B \cap TablePages(m1.ktable) = {}
      BY <1>7, <1>8, <1>13, <1>16
    <2>3. Side(BufferDrop(m1, buffer).kfree, H) /\ Kept(H, m.ktable, BufferDrop(m1, buffer).ktable)
      BY <1>12, <1>16, <2>2
    <2> QED
      BY <2>1, <2>3 DEF SpawnKept, end
  <1>17. CASE file.state = "ok" /\ top.ok /\ s.mem.state = "ok"
    <2>1. end.mem = BufferDrop(s.mem, buffer) /\ end.ok /\ end.root = top.base /\ end.pt = s.pt /\ end.list = s.list
      BY <1>1, <1>17
    <2>2. PICK mm : mm = s.mem
      OBVIOUS
    <2>3. KMemOK(mm) /\ Side(mm.kfree, H \cup {h}) /\ Kept(H \cup {h}, file.ktable, mm.ktable) /\ B \cap TablePages(mm.ktable) = {}
      BY <1>7, <1>8, <1>13, <1>17, <2>2
    <2>4. Side(BufferDrop(mm, buffer).kfree, H) /\ Kept(H, m.ktable, BufferDrop(mm, buffer).ktable)
      BY <1>12, <1>17, <2>3
    <2>6. Shares(end.list, {})
      BY <1>17, <1>18, <2>1
    <2>5. ASSUME ~SegmentsOverlap
          PROVE  /\ end.mem.used \subseteq m.used \cup UserPages(end.pt) \cup TablePages(end.mem.ktable) \cup {end.root}
                 /\ TablePages(m.ktable) \subseteq TablePages(end.mem.ktable)
      <3>1. LoadMapped(m0, Len(Segments), s)
        BY <1>5, <1>17, <2>5
      <3>2. PagesFrom(buffer.base, buffer.pages) = B /\ buffer.addr \in Nat /\ buffer.pages \in Nat \ {0}
        BY <1>6, <1>9
      <3>3. /\ BufferDrop(mm, buffer).used = mm.used \ B
            /\ TablePages(BufferDrop(mm, buffer).ktable) = TablePages(mm.ktable)
        BY <2>3, <3>2, BufferDropFacts
      <3>4. end.mem.used = s.mem.used \ B /\ TablePages(end.mem.ktable) = TablePages(s.mem.ktable)
        BY <2>1, <2>2, <3>3
      <3>5. /\ s.mem.used \subseteq m0.used \cup UserPages(s.pt) \cup TablePages(s.mem.ktable)
            /\ TablePages(m0.ktable) \subseteq TablePages(s.mem.ktable)
        BY <3>1 DEF LoadMapped
      <3>6. end.mem.used \subseteq m.used \cup UserPages(end.pt) \cup TablePages(end.mem.ktable) \cup {end.root}
        BY <1>6, <1>7, <1>17, <2>1, <3>4, <3>5
      <3>7. TablePages(m.ktable) \subseteq TablePages(end.mem.ktable)
        BY <1>6, <1>7, <1>17, <3>4, <3>5
      <3> QED
        BY <3>6, <3>7
    <2> QED
      BY <2>1, <2>2, <2>4, <2>5, <2>6 DEF SpawnKept, end
  <1> QED
    BY <1>14, <1>15, <1>16, <1>17

-----------------------------------------------------------------------------
(* The remaining steps, and the virtual ranges in every state. *)

\* PhysicalBuffer::alloc takes a range that nothing in use overlaps.
LEMMA AllocBufferShares ==
  ASSUME PhysInv, ShareInv, NEW n \in Sizes, AllocBuffer(n)
  PROVE  ShareInv'
  <1>1. MemOK /\ KernelOK /\ PagesOK /\ n \in Nat \ {0}
    BY AddressSpaceAssumption DEF PhysInv
  <1> DEFINE m == BufferAlloc(KMem, n)
             b == [base |-> m.base, addr |-> m.addr, pages |-> n]
             h == Range1("buffer", b)
  <1>2. /\ job = Idle /\ buffers = {} /\ kfree' = m.kfree
        /\ buffers' = IF m.state = "ok" THEN {b} ELSE {}
        /\ UNCHANGED <<root, ufree, queues, regions, job>>
    BY DEF AllocBuffer, proc
  <1>3. KMem.kfree = kfree /\ KMemOK(KMem)
    BY <1>1, KMemFacts
  <1>4. Side(KMem.kfree, KHeld) /\ Shares(ufree, UHeld)
    BY <1>3 DEF ShareInv
  <1>5. TakesRange(KHeld, KMem, m, n)
    BY <1>1, <1>3, <1>4, BufferAllocKeeps
  <1>6. b.addr = m.addr /\ b.pages = n
    OBVIOUS
  <1> HIDE DEF m, b
  <1>7. h.addr = m.addr /\ h.pages = n
    BY <1>6, RangeFields
  <1>8. UNCHANGED <<JobHoldsK, JobHoldsU, JobKRange, JobURange>>
    BY <1>2 DEF JobHoldsK, JobHoldsU, JobKRange, JobURange
  <1>9. UHeld' = UHeld /\ KHeld' = IF m.state = "ok" THEN KHeld \cup {h} ELSE KHeld
    BY <1>2, <1>8, HeldParts, HeldPartsNext
  <1> HIDE DEF h
  <1>10. Side(m.kfree, KHeld) /\ (m.state = "ok" => Side(m.kfree, KHeld \cup {h}))
    BY <1>5, <1>7 DEF TakesRange
  <1> QED
    BY <1>2, <1>4, <1>9, <1>10 DEF ShareInv

\* spawn_process takes and gives back kernel addresses; the free blocks of the
\* new process are apart.
LEMMA SpawnProcessShares ==
  ASSUME PhysInv, ShareInv, SpawnProcess
  PROVE  ShareInv'
  <1>1. MemOK /\ ProcOK /\ PagesOK
    BY DEF PhysInv
  <1>2. PICK end : /\ end = Spawn(KMem) /\ kfree' = end.mem.kfree /\ root' = end.root /\ ufree' = end.list
    BY SpawnEffect
  <1>3. job = Idle /\ root = -1 /\ UNCHANGED <<queues, regions, buffers, job>> /\ queues = {} /\ regions = {}
    BY <1>1, SpawnEffect DEF ProcOK
  <1>4. KMemOK(KMem) /\ KMem.kfree = kfree
    BY <1>1, KMemFacts
  <1>5. Side(KMem.kfree, KHeld)
    BY <1>4 DEF ShareInv
  <1>6. SpawnKept(KMem, KHeld, end)
    BY <1>2, <1>4, <1>5, SpawnKeeps
  <1>7. ~end.ok => end.root = -1 /\ end.list = <<>>
    BY <1>2, <1>4, SpawnFacts DEF Spawned
  <1>8. ~JobHoldsK' /\ ~JobHoldsU' /\ ~JobHoldsK
    BY <1>3, HeldAt, HeldAtNext DEF Idle
  <1>9. KHeld' = KHeld
    BY <1>3, <1>8, HeldParts, HeldPartsNext
  <1>10. UHeld' = {}
    BY <1>3, <1>8, HeldPartsNext
  <1>11. Shares(ufree', UHeld')
    <2>1. CASE end.ok
      BY <1>2, <1>6, <1>10, <2>1 DEF SpawnKept
    <2>2. CASE ~end.ok
      <3>1. Shares(<<>>, {})
        BY DEF Shares
      <3> QED
        BY <1>2, <1>7, <1>10, <2>2, <3>1
    <2> QED
      BY <2>1, <2>2
  <1> QED
    BY <1>2, <1>6, <1>9, <1>11 DEF SpawnKept, ShareInv

\* At the start the kernel's list is one block and nothing is in use.
LEMMA InitShares == Init => ShareInv
  <1> SUFFICES ASSUME Init PROVE ShareInv
    OBVIOUS
  <1>1. /\ kfree = NewList(0, VaPages) /\ root = -1 /\ ufree = <<>> /\ queues = {} /\ regions = {} /\ buffers = {} /\ job = Idle
    BY DEF Init
  <1>2. KHeld = {} /\ UHeld = {}
    BY <1>1, HeldParts, HeldAt DEF Idle
  <1>3. kfree \in Seq(Block) /\ Len(kfree) = 1 /\ kfree[1].address = 0
    BY <1>1, AddressSpaceAssumption DEF NewList, Block
  <1>4. PICK n : n = Len(kfree)
    OBVIOUS
  <1>5. \A i \in 1..n : i = 1
    BY <1>3, <1>4
  <1>6. Aligned(0)
    <2>1. 0 = Bytes(0)
      BY PageSizeAssumption DEF Bytes
    <2> QED
      BY <2>1, AlignedFacts
  <1>7. Side(kfree, {})
    BY <1>3, <1>4, <1>5, <1>6 DEF Side, Shares, AlignedList
  <1>8. Shares(<<>>, {})
    BY DEF Shares
  <1> QED
    BY <1>1, <1>2, <1>7, <1>8 DEF ShareInv

\* No step breaks the sharing out of the addresses.
LEMMA NextShares ==
  ASSUME PhysInv, ShareInv, [Next]_vars
  PROVE  ShareInv'
  <1>1. PhysInv'
    BY NextPhys
  <1>2. ASSUME NEW n \in Sizes, HeapAllocate(n) PROVE ShareInv'
    BY <1>2, HeapAllocateShares
  <1>3. ASSUME NEW r \in regions, FreeRegion(r) PROVE ShareInv'
    BY <1>3, FreeRegionShares
  <1>4. CASE SpawnProcess
    BY <1>4, SpawnProcessShares
  <1>5. CASE DropProcess
    BY <1>5, DropProcessShares
  <1>6. ASSUME NEW n \in Sizes, AllocBuffer(n) PROVE ShareInv'
    BY <1>6, AllocBufferShares
  <1>7. ASSUME NEW q \in queues, DestroyQueue(q) PROVE ShareInv'
    BY <1>7, DestroyQueueShares
  <1>8. ASSUME NEW b \in buffers, DropBuffer(b) PROVE ShareInv'
    BY <1>8, DropBufferShares
  <1>9. ASSUME NEW n \in Sizes, CreateCompletionQueue(n) PROVE ShareInv'
    BY <1>1, <1>9, QuietShares
  <1>10. ASSUME NEW n \in Sizes, NEW q \in queues, CreateSubmissionQueue(n, q.id) PROVE ShareInv'
    <2>1. q.id \in Nat
      BY DEF PhysInv, ProcOK, Queue
    <2>2. \E x \in Sizes : \E a \in Nat : CreateSubmissionQueue(x, a)
      BY <1>10, <2>1
    <2> QED
      BY <1>1, <2>2, QuietShares
  <1>11. ASSUME NEW n \in Sizes, AllocStack(n) PROVE ShareInv'
    BY <1>1, <1>11, QuietShares
  <1>12. CASE AllocStep
    BY <1>1, <1>12, QuietShares, AllocUserAddressShares, AllocKernelAddressShares, AllocDoneShares DEF AllocStep
  <1>13. CASE DestroyStep
    BY <1>1, <1>13, QuietShares, DestroyFreeAddressShares DEF DestroyStep
  <1>14. CASE UNCHANGED vars
    BY <1>1, <1>14, QuietShares
  <1>15. CASE Handler
    BY <1>2, <1>3, <1>15 DEF Handler
  <1>16. CASE StartJob
    BY <1>4, <1>5, <1>6, <1>7, <1>8, <1>9, <1>10, <1>11, <1>16 DEF StartJob
  <1> QED
    BY <1>12, <1>13, <1>14, <1>15, <1>16 DEF Next

\* The invariant of the virtual ranges.
LEMMA SharesAlways == Spec => [](PhysInv /\ ShareInv)
  <1>1. Init => PhysInv /\ ShareInv
    BY InitPhys, InitShares
  <1>2. PhysInv /\ ShareInv /\ [Next]_vars => (PhysInv /\ ShareInv)'
    BY NextPhys, NextShares
  <1> QED
    BY <1>1, <1>2, PTL DEF Spec

\* Ranges that stand for ranges of H, two for two, are disjoint, also from the
\* free blocks.
LEMMA SideDisjoint ==
  ASSUME NEW list, NEW H, Shares(list, H), NEW R,
         \A a \in R : \E g \in H : a.addr = g.addr /\ a.pages = g.pages,
         \A a, b \in R : a # b => \E g, h \in H : /\ g # h /\ a.addr = g.addr /\ a.pages = g.pages
                                                  /\ b.addr = h.addr /\ b.pages = h.pages
  PROVE  Disjoint(Blocks(list) \cup R)
  <1> SUFFICES ASSUME NEW a \in Blocks(list) \cup R, NEW b \in Blocks(list) \cup R, a # b
               PROVE  Apart(a.addr, a.pages, b.addr, b.pages)
    BY DEF Disjoint, Separate, Apart
  <1>1. Shares(list, H)
    OBVIOUS
  <1>2. DOMAIN list = 1..Len(list)
    BY <1>1 DEF Shares
  <1>3. \A x \in Blocks(list) : \E i \in 1..Len(list) : /\ x = [owner |-> <<"free", i>>, addr |-> list[i].address, pages |-> list[i].size]
    BY <1>2 DEF Blocks
  <1>4. CASE a \in R /\ b \in R
    BY <1>1, <1>4 DEF Shares
  <1>5. CASE a \in Blocks(list) /\ b \in Blocks(list)
    <2>1. PICK i \in 1..Len(list) : a = [owner |-> <<"free", i>>, addr |-> list[i].address, pages |-> list[i].size]
      BY <1>3, <1>5
    <2>2. PICK j \in 1..Len(list) : b = [owner |-> <<"free", j>>, addr |-> list[j].address, pages |-> list[j].size]
      BY <1>3, <1>5
    <2>3. Apart(list[i].address, list[i].size, list[j].address, list[j].size)
      BY <1>1, <2>1, <2>2 DEF Shares
    <2> QED
      BY <2>1, <2>2, <2>3
  <1>6. ASSUME NEW x \in Blocks(list), NEW y \in R
        PROVE  Apart(x.addr, x.pages, y.addr, y.pages) /\ Apart(y.addr, y.pages, x.addr, x.pages)
    <2>1. PICK i \in 1..Len(list) : x = [owner |-> <<"free", i>>, addr |-> list[i].address, pages |-> list[i].size]
      BY <1>3
    <2>2. PICK g \in H : y.addr = g.addr /\ y.pages = g.pages
      OBVIOUS
    <2>3. Apart(list[i].address, list[i].size, g.addr, g.pages)
      BY <1>1 DEF Shares
    <2>4. x.addr = list[i].address /\ x.pages = list[i].size
      BY <2>1
    <2>5. Apart(x.addr, x.pages, y.addr, y.pages)
      BY <2>2, <2>3, <2>4
    <2> QED
      BY <2>5 DEF Apart
  <1> QED
    BY <1>4, <1>5, <1>6

\* No address is both free and in use, or in use twice, in the kernel's or in
\* the process's address space, whatever the segments of the binary are.
THEOREM DisjointAddresses == Spec => []AddressesDisjoint
  <1>1. ShareInv => AddressesDisjoint
    <2> SUFFICES ASSUME ShareInv PROVE AddressesDisjoint
      OBVIOUS
    <2> DEFINE KQ == {[addr |-> q.kaddr, pages |-> q.pages] : q \in queues}
               UQ == {[addr |-> q.uaddr, pages |-> q.pages] : q \in queues}
               K == Held(buffers, "buffer") \cup Held(KQ, "queue")
               U == Held(regions, "region") \cup Held(UQ, "queue")
    <2>1. Shares(kfree, KHeld) /\ Shares(ufree, UHeld)
      BY DEF ShareInv, Side
    <2>2. \A a \in K : \/ \E b \in buffers : a = Range1("buffer", b)
                       \/ \E q \in queues : a = [owner |-> <<"queue", [addr |-> q.kaddr, pages |-> q.pages]>>, addr |-> q.kaddr, pages |-> q.pages]
      BY DEF Held, Range1
    <2>3. \A a \in U : \/ \E b \in regions : a = Range1("region", b)
                       \/ \E q \in queues : a = [owner |-> <<"queue", [addr |-> q.uaddr, pages |-> q.pages]>>, addr |-> q.uaddr, pages |-> q.pages]
      BY DEF Held, Range1
    <2>4. Disjoint(Blocks(kfree) \cup K)
      <3> HIDE DEF K
      <3> DEFINE For(a, g) ==
                   \/ \E b \in buffers : g = Range1("buffer", b) /\ a = g
                   \/ \E q \in queues : /\ g = KRange(q)
                                        /\ a = [owner |-> <<"queue", [addr |-> q.kaddr, pages |-> q.pages]>>, addr |-> q.kaddr, pages |-> q.pages]
      <3>1. ASSUME NEW a \in K PROVE \E g \in KHeld : For(a, g)
        <4>1. CASE \E b \in buffers : a = Range1("buffer", b)
          BY <4>1, HeldParts
        <4>2. CASE \E q \in queues : a = [owner |-> <<"queue", [addr |-> q.kaddr, pages |-> q.pages]>>, addr |-> q.kaddr, pages |-> q.pages]
          <5>1. PICK q \in queues : a = [owner |-> <<"queue", [addr |-> q.kaddr, pages |-> q.pages]>>, addr |-> q.kaddr, pages |-> q.pages]
            BY <4>2
          <5>2. KRange(q) \in KHeld /\ For(a, KRange(q))
            BY <5>1, HeldParts
          <5> QED
            BY <5>2
        <4> QED
          BY <2>2, <4>1, <4>2
      <3>2. ASSUME NEW a, NEW g, For(a, g) PROVE a.addr = g.addr /\ a.pages = g.pages
        BY <3>2 DEF Range1, KRange
      <3>3. ASSUME NEW a, NEW b, NEW g, For(a, g), For(b, g) PROVE a = b
        BY <3>3, OwnersDiffer
      <3> HIDE DEF For
      <3>4. \A a \in K : \E g \in KHeld : a.addr = g.addr /\ a.pages = g.pages
        BY <3>1, <3>2
      <3>5. \A a, b \in K : a # b => \E g, h \in KHeld : /\ g # h /\ a.addr = g.addr /\ a.pages = g.pages
                                                         /\ b.addr = h.addr /\ b.pages = h.pages
        <4> SUFFICES ASSUME NEW a \in K, NEW b \in K, a # b
                     PROVE  \E g, h \in KHeld : g # h /\ a.addr = g.addr /\ a.pages = g.pages /\ b.addr = h.addr /\ b.pages = h.pages
          OBVIOUS
        <4>1. PICK g \in KHeld : For(a, g)
          BY <3>1
        <4>2. PICK h \in KHeld : For(b, h)
          BY <3>1
        <4>3. g # h
          BY <3>3, <4>1, <4>2
        <4>4. a.addr = g.addr /\ a.pages = g.pages /\ b.addr = h.addr /\ b.pages = h.pages
          BY <3>2, <4>1, <4>2
        <4> QED
          BY <4>3, <4>4
      <3> QED
        BY <2>1, <3>4, <3>5, SideDisjoint
    <2>5. Disjoint(Blocks(ufree) \cup U)
      <3> HIDE DEF U
      <3> DEFINE For(a, g) ==
                   \/ \E b \in regions : g = Range1("region", b) /\ a = g
                   \/ \E q \in queues : /\ g = URange(q)
                                        /\ a = [owner |-> <<"queue", [addr |-> q.uaddr, pages |-> q.pages]>>, addr |-> q.uaddr, pages |-> q.pages]
      <3>1. ASSUME NEW a \in U PROVE \E g \in UHeld : For(a, g)
        <4>1. CASE \E b \in regions : a = Range1("region", b)
          BY <4>1, HeldParts
        <4>2. CASE \E q \in queues : a = [owner |-> <<"queue", [addr |-> q.uaddr, pages |-> q.pages]>>, addr |-> q.uaddr, pages |-> q.pages]
          <5>1. PICK q \in queues : a = [owner |-> <<"queue", [addr |-> q.uaddr, pages |-> q.pages]>>, addr |-> q.uaddr, pages |-> q.pages]
            BY <4>2
          <5>2. URange(q) \in UHeld /\ For(a, URange(q))
            BY <5>1, HeldParts
          <5> QED
            BY <5>2
        <4> QED
          BY <2>3, <4>1, <4>2
      <3>2. ASSUME NEW a, NEW g, For(a, g) PROVE a.addr = g.addr /\ a.pages = g.pages
        BY <3>2 DEF Range1, URange
      <3>3. ASSUME NEW a, NEW b, NEW g, For(a, g), For(b, g) PROVE a = b
        BY <3>3, OwnersDiffer
      <3> HIDE DEF For
      <3>4. \A a \in U : \E g \in UHeld : a.addr = g.addr /\ a.pages = g.pages
        BY <3>1, <3>2
      <3>5. \A a, b \in U : a # b => \E g, h \in UHeld : /\ g # h /\ a.addr = g.addr /\ a.pages = g.pages
                                                         /\ b.addr = h.addr /\ b.pages = h.pages
        <4> SUFFICES ASSUME NEW a \in U, NEW b \in U, a # b
                     PROVE  \E g, h \in UHeld : g # h /\ a.addr = g.addr /\ a.pages = g.pages /\ b.addr = h.addr /\ b.pages = h.pages
          OBVIOUS
        <4>1. PICK g \in UHeld : For(a, g)
          BY <3>1
        <4>2. PICK h \in UHeld : For(b, h)
          BY <3>1
        <4>3. g # h
          BY <3>3, <4>1, <4>2
        <4>4. a.addr = g.addr /\ a.pages = g.pages /\ b.addr = h.addr /\ b.pages = h.pages
          BY <3>2, <4>1, <4>2
        <4> QED
          BY <4>3, <4>4
      <3> QED
        BY <2>1, <3>4, <3>5, SideDisjoint
    <2>6. /\ Blocks(kfree) \cup K = Blocks(kfree) \cup Held(buffers, "buffer") \cup Held(KQ, "queue")
          /\ Blocks(ufree) \cup U = Blocks(ufree) \cup Held(regions, "region") \cup Held(UQ, "queue")
      OBVIOUS
    <2> QED
      BY <2>4, <2>5, <2>6 DEF AddressesDisjoint
  <1> QED
    BY <1>1, SharesAlways, PTL

-----------------------------------------------------------------------------
(* What stays mapped. *)

\* Tables that agree on a range agree on a part of it.
LEMMA AgreePart ==
  ASSUME NEW p, NEW q, NEW x \in Nat, NEW n \in Nat, Agree(p, q, x, n), NEW y \in Nat, NEW k \in Nat, x <= y, y + k <= x + n
  PROVE  Agree(p, q, y, k)
  <1> SUFFICES ASSUME NEW w \in Nat, y <= w, w < y + k PROVE SameAt(p, q, w)
    BY DEF Agree
  <1>1. x <= w /\ w < x + n
    OBVIOUS
  <1> QED
    BY <1>1 DEF Agree

\* Tables that agree on a range find the same pages in it.
LEMMA AgreeLookup ==
  ASSUME NEW p, NEW q, NEW x \in Nat, NEW n \in Nat, Agree(p, q, x, n)
  PROVE  LookupsAgree(p, q, x, n)
  BY AgreeFacts DEF LookupsAgree

\* Two tables that show the same pages still do when their ranges are kept.
LEMMA SamePagesKept ==
  ASSUME NEW ut, NEW ut2, NEW kt, NEW kt2, NEW x \in Nat, NEW y \in Nat, NEW n \in Nat,
         Agree(ut, ut2, x, n), Agree(kt, kt2, y, n), SamePages(ut, x, kt, y, n)
  PROVE  SamePages(ut2, x, kt2, y, n)
  <1>1. LookupsAgree(ut, ut2, x, n) /\ LookupsAgree(kt, kt2, y, n)
    BY AgreeLookup
  <1> QED
    BY <1>1 DEF SamePages, LookupsAgree

\* A queue stays mapped when both tables keep its ranges.
LEMMA QueueKept ==
  ASSUME NEW q, NEW ut, NEW ut2, NEW kt, NEW kt2, QueueMapped(q, ut, kt), q.pages \in Nat \ {0},
         Page(q.uaddr) \in Nat, Page(q.kaddr) \in Nat,
         Agree(ut, ut2, Page(q.uaddr), q.pages), Agree(kt, kt2, Page(q.kaddr), q.pages)
  PROVE  QueueMapped(q, ut2, kt2)
  <1>1. PICK x \in Nat, y \in Nat, n \in Nat : x = Page(q.uaddr) /\ y = Page(q.kaddr) /\ n = q.pages
    OBVIOUS
  <1>2. Tiled(ut, x, n) /\ Tiled(kt, y, n) /\ SamePages(ut, x, kt, y, n) /\ Agree(ut, ut2, x, n) /\ Agree(kt, kt2, y, n)
    BY <1>1 DEF QueueMapped
  <1>3. Tiled(ut2, x, n) /\ Tiled(kt2, y, n) /\ SamePages(ut2, x, kt2, y, n)
    BY <1>2, AgreeFacts, SamePagesKept
  <1> QED
    BY <1>1, <1>3 DEF QueueMapped

\* A region stays mapped when the table keeps its range.
LEMMA RegionKept ==
  ASSUME NEW r, NEW p, NEW q, RegionMapped(r, p), r.pages \in Nat \ {0}, Page(r.addr) \in Nat, Agree(p, q, Page(r.addr), r.pages)
  PROVE  RegionMapped(r, q)
  <1>1. PICK x \in Nat, n \in Nat : x = Page(r.addr) /\ n = r.pages
    OBVIOUS
  <1>2. Tiled(p, x, n) /\ Agree(p, q, x, n)
    BY <1>1 DEF RegionMapped
  <1>3. Tiled(q, x, n)
    BY <1>2, AgreeFacts
  <1> QED
    BY <1>1, <1>3 DEF RegionMapped

\* The ranges a job holds, as JobHoldsU and JobHoldsK say.
HoldsU(j) == j.at \in {"kaddr", "pages", "umap", "kmap", "unmap", "lock_free", "vfree"}

\* The same for the kernel.
HoldsK(j) ==
  \/ j.at \in {"unmap", "lock_free", "vfree", "kunmap"}
  \/ j.at \in {"pages", "umap", "kmap"} /\ j.kind # "stack"

\* An allocation has mapped what it had when both tables keep its ranges.
LEMMA AllocKept ==
  ASSUME NEW j, IsAllocJob(j), j.at \in {"kaddr", "pages", "umap", "kmap"}, NEW ut, NEW ut2, NEW kt, NEW kt2, AllocMaps(j, ut, kt),
         Aligned(j.uaddr) => Agree(ut, ut2, Page(j.uaddr), j.pages), Page(j.uaddr) \in Nat, Page(j.kaddr) \in Nat,
         j.at # "kaddr" /\ j.kind # "stack" => Agree(kt, kt2, Page(j.kaddr), j.pages)
  PROVE  AllocMaps(j, ut2, kt2)
  <1>1. PICK x \in Nat, y \in Nat, n \in Nat, d \in Nat, o \in Nat, c \in Nat :
            /\ x = Page(j.uaddr) /\ y = Page(j.kaddr) /\ n = j.pages /\ d = Done(j) /\ o = j.off /\ c = j.count
    BY AllocJobFacts DEF Done
  <1>2. d <= n /\ o <= d /\ (j.at = "kmap" => d = o + c)
    BY <1>1, AllocJobFacts DEF Done, IsAllocJob
  <1>3. /\ Tiled(ut, x, d) /\ (d # 0 => Aligned(j.uaddr))
        /\ j.at = "kmap" => MapsTo(ut, x + o, c, j.base)
        /\ j.at # "kaddr" /\ j.kind # "stack" => Tiled(kt, y, o) /\ SamePages(ut, x, kt, y, o) /\ Agree(kt, kt2, y, n)
    BY <1>1 DEF AllocMaps
  <1>10. Agree(ut, ut2, x, d)
    <2>1. CASE d = 0
      <3>1. ~\E w \in Nat : x <= w /\ w < x + d
        BY <2>1
      <3> QED
        BY <3>1 DEF Agree
    <2>2. CASE d # 0
      <3>1. Agree(ut, ut2, x, n)
        BY <1>1, <1>3, <2>2
      <3> QED
        BY <1>2, <3>1, AgreePart
    <2> QED
      BY <2>1, <2>2
  <1>4. Agree(ut, ut2, x, o)
    BY <1>2, <1>10, AgreePart
  <1>5. j.at = "kmap" => Agree(ut, ut2, x + o, c)
    BY <1>2, <1>10, AgreePart
  <1>6. Tiled(ut2, x, d)
    BY <1>3, <1>10, AgreeFacts
  <1>8. j.at = "kmap" => MapsTo(ut2, x + o, c, j.base)
    <2> SUFFICES ASSUME j.at = "kmap" PROVE MapsTo(ut2, x + o, c, j.base)
      OBVIOUS
    <2>1. PICK z \in Nat : z = x + o
      OBVIOUS
    <2>2. Agree(ut, ut2, z, c)
      BY <1>5, <2>1
    <2>3. LookupsAgree(ut, ut2, z, c)
      BY <2>2, AgreeLookup
    <2> QED
      BY <1>3, <2>1, <2>3 DEF LookupsAgree, MapsTo
  <1>9. ASSUME j.at # "kaddr", j.kind # "stack" PROVE Tiled(kt2, y, o) /\ SamePages(ut2, x, kt2, y, o)
    <2>1. Agree(kt, kt2, y, o)
      BY <1>2, <1>3, <1>9, AgreePart
    <2>2. Tiled(kt2, y, o)
      BY <1>3, <1>9, <2>1, AgreeFacts
    <2>3. SamePages(ut2, x, kt2, y, o)
      BY <1>3, <1>4, <1>9, <2>1, SamePagesKept
    <2> QED
      BY <2>2, <2>3
  <1> QED
    BY <1>1, <1>3, <1>6, <1>8, <1>9 DEF AllocMaps

\* The same for any job.
LEMMA JobKept ==
  ASSUME NEW j, IsJob(j), NEW ut, NEW ut2, NEW kt, NEW kt2, JobMaps(j, ut, kt),
         HoldsU(j) /\ Aligned(j.uaddr) => Agree(ut, ut2, Page(j.uaddr), j.pages),
         HoldsK(j) => Agree(kt, kt2, Page(j.kaddr), j.pages),
         j # Idle => Page(j.uaddr) \in Nat /\ Page(j.kaddr) \in Nat
  PROVE  JobMaps(j, ut2, kt2)
  <1>1. ASSUME j.at \in {"kaddr", "pages", "umap", "kmap"} PROVE AllocMaps(j, ut2, kt2)
    <2>1. IsAllocJob(j) /\ j # Idle
      BY <1>1, JobCases DEF Idle
    <2>2. AllocMaps(j, ut, kt) /\ (Aligned(j.uaddr) => Agree(ut, ut2, Page(j.uaddr), j.pages))
      BY <1>1 DEF HoldsU, JobMaps
    <2>3. j.at # "kaddr" /\ j.kind # "stack" => Agree(kt, kt2, Page(j.kaddr), j.pages)
      BY <1>1 DEF HoldsK
    <2> QED
      BY <1>1, <2>1, <2>2, <2>3, AllocKept
  <1>2. ASSUME j.at \in {"unmap", "lock_free", "vfree", "kunmap"}
        PROVE  /\ Tiled(kt2, Page(j.kaddr), j.pages)
               /\ j.at = "unmap" => Aligned(j.uaddr) /\ Tiled(ut2, Page(j.uaddr), j.pages)
    <2>1. j \in DestroyJob /\ j # Idle
      BY <1>2, JobCases DEF Idle
    <2>2. PICK x \in Nat, y \in Nat, n \in Nat : x = Page(j.uaddr) /\ y = Page(j.kaddr) /\ n = j.pages
      BY <2>1, DestroyJobFacts
    <2>3. Tiled(kt, y, n) /\ (j.at = "unmap" => Aligned(j.uaddr) /\ Tiled(ut, x, n))
      BY <1>2, <2>2 DEF JobMaps
    <2>4. Agree(kt, kt2, y, n) /\ (j.at = "unmap" => Agree(ut, ut2, x, n))
      BY <1>2, <2>2, <2>3 DEF HoldsU, HoldsK
    <2>5. Tiled(kt2, y, n)
      BY <2>3, <2>4, AgreeFacts
    <2>6. j.at = "unmap" => Tiled(ut2, x, n)
      BY <2>3, <2>4, AgreeFacts
    <2> QED
      BY <2>2, <2>3, <2>5, <2>6
  <1> QED
    BY <1>1, <1>2 DEF JobMaps

\* Page numbers of addresses.
LEMMA PageNat == \A a \in Nat : Page(a) \in Nat
  <1> TAKE a \in Nat
  <1>1. 0 \in Nat /\ a \div PAGE_SIZE \in Nat
    BY OffsetPage
  <1> QED
    BY <1>1 DEF Page

\* What stays mapped when the tables change outside some of the ranges in use.
InUse(G, K, ut, kt) ==
  /\ \A q \in queues : URange(q) \in G /\ KRange(q) \in K => QueueMapped(q, ut, kt)
  /\ \A r \in regions : Range1("region", r) \in G => Aligned(r.addr) /\ RegionMapped(r, ut)
  /\ \A b \in buffers : Range1("buffer", b) \in K => RegionMapped(b, kt)
  /\ (JobHoldsU /\ Aligned(job.uaddr) => JobURange \in G) /\ (JobHoldsK => JobKRange \in K) => JobMaps(job, ut, kt)

\* What the tables keep is as mapped as before.
LEMMA InUseKept ==
  ASSUME PhysInv, MapInv, NEW ut, NEW kt, NEW G, NEW K, Kept(G, utable, ut), Kept(K, ktable, kt)
  PROVE  InUse(G, K, ut, kt)
  <1>1. ASSUME NEW q \in queues, URange(q) \in G, KRange(q) \in K PROVE QueueMapped(q, ut, kt)
    <2>1. q.uaddr \in Nat /\ q.kaddr \in Nat /\ q.pages \in Nat \ {0}
      BY DEF PhysInv, ProcOK, Queue
    <2>2. Agree(utable, ut, Page(q.uaddr), q.pages) /\ Agree(ktable, kt, Page(q.kaddr), q.pages)
      BY <1>1, RangeFields DEF Kept
    <2> QED
      BY <2>1, <2>2, PageNat, QueueKept DEF MapInv
  <1>2. ASSUME NEW r \in regions, Range1("region", r) \in G PROVE Aligned(r.addr) /\ RegionMapped(r, ut)
    <2>1. r.addr \in Nat /\ r.pages \in Nat \ {0}
      BY DEF PhysInv, ProcOK, Region
    <2>2. Agree(utable, ut, Page(r.addr), r.pages)
      BY <1>2, RangeFields DEF Kept
    <2> QED
      BY <2>1, <2>2, PageNat, RegionKept DEF MapInv
  <1>3. ASSUME NEW b \in buffers, Range1("buffer", b) \in K PROVE RegionMapped(b, kt)
    <2>1. b.addr \in Nat /\ b.pages \in Nat \ {0}
      BY DEF PhysInv, KernelOK, Buffer
    <2>2. Agree(ktable, kt, Page(b.addr), b.pages)
      BY <1>3, RangeFields DEF Kept
    <2> QED
      BY <2>1, <2>2, PageNat, RegionKept DEF MapInv
  <1>4. ASSUME JobHoldsU /\ Aligned(job.uaddr) => JobURange \in G, JobHoldsK => JobKRange \in K PROVE JobMaps(job, ut, kt)
    <2>1. IsJob(job) /\ JobMaps(job, utable, ktable)
      BY DEF PhysInv, JobOK, MapInv
    <2>2. HoldsU(job) /\ Aligned(job.uaddr) => Agree(utable, ut, Page(job.uaddr), job.pages)
      BY <1>4, RangeFields DEF Kept, HoldsU, JobHoldsU
    <2>3. HoldsK(job) => Agree(ktable, kt, Page(job.kaddr), job.pages)
      BY <1>4, RangeFields DEF Kept, HoldsK, JobHoldsK
    <2>4. job # Idle => job.uaddr \in Nat /\ job.kaddr \in Nat
      BY <2>1, AllocJobFacts, DestroyJobFacts DEF IsJob
    <2> QED
      BY <2>1, <2>2, <2>3, <2>4, PageNat, JobKept
  <1> QED
    BY <1>1, <1>2, <1>3, <1>4 DEF InUse

\* The ranges in use that hold something mapped start at a whole page.
LEMMA HeldFit ==
  ASSUME MapInv
  PROVE  /\ \A q \in queues : URange(q) \in Fit(UHeld) /\ KRange(q) \in KHeld
         /\ \A r \in regions : Range1("region", r) \in Fit(UHeld)
         /\ \A b \in buffers : Range1("buffer", b) \in KHeld
         /\ JobHoldsU /\ Aligned(job.uaddr) => JobURange \in Fit(UHeld)
         /\ JobHoldsK => JobKRange \in KHeld
  <1>1. /\ \A q \in queues : Aligned(q.uaddr)
        /\ \A r \in regions : Aligned(r.addr)
    BY DEF MapInv, QueueMapped
  <1> QED
    BY <1>1, HeldParts, RangeFields DEF Fit

-----------------------------------------------------------------------------
(* The steps keep what is in use mapped. *)

\* A step keeps the mapping invariant when what it adds is mapped and what it
\* keeps lies where the tables have not changed.
LEMMA MapsNext ==
  ASSUME NEW ut, NEW kt, utable' = ut, ktable' = kt, NEW G, NEW K, InUse(G, K, ut, kt),
         \A q \in queues' : QueueMapped(q, ut, kt) \/ (q \in queues /\ URange(q) \in G /\ KRange(q) \in K),
         \A r \in regions' : (Aligned(r.addr) /\ RegionMapped(r, ut)) \/ (r \in regions /\ Range1("region", r) \in G),
         \A b \in buffers' : RegionMapped(b, kt) \/ (b \in buffers /\ Range1("buffer", b) \in K),
         JobMaps(job', ut, kt)
  PROVE  MapInv'
  BY DEF MapInv, InUse

\* The same for a step that changes no table.
LEMMA TablesSame ==
  ASSUME MapInv, UNCHANGED <<utable, ktable>>,
         \A q \in queues' : q \in queues \/ QueueMapped(q, utable, ktable),
         \A r \in regions' : r \in regions \/ (Aligned(r.addr) /\ RegionMapped(r, utable)),
         \A b \in buffers' : b \in buffers,
         JobMaps(job', utable, ktable)
  PROVE  MapInv'
  BY DEF MapInv

\* A job that has no addresses yet has mapped nothing.
LEMMA NothingMapped ==
  ASSUME NEW j, j.at \in {"idle", "lock", "uaddr"}, NEW ut, NEW kt
  PROVE  JobMaps(j, ut, kt)
  BY DEF JobMaps

\* Jobs that start, and the lock.
LEMMA QuietMaps ==
  ASSUME PhysInv, MapInv,
         \/ \E n \in Sizes : CreateCompletionQueue(n) \/ AllocStack(n) \/ \E a \in Nat : CreateSubmissionQueue(n, a)
         \/ TakeLock \/ UNCHANGED vars
  PROVE  MapInv'
  <1>1. UNCHANGED <<utable, ktable, ufree, queues, regions, buffers>>
    BY DEF CreateCompletionQueue, AllocStack, CreateSubmissionQueue, TakeLock, vars, kmem, proc
  <1>2. JobMaps(job, utable, ktable) /\ JobOK
    BY DEF MapInv, PhysInv
  <1>3. JobMaps(job', utable, ktable)
    <2>1. CASE job'.at \in {"idle", "lock", "uaddr"}
      BY <2>1, NothingMapped
    <2>2. CASE UNCHANGED vars
      BY <1>2, <2>2 DEF vars
    <2>3. CASE \E n \in Sizes : CreateCompletionQueue(n) \/ AllocStack(n) \/ \E a \in Nat : CreateSubmissionQueue(n, a)
      BY <2>1, <2>3 DEF CreateCompletionQueue, AllocStack, CreateSubmissionQueue, BeginAlloc, Idle
    <2>4. CASE TakeLock
      <3>1. CASE job.at = "lock"
        <4>1. IsAllocJob(job) /\ job' = [job EXCEPT !.at = "uaddr"]
          BY <1>2, <2>4, <3>1, JobCases DEF JobOK, TakeLock, Goto
        <4>2. job'.at = "uaddr"
          BY <4>1, JobMoves
        <4> QED
          BY <2>1, <4>2
      <3>2. CASE job.at = "lock_free"
        <4>1. job \in DestroyJob /\ job' = [job EXCEPT !.at = "vfree"]
          BY <1>2, <2>4, <3>2, JobCases DEF JobOK, TakeLock, Goto
        <4>2. job'.at = "vfree" /\ job'.uaddr = job.uaddr /\ job'.kaddr = job.kaddr /\ job'.pages = job.pages
          BY <4>1 DEF DestroyJob
        <4> QED
          BY <1>2, <3>2, <4>2 DEF JobMaps
      <3> QED
        BY <2>4, <3>1, <3>2 DEF TakeLock
    <2> QED
      BY <2>2, <2>3, <2>4
  <1> QED
    BY <1>1, <1>2, <1>3, TablesSame

\* Nothing is asked of no pages.
LEMMA NoPages ==
  /\ \A pt, x : Tiled(pt, x, 0)
  /\ \A ut, x, kt, y : SamePages(ut, x, kt, y, 0)
  <1>1. 0..(0 - 1) = {}
    OBVIOUS
  <1> QED
    BY <1>1 DEF Tiled, SamePages

\* alloc_memory has mapped nothing at the addresses it takes.
LEMMA AllocUserAddressMaps ==
  ASSUME PhysInv, MapInv, AllocUserAddress
  PROVE  MapInv'
  <1>1. IsAllocJob(job) /\ job.at = "uaddr"
    BY JobCases DEF PhysInv, JobOK, AllocUserAddress
  <1>2. job.pages \in Nat \ {0} /\ ufree \in Seq(Block)
    BY <1>1, AllocJobFacts DEF PhysInv, MemOK
  <1> DEFINE a == VAlloc(ufree, job.pages)
  <1>3. /\ ufree' = a.list
        /\ ~a.ok => job' = Idle
        /\ a.ok => job' = [job EXCEPT !.at = IF job.kind = "stack" THEN "pages" ELSE "kaddr", !.uaddr = a.addr]
        /\ UNCHANGED <<utable, ktable, queues, regions, buffers>>
    BY DEF AllocUserAddress, kmem
  <1>4. (~a.ok => a.list = ufree) /\ (a.ok => a.addr \in Nat)
    BY <1>2, VAllocFacts
  <1>6. CASE ~a.ok
    <2>1. job'.at = "idle" /\ ufree' = ufree
      BY <1>3, <1>4, <1>6 DEF Idle
    <2> QED
      BY <1>3, <2>1, NothingMapped, TablesSame
  <1>7. CASE a.ok
    <2>1. Becomes(job, job', IF job.kind = "stack" THEN "pages" ELSE "kaddr", job.off, a.addr, job.kaddr, job.base, job.count) /\ job.off = 0
      BY <1>1, <1>3, <1>4, <1>7, JobTakesUser
    <2>3. PICK j : j = job'
      OBVIOUS
    <2>4. /\ j.off = 0 /\ j.at \in {"pages", "kaddr"}
          /\ j.at # "kaddr" => j.kind = "stack"
      BY <2>1, <2>3 DEF Becomes
    <2>5. Done(j) = 0
      BY <2>4 DEF Done
    <2>6. AllocMaps(j, utable, ktable)
      BY <2>4, <2>5, NoPages DEF AllocMaps
    <2>7. JobMaps(j, utable, ktable)
      BY <2>4, <2>6 DEF JobMaps
    <2> QED
      BY <1>3, <2>3, <2>7, TablesSame
  <1> QED
    BY <1>6, <1>7

\* The kernel's addresses: nothing is mapped by it yet.
LEMMA AllocKernelAddressMaps ==
  ASSUME PhysInv, MapInv, AllocKernelAddress
  PROVE  MapInv'
  <1>1. IsAllocJob(job) /\ job.at = "kaddr" /\ job.off = 0
    BY JobCases DEF PhysInv, JobOK, AllocKernelAddress, IsAllocJob
  <1>2. job.pages \in Nat \ {0} /\ kfree \in Seq(Block)
    BY <1>1, AllocJobFacts DEF PhysInv, MemOK
  <1> DEFINE a == VAlloc(kfree, job.pages)
  <1>3. /\ ~a.ok => job' = Idle
        /\ a.ok => job' = [job EXCEPT !.at = "pages", !.kaddr = a.addr]
        /\ UNCHANGED <<utable, ufree, ktable, queues, regions, buffers>>
    BY DEF AllocKernelAddress, proc
  <1>4. AllocMaps(job, utable, ktable)
    BY <1>1 DEF MapInv, JobMaps
  <1>5. JobMaps(job', utable, ktable)
    <2>1. CASE ~a.ok
      <3>1. job'.at = "idle"
        BY <1>3, <2>1 DEF Idle
      <3> QED
        BY <3>1, NothingMapped
    <2>2. CASE a.ok
      <3>1. a.addr \in Nat
        BY <1>2, <2>2, VAllocFacts
      <3>2. Becomes(job, job', "pages", job.off, job.uaddr, a.addr, job.base, job.count)
        BY <1>1, <1>3, <2>2, <3>1, JobTakesKernel
      <3>3. PICK j : j = job'
        OBVIOUS
      <3>4. j.off = 0 /\ j.uaddr = job.uaddr /\ j.pages = job.pages /\ j.at = "pages" /\ Done(j) = 0 /\ Done(job) = 0
        BY <1>1, <3>2, <3>3 DEF Becomes, Done
      <3>5. AllocMaps(j, utable, ktable)
        BY <1>4, <3>4, NoPages DEF AllocMaps
      <3> QED
        BY <3>3, <3>4, <3>5 DEF JobMaps
    <2> QED
      BY <2>1, <2>2
  <1> QED
    BY <1>3, <1>4, <1>5, TablesSame

\* The pages of a round are not mapped yet.
LEMMA AllocPagesMaps ==
  ASSUME PhysInv, MapInv, AllocPages
  PROVE  MapInv'
  <1>1. IsAllocJob(job) /\ job.at = "pages" /\ job.off < job.pages
    BY JobCases DEF PhysInv, JobOK, AllocPages
  <1>2. used \subseteq Pages /\ job.pages \in Nat /\ job.off \in Nat /\ job.pages - job.off \in Nat \ {0}
    BY <1>1, AllocJobFacts DEF PhysInv, MemOK
  <1> DEFINE p == TryAllocContig(used, job.pages - job.off)
  <1>3. /\ ~p.ok => job' = Idle
        /\ p.ok => job' = [job EXCEPT !.at = "umap", !.base = p.base, !.count = p.count]
        /\ UNCHANGED <<utable, ufree, ktable, queues, regions, buffers>>
    BY DEF AllocPages, proc
  <1>4. AllocMaps(job, utable, ktable)
    BY <1>1 DEF MapInv, JobMaps
  <1>5. JobMaps(job', utable, ktable)
    <2>1. CASE ~p.ok
      <3>1. job'.at = "idle"
        BY <1>3, <2>1 DEF Idle
      <3> QED
        BY <3>1, NothingMapped
    <2>2. CASE p.ok
      <3>1. p.base \in Pages /\ p.count \in 1..(job.pages - job.off) /\ PagesFrom(p.base, p.count) \subseteq Pages
        BY <1>2, <2>2, TryAllocContigFacts
      <3>2. PICK b \in Nat, c \in Nat : b = p.base /\ c = p.count
        BY <1>2, <3>1 DEF Pages
      <3>3. c # 0 /\ job.off + c <= job.pages /\ PagesFrom(b, c) \subseteq Pages
        BY <1>2, <3>1, <3>2
      <3>4. Becomes(job, job', "umap", job.off, job.uaddr, job.kaddr, b, c)
        BY <1>1, <1>3, <2>2, <3>2, <3>3, JobTakesPages
      <3>5. PICK j : j = job'
        OBVIOUS
      <3>6. /\ j.off = job.off /\ j.uaddr = job.uaddr /\ j.kaddr = job.kaddr /\ j.kind = job.kind /\ j.pages = job.pages /\ j.at = "umap"
            /\ Done(j) = job.off /\ Done(job) = job.off
        BY <1>1, <3>4, <3>5 DEF Becomes, Done
      <3>7. AllocMaps(j, utable, ktable)
        BY <1>1, <1>4, <3>6 DEF AllocMaps
      <3> QED
        BY <3>5, <3>6, <3>7 DEF JobMaps
    <2> QED
      BY <2>1, <2>2
  <1> QED
    BY <1>3, <1>4, <1>5, TablesSame

\* When the loop ends, all of the queue or stack is mapped.
LEMMA AllocDoneMaps ==
  ASSUME PhysInv, MapInv, AllocDone
  PROVE  MapInv'
  <1>1. IsAllocJob(job) /\ job.at = "pages" /\ job.off >= job.pages
    BY JobCases DEF PhysInv, JobOK, AllocDone
  <1>2. job.off = job.pages
    <2>1. job.off \in Nat /\ job.pages \in Nat /\ job.off <= job.pages
      BY <1>1, AllocJobFacts
    <2> QED
      BY <1>1, <2>1
  <1> DEFINE r == [addr |-> job.uaddr, pages |-> job.pages]
             q == [id |-> job.id, kind |-> job.kind, assoc |-> job.assoc,
                   uaddr |-> job.uaddr, kaddr |-> job.kaddr, pages |-> job.pages]
  <1>3. /\ job' = Idle
        /\ job.kind = "stack" => regions' = regions \cup {r} /\ queues' = queues
        /\ job.kind # "stack" => queues' = queues \cup {q} /\ regions' = regions
        /\ UNCHANGED <<utable, ufree, ktable, buffers>>
    BY DEF AllocDone, kmem
  <1>4. AllocMaps(job, utable, ktable)
    BY <1>1 DEF MapInv, JobMaps
  <1>5. JobMaps(job', utable, ktable)
    <2>1. job'.at = "idle"
      BY <1>3 DEF Idle
    <2> QED
      BY <2>1, NothingMapped
  <1>6. Done(job) = job.pages
    BY <1>1, <1>2 DEF Done
  <1>9. Aligned(job.uaddr)
    <2>1. Done(job) # 0
      BY <1>1, <1>6, AllocJobFacts
    <2> QED
      BY <1>4, <2>1 DEF AllocMaps
  <1>7. Aligned(r.addr) /\ RegionMapped(r, utable)
    BY <1>4, <1>6, <1>9 DEF AllocMaps, RegionMapped
  <1>8. job.kind # "stack" => QueueMapped(q, utable, ktable)
    <2>1. q.uaddr = job.uaddr /\ q.kaddr = job.kaddr /\ q.pages = job.pages
      OBVIOUS
    <2> HIDE DEF q
    <2> QED
      BY <1>1, <1>2, <1>4, <1>6, <1>9, <2>1 DEF AllocMaps, QueueMapped
  <1> HIDE DEF q, r
  <1> QED
    BY <1>3, <1>4, <1>5, <1>7, <1>8, TablesSame

\* The job takes over a mapped queue.
LEMMA DestroyQueueMaps ==
  ASSUME PhysInv, MapInv, NEW q \in queues, DestroyQueue(q)
  PROVE  MapInv'
  <1>1. /\ queues' = queues \ {q}
        /\ job' = [at |-> "unmap", kind |-> "destroy", uaddr |-> q.uaddr, kaddr |-> q.kaddr, pages |-> q.pages]
        /\ UNCHANGED <<utable, ufree, ktable, regions, buffers>>
    BY DEF DestroyQueue, kmem
  <1>2. QueueMapped(q, utable, ktable)
    BY DEF MapInv
  <1>3. PICK j : j = job'
    OBVIOUS
  <1>4. j.at = "unmap" /\ j.uaddr = q.uaddr /\ j.kaddr = q.kaddr /\ j.pages = q.pages
    BY <1>1, <1>3
  <1>5. JobMaps(j, utable, ktable)
    BY <1>2, <1>4 DEF JobMaps, QueueMapped
  <1> QED
    BY <1>1, <1>2, <1>3, <1>5, TablesSame

\* The addresses of a destroyed queue go back: the kernel still maps its own.
LEMMA DestroyFreeAddressMaps ==
  ASSUME PhysInv, MapInv, DestroyFreeAddress
  PROVE  MapInv'
  <1>1. job \in DestroyJob /\ job.at = "vfree"
    BY JobCases DEF PhysInv, JobOK, DestroyFreeAddress
  <1>2. job' = [job EXCEPT !.at = "kunmap"] /\ UNCHANGED <<utable, ktable, queues, regions, buffers>>
    BY DEF DestroyFreeAddress, Goto, kmem
  <1>3. job'.at = "kunmap" /\ job'.kaddr = job.kaddr /\ job'.pages = job.pages
    BY <1>1, <1>2 DEF DestroyJob
  <1>4. Tiled(ktable, Page(job.kaddr), job.pages)
    BY <1>1 DEF MapInv, JobMaps
  <1>5. JobMaps(job', utable, ktable)
    BY <1>3, <1>4 DEF JobMaps
  <1> QED
    BY <1>2, <1>5, TablesSame

\* A table that does not change keeps all.
LEMMA KeptSelf ==
  ASSUME NEW H, NEW p
  PROVE  Kept(H, p, p)
  BY AgreeSelf DEF Kept

\* The process's table changes in one range only: what lies elsewhere is as mapped as before.
LEMMA UserRangeChanged ==
  ASSUME PhysInv, MapInv, NEW list, NEW H, Shares(list, H), NEW g \in H, Aligned(g.addr), NEW ut,
         \A w \in Nat : Outside(w, Page(g.addr), g.pages) => SameAt(utable, ut, w)
  PROVE  InUse(Fit(H \ {g}), KHeld, ut, ktable)
  <1>1. Kept(Fit(H \ {g}), utable, ut)
    BY KeptApart
  <1>2. Kept(KHeld, ktable, ktable)
    BY KeptSelf
  <1> QED
    BY <1>1, <1>2, InUseKept

\* The same for the kernel's table.
LEMMA KernelRangeChanged ==
  ASSUME PhysInv, MapInv, NEW list, NEW H, Side(list, H), NEW g \in H, NEW kt,
         \A w \in Nat : Outside(w, Page(g.addr), g.pages) => SameAt(ktable, kt, w)
  PROVE  InUse(UHeld, H \ {g}, utable, kt)
  <1>1. Kept(H \ {g}, ktable, kt)
    BY SideKeptApart
  <1>2. Kept(UHeld, utable, utable)
    BY KeptSelf
  <1> QED
    BY <1>1, <1>2, InUseKept

\* HeapAllocate maps its region throughout and nothing else.
LEMMA HeapAllocateMaps ==
  ASSUME PhysInv, ShareInv, MapInv, NEW n \in Sizes, HeapAllocate(n)
  PROVE  MapInv'
  <1>1. n \in Nat \ {0} /\ ufree \in Seq(Block) /\ Shares(ufree, UHeld)
    BY AddressSpaceAssumption DEF PhysInv, MemOK, ShareInv
  <1> DEFINE a == VAlloc(ufree, n)
             s == AllocLoop([used |-> used, pt |-> utable, off |-> 0, addr |-> a.addr, state |-> "ok"], n)
             g == [addr |-> a.addr, pages |-> n]
             h == Range1("region", g)
  <1>2. /\ \/ UNCHANGED <<utable, regions>>
           \/ /\ a.ok /\ utable' = s.pt
              /\ regions' = IF s.state = "ok" THEN regions \cup {g} ELSE regions
        /\ UNCHANGED <<ktable, queues, buffers, job>>
    BY DEF HeapAllocate
  <1>3. JobMaps(job, utable, ktable)
    BY DEF MapInv
  <1>4. CASE UNCHANGED <<utable, regions>>
    BY <1>2, <1>3, <1>4, TablesSame
  <1>5. CASE /\ a.ok /\ utable' = s.pt
             /\ regions' = IF s.state = "ok" THEN regions \cup {g} ELSE regions
    <2>1. a.addr \in Nat
      BY <1>1, <1>5, VAllocFacts
    <2>2. g.addr = a.addr /\ g.pages = n /\ h.addr = a.addr /\ h.pages = n
      BY RangeFields
    <2> HIDE DEF g, h
    <2>3. Shares(a.list, UHeld \cup {h}) /\ h \notin UHeld
      BY <1>1, <1>5, <2>2, SharesNew
    <2>4. PtOK(utable) /\ EntriesApart(utable) /\ UserPages(utable) \subseteq used /\ used \subseteq Pages
      BY DEF PhysInv, MemOK, PagesOK, Split
    <2>5. PICK x \in Nat, v \in Nat : x = a.addr /\ v = Page(x)
      BY <2>1, PageNat
    <2> DEFINE t == AllocLoop([used |-> used, pt |-> utable, off |-> 0, addr |-> x, state |-> "ok"], n)
    <2>21. v = x \div PAGE_SIZE
      BY <2>5 DEF Page
    <2>22. AllocOK(utable, used, x, n, t) /\ AllocMapped(utable, used, v, n, t) /\ (t.state = "ok" => t.off = n)
      BY <1>1, <2>4, <2>21, AllocLoopFacts
    <2>23. s = t
      BY <2>5
    <2> HIDE DEF t, s
    <2>6. /\ AllocMapped(utable, used, v, n, s) /\ (s.state = "ok" => s.off = n)
          /\ ~Aligned(x) => s.pt = utable /\ (s.state = "ok" => s.off = 0)
      BY <2>22, <2>23 DEF AllocOK
    <2>7. \A w \in Nat : Outside(w, Page(h.addr), h.pages) => SameAt(utable, s.pt, w)
      BY <2>2, <2>5, <2>6 DEF AllocMapped
    <2>8. s.state = "ok" => Aligned(g.addr) /\ RegionMapped(g, s.pt)
      <3>1. s.state = "ok" => Aligned(x)
        BY <1>1, <2>6
      <3> QED
        BY <2>2, <2>5, <2>6, <3>1 DEF AllocMapped, RegionMapped
    <2> HIDE DEF a
    <2>11. InUse(Fit(UHeld), KHeld, s.pt, ktable)
      <3>1. CASE Aligned(x)
        <4>1. Aligned(h.addr)
          BY <2>2, <2>5, <3>1
        <4>2. InUse(Fit((UHeld \cup {h}) \ {h}), KHeld, s.pt, ktable)
          BY <2>3, <2>7, <4>1, UserRangeChanged
        <4>3. (UHeld \cup {h}) \ {h} = UHeld
          BY <2>3
        <4> QED
          BY <4>2, <4>3
      <3>2. CASE ~Aligned(x)
        <4>1. s.pt = utable
          BY <2>6, <3>2
        <4> QED
          BY <4>1, KeptSelf, InUseKept
      <3> QED
        BY <3>1, <3>2
    <2>14. JobMaps(job, s.pt, ktable)
      BY <2>11, HeldFit DEF InUse
    <2>15. PICK ut, kt : ut = s.pt /\ kt = ktable
      OBVIOUS
    <2>16. /\ \A q \in queues : URange(q) \in Fit(UHeld) /\ KRange(q) \in KHeld
           /\ \A r \in regions : Range1("region", r) \in Fit(UHeld)
           /\ \A b \in buffers : Range1("buffer", b) \in KHeld
      BY HeldFit
    <2>19. \A r \in regions' : (Aligned(r.addr) /\ RegionMapped(r, ut)) \/ (r \in regions /\ Range1("region", r) \in Fit(UHeld))
      BY <1>5, <2>8, <2>15, <2>16
    <2>20. JobMaps(job', ut, kt) /\ InUse(Fit(UHeld), KHeld, ut, kt) /\ utable' = ut /\ ktable' = kt
      BY <1>2, <1>5, <2>11, <2>14, <2>15
    <2> QED
      BY <1>2, <2>16, <2>19, <2>20, MapsNext
  <1> QED
    BY <1>2, <1>4, <1>5

\* The table q is pt without the mappings of the n pages from v0.
Unmapped(pt, q, v0, n) ==
  (\A w \in Nat : Outside(w, v0, n) => SameAt(pt, q, w)) /\ ClearRange(q, v0, n)

\* unmap_range of a mapped range unmaps it and nothing else.
LEMMA UnmapTiled ==
  ASSUME NEW pt, PtOK(pt), NEW a \in Nat, NEW n \in Nat, Tiled(pt, Page(a), n)
  PROVE  Unmapped(pt, UnmapRange(pt, a, n).pt, Page(a), n)
  <1>1. PICK r : r = UnmapRange(pt, a, n)
    OBVIOUS
  <1>2. PICK v \in Nat : v = a \div PAGE_SIZE /\ v = Page(a)
    BY PageNat DEF Page
  <1>3. Tiled(pt, v, n)
    BY <1>2
  <1>4. UnmapLoop(pt, v, n, r) /\ UnmapAt(v, n, r) /\ r.next = n
    BY <1>1, <1>2, <1>3, UnmapRangeFacts
  <1>5. \A w \in Nat : Outside(w, v, n) => SameAt(pt, r.pt, w)
    BY <1>3, <1>4, UnmapOutside
  <1>6. ClearRange(r.pt, v, n)
    BY <1>3, <1>4, UnmapInside
  <1> QED
    BY <1>1, <1>2, <1>5, <1>6 DEF Unmapped

\* unmap_range on a range in use of the process leaves the others mapped.
LEMMA UserUnmap ==
  ASSUME PhysInv, ShareInv, MapInv, NEW g \in UHeld, Aligned(g.addr), Tiled(utable, Page(g.addr), g.pages),
         NEW ut, ut = UnmapRange(utable, g.addr, g.pages).pt
  PROVE  InUse(Fit(UHeld \ {g}), KHeld, ut, ktable)
  <1>1. Shares(ufree, UHeld) /\ PtOK(utable)
    BY DEF PhysInv, MemOK, ShareInv
  <1>2. g.addr \in Nat /\ g.pages \in Nat
    BY <1>1 DEF Shares
  <1>3. Unmapped(utable, ut, Page(g.addr), g.pages)
    BY <1>1, <1>2, UnmapTiled
  <1>4. \A w \in Nat : Outside(w, Page(g.addr), g.pages) => SameAt(utable, ut, w)
    BY <1>3 DEF Unmapped
  <1> QED
    BY <1>1, <1>4, UserRangeChanged

\* HeapFree unmaps the region and nothing else.
LEMMA FreeRegionMaps ==
  ASSUME PhysInv, ShareInv, MapInv, NEW r \in regions, FreeRegion(r)
  PROVE  MapInv'
  <1> DEFINE g == Range1("region", r)
  <1>1. /\ utable' = UnmapRange(utable, r.addr, r.pages).pt /\ regions' = regions \ {r}
        /\ UNCHANGED <<ktable, queues, buffers, job>>
    BY DEF FreeRegion
  <1>2. g.addr = r.addr /\ g.pages = r.pages /\ g \in UHeld
    BY RangeFields, HeldParts
  <1>3. Aligned(r.addr) /\ Tiled(utable, Page(r.addr), r.pages)
    BY DEF MapInv, RegionMapped
  <1>4. /\ \A q \in queues : URange(q) # g
        /\ \A x \in regions \ {r} : Range1("region", x) # g
        /\ JobURange # g
    BY OwnersDiffer
  <1> HIDE DEF g
  <1>8. /\ \A q \in queues : URange(q) \in Fit(UHeld \ {g}) /\ KRange(q) \in KHeld
        /\ \A x \in regions \ {r} : Range1("region", x) \in Fit(UHeld \ {g})
        /\ \A b \in buffers : Range1("buffer", b) \in KHeld
        /\ JobHoldsU /\ Aligned(job.uaddr) => JobURange \in Fit(UHeld \ {g})
        /\ JobHoldsK => JobKRange \in KHeld
    BY <1>4, HeldFit DEF Fit
  <1>5. PICK ut, kt : ut = UnmapRange(utable, r.addr, r.pages).pt /\ kt = ktable
    OBVIOUS
  <1>6. InUse(Fit(UHeld \ {g}), KHeld, ut, ktable)
    BY <1>2, <1>3, <1>5, UserUnmap
  <1>7. InUse(Fit(UHeld \ {g}), KHeld, ut, kt) /\ JobMaps(job, ut, kt)
    BY <1>5, <1>6, <1>8 DEF InUse
  <1> QED
    BY <1>1, <1>5, <1>7, <1>8, MapsNext

\* destroy_queue unmaps the queue from the process and nothing else.
LEMMA DestroyUnmapMaps ==
  ASSUME PhysInv, ShareInv, MapInv, DestroyUnmap
  PROVE  MapInv'
  <1> DEFINE g == JobURange
  <1>1. job \in DestroyJob /\ job.at = "unmap"
    BY JobCases DEF PhysInv, JobOK, DestroyUnmap
  <1>2. /\ utable' = UnmapRange(utable, job.uaddr, job.pages).pt /\ job' = [job EXCEPT !.at = "lock_free"]
        /\ UNCHANGED <<ktable, queues, regions, buffers>>
    BY DEF DestroyUnmap, Goto
  <1>3. g.addr = job.uaddr /\ g.pages = job.pages /\ g \in UHeld
    BY <1>1, HeldAt, RangeFields, HeldParts
  <1>4. Aligned(job.uaddr) /\ Tiled(utable, Page(job.uaddr), job.pages) /\ Tiled(ktable, Page(job.kaddr), job.pages)
    BY <1>1 DEF MapInv, JobMaps
  <1>5. PICK h : h = g /\ (\A q \in queues : URange(q) # h) /\ (\A x \in regions : Range1("region", x) # h)
    BY OwnersDiffer
  <1> HIDE DEF g
  <1>6. /\ \A q \in queues : URange(q) \in Fit(UHeld \ {h}) /\ KRange(q) \in KHeld
        /\ \A x \in regions : Range1("region", x) \in Fit(UHeld \ {h})
        /\ \A b \in buffers : Range1("buffer", b) \in KHeld
    BY <1>5, HeldFit DEF Fit
  <1>7. PICK ut, kt : ut = UnmapRange(utable, job.uaddr, job.pages).pt /\ kt = ktable
    OBVIOUS
  <1>8. InUse(Fit(UHeld \ {h}), KHeld, ut, ktable)
    BY <1>3, <1>4, <1>5, <1>7, UserUnmap
  <1>9. InUse(Fit(UHeld \ {h}), KHeld, ut, kt)
    BY <1>7, <1>8
  <1>10. JobMaps(job', ut, kt)
    <2>1. job'.at = "lock_free" /\ job'.kaddr = job.kaddr /\ job'.pages = job.pages
      BY <1>1, <1>2 DEF DestroyJob
    <2> QED
      BY <1>4, <1>7, <2>1 DEF JobMaps
  <1> QED
    BY <1>2, <1>6, <1>7, <1>9, <1>10, MapsNext

\* The table q maps n more pages, from phys on, behind the m mapped from x.
MappedOn(pt, q, phys, x, m, n) ==
  /\ Tiled(q, x, m + n) /\ LookupsAgree(pt, q, x, m)
  /\ MapsTo(q, x + m, n, phys)

\* A round of alloc_memory maps its pages behind those of the earlier ones.
LEMMA MapRound ==
  ASSUME NEW pt, PtOK(pt), NEW U, NEW phys \in Nat, NEW x \in Nat, NEW m \in Nat, NEW n \in Nat, Tiled(pt, x, m),
         NEW r, MapLoop(pt, U, phys, x + m, n, r), r.next = n
  PROVE  MappedOn(pt, r.pt, phys, x, m, n)
  <1>1. PICK v \in Nat : v = x + m
    OBVIOUS
  <1>2. MapLoop(pt, U, phys, v, n, r) /\ PtOK(r.pt)
    BY <1>1 DEF MapLoop
  <1>3. Tiled(r.pt, v, n) /\ MapsTo(r.pt, v, n, phys)
    BY <1>2, MapInside
  <1>4. x + m <= v
    BY <1>1
  <1>5. Tiled(r.pt, x, m) /\ LookupsAgree(pt, r.pt, x, m)
    BY <1>2, <1>4, MapKeeps
  <1>6. Tiled(r.pt, x, m + n)
    BY <1>1, <1>2, <1>3, <1>5, TiledJoin
  <1> QED
    BY <1>1, <1>3, <1>5, <1>6 DEF MappedOn

\* A round of map_range inside a range leaves what is outside the range.
LEMMA RoundOutside ==
  ASSUME NEW pt, PtOK(pt), NEW U, NEW phys \in Nat, NEW x \in Nat, NEW m \in Nat, NEW n \in Nat, NEW z \in Nat, m + n <= z,
         NEW r, MapLoop(pt, U, phys, x + m, n, r)
  PROVE  \A w \in Nat : Outside(w, x, z) => SameAt(pt, r.pt, w)
  <1> SUFFICES ASSUME NEW w \in Nat, Outside(w, x, z) PROVE SameAt(pt, r.pt, w)
    OBVIOUS
  <1>1. PICK v \in Nat : v = x + m
    OBVIOUS
  <1>2. Outside(w, v, n)
    BY <1>1 DEF Outside
  <1>3. MapLoop(pt, U, phys, v, n, r)
    BY <1>1
  <1> QED
    BY <1>2, <1>3, MapOutside

\* The round that a job is in: its addresses in pages, and that it fits.
LEMMA JobRound ==
  ASSUME NEW j, IsAllocJob(j), j.at \in {"umap", "kmap"}
  PROVE  \E x, y, m, n, z, k \in Nat :
           /\ x = Page(j.uaddr) /\ y = Page(j.kaddr) /\ m = j.off /\ n = j.count /\ z = j.pages /\ z = (m + n) + k
           /\ (j.uaddr + Bytes(j.off)) \div PAGE_SIZE = x + m
           /\ (j.kaddr + Bytes(j.off)) \div PAGE_SIZE = y + m
           /\ m + n <= z /\ z - m = n + k /\ z - (m + n) = k
  <1>1. j.uaddr \in Nat /\ j.kaddr \in Nat /\ j.off \in Nat /\ j.count \in Nat /\ j.pages \in Nat /\ j.off + j.count <= j.pages
    BY AllocJobFacts DEF IsAllocJob
  <1>2. /\ (j.uaddr + Bytes(j.off)) \div PAGE_SIZE = Page(j.uaddr) + j.off
        /\ (j.kaddr + Bytes(j.off)) \div PAGE_SIZE = Page(j.kaddr) + j.off
    BY RoundFacts DEF Page
  <1>3. PICK x, y, m, n, z \in Nat : x = Page(j.uaddr) /\ y = Page(j.kaddr) /\ m = j.off /\ n = j.count /\ z = j.pages
    BY <1>1, PageNat
  <1>4. PICK k \in Nat : k = z - (m + n)
    BY <1>1, <1>3
  <1>5. z = (m + n) + k /\ m + n <= z /\ z - m = n + k
    BY <1>4
  <1> QED
    BY <1>2, <1>3, <1>4, <1>5

\* A round in the process's table.
LEMMA MapUserMaps ==
  ASSUME PhysInv, ShareInv, MapInv, MapUser
  PROVE  MapInv'
  <1>1. IsAllocJob(job) /\ job.at = "umap"
    BY JobCases DEF PhysInv, JobOK, MapUser
  <1> DEFINE r == MapRange(utable, used, job.base, job.uaddr + Bytes(job.off), job.count)
  <1>2. /\ utable' = r.pt
        /\ r.state # "ok" => job' = Idle
        /\ r.state = "ok" /\ job.kind = "stack" => job' = [job EXCEPT !.at = "pages", !.off = job.off + job.count]
        /\ r.state = "ok" /\ job.kind # "stack" => job' = [job EXCEPT !.at = "kmap"]
        /\ UNCHANGED <<ktable, ufree, queues, regions, buffers>>
    BY DEF MapUser, NextRound
  <1>3. PICK x, y, m, n, z, k \in Nat :
           /\ x = Page(job.uaddr) /\ y = Page(job.kaddr) /\ m = job.off /\ n = job.count /\ z = job.pages /\ z = (m + n) + k
           /\ (job.uaddr + Bytes(job.off)) \div PAGE_SIZE = x + m
           /\ (job.kaddr + Bytes(job.off)) \div PAGE_SIZE = y + m
           /\ m + n <= z /\ z - m = n + k /\ z - (m + n) = k
    BY <1>1, JobRound
  <1>4. PtOK(utable) /\ used \subseteq Pages /\ Shares(ufree, UHeld) /\ AllocMaps(job, utable, ktable)
    BY <1>1 DEF PhysInv, MemOK, ShareInv, MapInv, JobMaps
  <1>5. PICK phys \in Nat : phys = job.base
    BY <1>1, RoundFacts
  <1>6. MapLoop(utable, used, phys, x + m, n, r) /\ (r.state = "ok" => r.next = n)
    BY <1>1, <1>3, <1>4, <1>5, RoundFacts, MapRangeFacts
  <1>16. ~Aligned(job.uaddr) => r.pt = utable /\ r.state # "ok"
    <2>1. job.uaddr \in Nat /\ job.off \in Nat
      BY <1>1, AllocJobFacts
    <2> QED
      BY <2>1, MapUnaligned
  <1> HIDE DEF r
  <1>7. JobURange \in UHeld /\ JobURange.addr = job.uaddr /\ JobURange.pages = job.pages
    BY <1>1, HeldAt, HeldParts, RangeFields
  <1>8. PICK g : g = JobURange
    OBVIOUS
  <1>9. \A w \in Nat : Outside(w, Page(g.addr), g.pages) => SameAt(utable, r.pt, w)
    BY <1>3, <1>4, <1>6, <1>7, <1>8, RoundOutside
  <1>10. InUse(Fit(UHeld \ {g}), KHeld, r.pt, ktable)
    <2>1. CASE Aligned(job.uaddr)
      <3>1. Aligned(g.addr) /\ g \in UHeld
        BY <1>7, <1>8, <2>1
      <3> QED
        BY <1>4, <1>9, <3>1, UserRangeChanged
    <2>2. CASE ~Aligned(job.uaddr)
      <3>1. r.pt = utable
        BY <1>16, <2>2
      <3> QED
        BY <3>1, KeptSelf, InUseKept
    <2> QED
      BY <2>1, <2>2
  <1>11. (\A q \in queues : URange(q) # g) /\ (\A s \in regions : Range1("region", s) # g)
    BY <1>8, OwnersDiffer
  <1>12. /\ \A q \in queues : URange(q) \in Fit(UHeld \ {g}) /\ KRange(q) \in KHeld
         /\ \A s \in regions : Range1("region", s) \in Fit(UHeld \ {g})
         /\ \A b \in buffers : Range1("buffer", b) \in KHeld
    BY <1>11, HeldFit DEF Fit
  <1>13. PICK ut, kt : ut = r.pt /\ kt = ktable
    OBVIOUS
  <1>14. JobMaps(job', ut, kt)
    <2>1. CASE r.state # "ok"
      <3>1. job'.at = "idle"
        BY <1>2, <2>1 DEF Idle
      <3> QED
        BY <3>1, NothingMapped
    <2>2. CASE r.state = "ok"
      <3>1. Tiled(utable, x, m) /\ Aligned(job.uaddr)
        BY <1>1, <1>3, <1>4, <1>16, <2>2 DEF AllocMaps, Done
      <3>2. MappedOn(utable, ut, phys, x, m, n)
        BY <1>4, <1>6, <1>13, <2>2, <3>1, MapRound
      <3>3. /\ Tiled(ut, x, m + n) /\ LookupsAgree(utable, ut, x, m)
            /\ MapsTo(ut, x + m, n, phys)
        BY <3>2 DEF MappedOn
      <3>5. CASE job.kind = "stack"
        <4>1. Becomes(job, job', "pages", m + n, job.uaddr, job.kaddr, job.base, n)
          BY <1>1, <1>2, <1>3, <2>2, <3>5, JobNextRound
        <4>2. PICK j : j = job'
          OBVIOUS
        <4>3. j.at = "pages" /\ j.kind = "stack" /\ Done(j) = m + n /\ Page(j.uaddr) = x /\ j.uaddr = job.uaddr
          BY <1>3, <3>5, <4>1, <4>2 DEF Becomes, Done
        <4>4. AllocMaps(j, ut, kt)
          BY <3>1, <3>3, <4>3 DEF AllocMaps
        <4> QED
          BY <4>2, <4>3, <4>4 DEF JobMaps
      <3>6. CASE job.kind # "stack"
        <4>1. Becomes(job, job', "kmap", job.off, job.uaddr, job.kaddr, job.base, job.count)
          BY <1>1, <1>2, <2>2, <3>6, JobMapsKernel
        <4>2. PICK j : j = job'
          OBVIOUS
        <4>3. /\ j.at = "kmap" /\ Done(j) = m + n /\ Page(j.uaddr) = x /\ Page(j.kaddr) = y /\ j.uaddr = job.uaddr
              /\ j.off = m /\ j.count = n /\ j.base = phys
          BY <1>3, <1>5, <4>1, <4>2 DEF Becomes, Done
        <4>4. Tiled(kt, y, m) /\ SamePages(utable, x, kt, y, m)
          BY <1>1, <1>3, <1>4, <1>13, <3>6 DEF AllocMaps
        <4>5. SamePages(ut, x, kt, y, m)
          BY <3>3, <4>4 DEF SamePages, LookupsAgree
        <4>6. AllocMaps(j, ut, kt)
          BY <3>1, <3>3, <4>3, <4>4, <4>5 DEF AllocMaps
        <4> QED
          BY <4>2, <4>3, <4>6 DEF JobMaps
      <3> QED
        BY <3>5, <3>6
    <2> QED
      BY <2>1, <2>2
  <1>15. InUse(Fit(UHeld \ {g}), KHeld, ut, kt) /\ utable' = ut /\ ktable' = kt
    BY <1>2, <1>10, <1>13
  <1> QED
    BY <1>2, <1>12, <1>14, <1>15, MapsNext

\* A round in the kernel's table, to the same pages in the same order.
LEMMA MapKernelMaps ==
  ASSUME PhysInv, ShareInv, MapInv, MapKernel
  PROVE  MapInv'
  <1>1. IsAllocJob(job) /\ job.at = "kmap" /\ job.kind # "stack"
    BY JobCases DEF PhysInv, JobOK, MapKernel, IsAllocJob
  <1> DEFINE r == MapRange(ktable, used, job.base, job.kaddr + Bytes(job.off), job.count)
  <1>2. /\ ktable' = r.pt
        /\ r.state # "ok" => job' = Idle
        /\ r.state = "ok" => job' = [job EXCEPT !.at = "pages", !.off = job.off + job.count]
        /\ UNCHANGED <<utable, ufree, queues, regions, buffers>>
    BY DEF MapKernel, NextRound, KernelTarget, proc
  <1>3. PICK x, y, m, n, z, k \in Nat :
           /\ x = Page(job.uaddr) /\ y = Page(job.kaddr) /\ m = job.off /\ n = job.count /\ z = job.pages /\ z = (m + n) + k
           /\ (job.uaddr + Bytes(job.off)) \div PAGE_SIZE = x + m
           /\ (job.kaddr + Bytes(job.off)) \div PAGE_SIZE = y + m
           /\ m + n <= z /\ z - m = n + k /\ z - (m + n) = k
    BY <1>1, JobRound
  <1>4. PtOK(ktable) /\ used \subseteq Pages /\ Side(kfree, KHeld) /\ AllocMaps(job, utable, ktable)
    BY <1>1 DEF PhysInv, MemOK, ShareInv, MapInv, JobMaps
  <1>5. PICK phys \in Nat : phys = job.base
    BY <1>1, RoundFacts
  <1>6. MapLoop(ktable, used, phys, y + m, n, r) /\ (r.state = "ok" => r.next = n)
    BY <1>1, <1>3, <1>4, <1>5, RoundFacts, MapRangeFacts
  <1> HIDE DEF r
  <1>7. JobKRange \in KHeld /\ JobKRange.addr = job.kaddr /\ JobKRange.pages = job.pages
    BY <1>1, HeldAt, HeldParts, RangeFields
  <1>8. PICK g : g = JobKRange
    OBVIOUS
  <1>9. \A w \in Nat : Outside(w, Page(g.addr), g.pages) => SameAt(ktable, r.pt, w)
    BY <1>3, <1>4, <1>6, <1>7, <1>8, RoundOutside
  <1>10. InUse(UHeld, KHeld \ {g}, utable, r.pt)
    BY <1>4, <1>7, <1>8, <1>9, KernelRangeChanged
  <1>12. /\ \A q \in queues : URange(q) \in UHeld /\ KRange(q) \in KHeld \ {g}
         /\ \A s \in regions : Range1("region", s) \in UHeld
         /\ \A b \in buffers : Range1("buffer", b) \in KHeld \ {g}
    BY <1>8, HeldParts, OwnersDiffer
  <1>13. PICK ut, kt : ut = utable /\ kt = r.pt
    OBVIOUS
  <1>14. JobMaps(job', ut, kt)
    <2>1. CASE r.state # "ok"
      <3>1. job'.at = "idle"
        BY <1>2, <2>1 DEF Idle
      <3> QED
        BY <3>1, NothingMapped
    <2>2. CASE r.state = "ok"
      <3>1. /\ Tiled(ktable, y, m) /\ SamePages(ut, x, ktable, y, m) /\ MapsTo(ut, x + m, n, phys)
            /\ Tiled(ut, x, m + n) /\ (m + n # 0 => Aligned(job.uaddr))
        BY <1>1, <1>3, <1>4, <1>5, <1>13 DEF AllocMaps, Done
      <3>2. MappedOn(ktable, kt, phys, y, m, n)
        BY <1>4, <1>6, <1>13, <2>2, <3>1, MapRound
      <3>3. Tiled(kt, y, m + n) /\ LookupsAgree(ktable, kt, y, m) /\ MapsTo(kt, y + m, n, phys)
        BY <3>2 DEF MappedOn
      <3>4. SamePages(ut, x, kt, y, m + n)
        <4> SUFFICES ASSUME NEW i \in 0..((m + n) - 1) PROVE Lookup(ut, x + i) = Lookup(kt, y + i)
          BY DEF SamePages
        <4>1. CASE i < m
          BY <3>1, <3>3, <4>1 DEF SamePages, LookupsAgree
        <4>2. CASE ~(i < m)
          <5>1. PICK l \in 0..(n - 1) : i = m + l
            BY <4>2
          <5>2. Lookup(ut, (x + m) + l) = phys + l /\ Lookup(kt, (y + m) + l) = phys + l
            BY <3>1, <3>3 DEF MapsTo
          <5>3. (x + m) + l = x + i /\ (y + m) + l = y + i
            BY <5>1
          <5> QED
            BY <5>2, <5>3
        <4> QED
          BY <4>1, <4>2
      <3>5. Becomes(job, job', "pages", m + n, job.uaddr, job.kaddr, job.base, n)
        BY <1>1, <1>2, <1>3, <2>2, JobNextRound
      <3>6. PICK j : j = job'
        OBVIOUS
      <3>7. j.at = "pages" /\ Done(j) = m + n /\ j.off = m + n /\ Page(j.uaddr) = x /\ Page(j.kaddr) = y /\ j.uaddr = job.uaddr
        BY <1>3, <3>5, <3>6 DEF Becomes, Done
      <3>8. AllocMaps(j, ut, kt)
        BY <3>1, <3>3, <3>4, <3>7 DEF AllocMaps
      <3> QED
        BY <3>6, <3>7, <3>8 DEF JobMaps
    <2> QED
      BY <2>1, <2>2
  <1>15. InUse(UHeld, KHeld \ {g}, ut, kt) /\ utable' = ut /\ ktable' = kt
    BY <1>2, <1>10, <1>13
  <1> QED
    BY <1>2, <1>12, <1>14, <1>15, MapsNext

\* destroy_queue unmaps the queue from the kernel and nothing else.
LEMMA DestroyKernelUnmapMaps ==
  ASSUME PhysInv, ShareInv, MapInv, DestroyKernelUnmap
  PROVE  MapInv'
  <1>1. job \in DestroyJob /\ job.at = "kunmap"
    BY JobCases DEF PhysInv, JobOK, DestroyKernelUnmap
  <1>2. /\ ktable' = UnmapRange(ktable, job.kaddr, job.pages).pt /\ job'.at = "idle"
        /\ UNCHANGED <<utable, ufree, queues, regions, buffers>>
    BY DEF DestroyKernelUnmap, proc, Idle
  <1>3. Side(kfree, KHeld) /\ PtOK(ktable) /\ Tiled(ktable, Page(job.kaddr), job.pages)
    BY <1>1 DEF PhysInv, MemOK, ShareInv, MapInv, JobMaps
  <1>4. JobKRange \in KHeld /\ JobKRange.addr = job.kaddr /\ JobKRange.pages = job.pages
    BY <1>1, HeldAt, HeldParts, RangeFields
  <1>5. job.kaddr \in Nat /\ job.pages \in Nat
    BY <1>1, DestroyJobFacts
  <1>6. PICK ut, kt : ut = utable /\ kt = UnmapRange(ktable, job.kaddr, job.pages).pt
    OBVIOUS
  <1>7. Unmapped(ktable, kt, Page(job.kaddr), job.pages)
    BY <1>3, <1>5, <1>6, UnmapTiled
  <1>8. PICK g : g = JobKRange
    OBVIOUS
  <1>9. \A w \in Nat : Outside(w, Page(g.addr), g.pages) => SameAt(ktable, kt, w)
    BY <1>4, <1>7, <1>8 DEF Unmapped
  <1>10. InUse(UHeld, KHeld \ {g}, utable, kt)
    BY <1>3, <1>4, <1>8, <1>9, KernelRangeChanged
  <1>11. /\ \A q \in queues : URange(q) \in UHeld /\ KRange(q) \in KHeld \ {g}
         /\ \A s \in regions : Range1("region", s) \in UHeld
         /\ \A b \in buffers : Range1("buffer", b) \in KHeld \ {g}
    BY <1>8, HeldParts, OwnersDiffer
  <1>12. JobMaps(job', ut, kt)
    BY <1>2, NothingMapped
  <1>13. InUse(UHeld, KHeld \ {g}, ut, kt) /\ utable' = ut /\ ktable' = kt
    BY <1>2, <1>3, <1>6, <1>10
  <1> QED
    BY <1>2, <1>11, <1>12, <1>13, MapsNext

\* PhysicalBuffer::alloc maps its buffer and nothing else.
LEMMA AllocBufferMaps ==
  ASSUME PhysInv, ShareInv, MapInv, NEW n \in Sizes, AllocBuffer(n)
  PROVE  MapInv'
  <1>1. MemOK /\ PagesOK /\ n \in Nat \ {0}
    BY AddressSpaceAssumption DEF PhysInv
  <1> DEFINE m == BufferAlloc(KMem, n)
             b == [base |-> m.base, addr |-> m.addr, pages |-> n]
  <1>2. /\ job = Idle /\ ktable' = m.ktable
        /\ buffers' = IF m.state = "ok" THEN {b} ELSE {}
        /\ UNCHANGED <<utable, ufree, queues, regions, job>>
    BY DEF AllocBuffer, proc
  <1>3. KMem.kfree = kfree /\ KMem.ktable = ktable /\ KMemOK(KMem)
    BY <1>1, KMemFacts
  <1>4. Side(KMem.kfree, KHeld)
    BY <1>3 DEF ShareInv
  <1>5. TakesRange(KHeld, KMem, m, n)
    BY <1>1, <1>3, <1>4, BufferAllocKeeps
  <1>6. b.addr = m.addr /\ b.pages = n
    OBVIOUS
  <1> HIDE DEF m, b
  <1>7. m.state = "ok" => RegionMapped(b, m.ktable)
    BY <1>5, <1>6 DEF TakesRange, RegionMapped
  <1>8. PICK ut, kt : ut = utable /\ kt = m.ktable
    OBVIOUS
  <1>9. InUse(UHeld, KHeld, ut, kt)
    BY <1>3, <1>5, <1>8, KeptSelf, InUseKept DEF TakesRange
  <1>10. /\ \A q \in queues : URange(q) \in UHeld /\ KRange(q) \in KHeld
         /\ \A r \in regions : Range1("region", r) \in UHeld
    BY HeldParts
  <1>11. JobMaps(job', ut, kt)
    <2>1. job'.at = "idle"
      BY <1>2 DEF Idle
    <2> QED
      BY <2>1, NothingMapped
  <1>12. \A x \in buffers' : RegionMapped(x, kt)
    BY <1>2, <1>7, <1>8
  <1>13. utable' = ut /\ ktable' = kt
    BY <1>2, <1>8
  <1> QED
    BY <1>2, <1>9, <1>10, <1>11, <1>12, <1>13, MapsNext

\* PhysicalBuffer::drop unmaps its buffer and nothing else.
LEMMA DropBufferMaps ==
  ASSUME PhysInv, ShareInv, MapInv, NEW b \in buffers, DropBuffer(b)
  PROVE  MapInv'
  <1>1. MemOK /\ KernelOK /\ PagesOK
    BY DEF PhysInv
  <1>2. b.addr \in Nat /\ b.pages \in Nat \ {0} /\ b.base \in Nat
    BY <1>1 DEF KernelOK, Buffer
  <1> DEFINE m == BufferDrop(KMem, b)
             h == Range1("buffer", b)
  <1>3. /\ job = Idle /\ ktable' = m.ktable /\ buffers' = buffers \ {b}
        /\ UNCHANGED <<utable, ufree, queues, regions, job>>
    BY DEF DropBuffer, proc
  <1>4. KMem.kfree = kfree /\ KMem.ktable = ktable /\ KMemOK(KMem)
    BY <1>1, KMemFacts
  <1>5. PagesFrom(b.base, b.pages) \cap TablePages(KMem.ktable) = {}
    BY <1>1, <1>4 DEF PagesOK, Split, BufferPages
  <1>6. m.kfree = VFree(KMem.kfree, b.addr, b.pages) /\ m.ktable = UnmapRange(KMem.ktable, b.addr, b.pages).pt
    BY <1>2, <1>4, <1>5, BufferDropFacts
  <1> HIDE DEF m
  <1>7. h \in KHeld /\ h.addr = b.addr /\ h.pages = b.pages
    BY HeldParts, RangeFields
  <1>8. /\ \A q \in queues : URange(q) \in UHeld /\ KRange(q) \in KHeld \ {h}
        /\ \A r \in regions : Range1("region", r) \in UHeld
        /\ \A x \in buffers \ {b} : Range1("buffer", x) \in KHeld \ {h}
    BY HeldParts, OwnersDiffer
  <1> HIDE DEF h
  <1>9. Tiled(KMem.ktable, Page(b.addr), b.pages) /\ Side(KMem.kfree, KHeld)
    BY <1>4 DEF MapInv, RegionMapped, ShareInv
  <1>10. Kept(KHeld \ {h}, KMem.ktable, m.ktable)
    BY <1>4, <1>6, <1>7, <1>9, UnmapVirtualKeeps
  <1>11. PICK ut, kt : ut = utable /\ kt = m.ktable
    OBVIOUS
  <1>12. InUse(UHeld, KHeld \ {h}, ut, kt)
    BY <1>4, <1>10, <1>11, KeptSelf, InUseKept
  <1>13. JobMaps(job', ut, kt)
    <2>1. job'.at = "idle"
      BY <1>3 DEF Idle
    <2> QED
      BY <2>1, NothingMapped
  <1>14. utable' = ut /\ ktable' = kt
    BY <1>3, <1>11
  <1> QED
    BY <1>3, <1>8, <1>12, <1>13, <1>14, MapsNext

\* A new process has no queue and no region; the kernel keeps what it has mapped.
LEMMA SpawnProcessMaps ==
  ASSUME PhysInv, ShareInv, MapInv, SpawnProcess
  PROVE  MapInv'
  <1>1. MemOK /\ ProcOK /\ PagesOK
    BY DEF PhysInv
  <1>2. PICK end : end = Spawn(KMem) /\ ktable' = end.mem.ktable /\ utable' = end.pt
    BY SpawnEffect
  <1>3. job = Idle /\ root = -1 /\ UNCHANGED <<queues, regions, buffers, job>> /\ queues = {} /\ regions = {}
    BY <1>1, SpawnEffect DEF ProcOK
  <1>4. KMemOK(KMem) /\ KMem.kfree = kfree /\ KMem.ktable = ktable
    BY <1>1, KMemFacts
  <1>5. Side(KMem.kfree, KHeld)
    BY <1>4 DEF ShareInv
  <1>6. SpawnKept(KMem, KHeld, end)
    BY <1>2, <1>4, <1>5, SpawnKeeps
  <1>8. Kept(KHeld, ktable, end.mem.ktable)
    BY <1>4, <1>6 DEF SpawnKept
  <1>10. PICK ut, kt : ut = end.pt /\ kt = end.mem.ktable
    OBVIOUS
  <1>11. Kept({}, utable, ut)
    BY DEF Kept
  <1>12. InUse({}, KHeld, ut, kt)
    BY <1>8, <1>10, <1>11, InUseKept
  <1>13. \A b \in buffers : Range1("buffer", b) \in KHeld
    BY HeldParts
  <1>14. JobMaps(job', ut, kt)
    <2>1. job'.at = "idle"
      BY <1>3 DEF Idle
    <2> QED
      BY <2>1, NothingMapped
  <1>15. utable' = ut /\ ktable' = kt
    BY <1>2, <1>10
  <1> QED
    BY <1>3, <1>12, <1>13, <1>14, <1>15, MapsNext

\* A dropped process has nothing mapped.
LEMMA DropProcessMaps ==
  ASSUME PhysInv, MapInv, DropProcess
  PROVE  MapInv'
  <1>1. /\ job = Idle /\ queues' = {} /\ regions' = {}
        /\ UNCHANGED <<ktable, buffers, job>>
    BY DEF DropProcess
  <1>2. PICK ut, kt : ut = utable' /\ kt = ktable
    OBVIOUS
  <1>3. Kept({}, utable, ut) /\ Kept(KHeld, ktable, kt)
    BY <1>2, KeptSelf DEF Kept
  <1>4. InUse({}, KHeld, ut, kt)
    BY <1>3, InUseKept
  <1>5. \A b \in buffers : Range1("buffer", b) \in KHeld
    BY HeldParts
  <1>6. JobMaps(job', ut, kt)
    <2>1. job'.at = "idle"
      BY <1>1 DEF Idle
    <2> QED
      BY <2>1, NothingMapped
  <1> QED
    BY <1>1, <1>2, <1>4, <1>5, <1>6, MapsNext

\* The boot state maps nothing.
LEMMA InitMaps == Init => MapInv
  <1> SUFFICES ASSUME Init PROVE MapInv
    OBVIOUS
  <1>1. queues = {} /\ regions = {} /\ buffers = {} /\ job.at = "idle"
    BY DEF Init, Idle
  <1> QED
    BY <1>1, NothingMapped DEF MapInv

\* No step breaks the mapping of what is in use.
LEMMA NextMaps ==
  ASSUME PhysInv, ShareInv, MapInv, [Next]_vars
  PROVE  MapInv'
  <1>1. ASSUME NEW n \in Sizes, HeapAllocate(n) PROVE MapInv'
    BY <1>1, HeapAllocateMaps
  <1>2. ASSUME NEW r \in regions, FreeRegion(r) PROVE MapInv'
    BY <1>2, FreeRegionMaps
  <1>3. CASE SpawnProcess
    BY <1>3, SpawnProcessMaps
  <1>4. CASE DropProcess
    BY <1>4, DropProcessMaps
  <1>5. ASSUME NEW n \in Sizes, AllocBuffer(n) PROVE MapInv'
    BY <1>5, AllocBufferMaps
  <1>6. ASSUME NEW q \in queues, DestroyQueue(q) PROVE MapInv'
    BY <1>6, DestroyQueueMaps
  <1>7. ASSUME NEW b \in buffers, DropBuffer(b) PROVE MapInv'
    BY <1>7, DropBufferMaps
  <1>8. ASSUME NEW n \in Sizes, CreateCompletionQueue(n) PROVE MapInv'
    BY <1>8, QuietMaps
  <1>9. ASSUME NEW n \in Sizes, NEW q \in queues, CreateSubmissionQueue(n, q.id) PROVE MapInv'
    <2>1. q.id \in Nat
      BY DEF PhysInv, ProcOK, Queue
    <2>2. \E x \in Sizes : \E a \in Nat : CreateSubmissionQueue(x, a)
      BY <1>9, <2>1
    <2> QED
      BY <2>2, QuietMaps
  <1>10. ASSUME NEW n \in Sizes, AllocStack(n) PROVE MapInv'
    BY <1>10, QuietMaps
  <1>11. CASE TakeLock \/ UNCHANGED vars
    BY <1>11, QuietMaps
  <1>12. CASE AllocStep
    BY <1>11, <1>12, AllocUserAddressMaps, AllocKernelAddressMaps, AllocPagesMaps, MapUserMaps, MapKernelMaps, AllocDoneMaps DEF AllocStep
  <1>13. CASE DestroyStep
    BY <1>13, DestroyUnmapMaps, DestroyFreeAddressMaps, DestroyKernelUnmapMaps DEF DestroyStep
  <1>14. CASE Handler
    BY <1>1, <1>2, <1>14 DEF Handler
  <1>15. CASE StartJob
    BY <1>3, <1>4, <1>5, <1>6, <1>7, <1>8, <1>9, <1>10, <1>15 DEF StartJob
  <1> QED
    BY <1>11, <1>12, <1>13, <1>14, <1>15 DEF Next

\* In every reachable state addresses are shared out and what is in use is mapped.
LEMMA MapsAlways == Spec => [](PhysInv /\ ShareInv /\ MapInv)
  <1>1. Init => PhysInv /\ ShareInv /\ MapInv
    BY InitPhys, InitShares, InitMaps
  <1>2. PhysInv /\ ShareInv /\ MapInv /\ [Next]_vars => (PhysInv /\ ShareInv /\ MapInv)'
    BY NextPhys, NextShares, NextMaps
  <1> QED
    BY <1>1, <1>2, PTL DEF Spec

-----------------------------------------------------------------------------
(* Queue ids. *)

\* Neither no job nor the destruction of a queue is an allocation.
LEMMA NotAllocating ==
  ASSUME NEW j, j = Idle \/ j \in DestroyJob
  PROVE  ~IsAllocJob(j)
  BY DEF IsAllocJob, AllocJob, DestroyJob, Idle

\* A step that issues no id and adds no queue.
LEMMA IdsKept ==
  ASSUME IdInv, UNCHANGED nextId, queues' \subseteq queues,
         IsAllocJob(job') => IsAllocJob(job) /\ job'.kind = job.kind /\ job'.id = job.id
  PROVE  IdInv'
  BY DEF IdInv

\* The steps of an allocation keep its kind and its id.
SameAlloc(j, k) == IsAllocJob(k) => IsAllocJob(j) /\ k.kind = j.kind /\ k.id = j.id

\* An allocation's step changes its step, offset, addresses and pages only.
Moves(j, k) ==
  \/ \E at : k = [j EXCEPT !.at = at]
  \/ \E at, x : k = [j EXCEPT !.at = at, !.uaddr = x]
  \/ \E at, x : k = [j EXCEPT !.at = at, !.kaddr = x]
  \/ \E at, x : k = [j EXCEPT !.at = at, !.off = x]
  \/ \E at, x, y : k = [j EXCEPT !.at = at, !.base = x, !.count = y]

\* The steps of an allocation keep its kind and its id.
LEMMA StepSame ==
  ASSUME NEW j, IsAllocJob(j), NEW k, Moves(j, k)
  PROVE  SameAlloc(j, k)
  <1>1. j = [at |-> j.at, kind |-> j.kind, id |-> j.id, assoc |-> j.assoc, pages |-> j.pages, off |-> j.off,
             uaddr |-> j.uaddr, kaddr |-> j.kaddr, base |-> j.base, count |-> j.count]
    BY AllocJobFacts
  <1>2. k.kind = j.kind /\ k.id = j.id
    <2>1. CASE \E at : k = [j EXCEPT !.at = at]
      BY <1>1, <2>1
    <2>2. CASE \E at, x : k = [j EXCEPT !.at = at, !.uaddr = x]
      BY <1>1, <2>2
    <2>3. CASE \E at, x : k = [j EXCEPT !.at = at, !.kaddr = x]
      BY <1>1, <2>3
    <2>4. CASE \E at, x : k = [j EXCEPT !.at = at, !.off = x]
      BY <1>1, <2>4
    <2>5. CASE \E at, x, y : k = [j EXCEPT !.at = at, !.base = x, !.count = y]
      BY <1>1, <2>5
    <2> QED
      BY <2>1, <2>2, <2>3, <2>4, <2>5 DEF Moves
  <1> QED
    BY <1>2 DEF SameAlloc

\* An id issued is above those issued before, or it is the last one.
LEMMA NextIdGrows ==
  ASSUME nextId \in 0..2 ^ IdBits - 1, nextId # 0, NextQueueId
  PROVE  nextId' = 0 \/ nextId' = nextId + 1
  <1>1. PICK m \in Nat \ {0, 1} : m = 2 ^ IdBits
    BY AddressSpaceAssumption
  <1>2. nextId' = (nextId + 1) % m
    BY <1>1 DEF NextQueueId
  <1>3. nextId \in Nat /\ nextId + 1 <= m
    BY <1>1
  <1>4. CASE nextId + 1 = m
    <2>1. m % m = 0
      BY <1>1
    <2> QED
      BY <1>2, <1>4, <2>1
  <1>5. CASE nextId + 1 < m
    <2>1. (nextId + 1) % m = nextId + 1
      BY <1>3, <1>5
    <2> QED
      BY <1>2, <2>1
  <1> QED
    BY <1>3, <1>4, <1>5

\* A new queue takes an id that no queue has.
LEMMA CreateIds ==
  ASSUME PhysInv, IdInv, NEW n \in Sizes, NEW kind \in {"recv", "send"}, NEW assoc \in Nat,
         job = Idle, NextQueueId, UNCHANGED queues,
         IF nextId = 0 THEN UNCHANGED job ELSE BeginAlloc(kind, n, assoc, nextId)
  PROVE  IdInv'
  <1>1. nextId \in 0..2 ^ IdBits - 1 /\ nextId \in Nat /\ queues \subseteq Queue /\ n \in Nat \ {0}
    BY AddressSpaceAssumption DEF PhysInv, ProcOK
  <1>2. CASE nextId = 0
    BY <1>2, IdsKept DEF NextQueueId
  <1>3. CASE nextId # 0
    <2>1. nextId' = 0 \/ nextId' = nextId + 1
      BY <1>1, <1>3, NextIdGrows
    <2>2. BeginAlloc(kind, n, assoc, nextId)
      BY <1>3
    <2>3. job'.kind = kind /\ job'.id = nextId
      BY <1>1, <2>2, BeginAllocJob
    <2>4. \A q \in queues : q.id \in Nat /\ q.id # 0 /\ q.id < nextId
      BY <1>1, <1>3 DEF IdInv, Queue
    <2>5. \A q \in queues : q.id # 0 /\ q.id # nextId /\ (nextId' = 0 \/ q.id < nextId')
      BY <1>1, <2>1, <2>4
    <2>6. nextId' = 0 \/ nextId < nextId'
      BY <1>1, <2>1
    <2>7. PICK j : j = job'
      OBVIOUS
    <2>8. \A q, s \in queues : q.id = s.id => q = s
      BY DEF IdInv
    <2>9. j.kind # "stack" /\ j.id = nextId
      BY <2>3, <2>7
    <2> QED
      BY <1>3, <2>5, <2>6, <2>7, <2>8, <2>9 DEF IdInv
  <1> QED
    BY <1>2, <1>3

\* A stack takes no id.
LEMMA AllocStackIds ==
  ASSUME PhysInv, IdInv, NEW n \in Sizes, AllocStack(n)
  PROVE  IdInv'
  <1>1. n \in Nat \ {0} /\ BeginAlloc("stack", n, 0, 0) /\ UNCHANGED <<nextId, queues>>
    BY AddressSpaceAssumption DEF AllocStack, proc
  <1>2. job'.kind = "stack" /\ job'.id = 0
    BY <1>1, BeginAllocJob
  <1> QED
    BY <1>1, <1>2 DEF IdInv

\* The queue keeps the id that its allocation took.
LEMMA AllocDoneIds ==
  ASSUME PhysInv, IdInv, AllocDone
  PROVE  IdInv'
  <1>1. IsAllocJob(job)
    BY JobCases DEF PhysInv, JobOK, AllocDone
  <1> DEFINE q == [id |-> job.id, kind |-> job.kind, assoc |-> job.assoc,
                   uaddr |-> job.uaddr, kaddr |-> job.kaddr, pages |-> job.pages]
  <1>2. /\ job' = Idle /\ UNCHANGED nextId
        /\ job.kind = "stack" => queues' = queues
        /\ job.kind # "stack" => queues' = queues \cup {q}
    BY DEF AllocDone
  <1>3. ~IsAllocJob(job')
    BY <1>2, NotAllocating
  <1>4. q.id = job.id
    OBVIOUS
  <1> HIDE DEF q
  <1>5. CASE job.kind = "stack"
    BY <1>2, <1>3, <1>5, IdsKept
  <1>6. CASE job.kind # "stack"
    BY <1>1, <1>2, <1>3, <1>4, <1>6 DEF IdInv
  <1> QED
    BY <1>5, <1>6

\* The steps that take no id and add no queue.
LEMMA StepIds ==
  ASSUME PhysInv, IdInv,
         \/ TakeLock \/ AllocUserAddress \/ AllocKernelAddress \/ AllocPages \/ MapUser \/ MapKernel
         \/ DestroyUnmap \/ DestroyFreeAddress \/ DestroyKernelUnmap \/ UNCHANGED vars
         \/ \E n \in Sizes : HeapAllocate(n) \/ AllocBuffer(n)
         \/ \E r \in regions : FreeRegion(r)
         \/ \E b \in buffers : DropBuffer(b)
         \/ \E q \in queues : DestroyQueue(q)
  PROVE  IdInv'
  <1>1. UNCHANGED nextId /\ queues' \subseteq queues
    BY DEF TakeLock, AllocUserAddress, AllocKernelAddress, AllocPages, MapUser, MapKernel, DestroyUnmap, DestroyFreeAddress,
           DestroyKernelUnmap, vars, HeapAllocate, AllocBuffer, FreeRegion, DropBuffer, DestroyQueue, proc, kmem
  <1>2. JobOK
    BY DEF PhysInv
  <1>3. SameAlloc(job, job')
    <2>1. CASE job' = job
      BY <2>1 DEF SameAlloc
    <2>2. CASE job' = Idle \/ job' \in DestroyJob
      BY <2>2, NotAllocating DEF SameAlloc
    <2>3. CASE \/ \E n \in Sizes : HeapAllocate(n) \/ AllocBuffer(n)
               \/ \E r \in regions : FreeRegion(r)
               \/ \E b \in buffers : DropBuffer(b)
               \/ UNCHANGED vars
      <3>1. job' = job
        BY <2>3 DEF HeapAllocate, AllocBuffer, FreeRegion, DropBuffer, vars
      <3> QED
        BY <2>1, <3>1
    <2>4. CASE \E q \in queues : DestroyQueue(q)
      <3>1. PICK q \in queues : job' = [at |-> "unmap", kind |-> "destroy", uaddr |-> q.uaddr, kaddr |-> q.kaddr, pages |-> q.pages]
        BY <2>4 DEF DestroyQueue
      <3>2. job'.at = "unmap"
        BY <3>1
      <3>3. ~IsAllocJob(job')
        BY <3>2 DEF IsAllocJob, AllocJob
      <3> QED
        BY <3>3 DEF SameAlloc
    <2>5. CASE DestroyUnmap \/ DestroyFreeAddress \/ DestroyKernelUnmap \/ (TakeLock /\ job.at = "lock_free")
      <3>1. CASE DestroyKernelUnmap
        BY <2>2, <3>1 DEF DestroyKernelUnmap
      <3>2. CASE DestroyUnmap \/ DestroyFreeAddress \/ (TakeLock /\ job.at = "lock_free")
        <4>1. PICK at : job' = [job EXCEPT !.at = at] /\ at \in {"lock_free", "kunmap", "vfree"}
          BY <3>2 DEF DestroyUnmap, DestroyFreeAddress, TakeLock, Goto
        <4>2. job \in DestroyJob
          BY <1>2, <3>2, JobCases DEF JobOK, DestroyUnmap, DestroyFreeAddress, TakeLock
        <4>3. job' \in DestroyJob
          BY <4>1, <4>2 DEF DestroyJob
        <4> QED
          BY <2>2, <4>3
      <3> QED
        BY <2>5, <3>1, <3>2
    <2>6. CASE \/ TakeLock /\ job.at = "lock"
               \/ AllocUserAddress \/ AllocKernelAddress \/ AllocPages \/ MapUser \/ MapKernel
      <3>1. IsAllocJob(job)
        BY <1>2, <2>6, JobCases DEF JobOK, TakeLock, AllocUserAddress, AllocKernelAddress, AllocPages, MapUser, MapKernel
      <3>2. job' = Idle \/ Moves(job, job')
        <4>1. CASE TakeLock
          BY <4>1 DEF TakeLock, Goto, Moves
        <4>2. CASE AllocUserAddress
          BY <4>2 DEF AllocUserAddress, Moves
        <4>3. CASE AllocKernelAddress
          BY <4>3 DEF AllocKernelAddress, Moves
        <4>4. CASE AllocPages
          BY <4>4 DEF AllocPages, Moves
        <4>5. CASE MapUser
          BY <4>5 DEF MapUser, NextRound, Moves
        <4>6. CASE MapKernel
          BY <4>6 DEF MapKernel, NextRound, Moves
        <4> QED
          BY <2>6, <4>1, <4>2, <4>3, <4>4, <4>5, <4>6
      <3> QED
        BY <2>2, <3>1, <3>2, StepSame
    <2>7. TakeLock => job.at \in {"lock", "lock_free"}
      BY DEF TakeLock
    <2> QED
      BY <2>3, <2>4, <2>5, <2>6, <2>7
  <1> QED
    BY <1>1, <1>3, IdsKept DEF SameAlloc

\* No step breaks the invariant of the ids.
LEMMA NextIds ==
  ASSUME PhysInv, IdInv, [Next]_vars
  PROVE  IdInv'
  <1>1. ASSUME NEW n \in Sizes, CreateCompletionQueue(n) PROVE IdInv'
    <2>1. /\ job = Idle /\ NextQueueId /\ UNCHANGED queues
          /\ IF nextId = 0 THEN UNCHANGED job ELSE BeginAlloc("recv", n, 0, nextId)
      BY <1>1 DEF CreateCompletionQueue
    <2> QED
      BY <2>1, CreateIds
  <1>2. ASSUME NEW n \in Sizes, NEW q \in queues, CreateSubmissionQueue(n, q.id) PROVE IdInv'
    <2>1. PICK a \in Nat : a = q.id
      BY DEF PhysInv, ProcOK, Queue
    <2>2. /\ job = Idle /\ NextQueueId /\ UNCHANGED queues
          /\ IF nextId = 0 THEN UNCHANGED job ELSE BeginAlloc("send", n, a, nextId)
      BY <1>2, <2>1 DEF CreateSubmissionQueue
    <2> QED
      BY <2>2, CreateIds
  <1>3. ASSUME NEW n \in Sizes, AllocStack(n) PROVE IdInv'
    BY <1>3, AllocStackIds
  <1>4. CASE SpawnProcess \/ DropProcess
    <2>1. queues' = {} /\ job' = Idle
      <3>1. CASE SpawnProcess
        BY <3>1, SpawnEffect DEF PhysInv, ProcOK
      <3>2. CASE DropProcess
        BY <3>2 DEF DropProcess
      <3> QED
        BY <1>4, <3>1, <3>2
    <2>2. ~IsAllocJob(job')
      BY <2>1, NotAllocating
    <2> QED
      BY <2>1, <2>2 DEF IdInv
  <1>5. ASSUME NEW n \in Sizes, HeapAllocate(n) \/ AllocBuffer(n) PROVE IdInv'
    BY <1>5, StepIds
  <1>6. CASE \/ \E r \in regions : FreeRegion(r)
             \/ \E b \in buffers : DropBuffer(b)
             \/ \E q \in queues : DestroyQueue(q)
    BY <1>6, StepIds
  <1>7. CASE AllocStep
    BY <1>7, StepIds, AllocDoneIds DEF AllocStep
  <1>8. CASE DestroyStep \/ UNCHANGED vars
    BY <1>8, StepIds DEF DestroyStep
  <1>9. CASE Handler
    BY <1>5, <1>6, <1>9 DEF Handler
  <1>10. CASE StartJob
    BY <1>1, <1>2, <1>3, <1>4, <1>5, <1>6, <1>10 DEF StartJob
  <1> QED
    BY <1>7, <1>8, <1>9, <1>10 DEF Next

\* Ids are not reused in any reachable state.
LEMMA IdsAlways == Spec => []IdInv
  <1>1. Init => IdInv
    <2> SUFFICES ASSUME Init PROVE IdInv
      OBVIOUS
    <2>1. queues = {} /\ job = Idle
      BY DEF Init
    <2> QED
      BY <2>1, NotAllocating DEF IdInv
  <1>2. PhysInv /\ IdInv /\ [Next]_vars => IdInv'
    BY NextIds
  <1> QED
    BY <1>1, <1>2, PhysAlways, PTL DEF Spec

-----------------------------------------------------------------------------
(* The queues are shared. *)

\* A range mapped throughout translates, page by page.
LEMMA TiledLookup ==
  ASSUME NEW pt, PtOK(pt), NEW x \in Nat, NEW n \in Nat, Tiled(pt, x, n), NEW i \in 0..(n - 1)
  PROVE  Lookup(pt, x + i) # -1
  <1>1. PICK e \in Maps(pt) : e = EntryAt(e[1], x + i)
    BY DEF Tiled
  <1>2. PICK w \in Nat : w = x + i
    OBVIOUS
  <1>3. e = EntryAt(e[1], w)
    BY <1>1, <1>2
  <1>4. Lookup(pt, w) # -1
    BY <1>3, LookupFacts
  <1> QED
    BY <1>2, <1>4

\* There are as many ids as queues.
LEMMA IdsCount ==
  ASSUME IsFiniteSet(queues), IdInv
  PROVE  Cardinality(QueueIds) = Cardinality(queues)
  <1> DEFINE f == [q \in queues |-> q.id]
  <1>1. \A q \in queues : f[q] = q.id
    OBVIOUS
  <1>2. f \in [queues -> QueueIds]
    BY DEF QueueIds
  <1>3. \A q, s \in queues : f[q] = f[s] => q = s
    BY <1>1 DEF IdInv
  <1>4. \A i \in QueueIds : \E q \in queues : f[q] = i
    BY <1>1 DEF QueueIds
  <1> HIDE DEF f
  <1>5. f \in Bijection(queues, QueueIds)
    BY <1>2, <1>3, <1>4 DEF Bijection, Injection, IsInjective, Surjection
  <1>6. ExistsBijection(queues, QueueIds)
    BY <1>5 DEF ExistsBijection
  <1> QED
    BY <1>6, FS_Bijection

\* Queues are shared, regions are mapped and ids are not reused.
LEMMA QueuesShared ==
  ASSUME PhysInv, MapInv, IdInv
  PROVE  QueuesAreShared
  <1>1. PtOK(utable) /\ IsFiniteSet(queues) /\ JobOK
    BY DEF PhysInv, MemOK, ProcOK
  <1>2. ASSUME NEW q \in queues, NEW i \in 0..q.pages - 1
        PROVE  /\ Lookup(utable, q.uaddr \div PAGE_SIZE + i) # -1
               /\ Lookup(utable, q.uaddr \div PAGE_SIZE + i) = Lookup(ktable, q.kaddr \div PAGE_SIZE + i)
    <2>1. q.uaddr \in Nat /\ q.kaddr \in Nat /\ q.pages \in Nat
      BY DEF PhysInv, ProcOK, Queue
    <2>2. PICK x \in Nat, y \in Nat, n \in Nat : x = Page(q.uaddr) /\ y = Page(q.kaddr) /\ n = q.pages
      BY <2>1, PageNat
    <2>3. Tiled(utable, x, n) /\ SamePages(utable, x, ktable, y, n)
      BY <2>2 DEF MapInv, QueueMapped
    <2>4. i \in 0..(n - 1)
      BY <2>2
    <2>5. Lookup(utable, x + i) # -1
      BY <1>1, <2>3, <2>4, TiledLookup
    <2>6. Lookup(utable, x + i) = Lookup(ktable, y + i)
      BY <2>3, <2>4 DEF SamePages
    <2> QED
      BY <2>2, <2>5, <2>6 DEF Page
  <1>3. ASSUME NEW r \in regions, NEW i \in 0..r.pages - 1
        PROVE  Lookup(utable, r.addr \div PAGE_SIZE + i) # -1
    <2>1. r.addr \in Nat /\ r.pages \in Nat
      BY DEF PhysInv, ProcOK, Region
    <2>2. PICK x \in Nat, n \in Nat : x = Page(r.addr) /\ n = r.pages
      BY <2>1, PageNat
    <2>3. Tiled(utable, x, n)
      BY <2>2 DEF MapInv, RegionMapped
    <2>4. i \in 0..(n - 1)
      BY <2>2
    <2>5. Lookup(utable, x + i) # -1
      BY <1>1, <2>3, <2>4, TiledLookup
    <2> QED
      BY <2>2, <2>5 DEF Page
  <1>4. Cardinality(QueueIds) = Cardinality(queues)
    BY <1>1, IdsCount
  <1>5. \A i \in QueueIds : i # 0 /\ (nextId = 0 \/ i < nextId)
    BY DEF IdInv, QueueIds
  <1>6. "id" \in DOMAIN job => job.id \notin QueueIds
    <2>1. CASE job = Idle
      BY <2>1 DEF Idle
    <2>2. CASE job \in DestroyJob
      BY <2>2 DEF DestroyJob
    <2>3. CASE IsAllocJob(job)
      BY <1>5, <2>3 DEF IdInv, QueueIds
    <2> QED
      BY <1>1, <2>1, <2>2, <2>3 DEF JobOK, IsJob
  <1> QED
    BY <1>2, <1>3, <1>4, <1>5, <1>6 DEF QueuesAreShared

\* The kernel and the process see a queue as the same pages in the same order, regions are mapped
\* throughout and no id is issued twice (create_completion_queue, create_submission_queue, alloc_memory,
\* free_memory, next_queue_id).
THEOREM SharedQueues == Spec => []QueuesAreShared
  <1>1. PhysInv /\ MapInv /\ IdInv => QueuesAreShared
    BY QueuesShared
  <1> QED
    BY <1>1, MapsAlways, IdsAlways, PTL

-----------------------------------------------------------------------------
(* No page is lost: what is in use is held. *)

\* The steps that change no page, no table and no buffer.
LEMMA QuietFull ==
  ASSUME FullInv, failed => failed', UNCHANGED <<used, root, utable, ktable, buffers>>, job.at # "umap" \/ UNCHANGED job
  PROVE  FullInv'
  <1>1. RootPages' = RootPages /\ BufferPages' = BufferPages /\ JobPages \subseteq JobPages'
    BY DEF RootPages, BufferPages, JobPages
  <1> QED
    BY <1>1 DEF FullInv, HeldPages

\* Pages are unmapped from the process and freed.
LEMMA UnmapUserFull ==
  ASSUME PhysInv, FullInv, NEW addr \in Nat, NEW n \in Nat \ {0}, NEW u, u = UnmapRange(utable, addr, n),
         utable' = u.pt, used' = Free(u.regions), UNCHANGED <<ktable, root, buffers, failed>>, job.at # "umap" \/ UNCHANGED job
  PROVE  FullInv'
  <1>1. PtOK(utable) /\ EntriesApart(utable)
    BY DEF PhysInv, MemOK, PagesOK
  <1>2. PICK v0 : v0 = addr \div PAGE_SIZE
    OBVIOUS
  <1>3. UnmapLoop(utable, v0, n, u)
    BY <1>1, <1>2, UnmapRangeFacts
  <1>4. UserPages(u.pt) = UserPages(utable) \ UNION u.regions
    BY <1>1, <1>3, UnmapPhysical
  <1>5. used' = used \ UNION u.regions
    BY DEF Free
  <1>6. RootPages' = RootPages /\ BufferPages' = BufferPages /\ JobPages \subseteq JobPages'
    BY DEF RootPages, BufferPages, JobPages
  <1> QED
    BY <1>4, <1>5, <1>6 DEF FullInv, HeldPages

\* HeapFree and the stack of a thread that exits give back what they unmap.
LEMMA FreeRegionFull ==
  ASSUME PhysInv, FullInv, NEW r \in regions, FreeRegion(r)
  PROVE  FullInv'
  <1>1. r.pages \in Nat \ {0} /\ r.addr \in Nat
    BY DEF PhysInv, ProcOK, Region
  <1>2. /\ utable' = UnmapRange(utable, r.addr, r.pages).pt /\ used' = Free(UnmapRange(utable, r.addr, r.pages).regions)
        /\ UNCHANGED <<ktable, root, buffers, job, failed>>
    BY DEF FreeRegion
  <1> QED
    BY <1>1, <1>2, UnmapUserFull

\* destroy_queue gives back the pages of the queue.
LEMMA DestroyUnmapFull ==
  ASSUME PhysInv, FullInv, DestroyUnmap
  PROVE  FullInv'
  <1>1. job \in DestroyJob /\ job.at = "unmap"
    BY JobCases DEF PhysInv, JobOK, DestroyUnmap
  <1>2. job.pages \in Nat \ {0} /\ job.uaddr \in Nat
    BY <1>1, DestroyJobFacts
  <1>3. /\ utable' = UnmapRange(utable, job.uaddr, job.pages).pt
        /\ used' = Free(UnmapRange(utable, job.uaddr, job.pages).regions)
        /\ UNCHANGED <<ktable, root, buffers, failed>>
    BY DEF DestroyUnmap
  <1> QED
    BY <1>1, <1>2, <1>3, UnmapUserFull

\* destroy_queue takes the queue out of the kernel's table, whose own pages stay.
LEMMA DestroyKernelUnmapFull ==
  ASSUME PhysInv, FullInv, DestroyKernelUnmap
  PROVE  FullInv'
  <1>1. job \in DestroyJob /\ job.at = "kunmap"
    BY JobCases DEF PhysInv, JobOK, DestroyKernelUnmap
  <1>2. job.pages \in Nat \ {0} /\ job.kaddr \in Nat
    BY <1>1, DestroyJobFacts
  <1> DEFINE u == UnmapRange(ktable, job.kaddr, job.pages)
  <1>3. ktable' = u.pt /\ UNCHANGED <<used, root, utable, buffers, failed>>
    BY DEF DestroyKernelUnmap, proc
  <1>4. PtOK(ktable)
    BY DEF PhysInv, MemOK
  <1>5. PICK v0, n : v0 = job.kaddr \div PAGE_SIZE /\ n = job.pages
    OBVIOUS
  <1>6. UnmapLoop(ktable, v0, n, u)
    BY <1>2, <1>4, <1>5, UnmapRangeFacts
  <1> HIDE DEF u
  <1>7. TablePages(u.pt) = TablePages(ktable)
    BY <1>4, <1>6, UnmapPhysical
  <1>8. RootPages' = RootPages /\ BufferPages' = BufferPages /\ JobPages = {}
    BY <1>1, <1>3 DEF RootPages, BufferPages, JobPages
  <1> QED
    BY <1>3, <1>7, <1>8 DEF FullInv, HeldPages

\* A round of alloc_memory holds the pages it takes.
LEMMA AllocPagesFull ==
  ASSUME PhysInv, FullInv, AllocPages
  PROVE  FullInv'
  <1>1. IsAllocJob(job) /\ job.at = "pages" /\ job.off < job.pages
    BY JobCases DEF PhysInv, JobOK, AllocPages
  <1> DEFINE p == TryAllocContig(used, job.pages - job.off)
  <1>2. /\ used' = IF p.ok THEN used \cup PagesFrom(p.base, p.count) ELSE used
        /\ failed' = (failed \/ ~p.ok)
        /\ job' = IF p.ok THEN [job EXCEPT !.at = "umap", !.base = p.base, !.count = p.count] ELSE Idle
        /\ UNCHANGED <<ktable, root, utable, buffers>>
    BY DEF AllocPages, proc
  <1>3. PICK b, c : b = p.base /\ c = p.count
    OBVIOUS
  <1> HIDE DEF p
  <1>4. ASSUME p.ok PROVE job'.at = "umap" /\ job'.base = b /\ job'.count = c
    <2>1. job' = [job EXCEPT !.at = "umap", !.base = b, !.count = c]
      BY <1>2, <1>3, <1>4
    <2>2. job' = SetJob(job, "umap", job.off, job.uaddr, job.kaddr, b, c)
      BY <1>1, <2>1, SetJobPages
    <2> QED
      BY <2>2, SetJobFields
  <1>5. RootPages' = RootPages /\ BufferPages' = BufferPages /\ JobPages = {}
    BY <1>1, <1>2 DEF RootPages, BufferPages, JobPages
  <1>6. p.ok => JobPages' = PagesFrom(b, c)
    BY <1>4 DEF JobPages
  <1> QED
    BY <1>2, <1>3, <1>5, <1>6 DEF FullInv, HeldPages

\* Nothing is mapped where a mapping replaces none.
LEMMA NotMappedOver ==
  ASSUME NEW pt, PtOK(pt), NEW a, NEW n \in Nat, NEW v \in Nat, v = a \div PAGE_SIZE, ~MappedOver(pt, a, n)
  PROVE  ClearRange(pt, v, n)
  <1> SUFFICES ASSUME NEW i \in 0..(n - 1) PROVE ~Covered(pt, v + i)
    BY DEF ClearRange
  <1>1. PICK w \in Nat : w = v + i
    OBVIOUS
  <1>2. Lookup(pt, w) = -1
    BY <1>1 DEF MappedOver
  <1>3. \A e \in Maps(pt) : e # EntryAt(e[1], w)
    BY <1>2, LookupFacts
  <1> QED
    BY <1>1, <1>3 DEF Covered

\* Where nothing was mapped, the process's table holds the pages of the round and those of its new tables.
LEMMA MapUserFull ==
  ASSUME PhysInv, FullInv, MapUser
  PROVE  FullInv'
  <1>1. IsAllocJob(job) /\ job.at = "umap"
    BY JobCases DEF PhysInv, JobOK, MapUser
  <1> DEFINE r == MapRange(utable, used, job.base, job.uaddr + Bytes(job.off), job.count)
  <1>2. /\ utable' = r.pt /\ used' = r.used 
        /\ failed' = (failed \/ r.state # "ok" \/ MappedOver(utable, job.uaddr + Bytes(job.off), job.count))
        /\ UNCHANGED <<ktable, root, buffers>>
    BY DEF MapUser
  <1>3. PICK x, y, m, n, z, k \in Nat :
           /\ x = Page(job.uaddr) /\ y = Page(job.kaddr) /\ m = job.off /\ n = job.count /\ z = job.pages /\ z = (m + n) + k
           /\ (job.uaddr + Bytes(job.off)) \div PAGE_SIZE = x + m
           /\ (job.kaddr + Bytes(job.off)) \div PAGE_SIZE = y + m
           /\ m + n <= z /\ z - m = n + k /\ z - (m + n) = k
    BY <1>1, JobRound
  <1>4. PtOK(utable) /\ used \subseteq Pages
    BY DEF PhysInv, MemOK
  <1>5. PICK phys \in Nat, v \in Nat : phys = job.base /\ v = x + m
    BY <1>1, RoundFacts
  <1>6. MapLoop(utable, used, phys, v, n, r) /\ (r.state = "ok" => r.next = n)
    BY <1>1, <1>3, <1>4, <1>5, RoundFacts, MapRangeFacts
  <1> HIDE DEF r
  <1>7. ~failed' => ClearRange(utable, v, n)
    <2>1. PICK va : va = job.uaddr + Bytes(job.off)
      OBVIOUS
    <2>2. ~failed' => ~MappedOver(utable, va, n)
      BY <1>2, <1>3, <2>1
    <2>3. v = va \div PAGE_SIZE
      BY <1>3, <1>5, <2>1
    <2> QED
      BY <1>4, <2>2, <2>3, NotMappedOver
  <1>8. r.state = "ok" /\ ~failed' => UserPages(utable) \cup PagesFrom(phys, n) \cup (r.used \ used) \subseteq UserPages(r.pt)
    BY <1>4, <1>6, <1>7, MapUserExact
  <1>9. RootPages' = RootPages /\ BufferPages' = BufferPages /\ JobPages = PagesFrom(phys, n)
    BY <1>1, <1>2, <1>3, <1>5 DEF RootPages, BufferPages, JobPages
  <1> QED
    BY <1>2, <1>8, <1>9 DEF FullInv, HeldPages

\* The kernel's table holds the pages of its new tables.
LEMMA MapKernelFull ==
  ASSUME PhysInv, FullInv, MapKernel
  PROVE  FullInv'
  <1>1. IsAllocJob(job) /\ job.at = "kmap"
    BY JobCases DEF PhysInv, JobOK, MapKernel
  <1>2. PICK va : va = KernelTarget
    OBVIOUS
  <1> DEFINE r == MapRange(ktable, used, job.base, va, job.count)
  <1>3. /\ ktable' = r.pt /\ used' = r.used /\ failed' = (failed \/ r.state # "ok") /\ UNCHANGED <<utable, root, buffers>>
    BY <1>2 DEF MapKernel, proc
  <1>4. /\ va \in Nat /\ job.base \in Nat /\ job.count \in Nat /\ PagesFrom(job.base, job.count) \subseteq Pages
        /\ va \div PAGE_SIZE \in Nat
    BY <1>1, <1>2, RoundFacts DEF KernelTarget
  <1>5. TablePages(ktable) \subseteq used /\ TablesApart(ktable) /\ used \subseteq Pages /\ PtOK(ktable)
    BY DEF PhysInv, MemOK, PagesOK, Split
  <1>6. MapLoop(ktable, used, job.base, va \div PAGE_SIZE, job.count, r)
    BY <1>4, <1>5, MapRangeFacts
  <1> HIDE DEF r
  <1>7. TablePages(r.pt) = TablePages(ktable) \cup (r.used \ used)
    BY <1>5, <1>6, MapKernelFacts
  <1>8. RootPages' = RootPages /\ BufferPages' = BufferPages /\ JobPages = {}
    BY <1>1, <1>3 DEF RootPages, BufferPages, JobPages
  <1> QED
    BY <1>3, <1>7, <1>8 DEF FullInv, HeldPages

\* HeapAllocate: where nothing was mapped, the process's table holds all that the loop has taken.
LEMMA HeapAllocateFull ==
  ASSUME PhysInv, FullInv, NEW n \in Sizes, HeapAllocate(n)
  PROVE  FullInv'
  <1>1. n \in Nat \ {0} /\ ufree \in Seq(Block)
    BY AddressSpaceAssumption DEF PhysInv, MemOK
  <1> DEFINE a == VAlloc(ufree, n)
             s == AllocLoop([used |-> used, pt |-> utable, off |-> 0, addr |-> a.addr, state |-> "ok"], n)
  <1>2. /\ \/ UNCHANGED <<used, utable, failed>>
           \/ a.ok /\ used' = s.used /\ utable' = s.pt /\ failed' = (failed \/ s.state # "ok" \/ MappedOver(utable, a.addr, n))
        /\ UNCHANGED <<ktable, root, buffers, job>>
    BY DEF HeapAllocate
  <1>3. RootPages' = RootPages /\ BufferPages' = BufferPages /\ JobPages' = JobPages
    BY <1>2 DEF RootPages, BufferPages, JobPages
  <1>4. CASE UNCHANGED <<used, utable, failed>>
    BY <1>2, <1>3, <1>4 DEF FullInv, HeldPages
  <1>5. CASE a.ok /\ used' = s.used /\ utable' = s.pt /\ failed' = (failed \/ s.state # "ok" \/ MappedOver(utable, a.addr, n))
    <2>1. a.addr \in Nat
      BY <1>1, <1>5, VAllocFacts
    <2>2. PtOK(utable) /\ EntriesApart(utable) /\ UserPages(utable) \subseteq used /\ used \subseteq Pages
      BY DEF PhysInv, MemOK, PagesOK, Split
    <2>3. PICK x \in Nat, v \in Nat : x = a.addr /\ v = Page(x)
      BY <2>1, PageNat
    <2> DEFINE t == AllocLoop([used |-> used, pt |-> utable, off |-> 0, addr |-> x, state |-> "ok"], n)
    <2>4. v = x \div PAGE_SIZE
      BY <2>3 DEF Page
    <2>5. AllocMapped(utable, used, v, n, t)
      BY <1>1, <2>2, <2>4, AllocLoopFacts
    <2>6. s = t
      BY <2>3
    <2> HIDE DEF t, s, a
    <2>8. ~failed' => ClearRange(utable, v, n)
      <3>1. ~failed' => ~MappedOver(utable, x, n)
        BY <1>5, <2>3
      <3> QED
        BY <1>1, <2>2, <2>4, <3>1, NotMappedOver
    <2>7. s.state = "ok" /\ ~failed' => UserPages(utable) \cup (s.used \ used) \subseteq UserPages(s.pt)
      BY <2>5, <2>6, <2>8 DEF AllocMapped
    <2> QED
      BY <1>2, <1>3, <1>5, <2>7 DEF FullInv, HeldPages
  <1> QED
    BY <1>2, <1>4, <1>5

\* PhysicalBuffer::alloc: the buffer holds its pages, the kernel's table the rest.
LEMMA AllocBufferFull ==
  ASSUME PhysInv, FullInv, NEW n \in Sizes, AllocBuffer(n)
  PROVE  FullInv'
  <1>1. MemOK /\ PagesOK /\ n \in Nat \ {0}
    BY AddressSpaceAssumption DEF PhysInv
  <1> DEFINE m == BufferAlloc(KMem, n)
             b == [base |-> m.base, addr |-> m.addr, pages |-> n]
  <1>2. /\ buffers = {} /\ used' = m.used /\ ktable' = m.ktable
        /\ failed' = (failed \/ (m.used # used /\ m.state # "ok"))
        /\ buffers' = IF m.state = "ok" THEN {b} ELSE {}
        /\ UNCHANGED <<root, utable, job>>
    BY DEF AllocBuffer, proc
  <1>3. Buffered(KMem, m, n) /\ KMem.used = used /\ KMem.ktable = ktable
    BY <1>1, KMemFacts, BufferAllocFacts
  <1>4. b.base = m.base /\ b.pages = n
    OBVIOUS
  <1> HIDE DEF m, b
  <1>5. RootPages' = RootPages /\ JobPages' = JobPages /\ BufferPages = {}
    BY <1>2 DEF RootPages, JobPages, BufferPages
  <1>6. m.state = "ok" => BufferPages' = PagesFrom(m.base, n)
    BY <1>2, <1>4 DEF BufferPages
  <1>7. /\ TablePages(ktable) \subseteq TablePages(m.ktable)
        /\ m.state = "ok" => TablePages(m.ktable) = TablePages(ktable) \cup ((m.used \ used) \ PagesFrom(m.base, n))
    BY <1>3 DEF Buffered
  <1>8. CASE m.state = "ok"
    BY <1>2, <1>5, <1>6, <1>7, <1>8 DEF FullInv, HeldPages
  <1>9. CASE m.state # "ok"
    BY <1>2, <1>5, <1>7, <1>9 DEF FullInv, HeldPages
  <1> QED
    BY <1>8, <1>9

\* PhysicalBuffer::drop gives back the pages of the buffer.
LEMMA DropBufferFull ==
  ASSUME PhysInv, FullInv, NEW b \in buffers, DropBuffer(b)
  PROVE  FullInv'
  <1>1. b.addr \in Nat /\ b.pages \in Nat \ {0} /\ b.base \in Nat /\ buffers = {b} /\ MemOK /\ PagesOK
    BY DEF PhysInv, KernelOK, Buffer
  <1> DEFINE m == BufferDrop(KMem, b)
  <1>2. used' = m.used /\ ktable' = m.ktable /\ buffers' = {} /\ UNCHANGED <<root, utable, job, failed>>
    BY <1>1 DEF DropBuffer, proc
  <1>3. BufferPages = PagesFrom(b.base, b.pages) /\ BufferPages' = {}
    BY <1>1, <1>2 DEF BufferPages
  <1>4. KMem.used = used /\ KMem.ktable = ktable /\ KMemOK(KMem)
    BY <1>1, KMemFacts
  <1>5. PagesFrom(b.base, b.pages) \cap TablePages(KMem.ktable) = {}
    BY <1>1, <1>3, <1>4 DEF PagesOK, Split
  <1>6. m.used = KMem.used \ PagesFrom(b.base, b.pages) /\ TablePages(m.ktable) = TablePages(KMem.ktable)
    BY <1>1, <1>4, <1>5, BufferDropFacts
  <1> HIDE DEF m
  <1>7. RootPages' = RootPages /\ JobPages' = JobPages
    BY <1>2 DEF RootPages, JobPages
  <1> QED
    BY <1>2, <1>3, <1>4, <1>6, <1>7 DEF FullInv, HeldPages

\* spawn_process: what a process that starts has taken is its table's, its
\* mappings' or the kernel's table's.
LEMMA SpawnProcessFull ==
  ASSUME PhysInv, ShareInv, FullInv, SpawnProcess
  PROVE  FullInv'
  <1>1. PICK end : /\ end = Spawn(KMem)
                   /\ used' = end.mem.used /\ ktable' = end.mem.ktable
                   /\ root' = end.root /\ utable' = end.pt
                   /\ failed' = (failed \/ ~end.ok \/ SegmentsOverlap)
    BY SpawnEffect
  <1>2. job = Idle /\ root = -1 /\ UNCHANGED <<buffers, job>>
    BY SpawnEffect
  <1>3. KMemOK(KMem) /\ KMem.used = used /\ KMem.ktable = ktable /\ KMem.kfree = kfree /\ utable = NoEntries
    BY <1>2, KMemFacts DEF PhysInv, ProcOK
  <1>4. Side(KMem.kfree, KHeld)
    BY <1>3 DEF ShareInv
  <1>5. SpawnKept(KMem, KHeld, end)
    BY <1>1, <1>3, <1>4, SpawnKeeps
  <1>6. end.ok /\ ~SegmentsOverlap =>
                  /\ end.mem.used \subseteq used \cup UserPages(end.pt) \cup TablePages(end.mem.ktable) \cup {end.root}
                  /\ TablePages(ktable) \subseteq TablePages(end.mem.ktable)
    BY <1>3, <1>5 DEF SpawnKept
  <1>7. BufferPages' = BufferPages /\ JobPages = {} /\ RootPages = {} /\ UserPages(utable) = {}
    BY <1>2, <1>3, NoEntriesFacts DEF BufferPages, JobPages, RootPages, Idle
  <1>8. Spawned(KMem, end)
    BY <1>1, <1>3, SpawnFacts
  <1>9. end.ok => end.root # -1
    BY <1>8, PhysicalMemoryAssumption DEF Spawned, Pages
  <1>10. end.ok => RootPages' = {end.root}
    BY <1>1, <1>9 DEF RootPages
  <1> QED
    BY <1>1, <1>6, <1>7, <1>10 DEF FullInv, HeldPages

\* Process::drop gives back the pages, the tables and the top table.
LEMMA DropProcessFull ==
  ASSUME PhysInv, FullInv, DropProcess
  PROVE  FullInv'
  <1>1. /\ job = Idle /\ root' = -1 /\ utable' = NoEntries
        /\ used' = used \ (MappedPages(utable) \cup TablePages(utable) \cup {root})
        /\ UNCHANGED <<ktable, buffers, job, failed>>
    BY DEF DropProcess
  <1>2. PtOK(utable)
    BY DEF PhysInv, MemOK
  <1>3. used' = used \ (UserPages(utable) \cup {root})
    BY <1>1, <1>2, DroppedPages
  <1>4. BufferPages' = BufferPages /\ JobPages' = JobPages
    BY <1>1 DEF BufferPages, JobPages
  <1>5. RootPages \subseteq {root}
    BY DEF RootPages
  <1> QED
    BY <1>1, <1>3, <1>4, <1>5 DEF FullInv, HeldPages

\* No step loses a page unless it fails half way or maps over one.
LEMMA NextFull ==
  ASSUME PhysInv, ShareInv, FullInv, [Next]_vars
  PROVE  FullInv'
  <1>1. ASSUME NEW n \in Sizes, HeapAllocate(n) PROVE FullInv'
    BY <1>1, HeapAllocateFull
  <1>2. ASSUME NEW r \in regions, FreeRegion(r) PROVE FullInv'
    BY <1>2, FreeRegionFull
  <1>3. CASE SpawnProcess
    BY <1>3, SpawnProcessFull
  <1>4. CASE DropProcess
    BY <1>4, DropProcessFull
  <1>5. ASSUME NEW n \in Sizes, NEW q, CreateCompletionQueue(n) \/ CreateSubmissionQueue(n, q) \/ AllocStack(n) PROVE FullInv'
    BY <1>5, QuietFull DEF CreateCompletionQueue, CreateSubmissionQueue, AllocStack, Idle, kmem, proc
  <1>8. ASSUME NEW n \in Sizes, AllocBuffer(n) PROVE FullInv'
    BY <1>8, AllocBufferFull
  <1>9. ASSUME NEW q \in queues, DestroyQueue(q) PROVE FullInv'
    BY <1>9, QuietFull DEF DestroyQueue, Idle, kmem
  <1>10. ASSUME NEW b \in buffers, DropBuffer(b) PROVE FullInv'
    BY <1>10, DropBufferFull
  <1>11. CASE TakeLock \/ AllocUserAddress \/ AllocKernelAddress \/ AllocDone \/ DestroyFreeAddress
    <2>1. UNCHANGED <<used, root, utable, ktable, buffers>> /\ job.at # "umap"
      <3>1. CASE TakeLock
        BY <3>1 DEF TakeLock, kmem
      <3>2. CASE AllocUserAddress
        BY <3>2 DEF AllocUserAddress, kmem
      <3>3. CASE AllocKernelAddress
        BY <3>3 DEF AllocKernelAddress, proc
      <3>4. CASE AllocDone
        BY <3>4 DEF AllocDone, kmem
      <3>5. CASE DestroyFreeAddress
        BY <3>5 DEF DestroyFreeAddress, kmem
      <3> QED
        BY <1>11, <3>1, <3>2, <3>3, <3>4, <3>5
    <2>2. failed => failed'
      BY <1>11 DEF TakeLock, AllocUserAddress, AllocKernelAddress, AllocDone, DestroyFreeAddress
    <2> QED
      BY <2>1, <2>2, QuietFull
  <1>12. CASE AllocPages \/ MapUser \/ MapKernel
    BY <1>12, AllocPagesFull, MapUserFull, MapKernelFull
  <1>13. CASE DestroyUnmap \/ DestroyKernelUnmap
    BY <1>13, DestroyUnmapFull, DestroyKernelUnmapFull
  <1>14. CASE UNCHANGED vars
    BY <1>14, QuietFull DEF vars
  <1>15. CASE Handler
    BY <1>1, <1>2, <1>15 DEF Handler
  <1>16. CASE StartJob
    BY <1>3, <1>4, <1>5, <1>8, <1>9, <1>10, <1>16 DEF StartJob
  <1> QED
    BY <1>11, <1>12, <1>13, <1>14, <1>15, <1>16 DEF Next, AllocStep, DestroyStep

\* What is in use is held, as long as no allocation has failed half way or mapped over a page.
LEMMA FullAlways == Spec => [](PhysInv /\ FullInv)
  <1>1. Init => FullInv
    BY DEF Init, FullInv, HeldPages
  <1> DEFINE I == PhysInv /\ ShareInv
  <1>2. I /\ FullInv /\ [Next]_vars => FullInv'
    BY NextFull
  <1>3. I => PhysInv
    OBVIOUS
  <1>4. Spec => []I
    BY SharesAlways
  <1> HIDE DEF I
  <1> QED
    BY <1>1, <1>2, <1>3, <1>4, PTL DEF Spec

\* A page of one of the parts has a holder.
LEMMA HeldByOne ==
  ASSUME PhysInv, NEW p, p \in HeldPages
  PROVE  Holders(p) # {}
  <1>1. CASE p \in InitialUsed
    <2>1. <<"other", "boot">> \in Holders(p)
      BY <1>1 DEF Holders
    <2> QED
      BY <2>1
  <1>2. CASE p \in RootPages
    <2>1. <<"other", "root">> \in Holders(p)
      BY <1>2 DEF Holders, RootPages
    <2> QED
      BY <2>1
  <1>3. CASE p \in JobPages
    <2>1. <<"other", "job">> \in Holders(p)
      BY <1>3 DEF Holders, JobPages
    <2> QED
      BY <2>1
  <1>4. CASE p \in UserPages(utable)
    <2>1. PICK e \in DOMAIN utable : p \in EntryPages(utable, e)
      BY <1>4 DEF UserPages
    <2>2. <<"user", e>> \in Holders(p)
      BY <2>1 DEF Holders, EntryPages
    <2> QED
      BY <2>2
  <1>5. CASE p \in TablePages(ktable)
    <2>1. PICK e \in DOMAIN ktable : IsTable(ktable, e) /\ ktable[e].page = p
      BY <1>5 DEF TablePages
    <2>2. <<"kernel", e>> \in Holders(p)
      BY <2>1 DEF Holders
    <2> QED
      BY <2>2
  <1>6. CASE p \in BufferPages
    <2>1. PICK b \in buffers : p \in PagesFrom(b.base, b.pages)
      BY <1>6 DEF BufferPages
    <2>2. <<"buffer", b>> \in Holders(p)
      BY <2>1 DEF Holders
    <2> QED
      BY <2>2
  <1> QED
    BY <1>1, <1>2, <1>3, <1>4, <1>5, <1>6 DEF HeldPages

\* Until an allocation fails half way or maps over a page, the pages in use are those that have a
\* holder: free_memory, destroy_queue, PhysicalBuffer::drop and Process::drop
\* give back all that alloc_memory, PhysicalBuffer::alloc and spawn_process took.
THEOREM NoneLost == Spec => []NoPageLost
  <1>1. PhysInv /\ FullInv => NoPageLost
    <2> SUFFICES ASSUME PhysInv, FullInv, ~failed PROVE used = {p \in Pages : Holders(p) # {}}
      BY DEF NoPageLost
    <2>1. ASSUME NEW p \in used PROVE p \in Pages /\ Holders(p) # {}
      <3>1. p \in HeldPages
        BY DEF FullInv, HeldPages
      <3>2. Holders(p) # {}
        BY <3>1, HeldByOne
      <3>3. p \in Pages
        BY DEF PhysInv, MemOK
      <3> QED
        BY <3>2, <3>3
    <2>2. ASSUME NEW p \in Pages, Holders(p) # {} PROVE p \in used
      <3>1. PICK h : h \in Holders(p)
        BY <2>2
      <3> QED
        BY <3>1, OneHolder
    <2> QED
      BY <2>1, <2>2
  <1> QED
    BY <1>1, FullAlways, PTL

-----------------------------------------------------------------------------
(* Copies out of a process are exact. *)

\* A copy out of a process's memory (mapped_copy_from) succeeds just when
\* every byte is mapped, the first page is the first of its block or page, and
\* a mapping follows the last one; then it has read the bytes that the table
\* maps there, over any mix of blocks and pages, from any offset.
THEOREM ExactCopies == Spec => []CopyIsExact
  <1>1. PhysInv => CopyIsExact
    <2> SUFFICES ASSUME PhysInv, root # -1, NEW src \in 0..Bytes(VaPages), NEW len \in {1, PAGE_SIZE + 1, Bytes(2)}
                 PROVE  LET c == MappedCopyFrom(utable, src, len)
                            v == src \div PAGE_SIZE
                            page(i) == Lookup(utable, (src + i) \div PAGE_SIZE)
                            all == \A i \in 0 .. len - 1 : page(i) # -1
                            inner == v % Span(WalkLevel(utable, v)) # 0
                            last == \A e \in Maps(utable) : BaseOf(e) <= (src + len - 1) \div PAGE_SIZE
                        IN  /\ c.ok <=> all /\ ~inner /\ ~last
                            /\ c.ok => c.out = [i \in 1..len |-> Bytes(page(i - 1)) + ((src + i - 1) % PAGE_SIZE)]
      BY DEF CopyIsExact
    <2> DEFINE c == MappedCopyFrom(utable, src, len)
               page(i) == Lookup(utable, (src + i) \div PAGE_SIZE)
               all == \A i \in 0 .. len - 1 : page(i) # -1
               inner == (src \div PAGE_SIZE) % Span(WalkLevel(utable, src \div PAGE_SIZE)) # 0
               last == \A e \in Maps(utable) : BaseOf(e) <= (src + len - 1) \div PAGE_SIZE
    <2>1. PtOK(utable)
      BY DEF PhysInv, MemOK
    <2>2. src \in Nat /\ len \in Nat \ {0}
      <3>1. Bytes(2) \in Nat /\ Bytes(2) >= 1
        <4>1. 2 \in Nat /\ 2 # 0
          OBVIOUS
        <4> QED
          BY <4>1, BytesFacts
      <3> QED
        BY <3>1, PageSizeAssumption
    <2>3. /\ c.ok \in BOOLEAN
          /\ c.ok => /\ c.out \in Seq(Nat) /\ Len(c.out) = len
                     /\ \A i \in 1..len : Reads(utable, src, i, c.out[i])
                     /\ Follows(utable, src, len) /\ ~StartsInside(utable, src \div PAGE_SIZE)
          /\ ~c.ok => Refused(utable, src, len) \/ StartsInside(utable, src \div PAGE_SIZE)
      BY <2>1, <2>2, CopyFacts
    <2> HIDE DEF c
    <2>6. inner <=> StartsInside(utable, src \div PAGE_SIZE)
      BY DEF StartsInside
    <2> HIDE DEF inner
    <2>4. CASE c.ok
      <3>1. c.out \in Seq(Nat) /\ Len(c.out) = len /\ \A i \in 1..len : Reads(utable, src, i, c.out[i])
        BY <2>3, <2>4
      <3>2. ASSUME NEW i \in 1..len
            PROVE  /\ page(i - 1) # -1
                   /\ c.out[i] = Bytes(page(i - 1)) + ((src + i - 1) % PAGE_SIZE)
        <4>1. Reads(utable, src, i, c.out[i])
          BY <3>1
        <4>2. src + (i - 1) = src + i - 1
          BY <2>2
        <4> QED
          BY <4>1, <4>2 DEF Reads
      <3>3. ASSUME NEW i \in 0..(len - 1) PROVE page(i) # -1
        <4>1. i + 1 \in 1..len /\ (i + 1) - 1 = i
          BY <2>2
        <4> QED
          BY <3>2, <4>1
      <3> HIDE DEF page
      <3>4. c.out = [i \in 1..len |-> Bytes(page(i - 1)) + ((src + i - 1) % PAGE_SIZE)]
        <4>1. c.out = [i \in 1..len |-> c.out[i]]
          BY <2>2, <3>1
        <4> QED
          BY <3>2, <4>1
      <3>5. all
        BY <3>3
      <3>6. ~last
        <4>1. src + len - 1 \in Nat
          BY <2>2
        <4>2. PICK m \in Nat : m = (src + len - 1) \div PAGE_SIZE
          BY <4>1, ByteParts
        <4>3. PICK e \in Maps(utable) : BaseOf(e) > m
          BY <2>3, <2>4, <4>2 DEF Follows
        <4>4. e \in Entry
          BY <2>1 DEF Maps, PtOK
        <4>5. BaseOf(e) \in Nat
          BY <4>2, <4>4, CoverFacts
        <4>6. ~(BaseOf(e) <= m)
          BY <4>3, <4>5
        <4> QED
          BY <4>2, <4>6
      <3>7. ~inner
        BY <2>3, <2>4, <2>6
      <3> HIDE DEF all, last
      <3>8. (c.ok <=> all /\ ~inner /\ ~last) /\ c.out = [i \in 1..len |-> Bytes(page(i - 1)) + ((src + i - 1) % PAGE_SIZE)]
        BY <2>4, <3>4, <3>5, <3>6, <3>7
      <3> QED
        BY <3>8 DEF page, c, all, inner, last
    <2>5. CASE ~c.ok
      <3>1. ~all \/ last \/ inner
        BY <2>3, <2>5, <2>6 DEF Refused
      <3> HIDE DEF all, last, page
      <3>2. (c.ok <=> all /\ ~inner /\ ~last) /\ ~c.ok
        BY <2>5, <3>1
      <3> QED
        BY <3>2 DEF page, c, all, inner, last
    <2> QED
      BY <2>3, <2>4, <2>5
  <1> QED
    BY <1>1, PhysAlways, PTL

=============================================================================
