-------------------------------- MODULE Heap --------------------------------
(***************************************************************************)
(* The kernel's heap, kernel/src/memory/heap.rs: a free list kept in the   *)
(* unused memory, blocks with a header in front of the data.  Addresses    *)
(* count bytes from KERNEL_HEAP_START.  The free list is the sequence of   *)
(* the blocks met by the cursor; the header of an allocated block is kept  *)
(* with the block, with the padding cut to its width as in the header.     *)
(*                                                                         *)
(* The executor thread and the handlers share the heap.  alloc takes the   *)
(* spin lock several times, and does not disable interrupts: a handler may *)
(* run between two sections of the executor, where it runs to its end, or  *)
(* inside one, where it spins for ever.                                    *)
(***************************************************************************)
EXTENDS Integers, Sequences, FiniteSets, SequencesExt, FiniteSetsExt

CONSTANTS
    Word,         \* size_of AllocatedBlockHeader, align_of FreeBlockHeader: 8
    PAGE_SIZE,
    INIT_SIZE,    \* pages of the heap at the start
    PaddingBits,  \* width of the padding field of a header, 8
    Layouts,      \* layouts asked for: [size, align]
    MaxHeap,      \* bytes that physical memory can give the heap
    MaxLive       \* bound: blocks allocated at once

ASSUME HeapAssumption ==
    /\ {Word, PAGE_SIZE, INIT_SIZE, PaddingBits, MaxHeap} \subseteq Nat \ {0}
    /\ PAGE_SIZE % Word = 0
    /\ INIT_SIZE * PAGE_SIZE \in 3 * Word .. MaxHeap
    /\ \A l \in Layouts : l.size \in Nat \ {0} /\ l.align \in Nat \ {0}
    /\ MaxLive \in Nat

\* No layout needs more padding than a header can tell: alloc does not check
\* it, and the kernel has no type aligned to more than a few words.
ASSUME PaddingAssumption ==
    2 ^ PaddingBits \in Nat /\ \A l \in Layouts : l.align <= 2 ^ PaddingBits

VARIABLES
    free,         \* the free list: a sequence of [addr, size]
    size,         \* heap_size_in_bytes
    live,         \* allocated blocks: [data, size, padding, layout]
    ctx,          \* what the executor and a handler are doing in alloc or dealloc
    locked,       \* the executor holds the lock
    kernel        \* "running", "spinning", "panicked" or "overflow"

heapVars == <<free, size, live, ctx, locked, kernel>>

Contexts == {"exec", "handler"}

HeaderSize == Word
FreeHeaderSize == 3 * Word

HeapInit ==
    /\ free = <<[addr |-> 0, size |-> INIT_SIZE * PAGE_SIZE]>>
    /\ size = INIT_SIZE * PAGE_SIZE
    /\ live = {}
    /\ ctx = [c \in Contexts |-> [at |-> "idle"]]
    /\ locked = FALSE
    /\ kernel = "running"

AlignOffset(a, n) == (n - (a % n)) % n

EndOf(b) == b.addr + b.size

\* Mutant: the block is aligned, not the data behind the header.
PaddingOfBlock(b, l) == AlignOffset(b.addr, l.align)

\* padding_before: between the start of the block and its header.
Padding(b, l) == AlignOffset(b.addr + HeaderSize, l.align)

\* Mutant: the padding is left out.
SuitableWithoutPadding(list, l) ==
    SelectInSeq(list, LAMBDA b : b.size >= l.size + HeaderSize)

\* find_suitable_free_block: the first block that holds header, padding, data.
SuitableIndex(list, l) ==
    SelectInSeq(list, LAMBDA b : b.size >= l.size + HeaderSize + Padding(b, l))

\* req_block_size: room for a free header, and the rest starts aligned.
BlockSize(b, l) ==
    LET r == Max({HeaderSize + Padding(b, l) + l.size, FreeHeaderSize})
    IN  r + AlignOffset(b.addr + r, Word)

\* block.size - req_block_size must not be negative.
Overflows(b, l) == b.size < BlockSize(b, l)

Splits(b, l) == b.size - BlockSize(b, l) > FreeHeaderSize

Remainder(b, l) == [addr |-> b.addr + BlockSize(b, l), size |-> b.size - BlockSize(b, l)]

Allocated(b, l) ==
    [data |-> b.addr + Padding(b, l) + HeaderSize,
     size |-> IF Splits(b, l) THEN BlockSize(b, l) ELSE b.size,
     padding |-> Padding(b, l) % 2 ^ PaddingBits, layout |-> l]

\* add_free_block: merged with the first neighbour met, or put before the
\* first block at a higher address.  The merged block is not merged again.
AddFreeBlock(list, new) ==
    LET i == SelectInSeq(list, LAMBDA b : EndOf(new) = b.addr \/ new.addr = EndOf(b)
                                          \/ new.addr < b.addr)
    IN  IF i = 0 THEN Append(list, new)
        ELSE IF EndOf(new) = list[i].addr
          THEN [list EXCEPT ![i] = [addr |-> new.addr, size |-> new.size + @.size]]
        ELSE IF new.addr = EndOf(list[i]) THEN [list EXCEPT ![i].size = @ + new.size]
        ELSE InsertAt(list, i, new)

\* Mutant: the block is taken to start at the header.
BlockOfHeader(x) == [addr |-> x.data - HeaderSize, size |-> x.size]

\* dealloc: the block of a pointer, from the header in front of it.
BlockOf(x) == [addr |-> x.data - HeaderSize - x.padding, size |-> x.size]

\* increase_heap_size: half as much again, or the size of the layout.
Growth(total, l) ==
    LET want == Max({total + total \div 2, l.size})
    IN  ((want + PAGE_SIZE - 1) \div PAGE_SIZE) * PAGE_SIZE

-----------------------------------------------------------------------------
(* A call of alloc or dealloc, one step per critical section.  A handler     *)
(* runs to its end before the executor goes on; only the executor can be     *)
(* interrupted inside a section, which Lock enters.                          *)

HeapRuns(c) == kernel = "running" /\ (c = "handler" \/ ctx["handler"].at = "idle")

BeginAlloc(c, l) ==
    /\ HeapRuns(c) /\ ctx[c].at = "idle" /\ Cardinality(live) < MaxLive
    /\ ctx' = [ctx EXCEPT ![c] = [at |-> "find", layout |-> l]]
    /\ UNCHANGED <<free, size, live, locked, kernel>>

BeginFree(c, x) ==
    /\ HeapRuns(c) /\ ctx[c].at = "idle"
    /\ live' = live \ {x}
    /\ ctx' = [ctx EXCEPT ![c] = [at |-> "add", then |-> "idle", block |-> BlockOf(x)]]
    /\ UNCHANGED <<free, size, locked, kernel>>

\* The spin lock, taken by the executor.
Lock ==
    /\ HeapRuns("exec") /\ ctx["exec"].at # "idle" /\ ~locked
    /\ locked' = TRUE
    /\ UNCHANGED <<free, size, live, ctx, kernel>>

\* The spin lock, wanted by a handler that has interrupted its holder.
Spin ==
    /\ HeapRuns("handler") /\ ctx["handler"].at # "idle" /\ locked
    /\ kernel' = "spinning"
    /\ UNCHANGED <<free, size, live, ctx, locked>>

Section(c, at) == HeapRuns(c) /\ ctx[c].at = at /\ locked = (c = "exec") /\ locked' = FALSE

\* find_suitable_free_block takes the block off the list; the header is
\* written and the remainder given back after the lock is released.
Find(c) ==
    LET l == ctx[c].layout
        i == SuitableIndex(free, l)
        b == free[i]
    IN  /\ Section(c, "find")
        /\ IF i = 0
             THEN ctx' = [ctx EXCEPT ![c] = [at |-> "grow", layout |-> l]] /\ UNCHANGED <<free, live, kernel>>
           ELSE /\ free' = RemoveAt(free, i)
                /\ live' = live \cup {Allocated(b, l)}
                /\ kernel' = IF Overflows(b, l) THEN "overflow" ELSE kernel
                /\ ctx' = [ctx EXCEPT ![c] =
                            IF Splits(b, l) THEN [at |-> "add", then |-> "idle", block |-> Remainder(b, l)]
                            ELSE [at |-> "idle"]]
        /\ UNCHANGED size

\* add_free_block, for the remainder, a freed block or the new memory.
Add(c) ==
    /\ Section(c, "add")
    /\ free' = AddFreeBlock(free, ctx[c].block)
    /\ ctx' = [ctx EXCEPT ![c] = IF @.then = "idle" THEN [at |-> "idle"]
                                 ELSE [at |-> "find", layout |-> @.layout]]
    /\ UNCHANGED <<size, live, kernel>>

\* Mutant: the result of the page allocator is not looked at.
GrowUnchecked(c) ==
    LET g == Growth(size, ctx[c].layout)
    IN  /\ Section(c, "grow")
        /\ size' = size + g
        /\ ctx' = [ctx EXCEPT ![c] = [at |-> "add", then |-> "find", layout |-> @.layout,
                                      block |-> [addr |-> size, size |-> g]]]
        /\ UNCHANGED <<free, live, kernel>>

\* increase_heap_size up to its call of add_free_block.
Grow(c) ==
    LET g == Growth(size, ctx[c].layout)
    IN  /\ Section(c, "grow")
        /\ IF size + g > MaxHeap
             THEN kernel' = "panicked" /\ UNCHANGED <<size, ctx>>
           ELSE /\ size' = size + g
                /\ ctx' = [ctx EXCEPT ![c] = [at |-> "add", then |-> "find", layout |-> @.layout,
                                              block |-> [addr |-> size, size |-> g]]]
                /\ UNCHANGED kernel
        /\ UNCHANGED <<free, live>>

HeapNext ==
    \/ \E c \in Contexts :
         \/ \E l \in Layouts : BeginAlloc(c, l)
         \/ \E x \in live : BeginFree(c, x)
         \/ Find(c) \/ Add(c) \/ Grow(c)
    \/ Lock \/ Spin

HeapSpec == HeapInit /\ [][HeapNext]_heapVars

-----------------------------------------------------------------------------
(* Properties. *)

\* Type invariant; the heap never outgrows its address range.
HeapTypeOK ==
    /\ size \in Nat /\ size <= MaxHeap
    /\ \A i \in DOMAIN free : free[i].addr \in Nat /\ free[i].size \in Nat \ {0}
    /\ \A c \in Contexts : ctx[c].at \in {"idle", "find", "add", "grow"}
    /\ kernel \in {"running", "spinning", "panicked", "overflow"}

\* Blocks of the heap: free, allocated, or in the hands of a call.
AllBlocks ==
    {<<"free", free[i]>> : i \in DOMAIN free} \cup {<<"live", BlockOf(x)>> : x \in live}
    \cup {<<c, ctx[c].block>> : c \in {d \in Contexts : ctx[d].at = "add"}}

\* The blocks tile the heap: every byte is in one free, allocated or moving
\* block, so nothing overlaps and nothing is lost, whatever the padding, the
\* rounding, the merges and the handlers between find and put back; and the
\* free list stays sorted by address, as add_free_block relies on, each block
\* aligned and large enough for the header that is written into it.
HeapIsTiled ==
    kernel = "running" =>
      /\ \A a \in 0 .. size - 1 :
            Cardinality({b \in AllBlocks : b[2].addr <= a /\ a < EndOf(b[2])}) = 1
      /\ \A b \in AllBlocks : EndOf(b[2]) <= size
      /\ \A i \in 2 .. Len(free) : EndOf(free[i - 1]) <= free[i].addr
      /\ \A i \in DOMAIN free : free[i].addr % Word = 0 /\ free[i].size >= FreeHeaderSize

\* Data is aligned as asked and stays inside its block; the header in front
\* of it leads dealloc back to where the block starts.
DataFitsBlock ==
    \A x \in live : /\ x.data % x.layout.align = 0
                    /\ x.data + x.layout.size <= EndOf(BlockOf(x))
                    /\ BlockOf(x).addr % Word = 0

\* A block that find_suitable_free_block accepts is never too small for the
\* size that alloc then rounds up to: block.size - req_block_size does not
\* overflow, although the two are computed differently.
SizesNeverOverflow == kernel # "overflow"

=============================================================================
