--------------------------- MODULE PhysicalMemory ---------------------------
(***************************************************************************)
(* The bitmap of physical pages of                                         *)
(* kernel/src/memory/physical_memory_allocator.rs.  The bitmap is the set  *)
(* "used" of the pages whose bit is set; a physical address is the number  *)
(* of its page, counted from memory_start.  The operators return what the  *)
(* methods return and leave it to the caller to update its bitmap: every   *)
(* method runs under the allocator's spin lock, in one step.               *)
(***************************************************************************)
EXTENDS Integers, FiniteSets, FiniteSetsExt

CONSTANTS
    PageCount,    \* memory_length / PAGE_SIZE
    BootPages     \* dtb_len_pages, the kernel image and the bitmap itself

ASSUME PhysicalMemoryAssumption ==
    /\ PageCount \in Nat \ {0}
    /\ BootPages \in Nat
    /\ BootPages <= PageCount

Pages == 0 .. PageCount - 1

\* The bitmap that init builds: the device tree, the image and the bitmap.
InitialUsed == 0 .. BootPages - 1

PagesFrom(base, n) == base .. base + n - 1

Failed == [ok |-> FALSE]

Granted(base, n) == [ok |-> TRUE, base |-> base, count |-> n]

\* Mutant: the search does not stop at the last page.
AllocContigPastEnd(used, n) ==
    LET starts == {p \in Pages : PagesFrom(p, n) \cap used = {}}
    IN  IF starts = {} THEN Failed ELSE Granted(Min(starts), n)

\* alloc_contig: the first page from which n pages are clear.
AllocContig(used, n) ==
    LET starts == {p \in Pages : PagesFrom(p, n) \subseteq Pages \ used}
    IN  IF starts = {} THEN Failed ELSE Granted(Min(starts), n)

\* Mutant: the page that ends the run is counted in.
TryAllocContigOneMore(used, n) ==
    LET p == Min(Pages \ used)
        taken == used \cap PagesFrom(p, n)
    IN  IF Pages \subseteq used THEN Failed
        ELSE IF taken # {} THEN Granted(p, Min(taken) - p + 1)
        ELSE IF p + n <= PageCount THEN Granted(p, n)
        ELSE Failed

\* try_alloc_contig: from the first clear page up to the first page in use.
\* A run that meets the end of memory before n pages is refused, not cut.
TryAllocContig(used, n) ==
    LET p == Min(Pages \ used)
        taken == used \cap PagesFrom(p, n)
    IN  IF Pages \subseteq used THEN Failed
        ELSE IF taken # {} THEN Granted(p, Min(taken) - p)
        ELSE IF p + n <= PageCount THEN Granted(p, n)
        ELSE Failed

\* free_pages clears the bits, with no more than a warning when they are clear.
FreePages(used, base, n) == used \ PagesFrom(base, n)

\* alloc, called k times: the page that the k-th call returns.
NthFree(used, k) ==
    CHOOSE p \in Pages \ used :
        Cardinality({q \in Pages \ used : q < p}) = k - 1

=============================================================================
