-------------------------- MODULE VirtualAddresses --------------------------
(***************************************************************************)
(* The free list of virtual address ranges of                              *)
(* kernel/src/memory/virtual_address_allocator.rs: one for the kernel and  *)
(* one per process.  A list is a sequence of [address, size]; an address   *)
(* is in bytes and a size in pages, as in the code.                        *)
(***************************************************************************)
EXTENDS Integers, Sequences, SequencesExt

CONSTANT PAGE_SIZE

ASSUME PageSizeAssumption == PAGE_SIZE \in Nat \ {0}

Bytes(n) == n * PAGE_SIZE

EndOf(block) == block.address + Bytes(block.size)

NewList(start, pages) == <<[address |-> start, size |-> pages]>>

\* alloc: first fit, taken from the front of the block.
VAlloc(list, n) ==
    LET i == SelectInSeq(list, LAMBDA b : b.size >= n)
        b == list[i]
    IN  IF i = 0 THEN [ok |-> FALSE, list |-> list]
        ELSE [ok |-> TRUE, addr |-> b.address,
              list |-> IF b.size = n THEN RemoveAt(list, i)
                       ELSE [list EXCEPT ![i] = [address |-> b.address + Bytes(n),
                                                 size |-> b.size - n]]]

\* Mutant: a range merged in front of a block does not move its address.
VFreeKeepsAddress(list, a, n) ==
    LET end == a + Bytes(n)
        i == SelectInSeq(list, LAMBDA b : end = b.address \/ a = EndOf(b) \/ b.address > a)
    IN  IF i > 0 /\ (end = list[i].address \/ a = EndOf(list[i]))
          THEN [list EXCEPT ![i].size = @ + n]
        ELSE Append(list, [address |-> a, size |-> n])

\* free: merged with the first neighbour met before a block at a higher
\* address, on one side only; otherwise put at the end of the list.
VFree(list, a, n) ==
    LET end == a + Bytes(n)
        i == SelectInSeq(list, LAMBDA b : end = b.address \/ a = EndOf(b) \/ b.address > a)
    IN  IF i > 0 /\ end = list[i].address
          THEN [list EXCEPT ![i] = [address |-> a, size |-> @.size + n]]
        ELSE IF i > 0 /\ a = EndOf(list[i])
          THEN [list EXCEPT ![i].size = @ + n]
        ELSE Append(list, [address |-> a, size |-> n])

\* reserve: cut a range out of the block that holds it.  A range at the very
\* start of a block moves the block's address by n bytes, not by n pages.
VReserve(list, a, n) ==
    LET end == a + Bytes(n)
        Holds(b) == b.address <= a /\ EndOf(b) >= end
        i == SelectInSeq(list, LAMBDA b : Holds(b) \/ b.address >= end)
        b == list[i]
        pages(bytes) == (bytes + PAGE_SIZE - 1) \div PAGE_SIZE
    IN  IF i = 0 \/ (i > 0 /\ ~Holds(b)) THEN [ok |-> FALSE, list |-> list]
        ELSE [ok |-> TRUE, list |->
              IF b.address = a /\ b.size = n THEN RemoveAt(list, i)
              ELSE IF b.address = a
                THEN [list EXCEPT ![i] = [address |-> a + n, size |-> b.size - n]]
              ELSE IF EndOf(b) = end THEN [list EXCEPT ![i].size = @ - n]
              ELSE InsertAt([list EXCEPT ![i].size = pages(a - b.address)], i + 1,
                            [address |-> end, size |-> pages(EndOf(b) - end)])]

=============================================================================
