----------------------------- MODULE PageTables -----------------------------
(***************************************************************************)
(* The four-level page tables of kernel/src/memory/paging.rs.  A table is  *)
(* a function: its domain holds the valid entries, <<level, index>>, where *)
(* the index counts the entries of the level from address zero (so it is   *)
(* the indices of to_parts read as one number), and the value is the page  *)
(* of the next table or the first page of the block or page mapped there.  *)
(* 512 entries per table are Fan entries.  Each operation runs under the   *)
(* table's lock with interrupts disabled, in one step.                     *)
(***************************************************************************)
EXTENDS PhysicalMemory, VirtualAddresses

CONSTANTS
    Fan,          \* entries per table, 512
    BlockAlign    \* pages a block's address must be a multiple of, by level

ASSUME PageTablesAssumption ==
    /\ Fan \in Nat \ {0, 1}
    /\ BlockAlign \in [1..2 -> Nat \ {0}]

NoEntries == [e \in {} |-> <<>>]

\* Pages mapped under one entry of a level.
Span(l) == <<Fan * Fan * Fan, Fan * Fan, Fan, 1>>[l + 1]

EntryAt(l, v) == <<l, v \div Span(l)>>

table_desc(p) == [kind |-> "table", page |-> p]

map_entry(p) == [kind |-> "map", page |-> p]

\* The table with the entries of new written into it.
WithEntries(new, pt) == [e \in DOMAIN new \cup DOMAIN pt |-> IF e \in DOMAIN new THEN new[e] ELSE pt[e]]

IsTable(pt, e) == e \in DOMAIN pt /\ pt[e].kind = "table"

\* The level at which the walk for page v meets an entry that is no table.
WalkLevel(pt, v) == Min({l \in 0..3 : ~IsTable(pt, EntryAt(l, v))})

\* block_entry and can_allocate_large_block.
BlockFits(l, phys, v, left) ==
    /\ l \in {1, 2}
    /\ v % Span(l) = 0
    /\ left >= Span(l)
    /\ phys % BlockAlign[l] = 0

\* One round of the loop of map_range: the tables that are missing down to
\* the block or page are allocated first, one page each, lowest first.
MapStep(s, phys, v, left) ==
    LET top == WalkLevel(s.pt, v)
        leaf == Min({l \in top..3 : l = 3 \/ BlockFits(l, phys, v, left)})
        avail == Cardinality(Pages \ s.used)
        made == IF leaf - top <= avail THEN leaf - top ELSE avail
        new == [l \in top .. top + made - 1 |-> NthFree(s.used, l - top + 1)]
        tables == [e \in {EntryAt(l, v) : l \in DOMAIN new} |-> table_desc(new[e[1]])]
        used == s.used \cup {new[l] : l \in DOMAIN new}
    IN  IF top < 3 /\ EntryAt(top, v) \in DOMAIN s.pt
          THEN [s EXCEPT !.state = "panic"]           \* assert!(!tr[i].valid())
        ELSE IF made < leaf - top
          THEN [s EXCEPT !.pt = WithEntries(tables, @), !.used = used, !.state = "error"]
        ELSE [s EXCEPT !.pt = WithEntries([e \in {EntryAt(leaf, v)} |-> map_entry(phys)],
                                           WithEntries(tables, @)),
                       !.used = used, !.next = @ + Span(leaf)]

\* map_range of n pages from page phys at address va.
MapRange(pt, used, phys, va, n) ==
    LET start == [pt |-> pt, used |-> used, next |-> 0, state |-> "ok"]
        Round(s, k) == IF s.next >= n \/ s.state # "ok" THEN s
                       ELSE MapStep(s, phys + s.next, va \div PAGE_SIZE + s.next, n - s.next)
    IN  IF va % PAGE_SIZE # 0 THEN [start EXCEPT !.state = "error"]
        ELSE FoldLeft(Round, start, [k \in 1..n |-> k])

\* unmap_range_custom: every entry met is dropped whole and the walk goes on
\* by the size of the entry; regions are the page runs given to the callback.
UnmapRange(pt, va, n) ==
    LET start == [pt |-> pt, next |-> 0, regions |-> {}, state |-> "ok"]
        Round(s, k) ==
            LET v == va \div PAGE_SIZE + s.next
                l == WalkLevel(s.pt, v)
                e == EntryAt(l, v)
            IN  IF s.next >= n \/ s.state # "ok" THEN s
                ELSE IF l = 0 THEN [s EXCEPT !.state = "panic"]  \* assert_ne!(block_size, 0)
                ELSE [s EXCEPT !.pt = Restrict(@, DOMAIN @ \ {e}), !.next = @ + Span(l),
                               !.regions = @ \cup (IF e \notin DOMAIN s.pt THEN {}
                                                   ELSE {PagesFrom(s.pt[e].page, Span(l))})]
    IN  FoldLeft(Round, start, [k \in 1..n |-> k])

Maps(pt) == {e \in DOMAIN pt : pt[e].kind = "map"}

BaseOf(e) == e[2] * Span(e[1])

PagesOf(pt, e) == PagesFrom(pt[e].page, Span(e[1]))

\* What iter yields: the physical pages of every mapped region.
MappedPages(pt) == UNION {PagesOf(pt, e) : e \in Maps(pt)}

\* What drop_table frees, below the root: the tables, not what they map.
TablePages(pt) == {pt[e].page : e \in {x \in DOMAIN pt : IsTable(pt, x)}}

\* The page that page v is mapped to, or -1.
Lookup(pt, v) ==
    LET l == WalkLevel(pt, v)
        e == EntryAt(l, v)
    IN  IF e \in DOMAIN pt THEN pt[e].page + (v % Span(l)) ELSE -1

\* The first region of a PageTableIter that starts at page v.
RegionsFrom(pt, v) == {e \in Maps(pt) : BaseOf(e) + Span(e[1]) > v}

FirstRegion(pt, v) ==
    CHOOSE e \in RegionsFrom(pt, v) : \A f \in RegionsFrom(pt, v) : BaseOf(e) <= BaseOf(f)

Least(a, b) == IF a <= b THEN a ELSE b

\* Mutant: the offset in the first page does not shorten the first read.
CopyLengthWithoutOffset(e, po, left) == Least(Bytes(Span(e[1])), left)

\* Bytes read from a region that is entered po bytes after its start.
CopyLength(e, po, left) == Least(Bytes(Span(e[1])) - po, left)

\* mapped_copy_from of len bytes at address src: the physical addresses read,
\* in order.  It succeeds only when a region is left after the last byte.
MappedCopyFrom(pt, src, len) ==
    LET v == src \div PAGE_SIZE
        po == src % PAGE_SIZE
        first == FirstRegion(pt, v)
        Read(e, from, n) == [i \in 1..n |-> Bytes(pt[e].page) + from + i - 1]
        s0 == [out |-> Read(first, po, CopyLength(first, po, len)),
               next |-> BaseOf(first) + Span(first[1]), ok |-> FALSE, more |-> TRUE]
        Round(s, k) ==
            LET e == FirstRegion(pt, s.next)
                left == len - Len(s.out)
            IN  IF ~s.more THEN s
                ELSE IF RegionsFrom(pt, s.next) = {} THEN [s EXCEPT !.more = FALSE]
                ELSE IF left = 0 THEN [s EXCEPT !.ok = TRUE, !.more = FALSE]
                ELSE IF BaseOf(e) # s.next THEN [s EXCEPT !.more = FALSE]
                ELSE [s EXCEPT !.out = @ \o Read(e, 0, CopyLength(e, 0, left)),
                               !.next = BaseOf(e) + Span(e[1])]
    IN  IF RegionsFrom(pt, v) = {} \/ (RegionsFrom(pt, v) # {} /\ BaseOf(first) # v)
          THEN [ok |-> FALSE, out |-> <<>>]
        ELSE FoldLeft(Round, s0, [k \in 1 .. len + 1 |-> k])

=============================================================================
