--------------------------- MODULE MCAddressSpace ---------------------------
EXTENDS AddressSpace

\* A block's address is checked against masks of 4096 and 256 pages where a
\* block has 512 * 512 and 512: weaker than the size of the block.
MCBlockAlign == <<2, 1>>

\* Two segments next to each other in the middle of the free range: cutting the
\* second out moves the block after the first by 2 bytes, one page.
MCSegments == <<[page |-> 4, pages |-> 1], [page |-> 5, pages |-> 2]>>

\* One segment, for the comments that have nothing to do with reserve.
OneSegment == <<[page |-> 2, pages |-> 1]>>

=============================================================================
