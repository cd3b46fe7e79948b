------------------------- MODULE InterruptController -------------------------
(***************************************************************************)
(* The driver of the Generic Interrupt Controller (exception/gic/mod.rs)   *)
(* with its GICv2m extension for message signaled interrupts (v2m.rs), and *)
(* a device's MSI-X table (bus/pcie/msix.rs).  The controller's registers  *)
(* are one record: a set of interrupt ids for a register with a bit per    *)
(* interrupt, a set of bits for each byte of the others.                   *)
(***************************************************************************)
EXTENDS Naturals

CONSTANTS SpiStart, NumSpis  \* the interrupts the v2m frame may raise

ASSUME SpiAssumption == SpiStart \in Nat /\ NumSpis \in Nat \ {0}

Ids == SpiStart .. SpiStart + NumSpis

\* After in_device_tree: distributor and CPU interface on, nothing enabled.
NewController ==
  [enable |-> {}, pending |-> {}, active |-> {}, config |-> {},
   priority |-> [i \in Ids |-> {}], target |-> [i \in Ids |-> {}],
   next_spi |-> SpiStart]

\* alloc_msi panics past spi_start + num_spis.
OutOfMsis(gic) == gic.next_spi > SpiStart + NumSpis

AllocMsi(gic) == [gic EXCEPT !.next_spi = @ + 1]

\* write_byte_for_id: the byte is read, or-ed with the value, written back.
WriteByte(byte, bits) == byte \cup bits

\* set_config(Edge): the bits of ICFGR that it clears and sets, <<word, bit>>.
\* The field of interrupt id is at bit 2 * (id % 16), so these belong to
\* another; what the controller does with a message here depends on neither.
SetEdge(config, id) ==
  (config \ {<<id \div 16, id % 16>>}) \cup {<<id \div 16, (id % 16) + 1>>}

\* enable_interrupts of the NVMe driver: the five calls it makes.
EnableInterrupts(gic, id) ==
  [gic EXCEPT !.target[id] = WriteByte(@, {0}),
              !.priority[id] = WriteByte(@, {}),
              !.config = SetEdge(@, id),
              !.pending = @ \ {id},
              !.enable = @ \cup {id}]

\* A device writes its message (external): the interrupt becomes pending,
\* once, however many messages came.
Raise(gic, id) == [gic EXCEPT !.pending = @ \cup {id}]

\* The interrupts the CPU interface would hand out (external).
Deliverable(gic) ==
  {i \in gic.pending \cap gic.enable : 0 \in gic.target[i] /\ i \notin gic.active}

ack_interrupt(gic, id) ==
  [gic EXCEPT !.pending = @ \ {id}, !.active = @ \cup {id}]

finish_interrupt(gic, id) == [gic EXCEPT !.active = @ \ {id}]

-----------------------------------------------------------------------------
(* The MSI-X table entry of the one vector the NVMe driver uses. *)

NewVector == [masked |-> TRUE, waiting |-> FALSE, id |-> 0]

\* MsiXTable::write leaves the vector masked.
WriteVector(vector, id) == [vector EXCEPT !.masked = TRUE, !.id = id]

\* A message of a masked vector stays in the device's pending bits (external).
Signalled(vector) == [vector EXCEPT !.waiting = vector.masked]

set_mask(vector, masked) ==
  [vector EXCEPT !.masked = masked, !.waiting = @ /\ masked]
=============================================================================
