---------------------------- MODULE MCStructures ----------------------------
(***************************************************************************)
(* Three components for TLC, side by side: the lock-free list and the      *)
(* reader-writer lock of the kernel's tables, and its memory.  They share  *)
(* no state.  In a behaviour only one of them runs, while the others stay  *)
(* as they were made, so that the states of the run are those of the three *)
(* and not their products.                                                 *)
(***************************************************************************)
EXTENDS ConcurrentList, RwLock, MCAddressSpace

VARIABLE part  \* the component that runs

MCInit ==
  /\ ListInit /\ RwInit /\ Init /\ part \in {"list", "lock", "memory"}
  /\ part = "list" \/ removers = {"task"}

MCNext ==
  /\ UNCHANGED part
  /\ \/ part = "list" /\ ListNext /\ UNCHANGED <<rwVars, vars>>
     \/ part = "lock" /\ RwNext /\ UNCHANGED <<listVars, vars>>
     \/ part = "memory" /\ Next /\ UNCHANGED <<listVars, rwVars>>
     \/ part # "list" /\ UNCHANGED <<listVars, rwVars, vars>>  \* may stop at a bound

MCSpec == MCInit /\ [][MCNext]_<<part, listVars, rwVars, vars>>

\* The futures are interchangeable: the only symmetry used.
MCSymmetry == Permutations(Futures)

=============================================================================
