------------------------------ MODULE MCTasks -------------------------------
(***************************************************************************)
(* Three components for TLC, side by side: the semaphore, the heap, and    *)
(* the processes with their tasks.  They share no state.  In a behaviour   *)
(* only one of them runs, while the others stay as they were made, so that *)
(* the states of the run are those of the three and not their products.    *)
(***************************************************************************)
EXTENDS Semaphore, Heap, Processes

CONSTANT MaxWakers

\* Smaller than a free header and not a multiple of a word; aligned to several
\* words (the padding then fills its field but for one value); larger than the
\* first heap.
MCLayouts == {[size |-> 1, align |-> 1], [size |-> 4, align |-> 8],
              [size |-> 15, align |-> 2]}

\* A future is dropped only while the queue of wakers is shorter than
\* MaxWakers, which bounds the stale wakers left behind.
BoundedSemNext ==
  \/ \E p \in Procs : Wait(p) \/ TryWait(p) \/ Step(p)
  \/ \E p \in Futures : Len(waker_queue) < MaxWakers /\ Cancel(p)
  \/ \E h, p \in Procs : Signal(h, p)

VARIABLE part  \* the component that runs

MCInit == SemInit /\ HeapInit /\ Init /\ part \in {"semaphore", "heap", "processes"}

MCNext ==
  /\ UNCHANGED part
  /\ \/ part = "semaphore" /\ BoundedSemNext /\ UNCHANGED <<heapVars, vars>>
     \/ part = "heap" /\ HeapNext /\ UNCHANGED <<semVars, vars>>
     \/ part = "processes" /\ Next /\ UNCHANGED <<semVars, heapVars>>
     \/ part # "semaphore" /\ UNCHANGED <<semVars, heapVars, vars>>  \* may stop

MCSpec == MCInit /\ [][MCNext]_<<part, semVars, heapVars, vars>>

\* The futures are interchangeable, and so are the threads that block.
MCSymmetry == Permutations(Futures) \cup Permutations(Threads)

=============================================================================
