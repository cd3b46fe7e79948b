--------------------------- MODULE ConcurrentList ---------------------------
(***************************************************************************)
(* kernel/src/ds/lists.rs: the lock-free list that holds the processes,    *)
(* the threads and the queues of a process.                                *)
(*                                                                         *)
(* Two contexts use it on the one core: the task executor, whose calls are *)
(* cut here at every access to shared memory, and handlers, which can come *)
(* between any two of these and run to their end.  Nodes are addresses; a  *)
(* freed one can be used again by the next push.                           *)
(***************************************************************************)
EXTENDS Naturals, Sequences, FiniteSets

CONSTANTS Nodes, Null,
          Keys,     \* what the predicates of remove look for
          Regimes,  \* which contexts call remove on a list: sets of contexts
          MaxPushes \* bound on the number of pushes

ASSUME RegimesAssumption == Regimes \subseteq SUBSET {"task", "handler"}
ASSUME NullAssumption == Null \notin Nodes
ASSUME NodesAssumption == IsFiniteSet(Nodes)
ASSUME BoundAssumption == MaxPushes \in Nat

VARIABLES head, next, data, \* the list
          live,      \* nodes that are allocated
          readers,   \* ConcurrentLinkedList::readers
          pool,      \* pending_deletion: nodes to free, last one first
          pc, key, node, cur, prev, nxt, \* locals of the executor's call
          removers,  \* the regime of this list
          present,   \* history: keys pushed and not removed
          pushes

list == <<head, next, data, live, readers, pool>>
locals == <<key, node, cur, prev, nxt>>
bounds == <<removers, pushes>>
listVars == <<list, pc, locals, bounds, present>>

ListInit ==
  /\ head = Null /\ next = [n \in Nodes |-> Null] /\ data = [n \in Nodes |-> Null]
  /\ live = {} /\ readers = 0 /\ pool = <<>>
  /\ pc = "idle" /\ key = Null /\ node = Null /\ cur = Null /\ prev = Null /\ nxt = Null
  /\ removers \in Regimes /\ present = {} /\ pushes = 0

\* The call returns; its locals are dead.
Return ==
  /\ pc' = "idle" /\ key' = Null /\ node' = Null /\ cur' = Null /\ prev' = Null /\ nxt' = Null

-----------------------------------------------------------------------------
\* push.

Push(k) ==
  /\ pc = "idle" /\ k \notin present /\ pushes < MaxPushes
  /\ \E n \in Nodes \ live : live' = live \cup {n} /\ node' = n /\ data' = [data EXCEPT ![n] = k]
  /\ cur' = head /\ pc' = "push" /\ pushes' = pushes + 1
  /\ UNCHANGED <<head, next, readers, pool, key, prev, nxt, removers, present>>

\* Mutant of PushCas: a store in place of the compare-exchange.
PushCasBlind ==
  /\ pc = "push"
  /\ next' = [next EXCEPT ![node] = cur] /\ head' = node
  /\ present' = present \cup {data[node]}
  /\ Return /\ UNCHANGED <<data, live, readers, pool, bounds>>

PushCas ==
  /\ pc = "push"
  /\ next' = [next EXCEPT ![node] = cur]
  /\ IF head = cur
     THEN head' = node /\ present' = present \cup {data[node]} /\ Return
     ELSE cur' = head /\ UNCHANGED <<head, present, pc, key, node, prev, nxt>>
  /\ UNCHANGED <<data, live, readers, pool, bounds>>

-----------------------------------------------------------------------------
\* remove and remove_cloned.

\* Mutant of Retire: readers are not looked at.
RetireAtOnce(n) == live' = live \ {n} /\ UNCHANGED pool

\* push_pending_deletion: freed at once if nobody reads.
Retire(n) ==
  IF readers = 0
  THEN live' = live \ {n} /\ UNCHANGED pool
  ELSE pool' = <<n>> \o pool /\ UNCHANGED live

StartRemove(k) ==
  /\ pc = "idle" /\ "task" \in removers
  /\ key' = k /\ cur' = head /\ pc' = "at_head"
  /\ UNCHANGED <<list, node, prev, nxt, bounds, present>>

\* The head is looked at first, and on its own.
AtHead ==
  /\ pc = "at_head"
  /\ IF cur = Null THEN Return
     ELSE IF data[cur] = key
     THEN nxt' = next[cur] /\ pc' = "unlink_head" /\ UNCHANGED <<key, node, cur, prev>>
     ELSE prev' = Null /\ cur' = head /\ pc' = "walk" /\ UNCHANGED <<key, node, nxt>>
  /\ UNCHANGED <<list, bounds, present>>

UnlinkHead ==
  /\ pc = "unlink_head"
  /\ IF head = cur
     THEN head' = nxt /\ present' = present \ {key} /\ pc' = "retire" /\ UNCHANGED cur
     ELSE cur' = head /\ pc' = "at_head" /\ UNCHANGED <<head, present>>
  /\ UNCHANGED <<next, data, live, readers, pool, key, node, prev, nxt, bounds>>

Walk ==
  /\ pc = "walk"
  /\ IF cur = Null THEN Return
     ELSE IF data[cur] = key
     THEN nxt' = next[cur] /\ pc' = "unlink" /\ UNCHANGED <<key, node, cur, prev>>
     ELSE prev' = cur /\ cur' = next[cur] /\ UNCHANGED <<pc, key, node, nxt>>
  /\ UNCHANGED <<list, bounds, present>>

\* What prev_ptr points to: the head of the list, or a node's next.
Link == IF prev = Null THEN head ELSE next[prev]

Unlink ==
  /\ pc = "unlink"
  /\ IF Link = cur
     THEN /\ IF prev = Null THEN head' = nxt /\ UNCHANGED next
             ELSE next' = [next EXCEPT ![prev] = nxt] /\ UNCHANGED head
          /\ present' = present \ {key} /\ pc' = "retire" /\ UNCHANGED cur
     ELSE cur' = Link /\ pc' = "walk" /\ UNCHANGED <<head, next, present>>
  /\ UNCHANGED <<data, live, readers, pool, key, node, prev, nxt, bounds>>

RetireRemoved ==
  /\ pc = "retire"
  /\ Retire(cur) /\ Return
  /\ UNCHANGED <<head, next, data, readers, bounds, present>>

\* remove_cloned takes the same steps, and keeps a copy of the element.
RemoveStep == AtHead \/ UnlinkHead \/ Walk \/ Unlink \/ RetireRemoved

-----------------------------------------------------------------------------
\* iter, Iter::next, Iter::drop and free_pool.

Iter ==
  /\ pc = "idle"
  /\ readers' = readers + 1 /\ pc' = "iter"
  /\ UNCHANGED <<head, next, data, live, pool, locals, bounds, present>>

IterHead ==
  /\ pc = "iter"
  /\ cur' = head /\ pc' = "reading"
  /\ UNCHANGED <<list, key, node, prev, nxt, bounds, present>>

IterNext ==
  /\ pc = "reading" /\ cur # Null
  /\ cur' = next[cur]
  /\ UNCHANGED <<list, pc, key, node, prev, nxt, bounds, present>>

\* Mutant of IterDrop: the reader is not counted out.
IterDropKept ==
  /\ pc = "reading"
  /\ Return /\ UNCHANGED <<list, bounds, present>>

\* The iterator is dropped, at the end or before; the last one frees the pool.
IterDrop ==
  /\ pc = "reading"
  /\ readers' = readers - 1
  /\ IF readers = 1 THEN pc' = "pool" /\ cur' = Null /\ UNCHANGED <<key, node, prev, nxt>> ELSE Return
  /\ UNCHANGED <<head, next, data, live, pool, bounds, present>>

PoolHead == IF pool = <<>> THEN Null ELSE Head(pool)

FreePool ==
  /\ pc = "pool"
  /\ cur' = PoolHead /\ pc' = "free"
  /\ UNCHANGED <<list, key, node, prev, nxt, bounds, present>>

\* Mutant of FreeOne: the loop ends with the first node it frees.
FreeOneOnly ==
  /\ pc = "free"
  /\ IF PoolHead = Null THEN UNCHANGED <<pool, live>> ELSE pool' = Tail(pool) /\ live' = live \ {cur}
  /\ Return /\ UNCHANGED <<head, next, data, readers, bounds, present>>

(***************************************************************************)
(* One turn of the loop.  After it has freed a cell the loop looks at that *)
(* cell again: what it reads there is only given to a compare-exchange     *)
(* that fails, as the cell is no longer at the head of the pool.           *)
(***************************************************************************)
FreeOne ==
  /\ pc = "free"
  /\ IF cur = Null THEN Return /\ UNCHANGED <<pool, live>>
     ELSE IF PoolHead = cur
     THEN pool' = Tail(pool) /\ live' = live \ {cur} /\ UNCHANGED <<pc, locals>>
     ELSE cur' = PoolHead /\ UNCHANGED <<pool, live, pc, key, node, prev, nxt>>
  /\ UNCHANGED <<head, next, data, readers, bounds, present>>

-----------------------------------------------------------------------------
\* The chain of nodes from the head on, Null after the last.
Chain ==
  LET at[i \in 1..(Cardinality(Nodes) + 1)] ==
        IF i = 1 THEN head ELSE IF at[i - 1] = Null THEN Null ELSE next[at[i - 1]]
  IN  at

Linked == {Chain[i] : i \in DOMAIN Chain} \ {Null}

\* A handler calls remove: Thread::exit in the system call Exit.
HandlerRemove(k) ==
  /\ "handler" \in removers
  /\ \E n \in Linked :
       /\ data[n] = k
       /\ IF n = head THEN head' = next[n] /\ UNCHANGED next
          ELSE \E m \in Linked : next[m] = n /\ next' = [next EXCEPT ![m] = next[n]] /\ UNCHANGED head
       /\ Retire(n)
  /\ present' = present \ {k}
  /\ UNCHANGED <<data, readers, pc, locals, bounds>>

\* A handler looks for an element, or goes through them: thread_for_id,
\* dispatch_new_commands.  If it is the only reader it frees the pool.
HandlerIter ==
  /\ readers = 0 /\ pool # <<>>
  /\ live' = live \ {pool[i] : i \in 1..Len(pool)} /\ pool' = <<>>
  /\ UNCHANGED <<head, next, data, readers, pc, locals, bounds, present>>

ListNext ==
  \/ \E k \in Keys : Push(k) \/ StartRemove(k) \/ HandlerRemove(k)
  \/ PushCas
  \/ RemoveStep
  \/ Iter \/ IterHead \/ IterNext \/ IterDrop \/ FreePool \/ FreeOne
  \/ HandlerIter

ListSpec == ListInit /\ [][ListNext]_listVars

-----------------------------------------------------------------------------
Labels == {"idle", "push", "at_head", "unlink_head", "walk", "unlink", "retire",
           "iter", "reading", "pool", "free"}

\* Type invariant: the executor is at most one reader.
ListTypeOK ==
  /\ head \in Nodes \cup {Null} /\ next \in [Nodes -> Nodes \cup {Null}]
  /\ data \in [Nodes -> Keys \cup {Null}] /\ live \subseteq Nodes
  /\ readers \in 0..1 /\ pool \in Seq(Nodes) /\ pc \in Labels
  /\ key \in Keys \cup {Null} /\ {node, cur, prev, nxt} \subseteq Nodes \cup {Null}
  /\ present \subseteq Keys /\ removers \in Regimes /\ pushes \in 0..MaxPushes

(***************************************************************************)
(* "A singly linked list that supports safe concurrent operations without  *)
(* locks": iterators and remove look only at nodes that are allocated, and *)
(* write only to links of such nodes.                                      *)
(***************************************************************************)
TraversalsAreLive ==
  /\ pc \in {"at_head", "walk", "reading"} => cur \in live \cup {Null}
  /\ pc = "unlink" => prev \in live \cup {Null}

(***************************************************************************)
(* The list holds what has been pushed and not removed, each element once, *)
(* and remove gives up only on an element that is not there.               *)
(***************************************************************************)
ListIsExact ==
  /\ Linked \subseteq live
  /\ {data[n] : n \in Linked} = present /\ Cardinality(Linked) = Cardinality(present)
  /\ pc \in {"at_head", "walk"} /\ cur = Null => key \notin present

(***************************************************************************)
(* "Iterator dropped here, readers count goes to 0, pending deletion       *)
(* should be processed" (the test pending_deletion): between calls nothing *)
(* waits to be freed, and every allocated node is in the list.             *)
(***************************************************************************)
PoolDrains == pc = "idle" => pool = <<>> /\ live = Linked
=============================================================================
