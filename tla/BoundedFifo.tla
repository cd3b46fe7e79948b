----------------------------- MODULE BoundedFifo -----------------------------
(***************************************************************************)
(* What kapi::queue::Queue promises its callers: a first-in first-out      *)
(* queue of at most Capacity elements whose post and poll take effect at   *)
(* one instant between the call and its return.  post answers "full" only  *)
(* if the queue is full at that instant, poll answers "empty" only if it   *)
(* is empty at that instant.                                               *)
(*                                                                         *)
(* A call of a process is a record: its operation, its argument (post) and *)
(* its answer, "pending" until the call has taken effect.                  *)
(***************************************************************************)
EXTENDS Naturals, Sequences

CONSTANTS Procs,     \* the threads of control that use the queue
          Values,    \* the elements that are posted
          Nil,       \* no argument
          Capacity   \* Queue::capacity

VARIABLES queue,     \* the elements in the queue, oldest first
          call       \* the call each process is in

vars == <<queue, call>>

NoCall == [op |-> "none", arg |-> Nil, res |-> "pending"]

Init == queue = <<>> /\ call = [p \in Procs |-> NoCall]

Invoke(p, op, v) ==
  /\ call[p] = NoCall
  /\ call' = [call EXCEPT ![p] = [op |-> op, arg |-> v, res |-> "pending"]]
  /\ UNCHANGED queue

Pending(p, op) == call[p].op = op /\ call[p].res = "pending"

Answer(p, r) == call' = [call EXCEPT ![p].res = r]

PostOk(p) ==
  /\ Pending(p, "post") /\ Len(queue) < Capacity
  /\ queue' = Append(queue, call[p].arg)
  /\ Answer(p, "ok")

PostFull(p) ==
  /\ Pending(p, "post") /\ Len(queue) = Capacity
  /\ Answer(p, "full") /\ UNCHANGED queue

PollSome(p) ==
  /\ Pending(p, "poll") /\ queue # <<>>
  /\ queue' = Tail(queue)
  /\ Answer(p, Head(queue))

PollNone(p) ==
  /\ Pending(p, "poll") /\ queue = <<>>
  /\ Answer(p, "empty") /\ UNCHANGED queue

Return(p) ==
  /\ call[p].res # "pending"
  /\ call' = [call EXCEPT ![p] = NoCall]
  /\ UNCHANGED queue

Next ==
  \E p \in Procs :
    \/ \E v \in Values : Invoke(p, "post", v)
    \/ Invoke(p, "poll", Nil)
    \/ PostOk(p) \/ PostFull(p) \/ PollSome(p) \/ PollNone(p)
    \/ Return(p)

Spec == Init /\ [][Next]_vars
=============================================================================
