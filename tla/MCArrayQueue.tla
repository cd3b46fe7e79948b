---------------------------- MODULE MCArrayQueue ----------------------------
(***************************************************************************)
(* ArrayQueue for TLC.  The n-th call posts the n-th value: the queue      *)
(* never looks at its elements, so distinct ones tell the most.  The bound *)
(* on calls may leave every process at rest.                               *)
(***************************************************************************)
EXTENDS ArrayQueue

Nth == <<"v1", "v2", "v3", "v4">>

AtRest == calls = MaxCalls /\ (\A p \in Procs : pc[p] = "idle") /\ UNCHANGED vars

MCNext ==
  \/ \E p \in Posters, n \in {calls + 1} \cap DOMAIN Nth : CallPost(p, Nth[n])
  \/ \E p \in Pollers : CallPoll(p)
  \/ \E p \in Procs : Step(p)
  \/ AtRest

MCSpec == Init /\ [][MCNext]_vars /\ Fairness
=============================================================================
