-------------------------------- MODULE Queues ---------------------------------
(****************************************************************************)
(* What the kernel lists promise: queues of PCBs, no PCB in two of them or  *)
(* twice in one, that change by one PCB at a time, which joins at the tail. *)
(* There are no pointers and no interrupts here.                            *)
(****************************************************************************)
EXTENDS Integers, FiniteSets, SequencesExt

CONSTANTS ListHead, Pcb

VARIABLE queue

Others(p, s) == RemoveFirst(s, p)
Within(p, q) == {h \in ListHead : p \in ToSet(q[h])}

\* From q to q2 only p moves: out, or to the end of a queue.
Moves(p, q, q2) ==
  /\ \A h \in ListHead : Others(p, q2[h]) = Others(p, q[h])
  /\ Cardinality(Within(p, q2)) <= 1
  /\ \A h \in Within(p, q2) : IsInjective(q2[h]) /\ Last(q2[h]) = p

Init ==
  /\ DOMAIN queue = ListHead
  /\ \A h \in ListHead : queue[h] \in Seq(Pcb) /\ IsInjective(queue[h])
  /\ \A g, h \in ListHead : g # h => ToSet(queue[g]) \cap ToSet(queue[h]) = {}

\* q and q2 are bound so that a refinement mapping is computed once a step.
Next == \E q \in {queue}, q2 \in {queue'} : \E p \in Pcb : Moves(p, q, q2)

Spec == Init /\ [][Next]_queue
==============================================================================
