----------------------------- MODULE RequestReply -----------------------------
(****************************************************************************)
(* What the nucleus promises the processes that ask it for services: what a *)
(* process asks for is done, once and for itself, before it goes on, and    *)
(* only then.  There are no queues, messages, counters or interrupts here,  *)
(* and no SSI.                                                              *)
(****************************************************************************)
CONSTANTS Process, root_pcb, Device, NULL

\* state[p] is a pair: what p does or waits for, and the device of an operation.
VARIABLE state

Is(p, what) == state[p] = <<what, NULL>>

\* Requests by the name of the service, and two that need no service.
Plain == {"create", "query", "clock", "terminate", "invalid"}
Operations == {<<"doio", d>> : d \in Device}

Init ==
  state = [p \in Process |-> IF p = root_pcb THEN <<"computing", NULL>> ELSE <<"dead", NULL>>]

Becomes(p, what) == state' = [state EXCEPT ![p] = <<what, NULL>>]

Ask(p) ==
  /\ Is(p, "computing")
  /\ \E r \in Operations \cup {<<k, NULL>> : k \in Plain} : state' = [state EXCEPT ![p] = r]

\* One process is made for one request, and not before it was asked for.
Create(p, child) ==
  /\ Is(p, "create") /\ Is(child, "dead")
  /\ state' = [state EXCEPT ![p] = <<"created", NULL>>, ![child] = <<"computing", NULL>>]

Answer(p) == (Is(p, "created") \/ Is(p, "query")) /\ Becomes(p, "answered")

\* Whoever waits for the clock waits for the next tick, and all wake up together.
Wait(p) == Is(p, "clock") /\ Becomes(p, "waiting")
Tick ==
  state' = [p \in Process |-> IF Is(p, "waiting") THEN <<"answered", NULL>> ELSE state[p]]

\* The device works for p and nobody else from the command to the answer.
Start(p, d) ==
  /\ state[p] = <<"doio", d>>
  /\ \A q \in Process : state[q] \notin {<<"busy", d>>, <<"done", d>>}
  /\ state' = [state EXCEPT ![p] = <<"busy", d>>]
Finish(p, d) == state[p] = <<"busy", d>> /\ state' = [state EXCEPT ![p] = <<"done", d>>]
Deliver(p, d) == state[p] = <<"done", d>> /\ Becomes(p, "answered")

Resume(p) == Is(p, "answered") /\ Becomes(p, "computing")

\* By its own request, by an unknown one, or by a trap.
End(p) ==
  /\ Is(p, "terminate") \/ Is(p, "invalid") \/ Is(p, "computing")
  /\ Becomes(p, "dead")

Next ==
  \/ Tick
  \/ \E p \in Process :
       \/ Ask(p) \/ Answer(p) \/ Wait(p) \/ Resume(p) \/ End(p)
       \/ \E child \in Process : Create(p, child)
       \/ \E d \in Device : Start(p, d) \/ Finish(p, d) \/ Deliver(p, d)

Spec == Init /\ [][Next]_state
==============================================================================
