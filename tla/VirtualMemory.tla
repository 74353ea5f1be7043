---------------------------- MODULE VirtualMemory ----------------------------
(* What paging promises: every process has pages of its own, which only it  *)
(* changes, and only while it is the one that runs.                         *)

CONSTANTS Process, Page, Value, image

VARIABLES
  mem,       \* mem[p][x]: what page x of process p holds
  running    \* the process on the processor, or something else

vars == <<mem, running>>

Init == mem = image

Write(p) ==
  /\ running = p
  /\ \E x \in Page, v \in Value : mem' = [mem EXCEPT ![p][x] = v]
  /\ UNCHANGED running

Switch == UNCHANGED mem

Next == Switch \/ \E p \in Process : Write(p)

Spec == Init /\ [][Next]_vars
==============================================================================
