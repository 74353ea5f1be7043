-------------------------------- MODULE Console --------------------------------
(****************************************************************************)
(* What the support level promises a program that prints: its text appears  *)
(* on its own device, character by character and in order, and then, and    *)
(* only then, the program goes on.  There are no threads, messages, pages   *)
(* or interrupts here.                                                      *)
(****************************************************************************)
EXTENDS Sequences

CONSTANTS Program, Kind, Text, NoText

VARIABLES
  output,    \* output[a][k]: what device k of program a has printed
  pending    \* pending[a]: what is left of the text it waits for, or NoText

Init ==
  /\ output = [a \in Program |-> [k \in Kind |-> <<>>]]
  /\ pending = [a \in Program |-> NoText]

Ask(a) ==
  /\ pending[a] = NoText
  /\ \E k \in Kind, text \in Text :
       pending' = [pending EXCEPT ![a] = [kind |-> k, rest |-> text]]
  /\ UNCHANGED output

Put(a) ==
  /\ pending[a] # NoText /\ pending[a].rest # <<>>
  /\ output' = [output EXCEPT ![a][pending[a].kind] = Append(@, Head(pending[a].rest))]
  /\ pending' = [pending EXCEPT ![a].rest = Tail(@)]

Resume(a) ==
  /\ pending[a] # NoText /\ pending[a].rest = <<>>
  /\ pending' = [pending EXCEPT ![a] = NoText]
  /\ UNCHANGED output

Next == \E a \in Program : Ask(a) \/ Put(a) \/ Resume(a)

Spec == Init /\ [][Next]_<<output, pending>>
==============================================================================
