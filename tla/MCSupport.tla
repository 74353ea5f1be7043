------------------------------ MODULE MCSupport ------------------------------
(* Instances of Support for TLC. *)
EXTENDS Support

CONSTANTS x, y

\* A text cut short by its length, and one whose length is beyond its end.
Texts ==
  [a \in Asid |-> IF a = 1 THEN {[string |-> <<y, x>>, length |-> 1]}
                  ELSE {[string |-> <<x, y>>, length |-> 3]}]

\* Both print, and program 2 reads the clock.
TwoPrograms ==
  [a \in Asid |-> IF a = 1 THEN {"WRITEPRINTER"} ELSE {"WRITETERMINAL", "GET_TOD"}]
Second == {2}

\* What happens after a process has gone astray is not modelled.
Sane == ~Astray
==============================================================================
