------------------------------- MODULE MCPager -------------------------------
(* Instances of Pager for TLC. *)
EXTENDS Pager

CONSTANTS a1, a2, a3, t1, t2, t3, x1, x2, v1, v2

Two == {a1, a2}
TwoInOrder == <<a1, a2>>
SstOf == a1 :> t1 @@ a2 :> t2
OnePage == {x1}
Pages == {x1, x2}
ThreePages == [a \in ASID |-> IF a = a1 THEN {x1, x2} ELSE {x1}]
Values == {v1, v2}
Images == [a \in ASID |-> [x \in Page |-> v1]]
None == {}
Anywhere == UserSteps \cup MutexSteps \cup SstSteps
OnlyFirst == {a1}
OneValue == {v1}
\* Time slices end anywhere but in swapMutex(), which blocks long before.
ButInMutex == UserSteps \cup SstSteps
InUserMode == {"user"}

TwoPages == [a \in ASID |-> {x1}]
Three == {a1, a2, a3}
ThreeInOrder == <<a1, a2, a3>>
SstOfThree == a1 :> t1 @@ a2 :> t2 @@ a3 :> t3
==============================================================================
