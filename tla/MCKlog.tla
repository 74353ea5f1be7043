-------------------------------- MODULE MCKlog --------------------------------
(* Instances of Klog for TLC. *)
EXTENDS Klog

CONSTANTS p, q

One == {p}
Two == {p, q}
SomeTexts == {<<"a", "b", Newline>>, <<Newline, "a">>, <<"a">>}
SomeNumbers == {7, 123}
SomeAddresses == {26}
==============================================================================
