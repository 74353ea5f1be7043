------------------------------- MODULE MCListX -------------------------------
(* Instances of ListX for TLC. *)
EXTENDS ListX

CONSTANTS s0, p1, p2, p3

Pcbs == {s0, p1, p2, p3}
Symmetry == Permutations({p1, p2, p3})
==============================================================================
