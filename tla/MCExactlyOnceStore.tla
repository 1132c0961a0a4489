------------------------- MODULE MCExactlyOnceStore --------------------------
(* Instances of ExactlyOnceStore for TLC. *)
EXTENDS ExactlyOnceStore, TLC

CONSTANTS c1, c2, c3

\* Callers are interchangeable, in the register as well.
Symmetry == Permutations(Callers)
==============================================================================
