--------------------------- MODULE MCHorizonStream ---------------------------
(* Instances of HorizonStream for TLC. *)
EXTENDS HorizonStream

CONSTANTS e1, e2

\* Every record valid, or the second one malformed.
SecondMayBeBad == {{}, {2}}
==============================================================================
