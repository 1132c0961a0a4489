-------------------------- MODULE MCAlertDispatcher --------------------------
(* Instances of AlertDispatcher for TLC. *)
EXTENDS AlertDispatcher, TLC

CONSTANTS d1, d2, r1, r2, r3, a

OneWallet == [r \in Requests |-> a]

\* Two calls for the same alert, and where there is a third one, it is below
\* the threshold of 2.
TwoAlerts == [r \in Requests |-> IF r = r3 THEN 1 ELSE 2]

Interchangeable == Permutations({d1, d2}) \cup Permutations({r1, r2})

==============================================================================
