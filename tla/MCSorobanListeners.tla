-------------------------- MODULE MCSorobanListeners --------------------------
(* Instances of SorobanListeners for TLC. *)
EXTENDS SorobanListeners

CONSTANTS w1, w2

\* A governance listener with and without a database, and two oracle listeners.
ThreeDeployments ==
  {[role |-> "governance", durable |-> TRUE, workers |-> {w1}],
   [role |-> "governance", durable |-> FALSE, workers |-> {w1}],
   [role |-> "oracle", durable |-> TRUE, workers |-> {w1, w2}]}

\* Up to two events in a ledger.
FewContents ==
  [r \in Roles |->
     IF r = "governance"
     THEN {<<>>, <<"c_paused">>, <<"c_unpaused", "c_paused">>,
           <<"c_unpaused", "malformed">>}
     ELSE {<<>>, <<"score_read">>, <<"unknown", "score_read">>, <<"malformed">>}]
==============================================================================
