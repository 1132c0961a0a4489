---------------------------- MODULE MCKafkaWorker ----------------------------
(* Instances of KafkaWorker for TLC. *)
EXTENDS KafkaWorker, TLC

CONSTANTS w1, w2, p1, p2, t1, t2, t3

\* Trade t1 appears twice in p1, as after a producer retry; p2 is the DLQ.
LogWithDuplicate ==
  (p1 :> <<t1, Poison, t1>>) @@ (p2 :> <<t2>>)

\* Three distinct trades in one partition.
LogOfThree == p1 :> <<t1, t2, t3>>
==============================================================================
