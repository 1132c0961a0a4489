--------------------------- MODULE MCFeatureBuffer ---------------------------
EXTENDS FeatureBuffer, TLC

CONSTANTS a, b, w1, w2, t1, t2, t3, e1, e2, e3

\* A trade of two wallets, and two of a wallet with itself.
ThreeTrades == t1 :> <<w1, w2>> @@ t2 :> <<w1, w1>> @@ t3 :> <<w1, w1>>

Interchangeable == Permutations(Entries) \cup Permutations(Threads)
==============================================================================
