------------------------------ MODULE MCIngestion ------------------------------
(* Two workers, three tweets, one of which may be delivered twice, an operator. *)
EXTENDS Ingestion, TLC

CONSTANTS w1, w2, q1, t1, t2, t3

MCWorkers == {w1, w2}
MCOneOperator == {q1}
MCNoOperators == {}
MCTweets == {t1, t2}
MCThreeTweets == {t1, t2, t3}

Symmetry == Permutations(MCWorkers) \cup Permutations(MCThreeTweets)
=============================================================================
