---------------------------- MODULE MCLlmPipeline ----------------------------
(* Two workers, tweets that may run twice, one or two tickers. *)
EXTENDS LlmPipeline, TLC

CONSTANTS w1, w2, q1

MCWorkers == {w1, w2}
MCOneWorker == {w1}
MCOneOperator == {q1}
MCNoOperators == {}

Symmetry == Permutations(MCWorkers)
=============================================================================
