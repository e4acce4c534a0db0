----------------------------- MODULE MCTweetStream -----------------------------
(* Five messages over any number of connections. *)
EXTENDS TweetStream
=============================================================================
