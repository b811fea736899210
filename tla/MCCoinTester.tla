---------------------------- MODULE MCCoinTester ----------------------------
(* Five RAIDAs, and just as many descriptors as a sweep without an answer. *)
EXTENDS CoinTester

AnyKey == {"whole", "missing"}
=============================================================================
