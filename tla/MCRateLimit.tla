---------------------------- MODULE MCRateLimit ----------------------------
(* A small instance of RateLimit for TLC.                                  *)
EXTENDS RateLimit, TLC

CONSTANTS c1, c2, c3, c4, c5, s1

MCCalls == {c1, c2, c3, c4, c5}
MCHome == [c \in MCCalls |-> s1]
MCSymmetry == Permutations(MCCalls)
=============================================================================
