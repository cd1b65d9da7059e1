--------------------------- MODULE MCCachingQueue ---------------------------
(* Instances of CachingQueue small enough for TLC. *)
EXTENDS CachingQueue, TLC

CONSTANTS f, g, v1, v2

MCNothing == [c \in Commands |-> <<>>]
MCWhole == [c \in Commands |-> [v \in Values |-> v]]
MCSymmetry == Permutations({v1, v2})
MCTwoPolls == {<<3, f>>, <<3, g>>}
MCOnePoll == {<<3, f>>}
=============================================================================
