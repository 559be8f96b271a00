------------------------------ MODULE MCPubSub ------------------------------
(* Instances of PubSub for TLC.                                            *)
EXTENDS PubSub, TLC

CONSTANTS c1, c2, p1, p2, p3, p4, news, glob

\* One pattern, which matches the one channel.
GlobMatches == [t \in Patterns |-> Channels]

Symmetry == Permutations(Callers) \cup Permutations(Conns \ MayBreak)
=============================================================================
