------------------------------ MODULE MCServer ------------------------------
(* Instances of Server for TLC.                                            *)
EXTENDS Server, TLC

CONSTANTS s1, s2, p1, p2, a, b

Symmetry == Permutations(Starts) \cup Permutations(Stops) \cup Permutations(Clients)

\* Without symmetry reduction (unsound for liveness), the interchangeable calls
\* of Start and of Stop are named in the order in which they begin.
CallsInOrder ==
  /\ start[s2] # "idle" => start[s1] # "idle"
  /\ stop[p2] # "idle" => stop[p1] # "idle"

OrderedNext ==
  \/ \E i \in Starts : (StartCall(i) /\ CallsInOrder') \/ Serve(i)
  \/ \E c \in Clients : Connect(c) \/ SessionEnds(c) \/ SessionDone(c) \/ Stall(c)
  \/ \E p \in Stops :
       ((StopNotStarted(p) \/ StopCapture(p)) /\ CallsInOrder') \/ Shutdown(p)
  \/ Idle

OrderedFairSpec == Init /\ [][OrderedNext]_vars /\ Fairness
=============================================================================
