---------------------------- MODULE MCDispatcher ----------------------------
(* Instances of Dispatcher for TLC.                                        *)
EXTENDS Dispatcher, TLC

CONSTANTS r1, r2, r3, r4, r5, r6, w1, w2

FiveRequests  == {r1, r2, r3, r4, r5}
SixRequests   == {r1, r2, r3, r4, r5, r6}
TwoWorkers    == {w1, w2}

\* Requests are interchangeable but for the unusable one; so are the workers.
Symmetry == Permutations(Requests \ Unusable) \cup Permutations(Workers)

\* Without symmetry reduction (unsound for liveness), the interchangeable requests
\* are named in the order in which their Enqueue calls begin.
CallOrder == <<r1, r2, r3, r4, r5>>

CallsInOrder ==
  \A i, j \in DOMAIN CallOrder :
    i < j /\ enqueue[CallOrder[j]] # "idle" => enqueue[CallOrder[i]] # "idle"

OrderedFairSpec == Init /\ [][Next /\ CallsInOrder']_vars /\ Fairness
=============================================================================
