------------------------------ MODULE MCRuntime ------------------------------
(* Instances of Runtime for TLC.                                           *)
EXTENDS Runtime

CONSTANTS w1, o1, o2, o3, o4

\* What may happen in each run.
GoneOrStalled == {"ClientStalls", "ClientCloses", "DispatcherStops"}
StallAndStop  == {"ClientStalls", "DispatcherStops"}

\* A new session meets a dispatcher that four requests of other sessions fill:
\* with the worker, in the ready channel, the overflow list and the incoming
\* channel.  The state can be reached from Init.
LoadedInit ==
  /\ S!SessionInit
  /\ enqueue = [r \in Own \cup Others |-> IF r \in Others THEN "accepted" ELSE "idle"]
  /\ worker = [w \in Workers |-> "process"] /\ job = [w \in Workers |-> o1]
  /\ readyQueue = <<o2>> /\ waitingQueue = <<o3>> /\ incomingQueue = <<o4>>
  /\ completeQueue = <<>> /\ answered = {}
  /\ scheduler = "select" /\ pendingWorkers = 3
  /\ incomingOpen = TRUE /\ incomingClosed = FALSE /\ readyClosed = FALSE
  /\ dispatcherStop = "idle" /\ stopped = FALSE /\ enqueueDone = FALSE

LoadedFairSpec == LoadedInit /\ [][Next]_vars /\ Fairness
=============================================================================
