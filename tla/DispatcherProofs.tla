-------------------------- MODULE DispatcherProofs --------------------------
(***************************************************************************)
(* The safety of Dispatcher for every number of requests, workers and      *)
(* every queue size.  One inductive invariant, in named parts: Lifecycle   *)
(* relates the flags of the goroutines to each other, Located says where   *)
(* an accepted request can be, Accounted is the scheduler's count.         *)
(***************************************************************************)
EXTENDS Dispatcher, FiniteSetTheorems, TLAPS

-----------------------------------------------------------------------------
(* Sequences: the elements of channels                                     *)

Elems(s) == {s[i] : i \in 1..Len(s)}

\* A send puts one element in a channel and keeps the others.
LEMMA AppendFacts ==
  ASSUME NEW S, NEW s \in Seq(S), NEW e \in S
  PROVE  /\ Append(s, e) \in Seq(S)
         /\ Len(Append(s, e)) = Len(s) + 1
         /\ Elems(Append(s, e)) = Elems(s) \cup {e}
  BY DEF Elems

\* A receive takes the head of a channel and leaves the others.
LEMMA TailFacts ==
  ASSUME NEW S, NEW s \in Seq(S), s # <<>>
  PROVE  /\ Head(s) \in S
         /\ Tail(s) \in Seq(S)
         /\ Len(s) \in Nat \ {0}
         /\ Len(Tail(s)) = Len(s) - 1
         /\ Elems(s) = {Head(s)} \cup Elems(Tail(s))
  <1>1. /\ Head(s) \in S /\ Tail(s) \in Seq(S)
        /\ Len(s) \in Nat \ {0} /\ Len(Tail(s)) = Len(s) - 1
    OBVIOUS
  <1>2. Head(s) = s[1] /\ \A i \in 1..Len(Tail(s)) : Tail(s)[i] = s[i + 1]
    OBVIOUS
  <1>3. Elems(s) \subseteq {Head(s)} \cup Elems(Tail(s))
    <2> SUFFICES ASSUME NEW i \in 1..Len(s), i # 1
                 PROVE  s[i] \in Elems(Tail(s))
      BY <1>2 DEF Elems
    <2>1. i - 1 \in 1..Len(Tail(s)) /\ Tail(s)[i - 1] = s[i]
      BY <1>1, <1>2
    <2> QED
      BY <2>1 DEF Elems
  <1>4. {Head(s)} \cup Elems(Tail(s)) \subseteq Elems(s)
    BY <1>1, <1>2 DEF Elems
  <1> QED
    BY <1>1, <1>3, <1>4

\* The empty sequence.
LEMMA EmptyFacts ==
  ASSUME NEW S
  PROVE  <<>> \in Seq(S) /\ Len(<<>>) = 0 /\ Elems(<<>>) = {}
  BY DEF Elems

NoRepeats(s) == \A i, j \in 1..Len(s) : s[i] = s[j] => i = j

\* A new element does not repeat an old one.
LEMMA AppendNoRepeats ==
  ASSUME NEW S, NEW s \in Seq(S), NEW e \in S, NoRepeats(s), e \notin Elems(s)
  PROVE  NoRepeats(Append(s, e))
  BY DEF NoRepeats, Elems

\* The head of a sequence without repetitions is not in its tail.
LEMMA TailNoRepeats ==
  ASSUME NEW S, NEW s \in Seq(S), s # <<>>, NoRepeats(s)
  PROVE  NoRepeats(Tail(s)) /\ Head(s) \notin Elems(Tail(s))
  <1>1. /\ Len(s) \in Nat \ {0} /\ Len(Tail(s)) = Len(s) - 1 /\ Head(s) = s[1]
        /\ \A i \in 1..Len(Tail(s)) : Tail(s)[i] = s[i + 1]
    OBVIOUS
  <1>2. NoRepeats(Tail(s))
    BY <1>1 DEF NoRepeats
  <1>3. Head(s) \notin Elems(Tail(s))
    BY <1>1 DEF NoRepeats, Elems
  <1> QED
    BY <1>2, <1>3

-----------------------------------------------------------------------------
(* Type correctness                                                        *)

\* A worker that is executing or reporting holds a request.
HoldsJob == \A w \in Busy : job[w] \in Requests

TypeInv == TypeOK /\ HoldsJob

\* Every step of a caller, of the scheduler and of a worker keeps the types.
LEMMA TypeInvariant == Spec => []TypeInv
  <1>1. ASSUME Init PROVE TypeInv
    <2>1. <<>> \in Seq(Requests) /\ Len(<<>>) <= QueueSize
      BY DispatcherAssumption, EmptyFacts
    <2>2. enqueue \in [Requests -> EnqueueStates] /\ worker \in [Workers -> WorkerStates]
      BY <1>1 DEF Init, EnqueueStates, WorkerStates
    <2>3. job \in [Workers -> Requests \cup {NoRequest}] /\ Busy = {}
      BY <1>1 DEF Init, Busy
    <2> QED
      BY <1>1, <2>1, <2>2, <2>3
      DEF Init, TypeInv, HoldsJob, TypeOK, StopStates, SchedulerStates
  <1>2. TypeInv /\ [Next]_vars => TypeInv'
    <2> SUFFICES ASSUME TypeInv, [Next]_vars PROVE TypeInv'
      OBVIOUS
    <2> USE DispatcherAssumption
        DEF TypeInv, HoldsJob, Busy, TypeOK, EnqueueStates, StopStates, SchedulerStates, WorkerStates,
            queueVars, stopVars, schedulerVars, workerVars
    <2>1. CASE Start
      BY <2>1 DEF Start
    <2>2. ASSUME NEW r \in Requests, EnqueueBegin(r) PROVE TypeInv'
      BY <2>2 DEF EnqueueBegin
    <2>3. ASSUME NEW r \in Requests, EnqueueSend(r) PROVE TypeInv'
      BY <2>3 DEF EnqueueSend
    <2>4. ASSUME NEW r \in Requests, EnqueueCancel(r) PROVE TypeInv'
      BY <2>4 DEF EnqueueCancel
    <2>5. CASE SchedulerExit
      BY <2>5 DEF SchedulerExit
    <2>6. CASE SchedulerAccept
      <3>1. incomingQueue # <<>> /\ incomingQueue \in Seq(Requests)
        BY <2>6 DEF SchedulerAccept
      <3>2. /\ Head(incomingQueue) \in Requests /\ incomingQueue' \in Seq(Requests)
            /\ Len(incomingQueue') <= QueueSize
        BY <2>6, <3>1, TailFacts DEF SchedulerAccept
      <3>3. /\ Append(readyQueue, Head(incomingQueue)) \in Seq(Requests)
            /\ Len(Append(readyQueue, Head(incomingQueue))) = Len(readyQueue) + 1
            /\ Append(waitingQueue, Head(incomingQueue)) \in Seq(Requests)
            /\ Len(Append(waitingQueue, Head(incomingQueue))) = Len(waitingQueue) + 1
        BY <3>2, AppendFacts
      <3>4. /\ readyQueue' \in Seq(Requests) /\ Len(readyQueue') <= QueueSize
            /\ waitingQueue' \in Seq(Requests) /\ Len(waitingQueue') <= QueueSize
        <4>1. Len(readyQueue) \in Nat /\ Len(waitingQueue) \in Nat
          OBVIOUS
        <4>2. CASE Len(readyQueue) < QueueSize
          <5>1. readyQueue' = Append(readyQueue, Head(incomingQueue)) /\ waitingQueue' = waitingQueue
            BY <2>6, <4>1, <4>2 DEF SchedulerAccept
          <5> QED
            BY <3>3, <4>1, <4>2, <5>1
        <4>3. CASE Len(readyQueue) = QueueSize
          <5>1. waitingQueue' = Append(waitingQueue, Head(incomingQueue)) /\ readyQueue' = readyQueue
            BY <2>6, <4>1, <4>3 DEF SchedulerAccept
          <5>2. Len(waitingQueue) < QueueSize
            BY <2>6 DEF SchedulerAccept, Accepting
          <5> QED
            BY <3>3, <4>1, <5>1, <5>2
        <4> QED
          BY <2>6, <4>2, <4>3 DEF SchedulerAccept
      <3> QED
        BY <2>6, <3>2, <3>4 DEF SchedulerAccept
    <2>7. CASE SchedulerIncomingClosed
      BY <2>7 DEF SchedulerIncomingClosed
    <2>8. CASE SchedulerForward
      <3>1. waitingQueue # <<>> /\ waitingQueue \in Seq(Requests)
        BY <2>8 DEF SchedulerForward
      <3>2. /\ Head(waitingQueue) \in Requests /\ waitingQueue' \in Seq(Requests)
            /\ Len(waitingQueue') <= QueueSize
        BY <2>8, <3>1, TailFacts DEF SchedulerForward
      <3>3. /\ Append(readyQueue, Head(waitingQueue)) \in Seq(Requests)
            /\ Len(Append(readyQueue, Head(waitingQueue))) = Len(readyQueue) + 1
        BY <3>2, AppendFacts
      <3> QED
        BY <2>8, <3>2, <3>3 DEF SchedulerForward
    <2>9. CASE SchedulerComplete
      BY <2>9, TailFacts DEF SchedulerComplete
    <2>10. ASSUME NEW w \in Workers, WorkerReceive(w) PROVE TypeInv'
      BY <2>10, TailFacts DEF WorkerReceive
    <2>11. ASSUME NEW w \in Workers, WorkerExit(w) PROVE TypeInv'
      BY <2>11 DEF WorkerExit
    <2>12. ASSUME NEW w \in Workers, ProcessRequest(w) PROVE TypeInv'
      BY <2>12 DEF ProcessRequest
    <2>13. ASSUME NEW w \in Workers, WorkerReport(w) PROVE TypeInv'
      BY <2>13 DEF WorkerReport
    <2>14. CASE StopMark \/ StopSignal \/ StopCloseIncoming \/ StopReturn
      BY <2>14 DEF StopMark, StopSignal, StopCloseIncoming, StopReturn
    <2>15. CASE UNCHANGED vars
      BY <2>15 DEF vars, queueVars, stopVars, schedulerVars, workerVars
    <2> QED
      BY <2>1, <2>2, <2>3, <2>4, <2>5, <2>6, <2>7, <2>8, <2>9, <2>10, <2>11, <2>12, <2>13,
         <2>14, <2>15 DEF Next, SchedulerLoop, WorkerLoop, Terminated
  <1> QED
    BY <1>1, <1>2, PTL DEF Spec

\* Every channel and the overflow list stay within QueueSize: the scheduler
\* stops accepting while the overflow list is full.
THEOREM TypeCorrect == Spec => []TypeOK
  <1>1. TypeInv => TypeOK
    BY DEF TypeInv
  <1> QED
    BY <1>1, TypeInvariant, PTL

-----------------------------------------------------------------------------
(* The flags of the goroutines                                             *)

\* What each goroutine may conclude from the flags it sees: Stop sets them in
\* one order, the incoming channel is closed only when no caller is inside
\* Enqueue, and the ready channel only by the scheduler's exit.
Lifecycle ==
  /\ stopped <=> stop # "idle"
  /\ enqueueDone <=> stop \in {"signalled", "closed", "returned"}
  /\ incomingClosed <=> stop \in {"closed", "returned"}
  /\ incomingClosed => \A r \in Requests : enqueue[r] # "select"
  /\ ~incomingOpen => incomingClosed /\ incomingQueue = <<>>
  /\ readyClosed <=> scheduler = "exited"
  /\ scheduler = "exited" => ~incomingOpen /\ waitingQueue = <<>>
  /\ \A w \in Workers : worker[w] = "off" <=> scheduler = "off"
  /\ \A w \in Workers : worker[w] = "exited" => readyClosed /\ readyQueue = <<>>
  /\ stop = "returned" /\ scheduler # "off" =>
       scheduler = "exited" /\ \A w \in Workers : worker[w] = "exited"

\* The order in which Stop, scheduler and workers shut down, in every state.
LEMMA LifecycleInvariant == Spec => []Lifecycle
  <1>1. Init => Lifecycle
    BY DEF Init, Lifecycle
  <1>2. TypeInv /\ Lifecycle /\ [Next]_vars => Lifecycle'
    <2> SUFFICES ASSUME TypeInv, Lifecycle, [Next]_vars PROVE Lifecycle'
      OBVIOUS
    <2> USE DispatcherAssumption
        DEF TypeInv, TypeOK, Lifecycle, EnqueueStates, StopStates, SchedulerStates, WorkerStates,
            queueVars, stopVars, schedulerVars, workerVars
    <2>1. CASE Start
      BY <2>1 DEF Start
    <2>2. ASSUME NEW r \in Requests, EnqueueBegin(r) PROVE Lifecycle'
      BY <2>2 DEF EnqueueBegin
    <2>3. ASSUME NEW r \in Requests, EnqueueSend(r) PROVE Lifecycle'
      BY <2>3 DEF EnqueueSend
    <2>4. ASSUME NEW r \in Requests, EnqueueCancel(r) PROVE Lifecycle'
      BY <2>4 DEF EnqueueCancel
    <2>5. CASE SchedulerExit
      BY <2>5 DEF SchedulerExit, Drained
    <2>6. CASE SchedulerAccept
      BY <2>6 DEF SchedulerAccept, Accepting
    <2>7. CASE SchedulerIncomingClosed
      BY <2>7 DEF SchedulerIncomingClosed
    <2>8. CASE SchedulerForward
      BY <2>8 DEF SchedulerForward
    <2>9. CASE SchedulerComplete
      BY <2>9 DEF SchedulerComplete
    <2>10. ASSUME NEW w \in Workers, WorkerReceive(w) PROVE Lifecycle'
      BY <2>10 DEF WorkerReceive
    <2>11. ASSUME NEW w \in Workers, WorkerExit(w) PROVE Lifecycle'
      BY <2>11 DEF WorkerExit
    <2>12. ASSUME NEW w \in Workers, ProcessRequest(w) PROVE Lifecycle'
      BY <2>12 DEF ProcessRequest
    <2>13. ASSUME NEW w \in Workers, WorkerReport(w) PROVE Lifecycle'
      BY <2>13 DEF WorkerReport
    <2>14. CASE StopMark
      BY <2>14 DEF StopMark
    <2>15. CASE StopSignal
      BY <2>15 DEF StopSignal
    <2>16. CASE StopCloseIncoming
      BY <2>16 DEF StopCloseIncoming
    <2>17. CASE StopReturn
      BY <2>17 DEF StopReturn
    <2>18. CASE UNCHANGED vars
      BY <2>18 DEF vars, queueVars, stopVars, schedulerVars, workerVars
    <2> QED
      BY <2>1, <2>2, <2>3, <2>4, <2>5, <2>6, <2>7, <2>8, <2>9, <2>10, <2>11, <2>12, <2>13,
         <2>14, <2>15, <2>16, <2>17, <2>18 DEF Next, SchedulerLoop, WorkerLoop, Terminated
  <1> QED
    BY <1>1, <1>2, TypeInvariant, PTL DEF Spec

\* No goroutine can send on a closed channel: Stop waits for the callers inside
\* Enqueue before close(incomingQueue), and the scheduler closes readyQueue
\* with nothing left to forward.
THEOREM ChannelsSafe == Spec => []NoSendOnClosedChannel
  <1>1. Lifecycle => NoSendOnClosedChannel
    BY DEF Lifecycle, NoSendOnClosedChannel
  <1> QED
    BY <1>1, LifecycleInvariant, PTL

-----------------------------------------------------------------------------
(* Where a request is                                                      *)

Executing == {w \in Workers : worker[w] = "process"}
InHand == {job[w] : w \in Executing}
Queued == Elems(incomingQueue) \cup Elems(waitingQueue) \cup Elems(readyQueue)

\* An accepted request is answered or is in exactly one of the incoming channel,
\* the overflow list, the ready channel and the hands of one worker.
Located ==
  \A r \in Requests : enqueue[r] = "accepted" => r \in answered \cup Queued \cup InHand

OneCopy ==
  /\ NoRepeats(incomingQueue) /\ NoRepeats(waitingQueue) /\ NoRepeats(readyQueue)
  /\ Elems(incomingQueue) \cap Elems(waitingQueue) = {}
  /\ Elems(incomingQueue) \cap Elems(readyQueue) = {}
  /\ Elems(waitingQueue) \cap Elems(readyQueue) = {}
  /\ Queued \cap InHand = {}
  /\ (Queued \cup InHand) \cap answered = {}
  /\ \A r \in answered \cup Queued \cup InHand : enqueue[r] = "accepted"
  /\ \A v, w \in Executing : job[v] = job[w] => v = w

Placed == Located /\ OneCopy

\* Steps that move no request between the places, nor change its standing.
LEMMA PlacedUndisturbed ==
  ASSUME Placed,
         UNCHANGED <<incomingQueue, waitingQueue, readyQueue, answered>>,
         Executing' = Executing, \A w \in Executing : job'[w] = job[w],
         \A r \in Requests : enqueue'[r] = "accepted" <=> enqueue[r] = "accepted",
         TypeInv
  PROVE  Placed'
  <1>1. InHand' = InHand
    BY DEF InHand
  <1>2. Queued' = Queued /\ Queued \cup InHand \cup answered \subseteq Requests
    BY DEF Queued, Elems, InHand, Executing, TypeInv, TypeOK, HoldsJob, Busy
  <1> QED
    BY <1>1, <1>2 DEF Placed, Located, OneCopy

\* A request that Enqueue has accepted is never lost and never doubled.
LEMMA PlacedInvariant == Spec => []Placed
  <1>1. ASSUME Init PROVE Placed
    <2>1. Queued = {} /\ InHand = {} /\ Executing = {} /\ Elems(incomingQueue) = {}
      BY <1>1, EmptyFacts DEF Init, Queued, InHand, Executing
    <2>2. NoRepeats(<<>>)
      BY EmptyFacts DEF NoRepeats
    <2> QED
      BY <1>1, <2>1, <2>2, EmptyFacts DEF Init, Placed, Located, OneCopy
  <1>2. TypeInv /\ Lifecycle /\ Placed /\ [Next]_vars => Placed'
    <2> SUFFICES ASSUME TypeInv, Lifecycle, Placed, [Next]_vars PROVE Placed'
      OBVIOUS
    <2>0. /\ incomingQueue \in Seq(Requests) /\ waitingQueue \in Seq(Requests)
          /\ readyQueue \in Seq(Requests) /\ answered \subseteq Requests
          /\ enqueue \in [Requests -> EnqueueStates]
          /\ worker \in [Workers -> WorkerStates]
          /\ job \in [Workers -> Requests \cup {NoRequest}]
      BY DEF TypeInv, TypeOK
    <2> USE <2>0 DEF queueVars, stopVars, schedulerVars, workerVars
    <2>1. CASE Start
      <3>1. Executing = {} /\ Executing' = {}
        BY <2>1 DEF Start, Executing, Lifecycle
      <3> QED
        BY <2>1, <3>1, PlacedUndisturbed DEF Start
    <2>2. ASSUME NEW r \in Requests, EnqueueBegin(r) \/ EnqueueCancel(r) PROVE Placed'
      BY <2>2, PlacedUndisturbed DEF EnqueueBegin, EnqueueCancel, Executing
    <2>3. ASSUME NEW r \in Requests, EnqueueSend(r) PROVE Placed'
      <3>1. /\ incomingQueue' = Append(incomingQueue, r)
            /\ enqueue' = [enqueue EXCEPT ![r] = "accepted"] /\ enqueue[r] = "select"
            /\ UNCHANGED <<waitingQueue, readyQueue, worker, job, answered>>
        BY <2>3 DEF EnqueueSend
      <3>2. r \notin answered \cup Queued \cup InHand
        BY <3>1 DEF Placed, OneCopy
      <3>3. Elems(incomingQueue') = Elems(incomingQueue) \cup {r}
        BY <3>1, AppendFacts
      <3>4. NoRepeats(incomingQueue')
        BY <3>1, <3>2, AppendNoRepeats DEF Queued, Placed, OneCopy
      <3>5. Queued' = Queued \cup {r} /\ InHand' = InHand /\ Executing' = Executing
        BY <3>1, <3>3 DEF Queued, InHand, Executing
      <3>6. OneCopy'
        BY <3>1, <3>2, <3>3, <3>4, <3>5 DEF Placed, OneCopy, Queued
      <3> QED
        BY <3>1, <3>5, <3>6 DEF Placed, Located
    <2>4. CASE SchedulerAccept
      <3> DEFINE r == Head(incomingQueue)
      <3>1. /\ incomingQueue # <<>> /\ incomingQueue' = Tail(incomingQueue)
            /\ UNCHANGED <<enqueue, worker, job, answered>>
        BY <2>4 DEF SchedulerAccept
      <3>2. \/ readyQueue' = Append(readyQueue, r) /\ waitingQueue' = waitingQueue
            \/ waitingQueue' = Append(waitingQueue, r) /\ readyQueue' = readyQueue
        BY <2>4 DEF SchedulerAccept
      <3>3. /\ r \in Requests /\ Elems(incomingQueue) = {r} \cup Elems(incomingQueue')
            /\ NoRepeats(incomingQueue') /\ r \notin Elems(incomingQueue')
        BY <3>1, TailFacts, TailNoRepeats DEF Placed, OneCopy
      <3>4. r \notin Elems(waitingQueue) /\ r \notin Elems(readyQueue)
        BY <3>3 DEF Placed, OneCopy
      <3>5. /\ Elems(Append(readyQueue, r)) = Elems(readyQueue) \cup {r}
            /\ Elems(Append(waitingQueue, r)) = Elems(waitingQueue) \cup {r}
            /\ NoRepeats(Append(readyQueue, r)) /\ NoRepeats(Append(waitingQueue, r))
        BY <3>3, <3>4, AppendFacts, AppendNoRepeats DEF Placed, OneCopy
      <3> HIDE DEF r
      <3>6. Queued' = Queued /\ InHand' = InHand /\ Executing' = Executing
        BY <3>1, <3>2, <3>3, <3>5 DEF Queued, InHand, Executing
      <3>7. OneCopy'
        <4>1. CASE readyQueue' = Append(readyQueue, r) /\ waitingQueue' = waitingQueue
          BY <3>1, <3>3, <3>4, <3>5, <3>6, <4>1 DEF Placed, OneCopy
        <4>2. CASE waitingQueue' = Append(waitingQueue, r) /\ readyQueue' = readyQueue
          BY <3>1, <3>3, <3>4, <3>5, <3>6, <4>2 DEF Placed, OneCopy
        <4> QED
          BY <3>2, <4>1, <4>2
      <3> QED
        BY <3>1, <3>6, <3>7 DEF Placed, Located
    <2>5. CASE SchedulerForward
      <3> DEFINE r == Head(waitingQueue)
      <3>1. /\ waitingQueue # <<>> /\ waitingQueue' = Tail(waitingQueue)
            /\ readyQueue' = Append(readyQueue, r)
            /\ UNCHANGED <<enqueue, incomingQueue, worker, job, answered>>
        BY <2>5 DEF SchedulerForward
      <3>2. /\ r \in Requests /\ Elems(waitingQueue) = {r} \cup Elems(waitingQueue')
            /\ NoRepeats(waitingQueue') /\ r \notin Elems(waitingQueue')
        BY <3>1, TailFacts, TailNoRepeats DEF Placed, OneCopy
      <3>3. r \notin Elems(incomingQueue) /\ r \notin Elems(readyQueue)
        BY <3>2 DEF Placed, OneCopy
      <3>4. Elems(readyQueue') = Elems(readyQueue) \cup {r} /\ NoRepeats(readyQueue')
        BY <3>1, <3>2, <3>3, AppendFacts, AppendNoRepeats DEF Placed, OneCopy
      <3> HIDE DEF r
      <3>5. Queued' = Queued /\ InHand' = InHand /\ Executing' = Executing
        BY <3>1, <3>2, <3>4 DEF Queued, InHand, Executing
      <3>6. OneCopy'
        BY <3>1, <3>2, <3>3, <3>4, <3>5 DEF Placed, OneCopy
      <3> QED
        BY <3>1, <3>5, <3>6 DEF Placed, Located
    <2>6. ASSUME NEW w \in Workers, WorkerReceive(w) PROVE Placed'
      <3> DEFINE r == Head(readyQueue)
      <3>1. /\ readyQueue # <<>> /\ readyQueue' = Tail(readyQueue)
            /\ worker[w] = "receive" /\ worker' = [worker EXCEPT ![w] = "process"]
            /\ job' = [job EXCEPT ![w] = r]
            /\ UNCHANGED <<enqueue, incomingQueue, waitingQueue, answered>>
        BY <2>6 DEF WorkerReceive
      <3>2. /\ r \in Requests /\ Elems(readyQueue) = {r} \cup Elems(readyQueue')
            /\ NoRepeats(readyQueue') /\ r \notin Elems(readyQueue')
        BY <3>1, TailFacts, TailNoRepeats DEF Placed, OneCopy
      <3>3. r \notin Elems(incomingQueue) \cup Elems(waitingQueue) \cup InHand \cup answered
        BY <3>2 DEF Placed, OneCopy, Queued
      <3> HIDE DEF r
      <3>4. /\ Executing' = Executing \cup {w} /\ w \notin Executing
            /\ job'[w] = r /\ \A v \in Executing : job'[v] = job[v]
        BY <3>1 DEF Executing
      <3>5. InHand' = InHand \cup {r}
        BY <3>4 DEF InHand
      <3>6. Queued = Queued' \cup {r} /\ r \notin Queued'
        BY <3>1, <3>2, <3>3 DEF Queued
      <3>7. \A u, v \in Executing' : job'[u] = job'[v] => u = v
        BY <3>3, <3>4 DEF InHand, Placed, OneCopy
      <3>8. OneCopy'
        BY <3>1, <3>2, <3>3, <3>5, <3>6, <3>7 DEF Placed, OneCopy
      <3> QED
        BY <3>1, <3>5, <3>6, <3>8 DEF Placed, Located
    <2>7. ASSUME NEW w \in Workers, ProcessRequest(w) PROVE Placed'
      <3>1. /\ worker[w] = "process" /\ worker' = [worker EXCEPT ![w] = "report"]
            /\ answered' = answered \cup {job[w]}
            /\ UNCHANGED <<enqueue, incomingQueue, waitingQueue, readyQueue, job>>
        BY <2>7 DEF ProcessRequest
      <3>2. w \in Executing /\ Executing' = Executing \ {w} /\ job[w] \in InHand
        BY <3>1 DEF Executing, InHand
      <3>3. InHand' = InHand \ {job[w]} /\ Queued' = Queued
        BY <3>1, <3>2 DEF InHand, Queued, Placed, OneCopy
      <3>4. OneCopy'
        BY <3>1, <3>2, <3>3 DEF Placed, OneCopy
      <3> QED
        BY <3>1, <3>3, <3>4 DEF Placed, Located
    <2>8. ASSUME NEW w \in Workers, WorkerExit(w) \/ WorkerReport(w) PROVE Placed'
      BY <2>8, PlacedUndisturbed DEF WorkerExit, WorkerReport, Executing
    <2>9. CASE SchedulerExit \/ SchedulerIncomingClosed \/ SchedulerComplete
      BY <2>9, PlacedUndisturbed
      DEF SchedulerExit, SchedulerIncomingClosed, SchedulerComplete, Executing
    <2>10. CASE StopMark \/ StopSignal \/ StopCloseIncoming \/ StopReturn
      BY <2>10, PlacedUndisturbed
      DEF StopMark, StopSignal, StopCloseIncoming, StopReturn, Executing
    <2>11. CASE UNCHANGED vars
      BY <2>11, PlacedUndisturbed DEF vars, queueVars, stopVars, schedulerVars, workerVars, Executing
    <2> QED
      BY <2>1, <2>2, <2>3, <2>4, <2>5, <2>6, <2>7, <2>8, <2>9, <2>10, <2>11
      DEF Next, SchedulerLoop, WorkerLoop, Terminated
  <1> QED
    BY <1>1, <1>2, TypeInvariant, LifecycleInvariant, PTL DEF Spec

\* When Stop has returned on a started dispatcher, no accepted request is
\* without its reply: nothing is queued or in a worker's hands any more.
THEOREM StopDrains == Spec => []StopDrainsAcceptedWork
  <1>1. TypeInv /\ Lifecycle /\ Placed => StopDrainsAcceptedWork
    <2> SUFFICES ASSUME TypeInv, Lifecycle, Placed, stop = "returned", scheduler # "off",
                        NEW r \in Requests, enqueue[r] = "accepted"
                 PROVE  r \in answered
      BY DEF StopDrainsAcceptedWork
    <2>1. scheduler = "exited" /\ \A w \in Workers : worker[w] = "exited"
      BY DEF Lifecycle
    <2>2. incomingQueue = <<>> /\ waitingQueue = <<>> /\ readyQueue = <<>>
      BY <2>1, DispatcherAssumption DEF Lifecycle, TypeInv, TypeOK
    <2>3. Queued = {} /\ InHand = {}
      BY <2>1, <2>2, EmptyFacts DEF Queued, InHand, Executing
    <2> QED
      BY <2>3 DEF Placed, Located
  <1> QED
    BY <1>1, TypeInvariant, LifecycleInvariant, PlacedInvariant, PTL

\* No request is ever executed twice or held by two workers, so a worker never
\* blocks on a result slot that is already full.
THEOREM ExecutedOnce == Spec => []ExecutedAtMostOnce
  <1>1. Placed => ExecutedAtMostOnce
    <2> SUFFICES ASSUME Placed, NEW w \in Workers, worker[w] = "process"
                 PROVE  /\ job[w] \notin answered
                        /\ \A v \in Workers \ {w} : worker[v] = "process" => job[v] # job[w]
      BY DEF ExecutedAtMostOnce
    <2> QED
      BY DEF Placed, OneCopy, InHand, Executing
  <1> QED
    BY <1>1, PlacedInvariant, PTL

-----------------------------------------------------------------------------
(* The scheduler's count                                                   *)

\* The workers with a request in hand can be counted.
LEMMA BusyFinite == IsFiniteSet(Busy) /\ Cardinality(Busy) \in Nat
  <1>1. Busy \subseteq Workers
    BY DEF Busy
  <1> QED
    BY <1>1, DispatcherAssumption, FS_Subset, FS_CardinalityType

\* The counter the scheduler keeps to itself is exact in every reachable state,
\* so readyQueue is closed neither before the last request nor never.
THEOREM PendingExact == Spec => []PendingAccountsForWork
  <1>1. ASSUME Init PROVE PendingAccountsForWork
    <2>1. Busy = {}
      BY <1>1 DEF Init, Busy
    <2> QED
      BY <1>1, <2>1, EmptyFacts, FS_EmptySet DEF Init, PendingAccountsForWork
  <1>2. TypeInv /\ Lifecycle /\ PendingAccountsForWork /\ [Next]_vars => PendingAccountsForWork'
    <2> SUFFICES ASSUME TypeInv, Lifecycle, PendingAccountsForWork, [Next]_vars
                 PROVE  PendingAccountsForWork'
      OBVIOUS
    <2>0. /\ incomingQueue \in Seq(Requests) /\ waitingQueue \in Seq(Requests)
          /\ readyQueue \in Seq(Requests) /\ completeQueue \in Seq(Requests)
          /\ Len(waitingQueue) \in Nat /\ Len(readyQueue) \in Nat /\ Len(completeQueue) \in Nat
          /\ pendingWorkers \in Nat
          /\ worker \in [Workers -> WorkerStates]
          /\ job \in [Workers -> Requests \cup {NoRequest}]
      BY DEF TypeInv, TypeOK
    <2>c. IsFiniteSet(Busy) /\ Cardinality(Busy) \in Nat
      BY BusyFinite
    <2> USE <2>0, <2>c DEF queueVars, stopVars, schedulerVars, workerVars
    <2>1. CASE Start
      <3>1. Busy = {} /\ Busy' = {}
        BY <2>1 DEF Start, Busy, Lifecycle
      <3> QED
        BY <2>1, <3>1 DEF Start, PendingAccountsForWork
    <2>2. CASE \/ \E r \in Requests : EnqueueBegin(r) \/ EnqueueSend(r) \/ EnqueueCancel(r)
               \/ SchedulerExit \/ SchedulerIncomingClosed
               \/ StopMark \/ StopSignal \/ StopCloseIncoming \/ StopReturn
               \/ UNCHANGED vars
      <3>1. UNCHANGED <<waitingQueue, readyQueue, completeQueue, pendingWorkers, worker>>
        BY <2>2 DEF EnqueueBegin, EnqueueSend, EnqueueCancel, SchedulerExit,
             SchedulerIncomingClosed, StopMark, StopSignal, StopCloseIncoming, StopReturn, vars
      <3> QED
        BY <3>1 DEF PendingAccountsForWork, Busy
    <2>3. CASE SchedulerAccept
      <3>1. /\ Head(incomingQueue) \in Requests
            /\ pendingWorkers' = pendingWorkers + 1
            /\ UNCHANGED <<completeQueue, worker>>
        BY <2>3, TailFacts DEF SchedulerAccept
      <3>2. /\ Len(Append(readyQueue, Head(incomingQueue))) = Len(readyQueue) + 1
            /\ Len(Append(waitingQueue, Head(incomingQueue))) = Len(waitingQueue) + 1
        BY <3>1, AppendFacts
      <3>3. \/ Len(readyQueue') = Len(readyQueue) + 1 /\ waitingQueue' = waitingQueue
            \/ Len(waitingQueue') = Len(waitingQueue) + 1 /\ readyQueue' = readyQueue
        BY <2>3, <3>2 DEF SchedulerAccept
      <3> QED
        BY <3>1, <3>3 DEF PendingAccountsForWork, Busy
    <2>4. CASE SchedulerForward
      <3>1. /\ Head(waitingQueue) \in Requests /\ Len(waitingQueue') = Len(waitingQueue) - 1
            /\ UNCHANGED <<completeQueue, worker, pendingWorkers>>
        BY <2>4, TailFacts DEF SchedulerForward
      <3>2. Len(readyQueue') = Len(readyQueue) + 1
        BY <2>4, <3>1, AppendFacts DEF SchedulerForward
      <3> QED
        BY <3>1, <3>2 DEF PendingAccountsForWork, Busy
    <2>5. CASE SchedulerComplete
      <3>1. /\ Len(completeQueue) > 0 /\ Len(completeQueue') = Len(completeQueue) - 1
            /\ UNCHANGED <<waitingQueue, readyQueue, worker>>
        BY <2>5, TailFacts DEF SchedulerComplete
      <3>2. pendingWorkers > 0
        BY <3>1 DEF PendingAccountsForWork
      <3>3. pendingWorkers' = pendingWorkers - 1
        BY <2>5, <3>2 DEF SchedulerComplete
      <3> QED
        BY <3>1, <3>3 DEF PendingAccountsForWork, Busy
    <2>6. ASSUME NEW w \in Workers, WorkerReceive(w) PROVE PendingAccountsForWork'
      <3>1. /\ Len(readyQueue') = Len(readyQueue) - 1
            /\ UNCHANGED <<waitingQueue, completeQueue, pendingWorkers>>
        BY <2>6, TailFacts DEF WorkerReceive
      <3>2. Busy' = Busy \cup {w} /\ w \notin Busy
        BY <2>6 DEF WorkerReceive, Busy
      <3>3. Cardinality(Busy') = Cardinality(Busy) + 1
        BY <3>2, FS_AddElement
      <3> QED
        BY <3>1, <3>3 DEF PendingAccountsForWork
    <2>7. ASSUME NEW w \in Workers, WorkerExit(w) \/ ProcessRequest(w)
          PROVE  PendingAccountsForWork'
      <3>1. UNCHANGED <<waitingQueue, readyQueue, completeQueue, pendingWorkers>> /\ Busy' = Busy
        BY <2>7 DEF WorkerExit, ProcessRequest, Busy
      <3> QED
        BY <3>1 DEF PendingAccountsForWork
    <2>8. ASSUME NEW w \in Workers, WorkerReport(w) PROVE PendingAccountsForWork'
      <3>1. w \in Busy /\ Busy' = Busy \ {w}
        BY <2>8 DEF WorkerReport, Busy
      <3>2. Cardinality(Busy') = Cardinality(Busy) - 1
        BY <3>1, FS_RemoveElement
      <3>3. job[w] \in Requests
        BY <3>1 DEF TypeInv, HoldsJob
      <3>4. /\ Len(completeQueue') = Len(completeQueue) + 1
            /\ UNCHANGED <<waitingQueue, readyQueue, pendingWorkers>>
        BY <2>8, <3>3, AppendFacts DEF WorkerReport
      <3> QED
        BY <3>2, <3>4 DEF PendingAccountsForWork
    <2> QED
      BY <2>1, <2>2, <2>3, <2>4, <2>5, <2>6, <2>7, <2>8 DEF Next, SchedulerLoop, WorkerLoop, Terminated
  <1> QED
    BY <1>1, <1>2, TypeInvariant, LifecycleInvariant, PTL DEF Spec

-----------------------------------------------------------------------------
(* Refinement                                                              *)

\* Every step of the dispatcher is a step of the abstract service or none of
\* its business: the queues are invisible to the callers.
THEOREM RefinesService == Spec => ImplementsService
  <1>1. ASSUME Init PROVE Service!SInit
    BY <1>1 DEF Init, Service!SInit, ServicePhase, ServiceMode
  <1>2. TypeInv /\ Lifecycle /\ Placed /\ [Next]_vars => [Service!SNext]_(Service!svars)
    <2> SUFFICES ASSUME TypeInv, Lifecycle, Placed, [Next]_vars
                 PROVE  [Service!SNext]_(Service!svars)
      OBVIOUS
    <2>0. /\ answered \subseteq Requests /\ enqueue \in [Requests -> EnqueueStates]
          /\ stop \in StopStates /\ scheduler \in SchedulerStates
      BY DEF TypeInv, TypeOK
    <2>p. /\ \A r \in answered : enqueue[r] = "accepted"
          /\ \A w \in Executing : /\ job[w] \in Requests /\ job[w] \notin answered
                                  /\ enqueue[job[w]] = "accepted"
      BY DEF Placed, OneCopy, InHand, Executing, TypeInv, HoldsJob, Busy
    <2>s. \A r \in Requests : ServicePhase[r] = IF r \in answered THEN "answered"
                               ELSE IF enqueue[r] = "select" THEN "calling" ELSE enqueue[r]
      BY DEF ServicePhase
    <2> USE <2>0 DEF queueVars, stopVars, schedulerVars, workerVars, Service!svars
    <2>1. CASE Start
      <3>1. UNCHANGED <<ServicePhase, ServiceMode>> /\ ServiceMode = "open" /\ scheduler' # "off"
        BY <2>1 DEF Start, ServicePhase, ServiceMode
      <3> QED
        BY <3>1 DEF Service!SNext, Service!Run
    <2>2. ASSUME NEW r \in Requests, EnqueueBegin(r) PROVE Service!SNext
      <3>1. /\ enqueue[r] = "idle" /\ r \notin answered /\ UNCHANGED <<ServiceMode, scheduler, stop>>
            /\ UNCHANGED <<answered, stopped>>
        BY <2>2, <2>p DEF EnqueueBegin, ServiceMode
      <3>2. CASE r \in Unusable \/ stopped
        <4>1. enqueue' = [enqueue EXCEPT ![r] = "refused"]
          BY <2>2, <3>2 DEF EnqueueBegin
        <4>2. ServicePhase' = [ServicePhase EXCEPT ![r] = "refused"] /\ ServicePhase[r] = "idle"
          BY <3>1, <4>1 DEF ServicePhase, EnqueueStates
        <4> QED
          BY <3>1, <4>2 DEF Service!SNext, Service!Refuse, Service!Move
      <3>3. CASE ~(r \in Unusable \/ stopped)
        <4>1. enqueue' = [enqueue EXCEPT ![r] = "select"]
          BY <2>2, <3>3 DEF EnqueueBegin
        <4>2. ServicePhase' = [ServicePhase EXCEPT ![r] = "calling"] /\ ServicePhase[r] = "idle"
          BY <3>1, <4>1 DEF ServicePhase, EnqueueStates
        <4>3. ServiceMode = "open"
          BY <3>3 DEF ServiceMode, Lifecycle
        <4> QED
          BY <3>1, <4>2, <4>3 DEF Service!SNext, Service!Call, Service!Move
      <3> QED
        BY <3>2, <3>3
    <2>3. ASSUME NEW r \in Requests, EnqueueSend(r) PROVE Service!SNext
      <3>1. /\ enqueue[r] = "select" /\ r \notin answered
            /\ enqueue' = [enqueue EXCEPT ![r] = "accepted"]
            /\ UNCHANGED <<ServiceMode, scheduler, answered>>
        BY <2>3, <2>p DEF EnqueueSend, ServiceMode
      <3>2. ServicePhase' = [ServicePhase EXCEPT ![r] = "accepted"] /\ ServicePhase[r] = "calling"
        BY <3>1 DEF ServicePhase, EnqueueStates
      <3>3. ServiceMode # "stopped"
        BY <3>1 DEF Lifecycle, ServiceMode, StopStates
      <3> QED
        BY <3>1, <3>2, <3>3 DEF Service!SNext, Service!Accept, Service!Move
    <2>4. ASSUME NEW r \in Requests, EnqueueCancel(r) PROVE Service!SNext
      <3>1. /\ enqueue[r] = "select" /\ r \notin answered /\ enqueueDone
            /\ enqueue' = [enqueue EXCEPT ![r] = "refused"]
            /\ UNCHANGED <<ServiceMode, scheduler, answered>>
        BY <2>4, <2>p DEF EnqueueCancel, ServiceMode
      <3>2. ServicePhase' = [ServicePhase EXCEPT ![r] = "refused"] /\ ServicePhase[r] = "calling"
        BY <3>1 DEF ServicePhase, EnqueueStates
      <3>3. ServiceMode # "open"
        BY <3>1 DEF Lifecycle, ServiceMode, StopStates
      <3> QED
        BY <3>1, <3>2, <3>3 DEF Service!SNext, Service!Refuse, Service!Move
    <2>5. CASE SchedulerLoop
      <3>1. UNCHANGED <<enqueue, answered, stop>>
        BY <2>5 DEF SchedulerLoop, SchedulerExit, SchedulerAccept, SchedulerIncomingClosed,
             SchedulerForward, SchedulerComplete
      <3>2. scheduler # "off" /\ scheduler' # "off"
        BY <2>5 DEF SchedulerLoop, SchedulerExit, SchedulerAccept, SchedulerIncomingClosed,
             SchedulerForward, SchedulerComplete
      <3> QED
        BY <3>1, <3>2 DEF ServicePhase, ServiceMode
    <2>6. ASSUME NEW w \in Workers, WorkerReceive(w) \/ WorkerExit(w) \/ WorkerReport(w)
          PROVE  UNCHANGED Service!svars
      <3>1. UNCHANGED <<enqueue, answered, stop, scheduler>>
        BY <2>6 DEF WorkerReceive, WorkerExit, WorkerReport
      <3> QED
        BY <3>1 DEF ServicePhase, ServiceMode
    <2>7. ASSUME NEW w \in Workers, ProcessRequest(w) PROVE Service!SNext
      <3>1. /\ worker[w] = "process" /\ w \in Executing
            /\ answered' = answered \cup {job[w]}
            /\ UNCHANGED <<enqueue, scheduler, ServiceMode>>
        BY <2>7 DEF ProcessRequest, Executing, ServiceMode
      <3>2. job[w] \in Requests /\ job[w] \notin answered /\ enqueue[job[w]] = "accepted"
        BY <3>1, <2>p
      <3>3. /\ ServicePhase' = [ServicePhase EXCEPT ![job[w]] = "answered"]
            /\ ServicePhase[job[w]] = "accepted"
        BY <3>1, <3>2 DEF ServicePhase
      <3>4. scheduler # "off" /\ ServiceMode # "stopped"
        BY <3>1 DEF Lifecycle, Executing, ServiceMode
      <3> QED
        BY <3>1, <3>2, <3>3, <3>4 DEF Service!SNext, Service!Answer, Service!Move
    <2>8. CASE StopMark
      <3>1. UNCHANGED <<ServicePhase, scheduler>> /\ ServiceMode = "open" /\ ServiceMode' = "stopping"
        BY <2>8 DEF StopMark, ServicePhase, ServiceMode
      <3> QED
        BY <3>1 DEF Service!SNext, Service!BeginStop
    <2>9. CASE StopSignal \/ StopCloseIncoming
      BY <2>9 DEF StopSignal, StopCloseIncoming, ServicePhase, ServiceMode
    <2>10. CASE StopReturn
      <3>1. /\ UNCHANGED <<ServicePhase, scheduler, enqueue, answered>>
            /\ ServiceMode = "stopping" /\ ServiceMode' = "stopped"
            /\ stop = "closed" /\ scheduler # "select"
            /\ \A w \in Workers : worker[w] \in {"off", "exited"}
        BY <2>10 DEF StopReturn, ServicePhase, ServiceMode
      <3>2. \A r \in Requests : ServicePhase[r] # "calling"
        BY <3>1, <2>s DEF Lifecycle, EnqueueStates
      <3>3. ASSUME scheduler # "off", NEW r \in Requests PROVE ServicePhase[r] # "accepted"
        <4>1. scheduler = "exited" /\ \A w \in Workers : worker[w] = "exited"
          BY <3>1, <3>3 DEF Lifecycle, SchedulerStates
        <4>2. incomingQueue = <<>> /\ waitingQueue = <<>> /\ readyQueue = <<>>
          BY <4>1, DispatcherAssumption DEF Lifecycle, TypeInv, TypeOK
        <4>3. Queued = {} /\ InHand = {}
          BY <4>1, <4>2, EmptyFacts DEF Queued, InHand, Executing
        <4> QED
          BY <4>3, <2>s DEF Placed, Located
      <3> QED
        BY <3>1, <3>2, <3>3 DEF Service!SNext, Service!EndStop
    <2>11. CASE UNCHANGED vars
      BY <2>11 DEF vars, queueVars, stopVars, schedulerVars, workerVars, ServicePhase, ServiceMode
    <2> QED
      BY <2>1, <2>2, <2>3, <2>4, <2>5, <2>6, <2>7, <2>8, <2>9, <2>10, <2>11
      DEF Next, WorkerLoop, Terminated
  <1> QED
    BY <1>1, <1>2, TypeInvariant, LifecycleInvariant, PlacedInvariant, PTL
    DEF Spec, ImplementsService, Service!SSpec
=============================================================================
