---------------------------- MODULE RuntimeProofs ----------------------------
(***************************************************************************)
(* The share of the dispatcher that one session of Runtime takes, for      *)
(* every in-flight limit, number of workers and queue size, and whatever   *)
(* other sessions submit.                                                  *)
(*                                                                         *)
(* Of the dispatcher the proof needs only that nobody but readLoop enqueues *)
(* the session's requests and that answers are not taken back; of the      *)
(* session, how its counter follows its waiters.                           *)
(***************************************************************************)
EXTENDS Runtime, FiniteSetTheorems, TLAPS

Shapes ==
  /\ sent \in 0..MaxRequests /\ taken \in 0..MaxRequests /\ buffered \in taken..sent
  /\ inflight \in Nat
  /\ read \in S!ReadStates
  /\ waiter \in [Own -> S!WaiterStates]
  /\ enqueue \in [Own \cup Others -> D!EnqueueStates]
  /\ read \in {"count", "submit"} => taken # 0

\* Only the request that readLoop is submitting can be inside Enqueue; each
\* accepted one has a waiter, which goes on when it is answered.
Handing ==
  \A k \in Own :
    /\ enqueue[k] = "select" => k = taken /\ read = "submit"
    /\ enqueue[k] = "accepted" <=> waiter[k] # "none"
    /\ waiter[k] \in {"check", "select", "decrement", "exited"} => k \in answered

\* The counter is the waiters and the request being submitted, and past the gate
\* there is room for one more.
Counted ==
  /\ inflight = Cardinality(S!InFlight) + (IF read = "submit" THEN 1 ELSE 0)
  /\ inflight <= MaxInFlight
  /\ read \in {"arm", "lock", "read", "count"} => inflight < MaxInFlight

Shares == Shapes /\ Handing /\ Counted

-----------------------------------------------------------------------------
\* There are finitely many requests, so those in flight can be counted.
LEMMA InFlightFinite == IsFiniteSet(S!InFlight)
  <1>1. IsFiniteSet(Own)
    BY RuntimeAssumption, FS_Interval DEF Own
  <1>2. S!InFlight \subseteq Own
    BY DEF S!InFlight, S!Requests, Own
  <1> QED
    BY <1>1, <1>2, FS_Subset

\* The dispatcher's goroutines, its Stop and other sessions' calls of Enqueue
\* leave the session and the submission of its requests as they are.
Elsewhere ==
  \/ OtherSessions \/ Scheduler \/ (\E w \in Workers : Worker(w))
  \/ DispatcherStopBegins \/ DispatcherStops

\* Of the session's requests they can only answer some.
LEMMA ElsewhereKeeps ==
  ASSUME Shapes, Elsewhere
  PROVE  /\ UNCHANGED sessionVars
         /\ enqueue' \in [Own \cup Others -> D!EnqueueStates]
         /\ \A k \in Own : enqueue'[k] = enqueue[k]
         /\ answered \subseteq answered'
  <1>1. UNCHANGED sessionVars
    BY DEF Elsewhere, OtherSessions, Scheduler, Worker, DispatcherStopBegins, DispatcherStops
  <1>2. CASE OtherSessions
    <2>1. PICK r \in Others : D!EnqueueBegin(r) \/ OtherEnqueue(r)
      BY <1>2 DEF OtherSessions
    <2>2. r \notin Own
      BY RuntimeAssumption DEF Own
    <2>3. /\ answered' = answered
          /\ \E to \in D!EnqueueStates : enqueue' = [enqueue EXCEPT ![r] = to]
      BY <2>1 DEF OtherEnqueue, D!EnqueueBegin, D!EnqueueSend, D!EnqueueCancel, D!EnqueueStates,
                  D!workerVars
    <2> QED
      BY <1>1, <2>2, <2>3 DEF Shapes
  <1>3. CASE Scheduler
    <2>1. enqueue' = enqueue /\ answered' = answered
      BY <1>3 DEF Scheduler, D!SchedulerLoop, D!SchedulerExit, D!SchedulerAccept,
                  D!SchedulerIncomingClosed, D!SchedulerForward, D!SchedulerComplete, D!workerVars
    <2> QED
      BY <1>1, <2>1 DEF Shapes
  <1>4. CASE \E w \in Workers : Worker(w)
    <2>1. enqueue' = enqueue /\ answered \subseteq answered'
      BY <1>4 DEF Worker, D!WorkerLoop, D!WorkerReceive, D!WorkerExit, D!ProcessRequest,
                  D!WorkerReport
    <2> QED
      BY <1>1, <2>1 DEF Shapes
  <1>5. CASE DispatcherStopBegins \/ DispatcherStops
    <2>1. enqueue' = enqueue /\ answered' = answered
      BY <1>5 DEF DispatcherStopBegins, DispatcherStops, D!StopMark, D!StopSignal,
                  D!StopCloseIncoming, D!StopReturn, D!workerVars
    <2> QED
      BY <1>1, <2>1 DEF Shapes
  <1> QED
    BY <1>2, <1>3, <1>4, <1>5 DEF Elsewhere

\* The session's own steps, but for Submit, find the dispatcher as it is.
OwnSteps ==
  \/ S!ReadAlone \/ S!WriteLoop \/ (\E k \in Own : S!Waiter(k))
  \/ S!MainLoop \/ S!StopReturn \/ S!CloseCall \/ S!ClientEvents \/ S!Stop \/ S!CloseNow

\* Every step is the dispatcher's or another session's, Submit, or the session's own.
LEMMA StepKinds ==
  [Next]_vars => \/ Elsewhere \/ Submit
                 \/ UNCHANGED dispatcherVars /\ OwnSteps
                 \/ UNCHANGED vars
  BY DEF Next, Elsewhere, ReadLoop, WriteLoop, Waiter, Ending, Client, Alone, OwnSteps, Terminated

\* What readLoop does besides submitting, seen from the counter.
LEMMA ReadAloneKeeps ==
  ASSUME Shapes, Counted, S!ReadAlone
  PROVE  /\ sent' = sent /\ waiter' = waiter /\ read \notin {"submit", "exited"}
         /\ taken' \in 0..MaxRequests /\ buffered' \in taken'..sent /\ read' \in S!ReadStates
         /\ read' \in {"count", "submit"} => taken' # 0
         /\ inflight' = inflight + (IF read' = "submit" THEN 1 ELSE 0)
         /\ read' \in {"arm", "lock", "read", "count"} => inflight < MaxInFlight
         /\ read' = "submit" => inflight < MaxInFlight
  <1>0. /\ sent \in 0..MaxRequests /\ taken \in 0..MaxRequests /\ buffered \in taken..sent
        /\ inflight \in Nat /\ read \in S!ReadStates /\ (read \in {"count", "submit"} => taken # 0)
        /\ read \in {"arm", "lock", "read", "count"} => inflight < MaxInFlight
    BY DEF Shapes, Counted
  <1>1. CASE S!GateStop
    BY <1>0, <1>1 DEF S!GateStop, S!readUnchanged, S!clientVars, S!ReadStates
  <1>2. CASE S!GatePoll
    BY <1>0, <1>2 DEF S!GatePoll, S!vars, S!clientVars, S!connVars, S!ReadStates
  <1>3. CASE S!GatePass
    BY <1>0, <1>3 DEF S!GatePass, S!readUnchanged, S!clientVars, S!ReadStates
  <1>4. CASE S!ReadArm
    BY <1>0, <1>4 DEF S!ReadArm, S!readUnchanged, S!clientVars, S!ReadStates
  <1>5. CASE S!ReadLock
    BY <1>0, <1>5 DEF S!ReadLock, S!readUnchanged, S!clientVars, S!ReadStates
  <1>6. CASE S!ReadFill
    BY <1>0, <1>6 DEF S!ReadFill, S!readUnchanged, S!clientVars, S!ReadStates
  <1>7. CASE S!ReadParse
    BY <1>0, <1>7, RuntimeAssumption DEF S!ReadParse, S!readUnchanged, S!clientVars, S!ReadStates
  <1>8. CASE S!ReadFail
    BY <1>0, <1>8 DEF S!ReadFail, S!readUnchanged, S!clientVars, S!ReadStates
  <1>9. CASE S!ReadCount
    BY <1>0, <1>9 DEF S!ReadCount, S!readUnchanged, S!clientVars, S!ReadStates
  <1>10. CASE S!ReadLeave
    BY <1>0, <1>10 DEF S!ReadLeave, S!readUnchanged, S!clientVars, S!ReadStates
  <1> QED
    BY <1>1, <1>2, <1>3, <1>4, <1>5, <1>6, <1>7, <1>8, <1>9, <1>10 DEF S!ReadAlone

\* A waiter moves on when its request is answered, and takes the count back last.
LEMMA WaiterKeeps ==
  ASSUME Shapes, Handing, NEW k \in Own, S!Waiter(k)
  PROVE  /\ UNCHANGED <<sent, buffered, taken, read>>
         /\ \/ /\ waiter[k] \in {"wait", "check", "select"} /\ k \in answered
               /\ \E to \in {"check", "select", "decrement"} : waiter' = [waiter EXCEPT ![k] = to]
               /\ inflight' = inflight
            \/ /\ waiter[k] = "decrement" /\ waiter' = [waiter EXCEPT ![k] = "exited"]
               /\ inflight' = IF inflight > 0 THEN inflight - 1 ELSE inflight
  <1>1. UNCHANGED <<sent, buffered, taken, read>>
    BY DEF S!Waiter, S!WaiterResult, S!HandleResponseCheck, S!HandleResponseSend,
           S!HandleResponseStopped, S!DecrementInflight, S!waiterUnchanged, S!clientVars, S!connVars
  <1>2. CASE S!WaiterResult(k)
    <2>1. k \in answered
      <3>1. Restrict(D!ServicePhase, Own)[k] = "answered"
        BY <1>2 DEF S!WaiterResult
      <3>2. Restrict(D!ServicePhase, Own)[k] = D!ServicePhase[k]
        BY DEF Restrict
      <3>3. enqueue[k] \in D!EnqueueStates
        BY DEF Shapes
      <3> QED
        BY <3>1, <3>2, <3>3 DEF D!ServicePhase, D!EnqueueStates
    <2> QED
      BY <1>1, <1>2, <2>1 DEF S!WaiterResult, S!WaiterStep
  <1>3. CASE S!HandleResponseCheck(k) \/ S!HandleResponseSend(k) \/ S!HandleResponseStopped(k)
    BY <1>1, <1>3 DEF S!HandleResponseCheck, S!HandleResponseSend, S!HandleResponseStopped,
                      S!WaiterStep, Handing
  <1>4. CASE S!DecrementInflight(k)
    BY <1>1, <1>4 DEF S!DecrementInflight, S!WaiterStep
  <1> QED
    BY <1>2, <1>3, <1>4 DEF S!Waiter

\* Enqueue and the read loop move together: a send on the incoming channel is an
\* acceptance, and a refusal never leaves the request inside Enqueue.
LEMMA SubmitKeeps ==
  ASSUME Shapes, Submit
  PROVE  /\ read = "submit" /\ taken \in Own /\ UNCHANGED <<sent, buffered, taken, answered>>
         /\ enqueue' \in [Own \cup Others -> D!EnqueueStates]
         /\ \A k \in Own \ {taken} : enqueue'[k] = enqueue[k]
         /\ \/ /\ enqueue[taken] = "idle" /\ enqueue'[taken] \in {"select", "refused"}
               /\ UNCHANGED <<waiter, inflight, read>>
            \/ /\ enqueue[taken] = "select" /\ enqueue'[taken] = "accepted"
               /\ waiter' = [waiter EXCEPT ![taken] = "wait"]
               /\ read' = "gate" /\ inflight' = inflight
            \/ /\ enqueue[taken] \in {"idle", "select"} /\ enqueue'[taken] = "refused"
               /\ waiter' = waiter /\ read' = "leave" /\ inflight' = inflight - 1
  <1>1. /\ read = "submit" /\ taken \in Own
        /\ \/ D!EnqueueBegin(taken)  /\ (S!SubmitCall \/ S!SubmitRefused)
           \/ D!EnqueueSend(taken)   /\ S!SubmitAccepted
           \/ D!EnqueueCancel(taken) /\ S!SubmitRefused
    BY RuntimeAssumption DEF Submit, Shapes, Own
  <1>2. UNCHANGED <<sent, buffered, taken, answered>>
    BY <1>1 DEF D!EnqueueBegin, D!EnqueueSend, D!EnqueueCancel, D!workerVars, S!SubmitCall,
                S!SubmitRefused, S!SubmitAccepted, S!readUnchanged, S!clientVars
  <1>3. enqueue \in [Own \cup Others -> D!EnqueueStates] /\ taken \in Own \cup Others
    BY <1>1 DEF Shapes
  <1>4. CASE D!EnqueueBegin(taken) /\ S!SubmitCall
    <2>1. /\ enqueue[taken] = "idle"
          /\ \E to \in {"select", "refused"} : enqueue' = [enqueue EXCEPT ![taken] = to]
          /\ UNCHANGED <<waiter, inflight, read>>
      BY <1>4 DEF D!EnqueueBegin, S!SubmitCall
    <2> QED
      BY <1>1, <1>2, <1>3, <2>1 DEF D!EnqueueStates
  <1>5. CASE D!EnqueueBegin(taken) /\ S!SubmitRefused
    <2>1. /\ enqueue[taken] = "idle"
          /\ \E to \in {"select", "refused"} : enqueue' = [enqueue EXCEPT ![taken] = to]
          /\ waiter' = waiter /\ read' = "leave" /\ inflight' = inflight - 1
      BY <1>5 DEF D!EnqueueBegin, S!SubmitRefused
    <2>2. enqueue'[taken] # "select"
      <3>1. Restrict(D!ServicePhase, Own)'[taken] = "refused"
        <4>1. Restrict(D!ServicePhase, Own)' =
                [Restrict(D!ServicePhase, Own) EXCEPT ![taken] = "refused"]
          BY <1>5 DEF S!SubmitRefused, S!Service!Refuse, S!Service!Move
        <4> QED
          BY <1>1, <4>1 DEF Restrict
      <3>2. Restrict(D!ServicePhase, Own)'[taken] = D!ServicePhase'[taken]
        BY <1>1, <1>2 DEF Restrict, Own
      <3> QED
        BY <1>3, <3>1, <3>2 DEF D!ServicePhase
    <2> QED
      BY <1>1, <1>2, <1>3, <2>1, <2>2 DEF D!EnqueueStates
  <1>6. CASE D!EnqueueSend(taken) /\ S!SubmitAccepted
    <2>1. /\ enqueue[taken] = "select" /\ enqueue' = [enqueue EXCEPT ![taken] = "accepted"]
          /\ waiter' = [waiter EXCEPT ![taken] = "wait"]
          /\ read' = "gate" /\ inflight' = inflight
      BY <1>6 DEF D!EnqueueSend, S!SubmitAccepted
    <2> QED
      BY <1>1, <1>2, <1>3, <2>1 DEF D!EnqueueStates
  <1>7. CASE D!EnqueueCancel(taken) /\ S!SubmitRefused
    <2>1. /\ enqueue[taken] = "select" /\ enqueue' = [enqueue EXCEPT ![taken] = "refused"]
          /\ waiter' = waiter /\ read' = "leave" /\ inflight' = inflight - 1
      BY <1>7 DEF D!EnqueueCancel, S!SubmitRefused
    <2> QED
      BY <1>1, <1>2, <1>3, <2>1 DEF D!EnqueueStates
  <1> QED
    BY <1>1, <1>4, <1>5, <1>6, <1>7

\* The count follows every step of the session, also through Enqueue.
LEMMA SharesStep == Shares /\ [Next]_vars => Shares'
  <1> SUFFICES ASSUME Shapes, Handing, Counted, [Next]_vars PROVE Shapes' /\ Handing' /\ Counted'
    BY DEF Shares
  <1> DEFINE N == Cardinality(S!InFlight)
  <1>0. /\ IsFiniteSet(S!InFlight) /\ N \in Nat /\ inflight \in Nat /\ MaxInFlight \in Nat \ {0}
        /\ waiter \in [Own -> S!WaiterStates] /\ Own' = Own /\ S!Requests = Own
        /\ S!Requests' = Own
    BY InFlightFinite, FS_CardinalityType, RuntimeAssumption DEF Shapes, Own, S!Requests
  <1>c. /\ inflight = N + (IF read = "submit" THEN 1 ELSE 0)
        /\ inflight <= MaxInFlight
        /\ read \in {"arm", "lock", "read", "count"} => inflight < MaxInFlight
    BY DEF Counted
  <1>n. waiter' = waiter => N' = N
    BY <1>0 DEF S!InFlight
  <1> HIDE DEF N
  <1>1. CASE UNCHANGED sessionVars /\ enqueue' \in [Own \cup Others -> D!EnqueueStates]
             /\ (\A k \in Own : enqueue'[k] = enqueue[k]) /\ answered \subseteq answered'
    <2>1. /\ UNCHANGED <<sent, taken, buffered, inflight, read, waiter>>
      BY <1>1 DEF sessionVars
    <2>2. Shapes'
      BY <1>0, <1>1, <2>1 DEF Shapes
    <2>3. Handing'
      BY <1>0, <1>1, <2>1 DEF Handing
    <2>4. Counted'
      BY <1>c, <1>n, <2>1 DEF Counted, N
    <2> QED
      BY <2>2, <2>3, <2>4
  <1>2. CASE Elsewhere
    BY <1>1, <1>2, ElsewhereKeeps
  <1>3. CASE UNCHANGED vars
    <2>1. UNCHANGED sessionVars /\ enqueue' = enqueue /\ answered' = answered
      BY <1>3 DEF vars, dispatcherVars
    <2> QED
      BY <1>1, <2>1 DEF Shapes
  <1>4. CASE UNCHANGED dispatcherVars /\ S!ReadAlone
    <2>1. enqueue' = enqueue /\ answered' = answered
      BY <1>4 DEF dispatcherVars
    <2>2. Shapes'
      BY <1>0, <1>4, <2>1, ReadAloneKeeps DEF Shapes
    <2>3. Handing'
      BY <1>0, <1>4, <2>1, ReadAloneKeeps DEF Handing
    <2>4. Counted'
      BY <1>0, <1>c, <1>n, <1>4, ReadAloneKeeps DEF Counted, N
    <2> QED
      BY <2>2, <2>3, <2>4
  <1>5. ASSUME NEW k \in Own, UNCHANGED dispatcherVars, S!Waiter(k)
        PROVE  Shapes' /\ Handing' /\ Counted'
    <2>1. enqueue' = enqueue /\ answered' = answered /\ UNCHANGED <<sent, buffered, taken, read>>
      BY <1>5, WaiterKeeps DEF dispatcherVars
    <2>2. CASE /\ waiter[k] \in {"wait", "check", "select"} /\ k \in answered
               /\ \E to \in {"check", "select", "decrement"} : waiter' = [waiter EXCEPT ![k] = to]
               /\ inflight' = inflight
      <3>1. PICK to \in {"check", "select", "decrement"} : waiter' = [waiter EXCEPT ![k] = to]
        BY <2>2
      <3>2. Shapes'
        BY <1>0, <2>1, <2>2, <3>1 DEF Shapes, S!WaiterStates
      <3>3. Handing'
        BY <1>0, <2>1, <2>2, <3>1 DEF Handing
      <3>4. S!InFlight' = S!InFlight
        BY <1>0, <2>2, <3>1 DEF S!InFlight
      <3>5. N' = N
        BY <3>4 DEF N
      <3> QED
        BY <1>0, <1>c, <2>1, <2>2, <3>2, <3>3, <3>5 DEF Counted, N
    <2>3. CASE /\ waiter[k] = "decrement" /\ waiter' = [waiter EXCEPT ![k] = "exited"]
               /\ inflight' = IF inflight > 0 THEN inflight - 1 ELSE inflight
      <3>1. k \in S!InFlight /\ S!InFlight' = S!InFlight \ {k}
        BY <1>0, <2>3 DEF S!InFlight
      <3>2. N' = N - 1 /\ N # 0
        BY <1>0, <3>1, FS_RemoveElement, FS_EmptySet DEF N
      <3>3. inflight' = inflight - 1 /\ inflight' \in Nat
        BY <1>0, <1>c, <2>3, <3>2
      <3>4. Shapes'
        BY <1>0, <2>1, <2>3, <3>3 DEF Shapes, S!WaiterStates
      <3>5. Handing'
        BY <1>0, <2>1, <2>3 DEF Handing
      <3>6. Counted'
        BY <1>0, <1>c, <2>1, <3>2, <3>3 DEF Counted, N
      <3> QED
        BY <3>4, <3>5, <3>6
    <2> QED
      BY <1>5, <2>2, <2>3, WaiterKeeps
  <1>6. CASE UNCHANGED dispatcherVars /\ OwnSteps /\ ~S!ReadAlone /\ ~(\E k \in Own : S!Waiter(k))
    <2>1. enqueue' = enqueue /\ answered' = answered
      BY <1>6 DEF dispatcherVars
    <2>2. /\ UNCHANGED <<taken, buffered, inflight, read, waiter>>
          /\ sent' = sent \/ (sent < MaxRequests /\ sent' = sent + 1)
      BY <1>6 DEF OwnSteps, S!WriteLoop, S!TakeFirst, S!TakeStop, S!WriteReply, S!TakeMore,
                  S!FlushLock, S!FlushOk, S!FlushFail, S!ReleaseBatch, S!writeUnchanged, S!MainLoop,
                  S!CloseConn, S!OnRemove, S!Done, S!Stop, S!StopReturn, S!CloseNow, S!CloseCall,
                  S!CloseNowLock, S!CloseNowClose, S!CloseNowReturn, S!callerUnchanged,
                  S!ClientEvents, S!ClientSends, S!ClientChanges, S!clientVars, S!connVars
    <2>3. Shapes'
      BY <1>0, <2>1, <2>2, RuntimeAssumption DEF Shapes
    <2>4. Handing'
      BY <1>0, <2>1, <2>2 DEF Handing
    <2>5. Counted'
      BY <1>c, <1>n, <2>2 DEF Counted, N
    <2> QED
      BY <2>3, <2>4, <2>5
  <1>7. CASE Submit
    <2>1. PICK e \in D!EnqueueStates :
            /\ read = "submit" /\ taken \in Own /\ UNCHANGED <<sent, buffered, taken, answered>>
            /\ enqueue' \in [Own \cup Others -> D!EnqueueStates]
            /\ \A k \in Own \ {taken} : enqueue'[k] = enqueue[k]
            /\ enqueue'[taken] = e
      BY <1>7, SubmitKeeps
    <2>2. CASE /\ enqueue[taken] = "idle" /\ e \in {"select", "refused"}
               /\ UNCHANGED <<waiter, inflight, read>>
      BY <1>0, <1>c, <1>n, <2>1, <2>2 DEF Shapes, Handing, Counted, N
    <2>3. CASE /\ enqueue[taken] = "select" /\ e = "accepted"
               /\ waiter' = [waiter EXCEPT ![taken] = "wait"]
               /\ read' = "gate" /\ inflight' = inflight
      <3>1. waiter[taken] = "none"
        BY <2>1, <2>3 DEF Handing
      <3>2. taken \notin S!InFlight /\ S!InFlight' = S!InFlight \cup {taken}
        BY <1>0, <2>1, <2>3, <3>1 DEF S!InFlight
      <3>3. N' = N + 1
        BY <1>0, <3>2, FS_AddElement DEF N
      <3>4. Shapes'
        BY <1>0, <2>1, <2>3 DEF Shapes, S!ReadStates, S!WaiterStates
      <3>5. Handing'
        BY <1>0, <2>1, <2>3 DEF Handing
      <3>6. Counted'
        BY <1>0, <1>c, <2>1, <2>3, <3>3 DEF Counted, N
      <3> QED
        BY <3>4, <3>5, <3>6
    <2>4. CASE /\ enqueue[taken] \in {"idle", "select"} /\ e = "refused"
               /\ waiter' = waiter /\ read' = "leave" /\ inflight' = inflight - 1
      <3>1. Shapes'
        BY <1>0, <1>c, <2>1, <2>4 DEF Shapes, S!ReadStates
      <3>2. Handing'
        BY <1>0, <2>1, <2>4 DEF Handing
      <3>3. Counted'
        BY <1>0, <1>c, <1>n, <2>1, <2>4 DEF Counted, N
      <3> QED
        BY <3>1, <3>2, <3>3
    <2> QED
      BY <1>7, <2>1, <2>2, <2>3, <2>4, SubmitKeeps
  <1> QED
    BY <1>2, <1>3, <1>4, <1>5, <1>6, <1>7, StepKinds

\* A session begins with nothing submitted and nothing counted.
LEMMA SharesInvariant == Spec => []Shares
  <1>1. Init => Shares
    <2> SUFFICES ASSUME Init PROVE Shapes /\ Handing /\ Counted
      BY DEF Shares
    <2>1. /\ sent = 0 /\ taken = 0 /\ buffered = 0 /\ inflight = 0 /\ read = "gate"
          /\ waiter = [k \in Own |-> "none"]
          /\ enqueue = [r \in Own \cup Others |-> "idle"]
      BY DEF Init, S!SessionInit, S!Requests, Own
    <2>2. Shapes
      BY <2>1, RuntimeAssumption DEF Shapes, S!ReadStates, S!WaiterStates, D!EnqueueStates
    <2>3. Handing
      BY <2>1 DEF Handing
    <2>4. S!InFlight = {}
      BY <2>1 DEF S!InFlight, S!Requests, Own
    <2>5. Counted
      BY <2>1, <2>4, FS_EmptySet, RuntimeAssumption DEF Counted
    <2> QED
      BY <2>2, <2>3, <2>5
  <1>2. Shares /\ [Next]_vars => Shares'
    BY SharesStep
  <1> QED
    BY <1>1, <1>2, PTL DEF Spec

\* However its client pipelines, stalls or closes, and whatever other sessions
\* submit, the requests of a session that occupy the dispatcher, from the call of
\* Enqueue to the reply, are no more than its in-flight counter says, which never
\* exceeds MaxInFlightPerSession.
THEOREM OwnShareHolds == Spec => []OwnShare
  <1>1. Shares => OwnShare
    <2> SUFFICES ASSUME Shapes, Handing, Counted PROVE OwnShare
      BY DEF Shares
    <2>0. /\ IsFiniteSet(S!InFlight) /\ Cardinality(S!InFlight) \in Nat
          /\ inflight \in Nat /\ S!Requests = Own /\ waiter \in [Own -> S!WaiterStates]
      BY InFlightFinite, FS_CardinalityType DEF Shapes, S!Requests, Own
    <2>1. ASSUME NEW k \in Occupying
          PROVE  k \in S!InFlight \/ (read = "submit" /\ k = taken)
      <3>1. CASE enqueue[k] = "select"
        BY <2>1, <3>1 DEF Occupying, Handing
      <3>2. CASE enqueue[k] = "accepted" /\ k \notin answered
        <4>1. waiter[k] = "wait"
          BY <2>0, <2>1, <3>2 DEF Occupying, Handing, S!WaiterStates
        <4> QED
          BY <2>0, <2>1, <4>1 DEF Occupying, S!InFlight
      <3> QED
        BY <2>1, <3>1, <3>2 DEF Occupying
    <2>2. CASE read = "submit"
      <3>1. /\ IsFiniteSet(S!InFlight \cup {taken})
            /\ Cardinality(S!InFlight \cup {taken}) <= Cardinality(S!InFlight) + 1
        BY <2>0, FS_AddElement
      <3>2. Occupying \subseteq S!InFlight \cup {taken}
        BY <2>1
      <3>3. Cardinality(Occupying) <= Cardinality(S!InFlight \cup {taken})
        BY <3>1, <3>2, FS_Subset
      <3>4. /\ Cardinality(Occupying) \in Nat
            /\ Cardinality(S!InFlight \cup {taken}) \in Nat
        BY <3>1, <3>2, FS_Subset, FS_CardinalityType
      <3> QED
        BY <2>0, <2>2, <3>1, <3>3, <3>4 DEF OwnShare, Counted
    <2>3. CASE read # "submit"
      <3>1. Occupying \subseteq S!InFlight
        BY <2>1, <2>3
      <3>2. Cardinality(Occupying) <= Cardinality(S!InFlight)
        BY <2>0, <3>1, FS_Subset
      <3> QED
        BY <2>0, <2>3, <3>2 DEF OwnShare, Counted
    <2> QED
      BY <2>2, <2>3
  <1> QED
    BY <1>1, SharesInvariant, PTL
=============================================================================
