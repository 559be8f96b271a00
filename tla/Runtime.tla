------------------------------ MODULE Runtime ------------------------------
(***************************************************************************)
(* One session (module Session) on the dispatcher itself (module           *)
(* Dispatcher) as server.go wires them, next to the requests of other      *)
(* sessions.  The phases that Session reads from its abstract service are  *)
(* here computed from the state of the dispatcher, so that a full incoming *)
(* channel blocks the read loop, a stalled client meets busy workers and   *)
(* the dispatcher's Stop races the session's own end.                      *)
(***************************************************************************)
EXTENDS Naturals, Sequences, FiniteSets, Functions

CONSTANTS
  MaxRequests, MaxInFlight, ResponseCap, Events,  \* of the session
  Others,                                         \* the requests of other sessions
  Workers, QueueSize, NoRequest                   \* of the dispatcher

ASSUME RuntimeAssumption ==
  /\ MaxRequests \in Nat /\ MaxInFlight \in Nat \ {0}
  /\ Others \cap Nat = {}

VARIABLES
  \* the session
  sent, client, closed, connMu, buffered, taken, wbuf, wire, stopping, inflight,
  responses, batch, scope, read, write, waiter, main, stop, close,
  \* the dispatcher
  enqueue, incomingQueue, readyQueue, completeQueue, waitingQueue, incomingClosed,
  readyClosed, enqueueDone, stopped, dispatcherStop, scheduler, incomingOpen,
  pendingWorkers, worker, job, answered

sessionVars == <<sent, client, closed, connMu, buffered, taken, wbuf, wire, stopping, inflight,
                 responses, batch, scope, read, write, waiter, main, stop, close>>
dispatcherVars == <<enqueue, incomingQueue, readyQueue, completeQueue, waitingQueue,
                    incomingClosed, readyClosed, enqueueDone, stopped, dispatcherStop,
                    scheduler, incomingOpen, pendingWorkers, worker, job, answered>>
vars == <<sessionVars, dispatcherVars>>

Own == 1..MaxRequests

\* UseDispatcher makes a result channel of one slot for each request.
D == INSTANCE Dispatcher
       WITH Requests <- Own \cup Others, Unusable <- {}, stop <- dispatcherStop

S == INSTANCE Session
       WITH phase <- Restrict(D!ServicePhase, Own), running <- (scheduler # "off"),
            mode <- D!ServiceMode

\* The server's Start has started its dispatcher before it serves connections.
Init ==
  /\ S!SessionInit
  /\ enqueue = [r \in Own \cup Others |-> "idle"]
  /\ incomingQueue = <<>> /\ readyQueue = <<>> /\ completeQueue = <<>> /\ waitingQueue = <<>>
  /\ incomingClosed = FALSE /\ readyClosed = FALSE /\ enqueueDone = FALSE /\ stopped = FALSE
  /\ dispatcherStop = "idle"
  /\ scheduler = "select" /\ incomingOpen = TRUE /\ pendingWorkers = 0
  /\ worker = [w \in Workers |-> "receive"] /\ job = [w \in Workers |-> NoRequest]
  /\ answered = {}

-----------------------------------------------------------------------------
\* The submitter of UseDispatcher: each step of Enqueue is one of the read loop.
Submit ==
  /\ read = "submit"
  /\ \/ D!EnqueueBegin(taken)  /\ (S!SubmitCall \/ S!SubmitRefused)
     \/ D!EnqueueSend(taken)   /\ S!SubmitAccepted
     \/ D!EnqueueCancel(taken) /\ S!SubmitRefused

\* The session's other steps, which find the dispatcher as it is.
Alone(A) == UNCHANGED dispatcherVars /\ A

ReadLoop  == Submit \/ Alone(S!ReadAlone)
WriteLoop == Alone(S!WriteLoop)
Waiter(k) == Alone(S!Waiter(k))
Ending    == Alone(S!MainLoop \/ S!StopReturn \/ S!CloseCall)
Client    == Alone(S!ClientEvents \/ S!Stop \/ S!CloseNow)

OtherEnqueue(r) == D!EnqueueSend(r) \/ D!EnqueueCancel(r)
OtherSessions ==
  /\ \E r \in Others : D!EnqueueBegin(r) \/ OtherEnqueue(r)
  /\ UNCHANGED sessionVars

Scheduler == D!SchedulerLoop /\ UNCHANGED sessionVars

\* Slip: the worker writes the reply on the session's connection, under c.mu.
WorkerWrites(w) ==
  /\ worker[w] = "process" /\ job[w] \in Own => connMu = "free"
  /\ D!WorkerLoop(w) /\ UNCHANGED sessionVars

\* deliverResult only fills the request's own result channel.
Worker(w) == D!WorkerLoop(w) /\ UNCHANGED sessionVars

\* The end of the server's Start stops the dispatcher while sessions live.
DispatcherStopBegins ==
  "DispatcherStops" \in Events /\ D!StopMark /\ UNCHANGED sessionVars
DispatcherStops ==
  (D!StopSignal \/ D!StopCloseIncoming \/ D!StopReturn) /\ UNCHANGED sessionVars

Terminated == main = "done" /\ UNCHANGED vars

-----------------------------------------------------------------------------
Next ==
  \/ ReadLoop \/ WriteLoop \/ (\E k \in Own : Waiter(k)) \/ Ending \/ Client
  \/ OtherSessions \/ Scheduler \/ (\E w \in Workers : Worker(w))
  \/ DispatcherStopBegins \/ DispatcherStops
  \/ Terminated

Spec == Init /\ [][Next]_vars

\* Every goroutine that can run does run; a socket write ends unless the client
\* has stopped reading.
Fairness ==
  /\ WF_vars(ReadLoop)
  /\ WF_vars(WriteLoop /\ (write = "flush" => client # "stalled"))
  /\ \A k \in Own : WF_vars(Waiter(k))
  /\ WF_vars(Ending)
  /\ \A r \in Others : WF_vars(OtherEnqueue(r) /\ UNCHANGED sessionVars)
  /\ WF_vars(Scheduler)
  /\ \A w \in Workers : WF_vars(Worker(w))
  /\ WF_vars(DispatcherStops)

FairSpec == Spec /\ Fairness

-----------------------------------------------------------------------------
(* Properties                                                              *)

\* The session's requests that occupy the dispatcher, from the call of Enqueue
\* to the reply.
Occupying == {k \in Own : enqueue[k] \in {"select", "accepted"} /\ k \notin answered}

\* However its client pipelines, stalls or closes, what a session occupies of the
\* shared dispatcher is covered by its in-flight counter, hence by its limit.
OwnShare == Cardinality(Occupying) <= inflight /\ inflight <= MaxInFlight

\* The requests of other sessions are answered whatever this session's client
\* does, also when it has stopped reading for good.
OthersAreServed ==
  \A r \in Others : (enqueue[r] = "accepted") ~> (r \in answered)

\* With one request in flight, what the dispatcher has accepted comes back on
\* the wire, through full queues and also while the dispatcher is being stopped,
\* unless Stop or Close is called on the session or its client fails it.
AcceptedIsReplied ==
  MaxInFlight = 1 =>
    \A k \in Own : (enqueue[k] = "accepted") ~>
      (k \in S!Sent \/ stop # "idle" \/ close # "idle" \/ client # "reading")

\* Stop of the dispatcher returns although sessions go on submitting, and the
\* session that is refused ends.
StopEndsBoth ==
  /\ (dispatcherStop = "marked") ~> (dispatcherStop = "returned")
  /\ (dispatcherStop = "returned") ~> (main = "done" \/ client = "stalled" \/ stop # "idle")
=============================================================================
