----------------------------- MODULE Dispatcher -----------------------------
(***************************************************************************)
(* internal/dispatcher/dispatcher.go: callers Enqueue requests on a        *)
(* bounded incoming channel; one scheduler goroutine moves them to a       *)
(* bounded ready channel, or to an overflow list when that is full; worker *)
(* goroutines execute them, put the reply in the request's own one-slot    *)
(* result channel and report back on a bounded complete channel.  Stop     *)
(* refuses new work, drains what was accepted and waits for the goroutines.*)
(*                                                                         *)
(* A Go channel is a sequence and a closed flag: a send needs room, a      *)
(* receive needs an element, or the flag.  A mutex section is one step, as *)
(* nothing else runs inside it.                                            *)
(***************************************************************************)
EXTENDS Naturals, Sequences, FiniteSets

CONSTANTS
  Requests,    \* every *Request any caller will ever enqueue, each with its own Result channel
  Unusable,    \* those whose Result is nil, unbuffered or already occupied
  Workers,     \* the worker goroutines
  QueueSize,   \* capacity of the three channels and of the overflow list
  NoRequest    \* a worker's nil request

ASSUME DispatcherAssumption ==
  /\ Unusable \subseteq Requests
  /\ IsFiniteSet(Workers) /\ Workers # {}
  /\ QueueSize \in Nat \ {0}
  /\ NoRequest \notin Requests

VARIABLES
  enqueue,        \* [Requests -> EnqueueStates]: the Enqueue call of each request
  incomingQueue,  \* channel of accepted requests not yet seen by the scheduler
  readyQueue,     \* channel the workers receive from
  completeQueue,  \* channel of executed requests
  waitingQueue,   \* the scheduler's overflow list
  incomingClosed, \* close(d.incomingQueue) has happened
  readyClosed,    \* close(d.readyQueue) has happened
  enqueueDone,    \* close(d.enqueueDone) has happened
  stopped,        \* d.stopped
  stop,           \* program counter of the one Stop that runs inside stopOnce
  scheduler,      \* program counter of schedulerLoop
  incomingOpen,   \* the scheduler's local incomingQueue is not nil
  pendingWorkers, \* the scheduler's local counter
  worker,         \* [Workers -> WorkerStates]: program counter of each workerLoop
  job,            \* [Workers -> Requests \cup {NoRequest}]: the request it holds
  answered        \* requests whose Result channel has received the reply

queueVars     == <<incomingQueue, readyQueue, completeQueue, readyClosed>>
stopVars      == <<stop, stopped, enqueueDone, incomingClosed>>
schedulerVars == <<waitingQueue, scheduler, incomingOpen, pendingWorkers>>
workerVars    == <<worker, job, answered>>
vars == <<enqueue, queueVars, stopVars, schedulerVars, workerVars>>

EnqueueStates   == {"idle", "select", "accepted", "refused"}
StopStates      == {"idle", "marked", "signalled", "closed", "returned"}
SchedulerStates == {"off", "select", "exited"}
WorkerStates    == {"off", "receive", "process", "report", "exited"}

TypeOK ==
  /\ enqueue \in [Requests -> EnqueueStates]
  /\ incomingQueue \in Seq(Requests) /\ Len(incomingQueue) <= QueueSize
  /\ readyQueue    \in Seq(Requests) /\ Len(readyQueue)    <= QueueSize
  /\ completeQueue \in Seq(Requests) /\ Len(completeQueue) <= QueueSize
  /\ waitingQueue  \in Seq(Requests) /\ Len(waitingQueue)  <= QueueSize
  /\ incomingClosed \in BOOLEAN /\ readyClosed \in BOOLEAN /\ incomingOpen \in BOOLEAN
  /\ enqueueDone \in BOOLEAN /\ stopped \in BOOLEAN
  /\ stop \in StopStates
  /\ scheduler \in SchedulerStates
  /\ pendingWorkers \in Nat
  /\ worker \in [Workers -> WorkerStates]
  /\ job \in [Workers -> Requests \cup {NoRequest}]
  /\ answered \in SUBSET Requests

-----------------------------------------------------------------------------
\* NewDispatcher: empty queues, nothing started.
Init ==
  /\ enqueue = [r \in Requests |-> "idle"]
  /\ incomingQueue = <<>> /\ readyQueue = <<>>
  /\ completeQueue = <<>> /\ waitingQueue = <<>>
  /\ incomingClosed = FALSE /\ readyClosed = FALSE
  /\ enqueueDone = FALSE /\ stopped = FALSE
  /\ stop = "idle"
  /\ scheduler = "off" /\ incomingOpen = TRUE /\ pendingWorkers = 0
  /\ worker = [w \in Workers |-> "off"]
  /\ job = [w \in Workers |-> NoRequest]
  /\ answered = {}

\* Start, inside startOnce: one scheduler and every worker.  The owner starts a
\* dispatcher before anyone can stop it (server.go 119-120).
Start ==
  /\ scheduler = "off" /\ stop = "idle"
  /\ scheduler' = "select"
  /\ worker' = [w \in Workers |-> "receive"]
  /\ UNCHANGED <<enqueue, waitingQueue, incomingOpen, pendingWorkers, job, answered, queueVars,
                 stopVars>>

-----------------------------------------------------------------------------
(* Enqueue: the checks and the mutex section, then the select.             *)

\* An unusable result channel or a stopped dispatcher refuses at once;
\* otherwise enqueueWG counts the call in until its select is over.
EnqueueBegin(r) ==
  /\ enqueue[r] = "idle"
  /\ enqueue' = [enqueue EXCEPT ![r] =
                   IF r \in Unusable \/ stopped THEN "refused" ELSE "select"]
  /\ UNCHANGED <<queueVars, stopVars, schedulerVars, workerVars>>

\* case d.incomingQueue <- req: blocks while the channel is full.
EnqueueSend(r) ==
  /\ enqueue[r] = "select"
  /\ Len(incomingQueue) < QueueSize
  /\ incomingQueue' = Append(incomingQueue, r)
  /\ enqueue' = [enqueue EXCEPT ![r] = "accepted"]
  /\ UNCHANGED <<readyQueue, completeQueue, readyClosed, stopVars, schedulerVars, workerVars>>

\* case <-d.enqueueDone: Stop has begun; select may still prefer the send.
EnqueueCancel(r) ==
  /\ enqueue[r] = "select"
  /\ enqueueDone
  /\ enqueue' = [enqueue EXCEPT ![r] = "refused"]
  /\ UNCHANGED <<queueVars, stopVars, schedulerVars, workerVars>>

-----------------------------------------------------------------------------
(* schedulerLoop: the test at the loop head, then one case of the select.  *)

Drained == ~incomingOpen /\ pendingWorkers = 0 /\ waitingQueue = <<>>

\* Slip: one request too many in the overflow list.
AcceptingOneMore == incomingOpen /\ Len(waitingQueue) <= QueueSize

Accepting == incomingOpen /\ Len(waitingQueue) < QueueSize

SchedulerExit ==
  /\ scheduler = "select" /\ Drained
  /\ readyClosed' = TRUE
  /\ scheduler' = "exited"
  /\ UNCHANGED <<enqueue, incomingQueue, readyQueue, completeQueue, waitingQueue, incomingOpen,
                 pendingWorkers, stopVars, workerVars>>

\* A request arrives: straight to the workers when their channel has room,
\* even past older requests in the overflow list, else to the end of that list.
SchedulerAccept ==
  /\ scheduler = "select" /\ ~Drained /\ Accepting
  /\ incomingQueue # <<>>
  /\ incomingQueue' = Tail(incomingQueue)
  /\ pendingWorkers' = pendingWorkers + 1
  /\ \/ /\ Len(readyQueue) < QueueSize
        /\ readyQueue' = Append(readyQueue, Head(incomingQueue))
        /\ UNCHANGED waitingQueue
     \/ /\ Len(readyQueue) = QueueSize
        /\ waitingQueue' = Append(waitingQueue, Head(incomingQueue))
        /\ UNCHANGED readyQueue
  /\ UNCHANGED <<enqueue, completeQueue, readyClosed, scheduler, incomingOpen, stopVars,
                 workerVars>>

\* Slip: the scheduler keeps receiving from the closed channel.
SchedulerIncomingSpin ==
  /\ scheduler = "select" /\ ~Drained /\ Accepting
  /\ incomingQueue = <<>> /\ incomingClosed
  /\ UNCHANGED vars

\* The incoming channel is closed and empty: stop listening to it.
SchedulerIncomingClosed ==
  /\ scheduler = "select" /\ ~Drained /\ Accepting
  /\ incomingQueue = <<>> /\ incomingClosed
  /\ incomingOpen' = FALSE
  /\ UNCHANGED <<enqueue, waitingQueue, scheduler, pendingWorkers, queueVars, stopVars,
                 workerVars>>

\* Slip: the overflow list is only flushed at shutdown.
SchedulerForwardAtEnd ==
  /\ scheduler = "select" /\ ~Drained /\ ~incomingOpen
  /\ waitingQueue # <<>> /\ Len(readyQueue) < QueueSize
  /\ readyQueue' = Append(readyQueue, Head(waitingQueue))
  /\ waitingQueue' = Tail(waitingQueue)
  /\ UNCHANGED <<enqueue, incomingQueue, completeQueue, readyClosed, scheduler, incomingOpen,
                 pendingWorkers, stopVars, workerVars>>

\* The oldest overflow request moves on when the workers' channel has room.
SchedulerForward ==
  /\ scheduler = "select" /\ ~Drained
  /\ waitingQueue # <<>> /\ Len(readyQueue) < QueueSize
  /\ readyQueue' = Append(readyQueue, Head(waitingQueue))
  /\ waitingQueue' = Tail(waitingQueue)
  /\ UNCHANGED <<enqueue, incomingQueue, completeQueue, readyClosed, scheduler, incomingOpen,
                 pendingWorkers, stopVars, workerVars>>

\* Slip: the counter is never decremented.
SchedulerCompleteUncounted ==
  /\ scheduler = "select" /\ ~Drained
  /\ completeQueue # <<>>
  /\ completeQueue' = Tail(completeQueue)
  /\ UNCHANGED <<enqueue, incomingQueue, readyQueue, readyClosed, stopVars, schedulerVars,
                 workerVars>>

SchedulerComplete ==
  /\ scheduler = "select" /\ ~Drained
  /\ completeQueue # <<>>
  /\ completeQueue' = Tail(completeQueue)
  /\ pendingWorkers' = IF pendingWorkers > 0 THEN pendingWorkers - 1 ELSE pendingWorkers
  /\ UNCHANGED <<enqueue, incomingQueue, readyQueue, waitingQueue, readyClosed, scheduler,
                 incomingOpen, stopVars, workerVars>>

SchedulerLoop ==
  \/ SchedulerExit \/ SchedulerAccept \/ SchedulerIncomingClosed
  \/ SchedulerForward \/ SchedulerComplete

-----------------------------------------------------------------------------
(* workerLoop: receive, processRequest, report.                            *)

WorkerReceive(w) ==
  /\ worker[w] = "receive"
  /\ readyQueue # <<>>
  /\ job' = [job EXCEPT ![w] = Head(readyQueue)]
  /\ readyQueue' = Tail(readyQueue)
  /\ worker' = [worker EXCEPT ![w] = "process"]
  /\ UNCHANGED <<enqueue, incomingQueue, completeQueue, readyClosed, answered, stopVars,
                 schedulerVars>>

WorkerExit(w) ==
  /\ worker[w] = "receive"
  /\ readyQueue = <<>> /\ readyClosed
  /\ worker' = [worker EXCEPT ![w] = "exited"]
  /\ UNCHANGED <<enqueue, job, answered, queueVars, stopVars, schedulerVars>>

\* processRequest: an unknown command, a factory error and an executed command
\* all end in one deliverResult, a send on a channel of one slot.
ProcessRequest(w) ==
  /\ worker[w] = "process"
  /\ job[w] \notin answered
  /\ answered' = answered \cup {job[w]}
  /\ worker' = [worker EXCEPT ![w] = "report"]
  /\ UNCHANGED <<enqueue, job, queueVars, stopVars, schedulerVars>>

WorkerReport(w) ==
  /\ worker[w] = "report"
  /\ Len(completeQueue) < QueueSize
  /\ completeQueue' = Append(completeQueue, job[w])
  /\ worker' = [worker EXCEPT ![w] = "receive"]
  /\ job' = [job EXCEPT ![w] = NoRequest]
  /\ UNCHANGED <<enqueue, incomingQueue, readyQueue, readyClosed, answered, stopVars,
                 schedulerVars>>

WorkerLoop(w) ==
  WorkerReceive(w) \/ WorkerExit(w) \/ ProcessRequest(w) \/ WorkerReport(w)

-----------------------------------------------------------------------------
(* Stop, inside stopOnce: other callers of Stop wait for this one.         *)

StopMark ==
  /\ stop = "idle"
  /\ stop' = "marked" /\ stopped' = TRUE
  /\ UNCHANGED <<enqueue, incomingClosed, enqueueDone, queueVars, schedulerVars, workerVars>>

StopSignal ==
  /\ stop = "marked"
  /\ stop' = "signalled" /\ enqueueDone' = TRUE
  /\ UNCHANGED <<enqueue, incomingClosed, stopped, queueVars, schedulerVars, workerVars>>

\* Slip: no wait for the callers inside Enqueue.
StopCloseIncomingAtOnce ==
  /\ stop = "signalled"
  /\ stop' = "closed" /\ incomingClosed' = TRUE
  /\ UNCHANGED <<enqueue, stopped, enqueueDone, queueVars, schedulerVars, workerVars>>

\* enqueueWG.Wait, then close(incomingQueue).
StopCloseIncoming ==
  /\ stop = "signalled"
  /\ \A r \in Requests : enqueue[r] # "select"
  /\ stop' = "closed" /\ incomingClosed' = TRUE
  /\ UNCHANGED <<enqueue, stopped, enqueueDone, queueVars, schedulerVars, workerVars>>

\* Slip: no wg.Wait.
StopReturnAtOnce ==
  /\ stop = "closed"
  /\ stop' = "returned"
  /\ UNCHANGED <<enqueue, stopped, enqueueDone, incomingClosed, queueVars, schedulerVars,
                 workerVars>>

\* wg.Wait: every goroutine Start launched has exited.
StopReturn ==
  /\ stop = "closed"
  /\ scheduler # "select"
  /\ \A w \in Workers : worker[w] \in {"off", "exited"}
  /\ stop' = "returned"
  /\ UNCHANGED <<enqueue, stopped, enqueueDone, incomingClosed, queueVars, schedulerVars,
                 workerVars>>

\* Nothing is left to do once Stop has returned and every request was submitted.
Terminated ==
  /\ stop = "returned" /\ \A r \in Requests : enqueue[r] # "idle"
  /\ UNCHANGED vars

-----------------------------------------------------------------------------
Next ==
  \/ Start
  \/ \E r \in Requests : EnqueueBegin(r) \/ EnqueueSend(r) \/ EnqueueCancel(r)
  \/ SchedulerLoop
  \/ \E w \in Workers : WorkerLoop(w)
  \/ StopMark \/ StopSignal \/ StopCloseIncoming \/ StopReturn
  \/ Terminated

\* Every goroutine that can run does run; nobody is obliged to start the
\* dispatcher, to enqueue or to call Stop.
Fairness ==
  /\ WF_vars(SchedulerLoop)
  /\ \A w \in Workers : WF_vars(WorkerLoop(w))
  /\ \A r \in Requests : WF_vars(EnqueueSend(r) \/ EnqueueCancel(r))
  /\ WF_vars(StopSignal \/ StopCloseIncoming \/ StopReturn)

Spec == Init /\ [][Next]_vars

FairSpec == Spec /\ Fairness

-----------------------------------------------------------------------------
(* Properties                                                              *)

Busy == {w \in Workers : worker[w] \in {"process", "report"}}

\* No goroutine can ever send on a closed channel, which would panic the
\* process: Stop closes incomingQueue only after the last Enqueue left its
\* select, and the scheduler closes readyQueue only when it will not send again.
NoSendOnClosedChannel ==
  /\ incomingClosed => \A r \in Requests : enqueue[r] # "select"
  /\ readyClosed => waitingQueue = <<>> /\ incomingQueue = <<>> /\ scheduler = "exited"

\* The scheduler's private counter is exactly the work it has handed out and
\* not heard back of, wherever that work is: it decides when to close
\* readyQueue, so one lost or doubled count hangs Stop or strands requests.
PendingAccountsForWork ==
  pendingWorkers = Len(waitingQueue) + Len(readyQueue) + Len(completeQueue)
                   + Cardinality(Busy)

\* "Stop stops the scheduler and workers after draining accepted work": when
\* Stop has returned on a started dispatcher, every request whose Enqueue
\* reported success has its reply, including those accepted after Stop began.
StopDrainsAcceptedWork ==
  stop = "returned" /\ scheduler # "off" =>
    \A r \in Requests : enqueue[r] = "accepted" => r \in answered

\* A request is in one place only, so it is executed once and no worker blocks
\* for ever on a result slot that is already full.
ExecutedAtMostOnce ==
  \A w \in Workers : worker[w] = "process" =>
    /\ job[w] \notin answered
    /\ \A v \in Workers \ {w} : worker[v] = "process" => job[v] # job[w]

\* Once the dispatcher is started, an Enqueue blocked on a full queue gets through
\* or is told that the dispatcher stopped, and every accepted request is answered,
\* through full channels, the overflow list and a concurrent Stop.
AcceptedIsAnswered ==
  \A r \in Requests :
    /\ (enqueue[r] = "select" /\ scheduler # "off") ~> (enqueue[r] \in {"accepted", "refused"})
    /\ (enqueue[r] = "accepted" /\ scheduler # "off") ~> (r \in answered)

\* Stop returns: the scheduler, the workers, blocked Enqueue callers and Stop
\* itself never wait for each other in a circle.
StopReturns == (stop = "marked") ~> (stop = "returned")

-----------------------------------------------------------------------------
(* Refinement of RequestService                                            *)

ServicePhase ==
  [r \in Requests |->
     CASE r \in answered             -> "answered"
       [] r \notin answered /\ enqueue[r] = "select" -> "calling"
       [] r \notin answered /\ enqueue[r] # "select" -> enqueue[r]]

ServiceMode ==
  CASE stop = "idle"     -> "open"
    [] stop = "returned" -> "stopped"
    [] stop \notin {"idle", "returned"} -> "stopping"

Service == INSTANCE RequestService
             WITH phase <- ServicePhase, running <- (scheduler # "off"), mode <- ServiceMode

\* The dispatcher, with its three channels, overflow list, scheduler and
\* workers, does only what the abstract request service allows.
ImplementsService == Service!SSpec
=============================================================================
