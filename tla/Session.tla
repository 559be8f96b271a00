------------------------------- MODULE Session -------------------------------
(***************************************************************************)
(* internal/session/session.go on an internal/conn/conn.go connection, as  *)
(* server.go wires them: one client session with its readLoop, writeLoop,  *)
(* one result-waiting goroutine per accepted request, the goroutine of     *)
(* StartLoops that cleans up, and callers of Stop and of Close.  They      *)
(* share c.mu (connMu), the s.mu that CloseNow holds while it waits for    *)
(* c.mu, an in-flight counter and a bounded response channel.              *)
(*                                                                         *)
(* The dispatcher behind UseDispatcher is the abstract RequestService that *)
(* module Dispatcher implements.  Requests are numbered as the client      *)
(* sends them; reply k answers request k and carries its memory scope.     *)
(***************************************************************************)
EXTENDS Naturals, Sequences, FiniteSets

CONSTANTS
  MaxRequests,  \* bound: how many requests the client sends
  MaxInFlight,  \* MaxInFlightPerSession
  ResponseCap,  \* defaultResponseQueueSize
  Events        \* which of EventNames may happen, each at most once

EventNames == {"Stop", "Close", "ClientCloses", "ClientStalls", "DispatcherStops"}

ASSUME SessionAssumption ==
  /\ MaxRequests \in Nat
  /\ MaxInFlight \in Nat \ {0}
  /\ ResponseCap \in Nat \ {0}
  /\ Events \subseteq EventNames

VARIABLES
  sent,      \* requests the client has put on the connection
  client,    \* "reading", "stalled" (sends but does not read) or "gone"
  closed,    \* s.closed: the session has closed its connection
  connMu,    \* c.mu: "free", or held by "reader" or "writer" across a blocking call
  buffered,  \* requests that have reached the protocol reader's buffer
  taken,     \* requests parsed out of it
  wbuf,      \* replies in the protocol writer's buffer
  wire,      \* replies the client has been sent
  stopping,  \* stopFlag is set and stopCh closed
  inflight,  \* the in-flight counter
  responses, \* the response channel
  batch,     \* writeLoop's local batch
  scope,     \* [Scopes -> ScopeStates]: the memory scope of each request
  read,      \* program counter of readLoop
  write,     \* program counter of writeLoop
  waiter,    \* [Requests -> WaiterStates]: the goroutine UseDispatcher starts
  main,      \* program counter of the goroutine of StartLoops
  stop,      \* program counter of the caller of Stop
  close,     \* program counter of the caller of CloseNow
  phase,     \* RequestService: what became of each submitted request
  running,   \* RequestService: the dispatcher has been started
  mode       \* RequestService: whether the dispatcher is stopping

clientVars  == <<sent, client>>
connVars    == <<closed, connMu, buffered, taken, wbuf, wire>>
callerVars  == <<main, stop, close>>
serviceVars == <<phase, running, mode>>
vars == <<clientVars, connVars, callerVars, serviceVars, stopping, inflight,
          responses, batch, scope, read, write, waiter>>

Requests == 1..MaxRequests
Scopes   == 1..(MaxRequests + 1)  \* readLoop opens one before it knows of a request

ScopeStates  == {"none", "open", "released", "releasedTwice"}
ReadStates   == {"gate", "arm", "lock", "read", "count", "submit", "leave", "exited"}
WriteStates  == {"take", "write", "more", "lock", "flush", "flushed", "exited"}
WaiterStates == {"none", "wait", "check", "select", "decrement", "exited"}
MainStates   == {"running", "closed", "removed", "done"}

Service == INSTANCE RequestService

TypeOK ==
  /\ sent \in 0..MaxRequests /\ client \in {"reading", "stalled", "gone"}
  /\ closed \in BOOLEAN /\ stopping \in BOOLEAN
  /\ connMu \in {"free", "reader", "writer"}
  /\ taken \in 0..MaxRequests /\ buffered \in taken..sent
  /\ wbuf \in Seq(Requests) /\ wire \in Seq(Requests) /\ batch \in Seq(Requests)
  /\ responses \in Seq(Requests) /\ Len(responses) <= ResponseCap
  /\ inflight \in 0..MaxInFlight
  /\ scope \in [Scopes -> ScopeStates]
  /\ read \in ReadStates /\ write \in WriteStates
  /\ waiter \in [Requests -> WaiterStates]
  /\ main \in MainStates
  /\ stop \in {"idle", "wait", "returned"}
  /\ close \in {"idle", "lock", "closing", "wait", "returned"}
  /\ Service!STypeOK

-----------------------------------------------------------------------------
\* serveDefaultRuntime has stored the session and called StartLoops.
SessionInit ==
  /\ sent = 0 /\ client = "reading"
  /\ closed = FALSE /\ connMu = "free"
  /\ buffered = 0 /\ taken = 0 /\ wbuf = <<>> /\ wire = <<>>
  /\ stopping = FALSE /\ inflight = 0 /\ responses = <<>> /\ batch = <<>>
  /\ scope = [s \in Scopes |-> "none"]
  /\ read = "gate" /\ write = "take"
  /\ waiter = [k \in Requests |-> "none"]
  /\ main = "running" /\ stop = "idle" /\ close = "idle"

\* The dispatcher was started before the listener served.
Init ==
  /\ SessionInit
  /\ phase = [k \in Requests |-> "idle"] /\ running = TRUE /\ mode = "open"

\* s.mu is held across a blocking call only by CloseNow.
SessionMuFree == close # "closing"

\* releaseScope on each member of a set of scopes.
Release(S) ==
  scope' = [s \in Scopes |->
              IF s \notin S THEN scope[s]
              ELSE IF scope[s] = "open" THEN "released" ELSE "releasedTwice"]

-----------------------------------------------------------------------------
(* The client and the network.                                             *)

ClientSends ==
  /\ client # "gone" /\ sent < MaxRequests
  /\ sent' = sent + 1
  /\ UNCHANGED <<client, connVars, callerVars, serviceVars, stopping, inflight,
                 responses, batch, scope, read, write, waiter>>

ClientChanges(event, from, to) ==
  /\ event \in Events /\ client \in from
  /\ client' = to
  /\ UNCHANGED <<sent, connVars, callerVars, serviceVars, stopping, inflight,
                 responses, batch, scope, read, write, waiter>>

ClientEvents ==
  \/ ClientSends
  \/ ClientChanges("ClientCloses", {"reading", "stalled"}, "gone")
  \/ ClientChanges("ClientStalls", {"reading"}, "stalled")

\* The dispatcher answers, and the server may stop it at any time.
dispatcherUnchanged == <<clientVars, connVars, callerVars, stopping, inflight,
                         responses, batch, scope, read, write, waiter>>

DispatcherAnswers(k) ==
  Service!Answer(k) /\ UNCHANGED dispatcherUnchanged

DispatcherStops ==
  /\ "DispatcherStops" \in Events
  /\ Service!BeginStop \/ Service!EndStop
  /\ UNCHANGED dispatcherUnchanged

DispatcherEvents == (\E k \in Requests : DispatcherAnswers(k)) \/ DispatcherStops

-----------------------------------------------------------------------------
(* readLoop                                                                *)

readUnchanged == <<clientVars, callerVars, responses, batch, write, wbuf, wire, closed>>

\* ShouldStop and waitForInflightSlot, which polls until there is a slot.
GateStop ==
  /\ read = "gate" /\ stopping
  /\ read' = "leave"
  /\ UNCHANGED <<readUnchanged, serviceVars, stopping, inflight, scope, waiter,
                 connMu, buffered, taken>>

GatePoll ==
  /\ read = "gate" /\ ~stopping /\ inflight >= MaxInFlight
  /\ UNCHANGED vars

\* Slip: one request more than the limit.
GatePassOneMore ==
  /\ read = "gate" /\ ~stopping
  /\ inflight <= MaxInFlight
  /\ scope' = [scope EXCEPT ![taken + 1] = "open"]
  /\ read' = "arm"
  /\ UNCHANGED <<readUnchanged, serviceVars, stopping, inflight, waiter,
                 connMu, buffered, taken>>

\* Slip: the in-flight counter is not looked at.
GatePassUncounted ==
  /\ read = "gate" /\ ~stopping
  /\ scope' = [scope EXCEPT ![taken + 1] = "open"]
  /\ read' = "arm"
  /\ UNCHANGED <<readUnchanged, serviceVars, stopping, inflight, waiter,
                 connMu, buffered, taken>>

GatePass ==
  /\ read = "gate" /\ ~stopping
  /\ inflight < MaxInFlight
  /\ scope' = [scope EXCEPT ![taken + 1] = "open"]
  /\ read' = "arm"
  /\ UNCHANGED <<readUnchanged, serviceVars, stopping, inflight, waiter,
                 connMu, buffered, taken>>

\* SetReadDeadline, which fails on a closed connection.
ReadArm ==
  /\ read = "arm"
  /\ IF closed THEN Release({taken + 1}) /\ read' = "leave"
               ELSE UNCHANGED scope /\ read' = "lock"
  /\ UNCHANGED <<readUnchanged, serviceVars, stopping, inflight, waiter,
                 connMu, buffered, taken>>

\* Conn.Read holds c.mu for as long as it waits for a whole request.
ReadLock ==
  /\ read = "lock" /\ connMu = "free"
  /\ connMu' = "reader" /\ read' = "read"
  /\ UNCHANGED <<readUnchanged, serviceVars, stopping, inflight, scope, waiter,
                 buffered, taken>>

\* One read of the socket may bring in several pipelined requests.
ReadFill ==
  /\ read = "read" /\ buffered = taken /\ ~closed
  /\ \E n \in (taken + 1)..sent : buffered' = n
  /\ UNCHANGED <<readUnchanged, serviceVars, stopping, inflight, scope, waiter,
                 connMu, taken, read>>

ReadParse ==
  /\ read = "read" /\ buffered > taken
  /\ taken' = taken + 1
  /\ connMu' = "free" /\ read' = "count"
  /\ UNCHANGED <<readUnchanged, serviceVars, stopping, inflight, scope, waiter, buffered>>

\* Deadline (there always is one), EOF, reset, or closed connection: all end
\* the loop.
ReadFail ==
  /\ read = "read" /\ buffered = taken
  /\ Release({taken + 1})
  /\ connMu' = "free" /\ read' = "leave"
  /\ UNCHANGED <<readUnchanged, serviceVars, stopping, inflight, waiter, buffered, taken>>

\* The statistics under s.mu, then inflight.Add(1).
ReadCount ==
  /\ read = "count" /\ SessionMuFree
  /\ inflight' = inflight + 1
  /\ read' = "submit"
  /\ UNCHANGED <<readUnchanged, serviceVars, stopping, scope, waiter, connMu, buffered, taken>>

\* Enqueue is entered, and then takes or refuses the request.
SubmitCall ==
  /\ read = "submit" /\ Service!Call(taken)
  /\ UNCHANGED <<readUnchanged, stopping, inflight, scope, waiter, connMu, buffered, taken, read>>

SubmitAccepted ==
  /\ read = "submit" /\ Service!Accept(taken)
  /\ waiter' = [waiter EXCEPT ![taken] = "wait"]
  /\ read' = "gate"
  /\ UNCHANGED <<readUnchanged, stopping, inflight, scope, connMu, buffered, taken>>

\* Slip: the counter is not taken back.
SubmitRefusedUncounted ==
  /\ read = "submit" /\ mode # "open" /\ Service!Refuse(taken)
  /\ Release({taken})
  /\ read' = "leave"
  /\ UNCHANGED <<readUnchanged, stopping, inflight, waiter, connMu, buffered, taken>>

SubmitRefused ==
  /\ read = "submit" /\ mode # "open" /\ Service!Refuse(taken)
  /\ inflight' = inflight - 1
  /\ Release({taken})
  /\ read' = "leave"
  /\ UNCHANGED <<readUnchanged, stopping, waiter, connMu, buffered, taken>>

\* The reading goroutine stops the session when readLoop returns.
ReadLeave ==
  /\ read = "leave"
  /\ stopping' = TRUE
  /\ read' = "exited"
  /\ UNCHANGED <<readUnchanged, serviceVars, inflight, scope, waiter, connMu, buffered, taken>>

Submit == SubmitCall \/ SubmitAccepted \/ SubmitRefused

ReadAlone ==
  \/ GateStop \/ GatePoll \/ GatePass \/ ReadArm \/ ReadLock \/ ReadFill \/ ReadParse \/ ReadFail
  \/ ReadCount \/ ReadLeave

ReadLoop == ReadAlone \/ Submit

-----------------------------------------------------------------------------
(* The goroutine that waits for the result of request k.                   *)

waiterUnchanged == <<clientVars, connVars, callerVars, serviceVars, stopping,
                     batch, scope, read, write>>

WaiterStep(k, from, to) ==
  /\ waiter[k] = from
  /\ waiter' = [waiter EXCEPT ![k] = to]

WaiterResult(k) ==
  /\ phase[k] = "answered"
  /\ WaiterStep(k, "wait", "check")
  /\ UNCHANGED <<waiterUnchanged, inflight, responses>>

\* HandleResponse: the ShouldStop test, ...
HandleResponseCheck(k) ==
  /\ WaiterStep(k, "check", IF stopping THEN "decrement" ELSE "select")
  /\ UNCHANGED <<waiterUnchanged, inflight, responses>>

\* Slip: an unbounded queue.
HandleResponseSendUnbounded(k) ==
  /\ WaiterStep(k, "select", "decrement")
  /\ responses' = Append(responses, k)
  /\ UNCHANGED <<waiterUnchanged, inflight>>

\* ... then the send, or stopCh, on which the reply and its scope are dropped.
HandleResponseSend(k) ==
  /\ Len(responses) < ResponseCap
  /\ WaiterStep(k, "select", "decrement")
  /\ responses' = Append(responses, k)
  /\ UNCHANGED <<waiterUnchanged, inflight>>

HandleResponseStopped(k) ==
  /\ stopping
  /\ WaiterStep(k, "select", "decrement")
  /\ UNCHANGED <<waiterUnchanged, inflight, responses>>

DecrementInflight(k) ==
  /\ WaiterStep(k, "decrement", "exited")
  /\ inflight' = IF inflight > 0 THEN inflight - 1 ELSE inflight
  /\ UNCHANGED <<waiterUnchanged, responses>>

Waiter(k) ==
  \/ WaiterResult(k) \/ HandleResponseCheck(k) \/ HandleResponseSend(k)
  \/ HandleResponseStopped(k) \/ DecrementInflight(k)

-----------------------------------------------------------------------------
(* writeLoop                                                               *)

writeUnchanged == <<clientVars, callerVars, serviceVars, stopping, inflight, read,
                    waiter, closed, buffered, taken>>

\* The first response of a batch, preferred to stopCh as long as there is one.
TakeFirst ==
  /\ write = "take" /\ responses # <<>>
  /\ batch' = <<Head(responses)>> /\ responses' = Tail(responses)
  /\ write' = "write"
  /\ UNCHANGED <<writeUnchanged, scope, connMu, wbuf, wire>>

\* Slip: queued responses are forgotten.
TakeStopAtOnce ==
  /\ write = "take" /\ stopping
  /\ write' = "exited"
  /\ UNCHANGED <<writeUnchanged, scope, connMu, wbuf, wire, batch, responses>>

TakeStop ==
  /\ write = "take" /\ responses = <<>> /\ stopping
  /\ write' = "exited"
  /\ UNCHANGED <<writeUnchanged, scope, connMu, wbuf, wire, batch, responses>>

\* Conn.Write encodes into the buffer under c.mu and cannot fail.
WriteReply ==
  /\ write = "write" /\ connMu = "free"
  /\ wbuf' = Append(wbuf, batch[Len(batch)])
  /\ write' = "more"
  /\ UNCHANGED <<writeUnchanged, scope, connMu, wire, batch, responses>>

TakeMore ==
  /\ write = "more"
  /\ IF responses # <<>>
       THEN /\ batch' = Append(batch, Head(responses)) /\ responses' = Tail(responses)
            /\ write' = "write"
       ELSE UNCHANGED <<batch, responses>> /\ write' = "lock"
  /\ UNCHANGED <<writeUnchanged, scope, connMu, wbuf, wire>>

\* Slip: the scopes are released once the batch is encoded.
FlushLockReleases ==
  /\ write = "lock" /\ connMu = "free"
  /\ connMu' = "writer" /\ write' = "flush"
  /\ Release({batch[i] : i \in DOMAIN batch})
  /\ UNCHANGED <<writeUnchanged, wbuf, wire, batch, responses>>

\* Conn.Flush holds c.mu for as long as the socket takes to accept the bytes.
FlushLock ==
  /\ write = "lock" /\ connMu = "free"
  /\ connMu' = "writer" /\ write' = "flush"
  /\ UNCHANGED <<writeUnchanged, scope, wbuf, wire, batch, responses>>

\* Slip: the encoder's buffer is not reset.
FlushOkKeepsBuffer ==
  /\ write = "flush" /\ ~closed
  /\ wire' = IF client = "gone" THEN wire ELSE wire \o wbuf
  /\ connMu' = "free"
  /\ write' = "flushed"
  /\ UNCHANGED <<writeUnchanged, scope, wbuf, batch, responses>>

\* What is written to a client that has gone is lost, with or without an error.
FlushOk ==
  /\ write = "flush" /\ ~closed
  /\ wire' = IF client = "gone" THEN wire ELSE wire \o wbuf
  /\ wbuf' = <<>> /\ connMu' = "free"
  /\ write' = "flushed"
  /\ UNCHANGED <<writeUnchanged, scope, batch, responses>>

\* A failed flush ends writeLoop, and nothing else.
FlushFail ==
  /\ write = "flush" /\ (closed \/ client = "gone")
  /\ wbuf' = <<>> /\ connMu' = "free"
  /\ Release({batch[i] : i \in DOMAIN batch})
  /\ write' = "exited"
  /\ UNCHANGED <<writeUnchanged, wire, batch, responses>>

\* AddBytesWritten under s.mu, then releaseBatch.
ReleaseBatch ==
  /\ write = "flushed" /\ SessionMuFree
  /\ Release({batch[i] : i \in DOMAIN batch})
  /\ batch' = <<>>
  /\ write' = "take"
  /\ UNCHANGED <<writeUnchanged, connMu, wbuf, wire, responses>>

WriteLoop ==
  \/ TakeFirst \/ TakeStop \/ WriteReply \/ TakeMore \/ FlushLock \/ FlushOk \/ FlushFail
  \/ ReleaseBatch

-----------------------------------------------------------------------------
(* StartLoops' own goroutine, and the callers of Stop and CloseNow.        *)

callerUnchanged == <<clientVars, serviceVars, connMu, buffered, taken, wbuf, wire, inflight,
                     responses, batch, scope, read, write, waiter>>

\* wg.Wait, then the deferred closeConn.
CloseConn ==
  /\ main = "running" /\ read = "exited" /\ write = "exited"
  /\ SessionMuFree /\ connMu = "free"
  /\ closed' = TRUE
  /\ main' = "closed"
  /\ UNCHANGED <<callerUnchanged, stopping, stop, close>>

\* The onRemove callback deletes the session from the server's map.
OnRemove ==
  /\ main = "closed" /\ SessionMuFree
  /\ main' = "removed"
  /\ UNCHANGED <<callerUnchanged, stopping, closed, stop, close>>

Done ==
  /\ main = "removed"
  /\ main' = "done"
  /\ UNCHANGED <<callerUnchanged, stopping, closed, stop, close>>

Stop ==
  /\ "Stop" \in Events /\ stop = "idle"
  /\ stopping' = TRUE
  /\ stop' = "wait"
  /\ UNCHANGED <<callerUnchanged, closed, main, close>>

StopReturn ==
  /\ stop = "wait" /\ main = "done"
  /\ stop' = "returned"
  /\ UNCHANGED <<callerUnchanged, stopping, closed, main, close>>

CloseNow ==
  /\ "Close" \in Events /\ close = "idle"
  /\ stopping' = TRUE
  /\ close' = "lock"
  /\ UNCHANGED <<callerUnchanged, closed, main, stop>>

CloseNowLock ==
  /\ close = "lock"
  /\ close' = IF closed THEN "wait" ELSE "closing"
  /\ UNCHANGED <<callerUnchanged, stopping, closed, main, stop>>

\* Slip: s.mu is unlocked by a defer, after the wait for done.
CloseNowKeepsMu ==
  /\ close = "closing" /\ connMu = "free"
  /\ closed' = TRUE
  /\ close' = IF main = "done" THEN "wait" ELSE "closing"
  /\ UNCHANGED <<callerUnchanged, stopping, main, stop>>

\* closer.Close() is Conn.Close, which needs c.mu.
CloseNowClose ==
  /\ close = "closing" /\ connMu = "free"
  /\ closed' = TRUE
  /\ close' = "wait"
  /\ UNCHANGED <<callerUnchanged, stopping, main, stop>>

CloseNowReturn ==
  /\ close = "wait" /\ main = "done"
  /\ close' = "returned"
  /\ UNCHANGED <<callerUnchanged, stopping, closed, main, stop>>

MainLoop  == CloseConn \/ OnRemove \/ Done
CloseCall == CloseNowLock \/ CloseNowClose \/ CloseNowReturn

Terminated == main = "done" /\ UNCHANGED vars

-----------------------------------------------------------------------------
Next ==
  \/ ClientEvents \/ DispatcherEvents
  \/ ReadLoop \/ WriteLoop \/ (\E k \in Requests : Waiter(k))
  \/ MainLoop \/ Stop \/ StopReturn \/ CloseNow \/ CloseCall
  \/ Terminated

Spec == Init /\ [][Next]_vars

\* Goroutines run, accepted requests are executed, and a socket write ends
\* unless the client has stopped reading.
Fairness ==
  /\ WF_vars(ReadLoop)
  /\ WF_vars(WriteLoop /\ (write = "flush" => client # "stalled"))
  /\ \A k \in Requests : WF_vars(Waiter(k))
  /\ \A k \in Requests : WF_vars(DispatcherAnswers(k))
  /\ WF_vars(MainLoop) /\ WF_vars(StopReturn) /\ WF_vars(CloseCall)

FairSpec == Spec /\ Fairness

-----------------------------------------------------------------------------
(* Properties                                                              *)

InFlight == {k \in Requests : waiter[k] \in {"wait", "check", "select", "decrement"}}

\* The replies whose bytes the session still has to send.
Unsent ==
  {k \in Requests :
     \/ k \in InFlight /\ waiter[k] # "decrement"
     \/ \E i \in DOMAIN responses : responses[i] = k
     \/ \E i \in DOMAIN batch : batch[i] = k /\ write \in {"write", "more", "lock", "flush"}}

Sent == {wire[i] : i \in DOMAIN wire}

\* The atomic counter is the number of requests between readLoop's Add and the
\* waiter's decrement, so the limit holds and the floor at zero is never used.
InflightExact ==
  /\ inflight = Cardinality(InFlight) + (IF read = "submit" THEN 1 ELSE 0)
  /\ inflight <= MaxInFlight

\* A request's memory scope outlives every use of it, up to the flush of its
\* reply, and no two of the paths that release it are ever taken.
ScopeOutlivesReply ==
  /\ \A s \in Scopes : scope[s] # "releasedTwice"
  /\ \A k \in Unsent : scope[k] = "open"
  /\ read \in {"count", "submit"} => scope[taken] = "open"

\* With one request in flight, a session that ends by itself (a read failed or
\* the dispatcher refused) has sent every reply and released every scope.
OwnEndLosesNothing ==
  main = "done" /\ MaxInFlight = 1 /\ stop = "idle" /\ close = "idle" /\ client # "gone"
    => /\ \A k \in Requests : phase[k] \in {"accepted", "answered"} => k \in Sent
       /\ \A s \in Scopes : scope[s] # "open"

\* Whoever calls Stop or Close gets control back, and the session is removed
\* and done whenever it is told to stop, provided its client keeps reading.
StoppedSessionEnds ==
  /\ stopping ~> (main = "done")
  /\ (stop = "wait") ~> (stop = "returned")
  /\ (close = "lock") ~> (close = "returned")

\* With one request in flight, every reply the dispatcher gives is sent, even
\* when the session is ending by itself, unless Stop or Close was called or the
\* client has gone: the two loops, which share c.mu, do not starve each other.
AnswersAreSent ==
  MaxInFlight = 1 =>
    \A k \in Requests : (phase[k] = "answered") ~>
      (k \in Sent \/ stop # "idle" \/ close # "idle" \/ client = "gone")

-----------------------------------------------------------------------------
(* Refinement of Conversation                                              *)

Talk == INSTANCE Conversation
          WITH MaxAsked <- MaxRequests, InOrder <- (MaxInFlight = 1), asked <- sent,
               executed <- {k \in Requests : phase[k] = "answered"},
               replied <- wire, over <- closed

\* The two loops, the waiters, the batches and the buffers, whatever is stopped,
\* closed or fails, do only what the abstract conversation allows.  With the
\* default of one request in flight that is a conversation in order: reply i of
\* the client's connection answers request i.
ImplementsConversation == Talk!CSpec

-----------------------------------------------------------------------------
(* What the design documents say and the code does not do                  *)

\* Stop keeps the processing and the writing back of the requests that were
\* already submitted.
GracefulStopDrains ==
  stop = "returned" /\ close = "idle" /\ mode = "open" =>
    \A k \in Requests : phase[k] \in {"accepted", "answered"} => k \in Sent

\* The scope of an unfinished request is still released on the way out.
ScopesReleasedAtEnd ==
  main = "done" /\ InFlight = {} => \A s \in Scopes : scope[s] # "open"

\* Close closes the connection and waits for the runtime to end.
ForcedCloseReturns == (close = "lock") ~> (close = "returned")

\* A failed flush ends the session.
FlushFailureEndsSession == (write = "exited") ~> (main = "done")

\* Reading and writing are decoupled: no reply waits for the client's next bytes.
ReadingDoesNotBlockWriting ==
  ~(write \in {"write", "lock"} /\ read = "read" /\ buffered = taken)

\* A request counts as in flight until its reply is flushed, so no more than
\* MaxInFlight requests of a client are in the server at any time.
InFlightUntilFlushed == Cardinality(Unsent) <= MaxInFlight

\* Replies come back in the order of the requests, however many are in flight.
PipelinedRepliesInOrder == \A i \in DOMAIN wire : wire[i] = i
=============================================================================
