------------------------------- MODULE Server -------------------------------
(***************************************************************************)
(* server.go: calls of Start, each with its own listener, dispatcher and   *)
(* serveDone channel held in local variables and in the fields of Server;  *)
(* the accept loop; the map of sessions; and callers of Stop and Close,    *)
(* which both run shutdown.  A session is seen from outside: it is told to *)
(* stop, or ends by itself, leaves the map and closes its done channel     *)
(* (module Session); dispatcher.Stop drains and returns (module            *)
(* Dispatcher).  A section under s.mu is one step.                         *)
(***************************************************************************)
EXTENDS FiniteSets

CONSTANTS
  Starts,   \* calls of Start
  Stops,    \* calls of Stop or Close: shutdown(force)
  Clients,  \* clients, each connecting at most once
  Stallers, \* those that may stop reading what they are sent
  Nil

ASSUME ServerAssumption == Nil \notin Starts \cup Clients /\ Stallers \subseteq Clients

VARIABLES
  started, listener, serveDone, dispatcher,  \* the fields guarded by s.mu, named by their Start
  done,         \* the atomic s.done
  sessions,     \* the keys of s.sessions
  open,         \* Starts whose listener is open
  dispatchers,  \* Starts whose dispatcher runs
  served,       \* Starts whose serveDone is closed
  start,        \* [Starts -> StartStates]
  unended,      \* history: [Starts -> SUBSET Starts] that had not ended when each began
  accepted,     \* [Starts -> Clients \cup {Nil}]: the connection in the accept loop's hands
  session,      \* [Clients -> SessionStates]
  server,       \* [Clients -> Starts \cup {Nil}]: whose listener the client reached
  bound,        \* [Clients -> Starts \cup {Nil}]: whose dispatcher its session submits to
  told,         \* clients whose session was told to stop
  stalled,      \* clients that have stopped reading
  stop,         \* [Stops -> StopStates]
  capturedListener, capturedDone,  \* [Stops -> Starts \cup {Nil}]: shutdown's locals
  present,      \* [Stops -> SUBSET Clients]: the map when Range began
  visited,      \* [Stops -> SUBSET Clients]: what Range has called back for
  current,      \* [Stops -> Clients \cup {Nil}]: the session whose end is awaited
  servingAtCall \* history: [Stops -> SUBSET Starts] in the accept loop when the call was made

fieldVars  == <<started, listener, serveDone, dispatcher>>
startVars  == <<start, unended, accepted, open, dispatchers, served>>
clientVars == <<session, server, bound, told, stalled, sessions>>
stopVars   == <<stop, capturedListener, capturedDone, present, visited, current, servingAtCall>>
vars == <<fieldVars, done, startVars, clientVars, stopVars>>

StartStates   == {"idle", "refused", "failed", "accept", "check", "wire", "store", "launch",
                  "drain", "finish", "close", "returned"}
SessionStates == {"away", "pending", "accepted", "rejected", "stored", "running", "removed", "done"}
StopStates    == {"idle", "flag", "listener", "range", "visit", "session", "serve", "returned"}

TypeOK ==
  /\ started \in BOOLEAN /\ done \in BOOLEAN
  /\ {listener, serveDone, dispatcher} \subseteq Starts \cup {Nil}
  /\ open \subseteq Starts /\ dispatchers \subseteq Starts /\ served \subseteq Starts
  /\ sessions = {c \in Clients : session[c] \in {"stored", "running"}}
  /\ told \subseteq Clients /\ stalled \subseteq Clients
  /\ start \in [Starts -> StartStates] /\ unended \in [Starts -> SUBSET Starts]
  /\ accepted \in [Starts -> Clients \cup {Nil}]
  /\ session \in [Clients -> SessionStates]
  /\ {server, bound} \subseteq [Clients -> Starts \cup {Nil}]
  /\ stop \in [Stops -> StopStates]
  /\ capturedListener \in [Stops -> Starts \cup {Nil}]
  /\ capturedDone \in [Stops -> Starts \cup {Nil}]
  /\ present \in [Stops -> SUBSET Clients] /\ visited \in [Stops -> SUBSET Clients]
  /\ current \in [Stops -> Clients \cup {Nil}]
  /\ servingAtCall \in [Stops -> SUBSET Starts]

Serving(i) == start[i] \in {"accept", "check", "wire", "store", "launch"}

\* Start has published its fields and has not yet cleared them.
Within(i) == Serving(i) \/ start[i] \in {"drain", "finish"}

\* Two calls of Start have been within their sections at once.
Overlap(i, j) == i \in unended[j] \/ j \in unended[i]

Init ==
  /\ started = FALSE /\ listener = Nil /\ serveDone = Nil /\ dispatcher = Nil /\ done = FALSE
  /\ sessions = {} /\ open = {} /\ dispatchers = {} /\ served = {}
  /\ start = [i \in Starts |-> "idle"] /\ unended = [i \in Starts |-> {}]
  /\ accepted = [i \in Starts |-> Nil]
  /\ session = [c \in Clients |-> "away"] /\ told = {} /\ stalled = {}
  /\ server = [c \in Clients |-> Nil] /\ bound = [c \in Clients |-> Nil]
  /\ stop = [p \in Stops |-> "idle"]
  /\ capturedListener = [p \in Stops |-> Nil] /\ capturedDone = [p \in Stops |-> Nil]
  /\ present = [p \in Stops |-> {}] /\ visited = [p \in Stops |-> {}]
  /\ current = [p \in Stops |-> Nil] /\ servingAtCall = [p \in Stops |-> {}]

-----------------------------------------------------------------------------
(* Start and serve                                                         *)

StartStep(i, from, to) == start[i] = from /\ start' = [start EXCEPT ![i] = to]

SessionStep(c, from, to) == session[c] = from /\ session' = [session EXCEPT ![c] = to]

StartRefused(i) ==
  /\ started
  /\ StartStep(i, "idle", "refused")
  /\ UNCHANGED <<fieldVars, done, unended, accepted, open, dispatchers, served,
                 clientVars, stopVars>>

\* Listen may fail.
StartFails(i) ==
  /\ ~started
  /\ StartStep(i, "idle", "failed")
  /\ UNCHANGED <<fieldVars, done, unended, accepted, open, dispatchers, served,
                 clientVars, stopVars>>

\* The first section under s.mu: everything is created and published.
StartListening(i) ==
  /\ ~started
  /\ StartStep(i, "idle", "accept")
  /\ open' = open \cup {i} /\ dispatchers' = dispatchers \cup {i}
  /\ listener' = i /\ serveDone' = i /\ dispatcher' = i
  /\ started' = TRUE /\ done' = FALSE
  /\ unended' = [unended EXCEPT ![i] = {j \in Starts : Within(j)}]
  /\ UNCHANGED <<accepted, served, clientVars, stopVars>>

Accept(i, c) ==
  /\ i \in open /\ server[c] = i
  /\ StartStep(i, "accept", "check")
  /\ SessionStep(c, "pending", "accepted")
  /\ accepted' = [accepted EXCEPT ![i] = c]
  /\ UNCHANGED <<fieldVars, done, unended, open, dispatchers, served, server, bound, told,
                 stalled, sessions, stopVars>>

\* Slip: a closed listener is taken for a passing failure.
AcceptRetries(i) ==
  /\ i \notin open /\ start[i] = "accept"
  /\ UNCHANGED vars

\* Accept fails for good on a closed listener, or in passing (out of file
\* descriptors, a connection aborted) on an open one.  A failure ends serve, and
\* with it the listener, when that is closed or s.done is set; else it is retried.
AcceptFails(i) ==
  /\ i \notin open \/ done
  /\ StartStep(i, "accept", "drain")
  /\ open' = open \ {i}
  /\ UNCHANGED <<fieldVars, done, unended, accepted, dispatchers, served, clientVars, stopVars>>

\* Once s.done is set a fresh connection is closed.
AcceptRejected(i) ==
  /\ done
  /\ StartStep(i, "check", "accept")
  /\ SessionStep(accepted[i], "accepted", "rejected")
  /\ accepted' = [accepted EXCEPT ![i] = Nil]
  /\ UNCHANGED <<fieldVars, done, unended, open, dispatchers, served, server, bound, told,
                 stalled, sessions, stopVars>>

\* Else serveDefaultRuntime makes a session and wires it, whatever happens to
\* s.done and to the fields meanwhile.
AcceptChecked(i) ==
  /\ ~done
  /\ StartStep(i, "check", "wire")
  /\ UNCHANGED <<fieldVars, done, unended, accepted, open, dispatchers, served,
                 clientVars, stopVars>>

\* The allocator makes no session; serve closes the connection.
AllocateRefused(i) ==
  /\ StartStep(i, "wire", "accept")
  /\ SessionStep(accepted[i], "accepted", "rejected")
  /\ accepted' = [accepted EXCEPT ![i] = Nil]
  /\ UNCHANGED <<fieldVars, done, unended, open, dispatchers, served, server, bound, told,
                 stalled, sessions, stopVars>>

\* The session submits to the dispatcher field of the moment, which is read
\* without the mutex; without a dispatcher its read loop returns at once.
UseDispatcher(i) ==
  /\ StartStep(i, "wire", "store")
  /\ bound' = [bound EXCEPT ![accepted[i]] = dispatcher]
  /\ UNCHANGED <<fieldVars, done, unended, accepted, open, dispatchers, served, session, server,
                 told, stalled, sessions, stopVars>>

\* s.sessions.Store, then StartLoops.
StoreSession(i) ==
  /\ StartStep(i, "store", "launch")
  /\ SessionStep(accepted[i], "accepted", "stored")
  /\ sessions' = sessions \cup {accepted[i]}
  /\ UNCHANGED <<fieldVars, done, unended, accepted, open, dispatchers, served, server, bound, told,
                 stalled, stopVars>>

StartLoops(i) ==
  /\ StartStep(i, "launch", "accept")
  /\ SessionStep(accepted[i], "stored", "running")
  /\ accepted' = [accepted EXCEPT ![i] = Nil]
  /\ UNCHANGED <<fieldVars, done, unended, open, dispatchers, served, server, bound, told,
                 stalled, sessions, stopVars>>

DispatcherStop(i) ==
  /\ StartStep(i, "drain", "finish")
  /\ dispatchers' = dispatchers \ {i}
  /\ UNCHANGED <<fieldVars, done, unended, accepted, open, served, clientVars, stopVars>>

\* The last section under s.mu clears the fields, whoever set them.
StartFinish(i) ==
  /\ StartStep(i, "finish", "close")
  /\ listener' = Nil /\ dispatcher' = Nil /\ serveDone' = Nil /\ started' = FALSE
  /\ UNCHANGED <<done, unended, accepted, open, dispatchers, served, clientVars, stopVars>>

StartReturn(i) ==
  /\ StartStep(i, "close", "returned")
  /\ served' = served \cup {i}
  /\ UNCHANGED <<fieldVars, done, unended, accepted, open, dispatchers, clientVars, stopVars>>

StartCall(i) == StartRefused(i) \/ StartFails(i) \/ StartListening(i)

Serve(i) ==
  \/ (\E c \in Clients : Accept(i, c)) \/ AcceptFails(i) \/ AcceptRejected(i)
  \/ AcceptChecked(i) \/ AllocateRefused(i) \/ UseDispatcher(i) \/ StoreSession(i) \/ StartLoops(i)
  \/ DispatcherStop(i) \/ StartFinish(i) \/ StartReturn(i)

-----------------------------------------------------------------------------
(* Clients and sessions                                                    *)

Connect(c) ==
  /\ SessionStep(c, "away", "pending")
  /\ \E i \in open : server' = [server EXCEPT ![c] = i]
  /\ UNCHANGED <<fieldVars, done, startVars, bound, told, stalled, sessions, stopVars>>

\* Slip: no onClose callback.
SessionEndsKept(c) ==
  /\ SessionStep(c, "running", "removed")
  /\ UNCHANGED <<fieldVars, done, startVars, server, bound, told, stalled, sessions, stopVars>>

\* Told to stop, or by itself; onClose deletes it from the map.
SessionEnds(c) ==
  /\ SessionStep(c, "running", "removed")
  /\ sessions' = sessions \ {c}
  /\ UNCHANGED <<fieldVars, done, startVars, server, bound, told, stalled, stopVars>>

SessionDone(c) ==
  /\ SessionStep(c, "removed", "done")
  /\ UNCHANGED <<fieldVars, done, startVars, server, bound, told, stalled, sessions, stopVars>>

\* The client reads no more of what its session sends.
Stall(c) ==
  /\ session[c] = "running" /\ c \in Stallers \ stalled
  /\ stalled' = stalled \cup {c}
  /\ UNCHANGED <<fieldVars, done, startVars, session, server, bound, told, sessions, stopVars>>

-----------------------------------------------------------------------------
(* shutdown                                                                *)

StopStep(p, from, to) == stop[p] = from /\ stop' = [stop EXCEPT ![p] = to]

StopNotStarted(p) ==
  /\ ~started
  /\ StopStep(p, "idle", "returned")
  /\ servingAtCall' = [servingAtCall EXCEPT ![p] = {i \in Starts : Serving(i)}]
  /\ UNCHANGED <<fieldVars, done, startVars, clientVars,
                 capturedListener, capturedDone, present, visited, current>>

\* Slip: started is left for Start to clear.
StopCaptureOnly(p) ==
  /\ started
  /\ StopStep(p, "idle", "flag")
  /\ capturedListener' = [capturedListener EXCEPT ![p] = listener]
  /\ capturedDone' = [capturedDone EXCEPT ![p] = serveDone]
  /\ listener' = Nil
  /\ servingAtCall' = [servingAtCall EXCEPT ![p] = {i \in Starts : Serving(i)}]
  /\ UNCHANGED <<started, serveDone, dispatcher, done, startVars, clientVars,
                 present, visited, current>>

\* The section under s.mu.
StopCapture(p) ==
  /\ started
  /\ StopStep(p, "idle", "flag")
  /\ capturedListener' = [capturedListener EXCEPT ![p] = listener]
  /\ capturedDone' = [capturedDone EXCEPT ![p] = serveDone]
  /\ listener' = Nil /\ started' = FALSE
  /\ servingAtCall' = [servingAtCall EXCEPT ![p] = {i \in Starts : Serving(i)}]
  /\ UNCHANGED <<serveDone, dispatcher, done, startVars, clientVars, present, visited, current>>

\* Slip: the dispatcher is given up together with the flag.
StopFlagClears(p) ==
  /\ StopStep(p, "flag", "listener")
  /\ done' = TRUE /\ dispatcher' = Nil
  /\ UNCHANGED <<started, listener, serveDone, startVars, clientVars,
                 capturedListener, capturedDone, present, visited, current, servingAtCall>>

\* s.done is set outside the mutex.
StopFlag(p) ==
  /\ StopStep(p, "flag", "listener")
  /\ done' = TRUE
  /\ UNCHANGED <<fieldVars, startVars, clientVars, capturedListener, capturedDone, present,
                 visited, current, servingAtCall>>

StopListener(p) ==
  /\ StopStep(p, "listener", "range")
  /\ open' = open \ {capturedListener[p]}
  /\ UNCHANGED <<fieldVars, done, start, unended, accepted, dispatchers, served, clientVars,
                 capturedListener, capturedDone, present, visited, current, servingAtCall>>

\* sync.Map.Range calls back once for every key that is there throughout, and
\* for a key stored or deleted meanwhile perhaps.
StopRange(p) ==
  /\ StopStep(p, "range", "visit")
  /\ present' = [present EXCEPT ![p] = sessions]
  /\ UNCHANGED <<fieldVars, done, startVars, clientVars, capturedListener, capturedDone,
                 visited, current, servingAtCall>>

\* sess.Stop() or sess.Close(): the session is told, then awaited.
StopVisit(p, c) ==
  /\ StopStep(p, "visit", "session")
  /\ c \in sessions \ visited[p]
  /\ visited' = [visited EXCEPT ![p] = @ \cup {c}]
  /\ current' = [current EXCEPT ![p] = c]
  /\ told' = told \cup {c}
  /\ UNCHANGED <<fieldVars, done, startVars, session, server, bound, stalled, sessions,
                 capturedListener, capturedDone, present, servingAtCall>>

\* Slip: the session is signalled and not awaited.
StopSessionAtOnce(p) ==
  /\ StopStep(p, "session", "visit")
  /\ UNCHANGED <<fieldVars, done, startVars, clientVars, capturedListener, capturedDone,
                 present, visited, current, servingAtCall>>

StopSession(p) ==
  /\ StopStep(p, "session", "visit")
  /\ session[current[p]] = "done"
  /\ UNCHANGED <<fieldVars, done, startVars, clientVars, capturedListener, capturedDone,
                 present, visited, current, servingAtCall>>

\* Slip: the callback of Range returns false.
StopRangeEndsAtOnce(p) ==
  /\ StopStep(p, "visit", "serve")
  /\ UNCHANGED <<fieldVars, done, startVars, clientVars, capturedListener, capturedDone,
                 present, visited, current, servingAtCall>>

StopRangeEnds(p) ==
  /\ StopStep(p, "visit", "serve")
  /\ present[p] \cap sessions \subseteq visited[p]
  /\ UNCHANGED <<fieldVars, done, startVars, clientVars, capturedListener, capturedDone,
                 present, visited, current, servingAtCall>>

\* Slip: serveDone is not awaited.
StopReturnAtOnce(p) ==
  /\ StopStep(p, "serve", "returned")
  /\ UNCHANGED <<fieldVars, done, startVars, clientVars, capturedListener, capturedDone,
                 present, visited, current, servingAtCall>>

StopReturn(p) ==
  /\ StopStep(p, "serve", "returned")
  /\ capturedDone[p] \in served \cup {Nil}
  /\ UNCHANGED <<fieldVars, done, startVars, clientVars, capturedListener, capturedDone,
                 present, visited, current, servingAtCall>>

Shutdown(p) ==
  \/ StopFlag(p) \/ StopListener(p) \/ StopRange(p) \/ (\E c \in Clients : StopVisit(p, c))
  \/ StopSession(p) \/ StopRangeEnds(p) \/ StopReturn(p)

-----------------------------------------------------------------------------
Quiet == \A p \in Stops : stop[p] \in {"idle", "returned"}

\* A server that nobody stops may serve for ever.
Idle == Quiet /\ UNCHANGED vars

Next ==
  \/ \E i \in Starts : StartCall(i) \/ Serve(i)
  \/ \E c \in Clients : Connect(c) \/ SessionEnds(c) \/ SessionDone(c) \/ Stall(c)
  \/ \E p \in Stops : StopNotStarted(p) \/ StopCapture(p) \/ Shutdown(p)
  \/ Idle

Spec == Init /\ [][Next]_vars

\* Goroutines run; a session that was told to stop ends if its client reads.  If
\* it does not, the session may be in a flush that never ends.
Fairness ==
  /\ \A i \in Starts : WF_vars(Serve(i))
  /\ \A c \in Clients : WF_vars(c \in told \ stalled /\ SessionEnds(c)) /\ WF_vars(SessionDone(c))
  /\ \A p \in Stops : WF_vars(Shutdown(p))

FairSpec == Spec /\ Fairness

-----------------------------------------------------------------------------
(* Properties                                                              *)

\* While the server counts as started, its fields name one and the same Start,
\* which has not yet given up its fields and accepts on an open listener, so that
\* a Stop that sees started has something to close and something to wait for, also
\* across restarts.  Only a Stop of an earlier Start can have set s.done on it, with
\* which it refuses every connection.
StartedMeansServing ==
  started => /\ serveDone = listener /\ dispatcher = listener
             /\ Within(listener)
             /\ ~done => listener \in open /\ Serving(listener)
             /\ done => \E p \in Stops : /\ stop[p] \notin {"idle", "flag"}
                                         /\ capturedListener[p] \in Starts \ {listener}

\* When a Stop that found the server started returns, that Start has closed its
\* listener, stopped its dispatcher and left, and every session that was in the
\* map when Range began, and stayed in it until visited, is done or has removed
\* itself.
StopWaits ==
  \A p \in Stops : stop[p] = "returned" /\ capturedDone[p] # Nil =>
    /\ capturedDone[p] \notin open \cup dispatchers
    /\ \A c \in present[p] : session[c] \in {"removed", "done"}

\* A connection that is on its way into the map when shutdown walks over it is not
\* told to stop; it can only be the one in the accept loop's hands.  So at most one
\* connection of a Start outlives the Stop that closed its listener.
AtMostOneLate ==
  \A p \in Stops : stop[p] = "returned" /\ capturedListener[p] # Nil =>
    \A c, d \in Clients :
      /\ {server[c], server[d]} = {capturedListener[p]}
      /\ {session[c], session[d]} \subseteq {"accepted", "stored", "running"}
      => c = d

\* A call of Stop that finds started cleared returns at once and leaves the work to
\* the call that has cleared it.  When all calls have returned, a Start that served
\* when one of them was made has returned too, unless another Start overlapped it.
StopsEndStart ==
  Quiet => \A p \in Stops : \A i \in servingAtCall[p] :
    start[i] = "returned" \/ \E j \in Starts \ {i} : Overlap(i, j)

\* The unlocked read of s.dispatcher, which may come at any time after the test of
\* s.done, gives a session the dispatcher of the Start that accepted its
\* connection, and that one still runs, whatever shutdown does at the same time.
\* Only a Start that began before this one had ended can put its own there, and
\* only one that overlapped with it, and has ended, can have cleared it.
OwnDispatcher ==
  \A i \in Starts : start[i] \in {"store", "launch"} =>
    LET read == bound[accepted[i]] IN
    \/ read = i /\ i \in dispatchers
    \/ read \in Starts /\ i \in unended[read]
    \/ read = Nil /\ \E j \in Starts : start[j] \in {"close", "returned"} /\ Overlap(i, j)

\* A shutdown that waits for a session whose client reads no more.
AwaitsStalled(p) == stop[p] = "session" /\ current[p] \in stalled

\* A Start that is stopped returns, whatever the clients do.  Stop and Close return,
\* also with several callers of each at once, unless they wait for ever for a
\* session whose client reads no more.
StopReturns ==
  \A p \in Stops :
    /\ (stop[p] = "flag") ~> (stop[p] = "returned" \/ []AwaitsStalled(p))
    /\ \A i \in Starts : (stop[p] # "idle" /\ capturedDone[p] = i) ~> (start[i] = "returned")

-----------------------------------------------------------------------------
(* What the documents say and the code does not do                         *)

\* Start returns once the server has stopped and all sessions have exited.
StartReturnsAfterSessions ==
  \A i \in Starts : start[i] = "returned" =>
    \A c \in Clients : server[c] = i => session[c] \notin {"accepted", "stored", "running"}

\* Stop gracefully stops the server: once every call of Stop has returned, no
\* Start that was serving when one of them was made still listens.
StopStopsServer ==
  Quiet => \A p \in Stops : stop[p] = "returned" =>
    \A i \in servingAtCall[p] : i \notin open

\* A connection that a Start has accepted is served by the dispatcher of that Start.
ServedByOwnDispatcher ==
  \A i \in Starts : start[i] \in {"store", "launch"} => bound[accepted[i]] = i
=============================================================================
