---------------------------- MODULE ServerProofs ----------------------------
(***************************************************************************)
(* The safety of Server for every number of calls of Start, Stop and       *)
(* Close and of clients.  The parts of the inductive invariant, beside the *)
(* types: Phases ties a Start's listener and dispatcher to how far it has  *)
(* come; Fields says what the fields under s.mu name; History, OwnField,   *)
(* Hands and OwnBinding what a connection is bound to; Shutdowns, Closed   *)
(* and OneMissed what a shutdown has seen and missed; Answers which call   *)
(* of shutdown ends a Start.                                               *)
(***************************************************************************)
EXTENDS Server, TLAPS

-----------------------------------------------------------------------------
(* Type correctness                                                        *)

Holding == {"check", "wire", "store", "launch"}

\* The accept loop that handles a connection holds one, and a shutdown that
\* awaits a session awaits one.
Held ==
  /\ \A i \in Starts : start[i] \in Holding => accepted[i] \in Clients
  /\ \A p \in Stops : stop[p] = "session" => current[p] \in Clients

TypeInv == TypeOK /\ Held

\* Types, and the locals that each phase of Start, session and Stop relies on.
LEMMA TypeInvariant == Spec => []TypeInv
  <1> USE ServerAssumption
  <1>1. ASSUME Init PROVE TypeInv
    BY <1>1 DEF Init, TypeInv, TypeOK, Held, Holding, StartStates, SessionStates, StopStates
  <1>2. TypeInv /\ [Next]_vars => TypeInv'
    <2> SUFFICES ASSUME TypeInv, [Next]_vars PROVE TypeInv'
      OBVIOUS
    <2> USE DEF TypeInv, TypeOK, Held, Holding, StartStates, SessionStates, StopStates,
                fieldVars, startVars, clientVars, stopVars, StartStep, SessionStep, StopStep
    <2>1. ASSUME NEW i \in Starts, StartCall(i) PROVE TypeInv'
      <3>1. CASE StartRefused(i) \/ StartFails(i)
        BY <3>1 DEF StartRefused, StartFails
      <3>2. CASE StartListening(i)
        <4>1. {listener', serveDone', dispatcher'} \subseteq Starts \cup {Nil}
          BY <3>2 DEF StartListening
        <4> QED
          BY <3>2, <4>1 DEF StartListening
      <3> QED
        BY <2>1, <3>1, <3>2 DEF StartCall
    <2>2. ASSUME NEW i \in Starts, NEW c \in Clients, Accept(i, c) PROVE TypeInv'
      BY <2>2 DEF Accept
    <2>3. ASSUME NEW i \in Starts, AcceptFails(i) PROVE TypeInv'
      BY <2>3 DEF AcceptFails
    <2>4. ASSUME NEW i \in Starts, AcceptRejected(i) \/ AllocateRefused(i) PROVE TypeInv'
      <3>1. CASE AcceptRejected(i)
        BY <3>1 DEF AcceptRejected
      <3>2. CASE AllocateRefused(i)
        BY <3>2 DEF AllocateRefused
      <3> QED
        BY <2>4, <3>1, <3>2
    <2>5. ASSUME NEW i \in Starts, AcceptChecked(i) \/ UseDispatcher(i) PROVE TypeInv'
      <3>1. CASE AcceptChecked(i)
        BY <3>1 DEF AcceptChecked
      <3>2. CASE UseDispatcher(i)
        BY <3>2 DEF UseDispatcher
      <3> QED
        BY <2>5, <3>1, <3>2
    <2>6. ASSUME NEW i \in Starts, StoreSession(i) PROVE TypeInv'
      BY <2>6 DEF StoreSession
    <2>7. ASSUME NEW i \in Starts, StartLoops(i) PROVE TypeInv'
      BY <2>7 DEF StartLoops
    <2>8. ASSUME NEW i \in Starts, DispatcherStop(i) \/ StartFinish(i) \/ StartReturn(i)
          PROVE TypeInv'
      <3>1. CASE DispatcherStop(i)
        BY <3>1 DEF DispatcherStop
      <3>2. CASE StartFinish(i)
        BY <3>2 DEF StartFinish
      <3>3. CASE StartReturn(i)
        BY <3>3 DEF StartReturn
      <3> QED
        BY <2>8, <3>1, <3>2, <3>3
    <2>9. ASSUME NEW c \in Clients, Connect(c) PROVE TypeInv'
      BY <2>9 DEF Connect
    <2>10. ASSUME NEW c \in Clients, SessionEnds(c) \/ SessionDone(c) \/ Stall(c) PROVE TypeInv'
      <3>1. CASE SessionEnds(c)
        BY <3>1 DEF SessionEnds
      <3>2. CASE SessionDone(c)
        BY <3>2 DEF SessionDone
      <3>3. CASE Stall(c)
        BY <3>3 DEF Stall
      <3> QED
        BY <2>10, <3>1, <3>2, <3>3
    <2>11. ASSUME NEW p \in Stops, StopNotStarted(p) \/ StopCapture(p) PROVE TypeInv'
      <3>1. CASE StopNotStarted(p)
        BY <3>1 DEF StopNotStarted
      <3>2. CASE StopCapture(p)
        BY <3>2 DEF StopCapture
      <3> QED
        BY <2>11, <3>1, <3>2
    <2>12. ASSUME NEW p \in Stops, StopFlag(p) \/ StopListener(p) \/ StopRange(p) PROVE TypeInv'
      <3>1. CASE StopFlag(p)
        BY <3>1 DEF StopFlag
      <3>2. CASE StopListener(p)
        BY <3>2 DEF StopListener
      <3>3. CASE StopRange(p)
        BY <3>3 DEF StopRange
      <3> QED
        BY <2>12, <3>1, <3>2, <3>3
    <2>13. ASSUME NEW p \in Stops, NEW c \in Clients, StopVisit(p, c) PROVE TypeInv'
      BY <2>13 DEF StopVisit
    <2>14. ASSUME NEW p \in Stops, StopSession(p) \/ StopRangeEnds(p) \/ StopReturn(p)
           PROVE TypeInv'
      BY <2>14 DEF StopSession, StopRangeEnds, StopReturn
    <2>15. CASE UNCHANGED vars
      BY <2>15 DEF vars
    <2> QED
      BY <2>1, <2>2, <2>3, <2>4, <2>5, <2>6, <2>7, <2>8, <2>9, <2>10, <2>11, <2>12, <2>13,
         <2>14, <2>15
      DEF Next, Serve, Shutdown, Idle
  <1> QED
    BY <1>1, <1>2, PTL DEF Spec

-----------------------------------------------------------------------------
(* How far each Start has come                                             *)

\* Start got past Listen.
Launched(i) == start[i] \notin {"idle", "refused", "failed"}

\* A Start has a listener and a dispatcher only while it serves, and the
\* dispatcher until serve has stopped it; serveDone is closed by its last step.
Phases ==
  \A i \in Starts :
    /\ i \in open => Serving(i)
    /\ i \in dispatchers <=> Serving(i) \/ start[i] = "drain"
    /\ i \in served => start[i] = "returned"

\* What exists while a Start is in which phase.
LEMMA PhasesInvariant == Spec => []Phases
  <1>1. ASSUME Init PROVE Phases
    BY <1>1 DEF Init, Phases, Serving
  <1>2. TypeInv /\ Phases /\ [Next]_vars => Phases'
    <2> SUFFICES ASSUME TypeInv, Phases, [Next]_vars PROVE Phases'
      OBVIOUS
    <2> USE DEF TypeInv, TypeOK, Phases, Serving, StartStep, fieldVars, startVars, clientVars, stopVars
    <2>1. ASSUME NEW i \in Starts, StartCall(i) PROVE Phases'
      BY <2>1 DEF StartCall, StartRefused, StartFails, StartListening
    <2>2. ASSUME NEW i \in Starts, NEW c \in Clients, Accept(i, c) PROVE Phases'
      BY <2>2 DEF Accept
    <2>3. ASSUME NEW i \in Starts, AcceptFails(i) PROVE Phases'
      BY <2>3 DEF AcceptFails
    <2>4. ASSUME NEW i \in Starts,
                 AcceptRejected(i) \/ AcceptChecked(i) \/ AllocateRefused(i) \/ UseDispatcher(i)
                   \/ StoreSession(i) \/ StartLoops(i)
          PROVE Phases'
      BY <2>4 DEF AcceptRejected, AcceptChecked, AllocateRefused, UseDispatcher, StoreSession, StartLoops
    <2>5. ASSUME NEW i \in Starts, DispatcherStop(i) \/ StartFinish(i) \/ StartReturn(i)
          PROVE Phases'
      BY <2>5 DEF DispatcherStop, StartFinish, StartReturn
    <2>6. ASSUME NEW c \in Clients, Connect(c) \/ SessionEnds(c) \/ SessionDone(c) \/ Stall(c)
          PROVE Phases'
      BY <2>6 DEF Connect, SessionEnds, SessionDone, Stall
    <2>7. ASSUME NEW p \in Stops, StopListener(p) PROVE Phases'
      BY <2>7 DEF StopListener
    <2>8. ASSUME NEW p \in Stops, StopNotStarted(p) \/ StopCapture(p) \/ StopFlag(p) \/ StopRange(p)
          PROVE Phases'
      BY <2>8 DEF StopNotStarted, StopCapture, StopFlag, StopRange
    <2>9. ASSUME NEW p \in Stops,
                 (\E c \in Clients : StopVisit(p, c)) \/ StopSession(p) \/ StopRangeEnds(p)
                   \/ StopReturn(p)
          PROVE Phases'
      BY <2>9 DEF StopVisit, StopSession, StopRangeEnds, StopReturn
    <2>10. CASE UNCHANGED vars
      BY <2>10 DEF vars
    <2> QED
      BY <2>1, <2>2, <2>3, <2>4, <2>5, <2>6, <2>7, <2>8, <2>9, <2>10
      DEF Next, Serve, Shutdown, Idle
  <1> QED
    BY <1>1, <1>2, TypeInvariant, PTL DEF Spec

-----------------------------------------------------------------------------
(* What the fields name                                                    *)

\* What a shutdown has captured had been started, and is no longer what a
\* started server names: the capture clears started, and no Start begins twice.
Captured ==
  \A p \in Stops :
    /\ capturedListener[p] \in Starts => Launched(capturedListener[p])
    /\ started => capturedListener[p] # listener
    /\ stop[p] = "flag" => capturedListener[p] \in Starts

\* Start is over with its fields.
Finished(i) == start[i] \in {"close", "returned"}

\* The history is about Starts that have begun, and any two that are within their
\* sections have been there together.
History ==
  /\ \A i \in Starts : unended[i] # {} => Launched(i)
  /\ \A i, j \in Starts : Within(i) /\ Within(j) /\ i # j => Overlap(i, j)

\* What i can read in the dispatcher field: its own dispatcher, that of a Start
\* that began before i had ended, or nothing if one that overlapped has cleared it.
Readable(i, read) ==
  \/ read = i
  \/ read \in Starts /\ i \in unended[read]
  \/ read = Nil /\ \E j \in Starts : Finished(j) /\ Overlap(i, j)

\* Between the first and the last section of Start.
OwnField == \A i \in Starts : Within(i) => Readable(i, dispatcher)

FieldsInv ==
  /\ started => listener \in Starts
  /\ StartedMeansServing
  /\ Captured

\* What the fields name, and what a shutdown has captured, at every moment.
LEMMA FieldsInvariant == Spec => []FieldsInv
  <1> USE ServerAssumption
  <1>1. ASSUME Init PROVE FieldsInv
    BY <1>1 DEF Init, FieldsInv, StartedMeansServing, Captured, Serving
  <1>2. TypeInv /\ Phases /\ FieldsInv /\ [Next]_vars => FieldsInv'
    <2> SUFFICES ASSUME TypeInv, Phases, FieldsInv, [Next]_vars PROVE FieldsInv'
      OBVIOUS
    <2> USE DEF TypeInv, TypeOK, Phases, FieldsInv, StartedMeansServing, Captured, Launched,
                Serving, Within, StartStep, StopStep, fieldVars, startVars, clientVars, stopVars
    <2>1. ASSUME NEW i \in Starts, StartCall(i) PROVE FieldsInv'
      BY <2>1 DEF StartCall, StartRefused, StartFails, StartListening
    <2>2. ASSUME NEW i \in Starts, NEW c \in Clients, Accept(i, c) PROVE FieldsInv'
      BY <2>2 DEF Accept
    <2>3. ASSUME NEW i \in Starts, AcceptFails(i) PROVE FieldsInv'
      BY <2>3 DEF AcceptFails
    <2>4. ASSUME NEW i \in Starts,
                 AcceptRejected(i) \/ AcceptChecked(i) \/ AllocateRefused(i) \/ UseDispatcher(i)
                   \/ StoreSession(i) \/ StartLoops(i)
          PROVE FieldsInv'
      BY <2>4 DEF AcceptRejected, AcceptChecked, AllocateRefused, UseDispatcher, StoreSession, StartLoops
    <2>5. ASSUME NEW i \in Starts, DispatcherStop(i) \/ StartReturn(i) PROVE FieldsInv'
      BY <2>5 DEF DispatcherStop, StartReturn
    <2>6. ASSUME NEW i \in Starts, StartFinish(i) PROVE FieldsInv'
      BY <2>6 DEF StartFinish
    <2>7. ASSUME NEW c \in Clients, Connect(c) \/ SessionEnds(c) \/ SessionDone(c) \/ Stall(c)
          PROVE FieldsInv'
      BY <2>7 DEF Connect, SessionEnds, SessionDone, Stall
    <2>8. ASSUME NEW p \in Stops, StopCapture(p) PROVE FieldsInv'
      BY <2>8 DEF StopCapture
    <2>9. ASSUME NEW p \in Stops, StopFlag(p) PROVE FieldsInv'
      BY <2>9 DEF StopFlag
    <2>10. ASSUME NEW p \in Stops, StopListener(p) PROVE FieldsInv'
      BY <2>10 DEF StopListener
    <2>11. ASSUME NEW p \in Stops, StopNotStarted(p) \/ StopRange(p) PROVE FieldsInv'
      BY <2>11 DEF StopNotStarted, StopRange
    <2>12. ASSUME NEW p \in Stops,
                  (\E c \in Clients : StopVisit(p, c)) \/ StopSession(p) \/ StopRangeEnds(p)
                    \/ StopReturn(p)
           PROVE FieldsInv'
      BY <2>12 DEF StopVisit, StopSession, StopRangeEnds, StopReturn
    <2>13. CASE UNCHANGED vars
      BY <2>13 DEF vars
    <2> QED
      BY <2>1, <2>2, <2>3, <2>4, <2>5, <2>6, <2>7, <2>8, <2>9, <2>10, <2>11, <2>12, <2>13
      DEF Next, Serve, Shutdown, Idle
  <1> QED
    BY <1>1, <1>2, TypeInvariant, PhasesInvariant, PTL DEF Spec

-----------------------------------------------------------------------------
(* Which Starts overlap, and what a connection is bound to                 *)

\* Within their sections Starts know of each other.
LEMMA HistoryInvariant == Spec => []History
  <1>1. ASSUME Init PROVE History
    BY <1>1 DEF Init, History, Within, Serving
  <1>2. TypeInv /\ History /\ [Next]_vars => History'
    <2> SUFFICES ASSUME TypeInv, History, [Next]_vars PROVE History'
      OBVIOUS
    <2> USE DEF TypeInv, TypeOK, History, Launched, Within, Serving, Overlap, StartStep,
                fieldVars, startVars, clientVars, stopVars
    <2>1. ASSUME NEW i \in Starts, StartRefused(i) \/ StartFails(i) PROVE History'
      BY <2>1 DEF StartRefused, StartFails
    <2>2. ASSUME NEW i \in Starts, StartListening(i) PROVE History'
      <3>1. unended' = [unended EXCEPT ![i] = {j \in Starts : Within(j)}] /\ unended[i] = {}
        BY <2>2 DEF StartListening
      <3>2. start[i] = "idle" /\ start' = [start EXCEPT ![i] = "accept"]
        BY <2>2 DEF StartListening
      <3>3. ASSUME NEW j \in Starts, unended'[j] # {} PROVE Launched(j)'
        BY <3>1, <3>2, <3>3
      <3>4. ASSUME NEW j \in Starts, NEW k \in Starts, Within(j)', Within(k)', j # k PROVE Overlap(j, k)'
        <4>1. CASE j = i
          BY <3>1, <3>2, <3>4, <4>1
        <4>2. CASE k = i
          BY <3>1, <3>2, <3>4, <4>2
        <4>3. CASE j # i /\ k # i
          BY <3>1, <3>2, <3>4, <4>3
        <4> QED
          BY <4>1, <4>2, <4>3
      <3> QED
        BY <3>3, <3>4
    <2>3. ASSUME NEW i \in Starts, Serve(i) PROVE History'
      <3>1. unended' = unended
        BY <2>3 DEF Serve, Accept, AcceptFails, AcceptRejected, AcceptChecked, AllocateRefused, UseDispatcher,
                    StoreSession, StartLoops, DispatcherStop, StartFinish, StartReturn
      <3>2. \E to : start' = [start EXCEPT ![i] = to] /\ to \notin {"idle", "refused", "failed"}
        BY <2>3 DEF Serve, Accept, AcceptFails, AcceptRejected, AcceptChecked, AllocateRefused, UseDispatcher,
                    StoreSession, StartLoops, DispatcherStop, StartFinish, StartReturn
      <3>3. Within(i)' => Within(i)
        BY <2>3 DEF Serve, Accept, AcceptFails, AcceptRejected, AcceptChecked, AllocateRefused, UseDispatcher,
                    StoreSession, StartLoops, DispatcherStop, StartFinish, StartReturn
      <3>4. \A j \in Starts : (Within(j)' => Within(j)) /\ (Launched(j) => Launched(j)')
        BY <3>2, <3>3
      <3> HIDE DEF Within, Launched
      <3> QED
        BY <3>1, <3>4
    <2>4. ASSUME UNCHANGED <<start, unended>> PROVE History'
      BY <2>4
    <2>5. ASSUME NEW c \in Clients, Connect(c) \/ SessionEnds(c) \/ SessionDone(c) \/ Stall(c)
          PROVE UNCHANGED <<start, unended>>
      BY <2>5 DEF Connect, SessionEnds, SessionDone, Stall
    <2>6. ASSUME NEW p \in Stops, StopNotStarted(p) \/ StopCapture(p) \/ Shutdown(p)
          PROVE UNCHANGED <<start, unended>>
      BY <2>6 DEF StopNotStarted, StopCapture, Shutdown, StopFlag, StopListener, StopRange, StopVisit,
                  StopSession, StopRangeEnds, StopReturn
    <2>7. CASE UNCHANGED vars
      BY <2>4, <2>7 DEF vars
    <2> HIDE DEF History
    <2> QED
      BY <2>1, <2>2, <2>3, <2>4, <2>5, <2>6, <2>7 DEF Next, StartCall, Idle
  <1> QED
    BY <1>1, <1>2, TypeInvariant, PTL DEF Spec

\* Histories grow, and a Start that is over with its fields remains so.
Grows ==
  \A i \in Starts : /\ Finished(i) => Finished(i)'
                    /\ unended[i] \subseteq unended'[i]

\* Only the first section of a Start writes its history, which was empty.
LEMMA StepGrows == TypeInv /\ History /\ [Next]_vars => Grows
  <1> SUFFICES ASSUME TypeInv, History, [Next]_vars PROVE Grows
    OBVIOUS
  <1> USE DEF TypeInv, TypeOK, History, Launched, Grows, Finished, StartStep,
              fieldVars, startVars, clientVars, stopVars
  <1>1. ASSUME NEW i \in Starts, StartCall(i) PROVE Grows
    BY <1>1 DEF StartCall, StartRefused, StartFails, StartListening
  <1>2. ASSUME NEW i \in Starts, Serve(i) PROVE Grows
    BY <1>2 DEF Serve, Accept, AcceptFails, AcceptRejected, AcceptChecked, AllocateRefused, UseDispatcher,
                StoreSession, StartLoops, DispatcherStop, StartFinish, StartReturn
  <1>3. ASSUME UNCHANGED <<start, unended>> PROVE Grows
    BY <1>3
  <1>4. ASSUME NEW c \in Clients, Connect(c) \/ SessionEnds(c) \/ SessionDone(c) \/ Stall(c)
        PROVE UNCHANGED <<start, unended>>
    BY <1>4 DEF Connect, SessionEnds, SessionDone, Stall
  <1>5. ASSUME NEW p \in Stops, StopNotStarted(p) \/ StopCapture(p) \/ Shutdown(p)
        PROVE UNCHANGED <<start, unended>>
    BY <1>5 DEF StopNotStarted, StopCapture, Shutdown, StopFlag, StopListener, StopRange, StopVisit,
                StopSession, StopRangeEnds, StopReturn
  <1>6. CASE UNCHANGED vars
    BY <1>3, <1>6 DEF vars
  <1> HIDE DEF Grows
  <1> QED
    BY <1>1, <1>2, <1>3, <1>4, <1>5, <1>6 DEF Next, Idle

\* What could be read once is accounted for ever after.
LEMMA ReadableStays ==
  ASSUME Grows, NEW i \in Starts, NEW read, Readable(i, read)
  PROVE  Readable(i, read)'
  BY DEF Grows, Readable, Overlap

\* The dispatcher field as each Start that is within its sections may read it.
LEMMA OwnFieldInvariant == Spec => []OwnField
  <1>1. ASSUME Init PROVE OwnField
    BY <1>1 DEF Init, OwnField, Within, Serving
  <1>2. TypeInv /\ History /\ OwnField /\ [Next]_vars => OwnField'
    <2> SUFFICES ASSUME TypeInv, History, OwnField, [Next]_vars PROVE OwnField'
      OBVIOUS
    <2>1. Grows
      BY StepGrows
    <2>2. ASSUME dispatcher' = dispatcher, \A i \in Starts : Within(i)' => Within(i) PROVE OwnField'
      <3>1. ASSUME NEW i \in Starts, Within(i)' PROVE Readable(i, dispatcher)'
        <4>1. PICK read : read = dispatcher /\ read = dispatcher'
          BY <2>2
        <4>2. Readable(i, read)
          BY <2>2, <3>1, <4>1 DEF OwnField
        <4>3. Readable(i, read)'
          BY <2>1, <4>2, ReadableStays
        <4> QED
          BY <4>1, <4>3 DEF Readable
      <3> QED
        BY <3>1 DEF OwnField
    <2> USE DEF TypeInv, TypeOK, Within, Serving, StartStep, fieldVars, startVars, clientVars, stopVars
    <2>3. ASSUME NEW k \in Starts, StartRefused(k) \/ StartFails(k) PROVE OwnField'
      BY <2>2, <2>3 DEF StartRefused, StartFails
    <2>4. ASSUME NEW k \in Starts, StartListening(k) PROVE OwnField'
      <3>1. dispatcher' = k /\ unended' = [unended EXCEPT ![k] = {j \in Starts : Within(j)}]
            /\ start' = [start EXCEPT ![k] = "accept"]
        BY <2>4 DEF StartListening
      <3>2. ASSUME NEW i \in Starts, Within(i)' PROVE Readable(i, dispatcher)'
        BY <3>1, <3>2 DEF Readable
      <3> QED
        BY <3>2 DEF OwnField
    <2>5. ASSUME NEW k \in Starts, StartFinish(k) PROVE OwnField'
      <3>1. dispatcher' = Nil /\ unended' = unended /\ start[k] = "finish" /\ start' = [start EXCEPT ![k] = "close"]
        BY <2>5 DEF StartFinish
      <3>2. ASSUME NEW i \in Starts, Within(i)' PROVE Readable(i, dispatcher)'
        <4>1. i # k /\ Within(i) /\ Within(k)
          BY <3>1, <3>2
        <4>2. Overlap(i, k)'
          BY <3>1, <4>1 DEF History, Overlap
        <4>3. Finished(k)'
          BY <3>1 DEF Finished
        <4> QED
          BY <3>1, <4>2, <4>3 DEF Readable
      <3> QED
        BY <3>2 DEF OwnField
    <2>6. ASSUME NEW i \in Starts, Serve(i), ~StartFinish(i)
          PROVE dispatcher' = dispatcher /\ \A j \in Starts : Within(j)' => Within(j)
      BY <2>6 DEF Serve, Accept, AcceptFails, AcceptRejected, AcceptChecked, AllocateRefused, UseDispatcher,
                  StoreSession, StartLoops, DispatcherStop, StartReturn
    <2>7. ASSUME NEW c \in Clients, Connect(c) \/ SessionEnds(c) \/ SessionDone(c) \/ Stall(c)
          PROVE UNCHANGED <<start, dispatcher>>
      BY <2>7 DEF Connect, SessionEnds, SessionDone, Stall
    <2>8. ASSUME NEW p \in Stops, StopNotStarted(p) \/ StopCapture(p) \/ Shutdown(p)
          PROVE UNCHANGED <<start, dispatcher>>
      BY <2>8 DEF StopNotStarted, StopCapture, Shutdown, StopFlag, StopListener, StopRange, StopVisit,
                  StopSession, StopRangeEnds, StopReturn
    <2>9. ASSUME UNCHANGED <<start, dispatcher>> PROVE OwnField'
      BY <2>2, <2>9
    <2>10. CASE UNCHANGED vars
      BY <2>9, <2>10 DEF vars
    <2> QED
      BY <2>2, <2>3, <2>4, <2>5, <2>6, <2>7, <2>8, <2>9, <2>10 DEF Next, StartCall, Idle
  <1> QED
    BY <1>1, <1>2, TypeInvariant, HistoryInvariant, PTL DEF Spec

\* The accept loop of a Start holds a connection that has come to its listener and
\* is not yet handed over; each accepted connection is held so.
Hands ==
  /\ \A i \in Starts : start[i] \in Holding =>
       /\ server[accepted[i]] = i
       /\ session[accepted[i]] = IF start[i] = "launch" THEN "stored" ELSE "accepted"
  /\ \A c \in Clients : session[c] = "accepted" =>
       \E i \in Starts : server[c] = i /\ start[i] \in Holding /\ accepted[i] = c

\* No connection is in the hands of two accept loops.
LEMMA HandsInvariant == Spec => []Hands
  <1> USE ServerAssumption
  <1>1. ASSUME Init PROVE Hands
    BY <1>1 DEF Init, Hands, Holding
  <1>2. TypeInv /\ Hands /\ [Next]_vars => Hands'
    <2> SUFFICES ASSUME TypeInv, Hands, [Next]_vars PROVE Hands'
      OBVIOUS
    <2> USE DEF TypeInv, TypeOK, Held, Hands, Holding, StartStep, SessionStep,
                fieldVars, startVars, clientVars, stopVars
    <2>1. ASSUME NEW i \in Starts, StartCall(i) PROVE Hands'
      BY <2>1 DEF StartCall, StartRefused, StartFails, StartListening
    <2>2. ASSUME NEW i \in Starts, NEW c \in Clients, Accept(i, c) PROVE Hands'
      BY <2>2 DEF Accept
    <2>3. ASSUME NEW i \in Starts, AcceptFails(i) PROVE Hands'
      BY <2>3 DEF AcceptFails
    <2>4. ASSUME NEW i \in Starts, AcceptRejected(i) \/ AllocateRefused(i) PROVE Hands'
      BY <2>4 DEF AcceptRejected, AllocateRefused
    <2>5. ASSUME NEW i \in Starts, AcceptChecked(i) \/ UseDispatcher(i) PROVE Hands'
      BY <2>5 DEF AcceptChecked, UseDispatcher
    <2>6. ASSUME NEW i \in Starts, StoreSession(i) PROVE Hands'
      BY <2>6 DEF StoreSession
    <2>7. ASSUME NEW i \in Starts, StartLoops(i) PROVE Hands'
      BY <2>7 DEF StartLoops
    <2>8. ASSUME NEW i \in Starts, DispatcherStop(i) \/ StartFinish(i) \/ StartReturn(i) PROVE Hands'
      BY <2>8 DEF DispatcherStop, StartFinish, StartReturn
    <2>9. ASSUME NEW c \in Clients, Connect(c) PROVE Hands'
      BY <2>9 DEF Connect
    <2>10. ASSUME NEW c \in Clients, SessionEnds(c) \/ SessionDone(c) \/ Stall(c) PROVE Hands'
      BY <2>10 DEF SessionEnds, SessionDone, Stall
    <2>11. ASSUME NEW p \in Stops, StopNotStarted(p) \/ StopCapture(p) \/ Shutdown(p)
           PROVE UNCHANGED <<start, accepted, server, session>>
      BY <2>11 DEF StopNotStarted, StopCapture, Shutdown, StopFlag, StopListener, StopRange, StopVisit,
                   StopSession, StopRangeEnds, StopReturn
    <2>12. ASSUME UNCHANGED <<start, accepted, server, session>> PROVE Hands'
      BY <2>12
    <2>13. CASE UNCHANGED vars
      BY <2>12, <2>13 DEF vars
    <2> HIDE DEF Hands
    <2> QED
      BY <2>1, <2>2, <2>3, <2>4, <2>5, <2>6, <2>7, <2>8, <2>9, <2>10, <2>11, <2>12, <2>13
      DEF Next, Serve, Idle
  <1> QED
    BY <1>1, <1>2, TypeInvariant, PTL DEF Spec

\* The connection on its way into the map is bound to what was to be read.
OwnBinding ==
  \A i \in Starts : start[i] \in {"store", "launch"} => Readable(i, bound[accepted[i]])

\* UseDispatcher has been given what the dispatcher field could hold.
LEMMA OwnBindingInvariant == Spec => []OwnBinding
  <1>1. ASSUME Init PROVE OwnBinding
    BY <1>1 DEF Init, OwnBinding
  <1>2. TypeInv /\ History /\ Hands /\ OwnField /\ OwnBinding /\ [Next]_vars => OwnBinding'
    <2> SUFFICES ASSUME TypeInv, History, Hands, OwnField, OwnBinding, [Next]_vars PROVE OwnBinding'
      OBVIOUS
    <2>1. Grows
      BY StepGrows
    <2>2. ASSUME NEW i \in Starts, start[i] \in {"store", "launch"}, bound'[accepted'[i]] = bound[accepted[i]]
          PROVE  Readable(i, bound[accepted[i]])'
      <3>1. PICK read : read = bound[accepted[i]] /\ read = bound'[accepted'[i]]
        BY <2>2
      <3>2. Readable(i, read)'
        BY <2>1, <2>2, <3>1, ReadableStays DEF OwnBinding
      <3> QED
        BY <3>1, <3>2 DEF Readable
    <2>3. ASSUME \A i \in Starts : start'[i] \in {"store", "launch"} =>
                   start[i] \in {"store", "launch"} /\ bound'[accepted'[i]] = bound[accepted[i]]
          PROVE  OwnBinding'
      BY <2>2, <2>3 DEF OwnBinding
    <2> USE DEF TypeInv, TypeOK, Held, Holding, StartStep, SessionStep, fieldVars, startVars, clientVars, stopVars
    <2>4. ASSUME NEW i \in Starts, UseDispatcher(i) PROVE OwnBinding'
      <3>1. /\ start[i] = "wire" /\ start' = [start EXCEPT ![i] = "store"] /\ accepted' = accepted
            /\ bound' = [bound EXCEPT ![accepted[i]] = dispatcher] /\ dispatcher' = dispatcher
        BY <2>4 DEF UseDispatcher
      <3>2. Readable(i, bound[accepted[i]])'
        <4>1. PICK read : read = dispatcher /\ read = bound'[accepted'[i]]
          BY <3>1
        <4>2. Readable(i, read)
          BY <3>1, <4>1 DEF OwnField, Within, Serving
        <4>3. Readable(i, read)'
          BY <2>1, <4>2, ReadableStays
        <4> QED
          BY <4>1, <4>3 DEF Readable
      <3>3. ASSUME NEW k \in Starts, k # i, start'[k] \in {"store", "launch"}
            PROVE  Readable(k, bound[accepted[k]])'
        <4>1. start[k] \in {"store", "launch"}
          BY <3>1, <3>3
        <4>2. accepted[k] # accepted[i]
          BY <3>1, <3>3, <4>1 DEF Hands
        <4>3. bound'[accepted'[k]] = bound[accepted[k]]
          BY <3>1, <4>1, <4>2
        <4> QED
          BY <2>2, <4>1, <4>3
      <3> QED
        BY <3>2, <3>3 DEF OwnBinding
    <2>5. ASSUME NEW i \in Starts, StartCall(i) PROVE OwnBinding'
      BY <2>3, <2>5 DEF StartCall, StartRefused, StartFails, StartListening
    <2>6. ASSUME NEW i \in Starts, (\E c \in Clients : Accept(i, c)) \/ AcceptFails(i) \/ AcceptRejected(i)
                   \/ AcceptChecked(i) \/ AllocateRefused(i) \/ StoreSession(i) \/ StartLoops(i)
          PROVE OwnBinding'
      BY <2>3, <2>6 DEF Accept, AcceptFails, AcceptRejected, AcceptChecked, AllocateRefused, StoreSession, StartLoops
    <2>7. ASSUME NEW i \in Starts, DispatcherStop(i) \/ StartFinish(i) \/ StartReturn(i) PROVE OwnBinding'
      BY <2>3, <2>7 DEF DispatcherStop, StartFinish, StartReturn
    <2>8. ASSUME NEW c \in Clients, Connect(c) \/ SessionEnds(c) \/ SessionDone(c) \/ Stall(c)
          PROVE UNCHANGED <<start, accepted, bound>>
      BY <2>8 DEF Connect, SessionEnds, SessionDone, Stall
    <2>9. ASSUME NEW p \in Stops, StopNotStarted(p) \/ StopCapture(p) \/ Shutdown(p)
          PROVE UNCHANGED <<start, accepted, bound>>
      BY <2>9 DEF StopNotStarted, StopCapture, Shutdown, StopFlag, StopListener, StopRange, StopVisit,
                  StopSession, StopRangeEnds, StopReturn
    <2>10. ASSUME UNCHANGED <<start, accepted, bound>> PROVE OwnBinding'
      BY <2>3, <2>10
    <2>11. CASE UNCHANGED vars
      BY <2>10, <2>11 DEF vars
    <2> QED
      BY <2>4, <2>5, <2>6, <2>7, <2>8, <2>9, <2>10, <2>11 DEF Next, Serve, Idle
  <1> QED
    BY <1>1, <1>2, TypeInvariant, HistoryInvariant, HandsInvariant, OwnFieldInvariant, PTL DEF Spec

-----------------------------------------------------------------------------
(* What a shutdown has seen                                                *)

Ended == {"removed", "done"}

\* A session is visited after Range began, and is done when Range goes on.  A
\* session that was there when Range began can only go on from there, and has
\* ended when Range is over.
Seen(p) ==
  /\ \A c \in visited[p] : session[c] = "done" \/ (stop[p] = "session" /\ c = current[p])
  /\ \A c \in present[p] : session[c] \in {"stored", "running"} \cup Ended
  /\ stop[p] = "idle" => capturedDone[p] = Nil
  /\ stop[p] \in {"idle", "flag", "listener", "range"} => present[p] = {}
  /\ stop[p] = "serve" => \A c \in present[p] : session[c] \in Ended
  /\ stop[p] = "returned" =>
       /\ capturedDone[p] \in served \cup {Nil}
       /\ \A c \in present[p] : session[c] \in Ended

Shutdowns == \A p \in Stops : Seen(p)

\* What a shutdown has seen of its snapshot of the session map has ended.
LEMMA ShutdownsInvariant == Spec => []Shutdowns
  <1> USE ServerAssumption
  <1>1. ASSUME Init PROVE Shutdowns
    BY <1>1 DEF Init, Shutdowns, Seen
  <1>2. TypeInv /\ Shutdowns /\ [Next]_vars => Shutdowns'
    <2> SUFFICES ASSUME TypeInv, Shutdowns, [Next]_vars PROVE Shutdowns'
      OBVIOUS
    <2> USE DEF TypeInv, TypeOK, Held, Holding, Shutdowns, Seen, Ended, StartStep, SessionStep, StopStep,
                fieldVars, startVars, clientVars, stopVars
    <2>1. ASSUME NEW i \in Starts, StartCall(i) PROVE Shutdowns'
      BY <2>1 DEF StartCall, StartRefused, StartFails, StartListening
    <2>2. ASSUME NEW i \in Starts, NEW c \in Clients, Accept(i, c) PROVE Shutdowns'
      BY <2>2 DEF Accept
    <2>3. ASSUME NEW i \in Starts, AcceptFails(i) \/ AcceptChecked(i) \/ UseDispatcher(i)
          PROVE Shutdowns'
      BY <2>3 DEF AcceptFails, AcceptChecked, UseDispatcher
    <2>4. ASSUME NEW i \in Starts, AcceptRejected(i) \/ AllocateRefused(i) PROVE Shutdowns'
      BY <2>4 DEF AcceptRejected, AllocateRefused
    <2>5. ASSUME NEW i \in Starts, StoreSession(i) PROVE Shutdowns'
      BY <2>5 DEF StoreSession
    <2>6. ASSUME NEW i \in Starts, StartLoops(i) PROVE Shutdowns'
      BY <2>6 DEF StartLoops
    <2>7. ASSUME NEW i \in Starts, DispatcherStop(i) \/ StartFinish(i) \/ StartReturn(i)
          PROVE Shutdowns'
      BY <2>7 DEF DispatcherStop, StartFinish, StartReturn
    <2>8. ASSUME NEW c \in Clients, Connect(c) PROVE Shutdowns'
      BY <2>8 DEF Connect
    <2>9. ASSUME NEW c \in Clients, SessionEnds(c) PROVE Shutdowns'
      BY <2>9 DEF SessionEnds
    <2>10. ASSUME NEW c \in Clients, SessionDone(c) \/ Stall(c) PROVE Shutdowns'
      BY <2>10 DEF SessionDone, Stall
    <2>11. ASSUME NEW p \in Stops, StopNotStarted(p) PROVE Shutdowns'
      BY <2>11 DEF StopNotStarted
    <2>12. ASSUME NEW p \in Stops, StopCapture(p) PROVE Shutdowns'
      BY <2>12 DEF StopCapture
    <2>13. ASSUME NEW p \in Stops, StopFlag(p) \/ StopListener(p) PROVE Shutdowns'
      BY <2>13 DEF StopFlag, StopListener
    <2>14. ASSUME NEW p \in Stops, StopRange(p) PROVE Shutdowns'
      BY <2>14 DEF StopRange
    <2>15. ASSUME NEW p \in Stops, NEW c \in Clients, StopVisit(p, c) PROVE Shutdowns'
      BY <2>15 DEF StopVisit
    <2>16. ASSUME NEW p \in Stops, StopSession(p) PROVE Shutdowns'
      BY <2>16 DEF StopSession
    <2>17. ASSUME NEW p \in Stops, StopRangeEnds(p) PROVE Shutdowns'
      BY <2>17 DEF StopRangeEnds
    <2>18. ASSUME NEW p \in Stops, StopReturn(p) PROVE Shutdowns'
      BY <2>18 DEF StopReturn
    <2>19. CASE UNCHANGED vars
      BY <2>19 DEF vars
    <2> QED
      BY <2>1, <2>2, <2>3, <2>4, <2>5, <2>6, <2>7, <2>8, <2>9, <2>10, <2>11, <2>12, <2>13,
         <2>14, <2>15, <2>16, <2>17, <2>18, <2>19
      DEF Next, Serve, Shutdown, Idle
  <1> QED
    BY <1>1, <1>2, TypeInvariant, PTL DEF Spec

-----------------------------------------------------------------------------
(* Connections that miss the walk of shutdown                              *)

\* A connection that its server has accepted and not yet given up.
Live == {"accepted", "stored", "running"}

\* The listener that shutdown has captured is closed for good.
Closed ==
  \A p \in Stops :
    /\ stop[p] = "idle" => capturedListener[p] = Nil
    /\ stop[p] \in {"range", "visit", "session", "serve", "returned"} => capturedListener[p] \notin open

\* No Start begins twice, so what is closed is not opened again.
LEMMA ClosedInvariant == Spec => []Closed
  <1> USE ServerAssumption
  <1>1. ASSUME Init PROVE Closed
    BY <1>1 DEF Init, Closed
  <1>2. TypeInv /\ FieldsInv /\ Closed /\ [Next]_vars => Closed'
    <2> SUFFICES ASSUME TypeInv, FieldsInv, Closed, [Next]_vars PROVE Closed'
      OBVIOUS
    <2> USE DEF TypeInv, TypeOK, FieldsInv, Captured, Launched, Closed, StartStep, StopStep,
                fieldVars, startVars, clientVars, stopVars
    <2>1. ASSUME NEW i \in Starts, StartCall(i) PROVE Closed'
      BY <2>1 DEF StartCall, StartRefused, StartFails, StartListening
    <2>2. ASSUME NEW i \in Starts, Serve(i)
          PROVE open' \subseteq open /\ UNCHANGED <<stop, capturedListener>>
      BY <2>2 DEF Serve, Accept, AcceptFails, AcceptRejected, AcceptChecked, AllocateRefused, UseDispatcher,
                  StoreSession, StartLoops, DispatcherStop, StartFinish, StartReturn
    <2>3. ASSUME NEW c \in Clients, Connect(c) \/ SessionEnds(c) \/ SessionDone(c) \/ Stall(c)
          PROVE UNCHANGED <<open, stop, capturedListener>>
      BY <2>3 DEF Connect, SessionEnds, SessionDone, Stall
    <2>4. ASSUME open' \subseteq open /\ UNCHANGED <<stop, capturedListener>> PROVE Closed'
      BY <2>4
    <2>5. ASSUME NEW p \in Stops, StopNotStarted(p) PROVE Closed'
      BY <2>5 DEF StopNotStarted
    <2>6. ASSUME NEW p \in Stops, StopCapture(p) \/ StopFlag(p) PROVE Closed'
      BY <2>6 DEF StopCapture, StopFlag
    <2>7. ASSUME NEW p \in Stops, StopListener(p) PROVE Closed'
      BY <2>7 DEF StopListener
    <2>8. ASSUME NEW p \in Stops, StopRange(p) \/ (\E c \in Clients : StopVisit(p, c)) \/ StopSession(p)
                   \/ StopRangeEnds(p) \/ StopReturn(p)
          PROVE Closed'
      BY <2>8 DEF StopRange, StopVisit, StopSession, StopRangeEnds, StopReturn
    <2>9. CASE UNCHANGED vars
      BY <2>4, <2>9 DEF vars
    <2> HIDE DEF Closed
    <2> QED
      BY <2>1, <2>2, <2>3, <2>4, <2>5, <2>6, <2>7, <2>8, <2>9 DEF Next, Shutdown, Idle
  <1> QED
    BY <1>1, <1>2, TypeInvariant, FieldsInvariant, PTL DEF Spec

\* The live connections of a listener that was not in the map when Range began.
Missed(p) ==
  {c \in Clients : c \notin present[p] /\ server[c] = capturedListener[p] /\ session[c] \in Live}

\* Once Range has begun at most one is missed.
OneMissed ==
  \A p \in Stops : stop[p] \in {"visit", "session", "serve", "returned"} /\ capturedListener[p] # Nil =>
    \A c, d \in Missed(p) : c = d

\* The one that the accept loop holds when Range begins; no other follows, as the
\* listener is closed.
LEMMA OneMissedInvariant == Spec => []OneMissed
  <1> USE ServerAssumption
  <1>1. ASSUME Init PROVE OneMissed
    BY <1>1 DEF Init, OneMissed
  <1>2. TypeInv /\ Hands /\ Closed /\ OneMissed /\ [Next]_vars => OneMissed'
    <2> SUFFICES ASSUME TypeInv, Hands, Closed, OneMissed, [Next]_vars PROVE OneMissed'
      OBVIOUS
    <2>1. ASSUME UNCHANGED <<stop, capturedListener, present>>,
                 \A p \in Stops : stop[p] \in {"visit", "session", "serve", "returned"} =>
                                    Missed(p)' \subseteq Missed(p)
          PROVE  OneMissed'
      BY <2>1 DEF OneMissed
    <2> USE DEF TypeInv, TypeOK, Held, Holding, Live, StartStep, SessionStep, StopStep,
                fieldVars, startVars, clientVars, stopVars
    <2>2. ASSUME NEW i \in Starts, NEW c \in Clients, Accept(i, c) PROVE OneMissed'
      <3>1. i \in open /\ server[c] = i /\ server' = server /\ session' = [session EXCEPT ![c] = "accepted"]
            /\ UNCHANGED <<stop, capturedListener, present>>
        BY <2>2 DEF Accept
      <3>2. ASSUME NEW p \in Stops, stop[p] \in {"visit", "session", "serve", "returned"}
            PROVE  Missed(p)' \subseteq Missed(p)
        BY <3>1, <3>2 DEF Missed, Closed
      <3> QED
        BY <2>1, <3>1, <3>2
    <2>3. ASSUME NEW i \in Starts, StoreSession(i) \/ StartLoops(i) PROVE OneMissed'
      <3>1. /\ accepted[i] \in Clients /\ session[accepted[i]] \in Live
            /\ \E to \in Live : session' = [session EXCEPT ![accepted[i]] = to]
            /\ UNCHANGED <<server, stop, capturedListener, present>>
        BY <2>3 DEF StoreSession, StartLoops
      <3>2. ASSUME NEW p \in Stops PROVE Missed(p)' \subseteq Missed(p)
        BY <3>1, <3>2 DEF Missed
      <3> QED
        BY <2>1, <3>1, <3>2
    <2>4. ASSUME NEW i \in Starts, StartCall(i) \/ AcceptFails(i) \/ AcceptChecked(i) \/ UseDispatcher(i)
                   \/ DispatcherStop(i) \/ StartFinish(i) \/ StartReturn(i)
          PROVE UNCHANGED <<server, session, stop, capturedListener, present>>
      BY <2>4 DEF StartCall, StartRefused, StartFails, StartListening, AcceptFails, AcceptChecked,
                  UseDispatcher, DispatcherStop, StartFinish, StartReturn
    <2>5. ASSUME UNCHANGED <<server, session, stop, capturedListener, present>> PROVE OneMissed'
      BY <2>1, <2>5 DEF Missed
    <2>6. ASSUME NEW i \in Starts, AcceptRejected(i) \/ AllocateRefused(i) PROVE OneMissed'
      <3>1. /\ session' = [session EXCEPT ![accepted[i]] = "rejected"]
            /\ UNCHANGED <<server, stop, capturedListener, present>>
        BY <2>6 DEF AcceptRejected, AllocateRefused
      <3>2. ASSUME NEW p \in Stops PROVE Missed(p)' \subseteq Missed(p)
        BY <3>1, <3>2 DEF Missed
      <3> QED
        BY <2>1, <3>1, <3>2
    <2>7. ASSUME NEW c \in Clients, Connect(c) \/ SessionEnds(c) \/ SessionDone(c) \/ Stall(c)
          PROVE OneMissed'
      <3>1. /\ \E to \in SessionStates \ Live : session' = [session EXCEPT ![c] = to] \/ session' = session
            /\ \A d \in Clients : server'[d] = server[d] \/ (d = c /\ session'[d] \notin Live)
            /\ UNCHANGED <<stop, capturedListener, present>>
        <4>1. CASE Connect(c)
          BY <4>1 DEF Connect, SessionStates
        <4>2. CASE SessionEnds(c) \/ SessionDone(c) \/ Stall(c)
          BY <4>2 DEF SessionEnds, SessionDone, Stall, SessionStates
        <4> QED
          BY <2>7, <4>1, <4>2
      <3>2. ASSUME NEW p \in Stops PROVE Missed(p)' \subseteq Missed(p)
        BY <3>1, <3>2 DEF Missed
      <3> QED
        BY <2>1, <3>1, <3>2
    <2>8. ASSUME NEW p \in Stops, StopRange(p) PROVE OneMissed'
      <3>1. /\ stop[p] = "range" /\ stop' = [stop EXCEPT ![p] = "visit"]
            /\ present' = [present EXCEPT ![p] = sessions]
            /\ UNCHANGED <<server, session, capturedListener>>
        BY <2>8 DEF StopRange
      <3>2. ASSUME NEW q \in Stops, stop'[q] \in {"visit", "session", "serve", "returned"},
                   capturedListener'[q] # Nil, NEW c \in Missed(q)', NEW d \in Missed(q)'
            PROVE  c = d
        <4>1. CASE q = p
          <5>1. session[c] = "accepted" /\ session[d] = "accepted" /\ server[c] = server[d]
            BY <3>1, <3>2, <4>1 DEF Missed
          <5>2. c \in Clients /\ d \in Clients
            BY <3>2 DEF Missed
          <5> QED
            BY <5>1, <5>2 DEF Hands
        <4>2. CASE q # p
          <5>1. stop[q] \in {"visit", "session", "serve", "returned"} /\ capturedListener[q] # Nil
            BY <3>1, <3>2, <4>2
          <5>2. c \in Missed(q) /\ d \in Missed(q)
            BY <3>1, <3>2, <4>2 DEF Missed
          <5> QED
            BY <5>1, <5>2 DEF OneMissed
        <4> QED
          BY <4>1, <4>2
      <3> QED
        BY <3>2 DEF OneMissed
    <2>9. ASSUME NEW p \in Stops,
                 StopNotStarted(p) \/ StopCapture(p) \/ StopFlag(p) \/ StopListener(p)
                   \/ (\E c \in Clients : StopVisit(p, c)) \/ StopSession(p) \/ StopRangeEnds(p) \/ StopReturn(p)
          PROVE OneMissed'
      <3>1. \A q \in Stops :
              stop'[q] \in {"visit", "session", "serve", "returned"} /\ capturedListener'[q] # Nil =>
                /\ stop[q] \in {"visit", "session", "serve", "returned"}
                /\ capturedListener'[q] = capturedListener[q]
        BY <2>9 DEF StopNotStarted, StopCapture, StopFlag, StopListener, StopVisit, StopSession,
                    StopRangeEnds, StopReturn, Closed
      <3>2. UNCHANGED <<server, session, present>>
        BY <2>9 DEF StopNotStarted, StopCapture, StopFlag, StopListener, StopVisit, StopSession,
                    StopRangeEnds, StopReturn
      <3> QED
        BY <3>1, <3>2 DEF OneMissed, Missed
    <2>10. CASE UNCHANGED vars
      BY <2>5, <2>10 DEF vars
    <2> QED
      BY <2>2, <2>3, <2>4, <2>5, <2>6, <2>7, <2>8, <2>9, <2>10 DEF Next, Serve, Shutdown, Idle
  <1> QED
    BY <1>1, <1>2, TypeInvariant, HandsInvariant, ClosedInvariant, PTL DEF Spec

-----------------------------------------------------------------------------
(* Who ends a Start                                                        *)

Solo(i) == \A j \in Starts \ {i} : ~Overlap(i, j)

\* A call of shutdown has captured what i published.
Answered(i) == \E q \in Stops : stop[q] # "idle" /\ capturedDone[q] = i

\* A Start that no other overlaps is there to be captured or has been captured,
\* also when a call finds nothing to do.
Answers ==
  /\ \A i \in Starts : Within(i) /\ Solo(i) => (started /\ serveDone = i) \/ Answered(i)
  /\ \A p \in Stops : \A i \in servingAtCall[p] : Solo(i) => Answered(i)

\* A capture is kept.
LEMMA AnsweredStays ==
  ASSUME TypeInv, [Next]_vars, NEW i \in Starts, Answered(i)
  PROVE  Answered(i)'
  <1> USE DEF TypeInv, TypeOK, StopStep, fieldVars, startVars, clientVars, stopVars
  <1>1. PICK q \in Stops : stop[q] # "idle" /\ capturedDone[q] = i
    BY DEF Answered
  <1>2. stop'[q] # "idle" /\ capturedDone'[q] = i
    <2>1. ASSUME NEW k \in Starts, StartCall(k) \/ Serve(k) PROVE UNCHANGED <<stop, capturedDone>>
      BY <2>1 DEF StartCall, StartRefused, StartFails, StartListening, Serve, Accept, AcceptFails,
                  AcceptRejected, AcceptChecked, AllocateRefused, UseDispatcher, StoreSession, StartLoops,
                  DispatcherStop, StartFinish, StartReturn
    <2>2. ASSUME NEW c \in Clients, Connect(c) \/ SessionEnds(c) \/ SessionDone(c) \/ Stall(c)
          PROVE UNCHANGED <<stop, capturedDone>>
      BY <2>2 DEF Connect, SessionEnds, SessionDone, Stall
    <2>3. ASSUME NEW p \in Stops, StopNotStarted(p) \/ StopCapture(p)
          PROVE stop'[q] # "idle" /\ capturedDone'[q] = i
      BY <1>1, <2>3 DEF StopNotStarted, StopCapture
    <2>4. ASSUME NEW p \in Stops, Shutdown(p) PROVE stop'[q] # "idle" /\ capturedDone'[q] = i
      BY <1>1, <2>4 DEF Shutdown, StopFlag, StopListener, StopRange, StopVisit, StopSession, StopRangeEnds,
                        StopReturn
    <2>5. CASE UNCHANGED vars
      BY <1>1, <2>5 DEF vars
    <2> QED
      BY <1>1, <2>1, <2>2, <2>3, <2>4, <2>5 DEF Next, Idle
  <1> QED
    BY <1>1, <1>2 DEF Answered

\* Only the last section of Start and the capture of a shutdown clear started, and
\* the former is not run by an overlapping Start.
LEMMA AnswersInvariant == Spec => []Answers
  <1> USE ServerAssumption
  <1>1. ASSUME Init PROVE Answers
    BY <1>1 DEF Init, Answers, Within, Serving
  <1>2. TypeInv /\ History /\ Answers /\ [Next]_vars => Answers'
    <2> SUFFICES ASSUME TypeInv, History, Answers, [Next]_vars PROVE Answers'
      OBVIOUS
    <2>1. ASSUME NEW i \in Starts, Solo(i)' PROVE Solo(i)
      BY <2>1, StepGrows DEF Grows, Solo, Overlap
    <2>2. ASSUME NEW i \in Starts, Within(i), Solo(i)',
                 UNCHANGED <<started, serveDone>> \/ (started' /\ serveDone' = i)
          PROVE  (started' /\ serveDone' = i) \/ Answered(i)'
      BY <2>1, <2>2, AnsweredStays DEF Answers
    <2>3. ASSUME NEW p \in Stops, NEW i \in servingAtCall[p], Solo(i)' PROVE Answered(i)'
      <3>1. i \in Starts
        BY DEF TypeInv, TypeOK
      <3> QED
        BY <2>1, <2>3, <3>1, AnsweredStays DEF Answers
    <2>4. ASSUME UNCHANGED <<started, serveDone, servingAtCall>>, \A i \in Starts : Within(i)' => Within(i)
          PROVE  Answers'
      BY <2>2, <2>3, <2>4 DEF Answers
    <2> USE DEF TypeInv, TypeOK, Within, Serving, StartStep, StopStep,
                fieldVars, startVars, clientVars, stopVars
    <2>5. ASSUME NEW k \in Starts, StartRefused(k) \/ StartFails(k) PROVE Answers'
      BY <2>4, <2>5 DEF StartRefused, StartFails
    <2>6. ASSUME NEW k \in Starts, StartListening(k) PROVE Answers'
      <3>1. /\ started' /\ serveDone' = k /\ servingAtCall' = servingAtCall
            /\ unended' = [unended EXCEPT ![k] = {j \in Starts : Within(j)}]
            /\ start' = [start EXCEPT ![k] = "accept"]
        BY <2>6 DEF StartListening
      <3>2. ASSUME NEW i \in Starts, Within(i)', Solo(i)' PROVE i = k
        BY <3>1, <3>2 DEF Solo, Overlap
      <3> QED
        BY <2>3, <3>1, <3>2 DEF Answers
    <2>7. ASSUME NEW k \in Starts, StartFinish(k) PROVE Answers'
      <3>1. /\ start[k] = "finish" /\ start' = [start EXCEPT ![k] = "close"] /\ servingAtCall' = servingAtCall
        BY <2>7 DEF StartFinish
      <3>2. ASSUME NEW i \in Starts, Within(i)', Solo(i)' PROVE FALSE
        <4>1. Within(i) /\ Within(k) /\ i # k
          BY <3>1, <3>2
        <4> QED
          BY <2>1, <3>2, <4>1 DEF History, Solo
      <3> QED
        BY <2>3, <3>1, <3>2 DEF Answers
    <2>8. ASSUME NEW k \in Starts, Serve(k), ~StartFinish(k) PROVE Answers'
      <3>1. UNCHANGED <<started, serveDone, servingAtCall>> /\ \A i \in Starts : Within(i)' => Within(i)
        BY <2>8 DEF Serve, Accept, AcceptFails, AcceptRejected, AcceptChecked, AllocateRefused,
                    UseDispatcher, StoreSession, StartLoops, DispatcherStop, StartReturn
      <3> QED
        BY <2>4, <3>1
    <2>9. ASSUME NEW c \in Clients, Connect(c) \/ SessionEnds(c) \/ SessionDone(c) \/ Stall(c)
          PROVE UNCHANGED <<started, serveDone, servingAtCall, start>>
      BY <2>9 DEF Connect, SessionEnds, SessionDone, Stall
    <2>10. ASSUME NEW p \in Stops, Shutdown(p) PROVE UNCHANGED <<started, serveDone, servingAtCall, start>>
      BY <2>10 DEF Shutdown, StopFlag, StopListener, StopRange, StopVisit, StopSession, StopRangeEnds, StopReturn
    <2>11. ASSUME UNCHANGED <<started, serveDone, servingAtCall, start>> PROVE Answers'
      BY <2>4, <2>11
    <2>12. ASSUME NEW p \in Stops, StopNotStarted(p) \/ StopCapture(p) PROVE Answers'
      <3>1. /\ stop'[p] # "idle" /\ start' = start /\ ~started'
            /\ servingAtCall' = [servingAtCall EXCEPT ![p] = {i \in Starts : Serving(i)}]
            /\ started => capturedDone'[p] = serveDone
        BY <2>12 DEF StopNotStarted, StopCapture
      <3>2. ASSUME NEW i \in Starts, Within(i), Solo(i)' PROVE Answered(i)'
        <4>1. CASE started /\ serveDone = i
          BY <3>1, <4>1 DEF Answered
        <4>2. CASE Answered(i)
          BY <4>2, AnsweredStays
        <4> QED
          BY <2>1, <3>2, <4>1, <4>2 DEF Answers
      <3>3. ASSUME NEW q \in Stops, NEW i \in servingAtCall'[q], Solo(i)' PROVE Answered(i)'
        <4>1. CASE q = p
          BY <3>1, <3>2, <3>3, <4>1
        <4>2. CASE q # p
          BY <2>3, <3>1, <3>3, <4>2
        <4> QED
          BY <4>1, <4>2
      <3> QED
        BY <3>1, <3>2, <3>3 DEF Answers
    <2>13. CASE UNCHANGED vars
      BY <2>11, <2>13 DEF vars
    <2> HIDE DEF Answers, TypeInv, History
    <2> QED
      BY <2>5, <2>6, <2>7, <2>8, <2>9, <2>10, <2>11, <2>12, <2>13 DEF Next, StartCall, Idle
  <1> QED
    BY <1>1, <1>2, TypeInvariant, HistoryInvariant, PTL DEF Spec

-----------------------------------------------------------------------------
(* Theorems                                                                *)

\* Every field, local variable and map of server.go holds what it is declared
\* to hold; in particular s.sessions is the sessions that are stored or running.
THEOREM TypeCorrect == Spec => []TypeOK
  BY TypeInvariant, PTL DEF TypeInv

\* Start and shutdown, under s.mu: whenever started is set, listener, serveDone
\* and dispatcher name one Start, which is still there to be stopped.
THEOREM StartedServes == Spec => []StartedMeansServing
  BY FieldsInvariant, PTL DEF FieldsInv

\* serveDefaultRuntime's unlocked read of s.dispatcher, at any moment after the test
\* of s.done and beside every step of shutdown: a session submits to the dispatcher
\* of the Start that accepted it, which runs, unless the field was overwritten by a
\* later Start or cleared by one that overlapped with this one.
THEOREM DispatcherIsOwn == Spec => []OwnDispatcher
  <1>1. TypeInv /\ Phases /\ OwnBinding => OwnDispatcher
    BY DEF Phases, OwnBinding, OwnDispatcher, Readable, Serving, Finished
  <1> QED
    BY <1>1, TypeInvariant, PhasesInvariant, OwnBindingInvariant, PTL

\* shutdown returns only after the listener it captured is closed, the
\* dispatcher stopped and every session it found ended.
THEOREM StopHasWaited == Spec => []StopWaits
  <1>1. TypeInv /\ Phases /\ Shutdowns => StopWaits
    <2> SUFFICES ASSUME TypeInv, Phases, Shutdowns,
                        NEW p \in Stops, stop[p] = "returned", capturedDone[p] # Nil
                 PROVE  /\ capturedDone[p] \notin open \cup dispatchers
                        /\ \A c \in present[p] : session[c] \in {"removed", "done"}
      BY DEF StopWaits
    <2>1. Seen(p)
      BY DEF Shutdowns
    <2>2. capturedDone[p] \in Starts /\ start[capturedDone[p]] = "returned"
      BY <2>1 DEF Seen, Phases, TypeInv, TypeOK
    <2>3. capturedDone[p] \notin open \cup dispatchers
      BY <2>2 DEF Phases, Serving
    <2> QED
      BY <2>1, <2>3 DEF Seen, Ended
  <1> QED
    BY <1>1, TypeInvariant, PhasesInvariant, ShutdownsInvariant, PTL

\* serveDefaultRuntime against the walk of shutdown over s.sessions: of the
\* connections of a listener that Stop or Close has closed, at most one is still
\* alive when the call returns.
THEOREM OneOutlivesStop == Spec => []AtMostOneLate
  <1>1. TypeInv /\ Shutdowns /\ OneMissed => AtMostOneLate
    <2> SUFFICES ASSUME TypeInv, Shutdowns, OneMissed,
                        NEW p \in Stops, stop[p] = "returned", capturedListener[p] # Nil,
                        NEW c \in Clients, NEW d \in Clients,
                        {server[c], server[d]} = {capturedListener[p]},
                        {session[c], session[d]} \subseteq {"accepted", "stored", "running"}
                 PROVE  c = d
      BY DEF AtMostOneLate
    <2>1. c \notin present[p] /\ d \notin present[p]
      BY DEF Shutdowns, Seen, Ended
    <2>2. c \in Missed(p) /\ d \in Missed(p)
      BY <2>1 DEF Missed, Live
    <2> QED
      BY <2>2 DEF OneMissed
  <1> QED
    BY <1>1, TypeInvariant, ShutdownsInvariant, OneMissedInvariant, PTL

\* Start against any number of calls of Stop and Close: when all of these have
\* returned, also those that found nothing started, a Start that served when one of
\* them was made has returned, unless another Start overlapped it.
THEOREM StopsHaveEnded == Spec => []StopsEndStart
  <1> USE ServerAssumption
  <1>1. TypeInv /\ Phases /\ Shutdowns /\ Answers => StopsEndStart
    <2> SUFFICES ASSUME TypeInv, Phases, Shutdowns, Answers, Quiet,
                        NEW p \in Stops, NEW i \in servingAtCall[p],
                        \A j \in Starts \ {i} : ~Overlap(i, j)
                 PROVE  start[i] = "returned"
      BY DEF StopsEndStart
    <2>1. PICK q \in Stops : stop[q] # "idle" /\ capturedDone[q] = i
      BY DEF Answers, Solo, Answered
    <2>2. stop[q] = "returned" /\ i \in Starts
      BY <2>1 DEF Quiet, TypeInv, TypeOK
    <2>3. i \in served
      BY <2>1, <2>2 DEF Shutdowns, Seen
    <2> QED
      BY <2>2, <2>3 DEF Phases
  <1> QED
    BY <1>1, TypeInvariant, PhasesInvariant, ShutdownsInvariant, AnswersInvariant, PTL
=============================================================================
