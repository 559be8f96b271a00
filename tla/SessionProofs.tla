---------------------------- MODULE SessionProofs ----------------------------
(***************************************************************************)
(* The safety of Session, and that it implements Conversation, for every   *)
(* number of requests, in-flight limit and channel capacity.  The          *)
(* inductive invariant is layered: Core has the types, how far the         *)
(* submission of each request is, and the in-flight count; Places says     *)
(* where a reply can be, Scopes which memory scopes are open, Order the    *)
(* order of the replies when one request at a time is in flight, and       *)
(* OwnEnd what a session that ends by itself leaves behind.                *)
(***************************************************************************)
EXTENDS Session, FiniteSetTheorems, TLAPS

-----------------------------------------------------------------------------
(* Sequences: the elements of channels, batches and bytes on the connection *)

Elems(s) == {s[i] : i \in 1..Len(s)}

\* A send puts one element in a channel and keeps the others.
LEMMA AppendFacts ==
  ASSUME NEW S, NEW s \in Seq(S), NEW e \in S
  PROVE  /\ Append(s, e) \in Seq(S)
         /\ Len(Append(s, e)) = Len(s) + 1
         /\ Elems(Append(s, e)) = Elems(s) \cup {e}
  BY DEF Elems

\* A receive takes the head of a channel and leaves the others.
LEMMA TailFacts ==
  ASSUME NEW S, NEW s \in Seq(S), s # <<>>
  PROVE  /\ Head(s) \in S
         /\ Tail(s) \in Seq(S)
         /\ Len(s) \in Nat \ {0}
         /\ Len(Tail(s)) = Len(s) - 1
         /\ Elems(s) = {Head(s)} \cup Elems(Tail(s))
  <1>1. /\ Head(s) \in S /\ Tail(s) \in Seq(S)
        /\ Len(s) \in Nat \ {0} /\ Len(Tail(s)) = Len(s) - 1
    OBVIOUS
  <1>2. Head(s) = s[1] /\ \A i \in 1..Len(Tail(s)) : Tail(s)[i] = s[i + 1]
    OBVIOUS
  <1>3. Elems(s) \subseteq {Head(s)} \cup Elems(Tail(s))
    <2> SUFFICES ASSUME NEW i \in 1..Len(s), i # 1
                 PROVE  s[i] \in Elems(Tail(s))
      BY <1>2 DEF Elems
    <2>1. i - 1 \in 1..Len(Tail(s)) /\ Tail(s)[i - 1] = s[i]
      BY <1>1, <1>2
    <2> QED
      BY <2>1 DEF Elems
  <1>4. {Head(s)} \cup Elems(Tail(s)) \subseteq Elems(s)
    BY <1>1, <1>2 DEF Elems
  <1> QED
    BY <1>1, <1>3, <1>4

\* The empty sequence.
LEMMA EmptyFacts ==
  ASSUME NEW S
  PROVE  <<>> \in Seq(S) /\ Len(<<>>) = 0 /\ Elems(<<>>) = {}
  BY DEF Elems

NoRepeats(s) == \A i, j \in 1..Len(s) : s[i] = s[j] => i = j

\* A new sequence of one element.
LEMMA OneElement ==
  ASSUME NEW S, NEW e \in S
  PROVE  /\ <<e>> \in Seq(S) /\ <<e>> # <<>> /\ Len(<<e>>) = 1 /\ <<e>>[1] = e
         /\ Elems(<<e>>) = {e} /\ NoRepeats(<<e>>)
  <1>1. <<e>> \in Seq(S) /\ <<e>> # <<>> /\ Len(<<e>>) = 1 /\ <<e>>[1] = e
    OBVIOUS
  <1> QED
    BY <1>1 DEF Elems, NoRepeats

\* A new element does not repeat an old one.
LEMMA AppendNoRepeats ==
  ASSUME NEW S, NEW s \in Seq(S), NEW e \in S, NoRepeats(s), e \notin Elems(s)
  PROVE  NoRepeats(Append(s, e))
  BY DEF NoRepeats, Elems

\* The head of a sequence without repetitions is not in its tail.
LEMMA TailNoRepeats ==
  ASSUME NEW S, NEW s \in Seq(S), s # <<>>, NoRepeats(s)
  PROVE  NoRepeats(Tail(s)) /\ Head(s) \notin Elems(Tail(s))
  <1>1. /\ Len(s) \in Nat \ {0} /\ Len(Tail(s)) = Len(s) - 1 /\ Head(s) = s[1]
        /\ \A i \in 1..Len(Tail(s)) : Tail(s)[i] = s[i + 1]
    OBVIOUS
  <1>2. NoRepeats(Tail(s))
    BY <1>1 DEF NoRepeats
  <1>3. Head(s) \notin Elems(Tail(s))
    BY <1>1 DEF NoRepeats, Elems
  <1> QED
    BY <1>2, <1>3

\* A send puts the element at the end and moves no other.
LEMMA AppendLast ==
  ASSUME NEW S, NEW s \in Seq(S), NEW x \in S
  PROVE  /\ Append(s, x) # <<>> /\ Append(s, x)[Len(Append(s, x))] = x
         /\ Len(Append(s, x)) = Len(s) + 1
         /\ \A i \in 1..Len(s) : Append(s, x)[i] = s[i]
  OBVIOUS

\* A receive moves every other element one place to the front.
LEMMA TailShifts ==
  ASSUME NEW S, NEW s \in Seq(S), s # <<>>
  PROVE  /\ Head(s) = s[1] /\ Len(s) \in Nat \ {0} /\ Len(Tail(s)) = Len(s) - 1
         /\ \A i \in 1..Len(Tail(s)) : Tail(s)[i] = s[i + 1]
  OBVIOUS

\* A write puts the elements of a buffer, in their order, after what is there.
LEMMA ConcatFacts ==
  ASSUME NEW S, NEW s \in Seq(S), NEW t \in Seq(S)
  PROVE  /\ s \o t \in Seq(S)
         /\ Len(s \o t) = Len(s) + Len(t)
         /\ \A i \in 1..Len(s) : (s \o t)[i] = s[i]
         /\ \A i \in 1..Len(t) : (s \o t)[Len(s) + i] = t[i]
         /\ Elems(s \o t) = Elems(s) \cup Elems(t)
  <1>1. /\ s \o t \in Seq(S) /\ Len(s \o t) = Len(s) + Len(t)
        /\ Len(s) \in Nat /\ Len(t) \in Nat
        /\ \A i \in 1..(Len(s) + Len(t)) :
             (s \o t)[i] = IF i <= Len(s) THEN s[i] ELSE t[i - Len(s)]
    OBVIOUS
  <1>2. \A i \in 1..Len(s) : (s \o t)[i] = s[i]
    BY <1>1
  <1>3. \A i \in 1..Len(t) : (s \o t)[Len(s) + i] = t[i]
    <2> SUFFICES ASSUME NEW i \in 1..Len(t) PROVE (s \o t)[Len(s) + i] = t[i]
      OBVIOUS
    <2>1. Len(s) + i \in 1..(Len(s) + Len(t)) /\ ~(Len(s) + i <= Len(s)) /\ (Len(s) + i) - Len(s) = i
      BY <1>1
    <2> QED
      BY <1>1, <2>1
  <1>4. Elems(s) \cup Elems(t) \subseteq Elems(s \o t)
    <2>1. \A i \in 1..Len(s) : i \in 1..Len(s \o t)
      BY <1>1
    <2>2. \A i \in 1..Len(t) : Len(s) + i \in 1..Len(s \o t)
      BY <1>1
    <2> QED
      BY <1>2, <1>3, <2>1, <2>2 DEF Elems
  <1>5. Elems(s \o t) \subseteq Elems(s) \cup Elems(t)
    <2> SUFFICES ASSUME NEW i \in 1..(Len(s) + Len(t))
                 PROVE  (s \o t)[i] \in Elems(s) \cup Elems(t)
      BY <1>1 DEF Elems
    <2>1. CASE i <= Len(s)
      BY <1>1, <2>1 DEF Elems
    <2>2. CASE ~(i <= Len(s))
      <3>1. i - Len(s) \in 1..Len(t) /\ (s \o t)[i] = t[i - Len(s)]
        BY <1>1, <2>2
      <3> QED
        BY <3>1 DEF Elems
    <2> QED
      BY <2>1, <2>2
  <1> QED
    BY <1>1, <1>2, <1>3, <1>4, <1>5

\* Two buffers without repetitions and with nothing in common make one.
LEMMA ConcatNoRepeats ==
  ASSUME NEW S, NEW s \in Seq(S), NEW t \in Seq(S), NoRepeats(s), NoRepeats(t),
         Elems(s) \cap Elems(t) = {}
  PROVE  NoRepeats(s \o t)
  <1> DEFINE u == s \o t
  <1>0. /\ Len(s) \in Nat /\ Len(t) \in Nat /\ Len(u) = Len(s) + Len(t)
        /\ \A i \in 1..Len(u) : u[i] = IF i <= Len(s) THEN s[i] ELSE t[i - Len(s)]
    OBVIOUS
  <1> HIDE DEF u
  <1> SUFFICES ASSUME NEW i \in 1..Len(u), NEW j \in 1..Len(u), u[i] = u[j]
               PROVE  i = j
    BY DEF NoRepeats, u
  <1>1. i \in 1..(Len(s) + Len(t)) /\ j \in 1..(Len(s) + Len(t)) /\ u[i] = u[j]
    BY <1>0
  <1>2. \A k \in 1..Len(s), l \in 1..Len(t) : s[k] # t[l]
    BY DEF Elems
  <1>3. \A k \in 1..(Len(s) + Len(t)) : k <= Len(s) => k \in 1..Len(s) /\ u[k] = s[k]
    BY <1>0
  <1>4. \A k \in 1..(Len(s) + Len(t)) : ~(k <= Len(s)) => k - Len(s) \in 1..Len(t) /\ u[k] = t[k - Len(s)]
    BY <1>0
  <1>5. CASE i <= Len(s)
    <2>1. i \in 1..Len(s) /\ u[i] = s[i]
      BY <1>1, <1>3, <1>5
    <2>2. j <= Len(s)
      BY <1>1, <1>2, <1>4, <2>1
    <2>3. j \in 1..Len(s) /\ s[j] = s[i]
      BY <1>1, <1>3, <2>1, <2>2
    <2> QED
      BY <2>1, <2>3 DEF NoRepeats
  <1>6. CASE ~(i <= Len(s))
    <2>1. i - Len(s) \in 1..Len(t) /\ u[i] = t[i - Len(s)]
      BY <1>1, <1>4, <1>6
    <2>2. ~(j <= Len(s))
      BY <1>1, <1>2, <1>3, <2>1
    <2>3. j - Len(s) \in 1..Len(t) /\ t[j - Len(s)] = t[i - Len(s)]
      BY <1>1, <1>4, <2>1, <2>2
    <2>4. i - Len(s) = j - Len(s)
      BY <2>1, <2>3 DEF NoRepeats
    <2> QED
      BY <1>0, <1>1, <2>4
  <1> QED
    BY <1>5, <1>6

\* A sequence without repetitions is no longer than its elements are many.
LEMMA NoRepeatsLength ==
  ASSUME NEW S, NEW s \in Seq(S), NoRepeats(s), NEW T, IsFiniteSet(T), Elems(s) \subseteq T
  PROVE  Len(s) <= Cardinality(T)
  <1>1. Len(s) \in Nat /\ IsFiniteSet(1..Len(s)) /\ Cardinality(1..Len(s)) = Len(s)
    <2>1. Len(s) \in Nat
      OBVIOUS
    <2> QED
      BY <2>1, FS_Interval
  <1>2. s \in Injection(1..Len(s), T)
    <2>1. s \in [1..Len(s) -> T]
      BY DEF Elems
    <2> QED
      BY <2>1 DEF Injection, IsInjective, NoRepeats
  <1> QED
    BY <1>1, <1>2, FS_Injection

-----------------------------------------------------------------------------
(* Groups of steps                                                         *)

Callers == MainLoop \/ Stop \/ StopReturn \/ CloseNow \/ CloseCall

Waiting(k) ==
  \/ WaiterResult(k) \/ HandleResponseCheck(k) \/ HandleResponseStopped(k)

\* StartLoops' goroutine and the callers of Stop and Close touch nothing that
\* the loops and the waiters work on.
LEMMA CallersUnchanged ==
  ASSUME Callers PROVE UNCHANGED callerUnchanged
  BY DEF Callers, MainLoop, CloseCall, CloseConn, OnRemove, Done, Stop, StopReturn, CloseNow,
         CloseNowLock, CloseNowClose, CloseNowReturn

\* Nor do the client and the dispatcher, but for their own variables.
LEMMA EventsUnchanged ==
  /\ ClientEvents =>
       UNCHANGED <<connVars, callerVars, serviceVars, stopping, inflight, responses, batch, scope,
                   read, write, waiter>>
  /\ DispatcherEvents => UNCHANGED dispatcherUnchanged
  BY DEF ClientEvents, ClientSends, ClientChanges, DispatcherEvents, DispatcherAnswers,
         DispatcherStops

-----------------------------------------------------------------------------
(* Types, submissions and the count                                        *)

\* readLoop has a request while it counts and submits it, writeLoop a reply
\* while it writes one.
Began ==
  /\ read \in {"count", "submit"} => taken # 0
  /\ write = "write" => batch # <<>>

Submitted(k) == phase[k] \in {"accepted", "answered"}

\* Requests are submitted one by one in the order in which they were parsed; a
\* refusal ends readLoop; a waiter runs for each accepted request, and goes on
\* when it is answered.
Submissions ==
  \A k \in Requests :
    /\ k < taken => Submitted(k)
    /\ k > taken => phase[k] = "idle"
    /\ k = taken =>
         /\ read = "count" => phase[k] = "idle"
         /\ read = "submit" => phase[k] \in {"idle", "calling"}
         /\ read \in {"gate", "arm", "lock", "read"} => Submitted(k)
         /\ read \in {"leave", "exited"} => Submitted(k) \/ phase[k] = "refused"
    /\ waiter[k] = "none" <=> ~Submitted(k)
    /\ waiter[k] \in {"check", "select", "decrement", "exited"} => phase[k] = "answered"

\* Past the gate there is room for one more.
Counting ==
  /\ InflightExact
  /\ read \in {"arm", "lock", "read", "count"} => inflight < MaxInFlight

Core == TypeOK /\ Began /\ Submissions /\ Counting

\* There are finitely many requests, so those in flight can be counted.
LEMMA InFlightFinite == IsFiniteSet(InFlight) /\ Cardinality(InFlight) \in Nat
  <1>1. IsFiniteSet(Requests)
    BY SessionAssumption, FS_Interval DEF Requests
  <1>2. InFlight \subseteq Requests
    BY DEF InFlight
  <1> QED
    BY <1>1, <1>2, FS_Subset, FS_CardinalityType

\* Types, and the values that each point of readLoop and writeLoop relies on.
LEMMA CoreTypes == Core /\ [Next]_vars => TypeOK' /\ Began'
  <1> SUFFICES ASSUME Core, [Next]_vars PROVE TypeOK' /\ Began'
    OBVIOUS
  <1> USE SessionAssumption
      DEF Core, TypeOK, Began, ReadStates, WriteStates, WaiterStates, MainStates, ScopeStates,
          Service!STypeOK, Service!Phases, Service!Modes, Service!Move,
          clientVars, connVars, callerVars, serviceVars, Requests, Scopes
  <1>1. CASE ClientEvents
    <2>1. CASE ClientSends
      BY <2>1 DEF ClientSends
    <2>2. ASSUME NEW event, NEW from, NEW to \in {"stalled", "gone"}, ClientChanges(event, from, to)
          PROVE  TypeOK' /\ Began'
      BY <2>2 DEF ClientChanges
    <2> QED
      BY <1>1, <2>1, <2>2 DEF ClientEvents
  <1>2. ASSUME NEW k \in Requests, DispatcherAnswers(k) PROVE TypeOK' /\ Began'
    BY <1>2 DEF DispatcherAnswers, dispatcherUnchanged, Service!Answer
  <1>3. CASE DispatcherStops
    BY <1>3 DEF DispatcherStops, dispatcherUnchanged, Service!BeginStop, Service!EndStop
  <1>4. CASE GateStop \/ GatePoll \/ ReadLock \/ ReadLeave
    <2>1. CASE GateStop
      BY <2>1 DEF GateStop, readUnchanged
    <2>2. CASE GatePoll
      BY <2>2 DEF GatePoll, vars
    <2>3. CASE ReadLock
      BY <2>3 DEF ReadLock, readUnchanged
    <2>4. CASE ReadLeave
      BY <2>4 DEF ReadLeave, readUnchanged
    <2> QED
      BY <1>4, <2>1, <2>2, <2>3, <2>4
  <1>5. CASE GatePass
    BY <1>5 DEF GatePass, readUnchanged
  <1>6. CASE ReadArm
    BY SMTT(30), <1>6 DEF ReadArm, readUnchanged, Release
  <1>7. CASE ReadFill
    BY <1>7 DEF ReadFill, readUnchanged
  <1>8. CASE ReadParse
    BY <1>8 DEF ReadParse, readUnchanged
  <1>9. CASE ReadFail
    BY <1>9 DEF ReadFail, readUnchanged, Release
  <1>10. CASE ReadCount
    BY <1>10 DEF ReadCount, readUnchanged, Counting
  <1>11. CASE SubmitCall
    BY <1>11 DEF SubmitCall, readUnchanged, Service!Call
  <1>12. CASE SubmitAccepted
    BY <1>12 DEF SubmitAccepted, readUnchanged, Service!Accept
  <1>13. CASE SubmitRefused
    <2>1. inflight \in 1..MaxInFlight
      BY <1>13, InFlightFinite DEF SubmitRefused, Counting, InflightExact
    <2>2. phase' \in [Requests -> Service!Phases]
      BY <1>13 DEF SubmitRefused, Service!Refuse
    <2>3. scope' \in [Scopes -> ScopeStates]
      BY <1>13 DEF SubmitRefused, Release
    <2> QED
      BY <1>13, <2>1, <2>2, <2>3 DEF SubmitRefused, readUnchanged, Service!Refuse
  <1>14. ASSUME NEW k \in Requests, Waiting(k) PROVE TypeOK' /\ Began'
    <2>1. waiter' \in [Requests -> WaiterStates]
      BY <1>14 DEF Waiting, WaiterResult, HandleResponseCheck, HandleResponseStopped, WaiterStep
    <2>2. UNCHANGED <<waiterUnchanged, inflight, responses>>
      BY <1>14 DEF Waiting, WaiterResult, HandleResponseCheck, HandleResponseStopped
    <2> QED
      BY <2>1, <2>2 DEF waiterUnchanged
  <1>15. ASSUME NEW k \in Requests, HandleResponseSend(k) PROVE TypeOK' /\ Began'
    <2>1. responses' \in Seq(Requests) /\ Len(responses') <= ResponseCap
      BY <1>15, AppendFacts DEF HandleResponseSend
    <2> QED
      BY <1>15, <2>1 DEF HandleResponseSend, WaiterStep, waiterUnchanged
  <1>16. ASSUME NEW k \in Requests, DecrementInflight(k) PROVE TypeOK' /\ Began'
    BY <1>16 DEF DecrementInflight, WaiterStep, waiterUnchanged
  <1>17. CASE TakeFirst \/ TakeMore
    <2>1. responses # <<>> => /\ Head(responses) \in Requests /\ Tail(responses) \in Seq(Requests)
                              /\ Len(Tail(responses)) <= ResponseCap
      BY TailFacts
    <2>2. ASSUME NEW k \in Requests
          PROVE  /\ <<k>> \in Seq(Requests) /\ <<k>> # <<>>
                 /\ Append(batch, k) \in Seq(Requests) /\ Append(batch, k) # <<>>
      <3>1. <<k>> \in Seq(Requests) /\ <<k>> # <<>>
        BY OneElement
      <3>2. Append(batch, k) \in Seq(Requests)
        BY AppendFacts
      <3>3. Append(batch, k) # <<>>
        <4> HIDE DEF Core, TypeOK, Began
        <4>1. batch \in Seq(Requests)
          BY DEF Core, TypeOK
        <4> QED
          BY <4>1, AppendLast
      <3> QED
        BY <3>1, <3>2, <3>3
    <2>3. CASE TakeFirst
      BY <2>3, <2>1, <2>2 DEF TakeFirst, writeUnchanged
    <2>4. CASE TakeMore /\ responses = <<>>
      BY <2>4 DEF TakeMore, writeUnchanged
    <2>5. CASE TakeMore /\ responses # <<>>
      <3>1. /\ batch' \in Seq(Requests) /\ batch' # <<>>
            /\ responses' \in Seq(Requests) /\ Len(responses') <= ResponseCap
        BY <2>5, <2>1, <2>2 DEF TakeMore
      <3> QED
        BY <2>5, <3>1 DEF TakeMore, writeUnchanged
    <2> QED
      BY <1>17, <2>3, <2>4, <2>5
  <1>18. CASE TakeStop \/ FlushLock
    <2>1. CASE TakeStop
      BY <2>1 DEF TakeStop, writeUnchanged
    <2>2. CASE FlushLock
      BY <2>2 DEF FlushLock, writeUnchanged
    <2> QED
      BY <1>18, <2>1, <2>2
  <1>19. CASE WriteReply
    <2>1. Append(wbuf, batch[Len(batch)]) \in Seq(Requests)
      BY <1>19 DEF WriteReply
    <2> QED
      BY <1>19, <2>1 DEF WriteReply, writeUnchanged
  <1>20. CASE FlushOk
    <2>1. wire' \in Seq(Requests) /\ wbuf' \in Seq(Requests)
      BY <1>20, ConcatFacts, EmptyFacts DEF FlushOk
    <2> QED
      BY <1>20, <2>1 DEF FlushOk, writeUnchanged
  <1>21. CASE FlushFail \/ ReleaseBatch
    <2>1. <<>> \in Seq(Requests)
      OBVIOUS
    <2>2. scope' \in [Scopes -> ScopeStates]
      BY <1>21 DEF FlushFail, ReleaseBatch, Release
    <2>3. CASE FlushFail
      BY <2>1, <2>2, <2>3 DEF FlushFail, writeUnchanged
    <2>4. CASE ReleaseBatch
      BY <2>1, <2>2, <2>4 DEF ReleaseBatch, writeUnchanged
    <2> QED
      BY <1>21, <2>3, <2>4
  <1>22. CASE Callers
    <2>1. UNCHANGED callerUnchanged
      BY <1>22, CallersUnchanged
    <2>2. /\ closed' \in BOOLEAN /\ stopping' \in BOOLEAN /\ main' \in MainStates
          /\ stop' \in {"idle", "wait", "returned"}
          /\ close' \in {"idle", "lock", "closing", "wait", "returned"}
      <3>1. CASE MainLoop
        BY <3>1 DEF MainLoop, CloseConn, OnRemove, Done
      <3>2. CASE Stop \/ StopReturn \/ CloseNow
        BY <3>2 DEF Stop, StopReturn, CloseNow
      <3>3. CASE CloseCall
        BY <3>3 DEF CloseCall, CloseNowLock, CloseNowClose, CloseNowReturn
      <3> QED
        BY <1>22, <3>1, <3>2, <3>3 DEF Callers
    <2> QED
      BY <2>1, <2>2 DEF callerUnchanged
  <1>23. CASE UNCHANGED vars
    BY <1>23 DEF vars
  <1> QED
    BY <1>1, <1>2, <1>3, <1>4, <1>5, <1>6, <1>7, <1>8, <1>9, <1>10, <1>11, <1>12, <1>13, <1>14,
       <1>15, <1>16, <1>17, <1>18, <1>19, <1>20, <1>21, <1>22, <1>23
    DEF Next, DispatcherEvents, ReadLoop, ReadAlone, Submit, Waiter, Waiting, WriteLoop, Callers,
        Terminated

\* The dispatcher knows the requests readLoop has submitted, each with a waiter.
LEMMA CoreSubmissions == Core /\ [Next]_vars => Submissions'
  <1> SUFFICES ASSUME TypeOK, Began, Submissions, [Next]_vars PROVE Submissions'
    BY DEF Core
  <1>1. CASE UNCHANGED <<taken, phase, waiter, read>>
    BY <1>1 DEF Submissions, Submitted
  <1>2. CASE /\ UNCHANGED <<taken, phase, waiter>> /\ read \in {"gate", "arm", "lock", "read"}
             /\ read' \in {"arm", "lock", "read", "leave"}
    BY <1>2 DEF Submissions, Submitted
  <1>3. CASE ReadLeave
    BY <1>3 DEF ReadLeave, serviceVars, Submissions, Submitted
  <1>4. CASE ReadParse
    <2>1. /\ taken' = taken + 1 /\ read = "read" /\ read' = "count" /\ taken \in Nat
          /\ UNCHANGED <<phase, waiter>>
      BY <1>4 DEF ReadParse, serviceVars, TypeOK
    <2> QED
      BY <2>1 DEF Submissions, Submitted, Requests
  <1>5. CASE ReadCount
    BY <1>5 DEF ReadCount, serviceVars, Submissions, Submitted
  <1>6. CASE Submit
    <2>1. taken \in Requests /\ read = "submit" /\ taken' = taken
      BY <1>6 DEF Submit, SubmitCall, SubmitAccepted, SubmitRefused, TypeOK, Began, Requests
    <2>2. phase \in [Requests -> Service!Phases] /\ waiter \in [Requests -> WaiterStates]
      BY DEF TypeOK, Service!STypeOK
    <2>3. CASE SubmitCall
      BY <2>1, <2>2, <2>3
      DEF SubmitCall, Service!Call, Service!Move, Submissions, Submitted
    <2>4. CASE SubmitAccepted
      BY <2>1, <2>2, <2>4
      DEF SubmitAccepted, Service!Accept, Service!Move, Submissions, Submitted
    <2>5. CASE SubmitRefused
      BY <2>1, <2>2, <2>5
      DEF SubmitRefused, Service!Refuse, Service!Move, Submissions, Submitted
    <2> QED
      BY <1>6, <2>3, <2>4, <2>5 DEF Submit
  <1>7. ASSUME NEW k \in Requests, DispatcherAnswers(k) PROVE Submissions'
    <2>1. phase \in [Requests -> Service!Phases]
      BY DEF TypeOK, Service!STypeOK
    <2> QED
      BY <1>7, <2>1 DEF DispatcherAnswers, dispatcherUnchanged, connVars, Service!Answer,
                        Service!Move, Submissions, Submitted
  <1>8. ASSUME NEW k \in Requests, Waiter(k) PROVE Submissions'
    <2>1. waiter \in [Requests -> WaiterStates]
      BY DEF TypeOK
    <2>2. UNCHANGED <<taken, phase, read>>
      BY <1>8 DEF Waiter, WaiterResult, HandleResponseCheck, HandleResponseSend,
                  HandleResponseStopped, DecrementInflight, waiterUnchanged, connVars, serviceVars
    <2>3. PICK to \in {"check", "select", "decrement", "exited"} :
            /\ waiter' = [waiter EXCEPT ![k] = to]
            /\ \/ waiter[k] = "wait" /\ phase[k] = "answered"
               \/ waiter[k] \in {"check", "select", "decrement"}
      BY <1>8 DEF Waiter, WaiterResult, HandleResponseCheck, HandleResponseSend,
                  HandleResponseStopped, DecrementInflight, WaiterStep
    <2> QED
      BY <2>1, <2>2, <2>3 DEF Submissions, Submitted
  <1>9. CASE ClientEvents \/ DispatcherStops \/ WriteLoop \/ Callers \/ UNCHANGED vars
    <2>1. ClientEvents => UNCHANGED <<taken, phase, waiter, read>>
      BY EventsUnchanged DEF connVars, serviceVars
    <2>2. DispatcherStops => UNCHANGED <<taken, phase, waiter, read>>
      BY DEF DispatcherStops, dispatcherUnchanged, connVars, Service!BeginStop, Service!EndStop
    <2>3. WriteLoop => UNCHANGED <<taken, phase, waiter, read>>
      BY DEF WriteLoop, TakeFirst, TakeStop, WriteReply, TakeMore, FlushLock, FlushOk, FlushFail,
             ReleaseBatch, writeUnchanged, serviceVars
    <2>4. Callers => UNCHANGED <<taken, phase, waiter, read>>
      BY CallersUnchanged DEF callerUnchanged, serviceVars
    <2>5. UNCHANGED vars => UNCHANGED <<taken, phase, waiter, read>>
      BY DEF vars, connVars, serviceVars
    <2> QED
      BY <1>1, <1>9, <2>1, <2>2, <2>3, <2>4, <2>5
  <1>10. CASE ReadAlone
    <2>1. CASE GatePoll \/ ReadFill
      <3>1. UNCHANGED <<taken, phase, waiter, read>>
        BY <2>1 DEF GatePoll, ReadFill, serviceVars, connVars, vars
      <3> QED
        BY <3>1, <1>1
    <2>2. CASE GateStop \/ GatePass \/ ReadArm \/ ReadLock \/ ReadFail
      <3>1. UNCHANGED <<taken, phase, waiter>>
        BY <2>2 DEF GateStop, GatePass, ReadArm, ReadLock, ReadFail, serviceVars
      <3>2. /\ read \in {"gate", "arm", "lock", "read"}
            /\ read' \in {"arm", "lock", "read", "leave"}
        BY <2>2 DEF GateStop, GatePass, ReadArm, ReadLock, ReadFail
      <3> QED
        BY <3>1, <3>2, <1>2
    <2> QED
      BY <1>3, <1>4, <1>5, <1>10, <2>1, <2>2 DEF ReadAlone
  <1> QED
    BY <1>6, <1>7, <1>8, <1>9, <1>10 DEF Next, DispatcherEvents, ReadLoop, Callers, Terminated

\* The counter is the waiters and the request that readLoop submits.
LEMMA CoreCounting == Core /\ [Next]_vars => Counting'
  <1> SUFFICES ASSUME Core, [Next]_vars PROVE Counting'
    OBVIOUS
  <1> DEFINE N == Cardinality(InFlight)
  <1>0. /\ IsFiniteSet(InFlight) /\ N \in Nat /\ N' = Cardinality(InFlight')
        /\ MaxInFlight \in Nat \ {0} /\ inflight \in Nat
        /\ waiter \in [Requests -> WaiterStates]
    BY InFlightFinite, SessionAssumption DEF Core, TypeOK
  <1>1. /\ inflight = N + (IF read = "submit" THEN 1 ELSE 0)
        /\ inflight <= MaxInFlight
        /\ read \in {"arm", "lock", "read", "count"} => inflight < MaxInFlight
    BY DEF Core, Counting, InflightExact
  <1>2. (waiter' = waiter) => N' = N
    BY DEF InFlight
  <1> HIDE DEF N
  <1>3. ASSUME waiter' = waiter, inflight' = inflight, read' = "submit" <=> read = "submit",
               read' \in {"arm", "lock", "read", "count"} =>
                 read \in {"arm", "lock", "read", "count"} \/ inflight < MaxInFlight
        PROVE  Counting'
    BY <1>0, <1>1, <1>2, <1>3 DEF Counting, InflightExact, N
  <1>4. CASE ReadCount
    <2>1. /\ read = "count" /\ read' = "submit" /\ inflight' = inflight + 1 /\ waiter' = waiter
      BY <1>4 DEF ReadCount
    <2> QED
      BY <1>0, <1>1, <1>2, <2>1 DEF Counting, InflightExact, N
  <1>5. CASE SubmitAccepted
    <2>1. /\ taken \in Requests /\ waiter[taken] = "none" /\ phase[taken] = "calling"
          /\ read = "submit" /\ read' = "gate" /\ inflight' = inflight
          /\ waiter' = [waiter EXCEPT ![taken] = "wait"]
      <3>1. /\ phase[taken] = "calling" /\ read = "submit" /\ read' = "gate"
            /\ inflight' = inflight /\ waiter' = [waiter EXCEPT ![taken] = "wait"]
        BY <1>5 DEF SubmitAccepted, Service!Accept, Service!Move
      <3>2. taken \in Requests
        BY <3>1, SessionAssumption DEF Core, TypeOK, Began, Requests
      <3>3. waiter[taken] = "none"
        BY <3>1, <3>2 DEF Core, Submissions, Submitted
      <3> QED
        BY <3>1, <3>2, <3>3
    <2>2. taken \notin InFlight /\ InFlight' = InFlight \cup {taken}
      BY <1>0, <2>1 DEF InFlight
    <2>3. N' = N + 1
      BY <1>0, <2>2, FS_AddElement DEF N
    <2> QED
      BY <1>0, <1>1, <2>1, <2>3 DEF Counting, InflightExact, N
  <1>6. CASE SubmitRefused
    <2>1. /\ read = "submit" /\ read' = "leave" /\ inflight' = inflight - 1 /\ waiter' = waiter
      BY <1>6 DEF SubmitRefused
    <2> QED
      BY <1>0, <1>1, <1>2, <2>1 DEF Counting, InflightExact, N
  <1>7. ASSUME NEW k \in Requests, Waiting(k) \/ HandleResponseSend(k) PROVE Counting'
    <2>1. PICK to \in {"check", "select", "decrement"} :
            /\ waiter' = [waiter EXCEPT ![k] = to]
            /\ waiter[k] \in {"wait", "check", "select"}
      BY <1>7 DEF Waiting, WaiterResult, HandleResponseCheck, HandleResponseSend,
                  HandleResponseStopped, WaiterStep
    <2>2. read' = read /\ inflight' = inflight
      BY <1>7 DEF Waiting, WaiterResult, HandleResponseCheck, HandleResponseSend,
                  HandleResponseStopped, waiterUnchanged
    <2>3. InFlight' = InFlight
      BY <1>0, <2>1 DEF InFlight
    <2>4. N' = N
      BY <2>3 DEF N
    <2> QED
      BY <1>0, <1>1, <2>2, <2>4 DEF Counting, InflightExact, N
  <1>8. ASSUME NEW k \in Requests, DecrementInflight(k) PROVE Counting'
    <2>1. /\ waiter[k] = "decrement" /\ waiter' = [waiter EXCEPT ![k] = "exited"]
          /\ inflight' = IF inflight > 0 THEN inflight - 1 ELSE inflight
          /\ read' = read
      BY <1>8 DEF DecrementInflight, WaiterStep, waiterUnchanged
    <2>2. k \in InFlight /\ InFlight' = InFlight \ {k}
      BY <1>0, <2>1 DEF InFlight
    <2>3. N' = N - 1 /\ N # 0
      BY <1>0, <2>2, FS_RemoveElement, FS_EmptySet DEF N
    <2> QED
      BY <1>0, <1>1, <2>1, <2>3 DEF Counting, InflightExact, N
  <1>9. CASE ClientEvents \/ DispatcherEvents \/ WriteLoop \/ Callers \/ UNCHANGED vars
    <2>1. ClientEvents \/ DispatcherEvents => UNCHANGED <<waiter, inflight, read>>
      BY EventsUnchanged DEF dispatcherUnchanged
    <2>2. WriteLoop => UNCHANGED <<waiter, inflight, read>>
      BY DEF WriteLoop, TakeFirst, TakeStop, WriteReply, TakeMore, FlushLock, FlushOk, FlushFail,
             ReleaseBatch, writeUnchanged
    <2>3. Callers \/ UNCHANGED vars => UNCHANGED <<waiter, inflight, read>>
      BY CallersUnchanged DEF callerUnchanged, vars
    <2> QED
      BY <1>3, <1>9, <2>1, <2>2, <2>3
  <1>10. CASE SubmitCall \/ (ReadAlone /\ ~ReadCount)
    <2>1. waiter' = waiter /\ inflight' = inflight
      BY <1>10 DEF SubmitCall, ReadAlone, GateStop, GatePoll, GatePass, ReadArm, ReadLock, ReadFill,
                   ReadParse, ReadFail, ReadLeave, vars
    <2>2. (read' = "submit" <=> read = "submit")
          /\ (read' \in {"arm", "lock", "read", "count"} =>
                 read \in {"arm", "lock", "read", "count"} \/ inflight < MaxInFlight)
      BY <1>10 DEF SubmitCall, ReadAlone, GateStop, GatePoll, GatePass, ReadArm, ReadLock, ReadFill,
                   ReadParse, ReadFail, ReadLeave, vars
    <2> QED
      BY <1>3, <2>1, <2>2
  <1> QED
    BY <1>4, <1>5, <1>6, <1>7, <1>8, <1>9, <1>10
    DEF Next, ReadLoop, Submit, Waiter, Waiting, Callers, Terminated

\* Types, submissions and the counter, in every state.
LEMMA CoreInvariant == Spec => []Core
  <1>1. Init => Core
    <2> SUFFICES ASSUME Init PROVE Core
      OBVIOUS
    <2> USE SessionAssumption DEF Init, SessionInit
    <2>0. <<>> \in Seq(Requests) /\ Len(<<>>) = 0
      BY EmptyFacts
    <2>1. TypeOK
      <3>1. /\ scope \in [Scopes -> ScopeStates] /\ waiter \in [Requests -> WaiterStates]
            /\ Service!STypeOK
        BY DEF Service!STypeOK, Service!Phases, Service!Modes, WaiterStates, ScopeStates
      <3>2. /\ 0 \in 0..MaxRequests /\ 0 \in 0..MaxInFlight /\ 0 \in 0..0
            /\ Len(<<>>) <= ResponseCap
        BY <2>0
      <3> QED
        BY <2>0, <3>1, <3>2 DEF TypeOK, ReadStates, WriteStates, MainStates
    <2>2. Began /\ Submissions
      BY DEF Began, Submissions, Submitted, Requests
    <2>3. InFlight = {}
      BY DEF InFlight
    <2>4. Counting
      BY <2>3, FS_EmptySet DEF Counting, InflightExact
    <2> QED
      BY <2>1, <2>2, <2>4 DEF Core
  <1>2. Core /\ [Next]_vars => Core'
    BY CoreTypes, CoreSubmissions, CoreCounting DEF Core
  <1> QED
    BY <1>1, <1>2, PTL DEF Spec

\* Every variable stays within its type: the response channel never holds more
\* than its capacity, and requests are parsed only out of what was sent.
THEOREM TypeCorrect == Spec => []TypeOK
  <1>1. Core => TypeOK
    BY DEF Core
  <1> QED
    BY <1>1, CoreInvariant, PTL

\* The in-flight counter is exact and never above the limit: what readLoop adds,
\* either its refusal or the request's waiter takes back, once.
THEOREM CountIsExact == Spec => []InflightExact
  <1>1. Core => InflightExact
    BY DEF Core, Counting
  <1> QED
    BY <1>1, CoreInvariant, PTL

-----------------------------------------------------------------------------
(* Where a reply can be                                                    *)

\* The client, the dispatcher and the callers leave alone what the loops work on.
Outside == ClientEvents \/ DispatcherEvents \/ Callers \/ UNCHANGED vars

work == <<taken, wbuf, wire, inflight, responses, batch, scope, read, write, waiter>>

\* Client, dispatcher and callers touch neither requests nor replies.
LEMMA OutsideUnchanged == Outside => UNCHANGED work
  <1>1. ClientEvents \/ DispatcherEvents => UNCHANGED work
    BY EventsUnchanged DEF dispatcherUnchanged, connVars, work
  <1>2. Callers \/ UNCHANGED vars => UNCHANGED work
    BY CallersUnchanged DEF callerUnchanged, vars, connVars, work
  <1> QED
    BY <1>1, <1>2 DEF Outside

\* readLoop does not touch the replies, nor, up to SubmitAccepted, the waiters.
replies == <<responses, batch, wbuf, wire, write>>

\* Its steps up to Submit, and Submit itself.
LEMMA ReadLoopUnchanged ==
  /\ ReadLoop => UNCHANGED replies
  /\ ReadAlone \/ SubmitCall \/ SubmitRefused => UNCHANGED waiter
  <1>1. ReadAlone => UNCHANGED replies /\ UNCHANGED waiter
    BY DEF ReadAlone, GateStop, GatePoll, GatePass, ReadArm, ReadLock, ReadFill, ReadParse, ReadFail,
           ReadCount, ReadLeave, readUnchanged, replies, vars, connVars
  <1>2. Submit => UNCHANGED replies
    BY DEF Submit, SubmitCall, SubmitAccepted, SubmitRefused, readUnchanged, replies
  <1>3. SubmitCall \/ SubmitRefused => UNCHANGED waiter
    BY DEF SubmitCall, SubmitRefused
  <1> QED
    BY <1>1, <1>2, <1>3 DEF ReadLoop

\* A waiter moves forward, and does so alone but for the channel and the count.
Forward(from, to) ==
  \/ from = "wait" /\ to = "check"
  \/ from = "check" /\ to \in {"select", "decrement"}
  \/ from = "select" /\ to = "decrement"

\* But for its send, HandleResponse only goes forward.
LEMMA WaitingMoves ==
  ASSUME NEW k \in Requests, Waiting(k)
  PROVE  /\ \E to \in {"check", "select", "decrement"} :
              waiter' = [waiter EXCEPT ![k] = to] /\ Forward(waiter[k], to)
         /\ UNCHANGED <<waiterUnchanged, inflight, responses>>
  BY DEF Waiting, WaiterResult, HandleResponseCheck, HandleResponseStopped, WaiterStep, Forward

Writing == write \in {"write", "more", "lock", "flush"}

\* A reply is handed over when its waiter has sent it, ...
Handed == Elems(responses) \cup Elems(batch) \cup Elems(wire)

Placed == \A k \in Handed : waiter[k] \in {"decrement", "exited"}

\* ... it is in one place at a time (writeLoop keeps its batch after the flush), ...
Apart ==
  /\ NoRepeats(responses) /\ NoRepeats(batch) /\ NoRepeats(wire)
  /\ Elems(responses) \cap (Elems(batch) \cup Elems(wire)) = {}
  /\ Writing => Elems(batch) \cap Elems(wire) = {}

\* ... and the encoder's buffer has what the batch has, but for the reply to be
\* written next.
Encoded ==
  /\ write = "take" => batch = <<>>
  /\ write \in {"take", "flushed", "exited"} => wbuf = <<>>
  /\ write = "write" => batch = Append(wbuf, batch[Len(batch)])
  /\ write \in {"more", "lock", "flush"} => batch # <<>> /\ wbuf = batch

Places == Placed /\ Apart /\ Encoded

\* A reply goes from waiter to response channel, batch and wire, never twice.
LEMMA PlacesStep == Core /\ Places /\ [Next]_vars => Places'
  <1> SUFFICES ASSUME Core, Places, [Next]_vars PROVE Places'
    OBVIOUS
  <1>0. /\ responses \in Seq(Requests) /\ batch \in Seq(Requests) /\ wbuf \in Seq(Requests)
        /\ wire \in Seq(Requests) /\ waiter \in [Requests -> WaiterStates]
        /\ write = "write" => batch # <<>>
    BY DEF Core, TypeOK, Began
  <1>e. <<>> \in Seq(Requests) /\ Elems(<<>>) = {} /\ NoRepeats(<<>>)
    BY EmptyFacts DEF NoRepeats
  <1>h. Handed \subseteq Requests
    BY <1>0 DEF Handed, Elems
  <1>b. ASSUME UNCHANGED <<responses, batch, wire>>, Writing' => Writing
        PROVE  Apart'
    <2>1. /\ NoRepeats(responses') /\ NoRepeats(batch') /\ NoRepeats(wire')
          /\ Elems(responses') = Elems(responses) /\ Elems(batch') = Elems(batch)
          /\ Elems(wire') = Elems(wire)
      BY <1>b DEF Places, Apart
    <2> QED
      BY <1>b, <2>1 DEF Places, Apart
  <1>a. ASSUME UNCHANGED replies PROVE Handed' = Handed /\ Apart' /\ Encoded'
    <2>1. /\ responses' = responses /\ batch' = batch /\ wbuf' = wbuf /\ wire' = wire
          /\ write' = write
      BY <1>a DEF replies
    <2>2. Handed' = Handed
      BY <2>1 DEF Handed, Elems
    <2>3. Apart'
      BY <2>1, <1>b DEF Writing
    <2>4. Encoded'
      <3>1. Encoded
        BY DEF Places
      <3> QED
        BY <2>1, <3>1 DEF Encoded
    <2> QED
      BY <2>2, <2>3, <2>4
  <1>1. CASE UNCHANGED <<replies, waiter>>
    BY <1>1, <1>a DEF Places, Placed
  <1>2. ASSUME NEW k \in Requests, waiter[k] \notin {"decrement", "exited"}, UNCHANGED replies,
               \A j \in Requests \ {k} : waiter'[j] = waiter[j]
        PROVE  Places'
    <2>1. Placed'
      <3>1. Handed' = Handed /\ Handed \subseteq Requests
        BY <1>2, <1>a, <1>h
      <3> QED
        BY <1>2, <3>1 DEF Places, Placed
    <2>2. Apart' /\ Encoded'
      BY <1>2, <1>a
    <2> QED
      BY <2>1, <2>2 DEF Places
  <1>3. CASE Outside \/ ReadAlone \/ SubmitCall \/ SubmitRefused
    <2>1. UNCHANGED <<replies, waiter>>
      BY <1>3, OutsideUnchanged, ReadLoopUnchanged DEF work, replies, ReadLoop, Submit
    <2> QED
      BY <2>1, <1>1
  <1>4. CASE SubmitAccepted
    <2>1. /\ taken \in Requests /\ waiter[taken] = "none"
          /\ waiter' = [waiter EXCEPT ![taken] = "wait"]
      <3>1. /\ phase[taken] = "calling" /\ read = "submit"
            /\ waiter' = [waiter EXCEPT ![taken] = "wait"]
        BY <1>4 DEF SubmitAccepted, Service!Accept, Service!Move
      <3>2. taken \in Requests
        BY <3>1, SessionAssumption DEF Core, TypeOK, Began, Requests
      <3> QED
        BY <3>1, <3>2 DEF Core, Submissions, Submitted
    <2>2. UNCHANGED replies
      BY <1>4, ReadLoopUnchanged DEF ReadLoop, Submit
    <2> QED
      BY <1>0, <1>2, <2>1, <2>2
  <1>5. ASSUME NEW k \in Requests, Waiting(k) PROVE Places'
    <2>1. /\ waiter[k] \notin {"decrement", "exited"}
          /\ \A j \in Requests \ {k} : waiter'[j] = waiter[j]
          /\ UNCHANGED <<waiterUnchanged, responses>>
      BY <1>0, <1>5, WaitingMoves DEF Forward
    <2> QED
      BY <1>2, <2>1 DEF waiterUnchanged, connVars, replies
  <1>6. ASSUME NEW k \in Requests, HandleResponseSend(k) PROVE Places'
    <2>1. /\ waiter[k] = "select" /\ waiter' = [waiter EXCEPT ![k] = "decrement"]
          /\ responses' = Append(responses, k)
          /\ UNCHANGED <<batch, wbuf, wire, write>>
      BY <1>6 DEF HandleResponseSend, WaiterStep, waiterUnchanged, connVars
    <2>2. k \notin Handed /\ Handed \subseteq Requests
      BY <1>0, <2>1 DEF Places, Placed, Handed, Elems
    <2>3. Elems(responses') = Elems(responses) \cup {k}
      BY <1>0, <2>1, AppendFacts
    <2>4. Placed'
      <3>1. Handed' = Handed \cup {k}
        BY <2>1, <2>3 DEF Handed
      <3> QED
        BY <1>0, <2>1, <2>2, <3>1 DEF Places, Placed
    <2>5. Apart'
      <3>1. NoRepeats(responses')
        BY <1>0, <2>1, <2>2, AppendNoRepeats DEF Places, Apart, Handed
      <3>2. UNCHANGED <<Elems(batch), Elems(wire), NoRepeats(batch), NoRepeats(wire), Writing>>
        BY <2>1 DEF Elems, NoRepeats, Writing
      <3> QED
        BY <2>2, <2>3, <3>1, <3>2 DEF Places, Apart, Handed
    <2>6. Encoded'
      BY <2>1 DEF Places, Encoded
    <2> QED
      BY <2>4, <2>5, <2>6 DEF Places
  <1>7. ASSUME NEW k \in Requests, DecrementInflight(k) PROVE Places'
    <2>1. /\ waiter' = [waiter EXCEPT ![k] = "exited"] /\ UNCHANGED replies
      BY <1>7 DEF DecrementInflight, WaiterStep, waiterUnchanged, connVars, replies
    <2>2. Placed'
      <3>1. Handed' = Handed /\ Handed \subseteq Requests
        BY <2>1, <1>a, <1>h
      <3> QED
        BY <1>0, <2>1, <3>1 DEF Places, Placed
    <2>3. Apart' /\ Encoded'
      BY <2>1, <1>a
    <2> QED
      BY <2>2, <2>3 DEF Places
  <1>8. CASE WriteLoop
    <2>0. waiter' = waiter /\ Handed \subseteq Requests
      BY <1>0, <1>8
      DEF WriteLoop, TakeFirst, TakeStop, WriteReply, TakeMore, FlushLock, FlushOk, FlushFail,
          ReleaseBatch, writeUnchanged, Handed, Elems
    <2>p. Handed' \subseteq Handed => Placed'
      BY <2>0 DEF Places, Placed
    <2>1. CASE responses # <<>> /\ (TakeFirst \/ TakeMore)
      <3> DEFINE h == Head(responses)
      <3>1. /\ batch' = Append(batch, h) /\ responses' = Tail(responses)
            /\ write' = "write" /\ UNCHANGED <<wbuf, wire>> /\ batch = wbuf
        <4>1. CASE TakeFirst
          <5>1. batch = <<>> /\ wbuf = <<>> /\ batch' = <<h>>
            BY <4>1 DEF TakeFirst, Places, Encoded
          <5> QED
            BY <4>1, <5>1 DEF TakeFirst
        <4>2. CASE TakeMore
          BY <2>1, <4>2 DEF TakeMore, Places, Encoded
        <4> QED
          BY <2>1, <4>1, <4>2
      <3>2. /\ h \in Requests /\ h \notin Elems(Tail(responses)) /\ NoRepeats(Tail(responses))
            /\ Elems(responses) = {h} \cup Elems(Tail(responses))
        BY <1>0, <2>1, TailFacts, TailNoRepeats DEF Places, Apart
      <3>3. /\ h \notin Elems(batch) /\ h \notin Elems(wire)
            /\ Elems(batch) \cap Elems(wire) = {}
        <4>1. CASE TakeFirst
          BY <3>2, <4>1, <1>e DEF TakeFirst, Places, Apart, Encoded
        <4>2. CASE TakeMore
          BY <3>2, <4>2 DEF TakeMore, Places, Apart, Writing
        <4> QED
          BY <2>1, <4>1, <4>2
      <3> HIDE DEF h
      <3>4. /\ Elems(batch') = Elems(batch) \cup {h} /\ NoRepeats(batch')
            /\ batch'[Len(batch')] = h
        BY <1>0, <3>1, <3>2, <3>3, AppendFacts, AppendLast, AppendNoRepeats DEF Places, Apart
      <3>5. Elems(wire') = Elems(wire) /\ NoRepeats(wire')
        BY <3>1 DEF Places, Apart
      <3>6. Placed'
        BY <2>p, <3>1, <3>2, <3>4, <3>5 DEF Handed
      <3>7. Apart'
        BY <3>1, <3>2, <3>3, <3>4, <3>5 DEF Places, Apart
      <3>8. Encoded'
        BY <3>1, <3>4 DEF Encoded
      <3> QED
        BY <3>6, <3>7, <3>8 DEF Places
    <2>2. CASE \/ TakeStop \/ WriteReply \/ FlushLock \/ (TakeMore /\ responses = <<>>)
      <3>1. UNCHANGED <<responses, batch, wire>>
        BY <2>2 DEF TakeStop, WriteReply, FlushLock, TakeMore
      <3>2. Handed' = Handed
        BY <3>1 DEF Handed, Elems
      <3>3. Writing' => Writing
        BY <2>2 DEF TakeStop, WriteReply, FlushLock, TakeMore, Writing
      <3>4. Apart'
        BY <3>1, <3>3, <1>b
      <3>5. Encoded'
        <4>1. CASE TakeStop
          BY <4>1 DEF TakeStop, Places, Encoded
        <4>2. CASE WriteReply
          <5>1. wbuf' = batch /\ batch # <<>> /\ write' = "more" /\ batch' = batch
            BY <1>0, <4>2 DEF WriteReply, Places, Encoded
          <5> QED
            BY <5>1 DEF Encoded
        <4>3. CASE FlushLock
          BY <4>3 DEF FlushLock, Places, Encoded
        <4>4. CASE TakeMore /\ responses = <<>>
          BY <4>4 DEF TakeMore, Places, Encoded
        <4> QED
          BY <2>2, <4>1, <4>2, <4>3, <4>4
      <3> QED
        BY <2>p, <3>2, <3>4, <3>5 DEF Places
    <2>3. CASE FlushOk
      <3>1. /\ write = "flush" /\ write' = "flushed" /\ wbuf' = <<>> /\ wbuf = batch
            /\ UNCHANGED <<responses, batch>>
            /\ wire' = (IF client = "gone" THEN wire ELSE wire \o batch)
        BY <2>3 DEF FlushOk, Places, Encoded
      <3>2. /\ NoRepeats(wire) /\ NoRepeats(batch) /\ Elems(batch) \cap Elems(wire) = {}
            /\ Elems(responses) \cap (Elems(batch) \cup Elems(wire)) = {}
        BY <3>1 DEF Places, Apart, Writing
      <3>3. NoRepeats(wire \o batch) /\ Elems(wire \o batch) = Elems(wire) \cup Elems(batch)
        BY <1>0, <3>2, ConcatFacts, ConcatNoRepeats
      <3>4. NoRepeats(wire') /\ Elems(wire') \subseteq Elems(wire) \cup Elems(batch)
        BY <3>1, <3>2, <3>3
      <3>5. Elems(responses') = Elems(responses) /\ Elems(batch') = Elems(batch)
        BY <3>1
      <3>6. Placed'
        BY <2>p, <3>4, <3>5 DEF Handed
      <3>7. NoRepeats(responses') /\ NoRepeats(batch')
        BY <3>1 DEF Places, Apart
      <3>8. Apart'
        BY <3>1, <3>2, <3>4, <3>5, <3>7 DEF Apart, Writing
      <3>9. Encoded'
        BY <3>1 DEF Encoded
      <3> QED
        BY <3>6, <3>8, <3>9 DEF Places
    <2>4. CASE FlushFail
      <3>1. UNCHANGED <<responses, batch, wire>> /\ write' = "exited" /\ wbuf' = <<>>
        BY <2>4 DEF FlushFail
      <3>2. Handed' = Handed
        BY <3>1 DEF Handed, Elems
      <3>3. Apart'
        BY <3>1, <1>b DEF Writing
      <3> QED
        BY <2>p, <3>1, <3>2, <3>3 DEF Places, Encoded
    <2>5. CASE ReleaseBatch
      <3>1. /\ UNCHANGED <<responses, wire, wbuf>> /\ write = "flushed" /\ write' = "take"
            /\ batch' = <<>>
        BY <2>5 DEF ReleaseBatch
      <3>2. Elems(batch') = {} /\ NoRepeats(batch')
        BY <3>1, <1>e
      <3>3. /\ Elems(responses') = Elems(responses) /\ Elems(wire') = Elems(wire)
            /\ NoRepeats(responses') /\ NoRepeats(wire')
        BY <3>1 DEF Places, Apart
      <3>4. Handed' \subseteq Handed /\ Apart'
        BY <3>1, <3>2, <3>3 DEF Handed, Places, Apart, Writing
      <3> QED
        BY <2>p, <3>1, <3>4 DEF Places, Encoded
    <2>6. TakeFirst => responses # <<>>
      BY DEF TakeFirst
    <2> QED
      BY <1>8, <2>1, <2>2, <2>3, <2>4, <2>5, <2>6 DEF WriteLoop
  <1> QED
    BY <1>3, <1>4, <1>5, <1>6, <1>7, <1>8
    DEF Next, ReadLoop, Submit, Outside, Callers, Terminated, Waiter, Waiting

-----------------------------------------------------------------------------
(* Which memory scopes are open                                            *)

Owed(k) == waiter[k] \in {"wait", "check", "select"}

\* A batch keeps its scopes until ReleaseBatch, or until FlushFail gives up.
Unreleased == IF Writing \/ write = "flushed" THEN Elems(batch) ELSE {}

\* The scopes somebody still reads or writes: readLoop the one it parses into or
\* is about to submit, a waiter and writeLoop those of their replies.
InUse ==
  {s \in Scopes :
     \/ s = taken + 1 /\ read \in {"arm", "lock", "read"}
     \/ s = taken /\ read \in {"count", "submit"}
     \/ s \in Requests /\ Owed(s)
     \/ s \in Elems(responses) \cup Unreleased}

\* The scopes of requests yet to be read.
Fresh ==
  {s \in Scopes :
     s > taken + 1 \/ (s = taken + 1 /\ read \in {"gate", "count", "submit"})}

Memory ==
  /\ \A s \in InUse : scope[s] = "open"
  /\ \A s \in Fresh : scope[s] = "none"
  /\ \A s \in Scopes : scope[s] # "releasedTwice"

\* A step that releases nothing must not take a new scope into use, ...
LEMMA KeepScopes ==
  ASSUME Memory, scope' = scope, InUse' \subseteq InUse, Fresh' \subseteq Fresh
  PROVE  Memory'
  BY DEF Memory, Scopes

\* ... and one that does must release only scopes in use, and not use them again.
LEMMA ReleaseScopes ==
  ASSUME Memory, NEW S, S \subseteq InUse, Release(S), scope \in [Scopes -> ScopeStates],
         InUse' \subseteq InUse \ S, Fresh' \subseteq Fresh
  PROVE  Memory'
  <1>1. InUse \subseteq Scopes /\ Fresh \subseteq Scopes /\ Scopes' = Scopes
    BY DEF InUse, Fresh, Scopes
  <1>2. \A s \in Scopes : scope'[s] = IF s \in S THEN "released" ELSE scope[s]
    BY <1>1 DEF Release, Memory
  <1>3. \A s \in Fresh : s \notin S
    BY DEF Memory
  <1> QED
    BY <1>1, <1>2, <1>3 DEF Memory

\* The request that readLoop holds, and the later ones, have no waiter yet, so no
\* waiter and no queue shares a scope with readLoop.
LEMMA HandedAreTaken ==
  ASSUME Core, Placed
  PROVE  /\ \A k \in Requests : waiter[k] # "none" =>
              k <= taken /\ (read \in {"count", "submit"} => k # taken)
         /\ Handed \subseteq Requests /\ \A k \in Handed : waiter[k] # "none" /\ ~Owed(k)
  <1>1. taken \in Nat /\ Handed \subseteq Requests
    BY DEF Core, TypeOK, Handed, Elems
  <1>2. \A k \in Requests : waiter[k] # "none" =>
          k <= taken /\ (read \in {"count", "submit"} => k # taken)
    BY <1>1 DEF Core, Submissions, Submitted, Requests
  <1> QED
    BY <1>1, <1>2 DEF Placed, Owed

\* A scope in use is open, and one that was released is not opened again.
LEMMA MemoryStep == Core /\ Places /\ Memory /\ [Next]_vars => Memory'
  <1> SUFFICES ASSUME Core, Places, Memory, [Next]_vars PROVE Memory'
    OBVIOUS
  <1>0. /\ responses \in Seq(Requests) /\ batch \in Seq(Requests)
        /\ waiter \in [Requests -> WaiterStates] /\ scope \in [Scopes -> ScopeStates]
        /\ taken \in Nat /\ taken + 1 \in Scopes /\ Requests \subseteq Scopes
    BY SessionAssumption DEF Core, TypeOK, Scopes, Requests
  <1>h. /\ \A k \in Requests : waiter[k] # "none" =>
             k <= taken /\ (read \in {"count", "submit"} => k # taken)
        /\ Handed \subseteq Requests /\ \A k \in Handed : waiter[k] # "none" /\ ~Owed(k)
    BY HandedAreTaken DEF Places
  <1>c. Scopes' = Scopes /\ Requests' = Requests
    BY DEF Scopes, Requests
  <1>u. ASSUME UNCHANGED <<replies, waiter>>
        PROVE  /\ Elems(responses') = Elems(responses) /\ Unreleased' = Unreleased
               /\ \A k \in Requests : Owed(k)' = Owed(k)
    BY <1>u DEF replies, Unreleased, Writing, Owed
  <1>1. CASE UNCHANGED <<replies, waiter, taken, scope, read>>
    <2>1. InUse' = InUse
      BY <1>1, <1>c, <1>u DEF InUse
    <2>2. Fresh' = Fresh
      BY <1>1, <1>c DEF Fresh
    <2> QED
      BY <1>1, <2>1, <2>2, KeepScopes
  <1>2. CASE Outside \/ GatePoll \/ ReadFill \/ SubmitCall
    <2>1. Outside => UNCHANGED <<replies, waiter, taken, scope, read>>
      BY OutsideUnchanged DEF work, replies
    <2>2. GatePoll \/ ReadFill \/ SubmitCall => UNCHANGED <<replies, waiter, taken, scope, read>>
      BY DEF GatePoll, ReadFill, SubmitCall, readUnchanged, replies, vars, connVars
    <2> QED
      BY <1>1, <1>2, <2>1, <2>2
  <1>3. CASE \/ GateStop \/ ReadLock \/ ReadCount \/ ReadLeave \/ (ReadArm /\ ~closed)
    <2>1. UNCHANGED <<replies, waiter, taken, scope>>
      BY <1>3 DEF GateStop, ReadLock, ReadCount, ReadLeave, ReadArm, readUnchanged, replies
    <2>2. /\ read' \in {"arm", "lock", "read"} => read \in {"arm", "lock", "read"}
          /\ read' \in {"count", "submit"} => read \in {"count", "submit"}
          /\ read' # "gate"
      BY <1>3 DEF GateStop, ReadLock, ReadCount, ReadLeave, ReadArm
    <2>3. InUse' \subseteq InUse
      BY <2>1, <2>2, <1>c, <1>u DEF InUse
    <2>4. Fresh' \subseteq Fresh
      BY <2>1, <2>2, <1>c DEF Fresh
    <2> QED
      BY <2>1, <2>3, <2>4, KeepScopes
  <1>4. CASE GatePass
    <2>1. /\ UNCHANGED <<replies, waiter, taken>> /\ read = "gate" /\ read' = "arm"
          /\ scope' = [scope EXCEPT ![taken + 1] = "open"]
      BY <1>4 DEF GatePass, readUnchanged, replies
    <2>2. InUse' = InUse \cup {taken + 1}
      BY <2>1, <1>0, <1>c, <1>u DEF InUse
    <2>3. Fresh' \subseteq Fresh /\ taken + 1 \notin Fresh'
      BY <2>1, <1>0, <1>c DEF Fresh
    <2>4. InUse \subseteq Scopes /\ Fresh \subseteq Scopes
      BY DEF InUse, Fresh
    <2> QED
      BY <2>1, <2>2, <2>3, <2>4, <1>0, <1>c DEF Memory
  <1>5. CASE ReadParse
    <2>1. /\ UNCHANGED <<replies, waiter, scope>> /\ read = "read" /\ read' = "count"
          /\ taken' = taken + 1
      BY <1>5 DEF ReadParse, readUnchanged, replies
    <2>2. InUse' \subseteq InUse
      BY <2>1, <1>0, <1>c, <1>u DEF InUse
    <2>3. Fresh' \subseteq Fresh
      BY <2>1, <1>0, <1>c DEF Fresh, Scopes
    <2> QED
      BY <2>1, <2>2, <2>3, KeepScopes
  <1>6. CASE ReadFail \/ (ReadArm /\ closed)
    <2>1. /\ UNCHANGED <<replies, waiter, taken>> /\ read \in {"arm", "read"} /\ read' = "leave"
          /\ Release({taken + 1})
      BY <1>6 DEF ReadFail, ReadArm, readUnchanged, replies
    <2>2. taken + 1 \in InUse
      BY <2>1, <1>0 DEF InUse
    <2>3. InUse' \subseteq InUse \ {taken + 1}
      <3>1. \A k \in Requests : Owed(k) => k # taken + 1
        BY <1>0, <1>h DEF Owed, Requests
      <3>2. Elems(responses) \cup Unreleased \subseteq Handed /\ taken + 1 \notin Handed
        BY <1>0, <1>h DEF Unreleased, Handed, Requests
      <3> QED
        BY <2>1, <3>1, <3>2, <1>0, <1>c, <1>u DEF InUse
    <2>4. Fresh' \subseteq Fresh
      BY <2>1, <1>0, <1>c DEF Fresh
    <2> QED
      BY <2>1, <2>2, <2>3, <2>4, <1>0, ReleaseScopes
  <1>7. CASE SubmitAccepted
    <2>1. /\ UNCHANGED <<replies, taken, scope>> /\ read = "submit" /\ read' = "gate"
          /\ waiter' = [waiter EXCEPT ![taken] = "wait"]
      BY <1>7 DEF SubmitAccepted, readUnchanged, replies
    <2>2. /\ Elems(responses') = Elems(responses) /\ Unreleased' = Unreleased
          /\ \A k \in Requests : Owed(k)' => Owed(k) \/ k = taken
      BY <2>1, <1>0 DEF replies, Unreleased, Writing, Owed
    <2>3. InUse' \subseteq InUse
      BY <2>1, <2>2, <1>0, <1>c DEF InUse
    <2>4. Fresh' \subseteq Fresh
      BY <2>1, <1>0, <1>c DEF Fresh
    <2> QED
      BY <2>1, <2>3, <2>4, KeepScopes
  <1>8. CASE SubmitRefused
    <2>1. /\ UNCHANGED <<replies, waiter, taken>> /\ read = "submit" /\ read' = "leave"
          /\ Release({taken})
      BY <1>8 DEF SubmitRefused, readUnchanged, replies
    <2>2. taken \in InUse
      <3>1. taken \in Scopes
        BY <2>1, <1>0, SessionAssumption DEF Core, Began, Scopes, TypeOK
      <3> QED
        BY <2>1, <3>1 DEF InUse
    <2>3. InUse' \subseteq InUse \ {taken}
      <3>1. \A k \in Requests : Owed(k) => k # taken
        BY <2>1, <1>h DEF Owed
      <3>2. Elems(responses) \cup Unreleased \subseteq Handed /\ taken \notin Handed
        BY <2>1, <1>h DEF Unreleased, Handed
      <3> QED
        BY <2>1, <3>1, <3>2, <1>0, <1>c, <1>u DEF InUse
    <2>4. Fresh' \subseteq Fresh
      BY <2>1, <1>0, <1>c DEF Fresh
    <2> QED
      BY <2>1, <2>2, <2>3, <2>4, <1>0, ReleaseScopes
  <1>9. ASSUME NEW k \in Requests, Waiter(k) PROVE Memory'
    <2>1. UNCHANGED <<taken, scope, read, batch, write>>
      BY <1>9 DEF Waiter, WaiterResult, HandleResponseCheck, HandleResponseSend,
                  HandleResponseStopped, DecrementInflight, waiterUnchanged, connVars
    <2>2. /\ \A j \in Requests : Owed(j)' => Owed(j)
          /\ \/ responses' = responses
             \/ HandleResponseSend(k) /\ Owed(k) /\ responses' = Append(responses, k)
      <3>1. Waiting(k) => \A j \in Requests : Owed(j)' => Owed(j)
        BY <1>0, WaitingMoves DEF Owed, Forward
      <3>2. ASSUME HandleResponseSend(k) \/ DecrementInflight(k)
            PROVE  \A j \in Requests : Owed(j)' => Owed(j)
        <4>1. /\ ~Owed(k)'
              /\ \A j \in Requests \ {k} : waiter'[j] = waiter[j]
          BY <3>2, <1>0 DEF HandleResponseSend, DecrementInflight, WaiterStep, Owed
        <4> QED
          BY <4>1 DEF Owed
      <3>3. \/ responses' = responses
            \/ HandleResponseSend(k) /\ Owed(k) /\ responses' = Append(responses, k)
        BY <1>9 DEF Waiter, WaiterResult, HandleResponseCheck, HandleResponseSend, WaiterStep,
                    HandleResponseStopped, DecrementInflight, Owed
      <3> QED
        BY <1>9, <3>1, <3>2, <3>3 DEF Waiter, Waiting
    <2>3. Elems(responses') \subseteq Elems(responses) \cup {j \in Requests : Owed(j)}
      <3>1. CASE responses' = responses
        BY <3>1
      <3>2. CASE Owed(k) /\ responses' = Append(responses, k)
        BY <3>2, <1>0, AppendFacts
      <3> QED
        BY <2>2, <3>1, <3>2
    <2>4. Unreleased' = Unreleased
      BY <2>1 DEF Unreleased, Writing
    <2>5. InUse' \subseteq InUse
      BY <2>1, <2>2, <2>3, <2>4, <1>0, <1>c DEF InUse
    <2>6. Fresh' \subseteq Fresh
      BY <2>1, <1>c DEF Fresh
    <2> QED
      BY <2>1, <2>5, <2>6, KeepScopes
  <1>10. CASE WriteLoop
    <2>1. UNCHANGED <<taken, read, waiter>>
      BY <1>10 DEF WriteLoop, TakeFirst, TakeStop, WriteReply, TakeMore, FlushLock, FlushOk,
                   FlushFail, ReleaseBatch, writeUnchanged
    <2>2. Fresh' \subseteq Fresh /\ \A k \in Requests : Owed(k)' = Owed(k)
      BY <2>1, <1>c DEF Fresh, Owed
    <2>3. ASSUME Elems(responses') \cup Unreleased' \subseteq Elems(responses) \cup Unreleased,
                 scope' = scope
          PROVE  Memory'
      <3>1. InUse' \subseteq InUse
        BY <2>1, <2>2, <2>3, <1>c DEF InUse
      <3> QED
        BY <2>2, <2>3, <3>1, KeepScopes
    <2>4. CASE responses # <<>> /\ (TakeFirst \/ TakeMore)
      <3>1. /\ responses' = Tail(responses) /\ scope' = scope
            /\ Elems(responses) = {Head(responses)} \cup Elems(Tail(responses))
            /\ Head(responses) \in Requests
        BY <2>4, <1>0, TailFacts DEF TakeFirst, TakeMore
      <3>2. Unreleased' \subseteq Unreleased \cup {Head(responses)}
        <4>1. CASE TakeFirst
          <5>1. batch' = <<Head(responses)>>
            BY <4>1 DEF TakeFirst
          <5>2. Elems(batch') = {Head(responses)}
            BY <3>1, <5>1, OneElement
          <5> QED
            BY <5>2 DEF Unreleased
        <4>2. CASE TakeMore
          <5>1. batch' = Append(batch, Head(responses)) /\ write = "more"
            BY <2>4, <4>2 DEF TakeMore
          <5>2. Elems(batch') = Elems(batch) \cup {Head(responses)}
            BY <1>0, <3>1, <5>1, AppendFacts
          <5> QED
            BY <5>1, <5>2 DEF Unreleased, Writing
        <4> QED
          BY <2>4, <4>1, <4>2
      <3> QED
        BY <2>3, <3>1, <3>2
    <2>5. CASE \/ TakeStop \/ WriteReply \/ FlushLock \/ FlushOk
               \/ (TakeMore /\ responses = <<>>)
      <3>1. /\ UNCHANGED <<responses, batch, scope>>
            /\ Writing' \/ write' = "flushed" => Writing \/ write = "flushed"
        BY <2>5 DEF TakeStop, WriteReply, FlushLock, FlushOk, TakeMore, Writing
      <3> QED
        BY <2>3, <3>1 DEF Unreleased
    <2>6. CASE FlushFail \/ ReleaseBatch
      <3>1. /\ Release(Elems(batch)) /\ responses' = responses /\ write \in {"flush", "flushed"}
            /\ write' \in {"take", "exited"}
        <4>1. {batch[i] : i \in DOMAIN batch} = Elems(batch)
          BY <1>0 DEF Elems
        <4> QED
          BY <2>6, <4>1 DEF FlushFail, ReleaseBatch
      <3>2. Unreleased = Elems(batch) /\ Unreleased' = {}
        BY <3>1 DEF Unreleased, Writing
      <3>3. Elems(batch) \subseteq InUse
        BY <3>2, <1>0, <1>h DEF InUse, Handed
      <3>4. InUse' \subseteq InUse \ Elems(batch)
        <4>1. /\ \A k \in Elems(batch) : k # taken + 1 /\ ~Owed(k)
              /\ read \in {"count", "submit"} => taken \notin Elems(batch)
          BY <1>0, <1>h DEF Handed, Requests
        <4>2. Elems(responses) \cap Elems(batch) = {}
          BY DEF Places, Apart
        <4> QED
          BY <2>1, <2>2, <3>1, <3>2, <4>1, <4>2, <1>c DEF InUse
      <3> QED
        BY <2>2, <3>1, <3>3, <3>4, <1>0, ReleaseScopes
    <2>7. TakeFirst => responses # <<>>
      BY DEF TakeFirst
    <2> QED
      BY <1>10, <2>4, <2>5, <2>6, <2>7 DEF WriteLoop
  <1> QED
    BY <1>2, <1>3, <1>4, <1>5, <1>6, <1>7, <1>8, <1>9, <1>10
    DEF Next, ReadLoop, ReadAlone, Submit, Outside, Callers, Terminated

SafetyInv == Core /\ Places /\ Memory

\* Types, counting, places and scopes, in every state.
LEMMA SafetyInvariant == Spec => []SafetyInv
  <1>1. Init => Places /\ Memory
    <2> SUFFICES ASSUME Init PROVE Places /\ Memory
      OBVIOUS
    <2>0. Elems(<<>>) = {} /\ NoRepeats(<<>>)
      BY EmptyFacts DEF NoRepeats
    <2>1. Places
      BY <2>0 DEF Init, SessionInit, Places, Placed, Handed, Apart, Encoded, Writing
    <2>2. InUse = {}
      BY <2>0 DEF Init, SessionInit, InUse, Unreleased, Owed
    <2>3. Memory
      BY <2>2 DEF Init, SessionInit, Memory, Fresh
    <2> QED
      BY <2>1, <2>3
  <1>2. SafetyInv /\ [Next]_vars => SafetyInv'
    BY CoreTypes, CoreSubmissions, CoreCounting, PlacesStep, MemoryStep DEF SafetyInv, Core
  <1>3. Init /\ Core => SafetyInv
    BY <1>1 DEF SafetyInv
  <1>4. Spec => []Core
    BY CoreInvariant
  <1> QED
    BY <1>2, <1>3, <1>4, PTL DEF Spec

\* A memory scope is open until its reply has been flushed or dropped: none of
\* readLoop, the waiter and writeLoop ever uses a released one, and no two of the
\* paths that release it are ever taken.
THEOREM ScopesOutliveReplies == Spec => []ScopeOutlivesReply
  <1>1. SafetyInv => ScopeOutlivesReply
    <2> SUFFICES ASSUME SafetyInv PROVE ScopeOutlivesReply
      OBVIOUS
    <2>1. /\ responses \in Seq(Requests) /\ batch \in Seq(Requests) /\ taken \in 0..MaxRequests
          /\ Requests \subseteq Scopes /\ (read \in {"count", "submit"} => taken # 0)
      BY SessionAssumption DEF SafetyInv, Core, TypeOK, Began, Requests, Scopes
    <2>2. Unsent \subseteq InUse
      BY <2>1 DEF Unsent, InFlight, InUse, Owed, Unreleased, Writing, Elems
    <2>3. read \in {"count", "submit"} => taken \in InUse
      BY <2>1, SessionAssumption DEF InUse, Scopes
    <2> QED
      BY <2>2, <2>3 DEF SafetyInv, Memory, ScopeOutlivesReply
  <1> QED
    BY <1>1, SafetyInvariant, PTL

-----------------------------------------------------------------------------
(* The order of replies with one request in flight                         *)

\* The replies of the batch that are still to be flushed.
Encoding == IF Writing THEN batch ELSE <<>>

Replied == Len(wire) + Len(Encoding) + Len(responses)

\* readLoop is between two requests, and no waiter may still send a reply.
Calm ==
  \/ read \in {"arm", "lock", "read"}
  \/ read = "gate" /\ ~stopping /\ \A k \in Requests : ~Owed(k)

\* The replies stand in line: those sent, those encoded, those queued, and then
\* the only one that a waiter, or readLoop, has in hand.
Lined ==
  /\ \A i \in 1..Len(Encoding) : Encoding[i] = Len(wire) + i
  /\ \A i \in 1..Len(responses) : responses[i] = Len(wire) + Len(Encoding) + i
  /\ \A k \in Requests : Owed(k) => k = Replied + 1
  /\ read \in {"count", "submit"} => taken = Replied + 1
  /\ Calm => taken = Replied

\* They no longer do when writeLoop has given up, or the client has gone and a
\* flush is lost.
Order ==
  MaxInFlight = 1 =>
    /\ \A k \in InFlight : k = taken
    /\ \A i \in 1..Len(wire) : wire[i] = i
    /\ client # "gone" /\ write # "exited" => Lined

\* With a limit of one, readLoop has a request in hand only if no waiter has.
LEMMA OneInFlight ==
  ASSUME Core, MaxInFlight = 1, read \in {"arm", "lock", "read", "count", "submit"}
  PROVE  InFlight = {}
  <1>1. Cardinality(InFlight) = 0
    BY InFlightFinite DEF Core, TypeOK, Counting, InflightExact
  <1> QED
    BY <1>1, InFlightFinite, FS_EmptySet

\* Nothing is taken back: not the stop, nor a client that has gone, nor the end of
\* writeLoop.
LEMMA StoppingStays == [Next]_vars => (stopping => stopping')
  BY DEF Next, vars, Terminated, ClientEvents, ClientSends, ClientChanges, DispatcherEvents,
         DispatcherAnswers, DispatcherStops, dispatcherUnchanged, ReadLoop, ReadAlone, Submit,
         GateStop, GatePoll, GatePass, ReadArm, ReadLock, ReadFill, ReadParse, ReadFail, ReadCount,
         ReadLeave, SubmitCall, SubmitAccepted, SubmitRefused, Waiter, WaiterResult,
         HandleResponseCheck, HandleResponseSend, HandleResponseStopped, DecrementInflight,
         waiterUnchanged, WriteLoop, TakeFirst, TakeStop, WriteReply, TakeMore, FlushLock, FlushOk,
         FlushFail, ReleaseBatch, writeUnchanged, MainLoop, CloseConn, OnRemove, Done, Stop,
         StopReturn, CloseNow, CloseCall, CloseNowLock, CloseNowClose, CloseNowReturn

\* A client that has gone and a write loop that has ended stay so.
LEMMA AliveBefore ==
  [Next]_vars => /\ client' # "gone" => client # "gone"
                 /\ write' # "exited" => write # "exited"
  <1> SUFFICES ASSUME [Next]_vars
               PROVE  /\ client' # "gone" => client # "gone"
                      /\ write' # "exited" => write # "exited"
    OBVIOUS
  <1>1. CASE ClientEvents
    BY <1>1 DEF ClientEvents, ClientSends, ClientChanges
  <1>2. CASE DispatcherEvents \/ Callers \/ UNCHANGED vars
    BY <1>2, EventsUnchanged, CallersUnchanged DEF dispatcherUnchanged, callerUnchanged, clientVars,
                                                   vars
  <1>3. CASE ReadLoop
    BY <1>3
    DEF ReadLoop, ReadAlone, Submit, GateStop, GatePoll, GatePass, ReadArm, ReadLock, ReadFill,
        ReadParse, ReadFail, ReadCount, ReadLeave, SubmitCall, SubmitAccepted, SubmitRefused,
        readUnchanged, clientVars, vars
  <1>4. CASE \E k \in Requests : Waiter(k)
    BY <1>4 DEF Waiter, WaiterResult, HandleResponseCheck, HandleResponseSend,
                HandleResponseStopped, DecrementInflight, waiterUnchanged, clientVars
  <1>5. CASE WriteLoop
    BY <1>5 DEF WriteLoop, TakeFirst, TakeStop, WriteReply, TakeMore, FlushLock, FlushOk, FlushFail,
                ReleaseBatch, writeUnchanged, clientVars
  <1> QED
    BY <1>1, <1>2, <1>3, <1>4, <1>5 DEF Next, Callers, Terminated

\* With a limit of one, what is in flight is the last request taken.
LEMMA InFlightIsTaken ==
  ASSUME Core, MaxInFlight = 1, \A k \in InFlight : k = taken, [Next]_vars
  PROVE  \A k \in InFlight' : k = taken'
  <1>0. waiter \in [Requests -> WaiterStates] /\ Requests' = Requests
    BY DEF Core, TypeOK, Requests
  <1>1. CASE UNCHANGED <<waiter, taken>>
    BY <1>1 DEF InFlight
  <1>2. CASE Outside \/ WriteLoop \/ SubmitCall \/ SubmitRefused \/ (ReadAlone /\ ~ReadParse)
    <2>1. Outside => UNCHANGED <<waiter, taken>>
      BY OutsideUnchanged DEF work
    <2>2. WriteLoop => UNCHANGED <<waiter, taken>>
      BY DEF WriteLoop, TakeFirst, TakeStop, WriteReply, TakeMore, FlushLock, FlushOk, FlushFail,
             ReleaseBatch, writeUnchanged
    <2>3. SubmitCall \/ SubmitRefused \/ (ReadAlone /\ ~ReadParse) => UNCHANGED <<waiter, taken>>
      BY DEF SubmitCall, SubmitRefused, ReadAlone, GateStop, GatePoll, GatePass, ReadArm, ReadLock,
             ReadFill, ReadFail, ReadCount, ReadLeave, vars, connVars
    <2> QED
      BY <1>1, <1>2, <2>1, <2>2, <2>3
  <1>3. CASE ReadParse
    <2>1. read = "read" /\ waiter' = waiter
      BY <1>3 DEF ReadParse
    <2> QED
      BY <2>1, OneInFlight DEF InFlight
  <1>4. CASE SubmitAccepted
    <2>1. /\ read = "submit" /\ taken' = taken /\ waiter' = [waiter EXCEPT ![taken] = "wait"]
      BY <1>4 DEF SubmitAccepted
    <2> QED
      BY <1>0, <2>1, OneInFlight DEF InFlight
  <1>5. ASSUME NEW k \in Requests, Waiter(k) PROVE \A j \in InFlight' : j = taken'
    <2>1. taken' = taken
      BY <1>5 DEF Waiter, WaiterResult, HandleResponseCheck, HandleResponseSend,
                  HandleResponseStopped, DecrementInflight, waiterUnchanged, connVars
    <2>2. waiter[k] # "none" /\ waiter[k] # "exited"
          /\ \A j \in Requests \ {k} : waiter'[j] = waiter[j]
      BY <1>0, <1>5 DEF Waiter, WaiterResult, HandleResponseCheck, HandleResponseSend,
                        HandleResponseStopped, DecrementInflight, WaiterStep
    <2>3. InFlight' \subseteq InFlight
      BY <1>0, <2>2 DEF InFlight, WaiterStates
    <2> QED
      BY <2>1, <2>3
  <1> QED
    BY <1>2, <1>3, <1>4, <1>5
    DEF Next, ReadLoop, Submit, Outside, Callers, Terminated

\* With a limit of one, the replies stand in line, the last one taken at the end.
LEMMA LinedStep ==
  ASSUME Core, Places, MaxInFlight = 1, \A k \in InFlight : k = taken, Lined, [Next]_vars,
         client # "gone", write # "exited", write' # "exited"
  PROVE  Lined'
  <1>0. /\ responses \in Seq(Requests) /\ batch \in Seq(Requests) /\ wbuf \in Seq(Requests)
        /\ wire \in Seq(Requests) /\ waiter \in [Requests -> WaiterStates]
        /\ taken \in Nat /\ read \in ReadStates /\ Encoding \in Seq(Requests)
    BY EmptyFacts DEF Core, TypeOK, Encoding
  <1>n. /\ Len(wire) \in Nat /\ Len(Encoding) \in Nat /\ Len(responses) \in Nat
        /\ Replied \in Nat /\ Requests' = Requests
    BY <1>0 DEF Replied, Requests
  <1>f. /\ \A k \in Requests : Owed(k) => k \in InFlight
        /\ read \in {"arm", "lock", "read", "count", "submit"} => \A k \in Requests : ~Owed(k)
    BY OneInFlight DEF Owed, InFlight
  <1>s. stopping => stopping'
    BY StoppingStays
  <1>u. ASSUME UNCHANGED replies
        PROVE  /\ Len(wire') = Len(wire) /\ Encoding' = Encoding /\ Len(Encoding') = Len(Encoding)
               /\ Len(responses') = Len(responses) /\ Replied' = Replied
               /\ \A i \in 1..Len(Encoding') : Encoding'[i] = Len(wire') + i
               /\ \A i \in 1..Len(responses') : responses'[i] = Len(wire') + Len(Encoding') + i
    BY <1>u DEF replies, Encoding, Writing, Replied, Lined
  <1>1. ASSUME UNCHANGED replies, taken' = taken, \A k \in Requests : Owed(k)' => Owed(k),
               read' \in {"count", "submit"} => read \in {"count", "submit"}, Calm' => Calm
        PROVE  Lined'
    BY <1>1, <1>u, <1>n DEF Lined
  <1>2. CASE Outside \/ GatePoll \/ ReadFill \/ SubmitCall
    <2>1. UNCHANGED <<replies, waiter, taken, read>>
      <3>1. Outside => UNCHANGED <<replies, waiter, taken, read>>
        BY OutsideUnchanged DEF work, replies
      <3>2. GatePoll \/ ReadFill \/ SubmitCall => UNCHANGED <<replies, waiter, taken, read>>
        BY DEF GatePoll, ReadFill, SubmitCall, readUnchanged, replies, vars, connVars
      <3> QED
        BY <1>2, <3>1, <3>2
    <2>2. \A k \in Requests : Owed(k)' = Owed(k)
      BY <2>1 DEF Owed
    <2>3. Calm' => Calm
      BY <2>1, <2>2, <1>s, <1>n DEF Calm
    <2> QED
      BY <2>1, <2>2, <2>3, <1>1
  <1>3. CASE ReadAlone /\ ~(GatePoll \/ ReadFill \/ ReadParse)
    <2>1. UNCHANGED replies /\ UNCHANGED <<waiter, taken>>
      BY <1>3, ReadLoopUnchanged
      DEF ReadLoop, ReadAlone, GateStop, GatePass, ReadArm, ReadLock, ReadFail, ReadCount, ReadLeave
    <2>2. /\ read' # "gate"
          /\ read' \in {"count", "submit"} => read = "count"
          /\ read' \in {"arm", "lock", "read"} =>
               \/ read \in {"arm", "lock", "read"}
               \/ read = "gate" /\ ~stopping /\ inflight < MaxInFlight
      BY <1>3 DEF ReadAlone, GateStop, GatePass, ReadArm, ReadLock, ReadFail, ReadCount, ReadLeave
    <2>3. \A k \in Requests : Owed(k)' = Owed(k)
      BY <2>1 DEF Owed
    <2>4. read = "gate" /\ inflight < MaxInFlight => \A k \in Requests : ~Owed(k)
      <3> SUFFICES ASSUME read = "gate", inflight < MaxInFlight PROVE InFlight = {}
        BY <1>f
      <3>1. Cardinality(InFlight) = 0
        BY InFlightFinite DEF Core, TypeOK, Counting, InflightExact
      <3> QED
        BY <3>1, InFlightFinite, FS_EmptySet
    <2>5. Calm' => Calm
      BY <2>2, <2>4 DEF Calm
    <2> QED
      BY <2>1, <2>2, <2>3, <2>5, <1>1
  <1>4. CASE ReadParse
    <2>1. /\ UNCHANGED <<replies, waiter>> /\ read = "read" /\ read' = "count"
          /\ taken' = taken + 1
      BY <1>4 DEF ReadParse, readUnchanged, replies
    <2>2. taken = Replied /\ ~Calm' /\ \A k \in Requests : ~Owed(k)'
      BY <2>1, <1>f DEF Lined, Calm, Owed
    <2> QED
      BY <2>1, <2>2, <1>u, <1>n DEF Lined
  <1>5. CASE SubmitAccepted
    <2>1. /\ UNCHANGED replies /\ taken' = taken /\ read = "submit" /\ read' = "gate"
          /\ waiter' = [waiter EXCEPT ![taken] = "wait"]
      BY <1>5, ReadLoopUnchanged DEF ReadLoop, Submit, SubmitAccepted
    <2>2. taken = Replied + 1 /\ taken \in Requests
      BY <2>1, SessionAssumption DEF Lined, Core, TypeOK, Began, Requests
    <2>3. Owed(taken)' /\ \A k \in Requests : Owed(k)' => k = taken
      BY <2>1, <2>2, <1>0, <1>f DEF Owed
    <2>4. ~Calm'
      BY <2>1, <2>2, <2>3, <1>n DEF Calm
    <2> QED
      BY <2>1, <2>2, <2>3, <2>4, <1>u, <1>n DEF Lined
  <1>6. CASE SubmitRefused
    <2>1. UNCHANGED replies /\ UNCHANGED <<waiter, taken>> /\ read' = "leave"
      BY <1>6, ReadLoopUnchanged DEF ReadLoop, Submit, SubmitRefused
    <2> QED
      BY <2>1, <1>1 DEF Owed, Calm
  <1>7. ASSUME NEW k \in Requests, Waiter(k)
        PROVE  /\ waiter[k] \in {"wait", "check", "select", "decrement"}
               /\ \A j \in Requests \ {k} : waiter'[j] = waiter[j]
               /\ UNCHANGED <<batch, wbuf, wire, write, taken, read, stopping>>
               /\ read \notin {"arm", "lock", "read", "count", "submit"}
    <2>1. /\ waiter[k] \in {"wait", "check", "select", "decrement"}
          /\ \A j \in Requests \ {k} : waiter'[j] = waiter[j]
      BY <1>0, <1>7 DEF Waiter, WaiterResult, HandleResponseCheck, HandleResponseSend,
                        HandleResponseStopped, DecrementInflight, WaiterStep
    <2>2. UNCHANGED <<batch, wbuf, wire, write, taken, read, stopping>>
      BY <1>7 DEF Waiter, WaiterResult, HandleResponseCheck, HandleResponseSend,
                  HandleResponseStopped, DecrementInflight, waiterUnchanged, connVars
    <2>3. k \in InFlight
      BY <2>1 DEF InFlight
    <2> QED
      BY <2>1, <2>2, <2>3, OneInFlight
  <1>8. ASSUME NEW k \in Requests, Waiting(k) \/ DecrementInflight(k) PROVE Lined'
    <2>1. UNCHANGED replies /\ taken' = taken /\ read' = read /\ stopping' = stopping
      BY <1>7, <1>8 DEF Waiter, Waiting, WaiterResult, HandleResponseCheck, HandleResponseStopped,
                        DecrementInflight, replies
    <2>2. /\ Owed(k)' => Owed(k)
          /\ ~stopping => (Owed(k)' <=> Owed(k))
      BY <1>0, <1>8 DEF Waiting, WaiterResult, HandleResponseCheck, HandleResponseStopped,
                        DecrementInflight, WaiterStep, Owed
    <2>3. \A j \in Requests : Owed(j)' => Owed(j)
      BY <1>7, <1>8, <2>2 DEF Waiter, Waiting, Owed
    <2>4. ~stopping => \A j \in Requests : Owed(j)' <=> Owed(j)
      BY <1>7, <1>8, <2>2 DEF Waiter, Waiting, Owed
    <2>5. Calm' => Calm
      BY <2>1, <2>4, <1>n DEF Calm
    <2> QED
      BY <2>1, <2>3, <2>5, <1>1
  <1>9. ASSUME NEW k \in Requests, HandleResponseSend(k) PROVE Lined'
    <2>1. /\ responses' = Append(responses, k) /\ waiter[k] = "select"
          /\ waiter' = [waiter EXCEPT ![k] = "decrement"]
          /\ UNCHANGED <<batch, wire, write, taken>> /\ read' = read
          /\ read \notin {"arm", "lock", "read", "count", "submit"}
      BY <1>7, <1>9 DEF Waiter, HandleResponseSend, WaiterStep
    <2>2. /\ k = Replied + 1 /\ k = taken
          /\ \A j \in Requests : ~Owed(j)'
      <3>1. k = Replied + 1 /\ k = taken
        BY <2>1 DEF Lined, Owed, InFlight
      <3>2. ~Owed(k)' /\ \A j \in Requests \ {k} : Owed(j)' => Owed(j) /\ j = taken
        BY <2>1, <1>0, <1>f DEF Owed
      <3> QED
        BY <3>1, <3>2
    <2>3. /\ Encoding' = Encoding /\ Len(wire') = Len(wire) /\ Len(Encoding') = Len(Encoding)
      BY <2>1 DEF Encoding, Writing
    <2>4. /\ Len(responses') = Len(responses) + 1 /\ responses'[Len(responses) + 1] = k
          /\ \A i \in 1..Len(responses) : responses'[i] = responses[i]
      BY <2>1, <1>0, AppendLast
    <2>5. Replied' = Replied + 1
      BY <2>3, <2>4, <1>n DEF Replied
    <2>6. \A i \in 1..Len(responses') : responses'[i] = Len(wire') + Len(Encoding') + i
      BY SMTT(30), <2>2, <2>3, <2>4, <1>n DEF Lined, Replied
    <2>7. \A i \in 1..Len(Encoding') : Encoding'[i] = Len(wire') + i
      BY <2>3 DEF Lined
    <2> QED
      BY <2>1, <2>2, <2>5, <2>6, <2>7 DEF Lined
  <1>10. CASE WriteLoop
    <2>1. UNCHANGED <<taken, read, waiter, stopping>>
      BY <1>10 DEF WriteLoop, TakeFirst, TakeStop, WriteReply, TakeMore, FlushLock, FlushOk,
                   FlushFail, ReleaseBatch, writeUnchanged
    <2>2. ASSUME Replied' = Replied,
                 \A i \in 1..Len(Encoding') : Encoding'[i] = Len(wire') + i,
                 \A i \in 1..Len(responses') : responses'[i] = Len(wire') + Len(Encoding') + i
          PROVE  Lined'
      <3>1. (\A k \in Requests : Owed(k)' = Owed(k)) /\ Calm' = Calm
        BY <2>1, <1>n DEF Owed, Calm
      <3> QED
        BY <2>1, <2>2, <3>1, <1>n DEF Lined
    <2>3. CASE responses # <<>> /\ (TakeFirst \/ TakeMore)
      <3> DEFINE h == Head(responses)
      <3>1. /\ Encoding' = Append(Encoding, h) /\ responses' = Tail(responses) /\ wire' = wire
        <4>1. CASE TakeFirst
          <5>1. /\ batch' = <<h>> /\ write = "take" /\ write' = "write"
                /\ responses' = Tail(responses) /\ wire' = wire
            BY <4>1 DEF TakeFirst
          <5>2. Encoding = <<>> /\ Encoding' = <<h>>
            BY <5>1 DEF Encoding, Writing
          <5> QED
            BY <5>1, <5>2
        <4>2. CASE TakeMore
          BY <2>3, <4>2 DEF TakeMore, Encoding, Writing
        <4> QED
          BY <2>3, <4>1, <4>2
      <3>2. /\ h = responses[1] /\ h \in Requests /\ Len(Tail(responses)) = Len(responses) - 1
            /\ Len(responses) \in Nat \ {0}
            /\ \A i \in 1..Len(Tail(responses)) : Tail(responses)[i] = responses[i + 1]
        BY <2>3, <1>0, TailFacts, TailShifts
      <3>3. /\ Len(Append(Encoding, h)) = Len(Encoding) + 1
            /\ Append(Encoding, h)[Len(Append(Encoding, h))] = h
            /\ \A i \in 1..Len(Encoding) : Append(Encoding, h)[i] = Encoding[i]
        BY <3>2, <1>0, AppendLast
      <3> HIDE DEF h
      <3>4. h = Len(wire) + Len(Encoding) + 1
        BY <3>2, <1>n DEF Lined
      <3>5. Replied' = Replied
        BY <3>1, <3>2, <3>3, <1>n DEF Replied
      <3>6. \A i \in 1..Len(Encoding') : Encoding'[i] = Len(wire') + i
        <4>1. \A i \in 1..Len(Encoding) : Append(Encoding, h)[i] = Len(wire) + i
          BY <3>3 DEF Lined
        <4>2. Append(Encoding, h)[Len(Encoding) + 1] = Len(wire) + Len(Encoding) + 1
          BY <3>3, <3>4
        <4>3. \A i \in 1..(Len(Encoding) + 1) : i \in 1..Len(Encoding) \/ i = Len(Encoding) + 1
          BY <1>n
        <4>4. ASSUME NEW i \in 1..(Len(Encoding) + 1)
              PROVE  Append(Encoding, h)[i] = Len(wire) + i
          BY <4>1, <4>2, <4>3, <1>n
        <4> QED
          BY <3>1, <3>3, <4>4
      <3>7. \A i \in 1..Len(responses') : responses'[i] = Len(wire') + Len(Encoding') + i
        BY SMTT(30), <3>1, <3>2, <3>3, <1>n DEF Lined
      <3> QED
        BY <2>2, <3>5, <3>6, <3>7
    <2>4. CASE \/ TakeStop \/ WriteReply \/ FlushLock \/ ReleaseBatch
               \/ (TakeMore /\ responses = <<>>)
      <3>1. responses' = responses /\ wire' = wire
        BY <2>4 DEF TakeStop, WriteReply, FlushLock, ReleaseBatch, TakeMore
      <3>2. /\ Writing' <=> Writing
            /\ Writing => batch' = batch
        BY <2>4 DEF TakeStop, WriteReply, FlushLock, ReleaseBatch, TakeMore, Writing
      <3>3. Encoding' = Encoding
        BY <3>2 DEF Encoding
      <3> QED
        BY <3>1, <3>3, <2>2 DEF Lined, Replied
    <2>5. CASE FlushOk
      <3>1. /\ wire' = wire \o Encoding /\ responses' = responses /\ Encoding' = <<>>
        BY <2>5 DEF FlushOk, Places, Encoded, Encoding, Writing
      <3>2. /\ Len(wire') = Len(wire) + Len(Encoding) /\ Len(Encoding') = 0
        BY <3>1, <1>0, ConcatFacts, EmptyFacts
      <3>3. Replied' = Replied
        BY <3>1, <3>2, <1>n DEF Replied
      <3>4. \A i \in 1..Len(responses') : responses'[i] = Len(wire') + Len(Encoding') + i
        BY <3>1, <3>2, <1>n DEF Lined
      <3> QED
        BY <2>2, <3>2, <3>3, <3>4
    <2>6. ~FlushFail
      BY DEF FlushFail
    <2>7. TakeFirst => responses # <<>>
      BY DEF TakeFirst
    <2> QED
      BY <1>10, <2>3, <2>4, <2>5, <2>6, <2>7 DEF WriteLoop
  <1> QED
    BY <1>2, <1>3, <1>4, <1>5, <1>6, <1>8, <1>9, <1>10
    DEF Next, ReadLoop, Submit, Outside, Callers, Terminated, Waiter, Waiting

\* With a limit of one, no step puts a reply before an earlier one.
LEMMA OrderStep == Core /\ Places /\ Order /\ [Next]_vars => Order'
  <1> SUFFICES ASSUME Core, Places, Order, [Next]_vars, MaxInFlight = 1
               PROVE  /\ \A k \in InFlight' : k = taken'
                      /\ \A i \in 1..Len(wire') : wire'[i] = i
                      /\ client' # "gone" /\ write' # "exited" => Lined'
    BY DEF Order
  <1>1. \A k \in InFlight' : k = taken'
    BY InFlightIsTaken DEF Order
  <1>2. client' # "gone" /\ write' # "exited" => Lined'
    BY LinedStep, AliveBefore DEF Order
  <1>3. \A i \in 1..Len(wire') : wire'[i] = i
    <2>1. CASE wire' = wire
      BY <2>1 DEF Order
    <2>2. CASE FlushOk /\ client # "gone"
      <3>1. /\ wire' = wire \o batch
            /\ \A i \in 1..Len(batch) : batch[i] = Len(wire) + i
        BY <2>2 DEF FlushOk, Places, Encoded, Order, Lined, Encoding, Writing
      <3>2. /\ Len(wire') = Len(wire) + Len(batch) /\ Len(wire) \in Nat /\ Len(batch) \in Nat
            /\ \A i \in 1..Len(wire) : wire'[i] = wire[i]
            /\ \A i \in 1..Len(batch) : wire'[Len(wire) + i] = batch[i]
        BY <3>1, ConcatFacts DEF Core, TypeOK
      <3>3. ASSUME NEW i \in 1..(Len(wire) + Len(batch)), i \notin 1..Len(wire)
            PROVE  i - Len(wire) \in 1..Len(batch) /\ i = Len(wire) + (i - Len(wire))
        BY <3>2, <3>3
      <3>4. ASSUME NEW i \in 1..(Len(wire) + Len(batch)) PROVE wire'[i] = i
        <4>1. CASE i \in 1..Len(wire)
          BY <3>2, <4>1 DEF Order
        <4>2. CASE i \notin 1..Len(wire)
          BY <3>1, <3>2, <3>3, <4>2
        <4> QED
          BY <4>1, <4>2
      <3> QED
        BY <3>2, <3>4
    <2>3. Outside \/ ReadLoop => wire' = wire
      BY OutsideUnchanged, ReadLoopUnchanged DEF work, replies
    <2>4. ASSUME NEW k \in Requests, Waiter(k) PROVE wire' = wire
      BY <2>4 DEF Waiter, WaiterResult, HandleResponseCheck, HandleResponseSend,
                  HandleResponseStopped, DecrementInflight, waiterUnchanged, connVars
    <2>5. WriteLoop => wire' = wire \/ (FlushOk /\ client # "gone")
      BY DEF WriteLoop, TakeFirst, TakeStop, WriteReply, TakeMore, FlushLock, FlushOk, FlushFail,
             ReleaseBatch
    <2> QED
      BY <2>1, <2>2, <2>3, <2>4, <2>5 DEF Next, Outside, Callers, Terminated
  <1> QED
    BY <1>1, <1>2, <1>3

\* With a limit of one, the wire holds the replies 1, 2, 3, ... in every state.
LEMMA OrderInvariant == Spec => []Order
  <1>1. Init => Order
    <2> SUFFICES ASSUME Init PROVE Order
      OBVIOUS
    <2>1. InFlight = {}
      BY DEF Init, SessionInit, InFlight
    <2>2. Len(<<>>) = 0
      BY EmptyFacts
    <2>3. wire = <<>> /\ responses = <<>> /\ Encoding = <<>> /\ taken = 0 /\ read = "gate"
      BY DEF Init, SessionInit, Encoding, Writing
    <2>4. \A k \in Requests : ~Owed(k)
      BY <2>1 DEF Owed, InFlight
    <2> QED
      BY <2>1, <2>2, <2>3, <2>4 DEF Order, Lined, Replied
  <1>2. Core /\ Places /\ Order /\ [Next]_vars => Order'
    BY OrderStep
  <1>3. Spec => [](Core /\ Places)
    <2>1. SafetyInv => Core /\ Places
      BY DEF SafetyInv
    <2> QED
      BY <2>1, SafetyInvariant, PTL
  <1> QED
    BY <1>1, <1>2, <1>3, PTL DEF Spec

\* With the default of one request in flight the i-th reply on the connection
\* answers the i-th request, whatever fails and whoever stops the session.
THEOREM RepliesInOrder ==
  ASSUME MaxInFlight = 1 PROVE Spec => []PipelinedRepliesInOrder
  <1>1. Core /\ Order => PipelinedRepliesInOrder
    BY DEF Core, TypeOK, Order, PipelinedRepliesInOrder
  <1>2. Spec => []Core
    BY CoreInvariant
  <1> QED
    BY <1>1, <1>2, OrderInvariant, PTL

-----------------------------------------------------------------------------
(* The session implements the conversation                                 *)

Executed == {k \in Requests : phase[k] = "answered"}

\* A step without a request sent, executed, replied or an end is a stutter.
LEMMA NothingSaid ==
  ASSUME UNCHANGED <<sent, wire, closed>>, Executed' = Executed
  PROVE  UNCHANGED Talk!cvars
  BY DEF Talk!cvars, Executed

\* One request in flight: the earlier ones have been answered already.
LEMMA AnswerExecutes ==
  ASSUME Core, Order, NEW k \in Requests, DispatcherAnswers(k)
  PROVE  Talk!Execute(k)
  <1>1. /\ phase[k] = "accepted" /\ phase' = [phase EXCEPT ![k] = "answered"]
        /\ phase \in [Requests -> Service!Phases]
        /\ UNCHANGED <<sent, wire, closed>>
    BY DEF DispatcherAnswers, dispatcherUnchanged, clientVars, connVars, Service!Answer,
           Service!Move, Core, TypeOK, Service!STypeOK
  <1>2. taken \in Nat /\ sent \in Nat /\ taken <= sent /\ k \in Nat /\ MaxRequests \in Nat
    BY SessionAssumption DEF Core, TypeOK, Requests
  <1>3. k <= taken /\ k \in 1..sent
    BY <1>1, <1>2 DEF Core, Submissions, Submitted, Requests
  <1>4. Executed' = Executed \cup {k} /\ k \notin Executed
    BY <1>1 DEF Executed, Requests
  <1>5. ASSUME MaxInFlight = 1, NEW j \in 1..(k - 1) PROVE j \in Executed
    <2>1. j \in Requests /\ j < taken
      BY <1>2, <1>3 DEF Requests
    <2>2. phase[j] = "accepted" => j \in InFlight
      BY <2>1, <1>1 DEF Core, TypeOK, WaiterStates, Submissions, Submitted, InFlight
    <2> QED
      BY <1>2, <1>5, <2>1, <2>2 DEF Core, Submissions, Submitted, Order, Executed
  <1> QED
    BY <1>1, <1>3, <1>4, <1>5 DEF Talk!Execute, Executed

\* What a flush sends is a batch of replies to requests executed but not replied
\* to, each once.
LEMMA FlushReplies ==
  ASSUME Core, Places, Order, FlushOk, client # "gone"
  PROVE  Talk!Reply
  <1>1. /\ write = "flush" /\ ~closed /\ wbuf = batch /\ batch # <<>> /\ wire' = wire \o batch
        /\ batch \in Seq(Requests) /\ wire \in Seq(Requests)
        /\ UNCHANGED <<sent, phase, closed>>
    BY DEF FlushOk, writeUnchanged, clientVars, serviceVars, Places, Encoded, Core, TypeOK
  <1>2. Talk!Unreplied = Executed \ Elems(wire)
    BY <1>1 DEF Talk!Unreplied, Executed, Elems
  <1>3. NoRepeats(batch) /\ Elems(batch) \cap Elems(wire) = {}
    BY <1>1 DEF Places, Apart, Writing
  <1>4. Elems(batch) \subseteq Executed
    <2>1. Elems(batch) \subseteq Requests
      BY <1>1 DEF Elems
    <2> QED
      BY <2>1 DEF Places, Placed, Handed, Core, Submissions, Executed
  <1>5. IsFiniteSet(Talk!Unreplied) /\ Cardinality(Talk!Unreplied) \in Nat
    <2>1. IsFiniteSet(Requests)
      BY SessionAssumption, FS_Interval DEF Requests
    <2>2. Talk!Unreplied \subseteq Requests
      BY <1>2 DEF Executed
    <2> QED
      BY <2>1, <2>2, FS_Subset, FS_CardinalityType
  <1>6. Len(batch) \in 1..Cardinality(Talk!Unreplied)
    <2>1. Elems(batch) \subseteq Talk!Unreplied
      BY <1>2, <1>3, <1>4
    <2>2. Len(batch) <= Cardinality(Talk!Unreplied)
      BY <1>1, <1>3, <1>5, <2>1, NoRepeatsLength
    <2>3. Len(batch) \in Nat /\ Len(batch) # 0
      BY <1>1
    <2> QED
      BY <1>5, <2>2, <2>3
  <1>7. batch \in [1..Len(batch) -> Talk!Unreplied] /\ DOMAIN batch = 1..Len(batch)
    <2>1. DOMAIN batch = 1..Len(batch) /\ batch \in [1..Len(batch) -> Requests]
      BY <1>1
    <2>2. \A i \in 1..Len(batch) : batch[i] \in Talk!Unreplied
      BY <1>2, <1>3, <1>4 DEF Elems
    <2> QED
      BY <2>1, <2>2
  <1>8. batch \in Talk!Batches
    <2>1. batch \in UNION {[1..n -> Talk!Unreplied] : n \in 1..Cardinality(Talk!Unreplied)}
      BY <1>6, <1>7
    <2>2. \A i, j \in DOMAIN batch : batch[i] = batch[j] => i = j
      BY <1>3, <1>7 DEF NoRepeats
    <2>3. Talk!Cardinality(Talk!Unreplied) = Cardinality(Talk!Unreplied)
      BY DEF Talk!Cardinality, Cardinality
    <2> QED
      BY <2>1, <2>2, <2>3 DEF Talk!Batches
  <1>9. MaxInFlight = 1 => \A i \in DOMAIN batch : batch[i] = Len(wire) + i
    BY <1>1, <1>7 DEF Order, Lined, Encoding, Writing
  <1> QED
    BY <1>1, <1>8, <1>9 DEF Talk!Reply

\* Each step of the session is one of the conversation, or none.
LEMMA ConversationStep ==
  Core /\ Places /\ Order /\ [Next]_vars => [Talk!CNext]_(Talk!cvars)
  <1> SUFFICES ASSUME Core, Places, Order, [Next]_vars
               PROVE  Talk!CNext \/ UNCHANGED Talk!cvars
    OBVIOUS
  <1>1. CASE ClientEvents
    <2>1. Executed' = Executed /\ UNCHANGED <<wire, closed>>
      BY <1>1, EventsUnchanged DEF Executed, Requests, connVars, serviceVars
    <2>2. CASE ClientSends
      <3>1. Talk!Ask
        BY <2>1, <2>2 DEF ClientSends, Talk!Ask, Executed
      <3> QED
        BY <3>1 DEF Talk!CNext
    <2>3. ASSUME NEW event, NEW from, NEW to, ClientChanges(event, from, to)
          PROVE  UNCHANGED Talk!cvars
      BY <2>1, <2>3, NothingSaid DEF ClientChanges
    <2> QED
      BY <1>1, <2>2, <2>3 DEF ClientEvents
  <1>2. ASSUME NEW k \in Requests, DispatcherAnswers(k) PROVE Talk!CNext
    BY <1>2, AnswerExecutes DEF Talk!CNext, Requests
  <1>3. CASE DispatcherStops
    <2>1. UNCHANGED <<sent, wire, closed, phase>>
      BY <1>3 DEF DispatcherStops, dispatcherUnchanged, clientVars, connVars, Service!BeginStop,
                  Service!EndStop
    <2> QED
      BY <2>1, NothingSaid DEF Executed, Requests
  <1>4. CASE ReadAlone \/ (\E k \in Requests : Waiter(k)) \/ UNCHANGED vars
    <2>1. UNCHANGED <<sent, wire, closed, phase>>
      <3>1. CASE ReadAlone
        BY <3>1 DEF ReadAlone, GateStop, GatePoll, GatePass, ReadArm, ReadLock, ReadFill, ReadParse,
                    ReadFail, ReadCount, ReadLeave, readUnchanged, clientVars, connVars,
                    serviceVars, vars
      <3>2. CASE (\E k \in Requests : Waiter(k)) \/ UNCHANGED vars
        BY <3>2 DEF Waiter, WaiterResult, HandleResponseCheck, HandleResponseSend,
                    HandleResponseStopped, DecrementInflight, waiterUnchanged, clientVars, connVars,
                    serviceVars, vars
      <3> QED
        BY <1>4, <3>1, <3>2
    <2> QED
      BY <2>1, NothingSaid DEF Executed, Requests
  <1>5. CASE Submit
    <2>1. /\ UNCHANGED <<sent, wire, closed>>
      BY <1>5 DEF Submit, SubmitCall, SubmitAccepted, SubmitRefused, readUnchanged, clientVars
    <2>2. /\ phase[taken] # "answered"
          /\ \E to \in {"calling", "accepted", "refused"} : phase' = [phase EXCEPT ![taken] = to]
      BY <1>5 DEF Submit, SubmitCall, SubmitAccepted, SubmitRefused, Service!Call, Service!Accept,
                  Service!Refuse, Service!Move
    <2>3. Executed' = Executed
      BY <2>2 DEF Executed, Requests, Core, TypeOK, Service!STypeOK
    <2> QED
      BY <2>1, <2>3, NothingSaid
  <1>6. CASE WriteLoop
    <2>1. CASE FlushOk /\ client # "gone"
      BY <2>1, FlushReplies DEF Talk!CNext
    <2>2. CASE ~(FlushOk /\ client # "gone")
      <3>1. UNCHANGED <<sent, wire, closed, phase>>
        BY <1>6, <2>2
        DEF WriteLoop, TakeFirst, TakeStop, WriteReply, TakeMore, FlushLock, FlushOk, FlushFail,
            ReleaseBatch, writeUnchanged, clientVars, serviceVars
      <3> QED
        BY <3>1, NothingSaid DEF Executed, Requests
    <2> QED
      BY <2>1, <2>2
  <1>7. CASE Callers
    <2>1. UNCHANGED <<sent, wire, phase>>
      BY <1>7, CallersUnchanged DEF callerUnchanged, clientVars, serviceVars
    <2>2. Executed' = Executed
      BY <2>1 DEF Executed, Requests
    <2>3. closed' = closed \/ closed' = TRUE
      BY <1>7 DEF Callers, MainLoop, CloseConn, OnRemove, Done, Stop, StopReturn, CloseNow,
                  CloseCall, CloseNowLock, CloseNowClose, CloseNowReturn
    <2>4. CASE closed' = TRUE
      <3>1. Talk!End
        BY <2>1, <2>2, <2>4 DEF Talk!End, Executed
      <3> QED
        BY <3>1 DEF Talk!CNext
    <2> QED
      BY <2>1, <2>2, <2>3, <2>4, NothingSaid
  <1> QED
    BY <1>1, <1>2, <1>3, <1>4, <1>5, <1>6, <1>7
    DEF Next, DispatcherEvents, ReadLoop, Callers, Terminated

\* Whatever is stopped, closed or fails, each step of a session is one the
\* abstract conversation allows: no request is executed before it is sent or
\* twice, no reply is sent before the execution, twice or on a closed connection,
\* and with the default of one request in flight the replies come in order.
THEOREM SessionImplementsConversation == Spec => ImplementsConversation
  <1>1. Init => Talk!CInit
    BY DEF Init, SessionInit, Talk!CInit
  <1>2. Core /\ Places /\ Order /\ [Next]_vars => [Talk!CNext]_(Talk!cvars)
    BY ConversationStep
  <1>3. SafetyInv => Core /\ Places
    BY DEF SafetyInv
  <1>4. Spec => Talk!CSpec
    BY <1>1, <1>2, <1>3, SafetyInvariant, OrderInvariant, PTL DEF Spec, Talk!CSpec
  <1> QED
    BY <1>4 DEF ImplementsConversation

-----------------------------------------------------------------------------
(* What a session that ends by itself leaves behind                        *)

\* One request in flight, a client that stays, and nobody calls Stop or Close.
Undisturbed == MaxInFlight = 1 /\ stop = "idle" /\ close = "idle" /\ client # "gone"

\* readLoop ends first, when no waiter is left that could drop a reply; then
\* writeLoop, when it has sent all there is; then the connection is closed.
Ending ==
  /\ stopping => read = "exited"
  /\ read \in {"leave", "exited"} => \A k \in Requests : ~Owed(k)
  /\ main = "running" => ~closed
  /\ main # "running" => read = "exited" /\ write = "exited"
  /\ write = "exited" => responses = <<>> /\ batch = <<>> /\ read = "exited"

\* No reply is lost, ...
Kept ==
  \A k \in Requests :
    Submitted(k) => Owed(k) \/ k \in Elems(responses) \cup Elems(Encoding) \cup Elems(wire)

\* ... and no scope stays open that nobody uses.
Tidy == \A s \in Scopes : scope[s] = "open" => s \in InUse

OwnEnd == Undisturbed => Ending /\ Kept /\ Tidy

\* Nobody takes back a Stop, a Close or the end of the client.
LEMMA UndisturbedBefore == [Next]_vars /\ Undisturbed' => Undisturbed
  <1> SUFFICES ASSUME [Next]_vars, Undisturbed' PROVE stop = "idle" /\ close = "idle"
    BY AliveBefore DEF Undisturbed
  <1>1. stop' = "idle" /\ close' = "idle"
    BY DEF Undisturbed
  <1>2. CASE Callers
    BY <1>1, <1>2 DEF Callers, MainLoop, CloseCall, CloseConn, OnRemove, Done, Stop, StopReturn,
                      CloseNow, CloseNowLock, CloseNowClose, CloseNowReturn
  <1>3. UNCHANGED <<stop, close>> \/ Callers
    <2>1. ClientEvents \/ DispatcherEvents \/ UNCHANGED vars => UNCHANGED <<stop, close>>
      BY EventsUnchanged DEF dispatcherUnchanged, callerVars, vars
    <2>2. ReadLoop => UNCHANGED <<stop, close>>
      BY DEF ReadLoop, ReadAlone, Submit, GateStop, GatePoll, GatePass, ReadArm, ReadLock, ReadFill,
             ReadParse, ReadFail, ReadCount, ReadLeave, SubmitCall, SubmitAccepted, SubmitRefused,
             readUnchanged, callerVars, vars
    <2>3. (\E k \in Requests : Waiter(k)) => UNCHANGED <<stop, close>>
      BY DEF Waiter, WaiterResult, HandleResponseCheck, HandleResponseSend, HandleResponseStopped,
             DecrementInflight, waiterUnchanged, callerVars
    <2>4. WriteLoop => UNCHANGED <<stop, close>>
      BY DEF WriteLoop, TakeFirst, TakeStop, WriteReply, TakeMore, FlushLock, FlushOk, FlushFail,
             ReleaseBatch, writeUnchanged, callerVars
    <2> QED
      BY <2>1, <2>2, <2>3, <2>4 DEF Next, Callers, Terminated
  <1> QED
    BY <1>1, <1>2, <1>3

\* Under Ending no waiter finds the session stopping, so a reply goes forward.
LEMMA WaiterKeeps ==
  ASSUME Core, Ending, NEW k \in Requests, Waiter(k)
  PROVE  /\ UNCHANGED <<stopping, read, taken, scope, batch, wire, write, phase, main, closed>>
         /\ \A j \in Requests : Owed(j)' => Owed(j)
         /\ \/ responses' = responses /\ \A j \in Requests : Owed(j) => Owed(j)'
            \/ /\ Owed(k) /\ responses' = Append(responses, k)
               /\ \A j \in Requests \ {k} : Owed(j) => Owed(j)'
  <1>0. waiter \in [Requests -> WaiterStates]
    BY DEF Core, TypeOK
  <1>1. UNCHANGED <<stopping, read, taken, scope, batch, wire, write, phase, main, closed>>
    BY DEF Waiter, WaiterResult, HandleResponseCheck, HandleResponseSend, HandleResponseStopped,
           DecrementInflight, waiterUnchanged, connVars, callerVars, serviceVars
  <1>2. Owed(k) => ~stopping
    BY DEF Ending
  <1>3. CASE Waiting(k) \/ DecrementInflight(k)
    <2>1. /\ Owed(k)' <=> Owed(k)
          /\ responses' = responses
      BY <1>0, <1>2, <1>3 DEF Waiting, WaiterResult, HandleResponseCheck, HandleResponseStopped,
                              DecrementInflight, WaiterStep, Owed
    <2>2. \A j \in Requests \ {k} : waiter'[j] = waiter[j]
      BY <1>0, <1>3 DEF Waiting, WaiterResult, HandleResponseCheck, HandleResponseStopped,
                        DecrementInflight, WaiterStep
    <2>3. \A j \in Requests : Owed(j)' <=> Owed(j)
      BY <2>1, <2>2 DEF Owed
    <2> QED
      BY <1>1, <2>1, <2>3
  <1>4. CASE HandleResponseSend(k)
    <2>1. /\ Owed(k) /\ ~Owed(k)' /\ responses' = Append(responses, k)
          /\ \A j \in Requests \ {k} : waiter'[j] = waiter[j]
      BY <1>0, <1>4 DEF HandleResponseSend, WaiterStep, Owed
    <2>2. \A j \in Requests \ {k} : Owed(j)' <=> Owed(j)
      BY <2>1 DEF Owed
    <2> QED
      BY <1>1, <2>1, <2>2
  <1> QED
    BY <1>3, <1>4 DEF Waiter, Waiting

\* A session that ends by itself waits for its waiters before it stops writing.
LEMMA EndingStep ==
  ASSUME Core, Places, Ending, Undisturbed, [Next]_vars, Undisturbed'
  PROVE  Ending'
  <1>1. CASE ClientEvents \/ DispatcherEvents \/ UNCHANGED vars
    <2>1. UNCHANGED <<stopping, read, waiter, main, closed, write, responses, batch>>
      BY <1>1, EventsUnchanged DEF dispatcherUnchanged, connVars, callerVars, vars
    <2> QED
      BY <2>1 DEF Ending, Owed, Requests
  <1>2. CASE Callers
    <2>1. MainLoop
      BY <1>2 DEF Callers, Undisturbed, Stop, StopReturn, CloseNow, CloseCall, CloseNowLock,
                  CloseNowClose, CloseNowReturn
    <2>2. /\ UNCHANGED <<stopping, read, waiter, write, responses, batch>> /\ main' # "running"
          /\ read = "exited" /\ write = "exited"
      BY <1>2, <2>1, CallersUnchanged DEF callerUnchanged, MainLoop, CloseConn, OnRemove, Done, Ending
    <2> QED
      BY <2>2 DEF Ending, Owed, Requests
  <1>3. CASE ReadLoop
    <2>1. /\ UNCHANGED <<main, closed, write, responses, batch>> /\ read # "exited"
          /\ stopping' => stopping \/ ReadLeave
      BY <1>3 DEF ReadLoop, ReadAlone, Submit, GateStop, GatePoll, GatePass, ReadArm, ReadLock,
                  ReadFill, ReadParse, ReadFail, ReadCount, ReadLeave, SubmitCall, SubmitAccepted,
                  SubmitRefused, readUnchanged, callerVars, connVars, vars
    <2>2. ~stopping /\ ~closed /\ main = "running" /\ write # "exited"
      BY <2>1 DEF Ending, Core, TypeOK
    <2>3. stopping' => read' = "exited"
      BY <2>1, <2>2 DEF ReadLeave
    <2>4. ASSUME read' \in {"leave", "exited"} PROVE \A k \in Requests : ~Owed(k)'
      <3>1. ReadFail \/ SubmitRefused \/ ReadLeave \/ (GatePoll /\ read = "leave")
        BY <1>3, <2>2, <2>4
        DEF ReadLoop, ReadAlone, Submit, GateStop, GatePoll, GatePass, ReadArm, ReadLock, ReadFill,
            ReadParse, ReadCount, SubmitCall, SubmitAccepted, vars
      <3>2. read \in {"read", "submit", "leave"} /\ waiter' = waiter
        BY <3>1 DEF ReadFail, SubmitRefused, ReadLeave, GatePoll
      <3>3. \A k \in Requests : ~Owed(k)
        <4>1. read \in {"read", "submit"} => InFlight = {}
          BY OneInFlight DEF Undisturbed
        <4> QED
          BY <3>2, <4>1 DEF Ending, InFlight, Owed
      <3> QED
        BY <3>2, <3>3 DEF Owed
    <2> QED
      BY <2>1, <2>2, <2>3, <2>4 DEF Ending, Requests
  <1>4. ASSUME NEW k \in Requests, Waiter(k) PROVE Ending'
    BY <1>4, WaiterKeeps DEF Ending, Requests
  <1>5. CASE WriteLoop
    <2>1. /\ UNCHANGED <<stopping, read, waiter, main, closed>> /\ write # "exited"
      BY <1>5 DEF WriteLoop, TakeFirst, TakeStop, WriteReply, TakeMore, FlushLock, FlushOk, FlushFail,
                  ReleaseBatch, writeUnchanged, callerVars
    <2>2. main = "running" /\ ~closed
      BY <2>1 DEF Ending
    <2>3. write' = "exited" => TakeStop
      BY <1>5, <2>2 DEF WriteLoop, TakeFirst, WriteReply, TakeMore, FlushLock, FlushOk, FlushFail,
                        ReleaseBatch, Undisturbed
    <2>4. TakeStop => responses' = <<>> /\ batch' = <<>> /\ read = "exited"
      BY DEF TakeStop, Places, Encoded, Ending
    <2> QED
      BY <2>1, <2>2, <2>3, <2>4 DEF Ending, Owed, Requests
  <1> QED
    BY <1>1, <1>2, <1>3, <1>4, <1>5 DEF Next, Callers, Terminated

\* No step of a session that ends by itself drops a reply.
LEMMA KeptStep ==
  ASSUME Core, Places, Ending, Kept, Undisturbed, [Next]_vars
  PROVE  Kept'
  <1> DEFINE Line == Elems(responses) \cup Elems(Encoding) \cup Elems(wire)
  <1>0. /\ responses \in Seq(Requests) /\ batch \in Seq(Requests) /\ wire \in Seq(Requests)
        /\ waiter \in [Requests -> WaiterStates] /\ phase \in [Requests -> Service!Phases]
        /\ Encoding \in Seq(Requests) /\ Requests' = Requests
    BY EmptyFacts DEF Core, TypeOK, Encoding, Service!STypeOK, Requests
  <1>k. \A k \in Requests : Submitted(k) => Owed(k) \/ k \in Line
    BY DEF Kept
  <1>u. ASSUME UNCHANGED replies PROVE Line' = Line
    BY <1>u DEF replies, Encoding, Writing
  <1> HIDE DEF Line
  <1>1. ASSUME \A k \in Requests : Submitted(k)' => Submitted(k) \/ Owed(k)',
               \A k \in Requests : Owed(k) => Owed(k)' \/ k \in Line',
               Line \subseteq Line'
        PROVE  Kept'
    BY <1>0, <1>1, <1>k DEF Kept, Line
  <1>2. CASE Outside
    <2>1. UNCHANGED replies /\ waiter' = waiter
      BY <1>2, OutsideUnchanged DEF work, replies
    <2>2. \A k \in Requests : Submitted(k)' => Submitted(k)
      <3>1. CASE \E j \in Requests : DispatcherAnswers(j)
        BY <1>0, <3>1 DEF DispatcherAnswers, Service!Answer, Service!Move, Submitted
      <3>2. CASE ClientEvents \/ DispatcherStops \/ Callers \/ UNCHANGED vars
        <4>1. phase' = phase
          BY <3>2, EventsUnchanged, CallersUnchanged
          DEF DispatcherStops, Service!BeginStop, Service!EndStop, callerUnchanged, serviceVars, vars
        <4> QED
          BY <4>1 DEF Submitted
      <3> QED
        BY <1>2, <3>1, <3>2 DEF Outside, DispatcherEvents
    <2> QED
      BY <2>1, <2>2, <1>1, <1>u DEF Owed
  <1>3. CASE ReadAlone
    <2>1. UNCHANGED replies /\ UNCHANGED <<waiter, phase>>
      BY <1>3, ReadLoopUnchanged
      DEF ReadLoop, ReadAlone, GateStop, GatePoll, GatePass, ReadArm, ReadLock, ReadFill, ReadParse,
          ReadFail, ReadCount, ReadLeave, serviceVars, vars
    <2> QED
      BY <2>1, <1>1, <1>u DEF Owed, Submitted
  <1>4. CASE Submit
    <2>1. UNCHANGED replies
      BY <1>4, ReadLoopUnchanged DEF ReadLoop
    <2>2. \A k \in Requests : (Submitted(k)' => Submitted(k) \/ Owed(k)') /\ (Owed(k) => Owed(k)')
      <3>1. CASE SubmitCall \/ SubmitRefused
        <4>1. /\ waiter' = waiter
              /\ \E to \in {"calling", "refused"} : phase' = [phase EXCEPT ![taken] = to]
          BY <3>1 DEF SubmitCall, SubmitRefused, Service!Call, Service!Refuse, Service!Move
        <4> QED
          BY <4>1, <1>0 DEF Submitted, Owed
      <3>2. CASE SubmitAccepted
        <4>1. /\ waiter' = [waiter EXCEPT ![taken] = "wait"]
              /\ phase' = [phase EXCEPT ![taken] = "accepted"]
          BY <3>2 DEF SubmitAccepted, Service!Accept, Service!Move
        <4> QED
          BY <4>1, <1>0 DEF Submitted, Owed
      <3> QED
        BY <1>4, <3>1, <3>2 DEF Submit
    <2> QED
      BY <2>1, <2>2, <1>1, <1>u
  <1>5. ASSUME NEW k \in Requests, Waiter(k) PROVE Kept'
    <2>1. UNCHANGED <<wire, Encoding, phase>>
      BY <1>5, WaiterKeeps DEF Encoding, Writing
    <2>2. Elems(responses) \subseteq Elems(responses')
          /\ \A j \in Requests : Owed(j) => Owed(j)' \/ j \in Elems(responses')
      <3>1. CASE responses' = responses /\ \A j \in Requests : Owed(j) => Owed(j)'
        BY <3>1
      <3>2. CASE /\ Owed(k) /\ responses' = Append(responses, k)
                 /\ \A j \in Requests \ {k} : Owed(j) => Owed(j)'
        BY <3>2, <1>0, AppendFacts
      <3> QED
        BY <1>5, <3>1, <3>2, WaiterKeeps
    <2>3. Line \subseteq Line' /\ Elems(responses') \subseteq Line'
      BY <2>1, <2>2 DEF Line
    <2> QED
      BY <2>1, <2>2, <2>3, <1>1 DEF Submitted
  <1>6. CASE WriteLoop
    <2>1. UNCHANGED <<waiter, phase>> /\ ~closed /\ client # "gone"
      <3>1. UNCHANGED <<waiter, phase>> /\ write # "exited"
        BY <1>6 DEF WriteLoop, TakeFirst, TakeStop, WriteReply, TakeMore, FlushLock, FlushOk,
                    FlushFail, ReleaseBatch, writeUnchanged, serviceVars
      <3> QED
        BY <3>1 DEF Ending, Undisturbed
    <2>2. ASSUME Line \subseteq Line' PROVE Kept'
      BY <2>1, <2>2, <1>1 DEF Owed, Submitted
    <2>3. CASE responses # <<>> /\ (TakeFirst \/ TakeMore)
      <3>1. /\ Head(responses) \in Requests /\ responses' = Tail(responses) /\ wire' = wire
            /\ Elems(responses) = {Head(responses)} \cup Elems(Tail(responses))
        BY <2>3, <1>0, TailFacts DEF TakeFirst, TakeMore
      <3>2. Elems(Encoding) \cup {Head(responses)} \subseteq Elems(Encoding')
        <4>1. CASE TakeFirst
          <5>1. Encoding = <<>> /\ Encoding' = <<Head(responses)>>
            BY <4>1 DEF TakeFirst, Encoding, Writing
          <5>2. Elems(<<>>) = {} /\ Elems(<<Head(responses)>>) = {Head(responses)}
            BY <3>1, EmptyFacts, OneElement
          <5> QED
            BY <5>1, <5>2
        <4>2. CASE TakeMore
          <5>1. Encoding' = Append(Encoding, Head(responses))
            BY <2>3, <4>2 DEF TakeMore, Encoding, Writing
          <5> QED
            BY <5>1, <3>1, <1>0, AppendFacts
        <4> QED
          BY <2>3, <4>1, <4>2
      <3> QED
        BY <2>2, <3>1, <3>2 DEF Line
    <2>4. CASE \/ TakeStop \/ WriteReply \/ FlushLock \/ ReleaseBatch
               \/ (TakeMore /\ responses = <<>>)
      <3>1. responses' = responses /\ wire' = wire
        BY <2>4 DEF TakeStop, WriteReply, FlushLock, ReleaseBatch, TakeMore
      <3>2. (Writing' <=> Writing) /\ (Writing => batch' = batch)
        BY <2>4 DEF TakeStop, WriteReply, FlushLock, ReleaseBatch, TakeMore, Writing
      <3>3. Encoding' = Encoding
        BY <3>2 DEF Encoding
      <3> QED
        BY <2>2, <3>1, <3>3 DEF Line
    <2>5. CASE FlushOk
      <3>1. responses' = responses /\ wire' = wire \o Encoding
        BY <2>1, <2>5 DEF FlushOk, Places, Encoded, Encoding, Writing
      <3>2. Elems(wire') = Elems(wire) \cup Elems(Encoding)
        BY <3>1, <1>0, ConcatFacts
      <3> QED
        BY <2>2, <3>1, <3>2 DEF Line
    <2>6. ~FlushFail
      BY <2>1 DEF FlushFail
    <2>7. TakeFirst => responses # <<>>
      BY DEF TakeFirst
    <2> QED
      BY <1>6, <2>3, <2>4, <2>5, <2>6, <2>7 DEF WriteLoop
  <1> QED
    BY <1>2, <1>3, <1>4, <1>5, <1>6
    DEF Next, ReadLoop, Outside, Callers, Terminated

\* A step that releases nothing keeps what is in use, and one that does releases
\* all that it no longer uses.
LEMMA TidyKeep ==
  ASSUME Tidy, scope' = scope, InUse \subseteq InUse'
  PROVE  Tidy'
  BY DEF Tidy, Scopes

\* A release of scopes leaves no other open than those in use.
LEMMA TidyRelease ==
  ASSUME Tidy, NEW S, Release(S), scope \in [Scopes -> ScopeStates], InUse \ S \subseteq InUse'
  PROVE  Tidy'
  <1>1. \A s \in Scopes : scope'[s] = "open" => scope[s] = "open" /\ s \notin S
    BY DEF Release
  <1> QED
    BY <1>1 DEF Tidy, Scopes

\* No step of a session that ends by itself leaves a scope without an owner.
LEMMA TidyStep ==
  ASSUME Core, Places, Ending, Tidy, Undisturbed, [Next]_vars
  PROVE  Tidy'
  <1>0. /\ responses \in Seq(Requests) /\ batch \in Seq(Requests)
        /\ waiter \in [Requests -> WaiterStates] /\ scope \in [Scopes -> ScopeStates]
        /\ taken \in Nat /\ taken + 1 \in Scopes /\ Requests \subseteq Scopes
    BY SessionAssumption DEF Core, TypeOK, Scopes, Requests
  <1>c. Scopes' = Scopes /\ Requests' = Requests
    BY DEF Scopes, Requests
  <1>u. ASSUME UNCHANGED replies
        PROVE  Elems(responses') = Elems(responses) /\ Unreleased' = Unreleased
    BY <1>u DEF replies, Unreleased, Writing
  <1>1. CASE UNCHANGED <<replies, waiter, taken, scope, read>>
    <2>1. InUse' = InUse
      BY <1>1, <1>c, <1>u DEF InUse, Owed
    <2> QED
      BY <1>1, <2>1, TidyKeep
  <1>2. CASE Outside \/ GatePoll \/ ReadFill \/ SubmitCall
    <2>1. Outside => UNCHANGED <<replies, waiter, taken, scope, read>>
      BY OutsideUnchanged DEF work, replies
    <2>2. GatePoll \/ ReadFill \/ SubmitCall => UNCHANGED <<replies, waiter, taken, scope, read>>
      BY DEF GatePoll, ReadFill, SubmitCall, readUnchanged, replies, vars, connVars
    <2> QED
      BY <1>1, <1>2, <2>1, <2>2
  <1>3. CASE \/ GateStop \/ ReadLock \/ ReadCount \/ ReadLeave \/ (ReadArm /\ ~closed)
    <2>1. UNCHANGED <<replies, waiter, taken, scope>>
      BY <1>3 DEF GateStop, ReadLock, ReadCount, ReadLeave, ReadArm, readUnchanged, replies
    <2>2. /\ read \in {"arm", "lock", "read"} => read' \in {"arm", "lock", "read"}
          /\ read \in {"count", "submit"} => read' \in {"count", "submit"}
      BY <1>3 DEF GateStop, ReadLock, ReadCount, ReadLeave, ReadArm
    <2>3. InUse \subseteq InUse'
      BY <2>1, <2>2, <1>c, <1>u DEF InUse, Owed
    <2> QED
      BY <2>1, <2>3, TidyKeep
  <1>4. CASE GatePass
    <2>1. /\ UNCHANGED <<replies, waiter, taken>> /\ read = "gate" /\ read' = "arm"
          /\ scope' = [scope EXCEPT ![taken + 1] = "open"]
      BY <1>4 DEF GatePass, readUnchanged, replies
    <2>2. InUse \cup {taken + 1} \subseteq InUse'
      BY <2>1, <1>0, <1>c, <1>u DEF InUse, Owed
    <2> QED
      BY <2>1, <2>2, <1>0, <1>c DEF Tidy
  <1>5. CASE ReadParse
    <2>1. /\ UNCHANGED <<replies, waiter, scope>> /\ read = "read" /\ read' = "count"
          /\ taken' = taken + 1
      BY <1>5 DEF ReadParse, readUnchanged, replies
    <2>2. InUse \subseteq InUse'
      BY <2>1, <1>0, <1>c, <1>u DEF InUse, Owed
    <2> QED
      BY <2>1, <2>2, TidyKeep
  <1>6. CASE ReadFail \/ (ReadArm /\ closed)
    <2>1. /\ UNCHANGED <<replies, waiter, taken>> /\ read \in {"arm", "read"}
          /\ Release({taken + 1})
      BY <1>6 DEF ReadFail, ReadArm, readUnchanged, replies
    <2>2. InUse \ {taken + 1} \subseteq InUse'
      BY <2>1, <1>0, <1>c, <1>u DEF InUse, Owed
    <2> QED
      BY <2>1, <2>2, <1>0, TidyRelease
  <1>7. CASE SubmitAccepted
    <2>1. /\ UNCHANGED <<replies, taken, scope>> /\ read = "submit" /\ read' = "gate"
          /\ waiter' = [waiter EXCEPT ![taken] = "wait"]
      BY <1>7 DEF SubmitAccepted, readUnchanged, replies
    <2>2. taken \in Requests
      BY <2>1, SessionAssumption DEF Core, TypeOK, Began, Requests
    <2>3. /\ \A k \in Requests : Owed(k) => Owed(k)'
          /\ Owed(taken)'
      BY <2>1, <2>2, <1>0 DEF Owed
    <2>4. InUse \subseteq InUse'
      BY <2>1, <2>2, <2>3, <1>0, <1>c, <1>u DEF InUse
    <2> QED
      BY <2>1, <2>4, TidyKeep
  <1>8. CASE SubmitRefused
    <2>1. /\ UNCHANGED <<replies, waiter, taken>> /\ read = "submit" /\ Release({taken})
      BY <1>8 DEF SubmitRefused, readUnchanged, replies
    <2>2. InUse \ {taken} \subseteq InUse'
      BY <2>1, <1>0, <1>c, <1>u DEF InUse, Owed
    <2> QED
      BY <2>1, <2>2, <1>0, TidyRelease
  <1>9. ASSUME NEW k \in Requests, Waiter(k) PROVE Tidy'
    <2>1. UNCHANGED <<taken, scope, read, Unreleased>>
      BY <1>9, WaiterKeeps DEF Unreleased, Writing
    <2>2. Elems(responses) \subseteq Elems(responses')
          /\ \A j \in Requests : Owed(j) => Owed(j)' \/ j \in Elems(responses')
      <3>1. CASE responses' = responses /\ \A j \in Requests : Owed(j) => Owed(j)'
        BY <3>1
      <3>2. CASE /\ Owed(k) /\ responses' = Append(responses, k)
                 /\ \A j \in Requests \ {k} : Owed(j) => Owed(j)'
        BY <3>2, <1>0, AppendFacts
      <3> QED
        BY <1>9, <3>1, <3>2, WaiterKeeps
    <2>3. InUse \subseteq InUse'
      BY <2>1, <2>2, <1>c DEF InUse
    <2> QED
      BY <2>1, <2>3, TidyKeep
  <1>10. CASE WriteLoop
    <2>1. UNCHANGED <<taken, read, waiter>> /\ ~closed /\ client # "gone"
      <3>1. UNCHANGED <<taken, read, waiter>> /\ write # "exited"
        BY <1>10 DEF WriteLoop, TakeFirst, TakeStop, WriteReply, TakeMore, FlushLock, FlushOk,
                     FlushFail, ReleaseBatch, writeUnchanged
      <3> QED
        BY <3>1 DEF Ending, Undisturbed
    <2>2. ASSUME Elems(responses) \cup Unreleased \subseteq Elems(responses') \cup Unreleased',
                 scope' = scope
          PROVE  Tidy'
      <3>1. InUse \subseteq InUse'
        BY <2>1, <2>2, <1>c DEF InUse, Owed
      <3> QED
        BY <2>2, <3>1, TidyKeep
    <2>3. CASE responses # <<>> /\ (TakeFirst \/ TakeMore)
      <3>1. /\ responses' = Tail(responses) /\ scope' = scope
            /\ Elems(responses) = {Head(responses)} \cup Elems(Tail(responses))
            /\ Head(responses) \in Requests
        BY <2>3, <1>0, TailFacts DEF TakeFirst, TakeMore
      <3>2. Unreleased \cup {Head(responses)} \subseteq Unreleased'
        <4>1. CASE TakeFirst
          <5>1. batch' = <<Head(responses)>> /\ write = "take" /\ write' = "write"
            BY <4>1 DEF TakeFirst
          <5>2. Elems(batch') = {Head(responses)}
            BY <3>1, <5>1, OneElement
          <5> QED
            BY <5>1, <5>2 DEF Unreleased, Writing
        <4>2. CASE TakeMore
          <5>1. batch' = Append(batch, Head(responses)) /\ write' = "write"
            BY <2>3, <4>2 DEF TakeMore
          <5>2. Elems(batch') = Elems(batch) \cup {Head(responses)}
            BY <1>0, <3>1, <5>1, AppendFacts
          <5> QED
            BY <5>1, <5>2 DEF Unreleased, Writing
        <4> QED
          BY <2>3, <4>1, <4>2
      <3> QED
        BY <2>2, <3>1, <3>2
    <2>4. CASE \/ TakeStop \/ WriteReply \/ FlushLock \/ FlushOk
               \/ (TakeMore /\ responses = <<>>)
      <3>1. /\ UNCHANGED <<responses, batch, scope>>
            /\ Writing \/ write = "flushed" => Writing' \/ write' = "flushed"
        BY <2>4 DEF TakeStop, WriteReply, FlushLock, FlushOk, TakeMore, Writing
      <3> QED
        BY <2>2, <3>1 DEF Unreleased
    <2>5. CASE ReleaseBatch
      <3>1. Release(Elems(batch)) /\ responses' = responses
        <4>1. {batch[i] : i \in DOMAIN batch} = Elems(batch)
          BY <1>0 DEF Elems
        <4> QED
          BY <2>5, <4>1 DEF ReleaseBatch
      <3>2. InUse \ Elems(batch) \subseteq InUse'
        <4>1. Unreleased \subseteq Elems(batch)
          BY DEF Unreleased
        <4> QED
          BY <2>1, <3>1, <4>1, <1>c DEF InUse, Owed
      <3> QED
        BY <3>1, <3>2, <1>0, TidyRelease
    <2>6. ~FlushFail
      BY <2>1 DEF FlushFail
    <2>7. TakeFirst => responses # <<>>
      BY DEF TakeFirst
    <2> QED
      BY <1>10, <2>3, <2>4, <2>5, <2>6, <2>7 DEF WriteLoop
  <1> QED
    BY <1>2, <1>3, <1>4, <1>5, <1>6, <1>7, <1>8, <1>9, <1>10
    DEF Next, ReadLoop, ReadAlone, Submit, Outside, Callers, Terminated

\* Replies and scopes of a session that ends by itself, in every state.
LEMMA OwnEndInvariant == Spec => []OwnEnd
  <1>1. Init => OwnEnd
    <2> SUFFICES ASSUME Init PROVE Ending /\ Kept /\ Tidy
      BY DEF OwnEnd
    <2> QED
      BY DEF Init, SessionInit, Ending, Kept, Tidy, Submitted
  <1>2. Core /\ Places /\ OwnEnd /\ [Next]_vars => OwnEnd'
    BY UndisturbedBefore, EndingStep, KeptStep, TidyStep DEF OwnEnd
  <1>3. SafetyInv => Core /\ Places
    BY DEF SafetyInv
  <1> QED
    BY <1>1, <1>2, <1>3, SafetyInvariant, PTL DEF Spec

\* With one request in flight, a session that ends because a read failed or the
\* dispatcher refused has sent the reply of every request it submitted, and has
\* released every memory scope, provided the client stays and nobody calls Stop
\* or Close.
THEOREM OwnEndIsComplete == Spec => []OwnEndLosesNothing
  <1>1. Core /\ OwnEnd => OwnEndLosesNothing
    <2> SUFFICES ASSUME Core, OwnEnd, main = "done", Undisturbed
                 PROVE  /\ \A k \in Requests : phase[k] \in {"accepted", "answered"} => k \in Sent
                        /\ \A s \in Scopes : scope[s] # "open"
      BY DEF OwnEndLosesNothing, Undisturbed
    <2>1. /\ read = "exited" /\ write = "exited" /\ responses = <<>> /\ Encoding = <<>>
          /\ \A k \in Requests : ~Owed(k)
      BY DEF OwnEnd, Ending, Encoding, Writing
    <2>2. Elems(responses) = {} /\ Elems(Encoding) = {} /\ Unreleased = {} /\ Elems(wire) = Sent
      BY <2>1, EmptyFacts DEF Unreleased, Writing, Sent, Elems, Core, TypeOK
    <2>3. InUse = {}
      BY <2>1, <2>2 DEF InUse
    <2> QED
      BY <2>1, <2>2, <2>3 DEF OwnEnd, Kept, Tidy, Submitted
  <1>2. SafetyInv => Core
    BY DEF SafetyInv
  <1> QED
    BY <1>1, <1>2, SafetyInvariant, OwnEndInvariant, PTL
=============================================================================
