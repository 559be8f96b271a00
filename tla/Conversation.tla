---------------------------- MODULE Conversation ----------------------------
(***************************************************************************)
(* What a session promises its client, with no loops, locks, queues or     *)
(* buffers: a request is executed at most once and only after it was       *)
(* asked, a reply is sent at most once, only after the execution and only  *)
(* until the connection is over, and nothing that was sent is taken back.  *)
(* In order, the client may match replies to requests by their position.   *)
(*                                                                         *)
(* Module Session is shown to implement this specification.                *)
(***************************************************************************)
EXTENDS Naturals, Sequences, FiniteSets

CONSTANTS
  MaxAsked,  \* bound: how many requests the client asks
  InOrder    \* one request at a time

VARIABLES
  asked,     \* requests asked so far, numbered 1..asked
  executed,  \* those the server has executed
  replied,   \* the replies sent, by request number
  over       \* the connection is closed

cvars == <<asked, executed, replied, over>>

CInit == asked = 0 /\ executed = {} /\ replied = <<>> /\ over = FALSE

\* A client may go on asking on a connection that is over.
Ask ==
  /\ asked < MaxAsked
  /\ asked' = asked + 1
  /\ UNCHANGED <<executed, replied, over>>

Execute(k) ==
  /\ k \in 1..asked \ executed
  /\ InOrder => 1..(k - 1) \subseteq executed
  /\ executed' = executed \cup {k}
  /\ UNCHANGED <<asked, replied, over>>

Unreplied == executed \ {replied[i] : i \in DOMAIN replied}

\* The orders in which some of the unreplied requests may be replied to.
Batches ==
  {b \in UNION {[1..n -> Unreplied] : n \in 1..Cardinality(Unreplied)} :
     \A i, j \in DOMAIN b : b[i] = b[j] => i = j}

\* One flush sends one or more replies.
Reply ==
  /\ ~over
  /\ \E b \in Batches :
       /\ InOrder => \A i \in DOMAIN b : b[i] = Len(replied) + i
       /\ replied' = replied \o b
  /\ UNCHANGED <<asked, executed, over>>

End ==
  /\ over' = TRUE
  /\ UNCHANGED <<asked, executed, replied>>

CNext == Ask \/ (\E k \in 1..MaxAsked : Execute(k)) \/ Reply \/ End

CSpec == CInit /\ [][CNext]_cvars
=============================================================================
