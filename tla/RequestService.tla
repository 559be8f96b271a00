--------------------------- MODULE RequestService ---------------------------
(***************************************************************************)
(* What the dispatcher promises to the sessions that use it, with no       *)
(* queues, scheduler or workers: a caller submits a request and is told    *)
(* whether it was taken; a taken request is answered at most once; and a   *)
(* running service that has finished stopping owes nobody an answer.       *)
(*                                                                         *)
(* Module Dispatcher is shown to implement this specification.             *)
(***************************************************************************)
CONSTANT Requests   \* the requests callers may ever submit

VARIABLES
  phase,    \* [Requests -> Phases]: where the caller's request stands
  running,  \* TRUE once the service has been started
  mode      \* "open", then "stopping" while Stop runs, then "stopped"

svars == <<phase, running, mode>>

Phases == {"idle", "calling", "accepted", "refused", "answered"}
Modes  == {"open", "stopping", "stopped"}

STypeOK ==
  /\ phase \in [Requests -> Phases]
  /\ running \in BOOLEAN
  /\ mode \in Modes

SInit ==
  /\ phase = [r \in Requests |-> "idle"]
  /\ running = FALSE
  /\ mode = "open"

Move(r, from, to) ==
  /\ phase[r] = from
  /\ phase' = [phase EXCEPT ![r] = to]

\* Submission is a call that takes time: it may be refused at once, or be
\* taken or refused later, also while the service is stopping.
Call(r) ==
  /\ mode = "open"
  /\ Move(r, "idle", "calling")
  /\ UNCHANGED <<running, mode>>

Refuse(r) ==
  /\ Move(r, "idle", "refused") \/ (mode # "open" /\ Move(r, "calling", "refused"))
  /\ UNCHANGED <<running, mode>>

Accept(r) ==
  /\ mode # "stopped"
  /\ Move(r, "calling", "accepted")
  /\ UNCHANGED <<running, mode>>

Answer(r) ==
  /\ running
  /\ mode # "stopped"
  /\ Move(r, "accepted", "answered")
  /\ UNCHANGED <<running, mode>>

Run ==
  /\ mode = "open"
  /\ running' = TRUE
  /\ UNCHANGED <<phase, mode>>

BeginStop ==
  /\ mode = "open"
  /\ mode' = "stopping"
  /\ UNCHANGED <<phase, running>>

\* Stop returns only when no submission is undecided and, on a service that
\* runs, no accepted request is still unanswered.
EndStop ==
  /\ mode = "stopping"
  /\ \A r \in Requests : phase[r] # "calling"
  /\ running => \A r \in Requests : phase[r] # "accepted"
  /\ mode' = "stopped"
  /\ UNCHANGED <<phase, running>>

SNext ==
  \/ \E r \in Requests : Call(r) \/ Refuse(r) \/ Accept(r) \/ Answer(r)
  \/ Run
  \/ BeginStop
  \/ EndStop

SSpec == SInit /\ [][SNext]_svars
=============================================================================
