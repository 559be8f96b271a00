-------------------------------- MODULE Commands --------------------------------
(***************************************************************************)
(* internal/command with processRequest of the dispatcher, behind a Reader: *)
(* the path of a request from the bytes of a connection with one request in *)
(* flight to its reply.  A worker looks the name up in a Registry that      *)
(* another goroutine goes on filling, and runs what it finds.  The switch   *)
(* of BuildCommand is the package's second way from a request to a command. *)
(***************************************************************************)
EXTENDS Reader, Registry

CONSTANTS
  Ping, Echo,  \* the names of the built-in commands, in lower case
  Setup        \* the registry calls made while serving, in order

ASSUME CommandsAssumption ==
  /\ {Ping, Echo} \subseteq Names /\ Ping # Echo /\ Lower(Ping) = Ping /\ Lower(Echo) = Echo
  /\ {Factory("ping", 0), Factory("echo", 0)} \subseteq Factories
  /\ Factories \subseteq [kind : {"ping", "echo", "refuse", "func"}, id : MinInt..MaxInt]
  /\ \A i \in DOMAIN Setup : /\ Setup[i].op = "register" => Setup[i].name \in Names
                            /\ Setup[i].factory \in Factories

\* What a factory or BuildCommand makes: a command and what it was given.
Command(kind, text) == [kind |-> kind, text |-> text]

BuildPing(args) ==
  CASE Len(args) = 0 -> Command("pong", Null)
    [] Len(args) = 1 -> Command("say", args[1])
    [] OTHER         -> Command("invalid", Bulk(Ping))

BuildEcho(args) ==
  IF Len(args) # 1 THEN Command("invalid", Bulk(Echo)) ELSE Command("say", args[1])

\* The switch on the name.
BuildCommand(request) ==
  LET name == CommandName(request)
      args == CommandArgs(request)
  IN CASE name = Ping -> BuildPing(args)
       [] name = Echo -> BuildEcho(args)
       [] OTHER       -> Command("unknown", Bulk(name))

\* The fixed words of the replies.
PONG            == <<Upper(20)>>
WrongArguments  == <<Upper(21)>>
Refused         == <<Upper(22)>>
UnknownCommand  == <<Upper(23)>>

NotFoundError(name) == Error(UnknownCommand \o name)

Execute(c) ==
  CASE c.kind = "pong"    -> Simple(PONG)
    [] c.kind = "say"     -> c.text
    [] c.kind = "invalid" -> Error(WrongArguments \o c.text.data)
    [] c.kind = "unknown" -> NotFoundError(c.text.data)
    [] c.kind = "func"    -> c.text

\* processRequest behind the lookup.
Outcome(factory, name, args) ==
  CASE factory.kind = "none"   -> NotFoundError(name)
    [] factory.kind = "ping"   -> Execute(BuildPing(args))
    [] factory.kind = "echo"   -> Execute(BuildEcho(args))
    [] factory.kind = "refuse" -> Error(Refused)
    [] factory.kind = "func"   -> Execute(Command("func", Integer(factory.id)))

VARIABLES
  lookups,  \* history: the lookup of each request, as it ended
  replies   \* history: the replies

history == <<lookups, replies>>

\* RegisterBuiltins has run before the server starts.
Builtins == <<Call("register", Ping, Factory("ping", 0)), Call("register", Echo, Factory("echo", 0))>>

CommandsInit ==
  /\ Init
  /\ factories = [n \in {Ping, Echo} |-> IF n = Ping THEN Factory("ping", 0) ELSE Factory("echo", 0)]
  /\ notFound = None /\ made = Builtins
  /\ lookup = [w \in Workers |-> NoLookup]
  /\ lookups = <<>> /\ replies = <<>>

\* The goroutine that goes on filling the registry.
SetupCall ==
  LET done == Len(made) - Len(Builtins) IN
  /\ done < Len(Setup)
  /\ LET call == Setup[done + 1] IN
     \/ call.op = "register" /\ Register(call.name, call.factory)
     \/ call.op = "notFound" /\ SetNotFound(call.factory)
  /\ UNCHANGED <<history, vars>>

Request == returned[Len(replies) + 1]

\* Slip: nil bytes are copied into an empty slice.
CopyCommandArgsMade(args) ==
  [i \in DOMAIN args |-> IF args[i] = NilBulk THEN Bulk(<<>>) ELSE args[i]]

\* The session's submitter copies the arguments out of the scope; nil stays nil.
CopyCommandArgs(args) == args

\* A worker has received the request.
LookUp(w) ==
  /\ Len(replies) < Len(returned)
  /\ \A v \in Workers : lookup[v].state = "idle"
  /\ Lookup(w, CommandName(Request))
  /\ UNCHANGED <<history, vars>>

LookUpAgain(w) == LookupNotFound(w) /\ UNCHANGED <<history, vars>>

\* processRequest, the reply sent, and the session ready to read again.
ProcessRequest(w) ==
  /\ LookupUsed(w)
  /\ lookups' = Append(lookups, lookup[w])
  /\ replies' = Append(replies, Outcome(lookup[w].found, CommandName(Request),
                                        CopyCommandArgs(CommandArgs(Request))))
  /\ UNCHANGED vars

\* The reader's part; with one request in flight it reads when the last is done.
ReadOn ==
  /\ \/ \E m \in Messages : Send(m)
     \/ Len(replies) = Len(returned) /\ ReadCall
     \/ ReadReturns \/ ReadNeedsMore \/ Fill \/ FillFails \/ Quiescent
  /\ UNCHANGED <<registry, lookup, history>>

CommandsNext ==
  \/ SetupCall \/ (\E w \in Workers : LookUp(w) \/ LookUpAgain(w) \/ ProcessRequest(w)) \/ ReadOn

CommandsSpec == CommandsInit /\ [][CommandsNext]_<<vars, registry, lookup, history>>

-----------------------------------------------------------------------------
(* Properties                                                              *)

\* Each request is answered by what was looked up under its own name, with its own
\* arguments.  The registry filled by RegisterBuiltins and the switch of
\* BuildCommand answer every request alike, whatever type its elements have and
\* however it is spelled, although one gets the arguments as read and the other as
\* the session copied them.
BuildersAgree ==
  \A k \in DOMAIN replies :
    /\ replies[k] = Outcome(lookups[k].found, lookups[k].name, CommandArgs(returned[k]))
    /\ lookups[k].to = Len(Builtins) => replies[k] = Execute(BuildCommand(returned[k]))

\* The client reads exactly one value for each request, the one the command
\* computed, also when the reply repeats bytes of the request: a line end in the
\* name of an unknown command does not end the error early.
ReplyIsOneValue ==
  \A k \in DOMAIN replies :
    LET bytes == Serialize(replies[k], <<>>)
        first == ParseOne(bytes)
    IN first.ok /\ first.pos = Len(bytes) + 1 /\ first.value = Meaning(replies[k])
=============================================================================
