-------------------------------- MODULE Registry --------------------------------
(***************************************************************************)
(* The registry of internal/command/types.go: a map under a read-write      *)
(* mutex, which the program fills by Register and SetNotFound, also while   *)
(* it serves, and in which workers look names up.  Each section under the   *)
(* mutex is a step; Lookup has two.                                         *)
(***************************************************************************)
EXTENDS Units

CONSTANTS
  Names,      \* the names that program and clients use, as they spell them
  Factories,  \* what the program registers
  Workers     \* the goroutines that look names up

\* A factory is one of the two built-in ones, one that refuses its arguments, or
\* one that makes a command with a certain reply; None is nil.
Factory(kind, id) == [kind |-> kind, id |-> id]
None              == Factory("none", 0)

VARIABLES
  factories,  \* r.factories, a function on the names that are there
  notFound,   \* r.notFound
  made,       \* history: the calls of Register and SetNotFound, in order
  lookup      \* [Workers -> Lookups]: each worker's call of Lookup

registry == <<factories, notFound, made>>

\* from and to: how many calls had been made when the lookup began and ended.
Looking(state, name, found, from, to) ==
  [state |-> state, name |-> name, found |-> found, from |-> from, to |-> to]

NoLookup == Looking("idle", <<>>, None, 0, 0)

Call(op, name, factory) == [op |-> op, name |-> name, factory |-> factory]

\* NewRegistry.
RegistryInit ==
  /\ factories = [n \in {} |-> None] /\ notFound = None /\ made = <<>>
  /\ lookup = [w \in Workers |-> NoLookup]

Enter(key, factory) ==
  factories' = [n \in DOMAIN factories \cup {key} |-> IF n = key THEN factory ELSE factories[n]]

\* Slip: the name is stored as the program writes it.
RegisterAsWritten(name, factory) ==
  /\ Enter(name, factory)
  /\ made' = Append(made, Call("register", name, factory))
  /\ UNCHANGED <<notFound, lookup>>

Register(name, factory) ==
  /\ Enter(Lower(name), factory)
  /\ made' = Append(made, Call("register", name, factory))
  /\ UNCHANGED <<notFound, lookup>>

SetNotFound(factory) ==
  /\ notFound' = factory
  /\ made' = Append(made, Call("notFound", <<>>, factory))
  /\ UNCHANGED <<factories, lookup>>

\* Lookup: the map under one read lock, ...
Lookup(w, name) ==
  /\ lookup[w].state = "idle"
  /\ \/ /\ Lower(name) \in DOMAIN factories
        /\ lookup' = [lookup EXCEPT ![w] =
                        Looking("found", name, factories[Lower(name)], Len(made), Len(made))]
     \/ /\ Lower(name) \notin DOMAIN factories
        /\ lookup' = [lookup EXCEPT ![w] = Looking("missed", name, None, Len(made), Len(made))]
  /\ UNCHANGED registry

\* ... and if it has nothing, notFound under another.
LookupNotFound(w) ==
  /\ lookup[w].state = "missed"
  /\ lookup' = [lookup EXCEPT ![w] =
                  Looking("found", lookup[w].name, notFound, lookup[w].from, Len(made))]
  /\ UNCHANGED registry

\* The worker is done with what it has found.
LookupUsed(w) ==
  /\ lookup[w].state = "found"
  /\ lookup' = [lookup EXCEPT ![w] = NoLookup]
  /\ UNCHANGED registry

RegistryNext ==
  \/ \E name \in Names, f \in Factories : Register(name, f)
  \/ \E f \in Factories : SetNotFound(f)
  \/ \E w \in Workers :
       (\E name \in Names : Lookup(w, name)) \/ LookupNotFound(w) \/ LookupUsed(w)

RegistrySpec == RegistryInit /\ [][RegistryNext]_<<registry, lookup>>

-----------------------------------------------------------------------------
(* Properties                                                              *)

Registers(i, key) == made[i].op = "register" /\ Lower(made[i].name) = key

Registered(j, key) == \E i \in 1..j : Registers(i, key)

\* Among the first j calls, the last one that registers key gave it factory f.
Entry(j, key, f) ==
  \E i \in 1..j : /\ Registers(i, key) /\ made[i].factory = f
                  /\ \A k \in (i + 1)..j : ~Registers(k, key)

Sets(i) == made[i].op = "notFound"

\* The same for the handler of unknown names.
Handler(j, f) ==
  \/ \E i \in 1..j : Sets(i) /\ made[i].factory = f /\ \A k \in (i + 1)..j : ~Sets(k)
  \/ f = None /\ \A i \in 1..j : ~Sets(i)

\* A command is found under its name however program and client spell it, from
\* the moment Register has returned, as it was last registered; a name that was
\* not registered when the lookup began gets what SetNotFound had set at some
\* moment of it.
LookupIsCurrent ==
  \A w \in Workers :
    LET l == lookup[w] IN
    l.state = "found" =>
      IF Registered(l.from, Lower(l.name)) THEN Entry(l.from, Lower(l.name), l.found)
      ELSE \E j \in l.from..l.to : Handler(j, l.found)

\* What a lookup without an interruption finds after j calls.
Finds(j, key, f) == IF Registered(j, key) THEN Entry(j, key, f) ELSE Handler(j, f)

Atomic(w) ==
  LET l == lookup[w] IN \E j \in l.from..l.to : Finds(j, Lower(l.name), l.found)

\* Only a registration of the very name, between the two locks, makes a lookup
\* find what no single moment of it explains.
AtomicUnlessRegistered ==
  \A w \in Workers :
    lookup[w].state = "found" =>
      Atomic(w) \/ \E i \in (lookup[w].from + 1)..lookup[w].to : Registers(i, Lower(lookup[w].name))

-----------------------------------------------------------------------------
(* What a comment says and the code does not do                            *)

\* "Lookup finds the factory for a command name": the one of some moment between
\* its call and its return.
LookupIsAtomic == \A w \in Workers : lookup[w].state = "found" => Atomic(w)
=============================================================================
