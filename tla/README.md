# respkit: specification, model checking and proofs

respkit is a Go library for servers that speak the Redis protocol. This
directory holds TLA+ modules for its concurrent core, its protocol layer, its
commands and the older RESP package, the TLC configurations that check them on
small instances, and TLAPS proofs about all of them, and about session and
dispatcher together, for every value of the parameters. Paths such as `server.go:274` are
relative to the repository.

## 1. Inventory

| part | state it keeps | operations | interacts with |
|---|---|---|---|
| **Dispatcher** `internal/dispatcher/dispatcher.go` | three bounded channels, the overflow list, `stopped`, `enqueueDone`, two wait groups, the scheduler's counter | `Start`, `Stop`, `Enqueue`; scheduler and worker goroutines | sessions enqueue, replies come back in each request's own result channel |
| **Session** `internal/session/session.go` | stop flag and channel, in-flight counter, response channel, closer, `done` | `StartLoops` (read loop, write loop, clean-up), `UseDispatcher` (one waiter per request), `Stop`, `Close` | dispatcher, connection, server's map |
| **Connection** `internal/conn/conn.go` | `c.mu` around every read, write, flush and close | `Read`, `Write`, `Flush`, `Close` | shared by the two loops and whoever closes |
| **Server** `server.go` | listener, dispatcher, `started`, `serveDone`, `done`, the map of sessions | `Start`, `Stop`, `Close`, accept loop | creates a dispatcher per Start and a session per connection |
| **PubSub** `pubsub.go` | clients and entries per connection under `ps.mu`, a mutex per client | subscribe and unsubscribe by channel or pattern, `Publish` | writes frames on the connections piece by piece |
| **Protocol** `internal/protocol` | the reader's buffer, the writer's buffer | `Reader.Read`, parser, writer, `RespValue` helpers | used by the connection |
| **Commands** `internal/command` | the registry's map and not-found factory under a read-write mutex | `Register`, `SetNotFound`, `Lookup`, PING, ECHO, `BuildCommand` | workers look names up and run what they find, while the program may still register |
| **Older RESP package** `internal/resp` | the writer's buffer; the parser's view of its caller's buffer and a position in it | `AppendAny` and the other appends, `Flush`; `Reset`, `ParseNextCommand`, `Position` | imported by no other package; its caller keeps the bytes |
| `respkit.go`, `internal/conn/listener.go`, `example/` | configuration, an id counter | none that interact | |

What is hard about it: bounded channels in a circle (incoming, ready, complete);
closing channels under concurrent senders; a drain at shutdown while callers are
blocked; two loops, waiters and closers that share two mutexes, one of which is
held across socket calls; memory scopes that pass from goroutine to goroutine;
restarts of a server whose last run is still ending; registry reads whose result
is used after the lock is gone; one dispatcher that all sessions share; a byte
stream cut anywhere, and typed lines with quotes and escapes in it. The list, line by
line, is under `hazards` in `PROJECT.json`, each with the properties that cover it. Where
none does, or only in part, a note says so: mostly what the code does there is refuted
by a configuration of section 3.

What makes each part correct:

- *Dispatcher*: an accepted request is executed exactly once and answered; Stop
  returns, and only when that is so; nothing is sent on a closed channel.
- *Session*: the in-flight limit is exact; a scope lives until its reply is
  flushed and is released once; the client sees no reply twice, before its
  execution or, with one request in flight, out of order; a session told to stop
  ends; a stalled client takes no more than its share of the dispatcher.
- *Server*: a Stop closes and waits for what is serving, and misses one connection at
  most; all Stops together end the Start; Start returns, and Stop if the clients read;
  a session gets the dispatcher of its own Start.
- *PubSub*: frames do not mix; every subscriber gets every message; messages lie
  between the acknowledgements of a subscription, which carry the right counts.
- *Protocol*: decoding inverts encoding under every cut of the stream.
- *Commands*: a registered command is found however its name is spelled; a reply
  is one value.
- *Older RESP package*: what is appended is one value; commands come back whole
  from a parser that is asked again and again.

## 2. Modules

| module | models | composed with |
|---|---|---|
| `RequestService` | what a dispatcher promises: a phase per request, running, mode | abstract specification |
| `Dispatcher` | `dispatcher.go` | refines `RequestService` |
| `DispatcherProofs`, `SessionProofs`, `ServerProofs`, `PubSubProofs`, `RuntimeProofs`, `LegacyProofs` | theorems about the module of that name | extend it |
| `ParserProofs` | what parser and encoder of `Resp` compute for every message, and that typed lines are read by the grammar | extended by the two proof modules about protocol and commands |
| `CommandsProofs` | theorems about `Reader`, `Registry` and `Commands` | extends `Commands` and `ParserProofs` |
| `Conversation` | what a session promises its client: asked, executed, replied, over | abstract specification |
| `Session` | `session.go`, `conn.go` and the wiring in `server.go:234-309` | contains a `RequestService` as its dispatcher, refines `Conversation` |
| `Runtime` | a session on the dispatcher itself, next to the requests of other sessions | instantiates `Session` and `Dispatcher` |
| `Server` | `server.go`, sessions seen from outside | |
| `PubSub` | `pubsub.go` | |
| `Units` | the units of a byte stream, and lower case | extended by `Resp` and `Registry` |
| `Resp` | values, parser, encoder, command arguments as operators | extends `Units` |
| `InlineGrammar` | which typed lines are commands, as a grammar | reference for `Resp` and `Legacy` |
| `Reader` | `Reader.Read` on a connection | extends `Resp` |
| `Registry` | the registry: `Register`, `SetNotFound` and the two lock sections of `Lookup`, any number of workers | |
| `Commands` | the built-in commands, `BuildCommand`, `processRequest` | extends `Reader` and `Registry`: from the bytes of a request to those of its reply |
| `Legacy` | `internal/resp`: writer and parser at the ends of a connection | extends `InlineGrammar` |
| `MC*` | constants, symmetry sets and orders for TLC | |

So the chain from socket to worker is modelled link by link: `Reader` gives
values to the read loop of `Session`, whose dispatcher is any `RequestService`,
which `Dispatcher` implements, and whose client sees a `Conversation`;
`Commands` says what a worker makes of a request; `Server` starts and stops many
sessions. `Runtime` replaces the abstract service by the dispatcher, for what the
abstraction hides: full queues, busy workers and other sessions.

Definitions whose comment begins with *Slip* are wrong variants: the same step with
a plausible mistake in it. No specification uses them; `PROJECT.json` pairs each
with the property that catches it.

### Correspondence with the code

*Channels and mutexes.* A Go channel is a sequence with a capacity and, where it
is ever closed, a flag. A section under a mutex that does not block is one step.
A mutex that is held across a blocking call is a variable (`connMu` for `c.mu`,
`mutex` for the pub/sub clients) or a condition on a program counter
(`SessionMuFree`: only `CloseNow` holds `s.mu` while it waits for `c.mu`).

*Dispatcher.* `enqueue[r]` is the program counter of the call that submits `r`:
the tests and `enqueueWG.Add` in one step (`EnqueueBegin`), then the select
(`EnqueueSend`, `EnqueueCancel`). The scheduler's select has one action per case;
the inner select of the accept case is its two disjuncts. `processRequest` ends
in one `deliverResult` on every path, so it is one step that answers. A request
whose result channel is nil, unbuffered or occupied is a member of `Unusable`.
`Stop` runs inside a `sync.Once`; other callers wait for it and add nothing. The
scheduler's and the workers' `nil` tests are for values nothing sends. The
counter's test for zero is kept, and `PendingExact` shows it is never needed.

*Session.* Requests are numbered in the order sent, reply `k` answers request
`k`. `GatePass` is the successful end of `waitForInflightSlot` with the creation
of the scope; `GatePoll` is one turn of its polling loop. `Conn.Read` is
`ReadLock`, then `ReadFill` and `ReadParse`, or `ReadFail` for deadline, end of
file and closed connection, all of which end the loop. The two steps of
`StopGracefully` (flag, channel) are one, as every reader of one also honours the
other and none distinguishes the state between. `s.closed` and the closed socket
are one variable, for the same reason: whoever sets the first holds `s.mu` until
the second. A flush on a connection whose client has gone may succeed or fail;
one on a client that does not read may take for ever. In `Conversation` a request
is asked when the client sends it, executed when the dispatcher answers it and
replied when a flush has put its reply on the wire. Default construction gives
`ResponseCap` 16; the runs use one or two, where the queue is full sooner.

*Runtime.* The modules of session and dispatcher are joined at
`UseDispatcher`'s submitter: each step of `Enqueue` is one of the read loop
(`Submit`), and the phases of requests that `Session` keeps in a variable are
computed from the dispatcher's state, so that a waiter receives what
`deliverResult` sent. Other sessions appear as requests that are enqueued and
answered. `LoadedInit` is a state in which four of them have filled a dispatcher
of one worker and capacity one before the session begins; it is reachable from
`Init`, and liveness is checked from there because the interesting waiting
begins there.

*Server.* Each Start is identified by its name, which also names its listener,
its dispatcher and its `serveDone`; the fields of `Server` hold such a name or
`Nil`. `shutdown`'s locals are kept per caller. `sync.Map.Range` is a snapshot
(`present`) that must be visited as far as it is still there, plus anything that
comes in between. A connection in the hands of an accept loop goes through four
steps: the test of `s.done` (`AcceptChecked`), allocation and set-up, which end with
the read of `s.dispatcher` without the mutex (`UseDispatcher`, which notes it in
`bound`), `sessions.Store` and `StartLoops`. Any step of any shutdown or of another
Start may come between them, so the read may follow `done.Store(true)` and all that
comes after it. `unended`, a history variable, says of each Start which others had
not ended when it began; two Starts overlap if one is noted at the other.
`servingAtCall` is history too. A client in `Stallers` may stop reading (`Stall`). A
transient failure of Accept that is retried changes nothing and is left out; one that
meets `s.done` ends the loop.

*PubSub.* A `pubSubClient` is numbered per connection, so that a second one, with
a second mutex, is a different client. A frame is `Pieces` writes. The order in
which Go walks a map is arbitrary: any frame of `todo` may be next. An
acknowledgement carries the count taken under `ps.mu`. `overlap` is a history
variable: the connections for which two subscribing or unsubscribing calls have
been under way at once, whose order is then nobody's to say. The run ends, with
deadlock checked, only in `Terminated`, so every call returns.

*Protocol.* A stream is a sequence of units (a line end, a type byte with its
number, text), within which neither parser nor encoder distinguishes bytes. A line end
being one unit, a cut between its two bytes is not among those that are checked;
`findCRLF` reports it as it does a cut before both. Parsed values are values: that they
do not share memory with the buffer is not modelled.
Numbers are words of `2*(MaxInt + 1)` values, as `n*10+digit` leaves them. Lengths and
positions are taken below `MaxInt`. A typed line is parsed byte by byte, with
two kinds of quotes, the backslash, the letters that stand for control characters
behind one, and letters that do not. The recursive function in `InlineState` is the
loop of `parseInlineArgs`; its modes are the loop's `quote`, `escape` and position in an
argument. `parseNext`, which calls itself for elements, is a recursive function of
the position; `Serialize` is given the encodings of the elements.

*Commands.* In `Registry` each section under `r.mu` is one step, so a lookup that
misses has two. `made`, the calls of `Register` and `SetNotFound` so far, is a
history variable, and a lookup notes its length when it begins and when it ends.
In `Commands` the first two calls are those of `RegisterBuiltins`, the others
`Setup`, which another goroutine makes in order while the server serves. One
request is in flight, the default, so one worker at a time looks up and the reader
reads on when the reply is made. `lookups` keeps the lookup of each request. Names are byte
strings with capitals; `Upper` and `Lower` are the two cases of a letter.

*Older RESP package.* Nothing in the repository calls it. Its caller is modelled
after the comments of `parser.go` and the tests: it keeps the bytes it has not
used, notes where the last whole command ended, resets the parser to the rest
when more bytes arrive and asks until a result is incomplete. `OwnMark` false is
the caller that resumes at `Position()` instead, which loses the part of an array
that the parser has walked over.

## 3. What the runs show

Runs that pass (all exhaustive):

| run | shows | bounds and why they suffice |
|---|---|---|
| `dispatcher_safety` | closed channels, exact counter, drained Stop, refinement of `RequestService` | 6 requests, one of them unusable, 2 workers, capacity 1: three channels and the overflow list can all be full at once with both workers busy |
| `dispatcher_liveness` | accepted requests are answered, Stop returns, Enqueue unblocks | one worker, capacity 1 and 5 requests, which fill the worker's hands, ready channel, overflow list and incoming channel and leave a caller blocked; they are named in call order, being interchangeable |
| `session_safety` | in-flight counter, scopes, refinement of `Conversation` | 3 requests, two of them in flight, one response slot, every event of `EventNames` |
| `session_default` | own end loses nothing, the session ends, callers return, replies are sent, refinement of the `Conversation` in order | the default of one request in flight, a client that keeps reading, one response slot |
| `runtime_others` | a session's share of the dispatcher is bounded by its counter and its limit, and a request of another session is served | 2 requests of the session, one in flight, its client stalling or closing at any time; one request of another session at any time; one worker, capacity 1, so that whoever comes second waits behind the first |
| `runtime_liveness` | accepted requests are replied to, dispatcher and session end | from `LoadedInit`, with a client that may stall and a dispatcher that may be stopped: worker, ready channel, overflow list and incoming channel are full, and the session's read loop blocks in `Enqueue` |
| `server_safety` | fields agree while started, Stop waits and misses at most one connection, all Stops together end a Start, sessions get their own dispatcher unless an overlapping Start has changed the field | 2 Starts, 2 Stops, 2 clients: restart during a stop, two stops at once, and one connection in the accept loop's hands beside another in the map |
| `server_liveness` | a stopped Start returns; Stop returns unless it waits for ever for a session whose client has stopped reading | 2 Starts and 2 Stops, named in the order they begin, and a client that may stop reading at any time |
| `pubsub_safety` | mutexes, whole frames, everybody reached or the failure reported, counts | 3 calls of any kind on 2 connections, one of which may break: two writers and one change of the registry between them |
| `reader_safety` | decoding inverts encoding, no byte lost or kept, no wait for a later message, lookups, replies | two messages out of nineteen kinds, cut anywhere, so that one follows the other in a buffer; three registry calls at any moment |
| `legacy_safety` | one value for each append, commands whole and in order, no byte lost or kept, no wait | every typed line of up to five bytes over six kinds of byte; every pair of values; every three messages out of eight, cut anywhere |

Bounds: `MaxRequests`, `MaxMessages` and `Pieces` cap what a client sends and how
long a frame is; the sets of requests, callers, starts, stops and clients are
finite, and each member acts once. Workers and requests, starts, stops, clients
and callers are symmetric where safety is checked; liveness runs use no symmetry.

Deadlock is checked in every run. Each module has one named stuttering action for
the states in which the system may really rest: `Terminated`, `Idle`,
`Quiescent`.

Fairness is weak and per goroutine: a goroutine that can run does run. Nobody is
obliged to start, stop, enqueue, connect, send, publish or break. In `Session` a
flush need not end while the client does not read. In `Server` a session that was
told to stop ends if its client reads, which is what `StoppedSessionEnds` of module
`Session` shows; nothing is assumed of the others, as `Session_forcedclose.cfg` shows
that such a session may be in a flush that never ends. No strong
fairness is assumed: a Go mutex hands over to a waiter that has starved for a
millisecond, but no property here rests on that.

### Where the code does not do what is written

Some statements of documents, comments and the protocol the library claims are
refuted by what the code does. One of them is a run of the project, with its
quotation under `findings` in `PROJECT.json`: `server_restart`. The others have a
definition at the end of their module and a configuration of their own, with
which TLC shows the behaviour: `tlc -config Session_order.cfg MCSession.tla` and
so on (`Reader_messages` with `MCCommands.tla`). Where a configuration has several properties, `-continue` shows the violations of both.

| configuration | in short | where it is stated |
|---|---|---|
| `Session_stop` | a graceful stop drops replies of submitted requests | design:364, 384 |
| `Session_stop` | the scopes of dropped replies are never released | design:394 |
| `Session_forcedclose` | Close waits for a flush to a client that does not read | `ARCHITECTURE.md:69` |
| `Session_flushfailure` | a failed flush can leave the session alive for ever | design:409-413 |
| `Session_loops` | a waiting read keeps a ready reply from being written | design:195 |
| `Session_loops` | a request stops counting before its reply is flushed | design:208 |
| `Session_order` | pipelined replies may be reordered when the limit is above one | `README.md:3` |
| `Server_startreturn` | Start may return before a late session has ended | design:356 |
| `Server_restart` | the end of one Start disables the next one's Stop | `server.go:147` |
| `Server_otherdispatcher` | a session may be wired to the dispatcher of another Start, or to none | design:356 |
| `PubSub_resubscribe` | after re-subscribing two frames may mix | `pubsub.go:26` |
| `PubSub_broadcast` | one broken subscriber cuts a broadcast short | `pubsub.go:126` |
| `PubSub_messages` | a message may follow the acknowledged unsubscribe | `pubsub.go:26` |
| `PubSub_messages` | a message may come before the acknowledged subscribe | `pubsub.go:26` |
| `PubSub_ackorder` | counts may reach the client in another order than they were taken | `pubsub.go:26` |
| `Reader_messages` | the null array is not recognised | `internal/protocol/parser.go:174` |
| `Reader_messages` | a malformed line is treated as an incomplete one | design:400-402 |
| `Reader_messages` | the least integer loses its digits as an argument | `internal/protocol/types.go:109` |
| `Commands_lookup` | a lookup may return the not-found handler for a name that is registered by then, which no moment of the lookup justifies | `internal/command/types.go:47` |
| `Legacy_rawline` | the raw bytes of a typed line begin with the commands before it | `internal/resp/parser.go:293` |
| `Legacy_openquote` | a line that ends with an opening quote is not rejected as unbalanced | `internal/resp/parser.go:322` |
| `Legacy_position` | a caller that resumes at `Position()` after an incomplete array loses its beginning | `internal/resp/parser.go:40` |

("design" is `docs/superpowers/specs/2026-04-09-respkit-architecture-redesign-design.md`.)

## 4. What is proved

Every safety property of the passing runs is a theorem: the invariants of all
modules and both refinements, `Dispatcher` of `RequestService` and `Session` of
`Conversation`. `ExecutedAtMostOnce` and `RegistryConsistent`, on which other proofs
rest, are proved and not listed in a run. All hold for all values of the constants, restricted by the named
assumptions and, where a theorem says so, by a hypothesis that is explained with it
below:

| assumption | says | because |
|---|---|---|
| `DispatcherAssumption` | finitely many workers, at least one; positive queue size; `NoRequest` is no request | `NewDispatcher` replaces numbers below one by defaults |
| `SessionAssumption` | positive in-flight limit and response capacity; `Events` are known ones | `SetMaxInFlight` ignores numbers below one, the capacity is a constant |
| `RuntimeAssumption` | positive in-flight limit; other sessions' requests are not this one's | as above |
| `ServerAssumption` | `Nil` names no Start and no client; those that may stop reading are clients | a nil field is none |
| `RespAssumption` | `MaxInt` is a natural number | it is the greatest value of an int |
| `ReaderAssumption` | a read returns at least one byte and at most `Chunk` | `defaultReadBufferSize` |
| `CommandsAssumption` | the names of the built-in commands differ and are in lower case; factories are of known kinds | the constants of `basic.go` |
| `LegacyAssumption` | `OwnMark` is true or false | it distinguishes two callers |
| `PubSubAssumption` | a frame has at least one piece; channels are no patterns, and a pattern matches channels | the array header; the two kinds of entry are kept apart |

None of the properties is inductive. Each module builds an inductive invariant in
layers, of which each may use those before it.

**Dispatcher** (`TypeCorrect`, `ChannelsSafe`, `StopDrains`, `ExecutedOnce`,
`PendingExact`, `RefinesService`).

1. *Types.* `TypeOK` with the facts that channels hold requests and stay within
   their capacity.
2. *Lifecycle.* How the program counters of Stop and of the scheduler, the two
   closed flags and `incomingOpen` go together: after `close(incomingQueue)` no
   caller is in its select; the scheduler stops listening only when that channel
   is closed and empty; `readyQueue` is closed only at its exit, with everything
   empty. This gives `ChannelsSafe`.
3. *Placement.* Every accepted request is in exactly one place: a queue, the
   overflow list, a worker's hands, or answered; no sequence holds a request
   twice. It gives `ExecutedOnce` at once and, with the lifecycle, `StopDrains`:
   when the goroutines are gone every place but "answered" is empty.
4. *Counting.* `pendingWorkers` is the sum of the lengths of three sequences and
   the number of busy workers; a step moves a request from one summand to another.

`RefinesService` maps each action to an action of `RequestService` or to a
stutter; its one hard case is the return of Stop, which is where `StopDrains` and
the emptiness of the selects are needed.

**Session** (`TypeCorrect`, `CountIsExact`, `ScopesOutliveReplies`,
`RepliesInOrder`, `SessionImplementsConversation`, `OwnEndIsComplete`).

1. *Core.* Types; which requests the dispatcher knows, given how far `readLoop`
   is (`Submissions`); the counter as the number of waiters that still have to
   decrement it, with room for one more behind the gate (`Counting`).
2. *Places.* A reply leaves its waiter only when the waiter has sent it, and is
   then in one place at a time: response channel, batch, or wire, without
   repetitions; batch and write buffer agree while a batch is being encoded.
   Without it a second write of a reply could not be excluded.
3. *Memory.* The scopes in use (of the request being read and of every reply not
   yet flushed) are open, those of the requests to come are untouched. As the
   sets that a step releases are disjoint from both, none is released twice.
4. *Order*, for a limit of one. What is in flight is the request taken last, and
   wire, batch, response channel and waiter together hold the replies 1, 2, 3, ...
   in this order, until the client has gone or the write loop has given up. This is
   where the limit is needed: with more, waiters overtake each other. `RepliesInOrder` has the hypothesis `MaxInFlight = 1`,
   the default of the code; the property, `PipelinedRepliesInOrder`, is false
   for more (`Session_order.cfg`).
5. *Own end*, for a limit of one, as long as nobody calls Stop or Close and the
   client stays: the read loop leaves only when no waiter owes a reply, the write
   loop only after it has emptied the channel, no reply is dropped on the way and
   no open scope is without an owner.

The refinement follows from Places (each reply once, after its execution) and
Order (in order).

**Runtime** (`OwnShareHolds`). Here the phases of requests come from the
dispatcher's state, so the session's counter has to be tied to it anew: `Handing`
says that only the request that `readLoop` submits is inside `Enqueue` and that
each accepted one has a waiter that goes on only when it is answered; `Counted`
is the counter again. What occupies the dispatcher is then among the waiters and
the submitter. Of the dispatcher only this is used: nobody else enqueues the
session's requests, and answers are not taken back (`ElsewhereKeeps`).

**Server** (`TypeCorrect`, `StartedServes`, `DispatcherIsOwn`, `StopHasWaited`,
`OneOutlivesStop`, `StopsHaveEnded`).

1. *Phases* ties listener and dispatcher to how far a Start has come.
2. *Fields* adds to `StartedMeansServing` that what a shutdown has captured is no longer
   what a started server names.
3. *History*: Starts that are between their first and last section at once are noted as
   overlapping. So the dispatcher field, as any of them may read it, is its own, that of
   a later one or cleared by one that overlaps (`OwnField`). What was once accounted for
   remains so, because histories only grow (`StepGrows`, `ReadableStays`).
4. *Hands*: an accepted connection is held by one accept loop. `OwnBinding` is about the
   value that loop has read: as it may be used long after the field has changed, it
   rests on 3 at the moment of the read and on `ReadableStays` from then on. With
   *Phases*, `DispatcherIsOwn` follows: a Start whose accept loop still holds a
   connection has not stopped its dispatcher.
5. *Shutdowns* says of each Stop what has ended of the snapshot it iterates over.
   *Closed* says that its listener stays closed, as no Start begins twice, and
   *OneMissed* that then only the connection held when Range began can be alive outside
   the snapshot.
6. *Answers*: a Start that no other overlaps is named by the fields of a started server
   or has been captured by a shutdown, also when a call finds nothing to do.
   `StopsHaveEnded` follows with *Shutdowns*: that shutdown has waited for it.

**PubSub** (`TypeCorrect`, `RegistryAgrees`, `FramesStayWhole`,
`PublishDelivers`, `AcksAreCurrent`).

1. *Types and mutual exclusion*: no two writers hold the same client.
2. *Registry*: the maps agree; clients and frames bear numbers that have been
   given out, so that a connection that has had one client has one mutex.
3. *Pieces*: a connection ends in a whole frame, or in the piece its writer has
   written last, or is broken.
4. *Delivery*: each entry of a publisher's snapshot is still to do, being written
   or received.
5. *Acknowledgements*: for a connection whose calls have not overlapped, the one
   call that is acknowledging has the current count, and otherwise the last
   acknowledgement on the wire has it.

**Registry** (`LookupFindsCurrent`, `LookupIsAtomicOtherwise`), with no assumption
on names, factories or workers. *Recorded* says that map and handler are what the
calls made so far amount to: each entry is the last registration of its key, and
every registered key has one. *Answered* says of every lookup under way that it
holds the entry of the moment it began, or that there was none then and it holds
the handler of the moment it ended; a further call changes neither moment
(`PastStays`). The first theorem states the property that `reader_safety` checks.
The second says exactly when a lookup is not atomic, which `Commands_lookup.cfg`
shows to happen: when the name it has missed is registered between its two
sections. `RegistrySpec` begins with an empty registry, and `Commands`, whose first
calls are the built-in ones, takes only steps of it: `RequestsFindCurrent` states
both facts for it.

**Parser and encoder** (`ParserProofs`; no theorem of its own, the lemmas carry
what follows). The central notion is `ReadsAs(u, v)`: wherever bytes `u` stand in a
buffer, the parser returns `v` and the position behind them, and wherever the buffer
ends inside `u`, it asks for more. It is shown of every scalar that Writer encodes,
of lengths up to `MaxInt`, of typed lines, and of arrays of whatever has it; so, by
induction on the depth, of `ProtocolMessages`, which are all of these. The
library's induction theorem takes an operator as a parameter, which the provers
cannot instantiate. `NatSetInduction` is the same theorem about a *set* of natural
numbers, derived from the well-foundedness of `<`; each induction states its
hypothesis as membership in such a set. That a recursive function has the value its
equation says is shown in the same way, by building it up to each bound.

*Typed lines.* `LinesReadAsMeant`: for a line of any length the loop of
`parseInlineArgs` finds the arguments that `InlineGrammar` finds, and none where the
grammar has no reading, with one exception, which `Said` names: if the last byte opens
a quote, the line says what it says without that byte (`Legacy_openquote.cfg` is the
statement this contradicts). The proof goes through the line from its end. `AgreesFrom`
says of a place outside words that, whatever the loop has collected before it, scan
and grammar agree on the rest. A word is followed byte by byte (`WordStep`); between
quotes `ScansFrom` says that either both find no closing quote or both find the same
one, with the same bytes in between (`QuoteScan`). So the meaning of a typed line in
the theorems about Reader is the grammar's, not the parser's.

**Reader** (`ReaderReturnsWhatWasSent`, `ReaderLosesNothing`,
`ReaderWaitsOnlyForTheRest`), for messages from `ProtocolMessages`. `ReaderInv`: what
has been returned are the meanings of the first messages sent, and buffer and network
together hold exactly the bytes of the others, so every call begins at a message, and
`ReadsAs` says what it does. The hypothesis leaves out what the peer is not supposed to
send and what `Reader_messages.cfg` shows not to be understood: the null array and
malformed lines. Without the second conjunct the first is not inductive: a byte too
many taken with one message shows only in the next.

**Commands** (`RequestsAreAnsweredAlike`, `RequestsAreRead`, `RepliesAreOneValue`).
`CommandsInv` adds to the registry's invariant that each request read has been looked
up under its own name and holds the result until it is answered. The first theorem
needs nothing of the messages. The last one needs the types of what can be
in a request (`MessagesTyped`), that the names of the built-in commands are byte strings, and
an int that can say 2: the reply to ECHO is a bulk string of what was sent, an error
is stripped of line ends, whatever the name it repeats.

**Older RESP package** (`AppendWritesOneValueEach`, `OlderParserReturnsWhatWasSent`,
`OlderParserLosesNothing`, `OlderParserWaitsOnlyForTheRest`). The hypothesis `Sends`
says what the peer may send: any Go value that `AppendAny` is modelled for, slices and
maps nested to any depth, and any typed line that does not end with an opening quote.
Maps are written in any order, so a message has a set of `values`, one of which each
encoding is. `Sound` says of a message that it is encoded as one of them and that the
older parser answers with its bytes and arguments as soon as all of it is there
(`Answered`); it is proved for scalars and carried from one level of nesting to the
next (`SliceSound`). `LegacyInv` says that what lies from the caller's mark on, on the
wire and in the writer are the bytes of the messages not yet returned, or a beginning
of them when a flush has failed. The three theorems about the parser have the
hypothesis `OwnMark = TRUE`; `Legacy_position.cfg` shows that they fail without it.

### Only model-checked

- Everything that must eventually happen (`AcceptedIsAnswered`, `StopReturns`,
  `StoppedSessionEnds`, `AnswersAreSent`, `OthersAreServed`, `AcceptedIsReplied`,
  `StopEndsBoth`): liveness under fairness is out of the prover's reach.
- `Session` is proved over any service that keeps `RequestService`, and
  `Dispatcher` is proved to be one; that `Runtime`, which puts the two together,
  takes only steps of `Session` is not proved in one theorem, since the prover
  cannot use the theorems of an instantiated module.
- The statements of section 3 that the code refutes.

## 5. Plan

Written so far, in this order: dispatcher with its abstract specification and
proofs, session, server, pub/sub, protocol; then the conversation that a session
refines, the session on the dispatcher itself, the counts of acknowledgements,
the unlocked read of `s.dispatcher`, inline lines against a grammar, commands,
and the older RESP package; then the proofs about server, pub/sub, session,
runtime and registry, and last those about parser, reader, commands, the older
package and typed lines. What is left:

1. That every step of `Runtime` is one of `Session`: it needs the lifecycle and
   the placement of the dispatcher once more, with its requests shared out among
   sessions.
2. Lengths and positions near the limit of a word, which both parsers add to
   before they compare.

## 6. Not modelled

Listener helpers, configuration, the public types and the example (nothing in
them interacts), the legacy `Session.Start(handle)` and `Conn.RawRead`,
`Parser.Parse`, `ParseValue` and `Equal` of `internal/protocol`, which only tests
and tools use, lengths and positions near the limit of a word, floating-point
arguments of `AppendAny`, statistics and user data of a session, TLS, real time
(a deadline is an event that may happen whenever a read waits), and memory pools
beyond the life of a scope.
