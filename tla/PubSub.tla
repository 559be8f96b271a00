------------------------------- MODULE PubSub -------------------------------
(***************************************************************************)
(* pubsub.go: a registry of subscriptions guarded by ps.mu, and concurrent *)
(* calls of Subscribe, PSubscribe, Unsubscribe, PUnsubscribe and Publish.  *)
(* Each call reads or changes the registry in one section, releases ps.mu  *)
(* and only then writes frames to connections, piece by piece, under the   *)
(* mutex of the pubSubClient it took from the registry.  A connection that *)
(* loses its last subscription and subscribes again gets a new             *)
(* pubSubClient, with a mutex of its own.                                  *)
(***************************************************************************)
EXTENDS Naturals, Sequences, FiniteSets

CONSTANTS
  Conns,       \* client connections
  Channels,    \* channel names
  Patterns,    \* glob patterns
  Matching,    \* [Patterns -> SUBSET Channels]: path.Match; a malformed pattern matches nothing
  Callers,     \* concurrent calls, one operation each
  Operations,  \* which of OperationNames they may be
  MayBreak,    \* connections on which writing may start to fail
  Pieces       \* bound: connection writes that make up a frame

OperationNames == {"subscribe", "unsubscribe", "publish"}
Topics == Channels \cup Patterns

ASSUME PubSubAssumption ==
  /\ Channels \cap Patterns = {}
  /\ Matching \in [Patterns -> SUBSET Channels]
  /\ Operations \subseteq OperationNames
  /\ MayBreak \subseteq Conns
  /\ Pieces \in Nat \ {0}

VARIABLES
  clients,  \* [Conns -> Nat]: the live pubSubClient, numbered per connection, or 0
  created,  \* [Conns -> Nat]: how many pubSubClients the connection has had
  entries,  \* [Conns -> SUBSET Entries]
  mutex,    \* held pubSubClient mutexes: set of <<connection, client number>>
  broken,   \* connections on which writing fails
  out,      \* [Conns -> Seq(frame pieces)]: what has been written
  call,     \* [Callers -> CallStates]
  op,       \* [Callers -> operation record]: what the call is
  todo,     \* [Callers -> SUBSET Targets]: frames still to write
  target,   \* [Callers -> Targets]: the frame being written
  piece,    \* [Callers -> Nat]: pieces of it written
  snapshot, \* history: [Callers -> SUBSET Targets]: todo when ps.mu was released
  overlap   \* history: connections for which two calls have been under way at once

registryVars == <<clients, created, entries>>
vars == <<registryVars, mutex, broken, out, call, op, todo, target, piece, snapshot,
          overlap>>

CallStates == {"idle", "next", "write", "returned", "failed"}

\* pubSubEntry, and a frame addressed to the client of an entry.
Entries    == [topic : Topics, client : Nat]
NoTarget   == [conn |-> "none"]
NoOp       == [kind |-> "none"]

TypeOK ==
  /\ clients \in [Conns -> Nat] /\ created \in [Conns -> Nat]
  /\ entries \in [Conns -> SUBSET Entries]
  /\ broken \subseteq MayBreak
  /\ call \in [Callers -> CallStates]
  /\ mutex = {<<target[p].conn, target[p].client>> : p \in {q \in Callers : call[q] = "write"}}
  /\ piece \in [Callers -> 0..Pieces]

Init ==
  /\ clients = [c \in Conns |-> 0] /\ created = [c \in Conns |-> 0]
  /\ entries = [c \in Conns |-> {}]
  /\ mutex = {} /\ broken = {}
  /\ out = [c \in Conns |-> <<>>]
  /\ call = [p \in Callers |-> "idle"] /\ op = [p \in Callers |-> NoOp]
  /\ todo = [p \in Callers |-> {}] /\ target = [p \in Callers |-> NoTarget]
  /\ piece = [p \in Callers |-> 0] /\ snapshot = [p \in Callers |-> {}]
  /\ overlap = {}

-----------------------------------------------------------------------------
(* The sections under ps.mu                                                *)

\* The connections of the calls that are under way.
Busy ==
  {op[q].conn : q \in {r \in Callers : call[r] \in {"next", "write"} /\ op[r].kind # "publish"}}

\* The call o of caller p leaves ps.mu with a set of frames to write.
Leave(p, o, frames) ==
  /\ call[p] = "idle"
  /\ call' = [call EXCEPT ![p] = "next"]
  /\ op' = [op EXCEPT ![p] = o]
  /\ todo' = [todo EXCEPT ![p] = frames]
  /\ snapshot' = [snapshot EXCEPT ![p] = frames]
  /\ overlap' = IF o.kind = "publish" THEN overlap ELSE overlap \cup ({o.conn} \cap Busy)
  /\ UNCHANGED <<mutex, broken, out, target, piece>>

\* An acknowledgement tells the number of subscriptions, counted under ps.mu.
Ack(kind, c, t, count) == [kind |-> kind, conn |-> c, topic |-> t, count |-> count]

\* Slip: the count is taken before the entry is there.
SubscribeCountsFirst(p, c, t) ==
  LET client == IF clients[c] # 0 THEN clients[c] ELSE created[c] + 1 IN
  /\ "subscribe" \in Operations
  /\ clients' = [clients EXCEPT ![c] = client]
  /\ created' = [created EXCEPT ![c] = IF clients[c] # 0 THEN @ ELSE @ + 1]
  /\ entries' = [entries EXCEPT ![c] = @ \cup {[topic |-> t, client |-> client]}]
  /\ Leave(p, Ack("subscribe", c, t, Cardinality(entries[c])),
              {[conn |-> c, client |-> client, topic |-> t]})

\* ensureClient, then the entry; one acknowledgement to write.
Subscribe(p, c, t) ==
  LET client == IF clients[c] # 0 THEN clients[c] ELSE created[c] + 1 IN
  /\ "subscribe" \in Operations
  /\ clients' = [clients EXCEPT ![c] = client]
  /\ created' = [created EXCEPT ![c] = IF clients[c] # 0 THEN @ ELSE @ + 1]
  /\ entries' = [entries EXCEPT ![c] = @ \cup {[topic |-> t, client |-> client]}]
  /\ Leave(p, Ack("subscribe", c, t, Cardinality(entries'[c])),
              {[conn |-> c, client |-> client, topic |-> t]})

\* The last entry takes the client with it; an unknown connection gets no
\* acknowledgement.
Unsubscribe(p, c, t) ==
  LET left == {e \in entries[c] : e.topic # t} IN
  /\ "unsubscribe" \in Operations
  /\ entries' = [entries EXCEPT ![c] = left]
  /\ clients' = [clients EXCEPT ![c] = IF left = {} THEN 0 ELSE @]
  /\ UNCHANGED created
  /\ Leave(p, Ack("unsubscribe", c, t, Cardinality(left)),
              IF clients[c] = 0 THEN {} ELSE {[conn |-> c, client |-> clients[c], topic |-> t]})

Matches(t, ch) == t = ch \/ (t \in Patterns /\ ch \in Matching[t])

\* Publish collects the matching entries of every connection under RLock.
Publish(p, ch) ==
  /\ "publish" \in Operations
  /\ UNCHANGED registryVars
  /\ Leave(p, [kind |-> "publish", topic |-> ch],
              UNION {{[conn |-> c, client |-> e.client, topic |-> e.topic] :
                        e \in {f \in entries[c] : Matches(f.topic, ch)}} : c \in Conns})

-----------------------------------------------------------------------------
(* Writing the frames, in the map's arbitrary order                        *)

writeUnchanged == <<registryVars, broken, op, snapshot, overlap>>

\* Slip: the client's mutex is not waited for.
LockIgnored(p, t) ==
  /\ call[p] = "next" /\ t \in todo[p]
  /\ mutex' = mutex \cup {<<t.conn, t.client>>}
  /\ target' = [target EXCEPT ![p] = t] /\ todo' = [todo EXCEPT ![p] = @ \ {t}]
  /\ piece' = [piece EXCEPT ![p] = 0]
  /\ call' = [call EXCEPT ![p] = "write"]
  /\ UNCHANGED <<writeUnchanged, out>>

LockClient(p, t) ==
  /\ call[p] = "next" /\ t \in todo[p]
  /\ <<t.conn, t.client>> \notin mutex
  /\ mutex' = mutex \cup {<<t.conn, t.client>>}
  /\ target' = [target EXCEPT ![p] = t] /\ todo' = [todo EXCEPT ![p] = @ \ {t}]
  /\ piece' = [piece EXCEPT ![p] = 0]
  /\ call' = [call EXCEPT ![p] = "write"]
  /\ UNCHANGED <<writeUnchanged, out>>

\* writeLegacyValue: the array header, then each element, one write each.
WritePiece(p) ==
  LET c == target[p].conn IN
  /\ call[p] = "write" /\ c \notin broken /\ piece[p] < Pieces
  /\ out' = [out EXCEPT ![c] =
               Append(@, [by |-> p, topic |-> target[p].topic, piece |-> piece[p] + 1])]
  /\ piece' = [piece EXCEPT ![p] = @ + 1]
  /\ UNCHANGED <<writeUnchanged, mutex, call, todo, target>>

\* Slip: a publisher returns after its first frame.
FlushAndReturn(p) ==
  /\ call[p] = "write" /\ piece[p] = Pieces
  /\ mutex' = mutex \ {<<target[p].conn, target[p].client>>}
  /\ call' = [call EXCEPT ![p] = "returned"]
  /\ UNCHANGED <<writeUnchanged, out, todo, target, piece>>

\* Flush and unlock; on to the next frame.
Flush(p) ==
  /\ call[p] = "write" /\ piece[p] = Pieces
  /\ mutex' = mutex \ {<<target[p].conn, target[p].client>>}
  /\ call' = [call EXCEPT ![p] = "next"]
  /\ UNCHANGED <<writeUnchanged, out, todo, target, piece>>

\* Slip: the error return leaves the mutex locked.
WriteFailsLocked(p) ==
  /\ call[p] = "write" /\ target[p].conn \in broken
  /\ call' = [call EXCEPT ![p] = "failed"]
  /\ UNCHANGED <<writeUnchanged, mutex, out, todo, target, piece>>

\* A write or the flush fails: the call returns at once.
WriteFails(p) ==
  /\ call[p] = "write" /\ target[p].conn \in broken
  /\ mutex' = mutex \ {<<target[p].conn, target[p].client>>}
  /\ call' = [call EXCEPT ![p] = "failed"]
  /\ UNCHANGED <<writeUnchanged, out, todo, target, piece>>

Return(p) ==
  /\ call[p] = "next" /\ todo[p] = {}
  /\ call' = [call EXCEPT ![p] = "returned"]
  /\ UNCHANGED <<writeUnchanged, mutex, out, todo, target, piece>>

Writing(p) ==
  (\E t \in todo[p] : LockClient(p, t)) \/ WritePiece(p) \/ Flush(p) \/ WriteFails(p) \/ Return(p)

Break(c) ==
  /\ c \in MayBreak \ broken
  /\ broken' = broken \cup {c}
  /\ UNCHANGED <<registryVars, mutex, out, call, op, todo, target, piece, snapshot, overlap>>

Returned(p) == call[p] \in {"returned", "failed"}

Terminated == (\A p \in Callers : Returned(p)) /\ UNCHANGED vars

-----------------------------------------------------------------------------
Next ==
  \/ \E p \in Callers :
       \/ \E c \in Conns, t \in Topics : Subscribe(p, c, t) \/ Unsubscribe(p, c, t)
       \/ \E ch \in Channels : Publish(p, ch)
       \/ Writing(p)
  \/ \E c \in Conns : Break(c)
  \/ Terminated

Spec == Init /\ [][Next]_vars

-----------------------------------------------------------------------------
(* Properties                                                              *)

\* The two maps agree between sections: a connection has a client exactly when
\* it has subscriptions, and they all name that client, so that every frame to
\* a subscriber goes through one mutex.
RegistryConsistent ==
  \A c \in Conns :
    /\ clients[c] = 0 <=> entries[c] = {}
    /\ \A e \in entries[c] : e.client = clients[c]

SameFrame(x, y) == x.by = y.by /\ x.topic = y.topic

Whole(c) ==
  \A i \in DOMAIN out[c] :
    IF out[c][i].piece = 1 THEN i = 1 \/ out[c][i - 1].piece = Pieces
    ELSE /\ i > 1 /\ SameFrame(out[c][i - 1], out[c][i])
         /\ out[c][i - 1].piece = out[c][i].piece - 1

\* A frame on the wire is not interrupted by another, as long as the connection
\* has not lost its last subscription: the array header and its elements follow
\* each other (a broken connection may end in half a frame).
FramesWhole == \A c \in Conns : created[c] <= 1 => Whole(c)

Received(c, p, t) ==
  \E i \in DOMAIN out[c] : out[c][i].by = p /\ out[c][i].topic = t /\ out[c][i].piece = Pieces

\* When Publish returns without an error, every connection that was subscribed
\* when it looked has the message, once per matching entry and although it may
\* have unsubscribed since; it returns an error only if one of them is broken.
PublishReachesAll ==
  \A p \in Callers : op[p].kind = "publish" =>
    /\ call[p] = "returned" => \A t \in snapshot[p] : Received(t.conn, p, t.topic)
    /\ call[p] = "failed" => \E t \in snapshot[p] : t.conn \in broken

IsAck(c, i) == op[out[c][i].by].kind # "publish" /\ out[c][i].piece = Pieces

LastAck(c, i) == IsAck(c, i) /\ \A j \in DOMAIN out[c] : IsAck(c, j) => j <= i

Settled(c) == c \notin Busy \cup broken

LastAckTellsCount(c) ==
  Settled(c) => \A i \in DOMAIN out[c] :
    LastAck(c, i) => op[out[c][i].by].count = Cardinality(entries[c])

\* A client whose calls do not overlap learns from its last acknowledgement how
\* many subscriptions it has, whatever other connections and publishers do.
AckTellsCount == \A c \in Conns \ overlap : LastAckTellsCount(c)

-----------------------------------------------------------------------------
(* What a Redis client expects and the code does not do                    *)

\* No frame is ever interrupted by another.
FramesAlwaysWhole == \A c \in Conns : Whole(c)

\* A message is broadcast to all matching subscribers, also when writing to
\* another one has failed.
BroadcastReachesAll ==
  \A p \in Callers : Returned(p) /\ op[p].kind = "publish" =>
    \A t \in snapshot[p] : t.conn \notin broken => Received(t.conn, p, t.topic)

\* After the acknowledgement that a topic is unsubscribed no message for it
\* follows (in runs where nobody subscribes to it again).
NoMessageAfterUnsubscribe ==
  \A c \in Conns : \A i, j \in DOMAIN out[c] :
    /\ i < j /\ op[out[c][i].by].kind = "unsubscribe" /\ op[out[c][j].by].kind = "publish"
    => out[c][i].topic # out[c][j].topic

\* A subscription is acknowledged before its first message (in runs where nobody
\* unsubscribes).
NoMessageBeforeSubscribe ==
  \A c \in Conns : \A j \in DOMAIN out[c] :
    op[out[c][j].by].kind = "publish" =>
      \E i \in 1..(j - 1) :
        op[out[c][i].by].kind = "subscribe" /\ out[c][i].topic = out[c][j].topic

\* The counts are told in the order in which they were taken.
AcksInOrder == \A c \in Conns : LastAckTellsCount(c)
=============================================================================
