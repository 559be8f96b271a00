---------------------------- MODULE PubSubProofs ----------------------------
(***************************************************************************)
(* The safety of PubSub for every set of connections, topics and calls.    *)
(* The inductive invariant is layered: the types with the mutual exclusion *)
(* of the writers, the registry with the client numbers of the frames, the *)
(* pieces on each connection, what has become of each frame of a call, and *)
(* the acknowledgements.                                                   *)
(***************************************************************************)
EXTENDS PubSub, FiniteSetTheorems, TLAPS

-----------------------------------------------------------------------------
(* Sequences                                                               *)

\* A send puts the element at the end and moves no other.
LEMMA AppendLast ==
  ASSUME NEW S, NEW s \in Seq(S), NEW x \in S
  PROVE  /\ Append(s, x) # <<>> /\ Append(s, x)[Len(Append(s, x))] = x
         /\ Len(Append(s, x)) = Len(s) + 1
         /\ \A i \in 1..Len(s) : Append(s, x)[i] = s[i]
  OBVIOUS

-----------------------------------------------------------------------------
(* Type correctness and mutual exclusion                                   *)

Frames == [conn : Conns, client : Nat, topic : Topics]

PieceRecords == [by : Callers, topic : Topics, piece : 1..Pieces]

Publishes == [kind : {"publish"}, topic : Channels]
Changes   == [kind : {"subscribe", "unsubscribe"}, conn : Conns, topic : Topics, count : Nat]

Shapes ==
  /\ op \in [Callers -> Publishes \cup Changes \cup {NoOp}]
  /\ todo \in [Callers -> SUBSET Frames] /\ snapshot \in [Callers -> SUBSET Frames]
  /\ target \in [Callers -> Frames \cup {NoTarget}]
  /\ out \in [Conns -> Seq(PieceRecords)]
  /\ \A c \in Conns : IsFiniteSet(entries[c])

\* A call that has begun knows what it is, one that writes knows what.
Known ==
  \A p \in Callers :
    /\ call[p] # "idle" => op[p] # NoOp
    /\ call[p] = "write" => target[p] \in Frames

\* Two calls that write to the same pubSubClient are one.
Exclusive ==
  \A p, q \in Callers :
    /\ call[p] = "write" /\ call[q] = "write"
    /\ target[p].conn = target[q].conn /\ target[p].client = target[q].client
    => p = q

TypeInv == TypeOK /\ Shapes /\ Known /\ Exclusive

\* The section under ps.mu hands over to the writing with everything in shape.
LEMMA LeaveTypes ==
  ASSUME TypeInv, NEW p \in Callers, NEW o \in Publishes \cup Changes,
         NEW frames \in SUBSET Frames, Leave(p, o, frames),
         clients' \in [Conns -> Nat], created' \in [Conns -> Nat],
         entries' \in [Conns -> SUBSET Entries], \A c \in Conns : IsFiniteSet(entries'[c])
  PROVE  TypeInv'
  <1> USE DEF TypeInv, Leave
  <1>1. call' \in [Callers -> CallStates] /\ \A q \in Callers : call'[q] = "write" <=> call[q] = "write"
    BY DEF TypeOK, CallStates
  <1>2. TypeOK'
    BY <1>1 DEF TypeOK
  <1>3. Shapes'
    BY DEF Shapes
  <1>4. o # NoOp
    BY DEF Publishes, Changes, NoOp
  <1>5. Known'
    BY <1>1, <1>4 DEF Known, Shapes, TypeOK
  <1>6. Exclusive'
    BY <1>1 DEF Exclusive
  <1> QED
    BY <1>2, <1>3, <1>5, <1>6

\* Types, what is held under which mutex, and who holds it, in every state.
LEMMA TypeInvariant == Spec => []TypeInv
  <1> USE PubSubAssumption
  <1>1. ASSUME Init PROVE TypeInv
    <2>1. <<>> \in Seq(PieceRecords) /\ IsFiniteSet({})
      BY FS_EmptySet
    <2>2. \A p \in Callers : call[p] = "idle"
      BY <1>1 DEF Init
    <2>3. TypeOK
      BY <1>1, <2>2 DEF Init, TypeOK, CallStates
    <2>4. Shapes
      BY <1>1, <2>1 DEF Init, Shapes
    <2> QED
      BY <2>2, <2>3, <2>4 DEF TypeInv, Known, Exclusive
  <1>2. TypeInv /\ [Next]_vars => TypeInv'
    <2> SUFFICES ASSUME TypeInv, [Next]_vars PROVE TypeInv'
      OBVIOUS
    <2> USE DEF TypeInv
    <2>1. ASSUME NEW p \in Callers, NEW c \in Conns, NEW t \in Topics, Subscribe(p, c, t)
          PROVE TypeInv'
      <3> DEFINE client == IF clients[c] # 0 THEN clients[c] ELSE created[c] + 1
                 entry  == [topic |-> t, client |-> client]
      <3>1. client \in Nat /\ entry \in Entries
        BY DEF TypeOK, Entries
      <3>2. clients' \in [Conns -> Nat] /\ created' \in [Conns -> Nat]
        BY <2>1, <3>1 DEF Subscribe, TypeOK
      <3>3. entries' = [entries EXCEPT ![c] = @ \cup {entry}]
        BY <2>1 DEF Subscribe
      <3>4. entries' \in [Conns -> SUBSET Entries]
        BY <3>1, <3>3 DEF TypeOK
      <3>5. IsFiniteSet(entries[c] \cup {entry})
        BY FS_AddElement DEF Shapes
      <3>6. \A d \in Conns : IsFiniteSet(entries'[d])
        BY <3>3, <3>5 DEF Shapes, TypeOK
      <3>7. Cardinality(entries'[c]) \in Nat
        BY <3>6, FS_CardinalityType
      <3>8. Ack("subscribe", c, t, Cardinality(entries'[c])) \in Changes
        BY <3>7 DEF Ack, Changes
      <3>9. {[conn |-> c, client |-> client, topic |-> t]} \in SUBSET Frames
        BY <3>1 DEF Frames
      <3>10. Leave(p, Ack("subscribe", c, t, Cardinality(entries'[c])),
                   {[conn |-> c, client |-> client, topic |-> t]})
        BY <2>1 DEF Subscribe
      <3> HIDE DEF client, entry
      <3> QED
        BY <3>2, <3>4, <3>6, <3>8, <3>9, <3>10, LeaveTypes
    <2>2. ASSUME NEW p \in Callers, NEW c \in Conns, NEW t \in Topics, Unsubscribe(p, c, t)
          PROVE TypeInv'
      <3> DEFINE left == {e \in entries[c] : e.topic # t}
                 frames == IF clients[c] = 0 THEN {}
                           ELSE {[conn |-> c, client |-> clients[c], topic |-> t]}
      <3>1. clients' \in [Conns -> Nat] /\ created' \in [Conns -> Nat]
        BY <2>2 DEF Unsubscribe, TypeOK
      <3>2. entries' = [entries EXCEPT ![c] = left]
        BY <2>2 DEF Unsubscribe
      <3>3. entries' \in [Conns -> SUBSET Entries]
        BY <3>2 DEF TypeOK
      <3>4. IsFiniteSet(left)
        <4>1. IsFiniteSet(entries[c]) /\ left \subseteq entries[c]
          BY DEF Shapes
        <4> QED
          BY <4>1, FS_Subset
      <3>5. \A d \in Conns : IsFiniteSet(entries'[d])
        BY <3>2, <3>4 DEF Shapes, TypeOK
      <3>6. Ack("unsubscribe", c, t, Cardinality(left)) \in Changes
        BY <3>4, FS_CardinalityType DEF Ack, Changes
      <3>7. frames \in SUBSET Frames
        BY DEF Frames, TypeOK
      <3>8. Leave(p, Ack("unsubscribe", c, t, Cardinality(left)), frames)
        BY <2>2 DEF Unsubscribe
      <3> HIDE DEF left, frames
      <3> QED
        BY <3>1, <3>3, <3>5, <3>6, <3>7, <3>8, LeaveTypes
    <2>3. ASSUME NEW p \in Callers, NEW ch \in Channels, Publish(p, ch) PROVE TypeInv'
      <3> DEFINE frames == UNION {{[conn |-> c, client |-> e.client, topic |-> e.topic] :
                             e \in {f \in entries[c] : Matches(f.topic, ch)}} : c \in Conns}
                 o == [kind |-> "publish", topic |-> ch]
      <3>1. o \in Publishes
        BY DEF Publishes
      <3>2. frames \in SUBSET Frames
        BY DEF Frames, TypeOK, Entries
      <3>3. Leave(p, o, frames) /\ UNCHANGED registryVars
        BY <2>3 DEF Publish
      <3> HIDE DEF frames, o
      <3> QED
        BY <3>1, <3>2, <3>3, LeaveTypes DEF registryVars, TypeOK, Shapes
    <2>4. ASSUME NEW p \in Callers, NEW t \in todo[p], LockClient(p, t) PROVE TypeInv'
      <3> USE <2>4 DEF LockClient, writeUnchanged, registryVars
      <3>1. t \in Frames
        BY DEF Shapes
      <3>2. /\ call' \in [Callers -> CallStates]
            /\ call'[p] = "write" /\ \A q \in Callers \ {p} : call'[q] = call[q]
            /\ call[p] # "write"
            /\ target'[p] = t /\ \A q \in Callers \ {p} : target'[q] = target[q]
        BY DEF TypeOK, Shapes, CallStates
      <3>3. mutex' = {<<target'[q].conn, target'[q].client>> : q \in {r \in Callers : call'[r] = "write"}}
        BY <3>2 DEF TypeOK
      <3>4. piece' \in [Callers -> 0..Pieces]
        BY DEF TypeOK
      <3>5. TypeOK'
        BY <3>2, <3>3, <3>4 DEF TypeOK
      <3>6. Shapes'
        BY <3>1 DEF Shapes
      <3>7. Known'
        BY <3>1, <3>2 DEF Known, Shapes
      <3>8. Exclusive'
        BY <3>2 DEF Exclusive, TypeOK
      <3> QED
        BY <3>5, <3>6, <3>7, <3>8
    <2>5. ASSUME NEW p \in Callers, WritePiece(p) PROVE TypeInv'
      <3> USE <2>5 DEF WritePiece, writeUnchanged, registryVars
      <3> DEFINE x == [by |-> p, topic |-> target[p].topic, piece |-> piece[p] + 1]
      <3>1. target[p].conn \in Conns /\ target[p].topic \in Topics
        BY DEF Known, Frames
      <3>2. piece[p] + 1 \in 1..Pieces
        BY DEF TypeOK
      <3>3. x \in PieceRecords
        BY <3>1, <3>2 DEF PieceRecords
      <3>4. Append(out[target[p].conn], x) \in Seq(PieceRecords)
        BY <3>1, <3>3 DEF Shapes
      <3>5. Shapes'
        BY <3>4 DEF Shapes
      <3>6. TypeOK'
        BY <3>2 DEF TypeOK
      <3> QED
        BY <3>5, <3>6 DEF Known, Exclusive
    <2>6. ASSUME NEW p \in Callers, Flush(p) \/ WriteFails(p) PROVE TypeInv'
      <3> USE <2>6 DEF Flush, WriteFails, writeUnchanged, registryVars
      <3>1. /\ call' \in [Callers -> CallStates]
            /\ call[p] = "write" /\ call'[p] \in {"next", "failed"}
            /\ \A q \in Callers \ {p} : call'[q] = call[q]
            /\ mutex' = mutex \ {<<target[p].conn, target[p].client>>}
        BY DEF TypeOK, CallStates
      <3>2. \A q \in Callers \ {p} :
              call[q] = "write" =>
                <<target[q].conn, target[q].client>> # <<target[p].conn, target[p].client>>
        BY <3>1 DEF Exclusive
      <3>3. mutex' = {<<target[q].conn, target[q].client>> : q \in {r \in Callers : call'[r] = "write"}}
        BY <3>1, <3>2 DEF TypeOK
      <3>4. TypeOK'
        BY <3>1, <3>3 DEF TypeOK
      <3> QED
        BY <3>1, <3>4 DEF Shapes, Known, Exclusive
    <2>7. ASSUME NEW p \in Callers, Return(p) PROVE TypeInv'
      <3> USE <2>7 DEF Return, writeUnchanged, registryVars
      <3>1. /\ call' \in [Callers -> CallStates]
            /\ \A q \in Callers : call'[q] = "write" <=> call[q] = "write"
            /\ \A q \in Callers : call'[q] # "idle" <=> call[q] # "idle"
        BY DEF TypeOK, CallStates
      <3> QED
        BY <3>1 DEF TypeOK, Shapes, Known, Exclusive
    <2>8. ASSUME NEW c \in Conns, Break(c) PROVE TypeInv'
      BY <2>8 DEF Break, registryVars, TypeOK, Shapes, Known, Exclusive
    <2>9. CASE UNCHANGED vars
      BY <2>9 DEF vars, registryVars, TypeOK, Shapes, Known, Exclusive
    <2> QED
      BY <2>1, <2>2, <2>3, <2>4, <2>5, <2>6, <2>7, <2>8, <2>9 DEF Next, Writing, Terminated
  <1> QED
    BY <1>1, <1>2, PTL DEF Spec

-----------------------------------------------------------------------------
(* The registry                                                            *)

\* The live client of a connection is the last one it was given.
Numbered == \A c \in Conns : clients[c] \in {0, created[c]}

\* Every frame of a call is for a client its connection has had.
FramesNumbered == \A p \in Callers : \A t \in snapshot[p] : t.client \in 1..created[t.conn]

\* What a call has still to write, and what it writes, is what it left ps.mu with.
FramesTaken ==
  \A p \in Callers :
    /\ call[p] = "idle" => snapshot[p] = {} /\ op[p] = NoOp
    /\ todo[p] \subseteq snapshot[p]
    /\ call[p] = "write" => target[p] \in snapshot[p]

RegistryInv == RegistryConsistent /\ Numbered /\ FramesNumbered /\ FramesTaken

\* A section under ps.mu leaves its frames in order when they name clients that
\* have been created.
LEMMA LeaveFrames ==
  ASSUME TypeInv, RegistryInv, NEW p \in Callers, NEW o \in Publishes \cup Changes,
         NEW frames \in SUBSET Frames, Leave(p, o, frames),
         \A t \in frames : t.client \in 1..created'[t.conn],
         created' \in [Conns -> Nat], \A c \in Conns : created[c] <= created'[c]
  PROVE  FramesNumbered' /\ FramesTaken'
  <1> USE DEF TypeInv, TypeOK, Shapes, RegistryInv, Leave
  <1>1. \A q \in Callers : \A t \in snapshot'[q] : t \in Frames
    OBVIOUS
  <1>2. FramesNumbered'
    <2> SUFFICES ASSUME NEW q \in Callers, NEW t \in snapshot'[q]
                 PROVE  t.client \in 1..created'[t.conn]
      BY DEF FramesNumbered
    <2>1. t.conn \in Conns /\ t.client \in Nat
      BY <1>1 DEF Frames
    <2>2. CASE q = p
      BY <2>2
    <2>3. CASE q # p
      BY <2>1, <2>3 DEF FramesNumbered
    <2> QED
      BY <2>2, <2>3
  <1>3. FramesTaken'
    BY DEF FramesTaken
  <1> QED
    BY <1>2, <1>3

\* The two maps agree, and clients and frames bear numbers already given out.
LEMMA RegistryInvariant == Spec => []RegistryInv
  <1> USE PubSubAssumption
  <1>1. ASSUME Init PROVE RegistryInv
    BY <1>1 DEF Init, RegistryInv, RegistryConsistent, Numbered, FramesNumbered, FramesTaken
  <1>2. TypeInv /\ RegistryInv /\ [Next]_vars => RegistryInv'
    <2> SUFFICES ASSUME TypeInv, RegistryInv, [Next]_vars PROVE RegistryInv'
      OBVIOUS
    <2>1. ASSUME NEW p \in Callers, NEW c \in Conns, NEW t \in Topics, Subscribe(p, c, t)
          PROVE RegistryInv'
      <3> DEFINE client == IF clients[c] # 0 THEN clients[c] ELSE created[c] + 1
                 entry  == [topic |-> t, client |-> client]
                 o      == Ack("subscribe", c, t, Cardinality(entries'[c]))
                 frame  == [conn |-> c, client |-> client, topic |-> t]
      <3>1. /\ clients' = [clients EXCEPT ![c] = client]
            /\ created' = [created EXCEPT ![c] = IF clients[c] # 0 THEN @ ELSE @ + 1]
            /\ entries' = [entries EXCEPT ![c] = @ \cup {entry}]
            /\ Leave(p, o, {frame})
        BY <2>1 DEF Subscribe
      <3>2. /\ clients \in [Conns -> Nat] /\ created \in [Conns -> Nat]
            /\ entries \in [Conns -> SUBSET Entries]
        BY DEF TypeInv, TypeOK
      <3>3. /\ client \in Nat /\ client \in 1..created'[c] /\ client = created'[c]
            /\ created' \in [Conns -> Nat] /\ \A d \in Conns : created[d] <= created'[d]
        BY <3>1, <3>2 DEF RegistryInv, Numbered
      <3>4. Numbered'
        BY <3>1, <3>2, <3>3 DEF RegistryInv, Numbered
      <3>5. \A e \in entries[c] : e.client = client
        BY <3>2 DEF RegistryInv, RegistryConsistent
      <3>6. RegistryConsistent'
        <4>1. entries'[c] = entries[c] \cup {entry} /\ clients'[c] = client /\ client # 0
          BY <3>1, <3>2, <3>3
        <4>2. \A e \in entries'[c] : e.client = client
          BY <3>5, <4>1
        <4>3. \A d \in Conns \ {c} : entries'[d] = entries[d] /\ clients'[d] = clients[d]
          BY <3>1, <3>2
        <4> HIDE DEF client, entry
        <4> QED
          BY <4>1, <4>2, <4>3 DEF RegistryInv, RegistryConsistent
      <3>7. IsFiniteSet(entries'[c])
        <4>1. IsFiniteSet(entries[c] \cup {entry})
          BY FS_AddElement DEF TypeInv, Shapes
        <4> QED
          BY <3>1, <3>2, <4>1
      <3>8. o \in Publishes \cup Changes
        BY <3>7, FS_CardinalityType DEF Ack, Changes
      <3>9. {frame} \in SUBSET Frames /\ \A f \in {frame} : f.client \in 1..created'[f.conn]
        BY <3>3 DEF Frames
      <3> HIDE DEF client, entry, o, frame
      <3> QED
        BY <3>1, <3>3, <3>4, <3>6, <3>8, <3>9, LeaveFrames DEF RegistryInv
    <2>2. ASSUME NEW p \in Callers, NEW c \in Conns, NEW t \in Topics, Unsubscribe(p, c, t)
          PROVE RegistryInv'
      <3> DEFINE left == {e \in entries[c] : e.topic # t}
                 o    == Ack("unsubscribe", c, t, Cardinality(left))
                 frames == IF clients[c] = 0 THEN {}
                           ELSE {[conn |-> c, client |-> clients[c], topic |-> t]}
      <3>1. /\ clients' = [clients EXCEPT ![c] = IF left = {} THEN 0 ELSE @]
            /\ created' = created
            /\ entries' = [entries EXCEPT ![c] = left]
            /\ Leave(p, o, frames)
        BY <2>2 DEF Unsubscribe
      <3>2. /\ clients \in [Conns -> Nat] /\ created \in [Conns -> Nat]
            /\ entries \in [Conns -> SUBSET Entries]
        BY DEF TypeInv, TypeOK
      <3>3. Numbered'
        BY <3>1, <3>2 DEF RegistryInv, Numbered
      <3>4. left \subseteq entries[c]
        OBVIOUS
      <3>5. RegistryConsistent'
        <4> HIDE DEF left
        <4>1. clients[c] = 0 => left = {}
          BY <3>4 DEF RegistryInv, RegistryConsistent
        <4> QED
          BY <3>1, <3>2, <3>4, <4>1 DEF RegistryInv, RegistryConsistent
      <3>6. IsFiniteSet(left)
        BY <3>4, FS_Subset DEF TypeInv, Shapes
      <3>7. o \in Publishes \cup Changes
        BY <3>6, FS_CardinalityType DEF Ack, Changes
      <3>8. frames \in SUBSET Frames /\ \A f \in frames : f.client \in 1..created'[f.conn]
        BY <3>1, <3>2 DEF Frames, RegistryInv, Numbered
      <3>9. created' \in [Conns -> Nat] /\ \A d \in Conns : created[d] <= created'[d]
        BY <3>1, <3>2
      <3> HIDE DEF left, o, frames
      <3> QED
        BY <3>1, <3>3, <3>5, <3>7, <3>8, <3>9, LeaveFrames DEF RegistryInv
    <2>3. ASSUME NEW p \in Callers, NEW ch \in Channels, Publish(p, ch) PROVE RegistryInv'
      <3> DEFINE frames == UNION {{[conn |-> c, client |-> e.client, topic |-> e.topic] :
                             e \in {f \in entries[c] : Matches(f.topic, ch)}} : c \in Conns}
                 o == [kind |-> "publish", topic |-> ch]
      <3>1. o \in Publishes \cup Changes
        BY DEF Publishes
      <3>2. /\ clients \in [Conns -> Nat] /\ created \in [Conns -> Nat]
            /\ entries \in [Conns -> SUBSET Entries]
        BY DEF TypeInv, TypeOK
      <3>3. ASSUME NEW c \in Conns, NEW e \in entries[c]
            PROVE  e.client \in 1..created[c]
        BY <3>2, <3>3 DEF RegistryInv, RegistryConsistent, Numbered
      <3>4. frames \in SUBSET Frames
        BY <3>2 DEF Frames, Entries
      <3>5. \A f \in frames : f.client \in 1..created[f.conn]
        BY <3>3
      <3>6. Leave(p, o, frames) /\ UNCHANGED registryVars
        BY <2>3 DEF Publish
      <3>7. created' = created /\ \A c \in Conns : created[c] <= created'[c]
        BY <3>2, <3>6 DEF registryVars
      <3> HIDE DEF frames, o
      <3>8. FramesNumbered' /\ FramesTaken'
        BY <3>1, <3>2, <3>4, <3>5, <3>6, <3>7, LeaveFrames
      <3> QED
        BY <3>6, <3>8 DEF registryVars, RegistryInv, RegistryConsistent, Numbered
    <2> USE DEF TypeInv, TypeOK, Shapes, RegistryInv, RegistryConsistent, Numbered, FramesNumbered,
                FramesTaken, writeUnchanged, registryVars
    <2>4. ASSUME NEW p \in Callers, NEW t \in todo[p], LockClient(p, t) PROVE RegistryInv'
      BY <2>4 DEF LockClient
    <2>5. ASSUME NEW p \in Callers, WritePiece(p) PROVE RegistryInv'
      BY <2>5 DEF WritePiece
    <2>6. ASSUME NEW p \in Callers, Flush(p) \/ WriteFails(p) \/ Return(p) PROVE RegistryInv'
      BY ZenonT(60), <2>6 DEF Flush, WriteFails, Return
    <2>7. ASSUME NEW c \in Conns, Break(c) PROVE RegistryInv'
      BY <2>7 DEF Break
    <2>8. CASE UNCHANGED vars
      BY <2>8 DEF vars
    <2> QED
      BY <2>1, <2>2, <2>3, <2>4, <2>5, <2>6, <2>7, <2>8 DEF Next, Writing, Terminated
  <1> QED
    BY <1>1, <1>2, TypeInvariant, PTL DEF Spec

-----------------------------------------------------------------------------
(* The pieces on a connection                                              *)

WritesTo(p, c) == call[p] = "write" /\ target[p].conn = c

LastPiece(c) == out[c][Len(out[c])]

\* On a connection that works, the pieces end with what the one writer has
\* written of its frame, or with the end of a frame.
EndsInOrder(c) ==
  /\ \A p \in Callers : WritesTo(p, c) /\ piece[p] > 0 =>
       /\ out[c] # <<>>
       /\ LastPiece(c) = [by |-> p, topic |-> target[p].topic, piece |-> piece[p]]
  /\ (\A p \in Callers : WritesTo(p, c) => piece[p] = 0) =>
       out[c] = <<>> \/ LastPiece(c).piece = Pieces

PiecesInv ==
  \A c \in Conns : created[c] <= 1 =>
    Whole(c) /\ (c \notin broken => EndsInOrder(c))

\* A write puts one piece, of the frame and in its turn, on the connection.
LEMMA PieceWritten ==
  ASSUME TypeInv, NEW p \in Callers, WritePiece(p)
  PROVE  \E c \in Conns, x \in PieceRecords :
           /\ c = target[p].conn
           /\ x = [by |-> p, topic |-> target[p].topic, piece |-> piece[p] + 1]
           /\ out' = [out EXCEPT ![c] = Append(@, x)]
  <1>1. target[p].conn \in Conns /\ target[p].topic \in Topics
    BY DEF WritePiece, TypeInv, Known, Frames
  <1>2. piece[p] + 1 \in 1..Pieces
    BY PubSubAssumption DEF WritePiece, TypeInv, TypeOK
  <1>3. [by |-> p, topic |-> target[p].topic, piece |-> piece[p] + 1] \in PieceRecords
    BY <1>1, <1>2 DEF PieceRecords
  <1> QED
    BY <1>1, <1>3 DEF WritePiece

\* A piece that continues the last one, or begins after the end of a frame,
\* leaves the frames whole.
LEMMA WholeAppend ==
  ASSUME TypeInv, NEW c \in Conns, Whole(c), NEW x \in PieceRecords,
         out'[c] = Append(out[c], x),
         \/ x.piece = 1 /\ (out[c] = <<>> \/ LastPiece(c).piece = Pieces)
         \/ /\ x.piece # 1 /\ out[c] # <<>>
            /\ SameFrame(LastPiece(c), x) /\ LastPiece(c).piece = x.piece - 1
  PROVE  Whole(c)'
  <1>1. out[c] \in Seq(PieceRecords)
    BY DEF TypeInv, Shapes
  <1>2. /\ Len(out[c]) \in Nat /\ DOMAIN out[c] = 1..Len(out[c])
        /\ DOMAIN out'[c] = 1..(Len(out[c]) + 1)
        /\ \A i \in 1..Len(out[c]) : out'[c][i] = out[c][i]
        /\ out'[c][Len(out[c]) + 1] = x
    BY <1>1
  <1>3. ASSUME NEW i \in 1..Len(out[c])
        PROVE  IF out'[c][i].piece = 1 THEN i = 1 \/ out'[c][i - 1].piece = Pieces
               ELSE /\ i > 1 /\ SameFrame(out'[c][i - 1], out'[c][i])
                    /\ out'[c][i - 1].piece = out'[c][i].piece - 1
    <2>1. i = 1 \/ i - 1 \in 1..Len(out[c])
      BY <1>2
    <2> QED
      BY <1>2, <2>1 DEF Whole
  <1>4. IF x.piece = 1 THEN Len(out[c]) + 1 = 1 \/ out'[c][Len(out[c])].piece = Pieces
        ELSE /\ Len(out[c]) + 1 > 1 /\ SameFrame(out'[c][Len(out[c])], x)
             /\ out'[c][Len(out[c])].piece = x.piece - 1
    <2>1. out[c] # <<>> => Len(out[c]) \in 1..Len(out[c])
      BY <1>1
    <2>2. out[c] = <<>> => Len(out[c]) = 0
      OBVIOUS
    <2> QED
      BY <1>2, <2>1, <2>2 DEF LastPiece
  <1> QED
    BY <1>2, <1>3, <1>4 DEF Whole

\* While a connection has had one pubSubClient, one call writes to it.
LEMMA OneWriter ==
  ASSUME TypeInv, RegistryInv, NEW c \in Conns, created[c] <= 1,
         NEW p \in Callers, NEW q \in Callers, WritesTo(p, c), WritesTo(q, c)
  PROVE  p = q
  <1>1. target[p].client \in 1..created[c] /\ target[q].client \in 1..created[c]
    BY DEF RegistryInv, FramesTaken, FramesNumbered, WritesTo
  <1>2. created[c] \in Nat
    BY DEF TypeInv, TypeOK
  <1>3. target[p].client = 1 /\ target[q].client = 1
    BY <1>1, <1>2
  <1> QED
    BY <1>3 DEF TypeInv, Exclusive, WritesTo

\* The sections under ps.mu write nothing.
LEMMA LeavePieces ==
  ASSUME TypeInv, PiecesInv, NEW p \in Callers, NEW o, NEW frames, Leave(p, o, frames),
         created' \in [Conns -> Nat], \A c \in Conns : created[c] <= created'[c]
  PROVE  PiecesInv'
  <1>1. /\ out' = out /\ piece' = piece /\ target' = target /\ broken' = broken
        /\ \A q \in Callers : call'[q] = "write" <=> call[q] = "write"
    BY DEF Leave, TypeInv, TypeOK
  <1>2. \A c \in Conns : Whole(c)' <=> Whole(c)
    BY <1>1 DEF Whole
  <1>3. \A c \in Conns : EndsInOrder(c)' <=> EndsInOrder(c)
    BY <1>1 DEF EndsInOrder, WritesTo, LastPiece
  <1>4. \A c \in Conns : created'[c] <= 1 => created[c] <= 1
    BY DEF TypeInv, TypeOK
  <1> QED
    BY <1>1, <1>2, <1>3, <1>4 DEF PiecesInv

\* Under one client's mutex a frame is written to its end before the next.
LEMMA PiecesInvariant == Spec => []PiecesInv
  <1> USE PubSubAssumption
  <1>1. ASSUME Init PROVE PiecesInv
    BY <1>1 DEF Init, PiecesInv, Whole, EndsInOrder, WritesTo
  <1>2. TypeInv /\ RegistryInv /\ PiecesInv /\ [Next]_vars => PiecesInv'
    <2> SUFFICES ASSUME TypeInv, RegistryInv, PiecesInv, [Next]_vars PROVE PiecesInv'
      OBVIOUS
    <2>1. ASSUME NEW p \in Callers, NEW c \in Conns, NEW t \in Topics,
                 Subscribe(p, c, t) \/ Unsubscribe(p, c, t)
          PROVE PiecesInv'
      <3>1. created' \in [Conns -> Nat] /\ \A d \in Conns : created[d] <= created'[d]
        BY <2>1 DEF Subscribe, Unsubscribe, TypeInv, TypeOK
      <3> QED
        BY <2>1, <3>1, LeavePieces DEF Subscribe, Unsubscribe
    <2>2. ASSUME NEW p \in Callers, NEW ch \in Channels, Publish(p, ch) PROVE PiecesInv'
      <3>1. created' \in [Conns -> Nat] /\ \A d \in Conns : created[d] <= created'[d]
        BY <2>2 DEF Publish, registryVars, TypeInv, TypeOK
      <3> QED
        BY <2>2, <3>1, LeavePieces DEF Publish
    <2>3. ASSUME NEW p \in Callers, NEW t \in todo[p], LockClient(p, t) PROVE PiecesInv'
      <3> USE <2>3 DEF LockClient, writeUnchanged, registryVars
      <3>1. /\ out' = out /\ created' = created /\ broken' = broken
            /\ call'[p] = "write" /\ target'[p] = t /\ piece'[p] = 0 /\ call[p] = "next"
            /\ \A q \in Callers \ {p} :
                 call'[q] = call[q] /\ target'[q] = target[q] /\ piece'[q] = piece[q]
        BY DEF TypeInv, TypeOK, Shapes
      <3>2. \A c \in Conns : Whole(c)' <=> Whole(c)
        BY <3>1 DEF Whole
      <3>3. \A c \in Conns : EndsInOrder(c) => EndsInOrder(c)'
        BY <3>1 DEF EndsInOrder, WritesTo, LastPiece
      <3> QED
        BY <3>1, <3>2, <3>3 DEF PiecesInv
    <2>4. ASSUME NEW p \in Callers, WritePiece(p) PROVE PiecesInv'
      <3>1. PICK c \in Conns, x \in PieceRecords :
              /\ c = target[p].conn
              /\ x = [by |-> p, topic |-> target[p].topic, piece |-> piece[p] + 1]
              /\ out' = [out EXCEPT ![c] = Append(@, x)]
        BY <2>4, PieceWritten
      <3>2. /\ WritesTo(p, c) /\ c \notin broken
            /\ piece[p] \in 0..Pieces /\ piece[p] < Pieces
            /\ piece' = [piece EXCEPT ![p] = @ + 1] /\ piece \in [Callers -> 0..Pieces]
            /\ call' = call /\ target' = target /\ created' = created /\ broken' = broken
        BY <2>4, <3>1 DEF WritePiece, writeUnchanged, registryVars, WritesTo, TypeInv, TypeOK
      <3>3. out \in [Conns -> Seq(PieceRecords)] /\ out'[c] = Append(out[c], x)
        BY <3>1 DEF TypeInv, Shapes
      <3>4. ASSUME NEW d \in Conns, d # c, created[d] <= 1
            PROVE  Whole(d)' /\ (d \notin broken' => EndsInOrder(d)')
        <4>1. out'[d] = out[d] /\ \A q \in Callers : WritesTo(q, d) => q # p /\ piece'[q] = piece[q]
          BY <3>1, <3>2, <3>3, <3>4 DEF WritesTo
        <4>2. \A q \in Callers : WritesTo(q, d)' <=> WritesTo(q, d)
          BY <3>2 DEF WritesTo
        <4> QED
          BY <3>2, <3>4, <4>1, <4>2 DEF PiecesInv, Whole, EndsInOrder, LastPiece
      <3>5. ASSUME created[c] <= 1 PROVE Whole(c)' /\ EndsInOrder(c)'
        <4>1. Whole(c) /\ EndsInOrder(c)
          BY <3>2, <3>5 DEF PiecesInv
        <4>2. \A q \in Callers : WritesTo(q, c) => q = p
          BY <3>2, <3>5, OneWriter
        <4>3. \/ x.piece = 1 /\ (out[c] = <<>> \/ LastPiece(c).piece = Pieces)
              \/ /\ x.piece # 1 /\ out[c] # <<>>
                 /\ SameFrame(LastPiece(c), x) /\ LastPiece(c).piece = x.piece - 1
          <5>1. x.by = p /\ x.topic = target[p].topic /\ x.piece = piece[p] + 1
            BY <3>1
          <5>2. CASE piece[p] = 0
            BY <3>2, <4>1, <4>2, <5>1, <5>2 DEF EndsInOrder
          <5>3. CASE piece[p] # 0
            <6>1. /\ out[c] # <<>>
                  /\ LastPiece(c) = [by |-> p, topic |-> target[p].topic, piece |-> piece[p]]
              BY <3>2, <4>1, <5>3 DEF EndsInOrder
            <6> QED
              BY <3>2, <5>1, <5>3, <6>1 DEF SameFrame
          <5> QED
            BY <5>2, <5>3
        <4>4. Whole(c)'
          BY <3>3, <4>1, <4>3, WholeAppend
        <4>5. out'[c] # <<>> /\ LastPiece(c)' = x
          <5>1. out[c] \in Seq(PieceRecords)
            BY <3>3
          <5> QED
            BY <3>3, <5>1, AppendLast DEF LastPiece
        <4>6. piece'[p] = piece[p] + 1 /\ \A q \in Callers : WritesTo(q, c)' <=> q = p
          BY <3>2, <4>2 DEF WritesTo
        <4>7. EndsInOrder(c)'
          BY <3>1, <3>2, <4>5, <4>6 DEF EndsInOrder
        <4> QED
          BY <4>4, <4>7
      <3> QED
        BY <3>2, <3>4, <3>5 DEF PiecesInv
    <2>5. ASSUME NEW p \in Callers, Flush(p) \/ WriteFails(p) \/ Return(p) PROVE PiecesInv'
      <3> USE <2>5 DEF Flush, WriteFails, Return, writeUnchanged, registryVars
      <3>1. /\ out' = out /\ created' = created /\ broken' = broken /\ target' = target
            /\ piece' = piece
            /\ call'[p] # "write" /\ \A q \in Callers \ {p} : call'[q] = call[q]
        BY DEF TypeInv, TypeOK
      <3>2. \A c \in Conns : Whole(c)' <=> Whole(c)
        BY <3>1 DEF Whole
      <3>3. ASSUME NEW c \in Conns, c \notin broken, EndsInOrder(c) PROVE EndsInOrder(c)'
        <4>1. CASE WritesTo(p, c)
          \* The writer leaves the end of its frame behind.
          <5>1. piece[p] = Pieces /\ Pieces > 0
            BY <3>3, <4>1 DEF WritesTo
          <5>2. out[c] # <<>> /\ LastPiece(c).piece = Pieces
            BY <3>3, <4>1, <5>1 DEF EndsInOrder
          <5> QED
            BY <3>1, <3>3, <5>2 DEF EndsInOrder, WritesTo, LastPiece
        <4>2. CASE ~WritesTo(p, c)
          BY <3>1, <3>3, <4>2 DEF EndsInOrder, WritesTo, LastPiece
        <4> QED
          BY <4>1, <4>2
      <3> QED
        BY <3>1, <3>2, <3>3 DEF PiecesInv
    <2>6. ASSUME NEW c \in Conns, Break(c) PROVE PiecesInv'
      BY <2>6 DEF Break, registryVars, PiecesInv, Whole, EndsInOrder, WritesTo, LastPiece
    <2>7. CASE UNCHANGED vars
      BY <2>7 DEF vars, registryVars, PiecesInv, Whole, EndsInOrder, WritesTo, LastPiece
    <2> QED
      BY <2>1, <2>2, <2>3, <2>4, <2>5, <2>6, <2>7 DEF Next, Writing, Terminated
  <1> QED
    BY <1>1, <1>2, TypeInvariant, RegistryInvariant, PTL DEF Spec

-----------------------------------------------------------------------------
(* What becomes of the frames of a call                                    *)

\* Each frame a call took from the registry is still to be written, being
\* written or written; a call fails on one of its own connections.
Delivery(p) ==
  /\ call[p] # "failed" =>
       \A t \in snapshot[p] :
         \/ t \in todo[p]
         \/ call[p] = "write" /\ t = target[p]
         \/ Received(t.conn, p, t.topic)
  /\ call[p] = "write" /\ piece[p] = Pieces => Received(target[p].conn, p, target[p].topic)
  /\ call[p] = "returned" => todo[p] = {}
  /\ call[p] = "failed" => \E t \in snapshot[p] : t.conn \in broken

DeliveryInv == \A p \in Callers : Delivery(p)

\* A call that leaves ps.mu has written to nobody yet.
LEMMA LeaveDelivery ==
  ASSUME TypeInv, RegistryInv, DeliveryInv, NEW p \in Callers, NEW o, NEW frames, Leave(p, o, frames)
  PROVE  DeliveryInv'
  <1>1. /\ out' = out /\ piece' = piece /\ target' = target /\ broken' = broken
        /\ call'[p] = "next" /\ todo'[p] = snapshot'[p]
    BY DEF Leave, TypeInv, TypeOK, Shapes
  <1>2. \A q \in Callers \ {p} : call'[q] = call[q] /\ todo'[q] = todo[q] /\ snapshot'[q] = snapshot[q]
    BY DEF Leave, TypeInv, TypeOK, Shapes
  <1>3. Delivery(p)'
    BY <1>1 DEF Delivery
  <1>4. \A q \in Callers \ {p} : Delivery(q)'
    BY <1>1, <1>2 DEF DeliveryInv, Delivery, Received
  <1> QED
    BY <1>3, <1>4 DEF DeliveryInv

\* What Publish has passed over in its snapshot has the message or failed it.
LEMMA DeliveryInvariant == Spec => []DeliveryInv
  <1> USE PubSubAssumption
  <1>1. ASSUME Init PROVE DeliveryInv
    BY <1>1 DEF Init, DeliveryInv, Delivery
  <1>2. TypeInv /\ RegistryInv /\ DeliveryInv /\ [Next]_vars => DeliveryInv'
    <2> SUFFICES ASSUME TypeInv, RegistryInv, DeliveryInv, [Next]_vars PROVE DeliveryInv'
      OBVIOUS
    <2>1. ASSUME NEW p \in Callers, NEW c \in Conns, NEW t \in Topics,
                 Subscribe(p, c, t) \/ Unsubscribe(p, c, t)
          PROVE DeliveryInv'
      BY <2>1, LeaveDelivery DEF Subscribe, Unsubscribe
    <2>2. ASSUME NEW p \in Callers, NEW ch \in Channels, Publish(p, ch) PROVE DeliveryInv'
      BY <2>2, LeaveDelivery DEF Publish
    <2>3. ASSUME NEW p \in Callers, NEW t \in todo[p], LockClient(p, t) PROVE DeliveryInv'
      <3> USE <2>3 DEF LockClient, writeUnchanged, registryVars
      <3>1. /\ out' = out /\ broken' = broken /\ snapshot' = snapshot
            /\ call'[p] = "write" /\ target'[p] = t /\ piece'[p] = 0 /\ call[p] = "next"
            /\ todo'[p] = todo[p] \ {t}
            /\ \A q \in Callers \ {p} : /\ call'[q] = call[q] /\ target'[q] = target[q]
                                        /\ piece'[q] = piece[q] /\ todo'[q] = todo[q]
        BY DEF TypeInv, TypeOK, Shapes
      <3>2. Delivery(p)'
        BY <3>1 DEF DeliveryInv, Delivery, Received
      <3>3. \A q \in Callers \ {p} : Delivery(q)'
        BY <3>1 DEF DeliveryInv, Delivery, Received
      <3> QED
        BY <3>2, <3>3 DEF DeliveryInv
    <2>4. ASSUME NEW p \in Callers, WritePiece(p) PROVE DeliveryInv'
      <3>1. PICK c \in Conns, x \in PieceRecords :
              /\ c = target[p].conn
              /\ x = [by |-> p, topic |-> target[p].topic, piece |-> piece[p] + 1]
              /\ out' = [out EXCEPT ![c] = Append(@, x)]
        BY <2>4, PieceWritten
      <3>2. /\ call' = call /\ target' = target /\ broken' = broken /\ snapshot' = snapshot
            /\ todo' = todo /\ call[p] = "write"
            /\ piece'[p] = piece[p] + 1 /\ \A q \in Callers \ {p} : piece'[q] = piece[q]
        BY <2>4 DEF WritePiece, writeUnchanged, TypeInv, TypeOK
      <3>3. out \in [Conns -> Seq(PieceRecords)] /\ out'[c] = Append(out[c], x)
        BY <3>1 DEF TypeInv, Shapes
      <3>4. /\ DOMAIN out'[c] = 1..(Len(out[c]) + 1) /\ out'[c][Len(out[c]) + 1] = x
            /\ DOMAIN out[c] = 1..Len(out[c]) /\ Len(out[c]) \in Nat
            /\ \A i \in DOMAIN out[c] : out'[c][i] = out[c][i]
        BY <3>3, AppendLast
      <3>5. ASSUME NEW d \in Conns, NEW q \in Callers, NEW u \in Topics, Received(d, q, u)
            PROVE  Received(d, q, u)'
        <4>1. PICK i \in DOMAIN out[d] : out[d][i].by = q /\ out[d][i].topic = u /\ out[d][i].piece = Pieces
          BY <3>5 DEF Received
        <4>2. CASE d = c
          <5>1. i \in DOMAIN out'[d] /\ out'[d][i] = out[d][i]
            BY <3>4, <4>1, <4>2
          <5> QED
            BY <4>1, <5>1 DEF Received
        <4>3. CASE d # c
          <5>1. out'[d] = out[d]
            BY <3>1, <3>3, <4>3
          <5> QED
            BY <4>1, <5>1 DEF Received
        <4> QED
          BY <4>2, <4>3
      <3>6. piece[p] + 1 = Pieces => Received(target[p].conn, p, target[p].topic)'
        <4>1. x.by = p /\ x.topic = target[p].topic /\ x.piece = piece[p] + 1
          BY <3>1
        <4>2. Len(out[c]) + 1 \in DOMAIN out'[c]
          BY <3>4
        <4>3. piece[p] + 1 = Pieces => Received(c, p, x.topic)'
          BY <3>4, <4>1, <4>2 DEF Received
        <4> QED
          BY <3>1, <3>2, <4>1, <4>3 DEF Received
      <3>7. \A q \in Callers : \A t \in snapshot[q] : t.conn \in Conns /\ t.topic \in Topics
        BY DEF TypeInv, Shapes, Frames
      <3>8. \A q \in Callers : call[q] = "write" => target[q].conn \in Conns /\ target[q].topic \in Topics
        BY DEF TypeInv, Known, Frames
      <3>9. ASSUME NEW q \in Callers PROVE Delivery(q)'
        BY <3>2, <3>5, <3>6, <3>7, <3>8 DEF DeliveryInv, Delivery
      <3> QED
        BY <3>9 DEF DeliveryInv
    <2>5. ASSUME NEW p \in Callers, Flush(p) \/ WriteFails(p) \/ Return(p) PROVE DeliveryInv'
      <3> USE <2>5 DEF Flush, WriteFails, Return, writeUnchanged, registryVars
      <3>1. /\ out' = out /\ broken' = broken /\ target' = target /\ snapshot' = snapshot
            /\ piece' = piece /\ todo' = todo
            /\ call'[p] \in {"next", "failed", "returned"} /\ call[p] \in {"write", "next"}
            /\ \A q \in Callers \ {p} : call'[q] = call[q]
        BY DEF TypeInv, TypeOK
      <3>2. \A c, q, t : Received(c, q, t)' <=> Received(c, q, t)
        BY <3>1 DEF Received
      <3>3. \A q \in Callers \ {p} : Delivery(q)'
        BY <3>1, <3>2 DEF DeliveryInv, Delivery
      <3>4. CASE Flush(p)
        <4>1. call[p] = "write" /\ piece[p] = Pieces /\ call'[p] = "next"
          BY <3>4 DEF TypeInv, TypeOK
        <4>2. Delivery(p)'
          BY <3>1, <3>2, <4>1 DEF DeliveryInv, Delivery
        <4> QED
          BY <3>3, <4>2 DEF DeliveryInv
      <3>5. CASE WriteFails(p)
        <4>1. call[p] = "write" /\ target[p].conn \in broken /\ call'[p] = "failed"
          BY <3>5 DEF TypeInv, TypeOK
        <4>2. Delivery(p)'
          BY <3>1, <4>1 DEF Delivery, RegistryInv, FramesTaken
        <4> QED
          BY <3>3, <4>2 DEF DeliveryInv
      <3>6. CASE Return(p)
        <4>1. call[p] = "next" /\ todo[p] = {} /\ call'[p] = "returned"
          BY <3>6 DEF TypeInv, TypeOK
        <4>2. Delivery(p)'
          BY <3>1, <3>2, <4>1 DEF DeliveryInv, Delivery
        <4> QED
          BY <3>3, <4>2 DEF DeliveryInv
      <3> QED
        BY <2>5, <3>4, <3>5, <3>6
    <2>6. ASSUME NEW c \in Conns, Break(c) PROVE DeliveryInv'
      BY <2>6 DEF Break, DeliveryInv, Delivery, Received
    <2>7. CASE UNCHANGED vars
      BY <2>7 DEF vars, DeliveryInv, Delivery, Received
    <2> QED
      BY <2>1, <2>2, <2>3, <2>4, <2>5, <2>6, <2>7 DEF Next, Writing, Terminated
  <1> QED
    BY <1>1, <1>2, TypeInvariant, RegistryInvariant, PTL DEF Spec

-----------------------------------------------------------------------------
(* Acknowledgements                                                        *)

\* Subscribe or Unsubscribe of connection c, under way.
Acknowledging(p, c) == call[p] \in {"next", "write"} /\ op[p].kind # "publish" /\ op[p].conn = c

\* The last piece of a frame is still to come.
Pending(p) == todo[p] # {} \/ (call[p] = "write" /\ piece[p] < Pieces)

Told(c) ==
  \A i \in DOMAIN out[c] : LastAck(c, i) => op[out[c][i].by].count = Cardinality(entries[c])

\* A call's frames go to its connection, and only calls that began write.
Origins ==
  /\ \A p \in Callers : op[p] \in Changes => \A t \in snapshot[p] : t.conn = op[p].conn
  /\ \A c \in Conns : \A i \in DOMAIN out[c] : call[out[c][i].by] # "idle"

\* Where calls have not overlapped, one is under way and holds the count; when
\* its acknowledgement is written, or if it writes none, the last one tells it.
Counted(c) ==
  /\ \A p, q \in Callers : Acknowledging(p, c) /\ Acknowledging(q, c) => p = q
  /\ \A p \in Callers : Acknowledging(p, c) => op[p].count = Cardinality(entries[c])
  /\ c \notin broken => Told(c) \/ \E p \in Callers : Acknowledging(p, c) /\ Pending(p)

AcksInv == Origins /\ \A c \in Conns \ overlap : Counted(c)

\* Every piece on a connection was written by some call.
LEMMA Authors ==
  ASSUME TypeInv
  PROVE  \A c \in Conns : \A i \in DOMAIN out[c] : out[c][i].by \in Callers
  <1> SUFFICES ASSUME NEW c \in Conns, NEW i \in DOMAIN out[c] PROVE out[c][i].by \in Callers
    OBVIOUS
  <1>1. out[c] \in Seq(PieceRecords)
    BY DEF TypeInv, Shapes
  <1>2. out[c][i] \in PieceRecords
    BY <1>1
  <1> QED
    BY <1>2 DEF PieceRecords

\* What a section under ps.mu must do to keep the counts right.
LEMMA LeaveAcks ==
  ASSUME TypeInv, RegistryInv, AcksInv, NEW p \in Callers, NEW o \in Publishes \cup Changes,
         NEW frames \in SUBSET Frames, Leave(p, o, frames),
         o \in Changes => /\ o.count = Cardinality(entries'[o.conn])
                          /\ frames = {} => entries'[o.conn] = entries[o.conn]
                          /\ \A t \in frames : t.conn = o.conn,
         \A c \in Conns : o \in Publishes \/ c # o.conn => entries'[c] = entries[c]
  PROVE  AcksInv'
  <1>1. /\ out' = out /\ broken' = broken /\ call[p] = "idle" /\ piece' = piece
        /\ call'[p] = "next" /\ op'[p] = o /\ todo'[p] = frames /\ snapshot'[p] = frames
        /\ \A q \in Callers \ {p} : /\ call'[q] = call[q] /\ op'[q] = op[q] /\ todo'[q] = todo[q]
                                    /\ snapshot'[q] = snapshot[q]
    BY DEF Leave, TypeInv, TypeOK, Shapes
  <1>3. \A c \in Conns : \A i \in DOMAIN out[c] : out[c][i].by \in Callers \ {p}
    BY <1>1, Authors DEF AcksInv, Origins
  <1>4. Origins'
    BY <1>1, <1>3 DEF AcksInv, Origins
  <1>5. o.kind = "publish" <=> o \in Publishes
    BY DEF Publishes, Changes
  <1>6. \A c \in Conns : c \in Busy <=> \E q \in Callers : Acknowledging(q, c)
    BY DEF Busy, Acknowledging
  <1>7. \A c \in Conns : \A i \in DOMAIN out[c] : LastAck(c, i)' <=> LastAck(c, i)
    BY <1>1, <1>3 DEF LastAck, IsAck
  <1>8. ASSUME NEW c \in Conns \ overlap' PROVE Counted(c)'
    <2>1. c \notin overlap /\ Counted(c)
      BY <1>8 DEF Leave, AcksInv
    <2>2. entries'[c] = entries[c] => (Told(c) => Told(c)')
      BY <1>1, <1>3, <1>7 DEF Told
    <2>3. CASE o \in Publishes \/ c # o.conn
      <3>1. ~Acknowledging(p, c)' /\ ~Acknowledging(p, c)
        BY <1>1, <1>5, <2>3 DEF Acknowledging
      <3>2. \A q \in Callers \ {p} : /\ Acknowledging(q, c)' <=> Acknowledging(q, c)
                                     /\ Pending(q)' <=> Pending(q)
        BY <1>1 DEF Acknowledging, Pending
      <3>3. entries'[c] = entries[c]
        BY <2>3
      <3> QED
        BY <1>1, <2>1, <2>2, <3>1, <3>2, <3>3 DEF Counted
    <2>4. CASE o \in Changes /\ c = o.conn
      <3>1. c \notin Busy
        BY <1>5, <1>8, <2>4 DEF Leave, Publishes, Changes
      <3>2. \A q \in Callers \ {p} : ~Acknowledging(q, c)'
        BY <1>1, <1>6, <3>1 DEF Acknowledging
      <3>3. Acknowledging(p, c)' /\ op'[p].count = Cardinality(entries'[c])
        BY <1>1, <2>4 DEF Acknowledging, Changes
      <3>4. Told(c) \/ c \in broken
        BY <1>6, <2>1, <3>1 DEF Counted
      <3>5. Told(c)' \/ c \in broken' \/ Pending(p)'
        BY <1>1, <2>2, <2>4, <3>4 DEF Pending
      <3> QED
        BY <3>2, <3>3, <3>5 DEF Counted
    <2> QED
      BY <2>3, <2>4
  <1> QED
    BY <1>4, <1>8 DEF AcksInv

\* The acknowledgement under way, or else the last one written, has the count.
LEMMA AcksInvariant == Spec => []AcksInv
  <1> USE PubSubAssumption
  <1>1. ASSUME Init PROVE AcksInv
    <2>1. \A c \in Conns : Counted(c)
      BY <1>1 DEF Init, Counted, Told, Acknowledging
    <2>2. Origins
      BY <1>1 DEF Init, Origins
    <2> QED
      BY <2>1, <2>2 DEF AcksInv
  <1>2. TypeInv /\ RegistryInv /\ AcksInv /\ [Next]_vars => AcksInv'
    <2> SUFFICES ASSUME TypeInv, RegistryInv, AcksInv, [Next]_vars PROVE AcksInv'
      OBVIOUS
    <2>1. ASSUME NEW p \in Callers, NEW c \in Conns, NEW t \in Topics, Subscribe(p, c, t)
          PROVE AcksInv'
      <3> DEFINE client == IF clients[c] # 0 THEN clients[c] ELSE created[c] + 1
                 o      == Ack("subscribe", c, t, Cardinality(entries'[c]))
                 frame  == [conn |-> c, client |-> client, topic |-> t]
      <3>1. /\ entries' = [entries EXCEPT ![c] = @ \cup {[topic |-> t, client |-> client]}]
            /\ Leave(p, o, {frame})
        BY <2>1 DEF Subscribe
      <3>2. entries'[c] = entries[c] \cup {[topic |-> t, client |-> client]}
        BY <3>1 DEF TypeInv, TypeOK
      <3>3. IsFiniteSet(entries[c] \cup {[topic |-> t, client |-> client]})
        BY FS_AddElement DEF TypeInv, Shapes
      <3>4. o \in Changes /\ o.conn = c /\ o.count = Cardinality(entries'[c])
        BY <3>2, <3>3, FS_CardinalityType DEF Ack, Changes
      <3>5. {frame} \in SUBSET Frames /\ {frame} # {} /\ \A f \in {frame} : f.conn = c
        BY DEF Frames, TypeInv, TypeOK
      <3>6. \A d \in Conns : d # c => entries'[d] = entries[d]
        BY <3>1 DEF TypeInv, TypeOK
      <3>7. o \notin Publishes
        BY <3>4 DEF Publishes, Changes
      <3> HIDE DEF client, o, frame
      <3> QED
        BY <3>1, <3>4, <3>5, <3>6, <3>7, LeaveAcks
    <2>2. ASSUME NEW p \in Callers, NEW c \in Conns, NEW t \in Topics, Unsubscribe(p, c, t)
          PROVE AcksInv'
      <3> DEFINE left == {e \in entries[c] : e.topic # t}
                 o    == Ack("unsubscribe", c, t, Cardinality(left))
                 frames == IF clients[c] = 0 THEN {}
                           ELSE {[conn |-> c, client |-> clients[c], topic |-> t]}
      <3>1. entries' = [entries EXCEPT ![c] = left] /\ Leave(p, o, frames)
        BY <2>2 DEF Unsubscribe
      <3>2. left \subseteq entries[c] /\ entries'[c] = left
        BY <3>1 DEF TypeInv, TypeOK
      <3>3. IsFiniteSet(left)
        BY <3>2, FS_Subset DEF TypeInv, Shapes
      <3>4. o \in Changes /\ o.conn = c /\ o.count = Cardinality(entries'[c])
        BY <3>2, <3>3, FS_CardinalityType DEF Ack, Changes
      <3>5. frames = {} => entries'[c] = entries[c]
        <4>1. frames = {} => clients[c] = 0
          OBVIOUS
        <4> QED
          BY <3>2, <4>1 DEF RegistryInv, RegistryConsistent
      <3>6. frames \in SUBSET Frames /\ \A f \in frames : f.conn = c
        BY DEF Frames, TypeInv, TypeOK
      <3>7. \A d \in Conns : d # c => entries'[d] = entries[d]
        BY <3>1 DEF TypeInv, TypeOK
      <3>8. o \notin Publishes
        BY <3>4 DEF Publishes, Changes
      <3> HIDE DEF left, o, frames
      <3> QED
        BY <3>1, <3>4, <3>5, <3>6, <3>7, <3>8, LeaveAcks
    <2>3. ASSUME NEW p \in Callers, NEW ch \in Channels, Publish(p, ch) PROVE AcksInv'
      <3> DEFINE frames == UNION {{[conn |-> c, client |-> e.client, topic |-> e.topic] :
                             e \in {f \in entries[c] : Matches(f.topic, ch)}} : c \in Conns}
                 o == [kind |-> "publish", topic |-> ch]
      <3>1. o \in Publishes /\ o \notin Changes
        BY DEF Publishes, Changes
      <3>2. frames \in SUBSET Frames
        BY DEF Frames, TypeInv, TypeOK, Entries
      <3>3. Leave(p, o, frames) /\ UNCHANGED registryVars
        BY <2>3 DEF Publish
      <3> HIDE DEF frames, o
      <3> QED
        BY <3>1, <3>2, <3>3, LeaveAcks DEF registryVars
    <2>4. ASSUME NEW p \in Callers, NEW t \in todo[p], LockClient(p, t) PROVE AcksInv'
      <3>1. /\ UNCHANGED <<out, broken, snapshot, op, entries, overlap>>
            /\ call'[p] = "write" /\ piece'[p] = 0 /\ call[p] = "next" /\ Pieces > 0
            /\ \A q \in Callers \ {p} : /\ call'[q] = call[q] /\ piece'[q] = piece[q]
                                        /\ todo'[q] = todo[q]
        BY <2>4 DEF LockClient, writeUnchanged, registryVars, TypeInv, TypeOK, Shapes
      <3>2. Origins'
        <4>1. \A q \in Callers : call[q] # "idle" => call'[q] # "idle"
          BY <3>1
        <4> QED
          BY <3>1, <4>1, Authors DEF AcksInv, Origins
      <3>3. ASSUME NEW c \in Conns PROVE Counted(c) => Counted(c)'
        <4>1. Told(c)' <=> Told(c)
          BY <3>1 DEF Told, LastAck, IsAck
        <4>2. \A q \in Callers : Acknowledging(q, c)' <=> Acknowledging(q, c)
          BY <3>1 DEF Acknowledging
        <4>3. \A q \in Callers : Pending(q) => Pending(q)'
          BY <3>1 DEF Pending
        <4> QED
          BY <3>1, <4>1, <4>2, <4>3 DEF Counted
      <3> QED
        BY <3>1, <3>2, <3>3 DEF AcksInv
    <2>5. ASSUME NEW p \in Callers, WritePiece(p) PROVE AcksInv'
      <3>1. PICK c \in Conns, x \in PieceRecords :
              /\ c = target[p].conn
              /\ x = [by |-> p, topic |-> target[p].topic, piece |-> piece[p] + 1]
              /\ out' = [out EXCEPT ![c] = Append(@, x)]
        BY <2>5, PieceWritten
      <3>2. /\ UNCHANGED <<call, target, broken, snapshot, todo, op, entries, overlap>>
            /\ call[p] = "write" /\ piece[p] \in 0..Pieces
            /\ piece'[p] = piece[p] + 1 /\ \A q \in Callers \ {p} : piece'[q] = piece[q]
        BY <2>5 DEF WritePiece, writeUnchanged, registryVars, TypeInv, TypeOK
      <3>3. out \in [Conns -> Seq(PieceRecords)] /\ out'[c] = Append(out[c], x)
        BY <3>1 DEF TypeInv, Shapes
      <3>4. /\ DOMAIN out'[c] = 1..(Len(out[c]) + 1) /\ out'[c][Len(out[c]) + 1] = x
            /\ DOMAIN out[c] = 1..Len(out[c]) /\ Len(out[c]) \in Nat
            /\ \A i \in DOMAIN out[c] : out'[c][i] = out[c][i]
            /\ \A d \in Conns \ {c} : out'[d] = out[d]
        BY <3>1, <3>3, AppendLast
      <3>5. x.by = p /\ x.piece = piece[p] + 1
        BY <3>1
      <3>6. Origins'
        BY SMTT(30), <3>2, <3>4, <3>5 DEF AcksInv, Origins
      <3>7. \A d \in Conns, q \in Callers : Acknowledging(q, d)' <=> Acknowledging(q, d)
        BY <3>2 DEF Acknowledging
      <3>8. \A q \in Callers \ {p} : Pending(q)' <=> Pending(q)
        BY <3>2 DEF Pending
      <3>9. op[p] \in Publishes \cup Changes
        BY <3>2 DEF TypeInv, Shapes, Known
      <3>10. op[p].kind # "publish" => op[p] \in Changes /\ Acknowledging(p, c)
        BY <3>1, <3>2, <3>9 DEF Publishes, Acknowledging, AcksInv, Origins, RegistryInv, FramesTaken
      <3>11. ASSUME NEW d \in Conns, Counted(d) PROVE Counted(d)'
        <4>1. CASE d = c /\ op[p].kind # "publish" /\ piece[p] + 1 = Pieces
          \* The acknowledgement is complete, and is the last one.
          <5>1. \A i \in DOMAIN out'[c] : LastAck(c, i)' => i = Len(out[c]) + 1
            BY SMTT(30), <3>2, <3>4, <3>5, <4>1 DEF LastAck, IsAck
          <5>2. op[p].count = Cardinality(entries[c])
            BY <3>10, <3>11, <4>1 DEF Counted
          <5>3. Told(c)'
            BY <3>2, <3>4, <3>5, <5>1, <5>2 DEF Told
          <5> QED
            BY <3>2, <3>7, <3>11, <4>1, <5>3 DEF Counted
        <4>2. CASE ~(d = c /\ op[p].kind # "publish" /\ piece[p] + 1 = Pieces)
          <5>1. Told(d) => Told(d)'
            <6>1. CASE d = c
              <7>1. \A i \in DOMAIN out'[c] : IsAck(c, i)' <=> i \in DOMAIN out[c] /\ IsAck(c, i)
                <8>1. \A n : n = Len(out[c]) + 1 => ~IsAck(c, n)'
                  BY <3>2, <3>4, <3>5, <4>2, <6>1 DEF IsAck
                <8>2. \A i \in DOMAIN out[c] : IsAck(c, i)' <=> IsAck(c, i)
                  BY <3>2, <3>4 DEF IsAck
                <8>3. \A i \in DOMAIN out'[c] : i \in DOMAIN out[c] \/ i = Len(out[c]) + 1
                  BY <3>4
                <8>4. Len(out[c]) + 1 \notin DOMAIN out[c]
                  BY <3>4
                <8> QED
                  BY <8>1, <8>2, <8>3, <8>4
              <7>2. \A i \in DOMAIN out'[c] : LastAck(c, i)' => i \in DOMAIN out[c] /\ LastAck(c, i)
                BY <3>4, <7>1 DEF LastAck
              <7> QED
                BY <3>2, <3>4, <6>1, <7>2 DEF Told
            <6>2. CASE d # c
              BY <3>2, <3>4, <6>2 DEF Told, LastAck, IsAck
            <6> QED
              BY <6>1, <6>2
          <5>2. Acknowledging(p, d) /\ Pending(p) => Pending(p)'
            <6>1. ASSUME Acknowledging(p, d) PROVE d = c /\ op[p].kind # "publish"
              BY <3>10, <6>1 DEF Acknowledging
            <6> QED
              BY <2>5, <3>2, <4>2, <6>1 DEF Pending, WritePiece
          <5> QED
            BY <3>2, <3>7, <3>8, <3>11, <5>1, <5>2 DEF Counted
        <4> QED
          BY <4>1, <4>2
      <3> QED
        BY <3>2, <3>6, <3>11 DEF AcksInv
    <2>6. ASSUME NEW p \in Callers, Flush(p) \/ WriteFails(p) \/ Return(p) PROVE AcksInv'
      <3>1. /\ UNCHANGED <<out, broken, snapshot, op, entries, overlap, piece, todo>>
            /\ call'[p] \in {"next", "failed", "returned"} /\ call[p] \in {"write", "next"}
            /\ call'[p] = "next" => call[p] = "write" /\ piece[p] = Pieces
            /\ call'[p] = "returned" => todo[p] = {} /\ call[p] = "next"
            /\ call'[p] = "failed" => call[p] = "write" /\ target[p].conn \in broken
            /\ \A q \in Callers \ {p} : call'[q] = call[q]
        BY <2>6 DEF Flush, WriteFails, Return, writeUnchanged, registryVars, TypeInv, TypeOK
      <3>2. Origins'
        <4>1. \A q \in Callers : call[q] # "idle" => call'[q] # "idle"
          BY <3>1
        <4> QED
          BY <3>1, <4>1, Authors DEF AcksInv, Origins
      <3>3. ASSUME NEW c \in Conns, Counted(c) PROVE Counted(c)'
        <4>1. Told(c)' <=> Told(c)
          BY <3>1 DEF Told, LastAck, IsAck
        <4>2. \A q \in Callers : Acknowledging(q, c)' => Acknowledging(q, c)
          BY <3>1 DEF Acknowledging
        <4>3. \A q \in Callers \ {p} : /\ Acknowledging(q, c)' <=> Acknowledging(q, c)
                                       /\ Pending(q)' <=> Pending(q)
          BY <3>1 DEF Acknowledging, Pending
        <4>4. ASSUME Acknowledging(p, c), Pending(p), c \notin broken
              PROVE  Acknowledging(p, c)' /\ Pending(p)'
          <5>1. call'[p] # "returned"
            BY <3>1, <4>4 DEF Pending
          <5>2. op[p] \in Changes
            BY <3>1, <4>4 DEF Acknowledging, Publishes, TypeInv, Shapes, Known
          <5>3. call[p] = "write" => target[p].conn = c
            BY <4>4, <5>2 DEF Acknowledging, AcksInv, Origins, RegistryInv, FramesTaken
          <5> QED
            BY <3>1, <4>4, <5>1, <5>3 DEF Acknowledging, Pending, TypeInv, TypeOK
        <4> QED
          BY <3>1, <3>3, <4>1, <4>2, <4>3, <4>4 DEF Counted
      <3> QED
        BY <3>1, <3>2, <3>3 DEF AcksInv
    <2>7. ASSUME NEW c \in Conns, Break(c) PROVE AcksInv'
      BY <2>7 DEF Break, registryVars, AcksInv, Origins, Counted, Told, LastAck, IsAck, Acknowledging,
                  Pending
    <2>8. CASE UNCHANGED vars
      BY <2>8 DEF vars, registryVars, AcksInv, Origins, Counted, Told, LastAck, IsAck, Acknowledging,
                  Pending
    <2> QED
      BY <2>1, <2>2, <2>3, <2>4, <2>5, <2>6, <2>7, <2>8 DEF Next, Writing, Terminated
  <1> QED
    BY <1>1, <1>2, TypeInvariant, RegistryInvariant, PTL DEF Spec

-----------------------------------------------------------------------------
(* Theorems                                                                *)

\* The maps of pubsub.go and the locals of its calls hold what they are declared
\* to hold, and client.mu is held by exactly the calls that write to the client.
THEOREM TypeCorrect == Spec => []TypeOK
  BY TypeInvariant, PTL DEF TypeInv

\* Subscribe, Unsubscribe and their pattern forms leave ps.clients and
\* ps.entries in agreement: one client for all subscriptions of a connection.
THEOREM RegistryAgrees == Spec => []RegistryConsistent
  BY RegistryInvariant, PTL DEF RegistryInv

\* client.mu keeps the frames of any number of concurrent publishers and
\* acknowledgements apart, on a connection that kept its pubSubClient.
THEOREM FramesStayWhole == Spec => []FramesWhole
  <1>1. PiecesInv => FramesWhole
    BY DEF PiecesInv, FramesWhole
  <1> QED
    BY <1>1, PiecesInvariant, PTL

\* A Publish that returns without an error has written the message once for
\* every entry that matched, and one that fails met a broken connection.
THEOREM PublishDelivers == Spec => []PublishReachesAll
  <1>1. DeliveryInv => PublishReachesAll
    BY DEF DeliveryInv, Delivery, PublishReachesAll
  <1> QED
    BY <1>1, DeliveryInvariant, PTL

\* The count taken under ps.mu and written after it is the one that holds when
\* the calls of a connection have not overlapped.
THEOREM AcksAreCurrent == Spec => []AckTellsCount
  <1>1. AcksInv => AckTellsCount
    <2> SUFFICES ASSUME AcksInv, NEW c \in Conns \ overlap, c \notin Busy \cup broken
                 PROVE  Told(c)
      BY DEF AckTellsCount, LastAckTellsCount, Settled, Told
    <2>1. \A p \in Callers : ~Acknowledging(p, c)
      BY DEF Busy, Acknowledging
    <2> QED
      BY <2>1 DEF AcksInv, Counted
  <1> QED
    BY <1>1, AcksInvariant, PTL
=============================================================================
