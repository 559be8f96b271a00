--------------------------------- MODULE Reader ---------------------------------
(***************************************************************************)
(* protocol.Reader of internal/protocol/parser.go on a connection: the peer *)
(* sends messages one after the other, the network hands their bytes over   *)
(* in pieces of any size, and each call of Read parses what is buffered     *)
(* from the start, reads more while that is not a whole value, copies the   *)
(* value out and moves the rest of the buffer to the front.                 *)
(***************************************************************************)
EXTENDS Resp

CONSTANTS
  Messages,     \* what the peer may send: [units, meaning], see Scalar, Array and Raw
  MaxMessages,  \* bound: how many of them
  Chunk         \* defaultReadBufferSize: the most one read of the socket returns

ASSUME ReaderAssumption == MaxMessages \in Nat /\ Chunk \in Nat \ {0}

VARIABLES
  sent,      \* history: the messages the peer has sent
  stream,    \* bytes on their way
  buf,       \* r.buf
  read,      \* program counter of Read
  returned   \* history: the values Read has returned

vars == <<sent, stream, buf, read, returned>>

Init == sent = <<>> /\ stream = <<>> /\ buf = <<>> /\ read = "idle" /\ returned = <<>>

\* The peer.
Send(m) ==
  /\ Len(sent) < MaxMessages
  /\ sent' = Append(sent, m)
  /\ stream' = stream \o m.units
  /\ UNCHANGED <<buf, read, returned>>

\* Read is called again after it has returned a value; an error ends the session.
ReadCall ==
  /\ read = "idle"
  /\ read' = "parse"
  /\ UNCHANGED <<sent, stream, buf, returned>>

\* Slip: one unit too many is dropped with the value.
ReadReturnsLong ==
  LET first == ParseOne(buf) IN
  /\ read = "parse" /\ first.ok
  /\ returned' = Append(returned, first.value)
  /\ buf' = SubSeq(buf, first.pos + 1, Len(buf))
  /\ read' = "idle"
  /\ UNCHANGED <<sent, stream>>

\* copyValueIntoScope, then compact.
ReadReturns ==
  LET first == ParseOne(buf) IN
  /\ read = "parse" /\ first.ok
  /\ returned' = Append(returned, first.value)
  /\ buf' = SubSeq(buf, first.pos, Len(buf))
  /\ read' = "idle"
  /\ UNCHANGED <<sent, stream>>

ReadNeedsMore ==
  /\ read = "parse" /\ ~ParseOne(buf).ok
  /\ read' = "fill"
  /\ UNCHANGED <<sent, stream, buf, returned>>

\* src.Read: some of what has arrived, at most a chunk.
Fill ==
  /\ read = "fill" /\ stream # <<>>
  /\ \E n \in 1..Chunk :
       /\ n <= Len(stream)
       /\ buf' = buf \o SubSeq(stream, 1, n)
       /\ stream' = SubSeq(stream, n + 1, Len(stream))
  /\ read' = "parse"
  /\ UNCHANGED <<sent, returned>>

\* src.Read: a deadline or a broken connection.
FillFails ==
  /\ read = "fill"
  /\ read' = "failed"
  /\ UNCHANGED <<sent, stream, buf, returned>>

Read == ReadCall \/ ReadReturns \/ ReadNeedsMore \/ Fill

\* The peer has nothing more to send and the reader waits, or has failed.
Quiescent ==
  /\ Len(sent) = MaxMessages /\ (read = "failed" \/ (read = "fill" /\ stream = <<>>))
  /\ UNCHANGED vars

Next == (\E m \in Messages : Send(m)) \/ Read \/ FillFails \/ Quiescent

Spec == Init /\ [][Next]_vars

-----------------------------------------------------------------------------
(* Properties                                                              *)

\* What Writer encodes, cut into pieces anywhere and with other values before
\* and behind it in the buffer, Reader gives back, once and in order.
ReturnsWhatWasSent ==
  /\ Len(returned) <= Len(sent)
  /\ \A i \in DOMAIN returned : returned[i] = sent[i].meaning

\* No byte is lost or kept: buffer and network together hold exactly the
\* messages not yet returned, so each call of Read starts at a message.
NothingLostNothingKept ==
  buf \o stream =
    FlattenSeq([i \in 1..(Len(sent) - Len(returned)) |-> sent[Len(returned) + i].units])

\* Read asks the network for more only when what is buffered is less than the
\* next message, so that no reply waits for the client to send another request.
WaitsOnlyForTheRest ==
  read = "fill" /\ Len(returned) < Len(sent) =>
    Len(buf) < Len(sent[Len(returned) + 1].units)

-----------------------------------------------------------------------------
(* What documents and comments say and the code does not do                *)

\* "Null array: *-1\r\n" is a value: Read does not wait for the rest of it.
NullArrayIsAValue ==
  read = "fill" => ~(Len(buf) >= 2 /\ buf[1] = Number("*", -1) /\ buf[2] = CRLF)

\* A protocol error is answered: Read does not wait for more after a whole line
\* that announces a number and has none.
ProtocolErrorsAreReported ==
  read = "fill" => LET end == FindCRLF(buf, 1) IN
    ~(end > 0 /\ buf[1].tag \in {"*", "$", ":"} /\ ~IsNumber(1, end))

\* CommandArgs returns every element after the first: its text is the number's.
IntegerArgsAreKept ==
  \A k \in DOMAIN returned : returned[k].type = "array" =>
    \A i \in 2..Len(returned[k].array) :
      LET elem == returned[k].array[i] IN
      elem.type = "integer" =>
        CommandArgs(returned[k])[i - 1] =
          Bulk(IF elem.int < 0 THEN <<Minus, Digits(-elem.int)>> ELSE <<Digits(elem.int)>>)
=============================================================================
