---------------------------- MODULE CommandsProofs ----------------------------
(***************************************************************************)
(* What Reader returns of a stream that is cut anywhere; what a lookup in   *)
(* Registry finds, for every set of names, factories and workers, any       *)
(* number of registrations and any interleaving of the two lock sections    *)
(* of each lookup with them; and how a request is answered on its way       *)
(* through Commands.                                                       *)
(***************************************************************************)
EXTENDS Commands, ParserProofs

-----------------------------------------------------------------------------
(* Reader                                                                  *)

\* The messages on their way, and their bytes.
Pending == [i \in 1..(Len(sent) - Len(returned)) |-> sent[Len(returned) + i].units]

TypeInv ==
  /\ sent \in Seq(Messages)
  /\ returned \in Seq({m.meaning : m \in Messages})
  /\ stream \in Bytes /\ buf \in Bytes
  /\ read \in {"idle", "parse", "fill", "failed"}

ReaderInv ==
  /\ TypeInv
  /\ ReturnsWhatWasSent
  /\ buf \o stream = FlattenSeq(Pending)
  /\ WaitsOnlyForTheRest

\* What is on its way are byte strings, as many as messages.
LEMMA PendingIs ==
  ASSUME Readable(Messages), TypeInv, Len(returned) <= Len(sent)
  PROVE  /\ Pending \in Seq(Bytes) /\ Len(Pending) = Len(sent) - Len(returned)
         /\ Len(sent) \in Nat /\ Len(returned) \in Nat
         /\ \A i \in 1..(Len(sent) - Len(returned)) :
              /\ Len(returned) + i \in 1..Len(sent)
              /\ Pending[i] = sent[Len(returned) + i].units
              /\ ReadsAs(sent[Len(returned) + i].units, sent[Len(returned) + i].meaning)
  <1>1. Len(sent) \in Nat /\ Len(returned) \in Nat /\ \A i \in 1..Len(sent) : sent[i] \in Messages
    BY DEF TypeInv
  <1>2. PICK n \in Nat : n = Len(sent) - Len(returned)
    BY <1>1
  <1>3. ASSUME NEW i \in 1..n
        PROVE  /\ Len(returned) + i \in 1..Len(sent)
               /\ ReadsAs(sent[Len(returned) + i].units, sent[Len(returned) + i].meaning)
               /\ sent[Len(returned) + i].units \in Bytes
    <2>1. Len(returned) + i \in 1..Len(sent)
      BY <1>1, <1>2
    <2>2. sent[Len(returned) + i] \in Messages
      BY <1>1, <2>1
    <2>3. ReadsAs(sent[Len(returned) + i].units, sent[Len(returned) + i].meaning)
      BY <2>2 DEF Readable
    <2> QED
      BY <2>1, <2>3 DEF ReadsAs
  <1>4. Pending = [i \in 1..n |-> sent[Len(returned) + i].units]
    BY <1>2 DEF Pending
  <1>5. Pending \in Seq(Bytes) /\ Len(Pending) = n
    <2>1. \A i \in 1..n : Pending[i] = sent[Len(returned) + i].units
      BY <1>4
    <2>2. Pending = [i \in 1..n |-> Pending[i]]
      BY <1>4
    <2>3. \A i \in 1..n : Pending[i] \in Bytes
      BY <1>3, <2>1
    <2> HIDE DEF Pending
    <2> QED
      BY <2>2, <2>3
  <1> QED
    BY <1>1, <1>2, <1>3, <1>4, <1>5

\* With nothing on its way there is nothing in the buffer.
LEMMA NothingPending ==
  ASSUME Readable(Messages), ReaderInv, Len(returned) = Len(sent)
  PROVE  buf = <<>>
  <1>1. Pending \in Seq(Bytes) /\ Len(Pending) = 0
    BY PendingIs DEF ReaderInv, ReturnsWhatWasSent
  <1>2. FlattenSeq(Pending) = <<>>
    BY <1>1 DEF FlattenSeq
  <1>3. buf \o stream = <<>> /\ buf \in Bytes /\ stream \in Bytes
    BY <1>2 DEF ReaderInv, TypeInv
  <1> QED
    BY <1>3, ConcatEqualIffEmpty DEF Bytes

\* Otherwise the buffer begins with the next message, as far as it goes: the parser
\* gives what it means or asks for more.
LEMMA NextMessage ==
  ASSUME Readable(Messages), ReaderInv, Len(returned) < Len(sent)
  PROVE  LET m == sent[Len(returned) + 1] IN
         /\ m \in Messages /\ m.units \in Bytes /\ Len(m.units) \in Nat \ {0}
         /\ buf \o stream = m.units \o FlattenSeq(Tail(Pending)) /\ Begins(buf, 1, m.units)
         /\ Len(m.units) <= Len(buf) => ParseOne(buf) = Parsed(m.meaning, Len(m.units) + 1)
         /\ Len(buf) < Len(m.units) => ~ParseOne(buf).ok
  <1>0. PICK m : m = sent[Len(returned) + 1]
    OBVIOUS
  <1>1. /\ Pending \in Seq(Bytes) /\ Len(Pending) \in Nat \ {0}
        /\ Pending[1] = m.units /\ ReadsAs(m.units, m.meaning) /\ m \in Messages
        /\ buf \in Bytes /\ stream \in Bytes
    <2>1. Len(returned) <= Len(sent) /\ TypeInv
      BY DEF ReaderInv, ReturnsWhatWasSent
    <2>2. /\ Pending \in Seq(Bytes) /\ Len(Pending) = Len(sent) - Len(returned)
          /\ Len(sent) \in Nat /\ Len(returned) \in Nat
      BY <2>1, PendingIs
    <2>3. 1 \in 1..(Len(sent) - Len(returned))
      BY <2>2
    <2>4. /\ Len(returned) + 1 \in 1..Len(sent) /\ Pending[1] = m.units
          /\ ReadsAs(m.units, m.meaning)
      BY <1>0, <2>1, <2>3, PendingIs
    <2>5. m \in Messages
      BY <1>0, <2>1, <2>4 DEF TypeInv
    <2> QED
      BY <2>1, <2>2, <2>4, <2>5 DEF TypeInv
  <1>2. PICK u \in Bytes : u = m.units /\ u # <<>>
    BY <1>1 DEF ReadsAs
  <1>3. PICK rest \in Bytes : rest = FlattenSeq(Tail(Pending))
    <2>1. Tail(Pending) \in Seq(Bytes)
      BY <1>1
    <2> QED
      BY <2>1, FlattenIsBytes
  <1>4. buf \o stream = u \o rest
    <2>1. Pending # <<>>
      BY <1>1
    <2>2. FlattenSeq(Pending) = u \o rest
      BY <1>1, <1>2, <1>3, <2>1, FlattenHead
    <2> QED
      BY <2>2 DEF ReaderInv
  <1>5. /\ Len(u) \in Nat \ {0} /\ Len(buf) \in Nat /\ Len(stream) \in Nat /\ Len(rest) \in Nat
    BY <1>1, <1>2 DEF Bytes
  <1>6. Begins(buf, 1, u)
    <2>1. /\ Len(buf \o stream) = Len(buf) + Len(stream) /\ Len(u \o rest) = Len(u) + Len(rest)
          /\ \A i \in 1..(Len(buf) + Len(stream)) : i <= Len(buf) => (buf \o stream)[i] = buf[i]
          /\ \A i \in 1..(Len(u) + Len(rest)) : i <= Len(u) => (u \o rest)[i] = u[i]
      BY <1>1, <1>2, <1>3, ConcatProperties DEF Bytes
    <2>2. ASSUME NEW i \in 1..Len(u), i <= Len(buf) PROVE buf[i] = u[i]
      <3>1. i \in 1..(Len(buf) + Len(stream)) /\ i \in 1..(Len(u) + Len(rest)) /\ i <= Len(u)
        BY <1>5, <2>2
      <3>2. (buf \o stream)[i] = buf[i] /\ (u \o rest)[i] = u[i]
        BY <2>1, <2>2, <3>1
      <3> QED
        BY <1>4, <3>2
    <2>3. \A i \in 1..Len(u) : 1 + i - 1 = i
      BY <1>5
    <2> QED
      BY <2>2, <2>3 DEF Begins
  <1>7. IF 1 + Len(u) <= Len(buf) + 1 THEN ParseOne(buf) = Parsed(m.meaning, 1 + Len(u))
        ELSE ~ParseOne(buf).ok
    <2>1. 1 \in 1..(Len(buf) + 1)
      BY <1>5
    <2> QED
      BY <1>1, <1>2, <1>6, <2>1 DEF ReadsAs, ParseOne
  <1>8. /\ Len(u) <= Len(buf) => ParseOne(buf) = Parsed(m.meaning, Len(u) + 1)
        /\ Len(buf) < Len(u) => ~ParseOne(buf).ok
    <2>1. 1 + Len(u) = Len(u) + 1 /\ (1 + Len(u) <= Len(buf) + 1 <=> Len(u) <= Len(buf))
          /\ (Len(buf) < Len(u) <=> ~(Len(u) <= Len(buf)))
      BY <1>5
    <2> QED
      BY <1>7, <2>1
  <1> QED
    BY <1>0, <1>1, <1>2, <1>3, <1>4, <1>5, <1>6, <1>8

\* An empty buffer holds no value.
LEMMA EmptyIsIncomplete == ~ParseOne(<<>>).ok
  <1> DEFINE b == <<>>
  <1>1. b \in Bytes /\ Len(b) = 0 /\ 1 \in 1..(Len(b) + 1)
    BY DEF Bytes
  <1> HIDE DEF b
  <1>2. FindCRLF(b, 1) = 0
    BY <1>1, FindCRLFNone
  <1>3. ~ParseNext(b, 1).ok
    BY <1>1, <1>2, CutLineIsIncomplete
  <1> QED
    BY <1>3 DEF b, ParseOne

\* Another message on its way: the reader sees it at the end.
LEMMA SendStep ==
  ASSUME Readable(Messages), ReaderInv, NEW m \in Messages, Send(m)
  PROVE  ReaderInv'
  <1>1. /\ sent' = Append(sent, m) /\ stream' = stream \o m.units
        /\ buf' = buf /\ read' = read /\ returned' = returned
    BY DEF Send
  <1>2. /\ sent \in Seq(Messages) /\ Len(sent) \in Nat /\ Len(returned) \in Nat /\ Len(returned) <= Len(sent)
        /\ buf \in Bytes /\ stream \in Bytes /\ TypeInv
    BY PendingIs DEF ReaderInv, TypeInv, ReturnsWhatWasSent
  <1>3. m.units \in Bytes /\ m.units # <<>> /\ Len(m.units) \in Nat \ {0}
    BY DEF Readable, ReadsAs, Bytes
  <1>4. /\ sent' \in Seq(Messages) /\ Len(sent') = Len(sent) + 1 /\ sent'[Len(sent) + 1] = m
        /\ \A i \in 1..Len(sent) : sent'[i] = sent[i]
    BY <1>1, <1>2
  <1>5. TypeInv'
    BY <1>1, <1>2, <1>3, <1>4, ConcatBytes DEF TypeInv
  <1>6. ReturnsWhatWasSent'
    <2>1. \A i \in DOMAIN returned : i \in 1..Len(sent) /\ returned[i] = sent[i].meaning
      BY <1>2 DEF ReaderInv, ReturnsWhatWasSent, TypeInv
    <2> QED
      BY <1>1, <1>2, <1>4, <2>1 DEF ReturnsWhatWasSent
  <1>7. buf' \o stream' = FlattenSeq(Pending)'
    <2>1. /\ Pending \in Seq(Bytes) /\ Len(Pending) = Len(sent) - Len(returned)
          /\ \A i \in 1..(Len(sent) - Len(returned)) :
               Len(returned) + i \in 1..Len(sent) /\ Pending[i] = sent[Len(returned) + i].units
      BY <1>2, PendingIs
    <2>2. PICK n \in Nat : n = Len(sent) - Len(returned)
      BY <1>2
    <2>3. /\ Pending' \in Seq(Bytes) /\ Len(Pending') = n + 1
          /\ \A i \in 1..(n + 1) : Pending'[i] = sent'[Len(returned) + i].units
      <3>1. Readable(Messages)' /\ TypeInv' /\ (Len(returned) <= Len(sent))'
        BY <1>1, <1>2, <1>4, <1>5 DEF Readable
      <3>2. (Len(sent) - Len(returned))' = n + 1
        BY <1>1, <1>2, <1>4, <2>2
      <3>3. Pending' = [i \in 1..(n + 1) |-> sent'[Len(returned) + i].units]
        BY <1>1, <3>2 DEF Pending
      <3>4. ASSUME NEW i \in 1..(n + 1) PROVE sent'[Len(returned) + i].units \in Bytes
        <4>1. Len(returned) + i \in 1..Len(sent')
          BY <1>2, <1>4, <2>2
        <4>2. sent'[Len(returned) + i] \in Messages
          BY <1>4, <4>1
        <4> QED
          BY <4>2 DEF Readable, ReadsAs
      <3>5. \A i \in 1..(n + 1) : Pending'[i] = sent'[Len(returned) + i].units
        BY <3>3
      <3>6. Pending' = [i \in 1..(n + 1) |-> Pending'[i]] /\ \A i \in 1..(n + 1) : Pending'[i] \in Bytes
        BY <3>3, <3>4, <3>5
      <3> QED
        BY <3>5, <3>6
    <2>a. PICK old \in Seq(Bytes) : old = Pending
      BY <2>1
    <2>b. PICK new \in Seq(Bytes) : new = Pending'
      BY <2>3
    <2>4. new = Append(old, m.units)
      <3>1. Len(old) = n /\ Len(new) = n + 1
        BY <2>1, <2>2, <2>3, <2>a, <2>b
      <3>2. ASSUME NEW i \in 1..n PROVE new[i] = old[i]
        <4>1. i \in 1..(n + 1) /\ i \in 1..(Len(sent) - Len(returned))
          BY <2>2
        <4>2. Len(returned) + i \in 1..Len(sent) /\ old[i] = sent[Len(returned) + i].units
          BY <2>1, <2>a, <4>1
        <4>3. new[i] = sent'[Len(returned) + i].units
          BY <2>3, <2>b, <4>1
        <4> QED
          BY <1>4, <4>2, <4>3
      <3>3. new[n + 1] = m.units
        <4>1. Len(returned) + (n + 1) = Len(sent) + 1 /\ n + 1 \in 1..(n + 1)
          BY <1>2, <2>2
        <4> QED
          BY <1>4, <2>3, <2>b, <4>1
      <3>4. /\ Append(old, m.units) \in Seq(Bytes) /\ Len(Append(old, m.units)) = n + 1
            /\ \A i \in 1..n : Append(old, m.units)[i] = old[i]
            /\ Append(old, m.units)[n + 1] = m.units
        BY <1>3, <3>1
      <3>5. \A i \in 1..(n + 1) : new[i] = Append(old, m.units)[i]
        <4>1. \A i \in 1..(n + 1) : i \in 1..n \/ i = n + 1
          OBVIOUS
        <4> QED
          BY <3>2, <3>3, <3>4, <4>1
      <3> QED
        BY <3>1, <3>4, <3>5, SeqEqual
    <2>5. FlattenSeq(new) = FlattenSeq(old) \o m.units
      BY <1>3, <2>4, FlattenAppend
    <2>6. buf \o stream = FlattenSeq(old)
      BY <2>a DEF ReaderInv
    <2>7. buf \o (stream \o m.units) = (buf \o stream) \o m.units
      BY <1>2, <1>3, ConcatBytes
    <2>8. buf' \o stream' = FlattenSeq(new)
      BY <1>1, <2>5, <2>6, <2>7
    <2> QED
      BY <2>8, <2>b
  <1>8. WaitsOnlyForTheRest'
    <2> SUFFICES ASSUME read = "fill"
                 PROVE  Len(buf) < Len(sent'[Len(returned) + 1].units)
      BY <1>1 DEF WaitsOnlyForTheRest
    <2>1. CASE Len(returned) < Len(sent)
      <3>1. Len(returned) + 1 \in 1..Len(sent)
        BY <1>2, <2>1
      <3>2. Len(buf) < Len(sent[Len(returned) + 1].units)
        BY <2>1 DEF ReaderInv, WaitsOnlyForTheRest
      <3> QED
        BY <1>4, <3>1, <3>2
    <2>2. CASE Len(returned) = Len(sent)
      <3>1. buf = <<>>
        BY <2>2, NothingPending
      <3>2. Len(buf) = 0
        BY <3>1
      <3> QED
        BY <1>3, <1>4, <2>2, <3>2
    <2> QED
      BY <1>2, <2>1, <2>2
  <1> QED
    BY <1>5, <1>6, <1>7, <1>8 DEF ReaderInv

\* A value is copied out and the buffer compacted: it was the next message, and its
\* bytes are gone.
LEMMA ReturnStep ==
  ASSUME Readable(Messages), ReaderInv, ReadReturns
  PROVE  ReaderInv'
  <1>1. /\ ParseOne(buf).ok /\ read' = "idle" /\ sent' = sent /\ stream' = stream
        /\ returned' = Append(returned, ParseOne(buf).value)
        /\ buf' = SubSeq(buf, ParseOne(buf).pos, Len(buf))
    BY DEF ReadReturns
  <1>2. /\ sent \in Seq(Messages) /\ Len(sent) \in Nat /\ Len(returned) \in Nat /\ Len(returned) <= Len(sent)
        /\ buf \in Bytes /\ stream \in Bytes /\ TypeInv /\ Len(buf) \in Nat
        /\ returned \in Seq({m.meaning : m \in Messages})
    BY PendingIs DEF ReaderInv, TypeInv, ReturnsWhatWasSent, Bytes
  <1>3. Len(returned) < Len(sent)
    <2> SUFFICES ASSUME Len(returned) = Len(sent) PROVE FALSE
      BY <1>2
    <2> QED
      BY <1>1, NothingPending, EmptyIsIncomplete
  <1>4. PICK m \in Messages : m = sent[Len(returned) + 1]
    BY <1>3, NextMessage
  <1>5. PICK u \in Bytes : u = m.units
    BY <1>3, <1>4, NextMessage
  <1>6. /\ buf \o stream = u \o FlattenSeq(Tail(Pending)) /\ Begins(buf, 1, u) /\ Len(u) \in Nat \ {0}
        /\ Len(u) <= Len(buf) => ParseOne(buf) = Parsed(m.meaning, Len(u) + 1)
        /\ Len(buf) < Len(u) => ~ParseOne(buf).ok
    BY <1>3, <1>4, <1>5, NextMessage
  <1>7. Len(u) <= Len(buf) /\ ParseOne(buf).value = m.meaning /\ ParseOne(buf).pos = Len(u) + 1
    <2>1. Len(u) <= Len(buf)
      BY <1>1, <1>2, <1>6
    <2> QED
      BY <1>6, <2>1 DEF Parsed
  <1>8. PICK size \in Nat \ {0} : size = Len(u)
    BY <1>6
  <1>9. returned' = Append(returned, m.meaning) /\ buf' = SubSeq(buf, size + 1, Len(buf))
    BY <1>1, <1>7, <1>8
  <1>10. /\ returned' \in Seq({k.meaning : k \in Messages}) /\ Len(returned') = Len(returned) + 1
         /\ returned'[Len(returned) + 1] = m.meaning
         /\ \A i \in 1..Len(returned) : returned'[i] = returned[i]
    BY <1>2, <1>9
  <1>11. buf = u \o buf' /\ buf' \in Bytes
    <2>1. SubSeq(buf, 1, size) = u
      BY <1>2, <1>6, <1>7, <1>8, PieceIs
    <2>2. SubSeq(buf, 1, size) \o SubSeq(buf, size + 1, Len(buf)) = SubSeq(buf, 1, Len(buf))
      <3>1. 1 \in 1..(Len(buf) + 1) /\ size \in (1 - 1)..Len(buf) /\ Len(buf) \in size..Len(buf)
        BY <1>2, <1>7, <1>8
      <3> QED
        BY <1>2, <3>1, ConcatAdjacentSubSeq DEF Bytes
    <2>3. SubSeq(buf, 1, Len(buf)) = buf
      BY <1>2, SubSeqFull DEF Bytes
    <2>4. SubSeq(buf, size + 1, Len(buf)) \in Bytes
      <3>1. \A i \in (size + 1)..Len(buf) : buf[i] \in AnyUnit
        BY <1>2 DEF Bytes
      <3>2. size + 1 \in Int /\ Len(buf) \in Int
        BY <1>2
      <3> QED
        BY <3>1, <3>2, SubSeqProperties DEF Bytes
    <2> QED
      BY <1>9, <2>1, <2>2, <2>3, <2>4
  <1>12. TypeInv'
    BY <1>1, <1>2, <1>10, <1>11 DEF TypeInv
  <1>13. ReturnsWhatWasSent'
    <2>1. \A i \in DOMAIN returned' : i \in 1..Len(returned) \/ i = Len(returned) + 1
      BY <1>2, <1>10
    <2>2. \A i \in 1..Len(returned) : returned[i] = sent[i].meaning
      BY <1>2 DEF ReaderInv, ReturnsWhatWasSent
    <2>3. Len(returned') <= Len(sent')
      BY <1>1, <1>2, <1>3, <1>10
    <2> QED
      BY <1>1, <1>4, <1>10, <2>1, <2>2, <2>3 DEF ReturnsWhatWasSent
  <1>14. PICK old \in Seq(Bytes) : old = Pending /\ Len(old) = Len(sent) - Len(returned)
    BY <1>2, PendingIs
  <1>15. Pending' = Tail(old)
    <2>1. PICK n \in Nat : n + 1 = Len(sent) - Len(returned)
      <3>1. PICK k \in Nat, l \in Nat : k = Len(sent) /\ l = Len(returned)
        BY <1>2
      <3>2. k - l - 1 \in Nat /\ (k - l - 1) + 1 = k - l
        BY <1>3, <3>1
      <3> QED
        BY <3>1, <3>2
    <2>2. (Len(sent) - Len(returned))' = n /\ Len(returned') = Len(returned) + 1
      BY <1>1, <1>2, <1>10, <2>1
    <2>3. Pending' = [i \in 1..n |-> sent[(Len(returned) + 1) + i].units]
      BY <1>1, <2>2 DEF Pending
    <2>4. old # <<>> /\ Len(old) = n + 1
      BY <1>14, <2>1
    <2>5. Tail(old) \in Seq(Bytes) /\ Len(Tail(old)) = n /\ \A i \in 1..n : Tail(old)[i] = old[i + 1]
      BY <2>4
    <2>6. ASSUME NEW i \in 1..n PROVE Pending'[i] = Tail(old)[i]
      <3>1. i + 1 \in 1..(Len(sent) - Len(returned)) /\ Len(returned) + (i + 1) = (Len(returned) + 1) + i
        BY <1>2, <2>1
      <3>2. Pending[i + 1] = sent[Len(returned) + (i + 1)].units
        BY <3>1 DEF Pending
      <3>3. Pending'[i] = sent[(Len(returned) + 1) + i].units
        BY <2>3
      <3> QED
        BY <1>14, <2>5, <3>1, <3>2, <3>3
    <2>7. PICK new : new = Pending'
      OBVIOUS
    <2>8. PICK tail \in Seq(Bytes) : tail = Tail(old) /\ Len(tail) = n
      BY <2>5
    <2>9. new = [i \in 1..n |-> new[i]]
      BY <2>3, <2>7
    <2>10. tail = [i \in 1..n |-> tail[i]]
      <3>1. tail \in [1..Len(tail) -> Bytes]
        BY <2>8, LenProperties
      <3> QED
        BY <2>8, <3>1
    <2>11. \A i \in 1..n : new[i] = tail[i]
      BY <2>6, <2>7, <2>8
    <2>12. new = tail
      BY <2>9, <2>10, <2>11
    <2> QED
      BY <2>7, <2>8, <2>12
  <1>16. buf' \o stream' = FlattenSeq(Pending)'
    <2>1. PICK rest \in Bytes : rest = FlattenSeq(Tail(old))
      <3>1. old # <<>>
        BY <1>2, <1>3, <1>14
      <3>2. Tail(old) \in Seq(Bytes)
        BY <3>1
      <3> QED
        BY <3>2, FlattenIsBytes
    <2>2. (u \o buf') \o stream = u \o rest
      BY <1>6, <1>11, <1>14, <2>1
    <2>3. u \o (buf' \o stream) = u \o rest /\ buf' \o stream \in Bytes
      BY ZenonT(60), <1>2, <1>11, <2>2, ConcatBytes
    <2>4. buf' \o stream = rest
      BY <2>3, ConcatSimplifications DEF Bytes
    <2> QED
      BY <1>1, <1>15, <2>1, <2>4
  <1>17. WaitsOnlyForTheRest'
    BY <1>1 DEF WaitsOnlyForTheRest
  <1> QED
    BY <1>12, <1>13, <1>16, <1>17 DEF ReaderInv

\* A read of the socket moves bytes from the network to the buffer.
LEMMA FillStep ==
  ASSUME ReaderInv, Fill
  PROVE  ReaderInv'
  <1>0. buf \in Bytes /\ stream \in Bytes /\ Len(stream) \in Nat
    BY DEF ReaderInv, TypeInv, Bytes
  <1>1. PICK n \in 1..Chunk : /\ n <= Len(stream)
                             /\ buf' = buf \o SubSeq(stream, 1, n)
                             /\ stream' = SubSeq(stream, n + 1, Len(stream))
    BY DEF Fill
  <1>2. read' = "parse" /\ sent' = sent /\ returned' = returned
    BY DEF Fill
  <1>3. PICK front \in Bytes : front = SubSeq(stream, 1, n)
    <2>1. \A i \in 1..n : stream[i] \in AnyUnit
      BY <1>0, <1>1, ReaderAssumption DEF Bytes
    <2>2. 1 \in Int /\ n \in Int
      BY ReaderAssumption
    <2> QED
      BY <2>1, <2>2, SubSeqProperties DEF Bytes
  <1>4. PICK back \in Bytes : back = SubSeq(stream, n + 1, Len(stream))
    <2>1. \A i \in (n + 1)..Len(stream) : stream[i] \in AnyUnit
      BY <1>0, <1>1, ReaderAssumption DEF Bytes
    <2>2. n + 1 \in Int /\ Len(stream) \in Int
      BY <1>0, ReaderAssumption
    <2> QED
      BY <2>1, <2>2, SubSeqProperties DEF Bytes
  <1>5. front \o back = stream
    <2>1. 1 \in 1..(Len(stream) + 1) /\ n \in (1 - 1)..Len(stream) /\ Len(stream) \in n..Len(stream)
      BY <1>0, <1>1, ReaderAssumption
    <2>2. front \o back = SubSeq(stream, 1, Len(stream))
      BY <1>0, <1>3, <1>4, <2>1, ConcatAdjacentSubSeq DEF Bytes
    <2> QED
      BY <1>0, <2>2, SubSeqFull DEF Bytes
  <1>6. buf' \in Bytes /\ stream' \in Bytes /\ buf' \o stream' = buf \o stream
    <2>1. (buf \o front) \o back = buf \o (front \o back) /\ buf \o front \in Bytes
      BY <1>0, ConcatBytes
    <2> QED
      BY <1>1, <1>3, <1>4, <1>5, <2>1
  <1>7. TypeInv'
    BY <1>2, <1>6 DEF ReaderInv, TypeInv
  <1>8. Pending' = Pending
    BY <1>2 DEF Pending
  <1>9. ReturnsWhatWasSent' /\ WaitsOnlyForTheRest'
    BY <1>2 DEF ReaderInv, ReturnsWhatWasSent, WaitsOnlyForTheRest
  <1>10. (buf \o stream = FlattenSeq(Pending))'
    <2>1. buf \o stream = FlattenSeq(Pending)
      BY DEF ReaderInv
    <2> QED
      BY <1>6, <1>8, <2>1
  <1> QED
    BY <1>7, <1>9, <1>10 DEF ReaderInv

\* A step that leaves the bytes and the histories alone.
LEMMA QuietStep ==
  ASSUME ReaderInv, UNCHANGED <<sent, stream, buf, returned>>,
         read' \in {"idle", "parse", "fill", "failed"}, WaitsOnlyForTheRest'
  PROVE  ReaderInv'
  <1>1. Pending' = Pending
    BY DEF Pending
  <1>2. (buf \o stream = FlattenSeq(Pending))'
    <2>1. buf \o stream = FlattenSeq(Pending)
      BY DEF ReaderInv
    <2> QED
      BY <1>1, <2>1
  <1> QED
    BY <1>2 DEF ReaderInv, TypeInv, ReturnsWhatWasSent

\* In every state buffer and network hold the messages that Read has not returned.
LEMMA ReaderInvariant ==
  ASSUME Readable(Messages)
  PROVE  Spec => []ReaderInv
  <1>1. Init => ReaderInv
    <2> SUFFICES ASSUME Init PROVE ReaderInv
      OBVIOUS
    <2>1. sent = <<>> /\ returned = <<>> /\ buf = <<>> /\ stream = <<>> /\ read = "idle"
      BY DEF Init
    <2>2. TypeInv
      BY <2>1 DEF TypeInv, Bytes
    <2>3. ReturnsWhatWasSent /\ WaitsOnlyForTheRest
      BY <2>1 DEF ReturnsWhatWasSent, WaitsOnlyForTheRest
    <2>4. Len(Pending) = 0 /\ Pending = <<>>
      BY <2>1 DEF Pending
    <2>5. FlattenSeq(Pending) = <<>>
      BY <2>4 DEF FlattenSeq
    <2>6. buf \o stream = <<>>
      BY <2>1
    <2> QED
      BY <2>2, <2>3, <2>5, <2>6 DEF ReaderInv
  <1>2. ReaderInv /\ [Next]_vars => ReaderInv'
    <2> SUFFICES ASSUME ReaderInv, [Next]_vars PROVE ReaderInv'
      OBVIOUS
    <2>1. CASE ReadCall
      BY <2>1, QuietStep DEF ReadCall, WaitsOnlyForTheRest
    <2>2. CASE ReadNeedsMore
      <3>1. UNCHANGED <<sent, stream, buf, returned>> /\ ~ParseOne(buf).ok /\ read' = "fill"
        BY <2>2 DEF ReadNeedsMore
      <3>2. WaitsOnlyForTheRest'
        <4> SUFFICES ASSUME Len(returned) < Len(sent)
                     PROVE  Len(buf) < Len(sent[Len(returned) + 1].units)
          BY <3>1 DEF WaitsOnlyForTheRest
        <4>1. PICK u : u = sent[Len(returned) + 1].units
          OBVIOUS
        <4>2. ~ParseOne(buf).ok
          BY <3>1
        <4>3. PICK value, after : Len(u) <= Len(buf) => ParseOne(buf) = Parsed(value, after)
          BY <4>1, NextMessage
        <4>4. u \in Bytes
          BY <4>1, NextMessage
        <4>5. \A v, n : Parsed(v, n).ok
          BY DEF Parsed
        <4>6. ~(Len(u) <= Len(buf))
          BY <4>2, <4>3, <4>5, Zenon
        <4>7. Len(u) \in Nat /\ Len(buf) \in Nat
          BY <4>4 DEF ReaderInv, TypeInv, Bytes
        <4>8. Len(buf) < Len(u)
          BY <4>6, <4>7
        <4> QED
          BY <4>1, <4>8, Zenon
      <3> QED
        BY <3>1, <3>2, QuietStep
    <2>3. CASE FillFails
      BY <2>3, QuietStep DEF FillFails, WaitsOnlyForTheRest
    <2>4. CASE Quiescent \/ UNCHANGED vars
      <3>1. UNCHANGED vars
        BY <2>4 DEF Quiescent
      <3> QED
        BY <3>1, QuietStep DEF vars, ReaderInv, TypeInv, WaitsOnlyForTheRest
    <2> QED
      BY <2>1, <2>2, <2>3, <2>4, SendStep, ReturnStep, FillStep DEF Next, Read
  <1> QED
    BY <1>1, <1>2, PTL DEF Spec

-----------------------------------------------------------------------------
(* Theorems                                                                *)

\* What Writer encodes, or a person types, Reader gives back as what it means, once
\* and in order: whatever the kinds, the lengths and the nesting of the messages,
\* and wherever the network cuts them.
THEOREM ReaderReturnsWhatWasSent ==
  ASSUME Messages \subseteq ProtocolMessages
  PROVE  Spec => []ReturnsWhatWasSent
  <1>1. Readable(Messages)
    BY ProtocolMessagesRead DEF Readable
  <1>2. ReaderInv => ReturnsWhatWasSent
    BY DEF ReaderInv
  <1> QED
    BY <1>1, <1>2, ReaderInvariant, PTL

\* The compaction of the buffer drops the bytes of the returned value and no others,
\* so that each call of Read starts at a message.
THEOREM ReaderLosesNothing ==
  ASSUME Messages \subseteq ProtocolMessages
  PROVE  Spec => []NothingLostNothingKept
  <1>1. Readable(Messages)
    BY ProtocolMessagesRead DEF Readable
  <1>2. ReaderInv => NothingLostNothingKept
    BY DEF ReaderInv, NothingLostNothingKept, Pending
  <1> QED
    BY <1>1, <1>2, ReaderInvariant, PTL

\* Read asks the network for more only when it needs the rest of a message, so no
\* reply waits for the client to send another request.
THEOREM ReaderWaitsOnlyForTheRest ==
  ASSUME Messages \subseteq ProtocolMessages
  PROVE  Spec => []WaitsOnlyForTheRest
  <1>1. Readable(Messages)
    BY ProtocolMessagesRead DEF Readable
  <1>2. ReaderInv => WaitsOnlyForTheRest
    BY DEF ReaderInv
  <1> QED
    BY <1>1, <1>2, ReaderInvariant, PTL

-----------------------------------------------------------------------------
(* Registry                                                                *)

Calls == [op : {"register", "notFound"}, name : Names \cup {<<>>}, factory : Factories]

Found == Factories \cup {None}

IsLookup(l) ==
  l.state \in {"idle", "missed", "found"} /\ l.found \in Found /\ l.from \in Nat /\ l.to \in Nat

RegistryTypeInv ==
  /\ made \in Seq(Calls)
  /\ \A key \in DOMAIN factories : factories[key] \in Factories
  /\ notFound \in Found
  /\ lookup = [w \in Workers |-> lookup[w]] /\ \A w \in Workers : IsLookup(lookup[w])

\* The map and the handler are what the calls made so far amount to.
Recorded ==
  /\ \A i \in 1..Len(made) : made[i].op = "register" => Lower(made[i].name) \in DOMAIN factories
  /\ \A key \in DOMAIN factories : Entry(Len(made), key, factories[key])
  /\ Handler(Len(made), notFound)

\* A lookup that has ended found the entry of its first section, or none there
\* and the handler of its second.
Explained(l) ==
  \/ Entry(l.from, Lower(l.name), l.found)
  \/ ~Registered(l.from, Lower(l.name)) /\ Handler(l.to, l.found)

IsAnswered(l) ==
  l.state # "idle" =>
    /\ l.from <= l.to /\ l.to <= Len(made)
    /\ l.state = "missed" => ~Registered(l.from, Lower(l.name))
    /\ l.state = "found"  => Explained(l)

Answered == \A w \in Workers : IsAnswered(lookup[w])

RegistryInv == RegistryTypeInv /\ Recorded /\ Answered

-----------------------------------------------------------------------------
\* A further call changes nothing about what the calls before it amount to.
LEMMA PastStays ==
  ASSUME NEW c \in Calls, made \in Seq(Calls), made' = Append(made, c)
  PROVE  /\ Len(made') = Len(made) + 1 /\ made'[Len(made) + 1] = c
         /\ \A i \in 1..Len(made) : made'[i] = made[i]
         /\ \A j \in 0..Len(made) :
              /\ \A key : Registered(j, key)' <=> Registered(j, key)
              /\ \A key, f : Entry(j, key, f)' <=> Entry(j, key, f)
              /\ \A f : Handler(j, f)' <=> Handler(j, f)
  <1>1. /\ Len(made) \in Nat /\ Len(made') = Len(made) + 1 /\ made'[Len(made) + 1] = c
        /\ \A i \in 1..Len(made) : made'[i] = made[i]
    OBVIOUS
  <1>2. ASSUME NEW j \in 0..Len(made), NEW i \in 1..j PROVE i \in 1..Len(made)
    BY <1>1
  <1>3. ASSUME NEW j \in 0..Len(made), NEW key PROVE Registered(j, key)' <=> Registered(j, key)
    BY <1>1, <1>2 DEF Registered, Registers
  <1>4. ASSUME NEW j \in 0..Len(made), NEW key, NEW f PROVE Entry(j, key, f)' <=> Entry(j, key, f)
    <2>1. \A i \in 1..j : \A k \in (i + 1)..j : k \in 1..Len(made)
      BY <1>1
    <2> QED
      BY <1>1, <1>2, <2>1 DEF Entry, Registers
  <1>5. ASSUME NEW j \in 0..Len(made), NEW f PROVE Handler(j, f)' <=> Handler(j, f)
    <2>1. \A i \in 1..j : \A k \in (i + 1)..j : k \in 1..Len(made)
      BY <1>1
    <2> QED
      BY <1>1, <1>2, <2>1 DEF Handler, Sets
  <1> QED
    BY <1>1, <1>3, <1>4, <1>5

\* Lookups that have begun are not affected by a call made meanwhile.
LEMMA AnsweredStays ==
  ASSUME RegistryTypeInv, Answered, NEW c \in Calls, made' = Append(made, c), lookup' = lookup
  PROVE  Answered'
  <1> SUFFICES ASSUME NEW w \in Workers, lookup[w].state # "idle"
               PROVE  /\ lookup[w].from <= lookup[w].to /\ lookup[w].to <= Len(made')
                      /\ lookup[w].state = "missed" => ~Registered(lookup[w].from, Lower(lookup[w].name))'
                      /\ lookup[w].state = "found" => Explained(lookup[w])'
    BY DEF Answered, IsAnswered
  <1>1. /\ lookup[w].from \in 0..Len(made) /\ lookup[w].to \in 0..Len(made)
        /\ lookup[w].from <= lookup[w].to /\ Len(made) \in Nat
    BY DEF RegistryTypeInv, Answered, IsAnswered, IsLookup
  <1>2. /\ Len(made') = Len(made) + 1
        /\ Registered(lookup[w].from, Lower(lookup[w].name))'
             <=> Registered(lookup[w].from, Lower(lookup[w].name))
        /\ Entry(lookup[w].from, Lower(lookup[w].name), lookup[w].found)'
             <=> Entry(lookup[w].from, Lower(lookup[w].name), lookup[w].found)
        /\ Handler(lookup[w].to, lookup[w].found)' <=> Handler(lookup[w].to, lookup[w].found)
    BY <1>1, PastStays DEF RegistryTypeInv
  <1> QED
    BY <1>1, <1>2 DEF Answered, IsAnswered, Explained

\* Registering a name makes its entry the last one and leaves the others.
LEMMA RegisterStep ==
  ASSUME RegistryInv, NEW name \in Names, NEW f \in Factories, Register(name, f)
  PROVE  RegistryInv'
  <1> DEFINE c == Call("register", name, f)
  <1>0. /\ made \in Seq(Calls) /\ Len(made) \in Nat /\ c \in Calls /\ made' = Append(made, c)
        /\ notFound' = notFound /\ lookup' = lookup
        /\ c.op = "register" /\ c.name = name /\ c.factory = f
    BY DEF RegistryInv, RegistryTypeInv, Register, Calls, Call
  <1>1. /\ DOMAIN factories' = DOMAIN factories \cup {Lower(name)}
        /\ factories'[Lower(name)] = f
        /\ \A key \in DOMAIN factories \ {Lower(name)} : factories'[key] = factories[key]
    BY DEF Register, Enter
  <1> HIDE DEF c
  <1>2. /\ Len(made') = Len(made) + 1 /\ made'[Len(made) + 1] = c
        /\ \A i \in 1..Len(made) : made'[i] = made[i]
        /\ made' \in Seq(Calls)
    BY <1>0
  <1>3. RegistryTypeInv'
    BY <1>0, <1>1, <1>2 DEF RegistryInv, RegistryTypeInv
  <1>4. \A i \in 1..Len(made') : made'[i].op = "register" => Lower(made'[i].name) \in DOMAIN factories'
    BY <1>0, <1>1, <1>2 DEF RegistryInv, Recorded
  <1>5. ASSUME NEW key \in DOMAIN factories' PROVE Entry(Len(made), key, factories[key])' \/ key = Lower(name)
    <2> SUFFICES ASSUME key # Lower(name) PROVE Entry(Len(made), key, factories[key])'
      OBVIOUS
    <2>1. key \in DOMAIN factories /\ factories'[key] = factories[key]
      BY <1>1
    <2>2. PICK i \in 1..Len(made) :
            /\ Registers(i, key) /\ made[i].factory = factories[key]
            /\ \A k \in (i + 1)..Len(made) : ~Registers(k, key)
      BY <2>1 DEF RegistryInv, Recorded, Entry
    <2>3. i \in 1..Len(made') /\ Registers(i, key)' /\ made'[i].factory = factories'[key]
      BY <1>0, <1>2, <2>1, <2>2 DEF Registers
    <2>4. ASSUME NEW k \in (i + 1)..Len(made') PROVE ~Registers(k, key)'
      <3>1. k \in (i + 1)..Len(made) \/ k = Len(made) + 1
        BY <1>0, <1>2
      <3>2. CASE k \in (i + 1)..Len(made)
        <4>1. k \in 1..Len(made)
          BY <1>0, <3>2
        <4> QED
          BY <1>2, <2>2, <3>2, <4>1 DEF Registers
      <3>3. CASE k = Len(made) + 1
        BY <1>0, <1>2, <3>3 DEF Registers
      <3> QED
        BY <3>1, <3>2, <3>3
    <2> QED
      BY <2>3, <2>4 DEF Entry
  <1>6. Entry(Len(made), Lower(name), factories[Lower(name)])'
    <2>0. PICK n \in Nat : n = Len(made) + 1
      BY <1>0
    <2>1. n \in 1..Len(made') /\ Registers(n, Lower(name))'
      BY <1>0, <1>2, <2>0 DEF Registers
    <2>2. made'[n].factory = factories'[Lower(name)]
      BY <1>0, <1>1, <1>2, <2>0
    <2>3. \A k \in (n + 1)..Len(made') : ~Registers(k, Lower(name))'
      BY <1>2, <2>0
    <2> QED
      BY <2>1, <2>2, <2>3 DEF Entry
  <1>7. Handler(Len(made), notFound)'
    <2>1. Handler(Len(made), notFound)
      BY DEF RegistryInv, Recorded
    <2>2. \A k \in 1..Len(made') : Sets(k)' <=> k \in 1..Len(made) /\ Sets(k)
      BY <1>0, <1>2 DEF Sets
    <2>3. \A i \in 1..Len(made) : i \in 1..Len(made') /\ made'[i].factory = made[i].factory
      BY <1>0, <1>2
    <2>4. ASSUME NEW i \in 1..Len(made), \A k \in (i + 1)..Len(made) : ~Sets(k)
          PROVE  \A k \in (i + 1)..Len(made') : ~Sets(k)'
      BY <1>0, <1>2, <2>2, <2>4
    <2> QED
      BY <1>0, <2>1, <2>2, <2>3, <2>4 DEF Handler
  <1>8. Answered'
    BY <1>0, AnsweredStays DEF RegistryInv
  <1> QED
    BY <1>3, <1>4, <1>5, <1>6, <1>7, <1>8 DEF RegistryInv, Recorded

\* Setting the handler makes it the last one and leaves the entries.
LEMMA SetNotFoundStep ==
  ASSUME RegistryInv, NEW f \in Factories, SetNotFound(f)
  PROVE  RegistryInv'
  <1> DEFINE c == Call("notFound", <<>>, f)
  <1>0. /\ made \in Seq(Calls) /\ Len(made) \in Nat /\ c \in Calls /\ made' = Append(made, c)
        /\ notFound' = f /\ lookup' = lookup /\ factories' = factories
        /\ c.op = "notFound" /\ c.factory = f
    BY DEF RegistryInv, RegistryTypeInv, SetNotFound, Calls, Call
  <1> HIDE DEF c
  <1>2. /\ Len(made') = Len(made) + 1 /\ made'[Len(made) + 1] = c
        /\ \A i \in 1..Len(made) : made'[i] = made[i]
        /\ made' \in Seq(Calls)
    BY <1>0
  <1>3. RegistryTypeInv'
    BY <1>0, <1>2 DEF RegistryInv, RegistryTypeInv, Found
  <1>4. \A i \in 1..Len(made') : made'[i].op = "register" => Lower(made'[i].name) \in DOMAIN factories'
    BY <1>0, <1>2 DEF RegistryInv, Recorded
  <1>5. ASSUME NEW key \in DOMAIN factories' PROVE Entry(Len(made), key, factories[key])'
    <2>1. PICK i \in 1..Len(made) :
            /\ Registers(i, key) /\ made[i].factory = factories[key]
            /\ \A k \in (i + 1)..Len(made) : ~Registers(k, key)
      BY <1>0 DEF RegistryInv, Recorded, Entry
    <2>2. i \in 1..Len(made') /\ Registers(i, key)' /\ made'[i].factory = factories'[key]
      BY <1>0, <1>2, <2>1 DEF Registers
    <2>3. ASSUME NEW k \in (i + 1)..Len(made') PROVE ~Registers(k, key)'
      <3>1. (k \in (i + 1)..Len(made) /\ k \in 1..Len(made)) \/ k = Len(made) + 1
        BY <1>0, <1>2
      <3> QED
        BY <1>0, <1>2, <2>1, <3>1 DEF Registers
    <2> QED
      BY <2>2, <2>3 DEF Entry
  <1>6. Handler(Len(made), notFound)'
    <2>0. PICK n \in Nat : n = Len(made) + 1
      BY <1>0
    <2>1. n \in 1..Len(made') /\ Sets(n)' /\ made'[n].factory = notFound'
      BY <1>0, <1>2, <2>0 DEF Sets
    <2>2. \A k \in (n + 1)..Len(made') : ~Sets(k)'
      BY <1>2, <2>0
    <2> QED
      BY <2>1, <2>2 DEF Handler
  <1>7. Answered'
    BY <1>0, AnsweredStays DEF RegistryInv
  <1> QED
    BY <1>3, <1>4, <1>5, <1>6, <1>7 DEF RegistryInv, Recorded

\* A step of one worker's lookup that leaves it explained.
LEMMA LookupStep ==
  ASSUME RegistryInv, UNCHANGED registry, NEW w \in Workers, NEW l, IsLookup(l),
         lookup' = [lookup EXCEPT ![w] = l],
         IsAnswered(l)
  PROVE  RegistryInv'
  <1>1. RegistryTypeInv' /\ Recorded'
    BY DEF RegistryInv, RegistryTypeInv, Recorded, registry, Entry, Registers, Handler, Sets
  <1>2. \A v \in Workers : lookup'[v] = IF v = w THEN l ELSE lookup[v]
    BY DEF RegistryInv, RegistryTypeInv
  <1>3. made' = made
    BY DEF registry
  <1>4. Answered'
    BY <1>2, <1>3 DEF RegistryInv, Answered, IsAnswered, Explained, Registered, Registers, Entry, Handler, Sets
  <1> QED
    BY <1>1, <1>4 DEF RegistryInv

\* A section of a lookup under the read lock.
LEMMA LookupSection ==
  ASSUME RegistryInv, NEW w \in Workers, NEW name, Lookup(w, name)
  PROVE  RegistryInv'
  <1>0. made \in Seq(Calls) /\ Len(made) \in Nat
    BY DEF RegistryInv, RegistryTypeInv
  <1>1. CASE Lower(name) \in DOMAIN factories
    <2>0. PICK l : l = Looking("found", name, factories[Lower(name)], Len(made), Len(made))
      OBVIOUS
    <2>1. UNCHANGED registry /\ lookup' = [lookup EXCEPT ![w] = l]
      BY <1>1, <2>0 DEF Lookup
    <2>2. /\ l.state = "found" /\ l.from = Len(made) /\ l.to = Len(made)
          /\ l.name = name /\ l.found = factories[Lower(name)]
      BY <2>0 DEF Looking
    <2>3. IsLookup(l)
      BY <1>0, <1>1, <2>2 DEF IsLookup, Found, RegistryInv, RegistryTypeInv
    <2>4. Entry(Len(made), Lower(name), factories[Lower(name)])
      BY <1>1 DEF RegistryInv, Recorded
    <2>5. IsAnswered(l)
      BY <1>0, <2>2, <2>4 DEF IsAnswered, Explained
    <2> QED
      BY <2>1, <2>3, <2>5, LookupStep
  <1>2. CASE Lower(name) \notin DOMAIN factories
    <2>0. PICK l : l = Looking("missed", name, None, Len(made), Len(made))
      OBVIOUS
    <2>1. UNCHANGED registry /\ lookup' = [lookup EXCEPT ![w] = l]
      BY <1>2, <2>0 DEF Lookup
    <2>2. /\ l.state = "missed" /\ l.from = Len(made) /\ l.to = Len(made)
          /\ l.name = name /\ l.found = None
      BY <2>0 DEF Looking
    <2>3. IsLookup(l)
      BY <1>0, <2>2 DEF IsLookup, Found
    <2>4. ~Registered(Len(made), Lower(name))
      BY <1>2 DEF RegistryInv, Recorded, Registered, Registers
    <2>5. IsAnswered(l)
      BY <1>0, <2>2, <2>4 DEF IsAnswered
    <2> QED
      BY <2>1, <2>3, <2>5, LookupStep
  <1> QED
    BY <1>1, <1>2

\* The second section, and the end of the lookup.
LEMMA LookupEnds ==
  ASSUME RegistryInv, NEW w \in Workers, LookupNotFound(w) \/ LookupUsed(w)
  PROVE  RegistryInv'
  <1>0. made \in Seq(Calls) /\ Len(made) \in Nat
    BY DEF RegistryInv, RegistryTypeInv
  <1>1. CASE LookupNotFound(w)
    <2>0. PICK l : l = Looking("found", lookup[w].name, notFound, lookup[w].from, Len(made))
      OBVIOUS
    <2>1. UNCHANGED registry /\ lookup' = [lookup EXCEPT ![w] = l] /\ lookup[w].state = "missed"
      BY <1>1, <2>0 DEF LookupNotFound
    <2>2. /\ l.state = "found" /\ l.from = lookup[w].from /\ l.to = Len(made)
          /\ l.name = lookup[w].name /\ l.found = notFound
      BY <2>0 DEF Looking
    <2>3. /\ lookup[w].from <= lookup[w].to /\ lookup[w].to <= Len(made)
          /\ lookup[w].from \in Nat /\ lookup[w].to \in Nat
          /\ ~Registered(lookup[w].from, Lower(lookup[w].name))
      BY <1>0, <2>1 DEF RegistryInv, RegistryTypeInv, Answered, IsAnswered, IsLookup
    <2>4. IsLookup(l)
      BY <1>0, <2>2, <2>3 DEF IsLookup, RegistryInv, RegistryTypeInv
    <2>5. Handler(Len(made), notFound)
      BY DEF RegistryInv, Recorded
    <2>6. l.from <= l.to /\ Explained(l)
      BY <1>0, <2>2, <2>3, <2>5 DEF Explained
    <2>7. IsAnswered(l)
      BY <1>0, <2>2, <2>6 DEF IsAnswered
    <2> QED
      BY <2>1, <2>4, <2>7, LookupStep
  <1>2. CASE LookupUsed(w)
    <2>1. UNCHANGED registry /\ lookup' = [lookup EXCEPT ![w] = NoLookup]
      BY <1>2 DEF LookupUsed
    <2>2. IsLookup(NoLookup) /\ IsAnswered(NoLookup)
      BY DEF NoLookup, Looking, IsLookup, Found, IsAnswered
    <2> QED
      BY <2>1, <2>2, LookupStep
  <1> QED
    BY <1>1, <1>2

\* A step of something else.
LEMMA RegistryRests ==
  ASSUME RegistryInv, UNCHANGED <<registry, lookup>>
  PROVE  RegistryInv'
  BY DEF RegistryInv, RegistryTypeInv, Recorded, Answered, IsAnswered, Explained, registry, Registered,
         Registers, Entry, Handler, Sets

\* The map agrees with the calls that were made, and each lookup has an
\* explanation, in every state.
LEMMA RegistryInvariant == RegistrySpec => []RegistryInv
  <1>1. ASSUME RegistryInit PROVE RegistryInv
    <2>1. made \in Seq(Calls) /\ Len(made) = 0 /\ DOMAIN factories = {}
      BY <1>1 DEF RegistryInit
    <2>2. IsLookup(NoLookup) /\ NoLookup.state = "idle"
      BY DEF NoLookup, Looking, IsLookup, Found
    <2> QED
      BY <1>1, <2>1, <2>2
      DEF RegistryInit, RegistryInv, RegistryTypeInv, Recorded, Answered, IsAnswered, Handler, Found
  <1>2. RegistryInv /\ [RegistryNext]_<<registry, lookup>> => RegistryInv'
    BY RegisterStep, SetNotFoundStep, LookupSection, LookupEnds, RegistryRests DEF RegistryNext
  <1> QED
    BY <1>1, <1>2, PTL DEF RegistrySpec

\* What the invariant says of a lookup that has ended.
LEMMA CurrentIfExplained == RegistryInv => LookupIsCurrent
  <1> SUFFICES ASSUME RegistryInv, NEW w \in Workers, lookup[w].state = "found"
               PROVE  IF Registered(lookup[w].from, Lower(lookup[w].name))
                      THEN Entry(lookup[w].from, Lower(lookup[w].name), lookup[w].found)
                      ELSE \E j \in lookup[w].from..lookup[w].to : Handler(j, lookup[w].found)
    BY DEF LookupIsCurrent
  <1>1. /\ lookup[w].to \in lookup[w].from..lookup[w].to
        /\ Explained(lookup[w])
    BY DEF RegistryInv, RegistryTypeInv, Answered, IsAnswered, IsLookup
  <1> QED
    BY <1>1 DEF Explained, Entry, Registered

\* And of a registration that comes between its sections.
LEMMA AtomicIfExplained == RegistryInv => AtomicUnlessRegistered
  <1> SUFFICES ASSUME RegistryInv, NEW w \in Workers, lookup[w].state = "found"
               PROVE  \/ Atomic(w)
                      \/ \E i \in (lookup[w].from + 1)..lookup[w].to :
                           Registers(i, Lower(lookup[w].name))
    BY DEF AtomicUnlessRegistered
  <1> DEFINE key == Lower(lookup[w].name)
  <1>1. /\ lookup[w].from \in Nat /\ lookup[w].to \in Nat /\ lookup[w].from <= lookup[w].to
        /\ Explained(lookup[w])
    BY DEF RegistryInv, RegistryTypeInv, Answered, IsAnswered, IsLookup
  <1>2. CASE Entry(lookup[w].from, key, lookup[w].found)
    <2>1. Finds(lookup[w].from, key, lookup[w].found)
      BY <1>2 DEF Finds, Entry, Registered
    <2>2. lookup[w].from \in lookup[w].from..lookup[w].to
      BY <1>1
    <2> QED
      BY <2>1, <2>2 DEF Atomic
  <1>3. CASE ~Registered(lookup[w].from, key) /\ Handler(lookup[w].to, lookup[w].found)
    <2>1. CASE Registered(lookup[w].to, key)
      <3>1. PICK i \in 1..lookup[w].to : Registers(i, key)
        BY <2>1 DEF Registered
      <3>2. i \notin 1..lookup[w].from
        BY <1>3, <3>1 DEF Registered
      <3>3. i \in (lookup[w].from + 1)..lookup[w].to
        BY <1>1, <3>2
      <3> QED
        BY <3>1, <3>3
    <2>2. CASE ~Registered(lookup[w].to, key)
      <3>1. Finds(lookup[w].to, key, lookup[w].found)
        BY <1>3, <2>2 DEF Finds
      <3>2. lookup[w].to \in lookup[w].from..lookup[w].to
        BY <1>1
      <3> QED
        BY <3>1, <3>2 DEF Atomic
    <2> QED
      BY <2>1, <2>2
  <1> QED
    BY <1>1, <1>2, <1>3 DEF Explained

-----------------------------------------------------------------------------
(* Commands                                                                *)

\* A sequence of anything.
IsSequence(s) == Len(s) \in Nat /\ s = [i \in 1..Len(s) |-> s[i]]

\* What Append makes of it.
LEMMA AppendIs ==
  ASSUME NEW s, IsSequence(s), NEW e
  PROVE  /\ IsSequence(Append(s, e)) /\ Len(Append(s, e)) = Len(s) + 1
         /\ \A i \in 1..Len(s) : Append(s, e)[i] = s[i]
         /\ Append(s, e)[Len(s) + 1] = e
  <1> DEFINE S == {s[i] : i \in 1..Len(s)} \cup {e}
  <1>1. Len(s) \in Nat /\ s = [i \in 1..Len(s) |-> s[i]]
    BY DEF IsSequence
  <1>2. \A i \in 1..Len(s) : s[i] \in S
    OBVIOUS
  <1>3. s \in [1..Len(s) -> S]
    BY <1>1, <1>2, Zenon
  <1>4. e \in S
    OBVIOUS
  <1> HIDE DEF S
  <1>5. s \in Seq(S)
    <2>1. PICK n \in Nat : n = Len(s)
      BY <1>1
    <2>2. s \in [1..n -> S]
      BY <1>3, <2>1
    <2> QED
      BY <2>2, SeqDef
  <1>6. PICK t \in Seq(S) : t = Append(s, e) /\ Len(t) = Len(s) + 1
    <2>1. Append(s, e) \in Seq(S)
      BY <1>4, <1>5, AppendProperties
    <2>2. Len(Append(s, e)) = Len(s) + 1
      BY <1>4, <1>5, AppendProperties
    <2> QED
      BY <2>1, <2>2
  <1>7. t \in [1..Len(t) -> S]
    BY <1>6, LenProperties
  <1>8. t = [i \in 1..Len(t) |-> t[i]]
    <2>1. PICK n : n = Len(t)
      OBVIOUS
    <2>2. t \in [1..n -> S]
      BY <1>7, <2>1
    <2>3. t = [i \in 1..n |-> t[i]]
      BY <2>2
    <2> QED
      BY <2>1, <2>3
  <1> QED
    BY <1>1, <1>4, <1>5, <1>6, <1>8 DEF IsSequence

\* A name in lower case stays as it is.
LEMMA LowerTwice ==
  ASSUME NEW v
  PROVE  Lower(CommandName(v)) = CommandName(v)
  <1>1. ASSUME NEW name PROVE Lower(Lower(name)) = Lower(name)
    <2>1. DOMAIN Lower(name) = DOMAIN name
      BY DEF Lower
    <2>2. \A i \in DOMAIN name : Lower(name)[i].tag # "upper"
      BY DEF Lower, Text, Unit
    <2>3. Lower(Lower(name)) = [i \in DOMAIN name |-> Lower(name)[i]]
      BY <2>1, <2>2 DEF Lower
    <2>4. Lower(name) = [i \in DOMAIN name |-> Lower(name)[i]]
      BY DEF Lower
    <2> QED
      BY <2>3, <2>4
  <1>2. Lower(<<>>) = <<>>
    BY DEF Lower
  <1> QED
    BY <1>1, <1>2 DEF CommandName

\* What RegisterBuiltins has put under a name.
Builtin(name) ==
  IF name = Ping THEN Factory("ping", 0) ELSE IF name = Echo THEN Factory("echo", 0) ELSE None

\* The registry with the built-in commands answers as the switch does.
LEMMA BuiltinsAgree ==
  ASSUME NEW request
  PROVE  Outcome(Builtin(CommandName(request)), CommandName(request), CommandArgs(request))
           = Execute(BuildCommand(request))
  <1>0. Ping # Echo
    BY CommandsAssumption
  <1>1. CASE CommandName(request) = Ping
    BY <1>0, <1>1 DEF Builtin, Outcome, BuildCommand, Factory
  <1>2. CASE CommandName(request) = Echo
    BY <1>0, <1>2 DEF Builtin, Outcome, BuildCommand, Factory
  <1>3. CASE CommandName(request) \notin {Ping, Echo}
    <2>1. Execute(Command("unknown", Bulk(CommandName(request)))) = NotFoundError(CommandName(request))
      BY DEF Execute, Command, Bulk, Value
    <2>2. BuildCommand(request) = Command("unknown", Bulk(CommandName(request)))
      BY <1>3 DEF BuildCommand
    <2>3. Builtin(CommandName(request)).kind = "none"
      BY <1>3 DEF Builtin, None, Factory
    <2> QED
      BY <2>1, <2>2, <2>3 DEF Outcome
  <1> QED
    BY <1>1, <1>2, <1>3

\* The registry as RegisterBuiltins leaves it, until the first late call.
FirstCalls ==
  /\ Len(made) >= Len(Builtins)
  /\ Len(made) = Len(Builtins) =>
       notFound = None /\ DOMAIN factories = {Ping, Echo} /\ \A n \in {Ping, Echo} : factories[n] = Builtin(n)

\* A lookup under way is for the request that is answered next.
IsForRequest(l) ==
  l.state # "idle" =>
    /\ Len(replies) < Len(returned) /\ l.name = CommandName(Request)
    /\ l.state = "missed" /\ Len(made) = Len(Builtins) => l.name \notin {Ping, Echo}
    /\ l.state = "found" /\ l.to = Len(Builtins) => l.found = Builtin(l.name)

\* Each request was looked up under its own name.
LookedUp ==
  \A k \in 1..Len(lookups) : lookups[k].found \in Found /\ lookups[k].name = CommandName(returned[k])

AnswersInv ==
  /\ IsSequence(returned) /\ IsSequence(lookups) /\ IsSequence(replies)
  /\ Len(lookups) = Len(replies) /\ Len(replies) <= Len(returned)
  /\ FirstCalls
  /\ \A w \in Workers : IsForRequest(lookup[w])
  /\ \A v, w \in Workers : lookup[v].state # "idle" /\ lookup[w].state # "idle" => v = w
  /\ LookedUp /\ BuildersAgree

CommandsInv == RegistryInv /\ AnswersInv

\* The two calls of RegisterBuiltins.
LEMMA BuiltinCalls ==
  /\ Len(Builtins) = 2 /\ Builtins \in Seq(Calls)
  /\ Builtins[1].op = "register" /\ Builtins[1].name = Ping /\ Builtins[1].factory = Factory("ping", 0)
  /\ Builtins[2].op = "register" /\ Builtins[2].name = Echo /\ Builtins[2].factory = Factory("echo", 0)
  BY CommandsAssumption DEF Builtins, Call, Calls

\* The invariant when the server starts.
LEMMA CommandsBegin ==
  ASSUME CommandsInit
  PROVE  CommandsInv
  <1>1. /\ made = Builtins /\ notFound = None /\ DOMAIN factories = {Ping, Echo}
        /\ factories[Ping] = Factory("ping", 0) /\ factories[Echo] = Factory("echo", 0)
        /\ lookup = [w \in Workers |-> NoLookup] /\ lookups = <<>> /\ replies = <<>> /\ returned = <<>>
    BY CommandsAssumption DEF CommandsInit, Init
  <1>2. IsLookup(NoLookup) /\ NoLookup.state = "idle"
    BY DEF NoLookup, Looking, IsLookup, Found
  <1>3. RegistryTypeInv
    BY <1>1, <1>2, BuiltinCalls, CommandsAssumption DEF RegistryTypeInv, Found
  <1>4. /\ Registers(1, Ping) /\ ~Registers(1, Echo) /\ Registers(2, Echo) /\ ~Registers(2, Ping)
        /\ ~Sets(1) /\ ~Sets(2) /\ Len(made) = 2
    BY <1>1, BuiltinCalls, CommandsAssumption DEF Registers, Sets
  <1>5. Entry(2, Ping, factories[Ping])
    <2>1. \A k \in (1 + 1)..2 : ~Registers(k, Ping)
      BY <1>4
    <2>2. 1 \in 1..2 /\ made[1].factory = factories[Ping]
      BY <1>1, BuiltinCalls
    <2> QED
      BY <1>4, <2>1, <2>2 DEF Entry
  <1>6. Entry(2, Echo, factories[Echo])
    <2>1. \A k \in (2 + 1)..2 : ~Registers(k, Echo)
      OBVIOUS
    <2>2. 2 \in 1..2 /\ made[2].factory = factories[Echo]
      BY <1>1, BuiltinCalls
    <2> QED
      BY <1>4, <2>1, <2>2 DEF Entry
  <1>7. Handler(2, notFound)
    BY <1>1, <1>4 DEF Handler
  <1>8. ASSUME NEW i \in 1..Len(made) PROVE Lower(made[i].name) \in DOMAIN factories
    BY <1>1, <1>4, BuiltinCalls, CommandsAssumption
  <1>9. RegistryInv
    BY <1>1, <1>2, <1>3, <1>4, <1>5, <1>6, <1>7, <1>8 DEF RegistryInv, Recorded, Answered, IsAnswered
  <1>10. FirstCalls
    BY <1>1, BuiltinCalls, CommandsAssumption DEF FirstCalls, Builtin
  <1>11. IsSequence(<<>>) /\ Len(replies) = 0 /\ Len(lookups) = 0 /\ Len(returned) = 0 /\ DOMAIN replies = {}
    BY <1>1 DEF IsSequence
  <1>12. LookedUp /\ BuildersAgree
    BY <1>11 DEF LookedUp, BuildersAgree
  <1>13. \A w \in Workers : IsForRequest(lookup[w]) /\ lookup[w].state = "idle"
    BY <1>1, <1>2 DEF IsForRequest
  <1> QED
    BY <1>1, <1>9, <1>10, <1>11, <1>12, <1>13 DEF CommandsInv, AnswersInv

\* A late call of Register or SetNotFound leaves the lookups and the answers.
LEMMA SetupStep ==
  ASSUME CommandsInv, SetupCall
  PROVE  CommandsInv'
  <1>1. PICK call : /\ call.factory \in Factories /\ (call.op = "register" => call.name \in Names)
                    /\ \/ call.op = "register" /\ Register(call.name, call.factory)
                       \/ call.op = "notFound" /\ SetNotFound(call.factory)
    <2>1. Len(made) \in Nat /\ Len(Builtins) = 2 /\ Len(made) >= 2
      BY BuiltinCalls DEF CommandsInv, RegistryInv, RegistryTypeInv, AnswersInv, FirstCalls
    <2>2. PICK i : i = Len(made) - Len(Builtins) + 1
      OBVIOUS
    <2>3. i \in 1..Len(Setup)
      BY <2>1, <2>2, CommandsAssumption DEF SetupCall
    <2>4. i \in DOMAIN Setup
      BY <2>3, CommandsAssumption
    <2>5. PICK call : call = Setup[i]
      OBVIOUS
    <2>6. \/ call.op = "register" /\ Register(call.name, call.factory)
          \/ call.op = "notFound" /\ SetNotFound(call.factory)
      BY <2>2, <2>5 DEF SetupCall
    <2>7. call.factory \in Factories /\ (call.op = "register" => call.name \in Names)
      BY <2>4, <2>5, CommandsAssumption
    <2> QED
      BY <2>6, <2>7
  <1>2. RegistryInv'
    BY <1>1, RegisterStep, SetNotFoundStep DEF CommandsInv
  <1>3. UNCHANGED <<lookup, lookups, replies, returned>>
    BY <1>1 DEF SetupCall, Register, SetNotFound, history, vars
  <1>4. Len(made') # Len(Builtins) /\ Len(made') >= Len(Builtins)
    <2>1. Len(made) \in Nat /\ Len(Builtins) = 2 /\ Len(made) >= 2 /\ made \in Seq(Calls)
      BY BuiltinCalls DEF CommandsInv, RegistryInv, RegistryTypeInv, AnswersInv, FirstCalls
    <2>2. \E c \in Calls : made' = Append(made, c)
      <3>1. CASE call.op = "register" /\ Register(call.name, call.factory)
        <4>1. Call("register", call.name, call.factory) \in Calls
          BY <1>1, <3>1 DEF Calls, Call
        <4> QED
          BY <3>1, <4>1 DEF Register
      <3>2. CASE SetNotFound(call.factory)
        <4>1. Call("notFound", <<>>, call.factory) \in Calls
          BY <1>1 DEF Calls, Call
        <4> QED
          BY <3>2, <4>1 DEF SetNotFound
      <3> QED
        BY <1>1, <3>1, <3>2
    <2>3. Len(made') = Len(made) + 1
      BY <2>1, <2>2
    <2> QED
      BY <2>1, <2>3
  <1>5. FirstCalls' /\ \A w \in Workers : IsForRequest(lookup[w])'
    BY <1>3, <1>4 DEF FirstCalls, CommandsInv, AnswersInv, IsForRequest, Request, Builtins
  <1>6. LookedUp' /\ BuildersAgree'
    BY <1>3 DEF CommandsInv, AnswersInv, LookedUp, BuildersAgree, Builtins
  <1> QED
    BY <1>2, <1>3, <1>5, <1>6 DEF CommandsInv, AnswersInv

\* A worker begins to look up, or looks up again.
LEMMA WorkerStep ==
  ASSUME CommandsInv, NEW w \in Workers, LookUp(w) \/ LookUpAgain(w)
  PROVE  CommandsInv'
  <1>1. RegistryInv'
    BY LookupSection, LookupEnds DEF CommandsInv, LookUp, LookUpAgain
  <1>2. UNCHANGED <<factories, notFound, made, lookups, replies, returned>>
    BY DEF LookUp, LookUpAgain, Lookup, LookupNotFound, registry, history, vars
  <1>3. Len(Builtins)' = Len(Builtins)
    BY DEF Builtins
  <1>4. lookup = [v \in Workers |-> lookup[v]]
    BY DEF CommandsInv, RegistryInv, RegistryTypeInv
  <1>5. ASSUME NEW l, lookup' = [lookup EXCEPT ![w] = l], IsForRequest(l),
               \A v \in Workers : v # w => lookup[v].state = "idle"
        PROVE  CommandsInv'
    <2>1. lookup'[w] = l /\ \A v \in Workers : v # w => lookup'[v] = lookup[v]
      BY <1>4, <1>5
    <2>2. \A v \in Workers : IsForRequest(lookup[v])'
      BY <1>2, <1>3, <1>5, <2>1 DEF CommandsInv, AnswersInv, IsForRequest, Request
    <2>3. \A u, v \in Workers : lookup'[u].state # "idle" /\ lookup'[v].state # "idle" => u = v
      BY <1>5, <2>1
    <2>4. FirstCalls' /\ LookedUp' /\ BuildersAgree'
      BY <1>2, <1>3 DEF CommandsInv, AnswersInv, FirstCalls, LookedUp, BuildersAgree
    <2> QED
      BY <1>1, <1>2, <2>2, <2>3, <2>4 DEF CommandsInv, AnswersInv
  <1>6. CASE LookUp(w)
    <2> DEFINE name == CommandName(Request)
    <2>1. /\ Len(replies) < Len(returned) /\ \A v \in Workers : lookup[v].state = "idle"
          /\ Lower(name) = name
      BY <1>6, LowerTwice DEF LookUp
    <2>2. CASE name \in DOMAIN factories
      <3>1. PICK l : l = Looking("found", name, factories[name], Len(made), Len(made))
        OBVIOUS
      <3>2. lookup' = [lookup EXCEPT ![w] = l]
        BY <1>6, <2>1, <2>2, <3>1 DEF LookUp, Lookup
      <3>3. l.state = "found" /\ l.name = name /\ l.to = Len(made) /\ l.found = factories[name]
        BY <3>1 DEF Looking
      <3>4. Len(made) = Len(Builtins) => factories[name] = Builtin(name)
        BY <2>2 DEF CommandsInv, AnswersInv, FirstCalls
      <3> QED
        BY <1>5, <2>1, <3>2, <3>3, <3>4 DEF IsForRequest
    <2>3. CASE name \notin DOMAIN factories
      <3>1. PICK l : l = Looking("missed", name, None, Len(made), Len(made))
        OBVIOUS
      <3>2. lookup' = [lookup EXCEPT ![w] = l]
        BY <1>6, <2>1, <2>3, <3>1 DEF LookUp, Lookup
      <3>3. l.state = "missed" /\ l.name = name
        BY <3>1 DEF Looking
      <3>4. Len(made) = Len(Builtins) => name \notin {Ping, Echo}
        BY <2>3 DEF CommandsInv, AnswersInv, FirstCalls
      <3> QED
        BY <1>5, <2>1, <3>2, <3>3, <3>4 DEF IsForRequest
    <2> QED
      BY <2>2, <2>3
  <1>7. CASE LookUpAgain(w)
    <2>1. PICK l : l = Looking("found", lookup[w].name, notFound, lookup[w].from, Len(made))
      OBVIOUS
    <2>2. lookup' = [lookup EXCEPT ![w] = l] /\ lookup[w].state = "missed"
      BY <1>7, <2>1 DEF LookUpAgain, LookupNotFound
    <2>3. l.state = "found" /\ l.name = lookup[w].name /\ l.to = Len(made) /\ l.found = notFound
      BY <2>1 DEF Looking
    <2>4. \A v \in Workers : v # w => lookup[v].state = "idle"
      BY <2>2 DEF CommandsInv, AnswersInv
    <2>5. IsForRequest(lookup[w])
      BY DEF CommandsInv, AnswersInv
    <2>6. Len(made) = Len(Builtins) => notFound = Builtin(lookup[w].name)
      BY <2>2, <2>5 DEF IsForRequest, CommandsInv, AnswersInv, FirstCalls, Builtin
    <2> QED
      BY <1>5, <2>2, <2>3, <2>4, <2>5, <2>6 DEF IsForRequest
  <1> QED
    BY <1>6, <1>7

\* The answer to the request is the one for its own name.
LEMMA AnswerStep ==
  ASSUME CommandsInv, NEW w \in Workers, ProcessRequest(w)
  PROVE  CommandsInv'
  <1>1. RegistryInv'
    BY LookupEnds DEF CommandsInv, ProcessRequest
  <1>2. UNCHANGED <<factories, notFound, made, returned>> /\ Len(Builtins)' = Len(Builtins)
    BY DEF ProcessRequest, LookupUsed, registry, vars, Builtins
  <1>3. /\ lookup[w].state = "found" /\ lookup = [v \in Workers |-> lookup[v]]
        /\ lookup' = [lookup EXCEPT ![w] = NoLookup] /\ NoLookup.state = "idle"
    BY DEF ProcessRequest, LookupUsed, CommandsInv, RegistryInv, RegistryTypeInv, NoLookup, Looking
  <1>4. \A v \in Workers : lookup'[v].state = "idle"
    BY <1>3 DEF CommandsInv, AnswersInv
  <1>5. PICK reply, l : /\ l = lookup[w] /\ reply = Outcome(l.found, CommandName(Request), CommandArgs(Request))
                        /\ replies' = Append(replies, reply) /\ lookups' = Append(lookups, l)
    BY DEF ProcessRequest, CopyCommandArgs
  <1>6. PICK n \in Nat : /\ n = Len(replies) /\ n = Len(lookups) /\ n < Len(returned) /\ Len(returned) \in Nat
                         /\ IsSequence(replies) /\ IsSequence(lookups)
                         /\ l.name = CommandName(returned[n + 1])
                         /\ l.to = Len(Builtins) => l.found = Builtin(l.name)
    BY <1>3, <1>5 DEF CommandsInv, AnswersInv, IsForRequest, Request, IsSequence
  <1>7. /\ IsSequence(replies') /\ Len(replies') = n + 1 /\ replies'[n + 1] = reply
        /\ \A i \in 1..n : replies'[i] = replies[i]
    <2>1. PICK all : all = Append(replies, reply)
      OBVIOUS
    <2>2. /\ IsSequence(all) /\ Len(all) = Len(replies) + 1 /\ all[Len(replies) + 1] = reply
          /\ \A i \in 1..Len(replies) : all[i] = replies[i]
      BY ZenonT(60), <1>6, <2>1, AppendIs
    <2>3. all = replies'
      BY <1>5, <2>1
    <2> QED
      BY <1>6, <2>2, <2>3
  <1>8. /\ IsSequence(lookups') /\ Len(lookups') = n + 1 /\ lookups'[n + 1] = l
        /\ \A i \in 1..n : lookups'[i] = lookups[i]
    <2>1. PICK all : all = Append(lookups, l)
      OBVIOUS
    <2>2. /\ IsSequence(all) /\ Len(all) = Len(lookups) + 1 /\ all[Len(lookups) + 1] = l
          /\ \A i \in 1..Len(lookups) : all[i] = lookups[i]
      BY <1>6, <2>1, AppendIs
    <2>3. all = lookups'
      BY <1>5, <2>1
    <2> QED
      BY <1>6, <2>2, <2>3
  <1>9. BuildersAgree'
    <2>1. DOMAIN replies = 1..n /\ DOMAIN replies' = 1..(n + 1)
      BY <1>6, <1>7 DEF IsSequence
    <2>2. reply = Outcome(l.found, l.name, CommandArgs(returned[n + 1]))
      BY <1>5, <1>6 DEF Request
    <2>3. l.to = Len(Builtins) => reply = Execute(BuildCommand(returned[n + 1]))
      BY <1>6, <2>2, BuiltinsAgree
    <2>4. ASSUME NEW k \in 1..n
          PROVE  /\ replies'[k] = Outcome(lookups'[k].found, lookups'[k].name, CommandArgs(returned'[k]))
                 /\ lookups'[k].to = Len(Builtins)' => replies'[k] = Execute(BuildCommand(returned'[k]))
      BY <1>2, <1>7, <1>8, <2>1 DEF CommandsInv, AnswersInv, BuildersAgree
    <2>5. /\ replies'[n + 1] = Outcome(lookups'[n + 1].found, lookups'[n + 1].name, CommandArgs(returned'[n + 1]))
          /\ lookups'[n + 1].to = Len(Builtins)' => replies'[n + 1] = Execute(BuildCommand(returned'[n + 1]))
      BY <1>2, <1>7, <1>8, <2>2, <2>3
    <2>6. \A k \in 1..(n + 1) : k \in 1..n \/ k = n + 1
      OBVIOUS
    <2> QED
      BY <2>1, <2>4, <2>5, <2>6 DEF BuildersAgree
  <1>a. LookedUp'
    <2>1. l.found \in Found
      BY <1>5 DEF CommandsInv, RegistryInv, RegistryTypeInv, IsLookup
    <2>2. \A k \in 1..(n + 1) : k \in 1..n \/ k = n + 1
      OBVIOUS
    <2>3. \A k \in 1..n : lookups[k].found \in Found /\ lookups[k].name = CommandName(returned[k])
      BY <1>6 DEF CommandsInv, AnswersInv, LookedUp
    <2> QED
      BY <1>2, <1>6, <1>8, <2>1, <2>2, <2>3 DEF LookedUp
  <1>10. FirstCalls' /\ IsSequence(returned')
    BY <1>2 DEF CommandsInv, AnswersInv, FirstCalls
  <1>11. \A v \in Workers : IsForRequest(lookup[v])'
    BY <1>4 DEF IsForRequest
  <1> QED
    BY <1>1, <1>2, <1>4, <1>6, <1>7, <1>8, <1>9, <1>a, <1>10, <1>11 DEF CommandsInv, AnswersInv

\* A step of the reader changes at most what comes after the requests so far.
LEMMA ReadStep ==
  ASSUME CommandsInv, UNCHANGED <<registry, lookup, history>>,
         returned' = returned \/ \E value : returned' = Append(returned, value)
  PROVE  CommandsInv'
  <1>1. RegistryInv'
    BY RegistryRests DEF CommandsInv
  <1>2. UNCHANGED <<factories, notFound, made, lookup, lookups, replies>> /\ Len(Builtins)' = Len(Builtins)
    BY DEF registry, history, Builtins
  <1>3. PICK n \in Nat, m \in Nat : n = Len(replies) /\ m = Len(returned) /\ n <= m
    BY DEF CommandsInv, AnswersInv, IsSequence
  <1>4. IsSequence(returned') /\ Len(returned') \in {m, m + 1} /\ \A i \in 1..m : returned'[i] = returned[i]
    <2>0. IsSequence(returned)
      BY DEF CommandsInv, AnswersInv
    <2>1. CASE returned' = returned
      BY <1>3, <2>0, <2>1
    <2>2. ASSUME NEW value, returned' = Append(returned, value)
          PROVE  /\ IsSequence(returned') /\ Len(returned') = m + 1
                 /\ \A i \in 1..m : returned'[i] = returned[i]
      <3>1. PICK all : all = Append(returned, value)
        OBVIOUS
      <3>2. /\ IsSequence(all) /\ Len(all) = Len(returned) + 1
            /\ \A i \in 1..Len(returned) : all[i] = returned[i]
        BY <2>0, <3>1, AppendIs
      <3>3. all = returned'
        BY <2>2, <3>1
      <3> QED
        BY <1>3, <3>2, <3>3
    <2> QED
      BY <2>1, <2>2
  <1>5. ASSUME NEW v \in Workers PROVE IsForRequest(lookup[v])'
    <2>1. IsForRequest(lookup[v])
      BY DEF CommandsInv, AnswersInv
    <2>2. n < m => n + 1 \in 1..m
      BY <1>3
    <2> QED
      BY <1>2, <1>3, <1>4, <2>1, <2>2 DEF IsForRequest, Request
  <1>6. BuildersAgree'
    <2>1. \A k \in DOMAIN replies : k \in 1..m
      BY <1>3 DEF CommandsInv, AnswersInv, IsSequence
    <2> QED
      BY <1>2, <1>4, <2>1 DEF CommandsInv, AnswersInv, BuildersAgree
  <1>a. LookedUp'
    <2>1. \A k \in 1..n : k \in 1..m
      BY <1>3
    <2>2. Len(lookups) = n
      BY <1>3 DEF CommandsInv, AnswersInv
    <2> QED
      BY <1>2, <1>4, <2>1, <2>2 DEF CommandsInv, AnswersInv, LookedUp
  <1>7. FirstCalls' /\ Len(replies') <= Len(returned')
    BY <1>2, <1>3, <1>4 DEF CommandsInv, AnswersInv, FirstCalls
  <1> QED
    BY <1>1, <1>2, <1>4, <1>5, <1>6, <1>a, <1>7 DEF CommandsInv, AnswersInv

\* The path of a request through Commands.
LEMMA CommandsInvariant == CommandsSpec => []CommandsInv
  <1>1. CommandsInv /\ [CommandsNext]_<<vars, registry, lookup, history>> => CommandsInv'
    <2> SUFFICES ASSUME CommandsInv, [CommandsNext]_<<vars, registry, lookup, history>> PROVE CommandsInv'
      OBVIOUS
    <2>1. CASE ReadOn
      <3>1. returned' = returned \/ \E value : returned' = Append(returned, value)
        BY <2>1 DEF ReadOn, Send, ReadCall, ReadReturns, ReadNeedsMore, Fill, FillFails, Quiescent, vars
      <3>2. UNCHANGED <<registry, lookup, history>>
        BY <2>1 DEF ReadOn
      <3> QED
        BY <3>1, <3>2, ReadStep
    <2>2. CASE UNCHANGED <<vars, registry, lookup, history>>
      <3>1. returned' = returned
        BY <2>2 DEF vars
      <3> QED
        BY <2>2, <3>1, ReadStep
    <2> QED
      BY <2>1, <2>2, SetupStep, WorkerStep, AnswerStep DEF CommandsNext
  <1> QED
    BY <1>1, CommandsBegin, PTL DEF CommandsSpec

\* The reader does not notice what is done with the requests.
LEMMA CommandsRead == CommandsSpec => Spec
  <1>1. CommandsInit => Init
    BY DEF CommandsInit
  <1>2. [CommandsNext]_<<vars, registry, lookup, history>> => [Next]_vars
    BY DEF CommandsNext, SetupCall, LookUp, LookUpAgain, ProcessRequest, ReadOn, Next, Read
  <1> QED
    BY <1>1, <1>2, PTL DEF CommandsSpec, Spec

-----------------------------------------------------------------------------
(* What requests and replies hold                                          *)

\* The words of a line, read byte by byte, are parts of it.
InlineStates ==
  [mode : {"word", "opened", "quoted", "escaped", "closed", "bad"}, quote : AnyUnit \ {Backslash},
   word : Bytes, args : Seq(Texts)]

LineStates(f, line, k) ==
  f = [i \in 0..k |-> IF i = 0 THEN InlineStart ELSE InlineByte(f[i - 1], line[i])]

\* The recursion over a line has a value at every byte.
LEMMA LineStatesExist ==
  ASSUME NEW line, NEW depth \in Nat
  PROVE  \E f : LineStates(f, line, depth)
  <1> DEFINE S == {k \in Nat : \E f : LineStates(f, line, k)}
  <1>1. 0 \in S
    <2>1. LineStates([d \in 0..0 |-> InlineStart], line, 0)
      BY DEF LineStates
    <2> QED
      BY <2>1
  <1>2. ASSUME NEW k \in Nat, k \in S PROVE k + 1 \in S
    <2>1. PICK f : LineStates(f, line, k)
      BY <1>2
    <2> DEFINE g == [d \in 0..(k + 1) |-> IF d = k + 1 THEN InlineByte(f[k], line[k + 1]) ELSE f[d]]
    <2>2. ASSUME NEW d \in 0..(k + 1)
          PROVE  g[d] = IF d = 0 THEN InlineStart ELSE InlineByte(g[d - 1], line[d])
      <3>1. CASE d = k + 1
        <4>1. g[d] = InlineByte(f[k], line[k + 1]) /\ d # 0 /\ d - 1 \in 0..(k + 1) /\ d - 1 = k
          BY <3>1
        <4>2. g[d - 1] = f[k]
          BY <4>1
        <4> HIDE DEF g
        <4> QED
          BY <3>1, <4>1, <4>2
      <3>2. CASE d # k + 1
        <4>1. d \in 0..k /\ g[d] = f[d] /\ (d # 0 => g[d - 1] = f[d - 1])
          BY <3>2
        <4> HIDE DEF g
        <4>2. f[d] = IF d = 0 THEN InlineStart ELSE InlineByte(f[d - 1], line[d])
          BY <2>1, <4>1 DEF LineStates
        <4> QED
          BY <4>1, <4>2
      <3> QED
        BY <3>1, <3>2
    <2>3. LineStates(g, line, k + 1)
      <3>1. g = [d \in 0..(k + 1) |-> g[d]]
        OBVIOUS
      <3> HIDE DEF g
      <3> QED
        BY <2>2, <3>1 DEF LineStates
    <2> QED
      BY <2>3
  <1> HIDE DEF S
  <1>3. depth \in S
    BY <1>1, <1>2, NatSetInduction
  <1> QED
    BY <1>3 DEF S

\* One byte more of a line.
LEMMA InlineByteTyped ==
  ASSUME NEW s \in InlineStates, NEW u \in AnyUnit, NEW i \in Nat, Len(s.word) <= i, i <= MaxInt
  PROVE  InlineByte(s, u) \in InlineStates /\ Len(InlineByte(s, u).word) <= i + 1
  <1> DEFINE r == InlineByte(s, u)
  <1>0. /\ s.word \in Bytes /\ Len(s.word) \in Nat /\ s.args \in Seq(Texts) /\ s.word \in Texts
        /\ Len(s.word) <= i + 1 /\ MaxInt \in Nat
    BY RespAssumption DEF InlineStates, Bytes, Texts
  <1>a. PICK empty \in Bytes : empty = <<>> /\ Len(empty) <= i + 1
    <2>1. <<>> \in Bytes /\ Len(<<>>) <= i + 1
      BY DEF Bytes
    <2> QED
      BY <2>1, Zenon
  <1>1. Append(s.args, s.word) \in Seq(Texts) /\ EndWord(s) \in Seq(Texts)
    BY <1>0 DEF EndWord
  <1>2. ASSUME NEW v \in AnyUnit PROVE Append(s.word, v) \in Bytes /\ Len(Append(s.word, v)) <= i + 1
    BY <1>0 DEF Bytes
  <1>3. Unescaped(u) \in AnyUnit
    BY DEF Unescaped, Unit, AnyUnit, Tags
  <1>4. Space # Backslash /\ (u.tag = "quote" => u # Backslash)
    BY DEF Space, Text, Unit, Backslash
  <1>5. CASE s.mode = "bad"
    <2>1. r = s
      BY <1>5 DEF InlineByte
    <2> QED
      BY <1>0, <2>1
  <1>6. CASE s.mode = "closed"
    <2>1. r = [s EXCEPT !.mode = IF u = Space THEN "word" ELSE "bad"]
      BY <1>6 DEF InlineByte
    <2> QED
      BY <1>0, <2>1 DEF InlineStates
  <1>7. CASE s.mode = "escaped"
    <2>1. r = [s EXCEPT !.mode = "quoted", !.word = Append(@, Unescaped(u))]
      BY <1>7 DEF InlineByte
    <2> QED
      BY <1>2, <1>3, <2>1 DEF InlineStates
  <1>8. CASE s.mode \in {"opened", "quoted"} /\ u = s.quote
    <2>1. r = [s EXCEPT !.mode = "closed", !.word = <<>>, !.args = Append(@, s.word)]
      BY <1>8 DEF InlineByte, InlineStates
    <2>2. r = [mode |-> "closed", quote |-> s.quote, word |-> empty, args |-> Append(s.args, s.word)]
      BY <1>a, <2>1 DEF InlineStates
    <2> QED
      BY <1>a, <1>1, <2>2 DEF InlineStates
  <1>9. CASE s.mode \in {"opened", "quoted"} /\ u = Backslash
    <2>1. r = [s EXCEPT !.mode = "escaped"]
      BY <1>9 DEF InlineByte, InlineStates
    <2> QED
      BY <1>0, <2>1 DEF InlineStates
  <1>10. CASE s.mode = "opened" /\ u \notin {s.quote, Backslash}
    <2>1. r = [s EXCEPT !.mode = "quoted", !.word = Append(@, u)]
      BY <1>10 DEF InlineByte
    <2> QED
      BY <1>2, <2>1 DEF InlineStates
  <1>11. CASE s.mode = "quoted" /\ u \notin {s.quote, Backslash}
    <2>1. r = [s EXCEPT !.word = Append(@, u)]
      BY <1>11 DEF InlineByte
    <2> QED
      BY <1>2, <2>1 DEF InlineStates
  <1>12. CASE s.mode = "word" /\ u = Space
    <2>1. r = [s EXCEPT !.word = <<>>, !.args = EndWord(s)]
      BY <1>12 DEF InlineByte, Space, Text, Unit
    <2>2. r = [mode |-> s.mode, quote |-> s.quote, word |-> empty, args |-> EndWord(s)]
      BY <1>a, <2>1 DEF InlineStates
    <2> QED
      BY <1>a, <1>1, <2>2 DEF InlineStates
  <1>13. CASE s.mode = "word" /\ u.tag = "quote"
    <2>1. r = IF s.word = <<>> THEN [s EXCEPT !.mode = "opened", !.quote = u] ELSE [s EXCEPT !.mode = "bad"]
      BY <1>13 DEF InlineByte, Space, Text, Unit
    <2>2. CASE s.word = <<>>
      BY <1>0, <1>4, <1>13, <2>1, <2>2 DEF InlineStates
    <2>3. CASE s.word # <<>>
      BY <1>0, <2>1, <2>3 DEF InlineStates
    <2> QED
      BY <2>2, <2>3
  <1>14. CASE s.mode = "word" /\ u # Space /\ u.tag # "quote"
    <2>1. r = [s EXCEPT !.word = Append(@, u)]
      BY <1>14 DEF InlineByte
    <2> QED
      BY <1>2, <2>1 DEF InlineStates
  <1>15. s.mode \in {"word", "opened", "quoted", "escaped", "closed", "bad"}
    BY DEF InlineStates
  <1>16. CASE s.mode = "word"
    BY <1>12, <1>13, <1>14, <1>16
  <1>17. CASE s.mode \in {"opened", "quoted"}
    BY <1>8, <1>9, <1>10, <1>11, <1>17
  <1> QED
    BY <1>5, <1>6, <1>7, <1>15, <1>16, <1>17

\* The words of a line are texts that fit into a slice.
LEMMA InlineArgsTyped ==
  ASSUME NEW line \in Texts
  PROVE  InlineArgs(line) \in Seq(Texts)
  <1>0. PICK n \in Nat : n = Len(line) /\ n <= MaxInt /\ \A i \in 1..n : line[i] \in AnyUnit
    BY DEF Texts, Bytes
  <1> DEFINE f == CHOOSE f : LineStates(f, line, n)
             S == {i \in Nat : i <= n => f[i] \in InlineStates /\ Len(f[i].word) <= i}
  <1>1. LineStates(f, line, n)
    BY LineStatesExist
  <1>2. InlineState(line) = f[n]
    BY <1>0 DEF InlineState, LineStates
  <1> HIDE DEF f
  <1>3. 0 \in S
    <2>1. f[0] = InlineStart
      BY <1>1 DEF LineStates
    <2>2. <<>> \in Bytes /\ <<>> \in Seq(Texts) /\ Len(<<>>) = 0 /\ Space \in AnyUnit \ {Backslash}
      BY DEF Bytes, Space, Text, Unit, AnyUnit, Tags, Backslash
    <2>3. InlineStart \in InlineStates /\ Len(InlineStart.word) <= 0
      BY <2>2 DEF InlineStart, InlineStates
    <2> QED
      BY <2>1, <2>3
  <1>4. ASSUME NEW i \in Nat, i \in S PROVE i + 1 \in S
    <2> SUFFICES ASSUME i + 1 <= n PROVE f[i + 1] \in InlineStates /\ Len(f[i + 1].word) <= i + 1
      OBVIOUS
    <2>1. i + 1 \in 0..n /\ i + 1 # 0 /\ (i + 1) - 1 = i /\ i + 1 \in 1..n /\ i <= MaxInt
      BY <1>0, RespAssumption
    <2>2. f[i + 1] = InlineByte(f[i], line[i + 1])
      BY <1>1, <2>1 DEF LineStates
    <2>3. f[i] \in InlineStates /\ Len(f[i].word) <= i /\ line[i + 1] \in AnyUnit
      BY <1>0, <1>4, <2>1
    <2> QED
      BY <2>1, <2>2, <2>3, InlineByteTyped
  <1>5. n \in S
    <2> HIDE DEF S
    <2> QED
      BY <1>3, <1>4, NatSetInduction
  <1>6. PICK s \in InlineStates : s = InlineState(line) /\ Len(s.word) <= n
    BY <1>2, <1>5
  <1>7. s.word \in Texts /\ s.args \in Seq(Texts) /\ <<>> \in Seq(Texts)
    <2>1. s.word \in Bytes /\ s.args \in Seq(Texts) /\ Len(s.word) \in Nat
      BY DEF InlineStates, Bytes
    <2>2. Len(s.word) <= MaxInt
      BY <1>0, <1>6, <2>1, RespAssumption
    <2> QED
      BY <2>1, <2>2 DEF Texts
  <1>8. EndWord(s) \in Seq(Texts)
    BY <1>7 DEF EndWord
  <1> QED
    BY <1>6, <1>7, <1>8 DEF InlineArgs

\* What the elements of a request are: integers that fit into a word, and texts
\* that fit into a slice.
Plain(v) ==
  /\ v.type = "integer" => v.int \in MinInt..MaxInt
  /\ v.type \in {"bulk", "simple", "error"} => v.data \in Texts

Typed(v) ==
  /\ Plain(v)
  /\ v.type = "array" => /\ IsSequence(v.array)
                         /\ \A i \in 1..Len(v.array) : Plain(v.array[i])

\* An array of such elements.
LEMMA ArrayTyped ==
  ASSUME NEW s, NEW n \in Nat, s = [i \in 1..n |-> s[i]], \A i \in 1..n : Plain(s[i])
  PROVE  Typed(ArrayOf(s))
  <1>1. ArrayOf(s).type = "array" /\ ArrayOf(s).array = s
    BY DEF ArrayOf, Value
  <1>2. DOMAIN s = 1..n
    BY Zenon
  <1>3. Len(s) = n
    BY <1>2
  <1>4. IsSequence(s)
    BY <1>3 DEF IsSequence
  <1> QED
    BY <1>1, <1>3, <1>4 DEF Typed, Plain

\* Messages without elements, and lines.
LEMMA BasicTyped == \A m \in BasicMessages : Typed(m.meaning)
  <1>1. ASSUME NEW n \in MinInt..MaxInt PROVE Typed(Integer(n))
    BY DEF Typed, Plain, Integer, Value
  <1>2. ASSUME NEW text \in Texts PROVE Typed(Simple(text)) /\ Typed(Error(text)) /\ Typed(Bulk(text))
    BY DEF Typed, Plain, Simple, Error, Bulk, Value
  <1>3. Typed(Null) /\ Typed(NilArray)
    BY DEF Typed, Plain, Null, NilArray, Value
  <1>4. ASSUME NEW v \in Scalars PROVE Typed(Scalar(v).meaning)
    <2>0. Scalar(v).meaning = Meaning(v)
      BY DEF Scalar
    <2>1. CASE v \in {Null, NilBulk}
      <3>1. Meaning(v) = Null
        BY <2>1 DEF Meaning, Null, NilBulk, Value
      <3> QED
        BY <1>3, <2>0, <3>1
    <2>2. ASSUME NEW n \in MinInt..MaxInt, v = Integer(n) PROVE Typed(Meaning(v))
      <3>1. Meaning(v) = Integer(n)
        BY <2>2 DEF Meaning, Integer, Value
      <3> QED
        BY <1>1, <3>1
    <2>3. ASSUME NEW text \in Texts, v \in {Simple(text), Error(text)} PROVE Typed(Meaning(v))
      <3>1. PICK line \in Texts : line = StripNewlines(text)
        BY StrippedText DEF Texts
      <3>2. Meaning(v) \in {Simple(line), Error(line)}
        BY <2>3, <3>1 DEF Meaning, Simple, Error, Value
      <3> QED
        BY <1>2, <3>2
    <2>4. ASSUME NEW text \in Texts, v = Bulk(text) PROVE Typed(Meaning(v))
      <3>1. Meaning(v) = Bulk(text)
        BY <2>4 DEF Meaning, Bulk, Value
      <3> QED
        BY <1>2, <3>1
    <2> QED
      BY <2>0, <2>1, <2>2, <2>3, <2>4 DEF Scalars
  <1>5. ASSUME NEW n \in Int PROVE Typed(Raw(<<Number(":", n), CRLF>>, Integer(Wrap(n))).meaning)
    BY <1>1, WrapIsWord DEF Raw
  <1>6. ASSUME NEW text \in Lines PROVE Typed(Raw(text \o <<CRLF>>, LineValue(text)).meaning)
    <2>1. PICK args \in Seq(Texts) : args = InlineArgs(text)
      BY InlineArgsTyped DEF Lines
    <2>2. PICK s : s = [i \in DOMAIN args |-> Bulk(args[i])]
      OBVIOUS
    <2>3. PICK n \in Nat : DOMAIN args = 1..n
      OBVIOUS
    <2>4. s = [i \in 1..n |-> s[i]] /\ \A i \in 1..n : s[i] = Bulk(args[i]) /\ args[i] \in Texts
      BY <2>2, <2>3
    <2>5. \A i \in 1..n : Plain(s[i])
      BY <1>2, <2>4 DEF Typed
    <2>6. Typed(ArrayOf(s))
      BY <2>4, <2>5, ArrayTyped
    <2>7. LineValue(text) = IF args = <<>> THEN NilArray ELSE ArrayOf(s)
      <3>1. LineValue(text) = InlineValue(text)
        BY LineValueIs DEF Lines, Texts
      <3> QED
        BY <2>1, <2>2, <3>1 DEF InlineValue
    <2> QED
      BY <1>3, <2>6, <2>7 DEF Raw
  <1> QED
    BY <1>4, <1>5, <1>6 DEF BasicMessages

\* Messages of any nesting.
LEMMA MessagesTyped == \A m \in ProtocolMessages : Typed(m.meaning)
  <1> DEFINE IsTyped(M) == \A m \in M : Typed(m.meaning)
             S == {d \in Nat : IsTyped(Nested[d])}
  <1>1. ASSUME NEW M, IsTyped(M) PROVE IsTyped(Deeper(M))
    <2>1. ASSUME NEW items \in Seq(M) PROVE Typed(Array(items).meaning)
      <3>1. PICK n \in Nat : DOMAIN items = 1..n /\ \A i \in 1..n : items[i] \in M
        OBVIOUS
      <3>2. PICK s : s = [i \in DOMAIN items |-> items[i].meaning]
        OBVIOUS
      <3>3. s = [i \in 1..n |-> s[i]] /\ \A i \in 1..n : s[i] = items[i].meaning
        BY <3>1, <3>2
      <3>4. \A i \in 1..n : Plain(s[i])
        BY <1>1, <3>1, <3>3 DEF Typed
      <3>5. Array(items).meaning = ArrayOf(s)
        BY <3>2 DEF Array
      <3> QED
        BY <3>3, <3>4, <3>5, ArrayTyped
    <2> QED
      BY <1>1, <2>1 DEF Deeper
  <1>2. 0 \in S
    BY NestedIs, BasicTyped
  <1>3. ASSUME NEW d \in Nat, d \in S PROVE d + 1 \in S
    <2>1. d + 1 \in Nat \ {0} /\ (d + 1) - 1 = d
      OBVIOUS
    <2>2. Nested[d + 1] = Deeper(Nested[d])
      BY <2>1, NestedIs
    <2>3. IsTyped(Nested[d])
      BY <1>3
    <2> HIDE DEF IsTyped
    <2>4. IsTyped(Nested[d + 1])
      BY <1>1, <2>2, <2>3
    <2> QED
      BY <2>1, <2>4
  <1>4. Nat \subseteq S
    <2> HIDE DEF S
    <2> QED
      BY <1>2, <1>3, NatSetInduction
  <1> QED
    BY <1>4 DEF ProtocolMessages

\* Replies: values without elements, and errors of any length.
Answers == Scalars \cup {Error(text) : text \in Bytes}

\* What the client makes of one.
LEMMA AnswerReads ==
  ASSUME NEW v \in Answers
  PROVE  LET bytes == Serialize(v, <<>>)
         IN ParseOne(bytes) = Parsed(Meaning(v), Len(bytes) + 1)
  <1>1. PICK bytes : bytes = Serialize(v, <<>>)
    OBVIOUS
  <1>2. ReadsAs(bytes, Meaning(v))
    <2>1. v \in Scalars => ReadsAs(bytes, Meaning(v))
      BY <1>1, ScalarReads DEF Scalar
    <2> QED
      BY <1>1, <2>1, ErrorReads DEF Answers
  <1> QED
    BY <1>1, <1>2, ReadAlone

\* The name of a command is a byte string.
LEMMA NameIsBytes ==
  ASSUME NEW request, Typed(request)
  PROVE  CommandName(request) \in Bytes
  <1>1. ASSUME NEW name \in Bytes PROVE Lower(name) \in Bytes
    <2>1. PICK n \in Nat : n = Len(name) /\ DOMAIN name = 1..n /\ \A i \in 1..n : name[i] \in AnyUnit
      BY DEF Bytes
    <2>2. \A i \in 1..n : (IF name[i].tag = "upper" THEN Text(name[i].n) ELSE name[i]) \in AnyUnit
      BY <2>1 DEF AnyUnit, Text, Unit, Tags
    <2>3. Lower(name) \in [1..n -> AnyUnit]
      BY <2>1, <2>2 DEF Lower
    <2> QED
      BY <2>3, SeqDef DEF Bytes
  <1>2. <<>> \in Bytes
    BY DEF Bytes
  <1>3. CASE request.type = "array" /\ request.array # <<>> /\ request.array[1].type \in {"bulk", "simple"}
    <2>1. 1 \in 1..Len(request.array)
      <3>1. IsSequence(request.array)
        BY <1>3 DEF Typed
      <3>2. PICK n \in Nat : n = Len(request.array) /\ request.array = [i \in 1..n |-> request.array[i]]
        BY <3>1 DEF IsSequence
      <3>3. n # 0
        BY <1>3, <3>2
      <3> QED
        BY <3>2, <3>3
    <2>2. request.array[1].data \in Bytes
      BY <1>3, <2>1 DEF Typed, Plain, Texts
    <2> QED
      BY <1>1, <1>3, <2>2 DEF CommandName
  <1> QED
    BY <1>2, <1>3 DEF CommandName

\* An argument is nil bytes or a text that fits into a slice.
LEMMA ArgumentIsText ==
  ASSUME NEW request, Typed(request), 2 <= MaxInt
  PROVE  \A i \in DOMAIN CommandArgs(request) : CommandArgs(request)[i] \in Scalars
  <1>a. CASE request.type # "array" \/ Len(request.array) <= 1
    <2>1. CommandArgs(request) = <<>>
      BY <1>a DEF CommandArgs
    <2> QED
      BY <2>1
  <1> SUFFICES ASSUME request.type = "array", ~(Len(request.array) <= 1)
               PROVE  \A i \in 1..(Len(request.array) - 1) : CommandArgs(request)[i] \in Scalars
    <2>1. CASE request.type = "array" /\ ~(Len(request.array) <= 1)
      <3>1. DOMAIN CommandArgs(request) = 1..(Len(request.array) - 1)
        BY <2>1 DEF CommandArgs
      <3> QED
        BY <2>1, <3>1
    <2> QED
      BY <1>a, <2>1
  <1>0. PICK n \in Nat : n = Len(request.array) /\ \A i \in 1..n : Plain(request.array[i])
    BY DEF Typed, IsSequence
  <1>1. NilBulk \in Scalars /\ \A text \in Texts : Bulk(text) \in Scalars
    BY DEF Scalars
  <1>2. ASSUME NEW k \in MinInt..MaxInt PROVE Int64ToBytes(k) \in Texts
    <2>1. Wrap(-k) \in Int /\ k \in Int
      BY RespAssumption, WrapIsWord DEF MinInt
    <2>2. Minus \in AnyUnit /\ \A d \in Int : Digits(d) \in AnyUnit
      BY DEF Minus, Digits, Unit, AnyUnit, Tags
    <2>3. PICK front \in Bytes : front = (IF k < 0 THEN <<Minus>> ELSE <<>>) /\ Len(front) <= 1
      <3>1. PICK one \in Bytes : one = <<Minus>> /\ Len(one) <= 1
        <4>1. <<Minus>> \in Bytes /\ Len(<<Minus>>) <= 1
          BY <2>2 DEF Bytes
        <4> QED
          BY <4>1, Zenon
      <3>2. PICK empty \in Bytes : empty = <<>> /\ Len(empty) <= 1
        <4>1. <<>> \in Bytes /\ Len(<<>>) <= 1
          BY DEF Bytes
        <4> QED
          BY <4>1, Zenon
      <3>3. PICK s : s = IF k < 0 THEN one ELSE empty
        OBVIOUS
      <3>4. s \in Bytes /\ Len(s) <= 1
        BY <3>1, <3>2, <3>3
      <3> QED
        BY <3>1, <3>2, <3>3, <3>4, Zenon
    <2>4. PICK magnitude \in Int : magnitude = IF k < 0 THEN Wrap(-k) ELSE k
      BY <2>1
    <2>5. PICK back \in Bytes : back = (IF magnitude >= 0 THEN <<Digits(magnitude)>> ELSE <<>>) /\ Len(back) <= 1
      <3>1. PICK one \in Bytes : one = <<Digits(magnitude)>> /\ Len(one) <= 1
        <4>1. <<Digits(magnitude)>> \in Bytes /\ Len(<<Digits(magnitude)>>) <= 1
          BY <2>2 DEF Bytes
        <4> QED
          BY <4>1, Zenon
      <3>2. PICK empty \in Bytes : empty = <<>> /\ Len(empty) <= 1
        <4>1. <<>> \in Bytes /\ Len(<<>>) <= 1
          BY DEF Bytes
        <4> QED
          BY <4>1, Zenon
      <3>3. PICK s : s = IF magnitude >= 0 THEN one ELSE empty
        OBVIOUS
      <3>4. s \in Bytes /\ Len(s) <= 1
        BY <3>1, <3>2, <3>3
      <3> QED
        BY <3>1, <3>2, <3>3, <3>4, Zenon
    <2>6. front \o back \in Bytes /\ Len(front \o back) = Len(front) + Len(back)
          /\ Len(front) \in Nat /\ Len(back) \in Nat
      BY DEF Bytes
    <2>7. Len(front \o back) <= MaxInt
      BY <2>3, <2>5, <2>6, RespAssumption
    <2>8. Int64ToBytes(k) = front \o back
      BY <2>3, <2>4, <2>5 DEF Int64ToBytes
    <2> QED
      BY <2>6, <2>7, <2>8 DEF Texts
  <1>3. ASSUME NEW i \in 1..(Len(request.array) - 1) PROVE CommandArgs(request)[i] \in Scalars
    <2>1. PICK elem : elem = request.array[i + 1]
      OBVIOUS
    <2>2. Plain(elem)
      <3>1. i + 1 \in 1..n
        BY <1>0
      <3> QED
        BY <1>0, <2>1, <3>1
    <2>3. CommandArgs(request)[i] =
            CASE elem.type = "integer"                   -> Bulk(Int64ToBytes(elem.int))
              [] elem.type \in {"bulk", "simple", "error"} -> Bulk(elem.data)
              [] OTHER                                   -> NilBulk
      BY <2>1 DEF CommandArgs
    <2>4. CASE elem.type = "integer"
      <3>1. CommandArgs(request)[i] = Bulk(Int64ToBytes(elem.int)) /\ elem.int \in MinInt..MaxInt
        BY <2>2, <2>3, <2>4 DEF Plain
      <3> QED
        BY <1>1, <1>2, <3>1
    <2>5. CASE elem.type \in {"bulk", "simple", "error"}
      <3>1. CommandArgs(request)[i] = Bulk(elem.data) /\ elem.data \in Texts
        BY <2>2, <2>3, <2>5 DEF Plain
      <3> QED
        BY <1>1, <3>1
    <2>6. CASE elem.type \notin {"integer", "bulk", "simple", "error"}
      <3>1. CommandArgs(request)[i] = NilBulk
        BY <2>3, <2>6
      <3> QED
        BY <1>1, <3>1
    <2> QED
      BY <2>4, <2>5, <2>6
  <1> QED
    BY <1>3

\* Whatever was looked up, a request is answered by one value.
LEMMA OutcomeIsAnswer ==
  ASSUME NEW request, Typed(request), 2 <= MaxInt, Ping \in Bytes, Echo \in Bytes,
         NEW found \in Found
  PROVE  Outcome(found, CommandName(request), CommandArgs(request)) \in Answers
  <1> DEFINE args == CommandArgs(request)
  <1>1. \A text \in Bytes : Error(text) \in Answers
    BY DEF Answers
  <1>2. /\ <<Upper(21)>> \in Bytes /\ <<Upper(22)>> \in Bytes /\ <<Upper(23)>> \in Bytes
        /\ Simple(PONG) \in Answers
    <2>1. \A n \in Int : Upper(n) \in AnyUnit
      BY DEF Upper, Unit, AnyUnit, Tags
    <2>2. <<Upper(20)>> \in Texts
      BY <2>1, RespAssumption DEF Texts, Bytes
    <2> QED
      BY <2>1, <2>2 DEF Bytes, PONG, Answers, Scalars
  <1>3. ASSUME NEW name \in Bytes PROVE NotFoundError(name) \in Answers
    BY <1>1, <1>2, ConcatBytes DEF NotFoundError, UnknownCommand
  <1>4. ASSUME NEW name \in Bytes PROVE Execute(Command("invalid", Bulk(name))) \in Answers
    <2>1. Execute(Command("invalid", Bulk(name))) = Error(WrongArguments \o name)
      BY DEF Execute, Command, Bulk, Value
    <2> QED
      BY <1>1, <1>2, <2>1, ConcatBytes DEF WrongArguments
  <1>5. ASSUME Len(args) = 1 PROVE Execute(Command("say", args[1])) \in Answers
    <2>1. 1 \in DOMAIN args
      <3>1. CASE request.type # "array" \/ Len(request.array) <= 1
        BY <1>5, <3>1 DEF CommandArgs
      <3>2. CASE ~(request.type # "array" \/ Len(request.array) <= 1)
        <4>0. IsSequence(request.array)
          BY <3>2 DEF Typed
        <4>1. Len(request.array) - 1 \in Nat \ {0}
          BY <3>2, <4>0 DEF IsSequence
        <4> QED
          BY <3>2, <4>1 DEF CommandArgs
      <3> QED
        BY <3>1, <3>2
    <2>2. args[1] \in Scalars
      BY <2>1, ArgumentIsText
    <2>3. Execute(Command("say", args[1])) = args[1]
      BY DEF Execute, Command
    <2> QED
      BY <2>2, <2>3 DEF Answers
  <1>6. Execute(Command("pong", Null)) \in Answers
    BY <1>2 DEF Execute, Command
  <1> HIDE DEF args
  <1>7. Execute(BuildPing(args)) \in Answers
    BY <1>4, <1>5, <1>6 DEF BuildPing
  <1>8. Execute(BuildEcho(args)) \in Answers
    BY <1>4, <1>5 DEF BuildEcho
  <1>9. CommandName(request) \in Bytes
    BY NameIsBytes
  <1>10. /\ found.kind \in {"none", "ping", "echo", "refuse", "func"}
         /\ found.kind = "func" => found.id \in MinInt..MaxInt
    BY CommandsAssumption DEF Found, None, Factory
  <1>11. CASE found.kind = "none"
    BY <1>3, <1>9, <1>11 DEF Outcome
  <1>12. CASE found.kind = "ping"
    BY <1>7, <1>12 DEF Outcome, args
  <1>13. CASE found.kind = "echo"
    BY <1>8, <1>13 DEF Outcome, args
  <1>14. CASE found.kind = "refuse"
    BY <1>1, <1>2, <1>14 DEF Outcome, Refused
  <1>15. CASE found.kind = "func"
    <2>1. Outcome(found, CommandName(request), CommandArgs(request)) = Integer(found.id)
      BY <1>15 DEF Outcome, Execute, Command
    <2> QED
      BY <1>10, <1>15, <2>1 DEF Answers, Scalars
  <1> QED
    BY <1>10, <1>11, <1>12, <1>13, <1>14, <1>15

-----------------------------------------------------------------------------
(* Theorems                                                                *)

\* Lookup finds what Register put under the name last, from the moment Register
\* has returned, for any number of workers and calls, although it gives up the
\* read lock in between; an unknown name gets a handler of SetNotFound that was
\* set at a moment of the lookup.
THEOREM LookupFindsCurrent == RegistrySpec => []LookupIsCurrent
  <1> QED
    BY CurrentIfExplained, RegistryInvariant, PTL

\* The only thing that comes between the two sections of Lookup is a registration
\* of the name it has just missed: every other lookup finds what one moment of it
\* had to offer.
THEOREM LookupIsAtomicOtherwise == RegistrySpec => []AtomicUnlessRegistered
  <1> QED
    BY AtomicIfExplained, RegistryInvariant, PTL

\* On the path of a request through Commands, a lookup finds what is registered
\* when it begins, or the handler of a moment of it, although another goroutine
\* goes on registering.
THEOREM RequestsFindCurrent == CommandsSpec => [](LookupIsCurrent /\ AtomicUnlessRegistered)
  <1>1. CommandsInv => LookupIsCurrent /\ AtomicUnlessRegistered
    BY CurrentIfExplained, AtomicIfExplained DEF CommandsInv
  <1> QED
    BY <1>1, CommandsInvariant, PTL

\* A request is answered by what was found under its own name with its own
\* arguments, and, while only RegisterBuiltins has filled the registry, as the
\* switch of BuildCommand answers it: for any requests, also such as no peer sends
\* by Writer.
THEOREM RequestsAreAnsweredAlike == CommandsSpec => []BuildersAgree
  <1>1. CommandsInv => BuildersAgree
    BY DEF CommandsInv, AnswersInv
  <1> QED
    BY <1>1, CommandsInvariant, PTL

\* On that path Reader returns what was sent, loses nothing, and waits for no more
\* than the rest of a message.
THEOREM RequestsAreRead ==
  ASSUME Messages \subseteq ProtocolMessages
  PROVE  CommandsSpec => [](ReturnsWhatWasSent /\ NothingLostNothingKept /\ WaitsOnlyForTheRest)
  <1> QED
    BY CommandsRead, ReaderReturnsWhatWasSent, ReaderLosesNothing, ReaderWaitsOnlyForTheRest, PTL

\* A reply is one value for the client, whatever command was found and whatever
\* the request it answers holds: line ends in the name of an unknown command or in
\* the echoed argument do not end it early.
THEOREM RepliesAreOneValue ==
  ASSUME Messages \subseteq ProtocolMessages, Ping \in Bytes, Echo \in Bytes, 2 <= MaxInt
  PROVE  CommandsSpec => []ReplyIsOneValue
  <1>1. Readable(Messages)
    BY ProtocolMessagesRead DEF Readable
  <1>2. CommandsInv /\ ReaderInv => ReplyIsOneValue
    <2> SUFFICES ASSUME CommandsInv, ReaderInv, NEW k \in DOMAIN replies
                 PROVE  LET bytes == Serialize(replies[k], <<>>)
                            first == ParseOne(bytes)
                        IN first.ok /\ first.pos = Len(bytes) + 1 /\ first.value = Meaning(replies[k])
      BY DEF ReplyIsOneValue
    <2>1. k \in 1..Len(lookups) /\ k \in 1..Len(returned) /\ k \in DOMAIN returned
      <3>1. PICK n \in Nat, m \in Nat : /\ n = Len(replies) /\ n = Len(lookups) /\ m = Len(returned) /\ n <= m
                                        /\ DOMAIN replies = 1..n /\ DOMAIN returned = 1..m
        BY DEF CommandsInv, AnswersInv, IsSequence
      <3> QED
        BY <3>1
    <2>2. PICK found \in Found : found = lookups[k].found /\ lookups[k].name = CommandName(returned[k])
      BY <2>1 DEF CommandsInv, AnswersInv, LookedUp
    <2>3. replies[k] = Outcome(found, CommandName(returned[k]), CommandArgs(returned[k]))
      BY <2>2 DEF CommandsInv, AnswersInv, BuildersAgree
    <2>4. Typed(returned[k])
      <3>1. returned[k] \in {m.meaning : m \in Messages}
        BY <2>1 DEF ReaderInv, TypeInv
      <3> QED
        BY <3>1, MessagesTyped
    <2>5. replies[k] \in Answers
      BY <2>3, <2>4, OutcomeIsAnswer
    <2> QED
      BY <2>5, AnswerReads DEF Parsed
  <1>3. Spec => []ReaderInv
    BY <1>1, ReaderInvariant
  <1> QED
    BY <1>2, <1>3, CommandsInvariant, CommandsRead, PTL
=============================================================================
