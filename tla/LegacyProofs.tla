------------------------------ MODULE LegacyProofs ------------------------------
(***************************************************************************)
(* The older RESP package: each append writes one value, and a caller that  *)
(* keeps its own mark gets each command once, in order, for messages of any *)
(* length and nesting and a stream that is cut anywhere and may break.      *)
(***************************************************************************)
EXTENDS Legacy, ParserProofs

-----------------------------------------------------------------------------
(* The elements of a command                                               *)

\* A bulk string as the Writer of the package makes it.
LEMMA BulkUnits ==
  ASSUME NEW data \in Bytes
  PROVE  /\ AppendBulk(data) \in Bytes /\ Len(data) \in Nat /\ Len(AppendBulk(data)) = Len(data) + 3
         /\ AppendPrefix("$", Len(data)) \in Bytes /\ Len(AppendPrefix("$", Len(data))) = 2
         /\ AppendPrefix("$", Len(data)) \o data \in Bytes
         /\ Len(AppendPrefix("$", Len(data)) \o data) = Len(data) + 2
         /\ <<CRLF>> \in Bytes /\ Len(<<CRLF>>) = 1 /\ <<CRLF>>[1] = CRLF
  <1>1. PICK size \in Nat : size = Len(data)
    BY DEF Bytes
  <1> DEFINE h == Number("$", size)
             p == <<h, CRLF>>
             front == p \o data
  <1>2. h \in AnyUnit /\ CRLF \in AnyUnit
    BY <1>1, UnitTypes
  <1>3. p \in Bytes /\ Len(p) = 2 /\ <<CRLF>> \in Bytes /\ Len(<<CRLF>>) = 1 /\ <<CRLF>>[1] = CRLF
    <2> HIDE DEF h
    <2> QED
      BY <1>2, TwoUnits
  <1>4. p = AppendPrefix("$", Len(data))
    BY <1>1 DEF AppendPrefix
  <1> HIDE DEF p, h
  <1>5. front \in Bytes /\ Len(front) = size + 2
    <2>1. front \in Bytes /\ Len(front) = Len(p) + Len(data)
      BY <1>3, ConcatProperties DEF Bytes
    <2> HIDE DEF front
    <2> QED
      BY <1>1, <1>3, <2>1
  <1>6. AppendBulk(data) = front \o <<CRLF>>
    BY <1>4 DEF AppendBulk
  <1>7. front = AppendPrefix("$", Len(data)) \o data
    BY <1>4
  <1> HIDE DEF front
  <1>8. AppendBulk(data) \in Bytes /\ Len(AppendBulk(data)) = size + 3
    <2>1. front \o <<CRLF>> \in Bytes /\ Len(front \o <<CRLF>>) = size + 3
      BY <1>1, <1>3, <1>5, ConcatProperties DEF Bytes
    <2> QED
      BY <1>6, <2>1
  <1> QED
    BY <1>1, <1>3, <1>4, <1>5, <1>7, <1>8

\* WholeBulk is true of a bulk string if all of it is there.
LEMMA WholeBulkReads ==
  ASSUME NEW data \in Bytes, Len(data) <= MaxInt,
         NEW b \in Bytes, NEW at \in 1..(Len(b) + 1), Begins(b, at, AppendBulk(data))
  PROVE  /\ IF at + Len(AppendBulk(data)) <= Len(b) + 1
            THEN WholeBulk(b, at) /\ BulkData(b, at) = data /\ BulkEnd(b, at) = at + Len(AppendBulk(data))
            ELSE ~WholeBulk(b, at)
         /\ at <= Len(b) => b[at].tag = "$" /\ Wrap(b[at].n) # -1
  <1>1. PICK size \in Nat : size = Len(data)
    BY DEF Bytes
  <1> DEFINE h == Number("$", size)
             front == AppendPrefix("$", Len(data)) \o data
             Right == IF at + Len(AppendBulk(data)) <= Len(b) + 1
                      THEN WholeBulk(b, at) /\ BulkData(b, at) = data /\ BulkEnd(b, at) = at + Len(AppendBulk(data))
                      ELSE ~WholeBulk(b, at)
  <1>2. /\ h \in AnyUnit /\ h # CRLF /\ h.tag = "$" /\ h.n = size /\ size \in MinInt..MaxInt
        /\ AppendPrefix("$", Len(data)) = <<h, CRLF>>
    <2>1. h \in AnyUnit /\ h.tag = "$" /\ h.n = size /\ CRLF.tag = "crlf"
      BY <1>1, UnitTypes
    <2>2. AppendPrefix("$", Len(data)) = <<h, CRLF>>
      BY <1>1 DEF AppendPrefix
    <2>3. size \in MinInt..MaxInt
      BY <1>1, RespAssumption DEF MinInt
    <2> HIDE DEF h
    <2> QED
      BY <2>1, <2>2, <2>3
  <1>3. /\ front \in Bytes /\ Len(front) = size + 2 /\ Len(AppendBulk(data)) = size + 3
        /\ <<h, CRLF>> \in Bytes /\ Len(<<h, CRLF>>) = 2
        /\ <<CRLF>> \in Bytes /\ Len(<<CRLF>>) = 1 /\ <<CRLF>>[1] = CRLF /\ AppendBulk(data) = front \o <<CRLF>>
    BY <1>1, <1>2, BulkUnits DEF AppendBulk
  <1>0. Len(b) \in Nat /\ at \in Nat \ {0}
    BY DEF Bytes
  <1>9. Len(front) = size + 2 /\ Len(AppendBulk(data)) = size + 3
    BY <1>3
  <1>4. Begins(b, at, front) /\ Begins(b, at + Len(front), <<CRLF>>)
    <2>1. Begins(b, at, front \o <<CRLF>>)
      BY <1>3
    <2> HIDE DEF front
    <2> QED
      BY <1>0, <1>3, <2>1, BeginsConcat
  <1>5. Begins(b, at, <<h, CRLF>>) /\ Begins(b, at + 2, data)
    <2>1. Begins(b, at, <<h, CRLF>> \o data)
      BY <1>2, <1>4
    <2> HIDE DEF h
    <2> QED
      BY <1>0, <1>3, <2>1, BeginsConcat
  <1> HIDE DEF h, front
  <1>6. /\ FindCRLF(b, at) = IF at + 1 <= Len(b) THEN at + 1 ELSE 0
        /\ at <= Len(b) => b[at] = h
    BY <1>2, <1>5, HeaderIsFound
  <1>7. ASSUME at + 1 <= Len(b) PROVE Right
    <2>1. PICK end \in Nat \ {0} : end = at + 1
      BY <1>0
    <2>2. FindCRLF(b, at) = end /\ at <= Len(b) /\ b[at] = h /\ end # 0
      BY <1>0, <1>6, <1>7, <2>1
    <2>3. Wrap(b[at].n) = size /\ b[at].tag = "$" /\ IsNumber(at, end)
      BY <1>2, <2>1, <2>2, WordIsKept DEF IsNumber
    <2>4. PICK last \in Nat \ {0} : last = end + size
      BY <1>1, <2>1
    <2>5. WholeBulk(b, at) <=> last + 1 <= Len(b) /\ b[last + 1] = CRLF
      BY <1>1, <2>2, <2>3, <2>4 DEF WholeBulk
    <2>6. at + Len(AppendBulk(data)) = last + 2
      BY <1>0, <1>9, <2>1, <2>4
    <2>7. CASE last + 1 <= Len(b)
      <3>1. b[last + 1] = CRLF
        <4>1. 1 \in 1..Len(<<CRLF>>) /\ (at + Len(front)) + 1 - 1 = last + 1
          <5>1. (at + Len(front)) + 1 - 1 = last + 1
            BY <1>0, <1>9, <2>1, <2>4
          <5> QED
            BY <1>3, <5>1
        <4> QED
          BY <1>3, <1>4, <2>7, <4>1 DEF Begins
      <3>2. PICK start \in Nat \ {0} : start = at + 2
        BY <1>0
      <3>3. Begins(b, start, data) /\ last = start + Len(data) - 1 /\ last <= Len(b) /\ last \in Int
        <4>1. last = start + Len(data) - 1 /\ last <= Len(b) /\ last \in Int
          BY <1>0, <1>1, <2>1, <2>4, <2>7, <3>2
        <4> QED
          BY <1>5, <3>2, <4>1
      <3>4. SubSeq(b, start, last) = data
        BY <3>3, PieceIs
      <3>5. last = at + 1 + size
        BY <2>1, <2>4
      <3>6. BulkData(b, at) = data
        BY <2>3, <3>2, <3>4, <3>5 DEF BulkData
      <3>7. BulkEnd(b, at) = last + 2
        BY <1>0, <1>1, <2>3, <3>5 DEF BulkEnd
      <3> QED
        BY <1>0, <2>4, <2>5, <2>6, <2>7, <3>1, <3>6, <3>7
    <2>8. CASE ~(last + 1 <= Len(b))
      BY <1>0, <2>4, <2>5, <2>6, <2>8
    <2> QED
      BY <2>7, <2>8
  <1>8. ASSUME ~(at + 1 <= Len(b)) PROVE Right
    <2>1. ~WholeBulk(b, at)
      BY <1>6, <1>8 DEF WholeBulk
    <2>2. ~(at + Len(AppendBulk(data)) <= Len(b) + 1)
      BY <1>0, <1>1, <1>3, <1>8
    <2> QED
      BY <2>1, <2>2
  <1>10. at <= Len(b) => b[at].tag = "$" /\ Wrap(b[at].n) # -1
    <2>1. Wrap(size) = size /\ size # -1
      BY <1>2, WordIsKept
    <2> QED
      BY <1>2, <1>6, <2>1
  <1> QED
    BY <1>7, <1>8, <1>10

\* What no element of a command can be.
NeverBulk(u) ==
  u \in Bytes /\ \A b \in Bytes : \A at \in 1..(Len(b) + 1) : Begins(b, at, u) => ~WholeBulk(b, at)

\* Values of other types.
LEMMA OtherIsNeverBulk ==
  ASSUME NEW u \in Bytes, u # <<>>, u[1].tag # "$"
  PROVE  NeverBulk(u)
  <1> SUFFICES ASSUME NEW b \in Bytes, NEW at \in 1..(Len(b) + 1), Begins(b, at, u), WholeBulk(b, at)
               PROVE  FALSE
    BY DEF NeverBulk
  <1>1. at <= Len(b) /\ b[at].tag = "$"
    BY DEF WholeBulk
  <1>2. 1 \in 1..Len(u) /\ at + 1 - 1 = at
    BY DEF Bytes
  <1>3. b[at] = u[1]
    BY <1>1, <1>2 DEF Begins
  <1> QED
    BY <1>1, <1>3

\* The null.
LEMMA NullIsNeverBulk == NeverBulk(AppendNull)
  <1> DEFINE h == Number("$", -1)
  <1>1. h \in AnyUnit /\ h # CRLF /\ h.n = -1 /\ CRLF \in AnyUnit
    BY UnitTypes
  <1>2. AppendNull = <<h, CRLF>>
    BY DEF AppendNull, AppendPrefix
  <1> HIDE DEF h
  <1>3. AppendNull \in Bytes
    BY <1>1, <1>2, TwoUnits
  <1>4. ASSUME NEW b \in Bytes, NEW at \in 1..(Len(b) + 1), Begins(b, at, AppendNull), WholeBulk(b, at)
        PROVE  FALSE
    <2>1. at <= Len(b) => b[at] = h
      BY <1>1, <1>2, <1>4, HeaderIsFound
    <2>2. at <= Len(b) /\ Wrap(b[at].n) >= 0
      BY <1>4 DEF WholeBulk
    <2>3. Wrap(-1) = -1
      BY WordIsKept, RespAssumption DEF MinInt
    <2> QED
      BY <1>1, <2>1, <2>2, <2>3
  <1> QED
    BY <1>3, <1>4 DEF NeverBulk

-----------------------------------------------------------------------------
(* The loop over the elements                                              *)

\* state is the function that ParseElements computes.
ElementsOf(state, b, at, count) ==
  state = [i \in 0..count |->
             IF i = 0 THEN [ok |-> TRUE, pos |-> at, args |-> <<>>] ELSE NextElement(b, state[i - 1])]

\* There is one.
LEMMA ElementsExist ==
  ASSUME NEW b, NEW at, NEW count \in Nat
  PROVE  \E state : ElementsOf(state, b, at, count)
  <1> DEFINE S == {k \in Nat : \E state : ElementsOf(state, b, at, k)}
             first == [ok |-> TRUE, pos |-> at, args |-> <<>>]
  <1>1. 0 \in S
    <2>1. ElementsOf([i \in 0..0 |-> first], b, at, 0)
      BY DEF ElementsOf
    <2> QED
      BY <2>1
  <1>2. ASSUME NEW k \in Nat, k \in S PROVE k + 1 \in S
    <2>1. PICK f : ElementsOf(f, b, at, k)
      BY <1>2
    <2> DEFINE g == [i \in 0..(k + 1) |-> IF i = k + 1 THEN NextElement(b, f[k]) ELSE f[i]]
    <2>2. ASSUME NEW i \in 0..(k + 1)
          PROVE  g[i] = IF i = 0 THEN first ELSE NextElement(b, g[i - 1])
      <3>1. CASE i = k + 1
        <4>1. g[i] = NextElement(b, f[k]) /\ i # 0 /\ i - 1 \in 0..(k + 1) /\ i - 1 = k
          BY <3>1
        <4>2. g[i - 1] = f[k]
          BY <4>1
        <4> HIDE DEF g
        <4> QED
          BY <4>1, <4>2
      <3>2. CASE i # k + 1
        <4>1. i \in 0..k /\ g[i] = f[i] /\ (i # 0 => g[i - 1] = f[i - 1])
          BY <3>2
        <4> HIDE DEF g
        <4>2. f[i] = IF i = 0 THEN first ELSE NextElement(b, f[i - 1])
          BY <2>1, <4>1 DEF ElementsOf
        <4> QED
          BY <4>1, <4>2
      <3> QED
        BY <3>1, <3>2
    <2>3. ElementsOf(g, b, at, k + 1)
      <3>1. g = [i \in 0..(k + 1) |-> g[i]]
        OBVIOUS
      <3> HIDE DEF g
      <3> QED
        BY <2>2, <3>1 DEF ElementsOf
    <2> QED
      BY <2>3
  <1> HIDE DEF S
  <1>3. count \in S
    BY <1>1, <1>2, NatSetInduction
  <1> QED
    BY <1>3 DEF S

\* ParseElements is its last value.
LEMMA ParseElementsIs ==
  ASSUME NEW b, NEW at, NEW count \in Nat
  PROVE  \E state : ElementsOf(state, b, at, count) /\ ParseElements(b, at, count) = state[count]
  <1> DEFINE h == CHOOSE state : ElementsOf(state, b, at, count)
  <1>1. ElementsOf(h, b, at, count)
    BY ElementsExist
  <1>2. ParseElements(b, at, count) = h[count]
    BY DEF ParseElements, ElementsOf
  <1> QED
    BY <1>1, <1>2

\* The first arguments, and one more.
FirstArgs(data, k) == [i \in 1..k |-> data[i]]

\* What Append makes of them.
LEMMA OneMoreArg ==
  ASSUME NEW data, NEW k \in Nat \ {0}
  PROVE  Append(FirstArgs(data, k - 1), data[k]) = FirstArgs(data, k)
  <1> DEFINE M == {data[i] : i \in 1..k}
             s == FirstArgs(data, k - 1)
             t == FirstArgs(data, k)
             a == Append(s, data[k])
  <1>1. s \in Seq(M) /\ Len(s) = k - 1 /\ \A i \in 1..(k - 1) : s[i] = data[i]
    BY DEF FirstArgs
  <1>2. t \in Seq(M) /\ Len(t) = k /\ \A i \in 1..k : t[i] = data[i]
    BY DEF FirstArgs
  <1>3. data[k] \in M
    OBVIOUS
  <1> HIDE DEF M, s, t
  <1>4. /\ a \in Seq(M) /\ Len(a) = (k - 1) + 1 /\ a[(k - 1) + 1] = data[k]
        /\ \A i \in 1..(k - 1) : a[i] = s[i]
    <2>1. /\ a \in Seq(M) /\ Len(a) = Len(s) + 1 /\ a[Len(s) + 1] = data[k]
          /\ \A i \in 1..Len(s) : a[i] = s[i]
      BY <1>1, <1>3, AppendProperties
    <2> HIDE DEF a
    <2> QED
      BY <1>1, <2>1
  <1> HIDE DEF a
  <1>5. Len(a) = Len(t)
    BY <1>2, <1>4
  <1>6. ASSUME NEW i \in 1..k PROVE a[i] = t[i]
    <2>1. CASE i = k
      BY <1>2, <1>4, <2>1
    <2>2. CASE i # k
      BY <1>1, <1>2, <1>4, <2>2
    <2> QED
      BY <2>1, <2>2
  <1>7. a = t
    BY <1>2, <1>4, <1>5, <1>6, SeqEqual
  <1> QED
    BY <1>7 DEF a, s, t

\* What the elements are: those at bulks are the bulk strings of data, the others
\* can be none.
Elements(us, bulks, data) ==
  /\ us \in Seq(Bytes)
  /\ \A i \in 1..Len(us) :
       IF i \in bulks THEN data[i] \in Bytes /\ Len(data[i]) <= MaxInt /\ us[i] = AppendBulk(data[i])
       ELSE NeverBulk(us[i])

\* After k turns the loop has the first k arguments, if they are bulk strings and
\* the buffer holds them; otherwise it has failed.
LEMMA ElementsRead ==
  ASSUME NEW us, NEW bulks, NEW data, Elements(us, bulks, data), NEW joint, Joints(joint, us),
         NEW b \in Bytes, NEW at \in 1..(Len(b) + 1), Begins(b, at, joint[Len(us)]),
         NEW state, ElementsOf(state, b, at, Len(us))
  PROVE  \A k \in 0..Len(us) :
           IF (\A i \in 1..k : i \in bulks) /\ at + Len(joint[k]) <= Len(b) + 1
           THEN state[k] = [ok |-> TRUE, pos |-> at + Len(joint[k]), args |-> FirstArgs(data, k)]
           ELSE ~state[k].ok
  <1>0. Len(b) \in Nat /\ at \in Nat \ {0} /\ us \in Seq(Bytes)
    BY DEF Bytes, Elements
  <1>1. PICK n \in Nat : n = Len(us)
    BY <1>0
  <1>2. /\ joint[0] = <<>>
        /\ \A k \in 1..n : /\ joint[k] = joint[k - 1] \o us[k] /\ us[k] \in Bytes
                          /\ joint[k] \in Bytes /\ joint[k - 1] \in Bytes
    <2>1. \A k \in 1..n : k - 1 \in 0..n /\ k \in 0..n
      OBVIOUS
    <2>2. \A k \in 1..n : us[k] \in Bytes
      BY <1>0, <1>1
    <2> QED
      BY <1>1, <2>1, <2>2 DEF Joints
  <1>3. \A k \in 1..n : Begins(b, at + Len(joint[k - 1]), us[k])
    BY <1>0, <1>1, BeginsJoints
  <1> DEFINE Fits(k) == at + Len(joint[k]) <= Len(b) + 1
             AllBulk(k) == \A i \in 1..k : i \in bulks
             Done(k) == [ok |-> TRUE, pos |-> at + Len(joint[k]), args |-> FirstArgs(data, k)]
             Right(k) == IF AllBulk(k) /\ Fits(k) THEN state[k] = Done(k) ELSE ~state[k].ok
             S == {k \in Nat : k <= n => Right(k)}
  <1>4. 0 \in S
    <2>1. Len(joint[0]) = 0 /\ Fits(0) /\ AllBulk(0)
      BY <1>0, <1>2
    <2>2. 0 \in 0..Len(us)
      BY <1>1
    <2>3. state[0] = [ok |-> TRUE, pos |-> at, args |-> <<>>]
      BY <2>2 DEF ElementsOf
    <2>4. FirstArgs(data, 0) = <<>>
      BY DEF FirstArgs
    <2>5. at + Len(joint[0]) = at
      BY <1>0, <2>1
    <2>6. state[0] = Done(0)
      BY <2>3, <2>4, <2>5
    <2> HIDE DEF AllBulk, Fits, Done
    <2> QED
      BY <2>1, <2>6
  <1>5. ASSUME NEW j \in Nat, j \in S PROVE j + 1 \in S
    <2> SUFFICES ASSUME j + 1 <= n PROVE Right(j + 1)
      OBVIOUS
    <2>1. PICK k \in 1..n : k = j + 1
      OBVIOUS
    <2>2. k - 1 = j /\ j <= n /\ k \in 0..Len(us) /\ k # 0 /\ k \in 1..Len(us) /\ k \in Nat \ {0}
      BY <1>1, <2>1
    <2>3. Right(k - 1)
      <3> HIDE DEF Right
      <3> QED
        BY <1>5, <2>2
    <2>4. state[k] = NextElement(b, state[k - 1])
      BY <2>2 DEF ElementsOf
    <2>5. PICK here \in Nat : here = Len(joint[k - 1])
      <3>1. joint[k - 1] \in Bytes
        BY <1>2
      <3> QED
        BY <3>1, LenProperties DEF Bytes
    <2>6. PICK size \in Nat : size = Len(us[k])
      <3>1. us[k] \in Bytes
        BY <1>2
      <3> QED
        BY <3>1, LenProperties DEF Bytes
    <2>7. Len(joint[k]) = here + size
      BY ZenonT(60), <1>2, <2>5, <2>6, ConcatProperties DEF Bytes
    <2>8. AllBulk(k) <=> AllBulk(k - 1) /\ k \in bulks
      <3>1. \A i \in 1..k : i = k \/ i \in 1..(k - 1)
        OBVIOUS
      <3>2. \A i \in 1..(k - 1) : i \in 1..k
        OBVIOUS
      <3> QED
        BY <3>1, <3>2, <2>2
    <2>9. Fits(k - 1) <=> at + here <= Len(b) + 1
      BY <2>5
    <2>10. Fits(k) <=> at + here + size <= Len(b) + 1
      BY <1>0, <2>7
    <2>11. Fits(k) => Fits(k - 1)
      BY <1>0, <2>9, <2>10
    <2>12. CASE ~(AllBulk(k - 1) /\ Fits(k - 1))
      <3>1. ~state[k - 1].ok
        BY <2>3, <2>12
      <3>2. ~state[k].ok
        BY <2>4, <3>1 DEF NextElement
      <3>3. ~(AllBulk(k) /\ Fits(k))
        <4> HIDE DEF AllBulk, Fits
        <4> QED
          BY <2>8, <2>11, <2>12
      <3>4. Right(k)
        <4> HIDE DEF AllBulk, Fits
        <4> QED
          BY <3>2, <3>3
      <3> QED
        BY <2>1, <3>4
    <2>13. CASE AllBulk(k - 1) /\ Fits(k - 1)
      <3>1. PICK from \in 1..(Len(b) + 1) : from = at + here
        BY <1>0, <2>9, <2>13
      <3>2. state[k - 1] = [ok |-> TRUE, pos |-> from, args |-> FirstArgs(data, k - 1)]
        BY <2>3, <2>5, <2>13, <3>1
      <3>3. Begins(b, from, us[k])
        BY <1>3, <2>5, <3>1
      <3>4. state[k] = IF WholeBulk(b, from)
                       THEN [ok |-> TRUE, pos |-> BulkEnd(b, from),
                             args |-> Append(FirstArgs(data, k - 1), BulkData(b, from))]
                       ELSE [state[k - 1] EXCEPT !.ok = FALSE]
        BY <2>4, <3>2 DEF NextElement
      <3>5. CASE k \in bulks
        <4>1. data[k] \in Bytes /\ Len(data[k]) <= MaxInt /\ us[k] = AppendBulk(data[k])
          BY <2>2, <3>5 DEF Elements
        <4>2. IF from + size <= Len(b) + 1
              THEN WholeBulk(b, from) /\ BulkData(b, from) = data[k] /\ BulkEnd(b, from) = from + size
              ELSE ~WholeBulk(b, from)
          BY <2>6, <3>3, <4>1, WholeBulkReads
        <4>3. Fits(k) <=> from + size <= Len(b) + 1
          BY <1>0, <2>10, <3>1
        <4>4. from + size = at + Len(joint[k])
          BY <1>0, <2>7, <3>1
        <4>5. CASE from + size <= Len(b) + 1
          <5>1. state[k] = Done(k)
            BY <2>2, <3>4, <4>2, <4>4, <4>5, OneMoreArg
          <5> HIDE DEF Fits, AllBulk, Done
          <5> QED
            BY <2>1, <2>8, <2>13, <3>5, <4>3, <4>5, <5>1
        <4>6. CASE ~(from + size <= Len(b) + 1)
          <5>1. ~state[k].ok
            BY <3>2, <3>4, <4>2, <4>6
          <5> HIDE DEF Fits, AllBulk, Done
          <5> QED
            BY <2>1, <4>3, <4>6, <5>1
        <4> QED
          BY <4>5, <4>6
      <3>6. CASE k \notin bulks
        <4>1. NeverBulk(us[k])
          BY <2>2, <3>6 DEF Elements
        <4>2. ~WholeBulk(b, from)
          BY <3>3, <4>1 DEF NeverBulk
        <4>3. ~state[k].ok
          BY <3>2, <3>4, <4>2
        <4> HIDE DEF Fits, AllBulk, Done
        <4> QED
          BY <2>1, <2>8, <3>6, <4>3
      <3> QED
        BY <3>5, <3>6
    <2> QED
      BY <2>12, <2>13
  <1>6. Nat \subseteq S
    <2> HIDE DEF S
    <2> QED
      BY <1>4, <1>5, NatSetInduction
  <1>7. \A k \in 0..n : Right(k)
    <2>1. \A k \in 0..n : k \in Nat /\ k <= n
      OBVIOUS
    <2> HIDE DEF Right
    <2> QED
      BY <1>6, <2>1
  <1> QED
    BY <1>1, <1>7

-----------------------------------------------------------------------------
(* What the parser answers to each kind of message                         *)

IsAnswer(r, m, at) ==
  /\ r.complete /\ r.pos = at + Len(m.units) /\ r.args = ExpectedArgs(m)
  /\ r.type # "none" => RawIsTheCommand(r, m)

\* Wherever a command stands, the parser answers with it if all of it is there, and
\* otherwise, or if it is no command, with nothing.
Answered(m) ==
  /\ m.units \in Bytes /\ m.units # <<>>
  /\ \A b \in Bytes : \A at \in 1..(Len(b) + 1) : Begins(b, at, m.units) =>
       IF IsCommand(m) /\ at + Len(m.units) <= Len(b) + 1
       THEN IsAnswer(ParseNextCommand(b, at), m, at)
       ELSE ~ParseNextCommand(b, at).complete

\* The arguments that a value of the other package stands for.
ArgsOf(value) ==
  CASE value.type = "array"   -> [i \in DOMAIN value.array |-> value.array[i].data]
    [] value.type = "null"    -> <<>>
    [] value.type = "integer" -> <<Decimal(value.int)>>
    [] OTHER                  -> <<value.data>>

\* Nothing is answered at the end of the buffer.
LEMMA NothingAtEnd ==
  ASSUME NEW b \in Bytes, NEW at \in 1..(Len(b) + 1), ~(at <= Len(b))
  PROVE  ~ParseNextCommand(b, at).complete
  BY DEF ParseNextCommand, NoResult, Bytes

\* It answers with type and with what value stands for.
AnsweredAs(m, value, type) ==
  \A b \in Bytes : \A at \in 1..(Len(b) + 1) : Begins(b, at, m.units) =>
    IF /\ \A i \in DOMAIN value.array : value.array[i].type = "bulk"
       /\ at + Len(m.units) <= Len(b) + 1
    THEN \E end \in Int : /\ end = at + Len(m.units) - 1
                          /\ ParseNextCommand(b, at) = Result(type, SubSeq(b, at, end), ArgsOf(value), end + 1)
    ELSE ~ParseNextCommand(b, at).complete

\* A message of which the parser gives the bytes and the arguments, if it is a command
\* and as far as it is there.
LEMMA ValueAnswered ==
  ASSUME NEW m, m.typed = FALSE, NEW value, ReadsAs(m.units, value),
         NEW type,
         AnsweredAs(m, value, type)
  PROVE  /\ Answered(m)
         /\ IsCommand(m) <=> \A i \in DOMAIN value.array : value.array[i].type = "bulk"
  <1>1. m.units \in Bytes /\ m.units # <<>> /\ Len(m.units) \in Nat
    BY DEF ReadsAs, Bytes
  <1>2. ParseOne(m.units).value = value
    BY ReadAlone DEF Parsed
  <1>3. /\ IsCommand(m) <=> \A i \in DOMAIN value.array : value.array[i].type = "bulk"
        /\ ExpectedArgs(m) = ArgsOf(value)
    BY <1>2 DEF IsCommand, ExpectedArgs, ArgsOf
  <1>4. ASSUME NEW b \in Bytes, NEW at \in 1..(Len(b) + 1), Begins(b, at, m.units)
        PROVE  IF IsCommand(m) /\ at + Len(m.units) <= Len(b) + 1
               THEN IsAnswer(ParseNextCommand(b, at), m, at)
               ELSE ~ParseNextCommand(b, at).complete
    <2>0. Len(b) \in Nat /\ at \in Nat \ {0}
      BY DEF Bytes
    <2>1. CASE IsCommand(m) /\ at + Len(m.units) <= Len(b) + 1
      <3>1. PICK end \in Int : /\ end = at + Len(m.units) - 1
                              /\ ParseNextCommand(b, at) = Result(type, SubSeq(b, at, end), ArgsOf(value), end + 1)
        BY <1>3, <1>4, <2>1 DEF AnsweredAs
      <3>2. end <= Len(b) /\ end + 1 = at + Len(m.units)
        BY <1>1, <2>0, <2>1, <3>1
      <3>3. SubSeq(b, at, end) = m.units
        BY <1>1, <1>4, <2>0, <3>1, <3>2, PieceIs
      <3>4. ParseNextCommand(b, at) = Result(type, m.units, ArgsOf(value), at + Len(m.units))
        BY <3>1, <3>2, <3>3
      <3>5. IsAnswer(ParseNextCommand(b, at), m, at)
        BY <1>3, <3>4 DEF IsAnswer, Result, RawIsTheCommand
      <3> QED
        BY <2>1, <3>5
    <2>2. CASE ~(IsCommand(m) /\ at + Len(m.units) <= Len(b) + 1)
      BY <1>3, <1>4, <2>2 DEF AnsweredAs
    <2> QED
      BY <2>1, <2>2
  <1> QED
    BY <1>1, <1>3, <1>4 DEF Answered

\* The same for a value that is no array.
LEMMA CommandAnswered ==
  ASSUME NEW m, m.typed = FALSE, NEW value, ReadsAs(m.units, value),
         \A i \in DOMAIN value.array : value.array[i].type = "bulk",
         NEW type,
         \A b \in Bytes : \A at \in 1..(Len(b) + 1) : Begins(b, at, m.units) =>
           IF at + Len(m.units) <= Len(b) + 1
           THEN \E end \in Int : /\ end = at + Len(m.units) - 1
                                 /\ ParseNextCommand(b, at) =
                                      Result(type, SubSeq(b, at, end), ArgsOf(value), end + 1)
           ELSE ~ParseNextCommand(b, at).complete
  PROVE  Answered(m) /\ IsCommand(m)
  <1>1. AnsweredAs(m, value, type)
    BY DEF AnsweredAs
  <1> QED
    BY <1>1, ValueAnswered

\* A text behind + or -.
LEMMA TextAnswered ==
  ASSUME NEW m, m.typed = FALSE, NEW text \in Bytes, \A i \in 1..Len(text) : text[i] # CRLF,
         NEW t \in {"+", "-"}, m.units = TextLine(Bare(t), text),
         NEW value, value = IF t = "+" THEN Simple(text) ELSE Error(text)
  PROVE  Answered(m) /\ IsCommand(m) /\ ReadsAs(m.units, value)
  <1>1. Bare(t) \in AnyUnit /\ Bare(t) # CRLF /\ Bare(t).tag = t
    BY UnitTypes
  <1>2. ReadsAs(m.units, value)
    BY TextReads
  <1>3. value.array = <<>> /\ ArgsOf(value) = <<text>>
    BY DEF Simple, Error, Value, ArgsOf
  <1>4. \A i \in DOMAIN value.array : value.array[i].type = "bulk"
    BY <1>3
  <1> DEFINE type == IF t = "+" THEN "simple" ELSE "error"
  <1>5. ASSUME NEW b \in Bytes, NEW at \in 1..(Len(b) + 1), Begins(b, at, m.units)
        PROVE  IF at + Len(m.units) <= Len(b) + 1
               THEN \E end \in Int : /\ end = at + Len(m.units) - 1
                                     /\ ParseNextCommand(b, at) =
                                          Result(type, SubSeq(b, at, end), ArgsOf(value), end + 1)
               ELSE ~ParseNextCommand(b, at).complete
    <2>0. Len(b) \in Nat /\ at \in Nat \ {0}
      BY DEF Bytes
    <2>1. /\ Len(m.units) = Len(text) + 2 /\ Len(text) \in Nat
          /\ FindCRLF(b, at) = IF at + 1 + Len(text) <= Len(b) THEN at + 1 + Len(text) ELSE 0
          /\ at <= Len(b) => b[at] = Bare(t)
          /\ at + 1 + Len(text) <= Len(b) => SubSeq(b, at + 1, at + Len(text)) = text
      <3> DEFINE h == Bare(t)
      <3>1. h \in AnyUnit /\ h # CRLF /\ m.units = TextLine(h, text) /\ Begins(b, at, TextLine(h, text))
        BY <1>1, <1>5
      <3> HIDE DEF h
      <3>2. /\ Len(TextLine(h, text)) = Len(text) + 2 /\ Len(text) \in Nat
            /\ FindCRLF(b, at) = IF at + 1 + Len(text) <= Len(b) THEN at + 1 + Len(text) ELSE 0
            /\ at <= Len(b) => b[at] = h
            /\ at + 1 + Len(text) <= Len(b) => SubSeq(b, at + 1, at + Len(text)) = text
        BY <3>1, TextLineReads DEF Bytes
      <3> QED
        BY <3>1, <3>2 DEF h
    <2>2. at <= Len(b) => ParseNextCommand(b, at) = ParseLine(b, at, type)
      <3> SUFFICES ASSUME at <= Len(b) PROVE ParseNextCommand(b, at) = ParseLine(b, at, type)
        OBVIOUS
      <3>1. b[at].tag = t /\ ~(at > Len(b))
        BY <1>1, <2>0, <2>1
      <3>2. CASE t = "+"
        <4>1. type = "simple" /\ b[at].tag = "+"
          BY <3>1, <3>2
        <4> HIDE DEF type
        <4> QED
          BY <3>1, <4>1 DEF ParseNextCommand
      <3>3. CASE t = "-"
        <4>1. type = "error" /\ b[at].tag = "-"
          BY <3>1, <3>3
        <4> HIDE DEF type
        <4> QED
          BY <3>1, <4>1 DEF ParseNextCommand
      <3> QED
        BY <3>2, <3>3
    <2>3. CASE at + 1 + Len(text) <= Len(b)
      <3>1. PICK end \in Nat \ {0} : end = at + 1 + Len(text)
        BY <2>0, <2>1
      <3>2. at <= Len(b) /\ FindCRLF(b, at) = end /\ SubSeq(b, at + 1, end - 1) = text
        <4>1. end - 1 = at + Len(text)
          BY <2>0, <2>1, <3>1
        <4> QED
          BY <2>0, <2>1, <2>3, <3>1, <4>1
      <3>3. end # 0 /\ type # "integer" /\ <<>> \o text = text
        BY <3>1, ConcatBytes
      <3>4. ParseLine(b, at, type) = Result(type, SubSeq(b, at, end), <<text>>, end + 1)
        <4> HIDE DEF type
        <4> QED
          BY <3>2, <3>3 DEF ParseLine
      <3>5. end = at + Len(m.units) - 1 /\ at + Len(m.units) <= Len(b) + 1
        BY <2>0, <2>1, <2>3, <3>1
      <3> QED
        BY <1>3, <2>2, <3>2, <3>4, <3>5
    <2>4. CASE ~(at + 1 + Len(text) <= Len(b))
      <3>1. ~(at + Len(m.units) <= Len(b) + 1)
        BY <2>0, <2>1, <2>4
      <3>2. ~ParseLine(b, at, type).complete
        BY <2>1, <2>4 DEF ParseLine, NoResult
      <3>3. ~ParseNextCommand(b, at).complete
        BY <2>2, <3>2, NothingAtEnd
      <3> QED
        BY <3>1, <3>3
    <2> QED
      BY <2>3, <2>4
  <1> HIDE DEF type
  <1> QED
    BY <1>2, <1>4, <1>5, CommandAnswered

\* An integer.
LEMMA IntegerAnswered ==
  ASSUME NEW m, m.typed = FALSE, NEW n \in MinInt..MaxInt, m.units = <<Number(":", n), CRLF>>
  PROVE  Answered(m) /\ IsCommand(m) /\ ReadsAs(m.units, Integer(n))
  <1>0. n \in Int
    BY RespAssumption DEF MinInt
  <1> DEFINE h == Number(":", n)
  <1>1. h \in AnyUnit /\ h # CRLF /\ h.tag = ":" /\ h.n = n /\ CRLF \in AnyUnit
    BY <1>0, UnitTypes
  <1>2. ReadsAs(m.units, Integer(n))
    BY <1>0, IntegerReads, WordIsKept
  <1>3. Integer(n).array = <<>> /\ ArgsOf(Integer(n)) = <<Decimal(n)>>
    BY DEF Integer, Value, ArgsOf
  <1>4. \A i \in DOMAIN Integer(n).array : Integer(n).array[i].type = "bulk"
    BY <1>3
  <1>5. Len(m.units) = 2 /\ m.units = <<h, CRLF>>
    BY <1>1, TwoUnits
  <1> HIDE DEF h
  <1>6. ASSUME NEW b \in Bytes, NEW at \in 1..(Len(b) + 1), Begins(b, at, m.units)
        PROVE  IF at + Len(m.units) <= Len(b) + 1
               THEN \E end \in Int : /\ end = at + Len(m.units) - 1
                                     /\ ParseNextCommand(b, at) =
                                          Result("integer", SubSeq(b, at, end), ArgsOf(Integer(n)), end + 1)
               ELSE ~ParseNextCommand(b, at).complete
    <2>0. Len(b) \in Nat /\ at \in Nat \ {0}
      BY DEF Bytes
    <2>1. /\ FindCRLF(b, at) = IF at + 1 <= Len(b) THEN at + 1 ELSE 0
          /\ at <= Len(b) => b[at] = h
      BY <1>1, <1>5, <1>6, HeaderIsFound
    <2>2. at <= Len(b) => ParseNextCommand(b, at) = ParseLine(b, at, "integer")
      BY <1>1, <2>0, <2>1 DEF ParseNextCommand
    <2>3. CASE at + 1 <= Len(b)
      <3>1. PICK end \in Nat \ {0} : end = at + 1
        BY <2>0
      <3>2. at <= Len(b) /\ FindCRLF(b, at) = end /\ b[at].n = n /\ end # 0
        BY <1>1, <2>0, <2>1, <2>3, <3>1
      <3>3. SubSeq(b, at + 1, end - 1) = <<>>
        <4>1. end - 1 < at + 1 /\ at + 1 \in Int /\ end - 1 \in Int
          BY <2>0, <3>1
        <4> QED
          BY <4>1, EmptySeq, SubSeqProperties
      <3>4. Decimal(n) \o <<>> = Decimal(n)
        <4> DEFINE A == {Minus, Digits(-n), Digits(n)}
        <4>1. Decimal(n) \in Seq(A)
          <5>1. CASE n < 0
            <6>1. Minus \in A /\ Digits(-n) \in A
              OBVIOUS
            <6>2. Decimal(n) = <<Minus, Digits(-n)>>
              BY <5>1 DEF Decimal
            <6> HIDE DEF A
            <6> QED
              BY <6>1, <6>2
          <5>2. CASE ~(n < 0)
            <6>1. Digits(n) \in A
              OBVIOUS
            <6>2. Decimal(n) = <<Digits(n)>>
              BY <5>2 DEF Decimal
            <6> HIDE DEF A
            <6> QED
              BY <6>1, <6>2
          <5> QED
            BY <5>1, <5>2
        <4> HIDE DEF A
        <4> QED
          BY <4>1, ConcatEmptySeq
      <3>5. ParseLine(b, at, "integer") = Result("integer", SubSeq(b, at, end), <<Decimal(n)>>, end + 1)
        BY <3>2, <3>3, <3>4 DEF ParseLine
      <3>6. end = at + Len(m.units) - 1 /\ at + Len(m.units) <= Len(b) + 1
        BY <1>5, <2>0, <2>3, <3>1
      <3> QED
        BY <1>3, <2>2, <3>2, <3>5, <3>6
    <2>4. CASE ~(at + 1 <= Len(b))
      <3>1. ~(at + Len(m.units) <= Len(b) + 1)
        BY <1>5, <2>0, <2>4
      <3>2. ~ParseLine(b, at, "integer").complete
        BY <2>1, <2>4 DEF ParseLine, NoResult
      <3>3. ~ParseNextCommand(b, at).complete
        BY <2>2, <3>2, NothingAtEnd
      <3> QED
        BY <3>1, <3>3
    <2> QED
      BY <2>3, <2>4
  <1> QED
    BY <1>2, <1>4, <1>6, CommandAnswered

\* A null.
LEMMA NullAnswered ==
  ASSUME NEW m, m.typed = FALSE, m.units = AppendNull
  PROVE  Answered(m) /\ IsCommand(m) /\ ReadsAs(m.units, Null)
  <1> DEFINE h == Number("$", -1)
  <1>1. h \in AnyUnit /\ h # CRLF /\ h.tag = "$" /\ h.n = -1 /\ CRLF \in AnyUnit /\ Wrap(-1) = -1
    BY UnitTypes, WordIsKept, RespAssumption DEF MinInt
  <1>2. m.units = <<h, CRLF>>
    BY DEF AppendNull, AppendPrefix
  <1>3. ReadsAs(m.units, Null)
    BY <1>2, NullReads
  <1> HIDE DEF h
  <1>4. Null.array = <<>> /\ ArgsOf(Null) = <<>>
    BY DEF Null, Value, ArgsOf
  <1>5. \A i \in DOMAIN Null.array : Null.array[i].type = "bulk"
    BY <1>4
  <1>6. Len(m.units) = 2
    BY <1>1, <1>2, TwoUnits
  <1>7. ASSUME NEW b \in Bytes, NEW at \in 1..(Len(b) + 1), Begins(b, at, m.units)
        PROVE  IF at + Len(m.units) <= Len(b) + 1
               THEN \E end \in Int : /\ end = at + Len(m.units) - 1
                                     /\ ParseNextCommand(b, at) =
                                          Result("bulk", SubSeq(b, at, end), ArgsOf(Null), end + 1)
               ELSE ~ParseNextCommand(b, at).complete
    <2>0. Len(b) \in Nat /\ at \in Nat \ {0}
      BY DEF Bytes
    <2>1. /\ FindCRLF(b, at) = IF at + 1 <= Len(b) THEN at + 1 ELSE 0
          /\ at <= Len(b) => b[at] = h
      BY <1>1, <1>2, <1>7, HeaderIsFound
    <2>2. at <= Len(b) => ParseNextCommand(b, at) = ParseBulkString(b, at)
      BY <1>1, <2>0, <2>1 DEF ParseNextCommand
    <2>3. CASE at + 1 <= Len(b)
      <3>1. PICK end \in Nat \ {0} : end = at + 1
        BY <2>0
      <3>2. at <= Len(b) /\ FindCRLF(b, at) = end /\ Wrap(b[at].n) = -1 /\ end # 0 /\ IsNumber(at, end)
        BY <1>1, <2>0, <2>1, <2>3, <3>1 DEF IsNumber
      <3>3. ParseBulkString(b, at) = Result("bulk", SubSeq(b, at, end), <<>>, end + 1)
        <4>1. ~WholeBulk(b, at)
          BY <3>2 DEF WholeBulk
        <4> QED
          BY <3>2, <4>1 DEF ParseBulkString
      <3>4. end = at + Len(m.units) - 1 /\ at + Len(m.units) <= Len(b) + 1
        BY <1>6, <2>0, <2>3, <3>1
      <3> QED
        BY <1>4, <2>2, <3>2, <3>3, <3>4
    <2>4. CASE ~(at + 1 <= Len(b))
      <3>1. ~(at + Len(m.units) <= Len(b) + 1)
        BY <1>6, <2>0, <2>4
      <3>2. FindCRLF(b, at) = 0
        BY <2>1, <2>4
      <3>3. ~WholeBulk(b, at)
        BY <3>2 DEF WholeBulk
      <3>4. ~ParseBulkString(b, at).complete
        BY <3>2, <3>3 DEF ParseBulkString, NoResult
      <3>5. ~ParseNextCommand(b, at).complete
        BY <2>2, <3>4, NothingAtEnd
      <3> QED
        BY <3>1, <3>5
    <2> QED
      BY <2>3, <2>4
  <1> QED
    BY <1>3, <1>5, <1>7, CommandAnswered

\* A bulk string.
LEMMA BulkAnswered ==
  ASSUME NEW m, m.typed = FALSE, NEW data \in Bytes, Len(data) <= MaxInt, m.units = AppendBulk(data)
  PROVE  Answered(m) /\ IsCommand(m) /\ ReadsAs(m.units, Bulk(data))
  <1>1. PICK size \in Nat : size = Len(data)
    BY DEF Bytes
  <1>2. ReadsAs(m.units, Bulk(data))
    BY BulkReads DEF AppendBulk, AppendPrefix
  <1>3. Bulk(data).array = <<>> /\ ArgsOf(Bulk(data)) = <<data>>
    BY DEF Bulk, Value, ArgsOf
  <1>4. \A i \in DOMAIN Bulk(data).array : Bulk(data).array[i].type = "bulk"
    BY <1>3
  <1>5. Len(m.units) = size + 3
    BY <1>1, BulkUnits
  <1>6. ASSUME NEW b \in Bytes, NEW at \in 1..(Len(b) + 1), Begins(b, at, m.units)
        PROVE  IF at + Len(m.units) <= Len(b) + 1
               THEN \E end \in Int : /\ end = at + Len(m.units) - 1
                                     /\ ParseNextCommand(b, at) =
                                          Result("bulk", SubSeq(b, at, end), ArgsOf(Bulk(data)), end + 1)
               ELSE ~ParseNextCommand(b, at).complete
    <2>0. Len(b) \in Nat /\ at \in Nat \ {0}
      BY DEF Bytes
    <2>1. /\ IF at + Len(m.units) <= Len(b) + 1
             THEN WholeBulk(b, at) /\ BulkData(b, at) = data /\ BulkEnd(b, at) = at + Len(m.units)
             ELSE ~WholeBulk(b, at)
          /\ at <= Len(b) => b[at].tag = "$" /\ Wrap(b[at].n) # -1
      BY <1>6, WholeBulkReads
    <2>2. at <= Len(b) => ParseNextCommand(b, at) = ParseBulkString(b, at)
      BY <2>0, <2>1 DEF ParseNextCommand
    <2>3. CASE at + Len(m.units) <= Len(b) + 1
      <3>1. at <= Len(b)
        BY <1>5, <2>0, <2>3
      <3>2. PICK end \in Int : end = at + Len(m.units) - 1 /\ end + 1 = at + Len(m.units)
        BY <1>5, <2>0
      <3>3. ParseBulkString(b, at) =
              Result("bulk", SubSeq(b, at, BulkEnd(b, at) - 1), <<BulkData(b, at)>>, BulkEnd(b, at))
        BY <2>1, <2>3, <3>1 DEF ParseBulkString
      <3>4. BulkData(b, at) = data /\ BulkEnd(b, at) = end + 1 /\ BulkEnd(b, at) - 1 = end
        BY <2>1, <2>3, <3>2
      <3> QED
        BY <1>3, <2>2, <2>3, <3>1, <3>2, <3>3, <3>4
    <2>4. CASE ~(at + Len(m.units) <= Len(b) + 1)
      <3>1. at <= Len(b) => ~ParseBulkString(b, at).complete
        BY <2>1, <2>4 DEF ParseBulkString, NoResult
      <3>2. ~ParseNextCommand(b, at).complete
        BY <2>2, <3>1, NothingAtEnd
      <3> QED
        BY <2>4, <3>2
    <2> QED
      BY <2>3, <2>4
  <1> QED
    BY <1>2, <1>4, <1>6, CommandAnswered

\* What an element of an array can be: units that read as value, and a bulk string
\* as an element of a command exactly if value is one.
Writes(units, value) ==
  /\ ReadsAs(units, value)
  /\ IF value.type = "bulk"
     THEN value.data \in Bytes /\ Len(value.data) <= MaxInt /\ units = AppendBulk(value.data)
     ELSE NeverBulk(units)

\* An array of them is read back by the other package.
LEMMA ArrayIsRead ==
  ASSUME NEW us \in Seq(Bytes), Len(us) <= MaxInt,
         NEW values, \A i \in 1..Len(us) : Writes(us[i], values[i]),
         NEW vs, vs = [i \in 1..Len(us) |-> values[i]]
  PROVE  ReadsAs(AppendPrefix("*", Len(us)) \o FlattenSeq(us), ArrayOf(vs))
  <1>1. PICK n \in Nat : n = Len(us)
    OBVIOUS
  <1> DEFINE M == {[units |-> us[i], meaning |-> values[i]] : i \in 1..n}
             items == [i \in 1..n |-> [units |-> us[i], meaning |-> values[i]]]
  <1>2. items \in Seq(M) /\ Len(items) = n /\ DOMAIN items = 1..n
    <2>1. \A i \in 1..n : items[i] \in M
      OBVIOUS
    <2>2. items = [i \in 1..n |-> items[i]]
      OBVIOUS
    <2> HIDE DEF M, items
    <2> QED
      BY <2>1, <2>2
  <1>3. \A m \in M : ReadsAs(m.units, m.meaning)
    BY <1>1 DEF Writes
  <1>4. /\ [i \in DOMAIN items |-> items[i].units] = us
        /\ [i \in DOMAIN items |-> items[i].meaning] = vs
    <2>1. [i \in DOMAIN items |-> items[i].units] = [i \in 1..n |-> us[i]]
      BY <1>2
    <2>2. us = [i \in 1..n |-> us[i]]
      BY <1>1
    <2>3. [i \in DOMAIN items |-> items[i].meaning] = vs
      BY <1>1, <1>2
    <2> QED
      BY <2>1, <2>2, <2>3
  <1> HIDE DEF M, items
  <1>5. ReadsAs(Array(items).units, Array(items).meaning)
    BY <1>1, <1>2, <1>3, ArrayReads
  <1>6. /\ Array(items).units = Serialize(ArrayOf(vs), us) /\ Array(items).meaning = ArrayOf(vs)
    BY <1>4 DEF Array
  <1>7. ArrayOf(vs).type = "array" /\ ArrayOf(vs).array = vs
    BY DEF ArrayOf, Value
  <1>8. Len(vs) = n
    BY <1>1
  <1>9. Serialize(ArrayOf(vs), us) = <<Number("*", n), CRLF>> \o FlattenSeq(us)
    BY <1>7, <1>8 DEF Serialize
  <1> QED
    BY <1>1, <1>5, <1>6, <1>9 DEF AppendPrefix

\* It is answered if it is a command.
LEMMA ArrayAnswered ==
  ASSUME NEW us \in Seq(Bytes), Len(us) <= MaxInt,
         NEW values, \A i \in 1..Len(us) : Writes(us[i], values[i]),
         NEW vs, vs = [i \in 1..Len(us) |-> values[i]],
         NEW m, m.typed = FALSE, m.units = AppendPrefix("*", Len(us)) \o FlattenSeq(us)
  PROVE  Answered(m) /\ ReadsAs(m.units, ArrayOf(vs))
  <1>0. ReadsAs(m.units, ArrayOf(vs))
    BY ArrayIsRead
  <1>1. PICK n \in Nat : n = Len(us)
    OBVIOUS
  <1>2. PICK value : value = ArrayOf(vs)
    OBVIOUS
  <1> DEFINE h == Number("*", n)
             data == [i \in 1..n |-> vs[i].data]
             bulks == {i \in 1..n : vs[i].type = "bulk"}
             all == \A i \in 1..n : i \in bulks
  <1>3. /\ value.type = "array" /\ value.array = vs /\ DOMAIN value.array = 1..n
        /\ \A i \in 1..n : vs[i] = values[i]
    BY <1>1, <1>2 DEF ArrayOf, Value
  <1>4. (\A i \in DOMAIN value.array : value.array[i].type = "bulk") <=> all
    BY <1>3
  <1>5. ArgsOf(value) = FirstArgs(data, n)
    <2>1. ArgsOf(value) = [i \in 1..n |-> vs[i].data]
      BY <1>3 DEF ArgsOf
    <2> QED
      BY <2>1 DEF FirstArgs
  <1>6. Elements(us, bulks, data)
    <2> SUFFICES ASSUME NEW i \in 1..Len(us)
                 PROVE  IF i \in bulks THEN data[i] \in Bytes /\ Len(data[i]) <= MaxInt /\ us[i] = AppendBulk(data[i])
                        ELSE NeverBulk(us[i])
      BY DEF Elements
    <2>1. i \in 1..n /\ Writes(us[i], vs[i]) /\ data[i] = vs[i].data
      BY <1>1, <1>3
    <2>2. i \in bulks <=> vs[i].type = "bulk"
      BY <2>1
    <2> HIDE DEF data, bulks
    <2> QED
      BY <2>1, <2>2 DEF Writes
  <1>7. h \in AnyUnit /\ h # CRLF /\ h.tag = "*" /\ h.n = n /\ CRLF \in AnyUnit /\ Wrap(n) = n
    <2>1. h \in AnyUnit /\ h.tag = "*" /\ h.n = n /\ CRLF \in AnyUnit /\ CRLF.tag = "crlf"
      BY UnitTypes
    <2>2. n \in MinInt..MaxInt
      BY <1>1, RespAssumption DEF MinInt
    <2>3. Wrap(n) = n
      BY <2>2, WordIsKept
    <2> HIDE DEF h
    <2> QED
      BY <2>1, <2>3
  <1>8. PICK joint : Joints(joint, us) /\ FlattenSeq(us) = joint[n]
    BY <1>1, FlattenIsLastJoint
  <1>9. PICK tail \in Bytes : tail = joint[n]
    BY <1>8, FlattenIsBytes
  <1>10. m.units = <<h, CRLF>> \o tail
    BY <1>1, <1>8, <1>9 DEF AppendPrefix
  <1> HIDE DEF h, data, bulks, all
  <1>11. PICK p \in Bytes : p = <<h, CRLF>> /\ Len(p) = 2
    BY <1>7, TwoUnits
  <1>12. PICK size \in Nat : size = Len(tail)
    BY DEF Bytes
  <1>13. Len(m.units) = size + 2
    <2>1. Len(p \o tail) = Len(p) + Len(tail)
      BY <1>11, ConcatProperties DEF Bytes
    <2>2. m.units = p \o tail
      BY <1>10, <1>11
    <2>3. Len(m.units) = Len(p) + Len(tail)
      BY <2>1, <2>2
    <2> QED
      BY <1>11, <1>12, <2>3
  <1>14. ASSUME NEW b \in Bytes, NEW at \in 1..(Len(b) + 1), Begins(b, at, m.units)
         PROVE  IF all /\ at + Len(m.units) <= Len(b) + 1
                THEN \E end \in Int : /\ end = at + Len(m.units) - 1
                                      /\ ParseNextCommand(b, at) =
                                           Result("array", SubSeq(b, at, end), ArgsOf(value), end + 1)
                ELSE ~ParseNextCommand(b, at).complete
    <2>0. Len(b) \in Nat /\ at \in Nat \ {0}
      BY DEF Bytes
    <2>1. Begins(b, at, <<h, CRLF>>) /\ Begins(b, at + 2, tail)
      <3>1. Begins(b, at, p \o tail)
        BY <1>10, <1>11, <1>14
      <3>2. Begins(b, at, p) /\ Begins(b, at + Len(p), tail)
        BY <2>0, <3>1, BeginsConcat
      <3> QED
        BY <1>11, <3>2
    <2>2. /\ FindCRLF(b, at) = IF at + 1 <= Len(b) THEN at + 1 ELSE 0
          /\ at <= Len(b) => b[at] = h
      BY <1>7, <2>1, HeaderIsFound
    <2>3. at <= Len(b) => ParseNextCommand(b, at) = ParseCommandArray(b, at)
      BY <1>7, <2>0, <2>2 DEF ParseNextCommand
    <2>4. CASE at + 1 <= Len(b)
      <3>1. PICK end \in Nat \ {0} : end = at + 1
        BY <2>0
      <3>2. at <= Len(b) /\ FindCRLF(b, at) = end /\ Wrap(b[at].n) = n /\ end # 0 /\ IsNumber(at, end) /\ ~(n < 0)
        BY <1>7, <2>0, <2>2, <2>4, <3>1 DEF IsNumber
      <3>3. PICK from \in 1..(Len(b) + 1) : from = end + 1
        BY <2>0, <2>4, <3>1
      <3>4. PICK state : ElementsOf(state, b, from, n) /\ ParseElements(b, from, n) = state[n]
        BY ParseElementsIs
      <3>5. Begins(b, from, joint[n])
        <4>1. from = at + 2
          BY <2>0, <3>1, <3>3
        <4> QED
          BY <1>9, <2>1, <4>1
      <3>6. IF all /\ from + size <= Len(b) + 1
            THEN state[n] = [ok |-> TRUE, pos |-> from + size, args |-> FirstArgs(data, n)]
            ELSE ~state[n].ok
        <4>1. \A k \in 0..Len(us) :
                IF (\A i \in 1..k : i \in bulks) /\ from + Len(joint[k]) <= Len(b) + 1
                THEN state[k] = [ok |-> TRUE, pos |-> from + Len(joint[k]), args |-> FirstArgs(data, k)]
                ELSE ~state[k].ok
          BY <1>1, <1>6, <1>8, <3>4, <3>5, ElementsRead
        <4>2. n \in 0..Len(us) /\ Len(joint[n]) = size
          BY <1>1, <1>9, <1>12
        <4> QED
          BY <4>1, <4>2 DEF all
      <3>7. ParseCommandArray(b, at) =
              LET s == state[n] IN
              IF s.ok THEN Result("array", SubSeq(b, at, s.pos - 1), s.args, s.pos) ELSE NoResult(s.pos)
        BY <3>2, <3>3, <3>4 DEF ParseCommandArray
      <3>8. PICK last \in Int : last = at + Len(m.units) - 1 /\ last + 1 = from + size
                               /\ (from + size) - 1 = last
        <4>1. from = at + 2
          BY <2>0, <3>1, <3>3
        <4>2. PICK last \in Int : last = at + size + 1
          BY <2>0
        <4>3. last + 1 = from + size /\ (from + size) - 1 = last
          BY <2>0, <4>1, <4>2
        <4>4. PICK width \in Int : width = size + 2
          OBVIOUS
        <4>5. last = at + width - 1
          BY <2>0, <4>2, <4>4
        <4> QED
          BY <1>13, <4>3, <4>4, <4>5
      <3>9. at + Len(m.units) <= Len(b) + 1 <=> from + size <= Len(b) + 1
        BY <1>13, <2>0, <3>1, <3>3
      <3>10. CASE all /\ from + size <= Len(b) + 1
        <4>1. ParseCommandArray(b, at) = Result("array", SubSeq(b, at, last), FirstArgs(data, n), last + 1)
          BY <3>6, <3>7, <3>8, <3>10
        <4> QED
          BY <1>5, <2>3, <3>2, <3>8, <3>9, <3>10, <4>1
      <3>11. CASE ~(all /\ from + size <= Len(b) + 1)
        <4>1. ~ParseCommandArray(b, at).complete
          BY <3>6, <3>7, <3>11 DEF NoResult
        <4> QED
          BY <2>3, <3>2, <3>9, <3>11, <4>1
      <3> QED
        BY <3>10, <3>11
    <2>5. CASE ~(at + 1 <= Len(b))
      <3>1. ~(at + Len(m.units) <= Len(b) + 1)
        BY <1>13, <2>0, <2>5
      <3>2. ~ParseCommandArray(b, at).complete
        BY <2>2, <2>5 DEF ParseCommandArray, NoResult
      <3>3. ~ParseNextCommand(b, at).complete
        BY <2>3, <3>2, NothingAtEnd
      <3> QED
        BY <3>1, <3>3
    <2> QED
      BY <2>4, <2>5
  <1>15. Answered(m)
    <2>1. ReadsAs(m.units, value)
      BY <1>0, <1>2
    <2>2. ASSUME NEW b \in Bytes, NEW at \in 1..(Len(b) + 1), Begins(b, at, m.units)
          PROVE  IF /\ \A i \in DOMAIN value.array : value.array[i].type = "bulk"
                    /\ at + Len(m.units) <= Len(b) + 1
                 THEN \E end \in Int : /\ end = at + Len(m.units) - 1
                                       /\ ParseNextCommand(b, at) =
                                            Result("array", SubSeq(b, at, end), ArgsOf(value), end + 1)
                 ELSE ~ParseNextCommand(b, at).complete
      BY <1>4, <1>14, <2>2
    <2>3. AnsweredAs(m, value, "array")
      BY <2>2 DEF AnsweredAs
    <2> QED
      BY <2>1, <2>3, ValueAnswered
  <1> QED
    BY <1>0, <1>15

\* A typed line whose arguments are those that the grammar gives it.
LEMMA LineAnswered ==
  ASSUME NEW m, m.typed = TRUE, NEW text \in Bytes, IsLine(text), m.units = Append(text, CRLF),
         Meant(text) = InlineArgs(text)
  PROVE  Answered(m) /\ IsCommand(m)
  <1>0. text \in Bytes /\ \A i \in 1..Len(text) : text[i] # CRLF
    BY DEF IsLine
  <1>1. CRLF \in AnyUnit /\ <<CRLF>> \in Bytes /\ Len(<<CRLF>>) = 1 /\ CRLF.tag = "crlf" /\ <<CRLF>>[1] = CRLF
    BY TwoUnits, UnitTypes
  <1>2. PICK size \in Nat : size = Len(text)
    BY <1>0 DEF Bytes
  <1>3. PICK u \in Bytes : u = m.units /\ u = text \o <<CRLF>> /\ Len(u) = size + 1 /\ u # <<>>
    <2>1. Append(text, CRLF) = text \o <<CRLF>>
      BY <1>0, <1>1, AppendIsConcat DEF Bytes
    <2>2. /\ text \o <<CRLF>> \in Bytes /\ Len(text \o <<CRLF>>) = Len(text) + Len(<<CRLF>>)
      BY <1>0, <1>1, ConcatProperties DEF Bytes
    <2>3. PICK u \in Bytes : u = text \o <<CRLF>>
      BY <2>2
    <2>4. Len(u) = size + 1
      BY <1>1, <1>2, <2>2, <2>3
    <2>5. u # <<>>
      BY <1>2, <2>4
    <2> QED
      BY <2>1, <2>3, <2>4, <2>5
  <1>7. Len(u) = size + 1
    BY <1>3
  <1>4. IsCommand(m)
    BY DEF IsCommand
  <1>5. ExpectedArgs(m) = InlineArgs(text)
    <2>1. SubSeq(u, 1, size) = text
      <3>1. /\ \A i \in 1..(size + 1) : u[i] = IF i <= size THEN text[i] ELSE <<CRLF>>[i - size]
        BY <1>0, <1>1, <1>2, <1>3, ConcatProperties DEF Bytes
      <3>2. \A i \in 1..size : u[i] = text[i] /\ u[i] \in AnyUnit
        BY <1>0, <1>2, <3>1 DEF Bytes
      <3>3. PICK v \in Bytes : v = SubSeq(u, 1, size) /\ Len(v) = size /\ \A i \in 1..size : v[i] = u[i]
        <4>1. /\ SubSeq(u, 1, size) \in Seq(AnyUnit)
              /\ Len(SubSeq(u, 1, size)) = IF 1 <= size THEN size - 1 + 1 ELSE 0
              /\ \A i \in 1..(size - 1 + 1) : SubSeq(u, 1, size)[i] = u[1 + i - 1]
          BY <3>2, SubSeqProperties
        <4>2. (IF 1 <= size THEN size - 1 + 1 ELSE 0) = size /\ size - 1 + 1 = size /\ \A i \in 1..size : 1 + i - 1 = i
          OBVIOUS
        <4> QED
          BY <4>1, <4>2 DEF Bytes
      <3> QED
        BY <1>0, <1>2, <3>2, <3>3, SeqEqual DEF Bytes
    <2>2. Len(m.units) - 1 = size
      BY <1>2, <1>3
    <2>3. SubSeq(m.units, 1, Len(m.units) - 1) = text
      BY <1>3, <2>1, <2>2
    <2> QED
      BY <2>3 DEF ExpectedArgs
  <1>6. ASSUME NEW b \in Bytes, NEW at \in 1..(Len(b) + 1), Begins(b, at, u)
        PROVE  IF at + Len(u) <= Len(b) + 1 THEN IsAnswer(ParseNextCommand(b, at), m, at)
               ELSE ~ParseNextCommand(b, at).complete
    <2>0. Len(b) \in Nat /\ at \in Nat \ {0}
      BY DEF Bytes
    <2>1. /\ Begins(b, at, text) /\ Begins(b, at + size, <<CRLF>>)
          /\ FindCRLF(b, at) = IF at + size <= Len(b) THEN at + size ELSE 0
      <3>1. Begins(b, at, text \o <<CRLF>>)
        BY <1>3, <1>6
      <3> QED
        BY <1>0, <1>2, <3>1, TextLineIsFound
    <2>2. at <= Len(b) => b[at].tag \notin {"*", "+", "-", ":", "$"}
      <3>1. CASE text = <<>>
        <4>1. 1 \in 1..Len(<<CRLF>>) /\ (at + size) + 1 - 1 = at
          BY <1>1, <1>2, <2>0, <3>1
        <4> QED
          BY <1>1, <2>1, <4>1 DEF Begins
      <3>2. CASE text # <<>>
        <4>1. 1 \in 1..Len(text) /\ at + 1 - 1 = at
          BY <1>0, <2>0, <3>2 DEF Bytes
        <4> QED
          BY <2>1, <3>2, <4>1 DEF Begins, IsLine
      <3> QED
        BY <3>1, <3>2
    <2>3. at <= Len(b) => ParseNextCommand(b, at) = ParseInlineCommand(b, at)
      BY <2>0, <2>2 DEF ParseNextCommand
    <2>4. CASE at + size <= Len(b)
      <3>1. PICK end \in Nat \ {0} : end = at + size
        BY <2>0
      <3>2. at <= Len(b) /\ FindCRLF(b, at) = end /\ end <= Len(b)
        BY <2>0, <2>1, <2>4, <3>1
      <3>3. SubSeq(b, at, end - 1) = text
        <4>1. PICK last \in Int : last = end - 1
          OBVIOUS
        <4>2. last = at + Len(text) - 1 /\ last <= Len(b)
          BY <1>2, <2>0, <2>4, <3>1, <4>1
        <4> QED
          BY <1>0, <2>0, <2>1, <4>1, <4>2, PieceIs
      <3>4. SubSeq(b, at, end) = u
        <4>1. end = at + (size + 1) - 1
          BY <2>0, <3>1
        <4>2. end = at + Len(u) - 1
          BY <1>7, <4>1
        <4> QED
          BY <1>6, <2>0, <3>2, <4>2, PieceIs
      <3>5. PICK r : r = ParseNextCommand(b, at)
        OBVIOUS
      <3>6. r = IF InlineArgs(text) = <<>> THEN Result("none", <<>>, <<>>, end + 1)
                ELSE Result("array", SubSeq(b, 1, end), InlineArgs(text), end + 1)
        BY <2>3, <3>1, <3>2, <3>3, <3>5 DEF ParseInlineCommand
      <3>7. r.complete /\ r.pos = end + 1 /\ r.args = InlineArgs(text)
        BY <3>6 DEF Result
      <3>8. r.type # "none" => RawIsTheCommand(r, m)
        <4> SUFFICES ASSUME r.type # "none" PROVE RawIsTheCommand(r, m)
          OBVIOUS
        <4>1. r.raw = SubSeq(b, 1, end)
          BY <3>6 DEF Result
        <4>2. PICK raw \in Bytes : raw = SubSeq(b, 1, end) /\ Len(raw) = end
          <5>1. \A i \in 1..end : b[i] \in AnyUnit
            BY <2>0, <3>2 DEF Bytes
          <5>2. /\ SubSeq(b, 1, end) \in Seq(AnyUnit)
                /\ Len(SubSeq(b, 1, end)) = IF 1 <= end THEN end - 1 + 1 ELSE 0
            BY <5>1, SubSeqProperties
          <5>3. (IF 1 <= end THEN end - 1 + 1 ELSE 0) = end
            OBVIOUS
          <5> QED
            BY <5>2, <5>3 DEF Bytes
        <4>3. SubSeq(raw, at, end) = u
          <5>1. /\ 1 \in 1..Len(b) /\ end \in 1..Len(b) /\ at \in 1..(end - 1 + 1) /\ end \in 1..(end - 1 + 1)
                /\ 1 + at - 1 = at /\ 1 + end - 1 = end
            BY <2>0, <3>1, <3>2
          <5>2. SubSeq(SubSeq(b, 1, end), at, end) = SubSeq(b, at, end)
            BY <5>1, SubSeqOfSubSeq DEF Bytes
          <5> QED
            BY <3>4, <4>2, <5>2
        <4>4. Len(r.raw) - Len(m.units) + 1 = at /\ Len(r.raw) = end
          <5>1. Len(r.raw) = end /\ Len(m.units) = size + 1
            BY <1>3, <4>1, <4>2
          <5> QED
            BY <2>0, <3>1, <5>1
        <4> QED
          BY <1>3, <4>1, <4>2, <4>3, <4>4 DEF RawIsTheCommand
      <3>9. end + 1 = at + Len(u) /\ at + Len(u) <= Len(b) + 1
        BY <1>7, <2>0, <2>4, <3>1
      <3>10. IsAnswer(r, m, at)
        BY <1>3, <1>5, <3>7, <3>8, <3>9 DEF IsAnswer
      <3> QED
        BY <3>5, <3>9, <3>10
    <2>5. CASE ~(at + size <= Len(b))
      <3>1. ~(at + Len(u) <= Len(b) + 1)
        BY <1>3, <2>0, <2>5
      <3>2. FindCRLF(b, at) = 0
        BY <2>1, <2>5
      <3>3. ~ParseInlineCommand(b, at).complete
        BY <3>2 DEF ParseInlineCommand, NoResult
      <3>4. ~ParseNextCommand(b, at).complete
        BY <2>3, <3>3, NothingAtEnd
      <3> QED
        BY <3>1, <3>4
    <2> QED
      BY <2>4, <2>5
  <1> QED
    BY <1>3, <1>4, <1>6 DEF Answered

-----------------------------------------------------------------------------
(* What is on its way                                                      *)

\* The bytes of the messages behind the first from, up to the first to.
Between(s, from, to) == [i \in 1..(to - from) |-> s[from + i].units]

\* They are the messages one by one.
LEMMA BetweenIs ==
  ASSUME NEW M, \A m \in M : m.units \in Bytes, NEW s \in Seq(M),
         NEW from \in Nat, NEW to \in Nat, from <= to, to <= Len(s)
  PROVE  /\ Between(s, from, to) \in Seq(Bytes) /\ Len(Between(s, from, to)) = to - from
         /\ \A i \in 1..(to - from) :
              from + i \in 1..Len(s) /\ Between(s, from, to)[i] = s[from + i].units
  <1>1. PICK n \in Nat : n = to - from
    OBVIOUS
  <1> DEFINE t == [i \in 1..n |-> s[from + i].units]
  <1>2. t = Between(s, from, to)
    BY <1>1 DEF Between
  <1>3. \A i \in 1..n : from + i \in 1..Len(s)
    BY <1>1
  <1>4. \A i \in 1..n : t[i] = s[from + i].units /\ s[from + i].units \in Bytes
    BY <1>3
  <1>5. t \in Seq(Bytes) /\ Len(t) = n
    <2>1. t = [i \in 1..n |-> t[i]] /\ \A i \in 1..n : t[i] \in Bytes
      BY <1>4
    <2> HIDE DEF t
    <2> QED
      BY <2>1
  <1> HIDE DEF t
  <1> QED
    BY <1>1, <1>2, <1>3, <1>4, <1>5

\* One more at the end.
LEMMA BetweenAppend ==
  ASSUME NEW M, \A m \in M : m.units \in Bytes, NEW s \in Seq(M),
         NEW from \in Nat, NEW to \in Nat, from <= to, to < Len(s)
  PROVE  /\ s[to + 1].units \in Bytes
         /\ FlattenSeq(Between(s, from, to + 1)) = FlattenSeq(Between(s, from, to)) \o s[to + 1].units
  <1>1. PICK n \in Nat : n = to - from /\ (to + 1) - from = n + 1 /\ from + (n + 1) = to + 1
    OBVIOUS
  <1>2. s[to + 1] \in M /\ s[to + 1].units \in Bytes
    OBVIOUS
  <1>3. PICK old \in Seq(Bytes) : /\ old = Between(s, from, to) /\ Len(old) = n
                                 /\ \A i \in 1..n : old[i] = s[from + i].units
    <2>1. from <= to /\ to <= Len(s)
      OBVIOUS
    <2>2. /\ Between(s, from, to) \in Seq(Bytes) /\ Len(Between(s, from, to)) = to - from
          /\ \A i \in 1..(to - from) : Between(s, from, to)[i] = s[from + i].units
      BY <2>1, BetweenIs
    <2> QED
      BY <1>1, <2>2
  <1>4. PICK new \in Seq(Bytes) : /\ new = Between(s, from, to + 1) /\ Len(new) = n + 1
                                 /\ \A i \in 1..(n + 1) : new[i] = s[from + i].units
    <2>1. PICK k \in Nat : k = to + 1
      OBVIOUS
    <2>3. from <= k /\ k <= Len(s)
      BY <2>1
    <2>2. /\ Between(s, from, k) \in Seq(Bytes) /\ Len(Between(s, from, k)) = k - from
          /\ \A i \in 1..(k - from) : Between(s, from, k)[i] = s[from + i].units
      BY <2>3, BetweenIs
    <2> QED
      BY <1>1, <2>1, <2>2
  <1>5. PICK u \in Bytes : u = s[to + 1].units
    BY <1>2
  <1>6. new = Append(old, u)
    <2>1. /\ Append(old, u) \in Seq(Bytes) /\ Len(Append(old, u)) = n + 1 /\ Append(old, u)[n + 1] = u
          /\ \A i \in 1..n : Append(old, u)[i] = old[i]
      BY <1>3, AppendProperties
    <2>2. ASSUME NEW i \in 1..(n + 1) PROVE new[i] = Append(old, u)[i]
      <3>1. CASE i = n + 1
        BY <1>1, <1>4, <1>5, <2>1, <3>1
      <3>2. CASE i # n + 1
        <4>1. i \in 1..n
          BY <3>2
        <4>2. new[i] = s[from + i].units
          BY <1>4
        <4>3. old[i] = s[from + i].units
          BY <1>3, <4>1
        <4>4. Append(old, u)[i] = old[i]
          BY <2>1, <4>1
        <4> QED
          BY <4>2, <4>3, <4>4
      <3> QED
        BY <3>1, <3>2
    <2> QED
      BY <1>4, <2>1, <2>2, SeqEqual
  <1>7. FlattenSeq(new) = FlattenSeq(old) \o u
    BY <1>6, FlattenAppend
  <1> QED
    BY <1>2, <1>3, <1>4, <1>5, <1>7

\* The first is in front.
LEMMA BetweenHead ==
  ASSUME NEW M, \A m \in M : m.units \in Bytes, NEW s \in Seq(M),
         NEW from \in Nat, NEW to \in Nat, from < to, to <= Len(s)
  PROVE  FlattenSeq(Between(s, from, to)) = s[from + 1].units \o FlattenSeq(Between(s, from + 1, to))
  <1>1. PICK n \in Nat : n = to - (from + 1) /\ to - from = n + 1
    OBVIOUS
  <1>2. PICK old \in Seq(Bytes) : /\ old = Between(s, from, to) /\ Len(old) = n + 1
                                 /\ \A i \in 1..(n + 1) : old[i] = s[from + i].units
    <2>1. from <= to
      OBVIOUS
    <2>2. /\ Between(s, from, to) \in Seq(Bytes) /\ Len(Between(s, from, to)) = to - from
          /\ \A i \in 1..(to - from) : Between(s, from, to)[i] = s[from + i].units
      BY <2>1, BetweenIs
    <2> QED
      BY <1>1, <2>2
  <1>3. PICK new \in Seq(Bytes) : /\ new = Between(s, from + 1, to) /\ Len(new) = n
                                 /\ \A i \in 1..n : new[i] = s[from + 1 + i].units
    <2>1. PICK k \in Nat : k = from + 1
      OBVIOUS
    <2>3. k <= to
      BY <2>1
    <2>2. /\ Between(s, k, to) \in Seq(Bytes) /\ Len(Between(s, k, to)) = to - k
          /\ \A i \in 1..(to - k) : Between(s, k, to)[i] = s[k + i].units
      BY <2>3, BetweenIs
    <2> QED
      BY <1>1, <2>1, <2>2
  <1>4. old # <<>> /\ old[1] = s[from + 1].units
    BY <1>2
  <1>5. new = Tail(old)
    <2>1. /\ Tail(old) \in Seq(Bytes) /\ Len(Tail(old)) = n
          /\ \A i \in 1..n : Tail(old)[i] = old[i + 1]
      BY <1>2, <1>4, HeadTailProperties
    <2>2. ASSUME NEW i \in 1..n PROVE new[i] = Tail(old)[i]
      <3>1. from + 1 + i = from + (i + 1) /\ i + 1 \in 1..(n + 1)
        OBVIOUS
      <3> QED
        BY <1>2, <1>3, <2>1, <3>1
    <2> QED
      BY <1>3, <2>1, <2>2, SeqEqual
  <1>6. FlattenSeq(old) = old[1] \o FlattenSeq(Tail(old))
    BY <1>4, FlattenHead
  <1> QED
    BY <1>2, <1>3, <1>4, <1>5, <1>6

\* A buffer of which the part from at on continues into u and d begins with u there,
\* and continues into d behind it.
LEMMA CutFront ==
  ASSUME NEW b \in Bytes, NEW at \in 1..(Len(b) + 1), NEW c \in Bytes, NEW u \in Bytes, NEW d \in Bytes,
         SubSeq(b, at, Len(b)) \o c = u \o d
  PROVE  /\ Begins(b, at, u)
         /\ at + Len(u) <= Len(b) + 1 => SubSeq(b, at + Len(u), Len(b)) \o c = d
  <1>0. Len(b) \in Nat /\ at \in Nat \ {0}
    BY DEF Bytes
  <1>1. PICK a \in Bytes : /\ a = SubSeq(b, at, Len(b)) /\ Len(a) = Len(b) + 1 - at
                          /\ \A k \in 1..(Len(b) + 1 - at) : a[k] = b[at + k - 1]
    <2>1. /\ SubSeq(b, at, Len(b)) \in Bytes
          /\ Len(SubSeq(b, at, Len(b))) = IF at <= Len(b) THEN Len(b) - at + 1 ELSE 0
          /\ \A k \in 1..(Len(b) - at + 1) : SubSeq(b, at, Len(b))[k] = b[at + k - 1]
      BY <1>0, PartIsBytes
    <2>2. (IF at <= Len(b) THEN Len(b) - at + 1 ELSE 0) = Len(b) + 1 - at /\ Len(b) - at + 1 = Len(b) + 1 - at
      BY <1>0
    <2> QED
      BY <2>1, <2>2
  <1>2. PICK size \in Nat : size = Len(u)
    BY DEF Bytes
  <1>3. PICK width \in Nat : width = Len(a)
    BY DEF Bytes
  <1>4. Begins(b, at, u)
    <2> SUFFICES ASSUME NEW i \in 1..size, at + i - 1 <= Len(b) PROVE b[at + i - 1] = u[i]
      BY <1>2 DEF Begins
    <2>1. i \in 1..width /\ i \in 1..(Len(b) + 1 - at)
      BY <1>0, <1>1, <1>3
    <2>2. /\ \A k \in 1..(Len(a) + Len(c)) : (a \o c)[k] = IF k <= Len(a) THEN a[k] ELSE c[k - Len(a)]
          /\ \A k \in 1..(Len(u) + Len(d)) : (u \o d)[k] = IF k <= Len(u) THEN u[k] ELSE d[k - Len(u)]
      BY ConcatProperties DEF Bytes
    <2>3. Len(c) \in Nat /\ Len(d) \in Nat
      BY DEF Bytes
    <2>4. i \in 1..(Len(a) + Len(c)) /\ i <= Len(a) /\ i \in 1..(Len(u) + Len(d)) /\ i <= Len(u)
      BY <1>2, <1>3, <2>1, <2>3
    <2>5. (a \o c)[i] = a[i] /\ (u \o d)[i] = u[i]
      BY <2>2, <2>4
    <2>6. a \o c = u \o d
      BY <1>1
    <2> QED
      BY <1>1, <2>1, <2>5, <2>6
  <1>5. ASSUME at + Len(u) <= Len(b) + 1
        PROVE  SubSeq(b, at + Len(u), Len(b)) \o c = d
    <2>1. PICK last \in Int : last = at + size - 1 /\ last + 1 = at + size /\ last <= Len(b)
      <3>1. PICK last \in Int : last = at + size - 1
        BY <1>0
      <3>2. at + size <= Len(b) + 1
        BY <1>2, <1>5
      <3>3. last + 1 = at + size /\ last <= Len(b)
        BY <1>0, <3>1, <3>2
      <3> QED
        BY <3>1, <3>3
    <2>2. SubSeq(b, at, last) = u
      BY <1>0, <1>2, <1>4, <2>1, PieceIs
    <2>3. PICK e \in Bytes : e = SubSeq(b, last + 1, Len(b))
      <3>1. PICK next \in Nat \ {0} : next = last + 1
        BY <1>0, <2>1
      <3>2. SubSeq(b, next, Len(b)) \in Bytes
        BY <1>0, PartIsBytes
      <3> QED
        BY <3>1, <3>2
    <2>4. u \o e = a
      <3>1. last \in (at - 1)..Len(b) /\ Len(b) \in last..Len(b)
        BY <1>0, <2>1
      <3>2. SubSeq(b, at, last) \o SubSeq(b, last + 1, Len(b)) = SubSeq(b, at, Len(b))
        BY <3>1, ConcatAdjacentSubSeq DEF Bytes
      <3> QED
        BY <1>1, <2>2, <2>3, <3>2
    <2>5. (u \o e) \o c = u \o (e \o c) /\ e \o c \in Bytes
      BY ZenonT(60), ConcatBytes
    <2>6. PICK f \in Bytes : f = e \o c
      BY <2>5
    <2>7. u \o f = u \o d
      BY <1>1, <2>4, <2>5, <2>6
    <2>8. f = d
      BY <2>7, ConcatSimplifications DEF Bytes
    <2> QED
      BY <1>2, <2>1, <2>3, <2>6, <2>8
  <1> QED
    BY <1>4, <1>5

-----------------------------------------------------------------------------
(* The connection                                                          *)

\* The peer sends messages of M, each of which is answered as it should be.
AllAnswered(M) == Scripts \subseteq Seq(M) /\ \A m \in M : Answered(m)

\* What is not used yet: in the buffer b from at on, under way and in the writer.
Left(b, at, w, o) == (SubSeq(b, at, Len(b)) \o w) \o o

\* It is what flat begins with, and all of it unless a flush has failed.
Kept(left, failed, flat) ==
  \E lost \in Bytes : left \o lost = flat /\ (~failed => lost = <<>>)

Answers == {ParseNextCommand(b, at) : b \in Bytes, at \in Nat}

LegacyTypes ==
  /\ script \in Scripts /\ done \in 0..Len(script)
  /\ out \in Bytes /\ wire \in Bytes /\ buf \in Bytes
  /\ broken \in BOOLEAN /\ parsing \in BOOLEAN
  /\ mark \in 1..(Len(buf) + 1) /\ (parsing => pos = mark)
  /\ results \in Seq(Answers) /\ Len(results) <= done

Pending == FlattenSeq(Between(script, Len(results), done))

LegacyInv ==
  /\ LegacyTypes
  /\ Kept(Left(buf, mark, wire, out), broken, Pending)
  /\ ReturnsWhatWasSent
  /\ WaitsOnlyForTheRest

\* What the types say of lengths.
LEMMA LegacyFacts ==
  ASSUME NEW M, AllAnswered(M), LegacyTypes
  PROVE  /\ script \in Seq(M) /\ Len(script) \in Nat /\ \A m \in M : m.units \in Bytes
         /\ done \in Nat /\ done <= Len(script)
         /\ Len(results) \in Nat /\ Len(results) <= done /\ Len(results) <= Len(script)
         /\ Len(buf) \in Nat /\ mark \in Nat \ {0} /\ mark <= Len(buf) + 1
         /\ SubSeq(buf, mark, Len(buf)) \in Bytes
         /\ Len(SubSeq(buf, mark, Len(buf))) = Len(buf) - mark + 1
         /\ Left(buf, mark, wire, out) \in Bytes
  <1>1. script \in Seq(M) /\ \A m \in M : m.units \in Bytes
    BY DEF LegacyTypes, AllAnswered, Answered
  <1>2. Len(script) \in Nat /\ Len(results) \in Nat
    BY <1>1, LenProperties DEF LegacyTypes
  <1>3. /\ done \in Nat /\ done <= Len(script) /\ Len(results) <= done
    BY <1>2 DEF LegacyTypes
  <1>4. Len(buf) \in Nat /\ mark \in Nat \ {0} /\ mark <= Len(buf) + 1 /\ buf \in Bytes /\ wire \in Bytes /\ out \in Bytes
    BY DEF LegacyTypes, Bytes
  <1>5. /\ SubSeq(buf, mark, Len(buf)) \in Bytes
        /\ Len(SubSeq(buf, mark, Len(buf))) = IF mark <= Len(buf) THEN Len(buf) - mark + 1 ELSE 0
    BY <1>4, PartIsBytes
  <1>6. (IF mark <= Len(buf) THEN Len(buf) - mark + 1 ELSE 0) = Len(buf) - mark + 1
    BY <1>4
  <1>7. Left(buf, mark, wire, out) \in Bytes
    BY <1>4, <1>5, ConcatBytes DEF Left
  <1> QED
    BY <1>1, <1>2, <1>3, <1>4, <1>5, <1>6, <1>7

\* With nothing on its way the buffer is used up.
LEMMA NothingLeft ==
  ASSUME NEW M, AllAnswered(M), LegacyInv, Len(results) = done
  PROVE  mark = Len(buf) + 1
  <1>1. Pending = <<>>
    <2>1. done - done = 0
      BY LegacyFacts DEF LegacyInv
    <2>2. Between(script, Len(results), done) = <<>>
      BY <2>1 DEF Between
    <2> QED
      BY <2>2 DEF Pending, FlattenSeq
  <1>2. PICK lost \in Bytes : Left(buf, mark, wire, out) \o lost = <<>>
    BY <1>1 DEF LegacyInv, Kept
  <1>3. Left(buf, mark, wire, out) = <<>>
    <2>1. Left(buf, mark, wire, out) \in Bytes
      BY LegacyFacts DEF LegacyInv
    <2> QED
      BY <1>2, <2>1, ConcatEqualIffEmpty DEF Bytes
  <1>4. PICK a \in Bytes : a = SubSeq(buf, mark, Len(buf)) /\ Len(a) = Len(buf) - mark + 1
    BY LegacyFacts DEF LegacyInv
  <1>5. a = <<>>
    <2>1. wire \in Bytes /\ out \in Bytes /\ (a \o wire) \o out = <<>> /\ a \o wire \in Bytes
      BY <1>3, <1>4, ConcatBytes DEF LegacyInv, LegacyTypes, Left
    <2> QED
      BY <2>1, ConcatEqualIffEmpty DEF Bytes
  <1>6. Len(a) = 0
    BY <1>5
  <1>7. Len(buf) - mark + 1 = 0 /\ Len(buf) \in Nat /\ mark \in Nat
    BY <1>4, <1>6, LegacyFacts DEF LegacyInv
  <1> QED
    BY <1>7

\* Concatenation of three.
LEMMA Associative ==
  \A a, b, c \in Bytes : (a \o b) \o c = a \o (b \o c)
  BY ConcatBytes

\* What follows the first of four parts.
Behind(w, o, l) == (w \o o) \o l

\* Concatenation of four.
LEMMA FourParts ==
  ASSUME NEW w \in Bytes, NEW o \in Bytes, NEW l \in Bytes, NEW a \in Bytes
  PROVE  Behind(w, o, l) \in Bytes /\ ((a \o w) \o o) \o l = a \o Behind(w, o, l)
  <1>1. PICK x \in Bytes : x = w \o o
    BY ConcatBytes
  <1>2. PICK c \in Bytes : c = x \o l
    BY ConcatBytes
  <1>3. (a \o w) \o o = a \o (w \o o)
    BY SMTT(30), Associative
  <1>4. (a \o x) \o l = a \o (x \o l)
    BY SMTT(30), Associative
  <1> QED
    BY <1>1, <1>2, <1>3, <1>4 DEF Behind

\* If u comes first in what is left, at is where it stands, and the rest comes next.
ComesFirst(b, at, w, o, lost, u, rest) ==
  Left(b, at, w, o) \o lost = u \o rest =>
    /\ Begins(b, at, u)
    /\ at + Len(u) <= Len(b) + 1 => Left(b, at + Len(u), w, o) \o lost = rest

\* CutFront for all that is left.
LEMMA LeftFront ==
  ASSUME NEW b \in Bytes, NEW at, NEW w \in Bytes, NEW o \in Bytes,
         NEW lost \in Bytes, NEW u \in Bytes, NEW rest \in Bytes
  PROVE  at \in 1..(Len(b) + 1) => ComesFirst(b, at, w, o, lost, u, rest)
  <1>1. PICK c \in Bytes : c = Behind(w, o, lost)
    BY FourParts
  <1>2. ASSUME NEW a \in Bytes PROVE ((a \o w) \o o) \o lost = a \o c
    <2>1. ((a \o w) \o o) \o lost = a \o Behind(w, o, lost)
      BY SMTT(30), FourParts
    <2> QED
      BY <1>1, <2>1
  <1>3. SUFFICES ASSUME at \in 1..(Len(b) + 1), Left(b, at, w, o) \o lost = u \o rest
                 PROVE  /\ Begins(b, at, u)
                        /\ at + Len(u) <= Len(b) + 1 => Left(b, at + Len(u), w, o) \o lost = rest
    BY DEF ComesFirst
  <1>4. Len(b) \in Nat /\ at \in Nat \ {0} /\ Len(u) \in Nat /\ SubSeq(b, at, Len(b)) \in Bytes
    <2>1. Len(b) \in Nat /\ at \in Nat \ {0} /\ Len(u) \in Nat
      BY <1>3 DEF Bytes
    <2> QED
      BY <2>1, PartIsBytes
  <1>5. SubSeq(b, at, Len(b)) \o c = u \o rest
    BY <1>2, <1>3, <1>4 DEF Left
  <1>6. /\ Begins(b, at, u)
        /\ at + Len(u) <= Len(b) + 1 => SubSeq(b, at + Len(u), Len(b)) \o c = rest
    BY <1>3, <1>5, CutFront
  <1>7. ASSUME at + Len(u) <= Len(b) + 1
        PROVE  Left(b, at + Len(u), w, o) \o lost = rest
    <2>1. PICK next \in Nat \ {0} : next = at + Len(u)
      BY <1>4
    <2>2. SubSeq(b, next, Len(b)) \in Bytes
      BY <1>4, PartIsBytes
    <2> QED
      BY <1>2, <1>6, <1>7, <2>1, <2>2 DEF Left
  <1> QED
    BY <1>6, <1>7

\* Otherwise the unused part begins with the next message, as far as it goes.
LEMMA NextPending ==
  ASSUME NEW M, AllAnswered(M), LegacyInv, Len(results) < done
  PROVE  LET m == script[Len(results) + 1] IN
         /\ m \in M /\ m.units \in Bytes /\ Len(m.units) \in Nat \ {0} /\ Begins(buf, mark, m.units)
         /\ mark + Len(m.units) <= Len(buf) + 1 =>
              Kept(Left(buf, mark + Len(m.units), wire, out), broken,
                   FlattenSeq(Between(script, Len(results) + 1, done)))
  <1>0. PICK m : m = script[Len(results) + 1]
    OBVIOUS
  <1>1. LegacyTypes
    BY DEF LegacyInv
  <1>2. /\ script \in Seq(M) /\ Len(script) \in Nat /\ \A k \in M : k.units \in Bytes
        /\ done \in Nat /\ done <= Len(script) /\ Len(results) \in Nat
        /\ Len(buf) \in Nat /\ mark \in Nat \ {0} /\ mark <= Len(buf) + 1
    BY <1>1, LegacyFacts
  <1>3. PICK from \in Nat : from = Len(results) /\ from < done
    BY <1>2
  <1>4. m \in M
    <2>1. from + 1 \in 1..Len(script)
      BY <1>2, <1>3
    <2> QED
      BY <1>0, <1>2, <1>3, <2>1
  <1>5. PICK u \in Bytes : u = m.units /\ u # <<>>
    BY <1>4 DEF AllAnswered, Answered
  <1>6. Len(u) \in Nat \ {0}
    BY <1>5 DEF Bytes
  <1>7. PICK rest \in Bytes : rest = FlattenSeq(Between(script, from + 1, done))
    <2>1. PICK k \in Nat : k = from + 1
      OBVIOUS
    <2>2. k <= done
      BY <1>2, <1>3, <2>1
    <2>3. Between(script, k, done) \in Seq(Bytes)
      BY <1>2, <2>2, BetweenIs
    <2> QED
      BY <2>1, <2>3, FlattenIsBytes
  <1>8. Pending = u \o rest
    BY <1>0, <1>2, <1>3, <1>5, <1>7, BetweenHead DEF Pending
  <1>9. PICK lost \in Bytes : Left(buf, mark, wire, out) \o lost = u \o rest /\ (~broken => lost = <<>>)
    BY <1>8 DEF LegacyInv, Kept
  <1>10. /\ Begins(buf, mark, u)
         /\ mark + Len(u) <= Len(buf) + 1 => Left(buf, mark + Len(u), wire, out) \o lost = rest
    <2>1. buf \in Bytes /\ wire \in Bytes /\ out \in Bytes /\ mark \in 1..(Len(buf) + 1)
      BY <1>1 DEF LegacyTypes
    <2>2. ComesFirst(buf, mark, wire, out, lost, u, rest)
      BY <2>1, LeftFront
    <2> QED
      BY <1>9, <2>2 DEF ComesFirst
  <1>11. mark + Len(u) <= Len(buf) + 1 => Kept(Left(buf, mark + Len(u), wire, out), broken, rest)
    BY <1>9, <1>10 DEF Kept
  <1> QED
    BY <1>0, <1>3, <1>4, <1>5, <1>6, <1>7, <1>10, <1>11

\* The peer appends or types one more.
LEMMA PeerStep ==
  ASSUME NEW M, AllAnswered(M), LegacyInv, Peer
  PROVE  LegacyInv'
  <1>1. PICK m : m = script[done + 1]
    OBVIOUS
  <1>2. /\ ~broken /\ done < Len(script) /\ done' = done + 1 /\ script' = script /\ broken' = broken
        /\ buf' = buf /\ pos' = pos /\ mark' = mark /\ parsing' = parsing /\ results' = results
        /\ \/ ~m.typed /\ out' = out \o m.units /\ wire' = wire
           \/ m.typed /\ out = <<>> /\ wire' = wire \o m.units /\ out' = out
    BY <1>1 DEF Peer, Readers
  <1>3. /\ LegacyTypes /\ script \in Seq(M) /\ Len(script) \in Nat /\ \A k \in M : k.units \in Bytes
        /\ done \in Nat /\ Len(results) \in Nat /\ Len(results) <= done /\ Len(buf) \in Nat /\ mark \in Nat \ {0}
    BY LegacyFacts DEF LegacyInv
  <1>4. m \in M
    <2>1. done + 1 \in 1..Len(script)
      BY <1>2, <1>3
    <2> QED
      BY <1>1, <1>3, <2>1
  <1>5. PICK u \in Bytes : u = m.units /\ u # <<>>
    BY <1>4 DEF AllAnswered, Answered
  <1>6. wire \in Bytes /\ out \in Bytes
    BY <1>3 DEF LegacyTypes
  <1>7. wire' \in Bytes /\ out' \in Bytes
    <2>1. wire \o u \in Bytes /\ out \o u \in Bytes
      BY <1>6, ConcatBytes
    <2> QED
      BY <1>2, <1>5, <1>6, <2>1
  <1>8. LegacyTypes'
    <2>1. done + 1 \in 0..Len(script) /\ Len(results) <= done + 1
      BY <1>2, <1>3
    <2> QED
      BY <1>2, <1>3, <1>7, <2>1 DEF LegacyTypes
  <1>9. Pending' = Pending \o u
    <2>1. FlattenSeq(Between(script, Len(results), done + 1)) = FlattenSeq(Between(script, Len(results), done)) \o u
      BY <1>1, <1>2, <1>3, <1>5, BetweenAppend
    <2> QED
      BY <1>2, <2>1 DEF Pending
  <1>10. Left(buf, mark, wire, out) = Pending
    <2>1. Left(buf, mark, wire, out) \in Bytes
      BY <1>3, LegacyFacts
    <2>2. Left(buf, mark, wire, out) \o <<>> = Pending
      BY <1>2 DEF LegacyInv, Kept
    <2> QED
      BY <2>1, <2>2, ConcatBytes
  <1>11. Left(buf, mark, wire', out') = Left(buf, mark, wire, out) \o u
    <2>1. PICK a \in Bytes : a = SubSeq(buf, mark, Len(buf))
      BY <1>3, LegacyFacts
    <2>2. CASE out' = out \o u /\ wire' = wire
      <3>1. ASSUME NEW w \in Bytes, NEW o \in Bytes PROVE (a \o w) \o (o \o u) = ((a \o w) \o o) \o u
        <4>1. PICK x \in Bytes : x = a \o w
          BY ConcatBytes
        <4>2. x \o (o \o u) = (x \o o) \o u
          BY ZenonT(60), ConcatBytes
        <4> QED
          BY <4>1, <4>2
      <3> QED
        BY <1>6, <2>1, <2>2, <3>1 DEF Left
    <2>3. CASE out = <<>> /\ wire' = wire \o u /\ out' = out
      <3>1. ASSUME NEW w \in Bytes PROVE (a \o (w \o u)) \o <<>> = ((a \o w) \o <<>>) \o u
        <4>1. a \o (w \o u) = (a \o w) \o u /\ w \o u \in Bytes /\ a \o w \in Bytes /\ a \o (w \o u) \in Bytes
          BY ConcatBytes
        <4>2. (a \o (w \o u)) \o <<>> = a \o (w \o u) /\ (a \o w) \o <<>> = a \o w
          BY <4>1, ConcatBytes
        <4> QED
          BY <4>1, <4>2
      <3> QED
        BY <1>6, <2>1, <2>3, <3>1 DEF Left
    <2> QED
      BY <1>2, <1>5, <2>2, <2>3
  <1>12. Kept(Left(buf, mark, wire, out), broken, Pending)'
    <2>1. PICK l \in Bytes : l = Left(buf, mark, wire', out')
      BY <1>3, <1>5, <1>11, LegacyFacts, ConcatBytes
    <2>2. l = Pending' /\ l \o <<>> = l
      BY <1>9, <1>10, <1>11, <2>1, ConcatBytes
    <2> QED
      BY <1>2, <2>1, <2>2, ConcatBytes DEF Kept
  <1>13. ReturnsWhatWasSent'
    BY <1>2 DEF LegacyInv, ReturnsWhatWasSent
  <1>14. WaitsOnlyForTheRest'
    <2> SUFFICES ASSUME ~parsing, Len(results) < done + 1, IsCommand(script[Len(results) + 1])
                 PROVE  Len(buf) - mark + 1 < Len(script[Len(results) + 1].units)
      BY <1>2 DEF WaitsOnlyForTheRest
    <2>1. CASE Len(results) < done
      BY <2>1 DEF LegacyInv, WaitsOnlyForTheRest
    <2>2. CASE ~(Len(results) < done)
      <3>1. Len(results) = done
        BY <1>3, <2>2
      <3>2. mark = Len(buf) + 1
        BY <3>1, NothingLeft
      <3>3. Len(buf) - mark + 1 = 0
        BY <1>3, <3>2
      <3>4. Len(u) > 0
        BY <1>5 DEF Bytes
      <3> QED
        BY <1>1, <1>5, <3>1, <3>3, <3>4
    <2> QED
      BY <2>1, <2>2
  <1> QED
    BY <1>8, <1>12, <1>13, <1>14 DEF LegacyInv

\* The writer flushes some of what it holds, or all of it if that does not fail.
LEMMA FlushStep ==
  ASSUME NEW M, AllAnswered(M), LegacyInv, NEW a \in Bytes, NEW c \in Bytes, out = a \o c,
         ~broken, broken' \in BOOLEAN, ~broken' => c = <<>>,
         wire' = wire \o a, out' = <<>>, UNCHANGED <<script, done, Readers>>
  PROVE  LegacyInv'
  <1>1. /\ done' = done /\ script' = script /\ buf' = buf /\ pos' = pos /\ mark' = mark
        /\ parsing' = parsing /\ results' = results /\ Pending' = Pending
    BY DEF Readers, Pending
  <1>2. LegacyTypes /\ wire \in Bytes /\ out \in Bytes
    BY DEF LegacyInv, LegacyTypes
  <1>3. LegacyTypes'
    <2>1. wire' \in Bytes /\ out' \in Bytes
      BY <1>2, ConcatBytes
    <2> QED
      BY <1>1, <1>2, <2>1 DEF LegacyTypes
  <1>4. Left(buf, mark, wire, out) = Pending
    <2>1. Left(buf, mark, wire, out) \in Bytes
      BY <1>2, LegacyFacts
    <2>2. Left(buf, mark, wire, out) \o <<>> = Pending
      BY DEF LegacyInv, Kept
    <2> QED
      BY <2>1, <2>2, ConcatBytes
  <1>5. Left(buf, mark, wire', out') \o c = Pending
    <2>1. PICK p \in Bytes : p = SubSeq(buf, mark, Len(buf))
      BY <1>2, LegacyFacts
    <2>2. ASSUME NEW w \in Bytes PROVE ((p \o (w \o a)) \o <<>>) \o c = (p \o w) \o (a \o c)
      <3>1. p \o (w \o a) = (p \o w) \o a /\ p \o w \in Bytes /\ w \o a \in Bytes /\ p \o (w \o a) \in Bytes
        BY ConcatBytes
      <3>2. (p \o (w \o a)) \o <<>> = (p \o w) \o a
        BY <3>1, ConcatBytes
      <3>3. ((p \o w) \o a) \o c = (p \o w) \o (a \o c)
        BY ZenonT(60), <3>1, ConcatBytes
      <3> QED
        BY <3>2, <3>3
    <2> QED
      BY <1>2, <1>4, <2>1, <2>2 DEF Left
  <1>6. Kept(Left(buf, mark, wire, out), broken, Pending)'
    BY <1>1, <1>5 DEF Kept
  <1>7. ReturnsWhatWasSent' /\ WaitsOnlyForTheRest'
    BY <1>1 DEF LegacyInv, ReturnsWhatWasSent, WaitsOnlyForTheRest
  <1> QED
    BY <1>3, <1>6, <1>7 DEF LegacyInv

\* The caller reads on and gives the rest to the parser.
LEMMA ReceiveStep ==
  ASSUME NEW M, AllAnswered(M), OwnMark = TRUE, LegacyInv, Receive
  PROVE  LegacyInv'
  <1>1. /\ pos' = 1 /\ mark' = 1 /\ parsing' = TRUE /\ results' = results /\ script' = script
        /\ done' = done /\ out' = out /\ broken' = broken /\ Pending' = Pending
    BY DEF Receive, Writers, Pending
  <1>2. /\ LegacyTypes /\ wire \in Bytes /\ out \in Bytes /\ Len(wire) \in Nat
        /\ SubSeq(buf, mark, Len(buf)) \in Bytes
    BY LegacyFacts DEF LegacyInv, LegacyTypes, Bytes
  <1>3. PICK n \in 1..Len(wire) : /\ buf' = SubSeq(buf, mark, Len(buf)) \o SubSeq(wire, 1, n)
                                 /\ wire' = SubSeq(wire, n + 1, Len(wire))
    BY DEF Receive
  <1>4. PICK a \in Bytes : a = SubSeq(wire, 1, n)
    <2>1. n \in Int /\ n <= Len(wire) /\ 1 \in Nat \ {0}
      BY <1>2
    <2>2. SubSeq(wire, 1, n) \in Bytes
      BY <1>2, <2>1, PartIsBytes
    <2> QED
      BY <2>2
  <1>5. PICK c \in Bytes : c = SubSeq(wire, n + 1, Len(wire))
    <2>1. PICK k \in Nat \ {0} : k = n + 1
      BY <1>2
    <2>2. SubSeq(wire, k, Len(wire)) \in Bytes
      BY <1>2, PartIsBytes
    <2> QED
      BY <2>1, <2>2
  <1>6. a \o c = wire
    <2>1. n \in (1 - 1)..Len(wire) /\ Len(wire) \in n..Len(wire) /\ 1 \in 1..(Len(wire) + 1)
      BY <1>2
    <2>2. SubSeq(wire, 1, n) \o SubSeq(wire, n + 1, Len(wire)) = SubSeq(wire, 1, Len(wire))
      BY <1>2, <2>1, ConcatAdjacentSubSeq DEF Bytes
    <2>3. SubSeq(wire, 1, Len(wire)) = wire
      BY <1>2, SubSeqFull DEF Bytes
    <2> QED
      BY <1>4, <1>5, <2>2, <2>3
  <1>7. PICK p \in Bytes : p = SubSeq(buf, mark, Len(buf))
    BY <1>2
  <1>8. buf' \in Bytes /\ wire' = c /\ buf' = p \o a
    BY <1>3, <1>4, <1>5, <1>7, ConcatBytes
  <1>9. SubSeq(buf', 1, Len(buf')) = p \o a
    BY <1>8, SubSeqFull DEF Bytes
  <1>10. Left(buf', 1, wire', out') = Left(buf, mark, wire, out)
    <2>1. (p \o a) \o c = p \o (a \o c)
      BY ConcatBytes
    <2> QED
      BY <1>1, <1>6, <1>7, <1>8, <1>9, <2>1 DEF Left
  <1>11. LegacyTypes'
    <2>1. 1 \in 1..(Len(buf') + 1)
      <3>1. Len(buf') \in Nat
        BY <1>8 DEF Bytes
      <3> QED
        BY <3>1
    <2> QED
      BY <1>1, <1>2, <1>8, <2>1 DEF LegacyTypes
  <1>12. Kept(Left(buf, mark, wire, out), broken, Pending)'
    BY <1>1, <1>10 DEF LegacyInv
  <1>13. ReturnsWhatWasSent' /\ WaitsOnlyForTheRest'
    BY <1>1 DEF LegacyInv, ReturnsWhatWasSent, WaitsOnlyForTheRest
  <1> QED
    BY <1>11, <1>12, <1>13 DEF LegacyInv

\* The parser answers, with the next message or with nothing.
LEMMA AskStep ==
  ASSUME NEW M, AllAnswered(M), LegacyInv, Ask
  PROVE  LegacyInv'
  <1>1. PICK r : r = ParseNextCommand(buf, mark)
    OBVIOUS
  <1>2. /\ parsing /\ pos' = r.pos /\ script' = script /\ done' = done /\ out' = out /\ broken' = broken
        /\ wire' = wire /\ buf' = buf
        /\ IF r.complete THEN results' = Append(results, r) /\ mark' = r.pos /\ parsing' = parsing
           ELSE parsing' = FALSE /\ results' = results /\ mark' = mark
    BY <1>1 DEF Ask, LegacyInv, LegacyTypes, Writers
  <1>3. /\ LegacyTypes /\ script \in Seq(M) /\ Len(script) \in Nat /\ done \in Nat /\ done <= Len(script)
        /\ Len(results) \in Nat /\ Len(results) <= done /\ Len(buf) \in Nat /\ mark \in Nat \ {0}
        /\ buf \in Bytes /\ mark \in 1..(Len(buf) + 1) /\ results \in Seq(Answers) /\ parsing \in BOOLEAN
    BY LegacyFacts DEF LegacyInv, LegacyTypes
  <1>4. CASE Len(results) = done
    <2>1. mark = Len(buf) + 1
      BY <1>4, NothingLeft
    <2>2. ~r.complete
      <3>1. ~(mark <= Len(buf))
        BY <1>3, <2>1
      <3> QED
        BY <1>1, <1>3, <3>1, NothingAtEnd
    <2>3. /\ parsing' = FALSE /\ results' = results /\ mark' = mark /\ Pending' = Pending
      BY <1>2, <2>2 DEF Pending
    <2>4. LegacyTypes'
      BY <1>2, <1>3, <2>3 DEF LegacyTypes
    <2>5. Kept(Left(buf, mark, wire, out), broken, Pending)'
      BY <1>2, <2>3 DEF LegacyInv
    <2>6. ~(Len(results') < done')
      BY <1>2, <1>3, <1>4, <2>3
    <2>7. ReturnsWhatWasSent' /\ WaitsOnlyForTheRest'
      BY <1>2, <2>3, <2>6 DEF LegacyInv, ReturnsWhatWasSent, WaitsOnlyForTheRest
    <2> QED
      BY <2>4, <2>5, <2>7 DEF LegacyInv
  <1>5. CASE Len(results) < done
    <2>1. PICK m : m = script[Len(results) + 1]
      OBVIOUS
    <2>2. /\ m \in M /\ m.units \in Bytes /\ Len(m.units) \in Nat \ {0} /\ Begins(buf, mark, m.units)
          /\ mark + Len(m.units) <= Len(buf) + 1 =>
               Kept(Left(buf, mark + Len(m.units), wire, out), broken,
                    FlattenSeq(Between(script, Len(results) + 1, done)))
      BY <1>5, <2>1, NextPending
    <2>3. IF IsCommand(m) /\ mark + Len(m.units) <= Len(buf) + 1 THEN IsAnswer(r, m, mark) ELSE ~r.complete
      BY <1>1, <1>3, <2>2 DEF AllAnswered, Answered
    <2>4. CASE ~r.complete
      <3>1. parsing' = FALSE /\ results' = results /\ mark' = mark /\ Pending' = Pending
        BY <1>2, <2>4 DEF Pending
      <3>2. LegacyTypes'
        BY <1>2, <1>3, <3>1 DEF LegacyTypes
      <3>3. Kept(Left(buf, mark, wire, out), broken, Pending)'
        BY <1>2, <3>1 DEF LegacyInv
      <3>4. WaitsOnlyForTheRest'
        <4> SUFFICES ASSUME IsCommand(m) PROVE Len(buf) - mark + 1 < Len(m.units)
          BY <1>2, <2>1, <3>1 DEF WaitsOnlyForTheRest
        <4>1. ~(mark + Len(m.units) <= Len(buf) + 1)
          BY <2>3, <2>4 DEF IsAnswer
        <4>2. PICK size \in Nat : size = Len(m.units)
          BY <2>2
        <4> QED
          BY <1>3, <4>1, <4>2
      <3>5. ReturnsWhatWasSent'
        BY <1>2, <3>1 DEF LegacyInv, ReturnsWhatWasSent
      <3> QED
        BY <3>2, <3>3, <3>4, <3>5 DEF LegacyInv
    <2>5. CASE r.complete
      <3>1. IsAnswer(r, m, mark) /\ mark + Len(m.units) <= Len(buf) + 1
        BY <2>3, <2>5
      <3>2. PICK next \in 1..(Len(buf) + 1) : next = mark + Len(m.units)
        BY <1>3, <2>2, <3>1
      <3>3. /\ results' = Append(results, r) /\ mark' = next /\ parsing' = parsing /\ pos' = next
        BY <1>2, <2>5, <3>1, <3>2 DEF IsAnswer
      <3>4. PICK n \in Nat : n = Len(results)
        BY <1>3
      <3>5. /\ results' \in Seq(Answers) /\ Len(results') = n + 1 /\ results'[n + 1] = r
            /\ \A i \in 1..n : results'[i] = results[i]
        <4>1. r \in Answers
          BY <1>1, <1>3 DEF Answers
        <4> QED
          BY <1>3, <3>3, <3>4, <4>1, AppendProperties
      <3>6. LegacyTypes'
        <4>1. n + 1 <= done
          BY <1>3, <1>5, <3>4
        <4>2. Len(results') <= done' /\ mark' \in 1..(Len(buf') + 1)
          BY <1>2, <3>2, <3>3, <3>5, <4>1
        <4> QED
          BY <1>2, <1>3, <3>3, <3>5, <4>2 DEF LegacyTypes
      <3>7. Kept(Left(buf, mark, wire, out), broken, Pending)'
        <4>1. Pending' = FlattenSeq(Between(script, n + 1, done))
          BY <1>2, <3>5 DEF Pending
        <4> QED
          BY <1>2, <2>2, <3>1, <3>2, <3>3, <3>4, <4>1
      <3>8. ReturnsWhatWasSent'
        <4>1. ASSUME NEW i \in 1..(n + 1)
              PROVE  /\ results'[i].args = ExpectedArgs(script[i])
                     /\ results'[i].type # "none" => RawIsTheCommand(results'[i], script[i])
          <5>1. CASE i = n + 1
            BY <2>1, <3>1, <3>4, <3>5, <5>1 DEF IsAnswer
          <5>2. CASE i # n + 1
            <6>1. i \in 1..n /\ i \in DOMAIN results
              BY <1>3, <3>4, <5>2
            <6> QED
              BY <3>5, <6>1 DEF LegacyInv, ReturnsWhatWasSent
          <5> QED
            BY <5>1, <5>2
        <4>2. DOMAIN results' = 1..(n + 1)
          BY <3>5
        <4> QED
          BY <1>2, <4>1, <4>2 DEF ReturnsWhatWasSent
      <3>9. WaitsOnlyForTheRest'
        BY <1>2, <3>3 DEF WaitsOnlyForTheRest
      <3> QED
        BY <3>6, <3>7, <3>8, <3>9 DEF LegacyInv
    <2> QED
      BY <2>4, <2>5
  <1> QED
    BY <1>3, <1>4, <1>5

\* In every state the caller has what was sent so far, and the rest is on its way.
LEMMA LegacyInvariant ==
  ASSUME NEW M, AllAnswered(M), OwnMark = TRUE
  PROVE  Spec => []LegacyInv
  <1>1. Init => LegacyInv
    <2> SUFFICES ASSUME Init PROVE LegacyInv
      OBVIOUS
    <2>1. /\ script \in Scripts /\ done = 0 /\ out = <<>> /\ wire = <<>> /\ broken = FALSE
          /\ buf = <<>> /\ pos = 1 /\ mark = 1 /\ parsing = FALSE /\ results = <<>>
      BY DEF Init
    <2>2. script \in Seq(M) /\ Len(script) \in Nat
      BY <2>1 DEF AllAnswered
    <2>3. <<>> \in Bytes /\ Len(buf) = 0 /\ Len(results) = 0 /\ results \in Seq(Answers)
      BY <2>1 DEF Bytes
    <2>4. LegacyTypes
      <3>1. 0 \in 0..Len(script) /\ 1 \in 1..(Len(buf) + 1)
        BY <2>2, <2>3
      <3>2. 0 \in 0..Len(script) /\ 1 \in 1..(Len(buf) + 1) /\ Len(results) <= 0
        BY <2>3, <3>1
      <3>3. /\ done \in 0..Len(script) /\ mark \in 1..(Len(buf) + 1) /\ Len(results) <= done
        BY <2>1, <3>2
      <3>4. /\ out \in Bytes /\ wire \in Bytes /\ buf \in Bytes
        BY <2>1, <2>3
      <3>5. broken \in BOOLEAN /\ parsing \in BOOLEAN /\ ~parsing
        BY <2>1
      <3> QED
        BY <2>1, <2>3, <3>3, <3>4, <3>5 DEF LegacyTypes
    <2>5. Left(buf, mark, wire, out) = <<>>
      <3>1. SubSeq(buf, mark, Len(buf)) = <<>>
        BY <2>1, <2>3, SubSeqEmpty
      <3> QED
        BY <2>1, <2>3, <3>1, ConcatBytes DEF Left
    <2>6. Pending = <<>>
      <3>1. Between(script, Len(results), done) = <<>>
        BY <2>1, <2>3 DEF Between
      <3> QED
        BY <3>1 DEF Pending, FlattenSeq
    <2>7. Kept(Left(buf, mark, wire, out), broken, Pending)
      BY <2>3, <2>5, <2>6, ConcatBytes DEF Kept
    <2>8. ReturnsWhatWasSent /\ WaitsOnlyForTheRest
      BY <2>1, <2>3 DEF ReturnsWhatWasSent, WaitsOnlyForTheRest
    <2> QED
      BY <2>4, <2>7, <2>8 DEF LegacyInv
  <1>2. LegacyInv /\ [Next]_vars => LegacyInv'
    <2> SUFFICES ASSUME LegacyInv, [Next]_vars PROVE LegacyInv'
      OBVIOUS
    <2>0. out \in Bytes /\ Len(out) \in Nat /\ broken \in BOOLEAN
      BY DEF LegacyInv, LegacyTypes, Bytes
    <2>1. CASE Peer
      BY <2>1, PeerStep
    <2>2. CASE FlushOk
      <3>1. /\ ~broken /\ wire' = wire \o out /\ out' = <<>> /\ broken' = broken
            /\ UNCHANGED <<script, done, Readers>>
        BY <2>2 DEF FlushOk
      <3>2. PICK a \in Bytes : a = out
        BY <2>0
      <3>3. out = a \o <<>> /\ <<>> \in Bytes
        BY <3>2, ConcatBytes
      <3>4. wire' = wire \o a
        BY <3>1, <3>2
      <3> QED
        BY <2>0, <3>1, <3>3, <3>4, FlushStep
    <2>3. CASE FlushFails
      <3>1. PICK n \in 0..(Len(out) - 1) : wire' = wire \o SubSeq(out, 1, n)
        BY <2>3 DEF FlushFails
      <3>2. ~broken /\ out' = <<>> /\ broken' = TRUE /\ UNCHANGED <<script, done, Readers>>
        BY <2>3 DEF FlushFails
      <3>3. PICK a \in Bytes : a = SubSeq(out, 1, n)
        <4>1. n \in Int /\ n <= Len(out) /\ 1 \in Nat \ {0}
          BY <2>0
        <4>2. SubSeq(out, 1, n) \in Bytes
          BY <2>0, <4>1, PartIsBytes
        <4> QED
          BY <4>2
      <3>4. PICK c \in Bytes : c = SubSeq(out, n + 1, Len(out))
        <4>1. PICK k \in Nat \ {0} : k = n + 1
          BY <2>0
        <4>2. SubSeq(out, k, Len(out)) \in Bytes
          BY <2>0, PartIsBytes
        <4> QED
          BY <4>1, <4>2
      <3>5. out = a \o c
        <4>1. n \in (1 - 1)..Len(out) /\ Len(out) \in n..Len(out) /\ 1 \in 1..(Len(out) + 1)
          BY <2>0
        <4>2. SubSeq(out, 1, n) \o SubSeq(out, n + 1, Len(out)) = SubSeq(out, 1, Len(out))
          BY <2>0, <4>1, ConcatAdjacentSubSeq DEF Bytes
        <4>3. SubSeq(out, 1, Len(out)) = out
          BY <2>0, SubSeqFull DEF Bytes
        <4> QED
          BY <3>3, <3>4, <4>2, <4>3
      <3> QED
        BY <3>1, <3>2, <3>3, <3>5, FlushStep
    <2>4. CASE Receive
      BY <2>4, ReceiveStep
    <2>5. CASE Ask
      BY <2>5, AskStep
    <2>6. CASE UNCHANGED vars
      <3>1. UNCHANGED <<script, done, out, wire, broken, buf, pos, mark, parsing, results>>
        BY <2>6 DEF vars
      <3>2. LegacyTypes'
        BY <3>1 DEF LegacyInv, LegacyTypes
      <3>3. Kept(Left(buf, mark, wire, out), broken, Pending)'
        BY <3>1 DEF LegacyInv, Pending
      <3>4. ReturnsWhatWasSent' /\ WaitsOnlyForTheRest'
        BY <3>1 DEF LegacyInv, ReturnsWhatWasSent, WaitsOnlyForTheRest
      <3> QED
        BY <3>2, <3>3, <3>4 DEF LegacyInv
    <2> QED
      BY <2>1, <2>2, <2>3, <2>4, <2>5, <2>6 DEF Next, Quiescent
  <1> QED
    BY <1>1, <1>2, PTL DEF Spec

\* What the invariant says of the bytes on their way.
LEMMA KeptIsNothingLost ==
  ASSUME NEW M, AllAnswered(M), LegacyInv
  PROVE  NothingLostNothingKept
  <1>1. PICK left \in Bytes : left = Left(buf, mark, wire, out)
    BY LegacyFacts DEF LegacyInv
  <1>2. PICK lost \in Bytes : left \o lost = Pending /\ (~broken => lost = <<>>)
    BY <1>1 DEF LegacyInv, Kept
  <1>3. /\ left = SubSeq(buf, mark, Len(buf)) \o wire \o out
        /\ Pending = FlattenSeq([i \in 1..(done - Len(results)) |-> script[Len(results) + i].units])
    BY <1>1 DEF Left, Pending, Between
  <1>4. ~broken => left = Pending
    BY <1>2, ConcatBytes
  <1>5. IsPrefix(left, Pending)
    <2>1. PICK all \in Bytes : all = Pending /\ all = left \o lost
      BY <1>2, ConcatBytes
    <2>2. PICK size \in Nat : size = Len(left)
      BY DEF Bytes
    <2>3. /\ Len(all) = Len(left) + Len(lost)
          /\ \A i \in 1..(Len(left) + Len(lost)) : all[i] = IF i <= Len(left) THEN left[i] ELSE lost[i - Len(left)]
      BY <2>1, ConcatProperties DEF Bytes
    <2>4. Len(lost) \in Nat
      BY DEF Bytes
    <2>5. \A i \in 1..size : all[i] = left[i]
      BY <2>2, <2>3, <2>4
    <2>6. size <= Len(all) /\ Len(all) \in Nat
      BY <2>2, <2>3, <2>4
    <2>7. SubSeq(left, 1, size) = SubSeq(all, 1, size)
      <3>0. 1 \in Nat \ {0} /\ size \in Int /\ size <= Len(left) /\ size - 1 + 1 = size /\ \A i \in 1..size : 1 + i - 1 = i
        BY <2>2
      <3>a. ASSUME NEW t \in Bytes, size <= Len(t)
            PROVE  /\ SubSeq(t, 1, size) \in Bytes /\ Len(SubSeq(t, 1, size)) = size
                   /\ \A i \in 1..size : SubSeq(t, 1, size)[i] = t[i]
        <4>1. /\ SubSeq(t, 1, size) \in Bytes
              /\ Len(SubSeq(t, 1, size)) = IF 1 <= size THEN size - 1 + 1 ELSE 0
              /\ \A i \in 1..(size - 1 + 1) : SubSeq(t, 1, size)[i] = t[1 + i - 1]
          BY <3>0, <3>a, PartIsBytes
        <4>2. (IF 1 <= size THEN size - 1 + 1 ELSE 0) = size
          OBVIOUS
        <4> QED
          BY <3>0, <4>1, <4>2
      <3>1. PICK x \in Bytes : x = SubSeq(left, 1, size) /\ Len(x) = size /\ \A i \in 1..size : x[i] = left[i]
        BY <3>0, <3>a
      <3>2. PICK y \in Bytes : y = SubSeq(all, 1, size) /\ Len(y) = size /\ \A i \in 1..size : y[i] = all[i]
        BY <2>6, <3>a
      <3>4. \A i \in 1..size : x[i] = y[i]
        BY <2>5, <3>1, <3>2
      <3> QED
        BY <3>1, <3>2, <3>4, SeqEqual DEF Bytes
    <2> QED
      BY <2>1, <2>2, <2>6, <2>7 DEF IsPrefix
  <1> QED
    BY <1>3, <1>4, <1>5 DEF NothingLostNothingKept

-----------------------------------------------------------------------------
(* The text of an error                                                    *)

\* Some positions in a sequence have a first and a last one.
LEMMA FirstAndLast ==
  ASSUME NEW n \in Nat, NEW T \in SUBSET (1..n), T # {}
  PROVE  /\ Min(T) \in T /\ \A i \in T : Min(T) <= i
         /\ Max(T) \in T /\ \A i \in T : i <= Max(T)
  <1>1. \E x \in T : \A y \in T : x <= y
    BY LeastNumber
  <1>2. \E x \in T : \A y \in T : x >= y
    <2> DEFINE U == {n - x : x \in T}
    <2>1. U \in SUBSET Nat /\ U # {}
      <3>1. ASSUME NEW x \in T PROVE n - x \in Nat
        <4>1. x \in 1..n
          OBVIOUS
        <4> QED
          BY <4>1
      <3>2. \E x \in T : TRUE
        OBVIOUS
      <3> QED
        BY <3>1, <3>2
    <2>2. PICK u \in U : \A w \in U : u <= w
      BY <2>1, LeastNumber
    <2>3. PICK x \in T : u = n - x
      BY <2>2
    <2>4. \A y \in T : n - x <= n - y
      BY <2>2, <2>3
    <2>5. \A y \in T : x >= y
      BY <2>4
    <2> QED
      BY <2>5
  <1> QED
    BY <1>1, <1>2 DEF Min, Max

\* A text without the spaces around it.
LEMMA TrimIs ==
  ASSUME NEW s \in Bytes
  PROVE  /\ Trim(s) \in Bytes
         /\ Trim(s) # <<>> => Len(Trim(s)) \in Nat \ {0} /\ Trim(s)[Len(Trim(s))] \notin {Space, CRLF}
         /\ s # <<>> /\ s[1] \notin {Space, CRLF} /\ s[Len(s)] \notin {Space, CRLF} => Trim(s) = s
  <1> DEFINE solid == {i \in DOMAIN s : s[i] \notin {Space, CRLF}}
  <1>1. PICK n \in Nat : n = Len(s) /\ DOMAIN s = 1..n
    BY DEF Bytes
  <1>2. Trim(s) = IF solid = {} THEN <<>> ELSE SubSeq(s, Min(solid), Max(solid))
    BY DEF Trim
  <1>3. CASE solid = {}
    <2>1. Trim(s) = <<>> /\ <<>> \in Bytes
      BY <1>2, <1>3, ConcatBytes
    <2>2. s # <<>> => s[1] \in {Space, CRLF}
      <3> SUFFICES ASSUME s # <<>> PROVE s[1] \in {Space, CRLF}
        OBVIOUS
      <3>1. 1 \in DOMAIN s
        BY <1>1 DEF Bytes
      <3> QED
        BY <1>3, <3>1
    <2> QED
      BY <2>1, <2>2
  <1>4. CASE solid # {}
    <2>1. solid \in SUBSET (1..n)
      BY <1>1
    <2>2. PICK i \in solid : i = Min(solid) /\ \A k \in solid : i <= k
      BY <1>4, <2>1, FirstAndLast
    <2>3. PICK j \in solid : j = Max(solid) /\ \A k \in solid : k <= j
      BY <1>4, <2>1, FirstAndLast
    <2>4. i \in 1..n /\ j \in 1..n /\ i <= j /\ s[j] \notin {Space, CRLF}
      BY <2>1, <2>2, <2>3
    <2>5. Trim(s) = SubSeq(s, i, j)
      BY <1>2, <1>4, <2>2, <2>3
    <2> HIDE DEF solid
    <2>6. /\ SubSeq(s, i, j) \in Bytes /\ Len(SubSeq(s, i, j)) = j - i + 1
          /\ \A k \in 1..(j - i + 1) : SubSeq(s, i, j)[k] = s[i + k - 1]
      <3>1. i \in Nat \ {0} /\ j \in Int /\ j <= Len(s)
        BY <1>1, <2>4
      <3>2. /\ SubSeq(s, i, j) \in Bytes
            /\ Len(SubSeq(s, i, j)) = IF i <= j THEN j - i + 1 ELSE 0
            /\ \A k \in 1..(j - i + 1) : SubSeq(s, i, j)[k] = s[i + k - 1]
        BY <3>1, PartIsBytes
      <3> QED
        BY <2>4, <3>2
    <2>7. j - i + 1 \in 1..(j - i + 1) /\ i + (j - i + 1) - 1 = j /\ j - i + 1 \in Nat \ {0}
      BY <2>4
    <2>8. SubSeq(s, i, j)[j - i + 1] = s[j]
      BY <2>6, <2>7
    <2>9. ASSUME s # <<>>, s[1] \notin {Space, CRLF}, s[Len(s)] \notin {Space, CRLF}
          PROVE  Trim(s) = s
      <3>1. n # 0
        BY <1>1, <2>4
      <3>2. 1 \in solid /\ n \in solid
        BY <1>1, <2>9, <3>1 DEF solid
      <3>3. i = 1 /\ j = n
        BY <2>2, <2>3, <2>4, <3>2
      <3> QED
        BY <1>1, <2>5, <3>3, SubSeqFull DEF Bytes
    <2>10. Trim(s) \in Bytes /\ Len(Trim(s)) \in Nat \ {0} /\ Trim(s)[Len(Trim(s))] \notin {Space, CRLF}
      BY <2>4, <2>5, <2>6, <2>7, <2>8
    <2> QED
      BY <2>9, <2>10
  <1> QED
    BY <1>3, <1>4

\* A text begins with an error type exactly if capitals lead to its end or to a space.
LEMMA ErrorTypeIs ==
  ASSUME NEW s \in Bytes
  PROVE  IsErrorType(s) <=>
           \E n \in 1..Len(s) : (n = Len(s) \/ s[n + 1] = Space) /\ \A i \in 1..n : s[i].tag = "upper"
  <1> DEFINE spaces == {i \in DOMAIN s : s[i] = Space}
             first  == IF spaces = {} THEN s ELSE SubSeq(s, 1, Min(spaces) - 1)
             Capitals(n) == (n = Len(s) \/ s[n + 1] = Space) /\ \A i \in 1..n : s[i].tag = "upper"
  <1>1. PICK size \in Nat : size = Len(s) /\ DOMAIN s = 1..size
    BY DEF Bytes
  <1>2. IsErrorType(s) <=> first # <<>> /\ \A i \in DOMAIN first : first[i].tag = "upper"
    BY DEF IsErrorType
  <1>3. Space.tag # "upper"
    BY DEF Space, Text, Unit
  <1>4. CASE spaces = {}
    <2>1. first = s /\ \A i \in 1..size : s[i] # Space
      BY <1>1, <1>4
    <2> HIDE DEF spaces, first
    <2>2. s # <<>> <=> size # 0
      BY <1>1 DEF Bytes
    <2>3. IsErrorType(s) <=> size # 0 /\ \A i \in 1..size : s[i].tag = "upper"
      BY <1>1, <1>2, <2>1, <2>2
    <2>4. ASSUME NEW n \in 1..size, Capitals(n) PROVE n = size
      <3>1. n + 1 \in 1..size => s[n + 1] # Space
        BY <2>1
      <3>2. n = size \/ s[n + 1] = Space
        BY <1>1, <2>4
      <3> QED
        BY <3>1, <3>2
    <2>5. size # 0 => size \in 1..size
      OBVIOUS
    <2>6. Capitals(size) <=> \A i \in 1..size : s[i].tag = "upper"
      BY <1>1
    <2> HIDE DEF Capitals
    <2>7. (\E n \in 1..size : Capitals(n)) <=> size # 0 /\ Capitals(size)
      BY <2>4, <2>5
    <2>8. IsErrorType(s) <=> \E n \in 1..size : Capitals(n)
      BY <2>3, <2>6, <2>7
    <2> QED
      BY <1>1, <2>8 DEF Capitals
  <1>5. CASE spaces # {}
    <2>1. PICK m \in spaces : m = Min(spaces) /\ \A i \in spaces : m <= i
      BY <1>1, <1>5, FirstAndLast
    <2>2. m \in 1..size /\ s[m] = Space /\ \A i \in 1..(m - 1) : s[i] # Space
      <3>1. \A i : i \in spaces <=> i \in 1..size /\ s[i] = Space
        BY <1>1
      <3>2. m \in 1..size /\ s[m] = Space /\ \A i \in 1..size : s[i] = Space => m <= i
        BY <2>1, <3>1
      <3> HIDE DEF spaces
      <3> QED
        BY <3>2
    <2>3. first = SubSeq(s, 1, m - 1)
      BY <1>5, <2>1
    <2> HIDE DEF spaces, first
    <2>4. PICK k \in Nat : k = m - 1
      BY <2>2
    <2>5. first \in Bytes /\ Len(first) = k /\ \A i \in 1..k : first[i] = s[i]
      <3>1. 1 \in Nat \ {0} /\ k \in Int /\ k <= Len(s) /\ k - 1 + 1 = k /\ \A i \in 1..k : 1 + i - 1 = i
        BY <1>1, <2>2, <2>4
      <3>2. /\ SubSeq(s, 1, k) \in Bytes
            /\ Len(SubSeq(s, 1, k)) = IF 1 <= k THEN k - 1 + 1 ELSE 0
            /\ \A i \in 1..(k - 1 + 1) : SubSeq(s, 1, k)[i] = s[1 + i - 1]
        BY <3>1, PartIsBytes
      <3>3. (IF 1 <= k THEN k - 1 + 1 ELSE 0) = k
        OBVIOUS
      <3> QED
        BY <2>3, <2>4, <3>1, <3>2, <3>3
    <2>6. (first # <<>> <=> k # 0) /\ DOMAIN first = 1..k
      BY <2>5 DEF Bytes
    <2>7. IsErrorType(s) <=> k # 0 /\ \A i \in 1..k : s[i].tag = "upper"
      BY <1>2, <2>5, <2>6
    <2>8. k + 1 = m /\ s[k + 1] = Space /\ k \in 0..size /\ (k # 0 => k \in 1..size)
      BY <2>2, <2>4
    <2>9. ASSUME NEW n \in 1..size, Capitals(n) PROVE n = k
      <3>1. ~(m <= n)
        BY <1>3, <2>2, <2>9
      <3>2. n # size
        BY <2>2, <3>1
      <3>3. s[n + 1] = Space /\ n + 1 \in 1..size
        BY <1>1, <2>9, <3>2
      <3>4. ~(n + 1 <= m - 1)
        BY <2>2, <3>3
      <3> QED
        BY <2>2, <2>4, <3>1, <3>4
    <2>10. Capitals(k) <=> \A i \in 1..k : s[i].tag = "upper"
      BY <2>8
    <2> HIDE DEF Capitals
    <2>11. (\E n \in 1..size : Capitals(n)) <=> k # 0 /\ Capitals(k)
      BY <2>8, <2>9
    <2>12. IsErrorType(s) <=> \E n \in 1..size : Capitals(n)
      BY <2>7, <2>10, <2>11
    <2> QED
      BY <1>1, <2>12 DEF Capitals
  <1> QED
    BY <1>4, <1>5

\* What stands at each place of a text without line ends.
LEMMA StrippedUnits ==
  ASSUME NEW s \in Bytes
  PROVE  /\ StripNewlines(s) \in Bytes /\ Len(StripNewlines(s)) = Len(s)
         /\ \A i \in 1..Len(s) : StripNewlines(s)[i] = IF s[i] = CRLF THEN Space ELSE s[i]
  BY StrippedText DEF StripNewlines, Bytes, Space

\* The type that an error has for want of another.
LEMMA ERRUnits ==
  /\ ERR \in Bytes /\ Len(ERR) = 3 /\ \A i \in 1..3 : ERR[i].tag = "upper"
  /\ ERR \o <<Space>> \in Bytes /\ Len(ERR \o <<Space>>) = 4
  /\ \A i \in 1..3 : (ERR \o <<Space>>)[i] = ERR[i]
  /\ (ERR \o <<Space>>)[4] = Space /\ Space # CRLF
  /\ \A u : u.tag = "upper" => u # Space /\ u # CRLF
  <1>1. Upper(4) \in AnyUnit /\ Upper(5) \in AnyUnit /\ Space \in AnyUnit /\ <<Space>> \in Bytes
    BY DEF Upper, Space, Text, Unit, AnyUnit, Tags, Bytes
  <1>2. ERR \in Bytes /\ Len(ERR) = 3 /\ \A i \in 1..3 : ERR[i].tag = "upper"
    BY <1>1 DEF ERR, Bytes, Upper, Unit
  <1>3. Len(<<Space>>) = 1 /\ <<Space>>[1] = Space
    OBVIOUS
  <1>4. /\ ERR \o <<Space>> \in Bytes /\ Len(ERR \o <<Space>>) = Len(ERR) + Len(<<Space>>)
        /\ \A i \in 1..(Len(ERR) + Len(<<Space>>)) :
             (ERR \o <<Space>>)[i] = IF i <= Len(ERR) THEN ERR[i] ELSE <<Space>>[i - Len(ERR)]
    BY <1>1, <1>2, ConcatProperties DEF Bytes
  <1>5. PICK s \in Bytes : s = ERR \o <<Space>>
    BY <1>4
  <1>6. Len(s) = 4 /\ (\A i \in 1..3 : s[i] = ERR[i]) /\ s[4] = Space
    <2>1. Len(s) = 4 /\ \A i \in 1..4 : s[i] = IF i <= 3 THEN ERR[i] ELSE <<Space>>[i - 3]
      BY <1>2, <1>3, <1>4, <1>5
    <2> QED
      BY <1>3, <2>1
  <1>7. Space # CRLF /\ \A u : u.tag = "upper" => u # Space /\ u # CRLF
    BY DEF Space, Text, CRLF, Unit
  <1> QED
    BY <1>2, <1>5, <1>6, <1>7

\* Without a type of its own an error gets that one.
LEMMA ERRAlone == Trim(ERR \o <<Space>>) = ERR
  <1>1. PICK s \in Bytes : s = ERR \o <<Space>> /\ Len(s) = 4 /\ (\A i \in 1..3 : s[i] = ERR[i]) /\ s[4] = Space
    BY ERRUnits
  <1> DEFINE solid == {i \in DOMAIN s : s[i] \notin {Space, CRLF}}
  <1>2. \A i : i \in solid <=> i \in 1..3
    BY <1>1, ERRUnits DEF Bytes
  <1>3. solid = 1..3
    BY <1>2
  <1>4. Trim(s) = IF solid = {} THEN <<>> ELSE SubSeq(s, Min(solid), Max(solid))
    BY DEF Trim
  <1> HIDE DEF solid
  <1>5. /\ solid # {} /\ Min(solid) \in 1..3 /\ Max(solid) \in 1..3
        /\ \A i \in 1..3 : Min(solid) <= i /\ i <= Max(solid)
    <2>1. solid \in SUBSET (1..3) /\ solid # {} /\ 3 \in Nat
      BY <1>3
    <2> QED
      BY <1>3, <2>1, FirstAndLast
  <1>6. Min(solid) = 1 /\ Max(solid) = 3
    BY <1>5
  <1>7. Trim(s) = SubSeq(s, 1, 3)
    BY <1>4, <1>5, <1>6
  <1>8. PICK t \in Bytes : t = SubSeq(s, 1, 3) /\ Len(t) = 3 /\ \A i \in 1..3 : t[i] = s[i]
    <2>1. 1 \in Nat \ {0} /\ 3 \in Int /\ 3 <= Len(s)
      BY <1>1
    <2>2. /\ SubSeq(s, 1, 3) \in Bytes /\ Len(SubSeq(s, 1, 3)) = IF 1 <= 3 THEN 3 - 1 + 1 ELSE 0
          /\ \A k \in 1..(3 - 1 + 1) : SubSeq(s, 1, 3)[k] = s[1 + k - 1]
      BY <2>1, PartIsBytes
    <2>3. (IF 1 <= 3 THEN 3 - 1 + 1 ELSE 0) = 3 /\ 3 - 1 + 1 = 3 /\ \A k \in 1..3 : 1 + k - 1 = k
      OBVIOUS
    <2> QED
      BY <2>2, <2>3
  <1>9. t = ERR
    <2>1. \A i \in 1..3 : t[i] = ERR[i]
      BY <1>1, <1>8
    <2> QED
      BY <1>8, <2>1, ERRUnits, SeqEqual DEF Bytes
  <1> QED
    BY <1>1, <1>7, <1>8, <1>9

\* Two texts one behind the other, unit by unit.
LEMMA JoinIs ==
  ASSUME NEW a \in Bytes, NEW c \in Bytes
  PROVE  \E s \in Bytes : /\ s = a \o c /\ Len(s) = Len(a) + Len(c)
                          /\ \A i \in 1..(Len(a) + Len(c)) : s[i] = IF i <= Len(a) THEN a[i] ELSE c[i - Len(a)]
  <1>1. /\ a \o c \in Bytes /\ Len(a \o c) = Len(a) + Len(c)
        /\ \A i \in 1..(Len(a) + Len(c)) : (a \o c)[i] = IF i <= Len(a) THEN a[i] ELSE c[i - Len(a)]
    BY ConcatProperties DEF Bytes
  <1>2. PICK s \in Bytes : s = a \o c
    BY <1>1
  <1> QED
    BY <1>1, <1>2

\* What is written for an error is the documented text, on one line.
LEMMA ErrorTextIs ==
  ASSUME NEW data \in Bytes
  PROVE  /\ PrefixERRIfNeeded(data) \in Bytes
         /\ StripNewlines(PrefixERRIfNeeded(data)) \in ErrorTexts(data)
  <1>1. PICK t \in Bytes : /\ t = Trim(data)
                           /\ t # <<>> => Len(t) \in Nat \ {0} /\ t[Len(t)] \notin {Space, CRLF}
    BY TrimIs
  <1>2. PICK x \in Bytes : x = ERR \o <<Space>> /\ Len(x) = 4 /\ x[4] = Space /\ \A i \in 1..3 : x[i].tag = "upper"
    BY ERRUnits
  <1>3. PrefixERRIfNeeded(data) = IF IsErrorType(t) THEN t ELSE Trim(x \o t)
    BY <1>1, <1>2 DEF PrefixERRIfNeeded
  <1>4. ErrorTexts(data) = {s \in {IF IsErrorType(t) THEN StripNewlines(t)
                                  ELSE IF t = <<>> THEN ERR ELSE x \o StripNewlines(t)} : IsErrorType(s)}
    BY <1>1, <1>2 DEF ErrorTexts
  <1>5. CASE IsErrorType(t)
    <2>1. PICK n \in 1..Len(t) : (n = Len(t) \/ t[n + 1] = Space) /\ \A i \in 1..n : t[i].tag = "upper"
      BY <1>5, ErrorTypeIs
    <2>2. PICK s \in Bytes : /\ s = StripNewlines(t) /\ Len(s) = Len(t)
                             /\ \A i \in 1..Len(t) : s[i] = IF t[i] = CRLF THEN Space ELSE t[i]
      BY StrippedUnits
    <2>3. Len(t) \in Nat
      BY DEF Bytes
    <2>4. \A i \in 1..n : s[i].tag = "upper"
      BY <2>1, <2>2, <2>3, ERRUnits
    <2>5. n = Len(s) \/ s[n + 1] = Space
      <3>1. n = Len(t) \/ n + 1 \in 1..Len(t)
        BY <2>3
      <3> QED
        BY <2>1, <2>2, <3>1, ERRUnits
    <2>6. n \in 1..Len(s)
      BY <2>2
    <2>7. IsErrorType(s)
      BY <2>4, <2>5, <2>6, ErrorTypeIs
    <2> QED
      BY <1>3, <1>4, <1>5, <2>2, <2>7
  <1>6. CASE ~IsErrorType(t) /\ t = <<>>
    <2>1. x \o t = x
      BY <1>6, ConcatBytes
    <2>2. PrefixERRIfNeeded(data) = ERR
      BY <1>2, <1>3, <1>6, <2>1, ERRAlone
    <2>3. PICK s \in Bytes : /\ s = StripNewlines(ERR) /\ Len(s) = 3
                             /\ \A i \in 1..3 : s[i] = IF ERR[i] = CRLF THEN Space ELSE ERR[i]
      BY ERRUnits, StrippedUnits
    <2>4. \A i \in 1..3 : s[i] = ERR[i]
      BY <2>3, ERRUnits
    <2>5. s = ERR
      BY <2>3, <2>4, ERRUnits, SeqEqual DEF Bytes
    <2>6. IsErrorType(ERR)
      <3>1. 3 \in 1..Len(ERR) /\ (3 = Len(ERR) \/ ERR[3 + 1] = Space) /\ \A i \in 1..3 : ERR[i].tag = "upper"
        BY ERRUnits
      <3> QED
        BY <3>1, ERRUnits, ErrorTypeIs
    <2>7. ErrorTexts(data) = {ERR}
      <3>1. ErrorTexts(data) = {q \in {ERR} : IsErrorType(q)}
        BY <1>4, <1>6
      <3> QED
        BY <2>6, <3>1
    <2> QED
      BY <2>2, <2>3, <2>5, <2>7, ERRUnits
  <1>7. CASE ~IsErrorType(t) /\ t # <<>>
    <2>1. PICK n \in Nat \ {0} : n = Len(t) /\ t[n] \notin {Space, CRLF}
      BY <1>1, <1>7
    <2>2. PICK s \in Bytes : /\ s = x \o t /\ Len(s) = 4 + n
                             /\ \A i \in 1..(4 + n) : s[i] = IF i <= 4 THEN x[i] ELSE t[i - 4]
      <3>1. PICK s \in Bytes :
              /\ s = x \o t /\ Len(s) = Len(x) + Len(t)
              /\ \A i \in 1..(Len(x) + Len(t)) : s[i] = IF i <= Len(x) THEN x[i] ELSE t[i - Len(x)]
        BY JoinIs
      <3>2. Len(x) = 4 /\ Len(t) = n
        BY <1>2, <2>1
      <3> QED
        BY <3>1, <3>2
    <2>3. Trim(s) = s
      <3>1. s # <<>>
        BY <2>2
      <3>2. s[1] = x[1] /\ x[1] \notin {Space, CRLF}
        BY <1>2, <2>2, ERRUnits
      <3>3. s[4 + n] = t[n]
        <4>1. 4 + n \in 1..(4 + n) /\ ~(4 + n <= 4) /\ (4 + n) - 4 = n
          OBVIOUS
        <4> QED
          BY <2>2, <4>1
      <3>4. s[Len(s)] \notin {Space, CRLF}
        BY <2>1, <2>2, <3>3
      <3> QED
        BY <3>1, <3>2, <3>4, TrimIs
    <2>4. PrefixERRIfNeeded(data) = s
      BY <1>3, <1>7, <2>2, <2>3
    <2>5. PICK r \in Bytes : /\ r = StripNewlines(t) /\ Len(r) = n
                             /\ \A i \in 1..n : r[i] = IF t[i] = CRLF THEN Space ELSE t[i]
      BY <2>1, StrippedUnits
    <2>6. PICK q \in Bytes : /\ q = StripNewlines(s) /\ Len(q) = 4 + n
                             /\ \A i \in 1..(4 + n) : q[i] = IF s[i] = CRLF THEN Space ELSE s[i]
      <3>1. PICK q \in Bytes : /\ q = StripNewlines(s) /\ Len(q) = Len(s)
                               /\ \A i \in 1..Len(s) : q[i] = IF s[i] = CRLF THEN Space ELSE s[i]
        BY StrippedUnits
      <3>2. Len(s) = 4 + n
        BY <2>2
      <3> QED
        BY <3>1, <3>2
    <2>7. PICK p \in Bytes : /\ p = x \o r /\ Len(p) = 4 + n
                             /\ \A i \in 1..(4 + n) : p[i] = IF i <= 4 THEN x[i] ELSE r[i - 4]
      <3>1. PICK p \in Bytes :
              /\ p = x \o r /\ Len(p) = Len(x) + Len(r)
              /\ \A i \in 1..(Len(x) + Len(r)) : p[i] = IF i <= Len(x) THEN x[i] ELSE r[i - Len(x)]
        BY JoinIs
      <3>2. Len(x) = 4 /\ Len(r) = n
        BY <1>2, <2>5
      <3> QED
        BY <3>1, <3>2
    <2>8. \A i \in 1..4 : x[i] # CRLF
      <3>1. \A i \in 1..4 : i \in 1..3 \/ i = 4
        OBVIOUS
      <3> QED
        BY <1>2, <3>1, ERRUnits
    <2>9. ASSUME NEW i \in 1..(4 + n) PROVE p[i] = q[i]
      <3>1. CASE i <= 4
        <4>1. i \in 1..4
          BY <3>1
        <4>2. p[i] = x[i] /\ s[i] = x[i]
          BY <2>2, <2>7, <3>1
        <4> QED
          BY <2>6, <2>8, <4>1, <4>2
      <3>2. CASE ~(i <= 4)
        <4>1. i - 4 \in 1..n
          BY <3>2
        <4>2. p[i] = r[i - 4] /\ s[i] = t[i - 4]
          BY <2>2, <2>7, <3>2
        <4> QED
          BY <2>5, <2>6, <4>1, <4>2
      <3> QED
        BY <3>1, <3>2
    <2>10. p = q
      BY <2>6, <2>7, <2>9, SeqEqual DEF Bytes
    <2>11. IsErrorType(p)
      <3>1. 3 \in 1..Len(p) /\ \A i \in 1..3 : i \in 1..(4 + n) /\ i <= 4
        BY <2>7
      <3>2. p[3 + 1] = Space
        <4>1. 4 \in 1..(4 + n) /\ 3 + 1 = 4
          OBVIOUS
        <4> QED
          BY <1>2, <2>7, <4>1
      <3>3. \A i \in 1..3 : p[i].tag = "upper"
        BY <1>2, <2>7, <3>1
      <3> QED
        BY <3>1, <3>2, <3>3, ErrorTypeIs
    <2>12. ErrorTexts(data) = {p}
      <3>1. ErrorTexts(data) = {y \in {p} : IsErrorType(y)}
        BY <1>4, <1>7, <2>5, <2>7
      <3> QED
        BY <2>11, <3>1
    <2> QED
      BY <2>2, <2>4, <2>6, <2>10, <2>12
  <1> QED
    BY <1>5, <1>6, <1>7

-----------------------------------------------------------------------------
(* The messages of the older package                                       *)

\* The parser answers m, and what m writes is one value, one of the documented ones.
Sound(m) ==
  /\ m.typed = FALSE /\ Answered(m)
  /\ \E value \in m.values : Writes(m.units, value)

\* Go values without elements; no slice of bytes is longer than an int can say.
TextKinds == {"simple string", "simple error", "error", "string", "bytes", "bool"}

GoTexts   == [kind : TextKinds, data : Texts]
GoNumbers == [kind : {"simple int", "number"}, data : MinInt..MaxInt]
GoNils    == [kind : {"nil", "nil bytes"}, data : {<<>>}]

GoValues == GoTexts \cup GoNumbers \cup GoNils

\* A number in decimal.
LEMMA DecimalIs ==
  ASSUME NEW n \in Int
  PROVE  Decimal(n) \in Bytes /\ Len(Decimal(n)) <= 2
  <1>1. \A k \in Int : Digits(k) \in AnyUnit
    BY DEF Digits, Unit, AnyUnit, Tags
  <1>2. Minus \in AnyUnit
    BY DEF Minus, Unit, AnyUnit, Tags
  <1>3. CASE n < 0
    <2>1. Decimal(n) = <<Minus, Digits(-n)>> /\ Digits(-n) \in AnyUnit
      BY <1>1, <1>3 DEF Decimal
    <2> QED
      BY <1>2, <2>1 DEF Bytes
  <1>4. CASE ~(n < 0)
    <2>1. Decimal(n) = <<Digits(n)>> /\ Digits(n) \in AnyUnit
      BY <1>1, <1>4 DEF Decimal
    <2> QED
      BY <2>1 DEF Bytes
  <1> QED
    BY <1>3, <1>4

\* A line of text is no bulk string.
LEMMA TextIsNeverBulk ==
  ASSUME NEW t \in {"+", "-"}, NEW text \in Bytes
  PROVE  NeverBulk(TextLine(Bare(t), text))
  <1>1. /\ Bare(t) \in AnyUnit /\ Bare(t).tag # "$" /\ CRLF \in AnyUnit
        /\ <<CRLF>> \in Bytes /\ <<Bare(t)>> \in Bytes /\ Len(<<Bare(t)>>) = 1 /\ <<Bare(t)>>[1] = Bare(t)
    BY UnitTypes, TwoUnits
  <1>2. PICK a \in Bytes : a = <<Bare(t)>> /\ Len(a) = 1 /\ a[1] = Bare(t)
    BY <1>1
  <1>3. PICK c \in Bytes : c = <<CRLF>>
    BY <1>1
  <1>4. PICK d \in Bytes : d = a \o text
    BY ConcatBytes
  <1>5. PICK u \in Bytes : u = d \o c
    BY ConcatBytes
  <1>6. Len(d) = 1 + Len(text) /\ Len(text) \in Nat /\ d[1] = a[1]
    <2>1. /\ Len(d) = Len(a) + Len(text)
          /\ \A i \in 1..(Len(a) + Len(text)) : d[i] = IF i <= Len(a) THEN a[i] ELSE text[i - Len(a)]
      BY <1>4, ConcatProperties DEF Bytes
    <2>2. Len(text) \in Nat
      BY DEF Bytes
    <2> QED
      BY <1>2, <2>1, <2>2
  <1>7. Len(u) # 0 /\ u[1] = d[1]
    <2>1. /\ Len(u) = Len(d) + Len(c)
          /\ \A i \in 1..(Len(d) + Len(c)) : u[i] = IF i <= Len(d) THEN d[i] ELSE c[i - Len(d)]
      BY <1>5, ConcatProperties DEF Bytes
    <2>2. Len(c) \in Nat
      BY DEF Bytes
    <2> QED
      BY <1>6, <2>1, <2>2
  <1>8. u # <<>>
    BY <1>7
  <1>9. NeverBulk(u)
    BY <1>1, <1>2, <1>6, <1>7, <1>8, OtherIsNeverBulk
  <1> QED
    BY <1>2, <1>3, <1>4, <1>5, <1>9 DEF TextLine

\* Simple strings and errors.
LEMMA TextSound ==
  ASSUME NEW m, m.typed = FALSE, NEW text \in Bytes, NEW t \in {"+", "-"},
         m.units = TextLine(Bare(t), StripNewlines(text)),
         (IF t = "+" THEN Simple(StripNewlines(text)) ELSE Error(StripNewlines(text))) \in m.values
  PROVE  Sound(m)
  <1>1. PICK s \in Bytes : s = StripNewlines(text) /\ \A i \in 1..Len(s) : s[i] # CRLF
    BY StrippedText
  <1>2. PICK value : value = IF t = "+" THEN Simple(s) ELSE Error(s)
    OBVIOUS
  <1>3. m.units = TextLine(Bare(t), s)
    BY <1>1
  <1>4. Answered(m) /\ ReadsAs(m.units, value)
    BY <1>1, <1>2, <1>3, TextAnswered
  <1>5. NeverBulk(m.units)
    BY <1>3, TextIsNeverBulk
  <1>6. value \in m.values /\ value.type # "bulk"
    BY <1>1, <1>2 DEF Simple, Error, Value
  <1>7. Writes(m.units, value)
    BY <1>4, <1>5, <1>6 DEF Writes
  <1> QED
    BY <1>4, <1>6, <1>7 DEF Sound

\* Bulk strings.
LEMMA BulkSound ==
  ASSUME NEW m, m.typed = FALSE, NEW data \in Bytes, Len(data) <= MaxInt,
         m.units = AppendBulk(data), Bulk(data) \in m.values
  PROVE  Sound(m)
  <1>1. Answered(m) /\ ReadsAs(m.units, Bulk(data))
    BY BulkAnswered
  <1>2. Bulk(data).type = "bulk" /\ Bulk(data).data = data
    BY DEF Bulk, Value
  <1>3. Writes(m.units, Bulk(data))
    BY <1>1, <1>2 DEF Writes
  <1> QED
    BY <1>1, <1>3 DEF Sound

\* A value without elements is sound.
LEMMA BasicSound ==
  ASSUME NEW v \in GoValues, 2 <= MaxInt
  PROVE  Sound(Encode(v))
  <1>1. PICK m : m = Encode(v)
    OBVIOUS
  <1>2. m.typed = FALSE /\ m.units = AppendAny(v, <<>>) /\ m.values = Values(v)
    BY <1>1 DEF Encode
  <1>3. ASSUME NEW text \in Texts, v = Go("simple string", text) PROVE Sound(m)
    <2>1. m.units = TextLine(Bare("+"), StripNewlines(text)) /\ Simple(StripNewlines(text)) \in m.values
      BY <1>2, <1>3 DEF AppendAny, AppendLine, Values, Go, TextLine
    <2> QED
      BY <1>2, <2>1, TextSound DEF Texts
  <1>4. ASSUME NEW text \in Texts, v = Go("simple error", text) PROVE Sound(m)
    <2>1. m.units = TextLine(Bare("-"), StripNewlines(text)) /\ Error(StripNewlines(text)) \in m.values
      BY <1>2, <1>4 DEF AppendAny, AppendLine, Values, Go, TextLine
    <2> QED
      BY <1>2, <2>1, TextSound DEF Texts
  <1>5. ASSUME NEW text \in Texts, v = Go("error", text) PROVE Sound(m)
    <2>1. PICK s \in Bytes : s = PrefixERRIfNeeded(text) /\ StripNewlines(s) \in ErrorTexts(text)
      BY ErrorTextIs DEF Texts
    <2>2. m.units = TextLine(Bare("-"), StripNewlines(s)) /\ Error(StripNewlines(s)) \in m.values
      BY <1>2, <1>5, <2>1 DEF AppendAny, AppendLine, Values, Go, TextLine
    <2> QED
      BY <1>2, <2>2, TextSound
  <1>6. ASSUME NEW kind \in {"string", "bytes", "bool"}, NEW text \in Texts, v = Go(kind, text) PROVE Sound(m)
    <2>1. m.units = AppendBulk(text) /\ Bulk(text) \in m.values
      BY <1>2, <1>6 DEF AppendAny, Values, Go
    <2> QED
      BY <1>2, <2>1, BulkSound DEF Texts
  <1>7. ASSUME NEW n \in MinInt..MaxInt, v = Go("simple int", n) PROVE Sound(m)
    <2>1. m.units = <<Number(":", n), CRLF>> /\ Integer(n) \in m.values
      BY <1>2, <1>7 DEF AppendAny, AppendPrefix, Values, Go
    <2>2. Answered(m) /\ ReadsAs(m.units, Integer(n))
      BY <1>2, <2>1, IntegerAnswered
    <2>3. n \in Int
      BY RespAssumption DEF MinInt
    <2>4. /\ Number(":", n) \in AnyUnit /\ Number(":", n).tag = ":" /\ CRLF \in AnyUnit
          /\ m.units \in Bytes /\ m.units # <<>> /\ m.units[1] = Number(":", n)
      BY <2>1, <2>3, UnitTypes, TwoUnits
    <2>5. NeverBulk(m.units)
      BY <2>4, OtherIsNeverBulk
    <2>6. Integer(n).type # "bulk"
      BY DEF Integer, Value
    <2> QED
      BY <1>2, <2>1, <2>2, <2>5, <2>6 DEF Sound, Writes
  <1>8. ASSUME NEW n \in MinInt..MaxInt, v = Go("number", n) PROVE Sound(m)
    <2>1. m.units = AppendBulk(Decimal(n)) /\ Bulk(Decimal(n)) \in m.values
      BY <1>2, <1>8 DEF AppendAny, Values, Go
    <2>2. n \in Int
      BY RespAssumption DEF MinInt
    <2>3. PICK data \in Bytes : data = Decimal(n) /\ Len(data) <= MaxInt
      <3>1. PICK data \in Bytes : data = Decimal(n) /\ Len(data) <= 2 /\ Len(data) \in Nat
        BY <2>2, DecimalIs DEF Bytes
      <3>2. Len(data) <= MaxInt
        BY <3>1, RespAssumption
      <3> QED
        BY <3>1, <3>2
    <2> QED
      BY <1>2, <2>1, <2>3, BulkSound
  <1>9. ASSUME NEW kind \in {"nil", "nil bytes"}, v = Go(kind, <<>>) PROVE Sound(m)
    <2>1. m.units = AppendNull /\ Null \in m.values
      BY <1>2, <1>9 DEF AppendAny, Values, Go
    <2>2. Answered(m) /\ ReadsAs(m.units, Null)
      BY <1>2, <2>1, NullAnswered
    <2>3. Null.type # "bulk"
      BY DEF Null, Value
    <2> QED
      BY <1>2, <2>1, <2>2, <2>3, NullIsNeverBulk DEF Sound, Writes
  <1>10. CASE v \in GoTexts
    <2>1. PICK kind \in TextKinds, text \in Texts : v = Go(kind, text)
      BY <1>10 DEF Go, GoTexts
    <2> QED
      BY <1>1, <1>3, <1>4, <1>5, <1>6, <2>1 DEF TextKinds
  <1>11. CASE v \in GoNumbers
    <2>1. PICK kind \in {"simple int", "number"}, n \in MinInt..MaxInt : v = Go(kind, n)
      BY <1>11 DEF Go, GoNumbers
    <2> QED
      BY <1>1, <1>7, <1>8, <2>1
  <1>12. CASE v \in GoNils
    <2>1. PICK kind \in {"nil", "nil bytes"} : v = Go(kind, <<>>)
      BY <1>12 DEF Go, GoNils
    <2> QED
      BY <1>1, <1>9, <2>1
  <1> QED
    BY <1>10, <1>11, <1>12 DEF GoValues

\* Slices and maps whose elements are of M, and M itself.
GoDeeper(M) ==
  M \cup {EncodeAll(kind, items) : kind \in {"slice", "map"}, items \in {s \in Seq(M) : Len(s) <= MaxInt}}

\* A slice or a map of sound messages is sound.
LEMMA SliceSound ==
  ASSUME NEW M, \A m \in M : Sound(m), NEW kind \in {"slice", "map"},
         NEW items \in Seq(M), Len(items) <= MaxInt
  PROVE  Sound(EncodeAll(kind, items))
  <1>1. PICK n \in Nat : n = Len(items) /\ DOMAIN items = 1..n /\ \A i \in 1..n : items[i] \in M
    OBVIOUS
  <1>2. PICK us : us = [i \in 1..n |-> items[i].units]
    OBVIOUS
  <1>3. us \in Seq(Bytes) /\ Len(us) = n /\ Len(us) <= MaxInt
    <2>1. \A i \in 1..n : items[i].units \in Bytes
      BY <1>1 DEF Sound, Answered
    <2> QED
      BY <1>1, <1>2, <2>1
  <1>4. PICK values : values = [i \in 1..n |-> CHOOSE value \in items[i].values : Writes(items[i].units, value)]
    OBVIOUS
  <1>5. \A i \in 1..n : values[i] \in items[i].values /\ Writes(us[i], values[i])
    <2>1. ASSUME NEW i \in 1..n PROVE values[i] \in items[i].values /\ Writes(us[i], values[i])
      <3>1. Sound(items[i])
        BY <1>1
      <3>2. values[i] \in items[i].values /\ Writes(items[i].units, values[i])
        BY <1>4, <3>1 DEF Sound
      <3> QED
        BY <1>2, <3>2
    <2> QED
      BY <2>1
  <1>6. PICK vs : vs = [i \in 1..n |-> values[i]]
    OBVIOUS
  <1>7. PICK m : m = EncodeAll(kind, items)
    OBVIOUS
  <1>8. /\ m.typed = FALSE
        /\ m.units = AppendPrefix("*", Len(us)) \o FlattenSeq(us)
        /\ m.values = ArraysOf([i \in 1..n |-> items[i].values])
    <2>1. m.typed = FALSE /\ m.values = ArraysOf([i \in 1..n |-> items[i].values])
      BY <1>1, <1>7 DEF EncodeAll
    <2>2. m.units = AppendAny(Go(kind, n), us)
      BY <1>1, <1>2, <1>7 DEF EncodeAll
    <2>3. AppendAny(Go(kind, n), us) = AppendPrefix("*", n) \o FlattenSeq(us)
      BY DEF AppendAny, Go
    <2> QED
      BY <1>3, <2>1, <2>2, <2>3
  <1>9. Answered(m) /\ ReadsAs(m.units, ArrayOf(vs))
    <2>1. \A i \in 1..Len(us) : Writes(us[i], values[i])
      BY <1>3, <1>5
    <2>2. vs = [i \in 1..Len(us) |-> values[i]]
      BY <1>3, <1>6
    <2> QED
      BY <1>3, <1>8, <2>1, <2>2, ArrayAnswered
  <1>10. ArrayOf(vs) \in m.values
    <2> DEFINE sets == [i \in 1..n |-> items[i].values]
    <2>1. DOMAIN sets = 1..n /\ \A i \in 1..n : sets[i] = items[i].values /\ sets[i] \in Range(sets)
      BY DEF Range
    <2> HIDE DEF sets
    <2>2. \A i \in 1..n : vs[i] = values[i] /\ values[i] \in sets[i] /\ values[i] \in UNION Range(sets)
      BY <1>5, <1>6, <2>1
    <2>3. vs \in [1..n -> UNION Range(sets)] /\ \A i \in 1..n : vs[i] \in sets[i]
      BY <1>6, <2>2
    <2>4. ArrayOf(vs) \in ArraysOf(sets)
      BY <2>1, <2>3 DEF ArraysOf
    <2> QED
      BY <1>8, <2>4 DEF sets
  <1>11. NeverBulk(m.units)
    <2>1. n \in Int /\ Number("*", n) \in AnyUnit /\ Number("*", n).tag = "*" /\ CRLF \in AnyUnit
      BY UnitTypes
    <2>2. PICK h \in Bytes : h = AppendPrefix("*", Len(us)) /\ Len(h) = 2 /\ h[1] = Number("*", n)
      BY <1>3, <2>1, TwoUnits DEF AppendPrefix
    <2>3. PICK f \in Bytes : f = FlattenSeq(us)
      BY <1>3, FlattenIsBytes
    <2>4. PICK u \in Bytes : /\ u = h \o f /\ Len(u) = Len(h) + Len(f)
                             /\ \A i \in 1..(Len(h) + Len(f)) : u[i] = IF i <= Len(h) THEN h[i] ELSE f[i - Len(h)]
      BY JoinIs
    <2>5. Len(f) \in Nat
      BY DEF Bytes
    <2>6. u[1] = h[1] /\ Len(u) # 0
      BY <2>2, <2>4, <2>5
    <2>7. u # <<>>
      BY <2>6
    <2>8. NeverBulk(u)
      BY <2>1, <2>2, <2>6, <2>7, OtherIsNeverBulk
    <2> QED
      BY <1>8, <2>2, <2>3, <2>4, <2>8
  <1>12. ArrayOf(vs).type # "bulk"
    BY DEF ArrayOf, Value
  <1> QED
    BY <1>7, <1>8, <1>9, <1>10, <1>11, <1>12 DEF Sound, Writes

\* levels[0] are messages without elements, and each level behind it nests once more.
Levels(levels, depth) ==
  /\ levels[0] \subseteq {Encode(v) : v \in GoValues}
  /\ \A d \in 1..depth : levels[d] \subseteq GoDeeper(levels[d - 1])

\* Whatever AppendAny may be called with, nested to any depth.
IsEncoded(m) == \E depth \in Nat : \E levels : Levels(levels, depth) /\ m \in levels[depth]

\* What AppendAny appends is sound at any depth.
LEMMA EncodedSound ==
  ASSUME NEW m, IsEncoded(m), 2 <= MaxInt
  PROVE  Sound(m)
  <1>a. PICK depth \in Nat : \E levels : Levels(levels, depth) /\ m \in levels[depth]
    BY DEF IsEncoded
  <1>1. PICK levels : Levels(levels, depth) /\ m \in levels[depth]
    BY <1>a
  <1> DEFINE S == {d \in Nat : d <= depth => \A e \in levels[d] : Sound(e)}
  <1>2. 0 \in S
    BY <1>1, BasicSound DEF Levels
  <1>3. ASSUME NEW d \in Nat, d \in S PROVE d + 1 \in S
    <2> SUFFICES ASSUME d + 1 <= depth, NEW e \in levels[d + 1] PROVE Sound(e)
      OBVIOUS
    <2>1. d + 1 \in 1..depth /\ (d + 1) - 1 = d /\ d <= depth
      OBVIOUS
    <2>2. \A x \in levels[d] : Sound(x)
      BY <1>3, <2>1
    <2>3. e \in GoDeeper(levels[d])
      <3>1. levels[d + 1] \subseteq GoDeeper(levels[(d + 1) - 1])
        BY <1>1, <2>1 DEF Levels
      <3> QED
        BY <2>1, <3>1
    <2>4. CASE e \in levels[d]
      BY <2>2, <2>4
    <2>5. CASE e \notin levels[d]
      <3>1. PICK kind \in {"slice", "map"}, items \in Seq(levels[d]) :
              Len(items) <= MaxInt /\ e = EncodeAll(kind, items)
        BY <2>3, <2>5 DEF GoDeeper
      <3> QED
        BY <2>2, <3>1, SliceSound
    <2> QED
      BY <2>4, <2>5
  <1>4. depth \in S
    <2> HIDE DEF S
    <2> QED
      BY <1>2, <1>3, NatSetInduction
  <1> QED
    BY <1>1, <1>4

-----------------------------------------------------------------------------
(* The older package                                                       *)

\* A value for AppendAny, or a line that is typed and does not end with an opening quote.
CanBeSent(m) ==
  \/ IsEncoded(m)
  \/ \E text \in Bytes : IsLine(text) /\ ~OpensAtEnd(text) /\ m = Typed(text)

\* An int has room for small numbers, and the peer sends what can be sent.
Sends(M) == 2 <= MaxInt /\ Scripts \subseteq Seq(M) /\ \A m \in M : CanBeSent(m)

\* So every message is answered as it should be.
LEMMA SentIsAnswered ==
  ASSUME NEW M, Sends(M)
  PROVE  AllAnswered(M)
  <1>1. ASSUME NEW m \in M PROVE Answered(m)
    <2>1. CASE IsEncoded(m)
      BY <2>1, EncodedSound DEF Sends, Sound
    <2>2. CASE \E text \in Bytes : IsLine(text) /\ ~OpensAtEnd(text) /\ m = Typed(text)
      <3>1. PICK text \in Bytes : IsLine(text) /\ ~OpensAtEnd(text) /\ m = Typed(text)
        BY <2>2
      <3>2. m.typed = TRUE /\ m.units = Append(text, CRLF)
        BY <3>1 DEF Typed
      <3>3. Meant(text) = InlineArgs(text)
        BY <3>1, GrammarAgrees
      <3> QED
        BY <3>1, <3>2, <3>3, LineAnswered
    <2> QED
      BY <2>1, <2>2 DEF Sends, CanBeSent
  <1> QED
    BY <1>1 DEF Sends, AllAnswered

\* What is encoded is read back as one of its values.
LEMMA SentIsOneValue ==
  ASSUME NEW M, Sends(M), NEW m \in M, ~m.typed
  PROVE  LET first == ParseOne(m.units) IN
         first.ok /\ first.pos = Len(m.units) + 1 /\ first.value \in m.values
  <1>1. CASE IsEncoded(m)
    <2>1. PICK value \in m.values : ReadsAs(m.units, value)
      BY <1>1, EncodedSound DEF Sends, Sound, Writes
    <2>2. ParseOne(m.units) = Parsed(value, Len(m.units) + 1)
      BY <2>1, ReadAlone
    <2> QED
      BY <2>2 DEF Parsed
  <1>2. CASE ~IsEncoded(m)
    BY <1>2 DEF Sends, CanBeSent, Typed
  <1> QED
    BY <1>1, <1>2

\* The peer is in its script.
InScript == script \in Scripts /\ done \in 0..Len(script)

\* A typed line is split into the arguments that the grammar finds in it, and into none
\* where it finds none; an opening quote at its end adds nothing.
THEOREM LinesReadAsMeant ==
  ASSUME NEW line \in Bytes
  PROVE  InlineArgs(line) = Said(line)
  BY SaidIsRead

\* However errors read and however deep slices and maps are nested, AppendAny writes
\* exactly one value, the documented one.
THEOREM AppendWritesOneValueEach ==
  ASSUME NEW M, Sends(M)
  PROVE  Spec => []WritesOneValueEach
  <1>1. Init => InScript
    <2>1. \A s \in Scripts : 0 \in 0..Len(s)
      BY DEF Sends
    <2> QED
      BY <2>1 DEF Init, InScript
  <1>2. InScript /\ [Next]_vars => InScript'
    <2> SUFFICES ASSUME InScript, [Next]_vars PROVE InScript'
      OBVIOUS
    <2>1. Len(script) \in Nat
      BY DEF InScript, Sends
    <2>2. CASE Peer
      BY <2>1, <2>2 DEF Peer, InScript
    <2>3. CASE UNCHANGED <<script, done>>
      BY <2>3 DEF InScript
    <2>4. FlushOk \/ FlushFails \/ Receive \/ Ask \/ Quiescent \/ UNCHANGED vars => UNCHANGED <<script, done>>
      BY DEF FlushOk, FlushFails, Receive, Ask, Quiescent, vars, Writers
    <2> QED
      BY <2>2, <2>3, <2>4 DEF Next
  <1>3. InScript => WritesOneValueEach
    <2> SUFFICES ASSUME InScript, NEW i \in 1..done, ~script[i].typed
                 PROVE  LET first == ParseOne(script[i].units) IN
                        first.ok /\ first.pos = Len(script[i].units) + 1 /\ first.value \in script[i].values
      BY DEF WritesOneValueEach
    <2>1. script \in Seq(M) /\ done \in 0..Len(script) /\ Len(script) \in Nat
      BY DEF InScript, Sends
    <2>2. i \in 1..Len(script)
      BY <2>1
    <2>3. script[i] \in M
      BY <2>1, <2>2
    <2> QED
      BY <2>3, SentIsOneValue
  <1> QED
    BY <1>1, <1>2, <1>3, PTL DEF Spec

\* A caller that resumes at its own mark gets each command that was sent, once, in
\* order, with its arguments and its bytes, however the stream is cut.
THEOREM OlderParserReturnsWhatWasSent ==
  ASSUME NEW M, Sends(M), OwnMark = TRUE
  PROVE  Spec => []ReturnsWhatWasSent
  <1>1. Spec => []LegacyInv
    BY SentIsAnswered, LegacyInvariant
  <1>2. LegacyInv => ReturnsWhatWasSent
    BY DEF LegacyInv
  <1> QED
    BY <1>1, <1>2, PTL

\* No byte of a message is lost or kept, save those that a failed flush drops.
THEOREM OlderParserLosesNothing ==
  ASSUME NEW M, Sends(M), OwnMark = TRUE
  PROVE  Spec => []NothingLostNothingKept
  <1>1. AllAnswered(M)
    BY SentIsAnswered
  <1>2. Spec => []LegacyInv
    BY <1>1, LegacyInvariant
  <1>3. LegacyInv => NothingLostNothingKept
    BY <1>1, KeptIsNothingLost
  <1> QED
    BY <1>2, <1>3, PTL

\* The caller reads on only when its buffer ends inside a command.
THEOREM OlderParserWaitsOnlyForTheRest ==
  ASSUME NEW M, Sends(M), OwnMark = TRUE
  PROVE  Spec => []WaitsOnlyForTheRest
  <1>1. Spec => []LegacyInv
    BY SentIsAnswered, LegacyInvariant
  <1>2. LegacyInv => WaitsOnlyForTheRest
    BY DEF LegacyInv
  <1> QED
    BY <1>1, <1>2, PTL
=============================================================================
