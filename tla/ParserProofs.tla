------------------------------ MODULE ParserProofs ------------------------------
(***************************************************************************)
(* What Writer encodes the parser gives back, for messages of every kind,   *)
(* any nesting and any length, wherever they stand in a buffer and however  *)
(* much of them is there; and a typed line is split into the arguments that *)
(* the grammar finds in it.  By induction on positions.                     *)
(***************************************************************************)
EXTENDS InlineGrammar, WellFoundedInduction, SequenceTheorems, TLAPS

\* Induction on natural numbers, for the set of those that have a property.
LEMMA NatSetInduction ==
  ASSUME NEW S, 0 \in S, \A n \in Nat : n \in S => n + 1 \in S
  PROVE  Nat \subseteq S
  <1> DEFINE T == Nat \ S
  <1> SUFFICES ASSUME T # {} PROVE FALSE
    OBVIOUS
  <1>1. PICK x \in T : \A y \in T : ~(<<y, x>> \in OpToRel(<, Nat))
    <2> HIDE DEF T
    <2>1. T \subseteq Nat
      BY DEF T
    <2> QED
      BY <2>1, NatLessThanWellFounded, WFMin
  <1>2. x \in Nat /\ x # 0 /\ x \notin S
    OBVIOUS
  <1>3. x - 1 \in Nat /\ x - 1 \notin S
    BY <1>2
  <1>4. <<x - 1, x>> \in OpToRel(<, Nat)
    BY <1>2, <1>3 DEF OpToRel
  <1> QED
    BY <1>1, <1>3, <1>4

-----------------------------------------------------------------------------
\* f is the function that FlattenSeq computes for the first n elements of s.
Flattens(f, s, n) == f = [i \in 1..n |-> IF i = 1 THEN s[i] ELSE f[i - 1] \o s[i]]

\* There is one.
LEMMA FlattensExists ==
  ASSUME NEW s, NEW n \in Nat
  PROVE  \E f : Flattens(f, s, n)
  <1> DEFINE S == {k \in Nat : \E f : Flattens(f, s, k)}
  <1>1. 0 \in S
    <2>1. Flattens([i \in 1..0 |-> s[i]], s, 0)
      BY DEF Flattens
    <2> QED
      BY <2>1
  <1>2. ASSUME NEW k \in Nat, k \in S PROVE k + 1 \in S
    <2>1. PICK f : Flattens(f, s, k)
      BY <1>2
    <2> DEFINE g == [i \in 1..(k + 1) |-> IF i = k + 1 THEN IF i = 1 THEN s[i] ELSE f[k] \o s[i] ELSE f[i]]
    <2>2. ASSUME NEW i \in 1..(k + 1)
          PROVE  g[i] = IF i = 1 THEN s[i] ELSE g[i - 1] \o s[i]
      <3>1. CASE i = k + 1
        <4>1. i # 1 => i - 1 \in 1..k /\ g[i - 1] = f[k]
          BY <3>1
        <4> QED
          BY <3>1, <4>1
      <3>2. CASE i # k + 1
        <4>1. i \in 1..k /\ g[i] = f[i] /\ (i # 1 => i - 1 \in 1..k /\ g[i - 1] = f[i - 1])
          BY <3>2
        <4> QED
          BY <2>1, <4>1 DEF Flattens
      <3> QED
        BY <3>1, <3>2
    <2>3. Flattens(g, s, k + 1)
      <3>1. g = [i \in 1..(k + 1) |-> g[i]]
        OBVIOUS
      <3> HIDE DEF g
      <3> QED
        BY <2>2, <3>1 DEF Flattens
    <2> QED
      BY <2>3
  <1> HIDE DEF S
  <1>3. n \in S
    BY <1>1, <1>2, NatSetInduction
  <1> QED
    BY <1>3 DEF S

\* The k-th value depends on the first k elements only.
LEMMA FlattensAgree ==
  ASSUME NEW f, NEW s, NEW m \in Nat, Flattens(f, s, m),
         NEW g, NEW t, NEW n \in Nat, Flattens(g, t, n),
         NEW k \in Nat, k <= m, k <= n, \A i \in 1..k : s[i] = t[i]
  PROVE  \A i \in 1..k : f[i] = g[i]
  <1> DEFINE S == {i \in Nat : i \in 1..k => f[i] = g[i]}
  <1>1. 0 \in S
    OBVIOUS
  <1>2. ASSUME NEW i \in Nat, i \in S PROVE i + 1 \in S
    <2> SUFFICES ASSUME i + 1 \in 1..k PROVE f[i + 1] = g[i + 1]
      OBVIOUS
    <2>1. i + 1 \in 1..m /\ i + 1 \in 1..n /\ s[i + 1] = t[i + 1]
      OBVIOUS
    <2>2. /\ f[i + 1] = IF i + 1 = 1 THEN s[i + 1] ELSE f[(i + 1) - 1] \o s[i + 1]
          /\ g[i + 1] = IF i + 1 = 1 THEN t[i + 1] ELSE g[(i + 1) - 1] \o t[i + 1]
      BY <2>1 DEF Flattens
    <2>3. i + 1 # 1 => f[i] = g[i] /\ (i + 1) - 1 = i
      BY <1>2
    <2> QED
      BY <2>1, <2>2, <2>3
  <1> HIDE DEF S
  <1>3. Nat \subseteq S
    BY <1>1, <1>2, NatSetInduction
  <1> QED
    BY <1>3 DEF S

\* FlattenSeq is its last value.
LEMMA FlattenSeqIs ==
  ASSUME NEW s, Len(s) \in Nat \ {0}
  PROVE  \E f : Flattens(f, s, Len(s)) /\ FlattenSeq(s) = f[Len(s)]
  <1>1. \E f : Flattens(f, s, Len(s))
    BY FlattensExists
  <1> DEFINE h == CHOOSE f : Flattens(f, s, Len(s))
  <1>2. Flattens(h, s, Len(s))
    BY <1>1
  <1>3. FlattenSeq(s) = h[Len(s)]
    BY DEF FlattenSeq, Flattens
  <1> QED
    BY <1>2, <1>3

-----------------------------------------------------------------------------
(* Byte strings                                                            *)

Tags == {"crlf", "*", "$", ":", "+", "-", "text", "upper", "control", "quote", "backslash",
         "digits", "minus"}

AnyUnit == [tag : Tags, n : Int]

Bytes == Seq(AnyUnit)

\* Concatenation of byte strings.
LEMMA ConcatBytes ==
  /\ <<>> \in Bytes
  /\ \A a \in Bytes : <<>> \o a = a /\ a \o <<>> = a
  /\ \A a, b \in Bytes : a \o b \in Bytes
  /\ \A a, b, c \in Bytes : (a \o b) \o c = a \o (b \o c)
  <1>1. \A a \in Bytes : <<>> \o a = a /\ a \o <<>> = a
    BY ConcatEmptySeq DEF Bytes
  <1>2. \A a, b \in Bytes : a \o b \in Bytes
    BY ConcatProperties DEF Bytes
  <1>3. \A a, b, c \in Bytes : (a \o b) \o c = a \o (b \o c)
    BY ConcatAssociative DEF Bytes
  <1>4. <<>> \in Bytes
    BY DEF Bytes
  <1> QED
    BY <1>1, <1>2, <1>3, <1>4

\* The joints of a sequence of byte strings: joint[k] is the first k of them in a row.
Joints(joint, s) ==
  /\ joint[0] = <<>>
  /\ \A k \in 1..Len(s) : joint[k] = joint[k - 1] \o s[k]
  /\ \A k \in 0..Len(s) : joint[k] \in Bytes

\* The last joint is what FlattenSeq returns.
LEMMA FlattenIsLastJoint ==
  ASSUME NEW s \in Seq(Bytes)
  PROVE  \E joint : Joints(joint, s) /\ FlattenSeq(s) = joint[Len(s)]
  <1>1. CASE s = <<>>
    <2> DEFINE joint == [k \in 0..0 |-> <<>>]
    <2>1. Joints(joint, s)
      BY <1>1 DEF Joints, Bytes
    <2>2. FlattenSeq(s) = joint[Len(s)]
      BY <1>1 DEF FlattenSeq
    <2> QED
      BY <2>1, <2>2
  <1>2. CASE s # <<>>
    <2>1. Len(s) \in Nat \ {0}
      BY <1>2
    <2>2. PICK f : Flattens(f, s, Len(s)) /\ FlattenSeq(s) = f[Len(s)]
      BY <2>1, FlattenSeqIs
    <2> DEFINE joint == [k \in 0..Len(s) |-> IF k = 0 THEN <<>> ELSE f[k]]
    <2>3. ASSUME NEW k \in 1..Len(s), joint[k - 1] \in Bytes
          PROVE  joint[k] = joint[k - 1] \o s[k] /\ joint[k] \in Bytes
      <3>1. /\ joint[k] = f[k] /\ s[k] \in Bytes
            /\ k # 1 => joint[k - 1] = f[k - 1]
            /\ k = 1 => joint[k - 1] = <<>>
        BY <2>1
      <3>2. f[k] = IF k = 1 THEN s[k] ELSE f[k - 1] \o s[k]
        BY <2>2 DEF Flattens
      <3> HIDE DEF joint
      <3>3. joint[k - 1] \o s[k] \in Bytes /\ (<<>> \o s[k] = s[k])
        BY <2>3, <3>1, ConcatBytes
      <3> QED
        BY <3>1, <3>2, <3>3
    <2> DEFINE S == {k \in Nat : k \in 0..Len(s) => joint[k] \in Bytes}
    <2>4. 0 \in S
      BY <2>1, ConcatBytes
    <2> HIDE DEF joint
    <2>5. ASSUME NEW k \in Nat, k \in S PROVE k + 1 \in S
      <3> SUFFICES ASSUME k + 1 \in 0..Len(s) PROVE joint[k + 1] \in Bytes
        OBVIOUS
      <3>1. k + 1 \in 1..Len(s) /\ (k + 1) - 1 = k /\ joint[k] \in Bytes
        BY <2>1, <2>5
      <3> QED
        BY <2>3, <3>1
    <2>6. Nat \subseteq S
      <3> HIDE DEF S
      <3> QED
        BY <2>4, <2>5, NatSetInduction
    <2>7. Joints(joint, s)
      <3>1. joint[0] = <<>>
        BY <2>1 DEF joint
      <3>2. \A k \in 0..Len(s) : joint[k] \in Bytes
        BY <2>1, <2>6
      <3>3. \A k \in 1..Len(s) : joint[k] = joint[k - 1] \o s[k]
        <4>1. \A k \in 1..Len(s) : k - 1 \in 0..Len(s)
          BY <2>1
        <4> QED
          BY <2>3, <3>2, <4>1
      <3> QED
        BY <3>1, <3>2, <3>3 DEF Joints
    <2>8. FlattenSeq(s) = joint[Len(s)]
      BY <2>1, <2>2 DEF joint
    <2> QED
      BY <2>7, <2>8
  <1> QED
    BY <1>1, <1>2

\* Sequences that begin alike have the same joints there.
LEMMA JointsAgree ==
  ASSUME NEW s \in Seq(Bytes), NEW t \in Seq(Bytes), NEW f, NEW g, Joints(f, s), Joints(g, t),
         NEW n \in Nat, n <= Len(s), n <= Len(t), \A k \in 1..n : s[k] = t[k]
  PROVE  f[n] = g[n]
  <1> DEFINE S == {k \in Nat : k <= n => f[k] = g[k]}
  <1>1. 0 \in S
    BY DEF Joints
  <1>2. ASSUME NEW k \in Nat, k \in S PROVE k + 1 \in S
    <2> SUFFICES ASSUME k + 1 <= n PROVE f[k + 1] = g[k + 1]
      OBVIOUS
    <2>1. /\ k + 1 \in 1..Len(s) /\ k + 1 \in 1..Len(t) /\ s[k + 1] = t[k + 1]
          /\ (k + 1) - 1 = k /\ f[k] = g[k]
      BY <1>2
    <2>2. f[k + 1] = f[(k + 1) - 1] \o s[k + 1] /\ g[k + 1] = g[(k + 1) - 1] \o t[k + 1]
      BY <2>1 DEF Joints
    <2> QED
      BY <2>1, <2>2
  <1> HIDE DEF S
  <1>3. n \in S
    BY <1>1, <1>2, NatSetInduction
  <1> QED
    BY <1>3 DEF S

\* What Send does to the messages on their way.
LEMMA FlattenAppend ==
  ASSUME NEW s \in Seq(Bytes), NEW u \in Bytes
  PROVE  FlattenSeq(Append(s, u)) = FlattenSeq(s) \o u
  <1> DEFINE t == Append(s, u)
  <1>1. t \in Seq(Bytes) /\ Len(t) = Len(s) + 1 /\ t[Len(s) + 1] = u /\ Len(s) \in Nat
        /\ \A k \in 1..Len(s) : s[k] = t[k]
    OBVIOUS
  <1> HIDE DEF t
  <1>2. PICK f : Joints(f, s) /\ FlattenSeq(s) = f[Len(s)]
    BY FlattenIsLastJoint
  <1>3. PICK g : Joints(g, t) /\ FlattenSeq(t) = g[Len(t)]
    BY <1>1, FlattenIsLastJoint
  <1>4. g[Len(s)] = f[Len(s)]
    BY <1>1, <1>2, <1>3, JointsAgree
  <1>5. g[Len(s) + 1] = g[Len(s)] \o u
    <2>1. Len(s) + 1 \in 1..Len(t) /\ (Len(s) + 1) - 1 = Len(s)
      BY <1>1
    <2>2. g[Len(s) + 1] = g[(Len(s) + 1) - 1] \o t[Len(s) + 1]
      BY <1>3, <2>1 DEF Joints
    <2> QED
      BY <1>1, <2>1, <2>2
  <1> QED
    BY <1>1, <1>2, <1>3, <1>4, <1>5 DEF t

\* What ReadReturns does to them.
LEMMA FlattenHead ==
  ASSUME NEW s \in Seq(Bytes), s # <<>>
  PROVE  FlattenSeq(s) = s[1] \o FlattenSeq(Tail(s))
  <1> DEFINE t == Tail(s)
  <1>1. t \in Seq(Bytes) /\ Len(s) = Len(t) + 1 /\ Len(t) \in Nat /\ s[1] \in Bytes
        /\ \A k \in 1..Len(t) : t[k] = s[k + 1] /\ t[k] \in Bytes
    OBVIOUS
  <1> HIDE DEF t
  <1>2. PICK f : Joints(f, s) /\ FlattenSeq(s) = f[Len(s)]
    BY FlattenIsLastJoint
  <1>3. PICK g : Joints(g, t) /\ FlattenSeq(t) = g[Len(t)]
    BY <1>1, FlattenIsLastJoint
  <1> DEFINE h == [j \in Nat |-> s[1] \o g[j]]
  <1> DEFINE S == {k \in Nat : k <= Len(t) => f[k + 1] = h[k]}
  <1>4. 0 \in S
    <2>1. f[0] = <<>> /\ g[0] = <<>>
      BY <1>2, <1>3 DEF Joints
    <2>2. 1 \in 1..Len(s) /\ 1 - 1 = 0
      BY <1>1
    <2>3. f[1] = f[1 - 1] \o s[1]
      BY <1>2, <2>2 DEF Joints
    <2>4. f[1] = s[1]
      BY <1>1, <2>1, <2>2, <2>3, ConcatBytes
    <2>5. h[0] = s[1] \o g[0]
      OBVIOUS
    <2>6. f[0 + 1] = h[0]
      <3> HIDE DEF h
      <3> QED
        BY <1>1, <2>1, <2>4, <2>5, ConcatBytes
    <2> HIDE DEF h
    <2> QED
      BY <2>6
  <1>5. ASSUME NEW k \in Nat, k \in S PROVE k + 1 \in S
    <2> SUFFICES ASSUME k + 1 <= Len(t) PROVE f[(k + 1) + 1] = h[k + 1]
      <3> HIDE DEF h
      <3> QED
        OBVIOUS
    <2>1. PICK i \in 1..Len(t) : i = k + 1
      BY <1>1
    <2>2. i - 1 = k /\ i - 1 \in 0..Len(t) /\ i + 1 \in 1..Len(s) /\ (i + 1) - 1 = i
      BY <1>1, <2>1
    <2>3. t[i] = s[i + 1] /\ t[i] \in Bytes /\ g[i] = g[i - 1] \o t[i] /\ g[i - 1] \in Bytes
      BY <1>1, <1>3, <2>2 DEF Joints
    <2>4. f[i + 1] = f[(i + 1) - 1] \o s[i + 1]
      BY <1>2, <2>2 DEF Joints
    <2>5. f[i] = s[1] \o g[i - 1]
      <3>1. k <= Len(t)
        BY <1>1
      <3>2. f[k + 1] = h[k]
        <4> HIDE DEF h
        <4> QED
          BY <1>5, <3>1
      <3> QED
        BY <2>1, <2>2, <3>2
    <2>6. (s[1] \o g[i - 1]) \o t[i] = s[1] \o (g[i - 1] \o t[i])
      BY <1>1, <2>3, ConcatBytes
    <2>7. h[k + 1] = s[1] \o g[k + 1]
      <3>1. k + 1 \in Nat
        OBVIOUS
      <3> QED
        BY <3>1
    <2> HIDE DEF h
    <2> QED
      BY <2>1, <2>2, <2>3, <2>4, <2>5, <2>6, <2>7
  <1> HIDE DEF S
  <1>6. Len(t) \in S
    BY <1>1, <1>4, <1>5, NatSetInduction
  <1> QED
    BY SMTT(30), <1>1, <1>2, <1>3, <1>6 DEF S, t

\* Byte strings in a row are a byte string.
LEMMA FlattenIsBytes ==
  ASSUME NEW s \in Seq(Bytes)
  PROVE  FlattenSeq(s) \in Bytes
  <1>1. PICK joint : Joints(joint, s) /\ FlattenSeq(s) = joint[Len(s)]
    BY FlattenIsLastJoint
  <1>2. Len(s) \in 0..Len(s)
    OBVIOUS
  <1> QED
    BY <1>1, <1>2 DEF Joints

-----------------------------------------------------------------------------
(* Words and lines                                                         *)

\* A number that fits into a word is what the parser makes of its digits.
LEMMA WordIsKept ==
  ASSUME NEW n \in MinInt..MaxInt
  PROVE  Wrap(n) = n
  BY RespAssumption DEF Wrap, MinInt

\* Digits make a word, whatever they are.
LEMMA WrapIsWord ==
  ASSUME NEW n \in Int
  PROVE  Wrap(n) \in MinInt..MaxInt
  BY RespAssumption DEF Wrap, MinInt

\* A set of natural numbers has a least one.
LEMMA LeastNumber ==
  ASSUME NEW T \in SUBSET Nat, T # {}
  PROVE  \E x \in T : \A y \in T : x <= y
  <1>1. PICK x \in T : \A y \in T : ~(<<y, x>> \in OpToRel(<, Nat))
    BY NatLessThanWellFounded, WFMin
  <1>2. ASSUME NEW y \in T PROVE x <= y
    <2>1. x \in Nat /\ y \in Nat
      OBVIOUS
    <2>2. y < x => <<y, x>> \in OpToRel(<, Nat)
      BY <2>1 DEF OpToRel
    <2>3. ~(<<y, x>> \in OpToRel(<, Nat))
      BY <1>1
    <2>4. ~(y < x)
      BY <2>2, <2>3, Zenon
    <2> QED
      BY <2>1, <2>4
  <1> QED
    BY <1>2

\* findCRLF finds a line end at or behind pos, or nothing.
LEMMA FindCRLFFinds ==
  ASSUME NEW b \in Bytes, NEW pos \in Nat \ {0}
  PROVE  FindCRLF(b, pos) = 0 \/ FindCRLF(b, pos) \in pos..Len(b)
  <1> DEFINE ends == {i \in pos..Len(b) : b[i] = CRLF}
  <1>1. CASE ends = {}
    BY <1>1 DEF FindCRLF
  <1>2. CASE ends # {}
    <2>1. \E i \in ends : \A j \in ends : i <= j
      <3>1. ends \in SUBSET Nat
        OBVIOUS
      <3> HIDE DEF ends
      <3> QED
        BY <1>2, <3>1, LeastNumber
    <2>2. FindCRLF(b, pos) = CHOOSE i \in ends : \A j \in ends : i <= j
      BY <1>2 DEF FindCRLF
    <2>3. FindCRLF(b, pos) \in ends
      <3> HIDE DEF ends
      <3> QED
        BY <2>1, <2>2
    <2> QED
      BY <2>3
  <1> QED
    BY <1>1, <1>2

\* It finds the first one.
LEMMA FindCRLFIsFirst ==
  ASSUME NEW b \in Bytes, NEW pos \in Nat \ {0}, NEW end \in pos..Len(b),
         b[end] = CRLF, \A i \in pos..(end - 1) : b[i] # CRLF
  PROVE  FindCRLF(b, pos) = end
  <1> DEFINE ends == {i \in pos..Len(b) : b[i] = CRLF}
  <1>1. end \in ends /\ ends # {} /\ ends \subseteq Int
    OBVIOUS
  <1>2. \A i \in ends : i \notin pos..(end - 1)
    OBVIOUS
  <1>3. \A i \in ends : i >= end
    <2>1. \A i \in ends : i \in Int /\ i >= pos
      OBVIOUS
    <2> HIDE DEF ends
    <2> QED
      BY <1>2, <2>1
  <1>4. FindCRLF(b, pos) = CHOOSE i \in ends : \A j \in ends : i <= j
    BY <1>1 DEF FindCRLF
  <1> HIDE DEF ends
  <1>5. \A i \in ends : (\A j \in ends : i <= j) <=> i = end
    BY <1>1, <1>3
  <1>6. (CHOOSE i \in ends : \A j \in ends : i <= j) = end
    BY <1>1, <1>5
  <1> QED
    BY <1>4, <1>6

\* It finds nothing where there is nothing.
LEMMA FindCRLFNone ==
  ASSUME NEW b \in Bytes, NEW pos \in Nat \ {0}, \A i \in pos..Len(b) : b[i] # CRLF
  PROVE  FindCRLF(b, pos) = 0
  BY DEF FindCRLF

-----------------------------------------------------------------------------
(* What the parser computes                                                *)

\* items is the function that ParseItems computes.
ItemsOf(items, next, pos, count) ==
  items = [i \in 0..count |->
             IF i = 0 THEN Parsed(ArrayOf(<<>>), pos) ELSE NextItem(next, items[i - 1])]

\* There is one.
LEMMA ItemsExist ==
  ASSUME NEW next, NEW pos, NEW count \in Nat
  PROVE  \E items : ItemsOf(items, next, pos, count)
  <1> DEFINE S == {k \in Nat : \E items : ItemsOf(items, next, pos, k)}
  <1>1. 0 \in S
    <2>1. ItemsOf([i \in 0..0 |-> Parsed(ArrayOf(<<>>), pos)], next, pos, 0)
      BY DEF ItemsOf
    <2> QED
      BY <2>1
  <1>2. ASSUME NEW k \in Nat, k \in S PROVE k + 1 \in S
    <2>1. PICK f : ItemsOf(f, next, pos, k)
      BY <1>2
    <2> DEFINE g == [i \in 0..(k + 1) |-> IF i = k + 1 THEN NextItem(next, f[k]) ELSE f[i]]
    <2>2. ASSUME NEW i \in 0..(k + 1)
          PROVE  g[i] = IF i = 0 THEN Parsed(ArrayOf(<<>>), pos) ELSE NextItem(next, g[i - 1])
      <3>1. CASE i = k + 1
        <4>1. g[i] = NextItem(next, f[k]) /\ i # 0 /\ i - 1 \in 0..(k + 1) /\ i - 1 = k
          BY <3>1
        <4>2. g[i - 1] = f[k]
          BY <4>1
        <4> HIDE DEF g
        <4> QED
          BY <4>1, <4>2
      <3>2. CASE i # k + 1
        <4>1. i \in 0..k /\ g[i] = f[i] /\ (i # 0 => g[i - 1] = f[i - 1])
          BY <3>2
        <4> HIDE DEF g
        <4>2. f[i] = IF i = 0 THEN Parsed(ArrayOf(<<>>), pos) ELSE NextItem(next, f[i - 1])
          BY <2>1, <4>1 DEF ItemsOf
        <4> QED
          BY <4>1, <4>2
      <3> QED
        BY <3>1, <3>2
    <2>3. ItemsOf(g, next, pos, k + 1)
      <3>1. g = [i \in 0..(k + 1) |-> g[i]]
        OBVIOUS
      <3> HIDE DEF g
      <3> QED
        BY <2>2, <3>1 DEF ItemsOf
    <2> QED
      BY <2>3
  <1> HIDE DEF S
  <1>3. count \in S
    BY <1>1, <1>2, NatSetInduction
  <1> QED
    BY <1>3 DEF S

\* ParseItems is its last value.
LEMMA ParseItemsIs ==
  ASSUME NEW next, NEW pos, NEW count \in Nat
  PROVE  \E items : ItemsOf(items, next, pos, count) /\ ParseItems(next, pos, count) = items[count]
  <1> DEFINE h == CHOOSE items : ItemsOf(items, next, pos, count)
  <1>1. ItemsOf(h, next, pos, count)
    BY ItemsExist
  <1>2. ParseItems(next, pos, count) = h[count]
    BY DEF ParseItems, ItemsOf
  <1> QED
    BY <1>1, <1>2

\* A whole value ends behind its first byte and within the buffer.
Onward(result, pos, last) == result.ok => result.pos \in (pos + 1)..last

\* What an array is made of depends on what is parsed behind its first line only.
LEMMA ItemsAgree ==
  ASSUME NEW next, NEW other, NEW pos \in Nat, NEW last \in Nat, pos <= last,
         \A q \in pos..last : next[q] = other[q] /\ Onward(next[q], q, last),
         NEW count \in Nat, NEW f, NEW g, ItemsOf(f, next, pos, count), ItemsOf(g, other, pos, count)
  PROVE  \A i \in 0..count : f[i] = g[i] /\ (f[i].ok => f[i].pos \in pos..last)
  <1> DEFINE S == {i \in Nat : i \in 0..count => f[i] = g[i] /\ (f[i].ok => f[i].pos \in pos..last)}
  <1>1. 0 \in S
    <2>1. f[0] = Parsed(ArrayOf(<<>>), pos) /\ g[0] = f[0]
      BY DEF ItemsOf
    <2>2. f[0].pos = pos
      BY <2>1 DEF Parsed
    <2> QED
      BY <2>1, <2>2
  <1>2. ASSUME NEW i \in Nat, i \in S PROVE i + 1 \in S
    <2> SUFFICES ASSUME i + 1 \in 0..count
                 PROVE  f[i + 1] = g[i + 1] /\ (f[i + 1].ok => f[i + 1].pos \in pos..last)
      OBVIOUS
    <2>1. f[i] = g[i] /\ (f[i].ok => f[i].pos \in pos..last)
      BY <1>2
    <2>2. i + 1 # 0 /\ (i + 1) - 1 = i
      OBVIOUS
    <2>3. f[i + 1] = NextItem(next, f[i]) /\ g[i + 1] = NextItem(other, g[i])
      BY <2>2 DEF ItemsOf
    <2>4. CASE ~f[i].ok
      BY <2>1, <2>3, <2>4 DEF NextItem, Incomplete
    <2>5. CASE f[i].ok
      <3>1. next[f[i].pos] = other[f[i].pos] /\ Onward(next[f[i].pos], f[i].pos, last)
        BY <2>1, <2>5
      <3>2. f[i + 1] = g[i + 1]
        BY <2>1, <2>3, <3>1 DEF NextItem
      <3>3. CASE next[f[i].pos].ok
        <4>1. f[i + 1].pos = next[f[i].pos].pos
          BY <2>3, <2>5, <3>3 DEF NextItem, Parsed
        <4> QED
          BY <2>1, <2>5, <3>1, <3>2, <3>3, <4>1 DEF Onward
      <3>4. CASE ~next[f[i].pos].ok
        BY <2>3, <3>2, <3>4 DEF NextItem, Incomplete
      <3> QED
        BY <3>3, <3>4
    <2> QED
      BY <2>4, <2>5
  <1> HIDE DEF S
  <1>3. Nat \subseteq S
    BY <1>1, <1>2, NatSetInduction
  <1> QED
    BY <1>3 DEF S

\* What is parsed at a position depends on what is parsed behind it only, and ends there.
LEMMA ValueAgrees ==
  ASSUME NEW b \in Bytes, NEW pos \in 1..(Len(b) + 1), NEW next, NEW other,
         \A q \in (pos + 1)..(Len(b) + 1) :
           next[q] = other[q] /\ Onward(next[q], q, Len(b) + 1)
  PROVE  /\ ParseValue(next, b, pos) = ParseValue(other, b, pos)
         /\ Onward(ParseValue(next, b, pos), pos, Len(b) + 1)
  <1> DEFINE end == FindCRLF(b, pos)
             length == Wrap(b[pos].n)
  <1>0. Len(b) \in Nat /\ pos \in Nat \ {0}
    BY DEF Bytes
  <1>1. CASE end = 0
    BY <1>1 DEF ParseValue, Onward, Incomplete
  <1>2. CASE end # 0
    <2>1. end \in pos..Len(b)
      BY <1>0, <1>2, FindCRLFFinds
    <2>2. b[pos] \in AnyUnit /\ length \in Int
      <3>1. pos \in 1..Len(b)
        BY <1>0, <2>1
      <3>2. b[pos] \in AnyUnit
        BY <3>1 DEF Bytes
      <3>3. b[pos].n \in Int
        BY <3>2 DEF AnyUnit
      <3>4. length \in MinInt..MaxInt
        BY <3>3, WrapIsWord
      <3> QED
        BY <3>2, <3>4
    <2> HIDE DEF end, length
    <2>3. /\ ParseArray(next, b, pos, end) = ParseArray(other, b, pos, end)
          /\ Onward(ParseArray(next, b, pos, end), pos, Len(b) + 1)
      <3>1. CASE ~(IsNumber(pos, end) /\ length >= 0)
        BY <3>1 DEF ParseArray, Onward, Incomplete, length
      <3>2. CASE IsNumber(pos, end) /\ length >= 0
        <4>1. /\ ParseArray(next, b, pos, end) = ParseItems(next, end + 1, length)
              /\ ParseArray(other, b, pos, end) = ParseItems(other, end + 1, length)
          BY <3>2 DEF ParseArray, length
        <4>2. /\ end + 1 \in Nat /\ Len(b) + 1 \in Nat /\ end + 1 <= Len(b) + 1 /\ length \in Nat
              /\ length \in 0..length
          BY <1>0, <2>1, <2>2, <3>2
        <4>3. \A q \in (end + 1)..(Len(b) + 1) :
                next[q] = other[q] /\ Onward(next[q], q, Len(b) + 1)
          BY <1>0, <2>1
        <4>4. PICK f : ItemsOf(f, next, end + 1, length) /\ ParseItems(next, end + 1, length) = f[length]
          BY <4>2, ParseItemsIs
        <4>5. PICK g : ItemsOf(g, other, end + 1, length) /\ ParseItems(other, end + 1, length) = g[length]
          BY <4>2, ParseItemsIs
        <4>6. f[length] = g[length] /\ (f[length].ok => f[length].pos \in (end + 1)..(Len(b) + 1))
          <5>1. \A i \in 0..length : f[i] = g[i] /\ (f[i].ok => f[i].pos \in (end + 1)..(Len(b) + 1))
            BY <4>2, <4>3, <4>4, <4>5, ItemsAgree, Zenon
          <5> QED
            BY <4>2, <5>1
        <4>7. (end + 1)..(Len(b) + 1) \subseteq (pos + 1)..(Len(b) + 1)
          BY <1>0, <2>1
        <4> QED
          BY <4>1, <4>4, <4>5, <4>6, <4>7 DEF Onward
      <3> QED
        BY <3>1, <3>2
    <2>4. Onward(ParseInt(b, pos, end), pos, Len(b) + 1)
      BY <1>0, <2>1 DEF ParseInt, Onward, Parsed, Incomplete
    <2>5. Onward(ParseBulk(b, pos, end), pos, Len(b) + 1)
      <3>1. CASE ~IsNumber(pos, end) \/ length < -1
        BY <2>2, <3>1 DEF ParseBulk, Onward, Incomplete, length
      <3>2. CASE IsNumber(pos, end) /\ length = -1
        <4>1. ParseBulk(b, pos, end) = Parsed(Null, end + 1)
          BY <3>2 DEF ParseBulk, length
        <4> QED
          BY <1>0, <2>1, <4>1 DEF Onward, Parsed
      <3>3. CASE IsNumber(pos, end) /\ length >= 0
        <4>1. CASE Len(b) < end + length + 1 \/ b[end + length + 1] # CRLF
          <5>1. ParseBulk(b, pos, end) = Incomplete
            BY <2>1, <2>2, <3>3, <4>1 DEF ParseBulk, length
          <5> QED
            BY <5>1 DEF Onward, Incomplete
        <4>2. CASE ~(Len(b) < end + length + 1 \/ b[end + length + 1] # CRLF)
          <5>1. ParseBulk(b, pos, end) =
                  Parsed(Bulk(SubSeq(b, end + 1, end + length)), end + length + 2)
            BY <2>1, <2>2, <3>3, <4>2 DEF ParseBulk, length
          <5> QED
            BY <1>0, <2>1, <2>2, <3>3, <4>2, <5>1 DEF Onward, Parsed
        <4> QED
          BY <4>1, <4>2
      <3> QED
        BY <2>2, <3>1, <3>2, <3>3
    <2>6. Onward(ParseInline(b, pos, end), pos, Len(b) + 1)
      BY <1>0, <2>1 DEF ParseInline, Onward, Parsed
    <2>7. \A v : Onward(Parsed(v, end + 1), pos, Len(b) + 1)
      BY <1>0, <2>1 DEF Onward, Parsed
    <2> QED
      BY <1>2, <2>3, <2>4, <2>5, <2>6, <2>7 DEF ParseValue, end
  <1> QED
    BY <1>1, <1>2

\* f is parseNext on the positions from first on.
Parses(f, b, first) == f = [p \in first..(Len(b) + 1) |-> ParseValue(f, b, p)]

\* There is such a function, by induction from the end of the buffer.
LEMMA ParserExists ==
  ASSUME NEW b \in Bytes, NEW n \in 0..Len(b)
  PROVE  \E f : /\ Parses(f, b, Len(b) + 1 - n)
               /\ \A p \in (Len(b) + 1 - n)..(Len(b) + 1) : Onward(f[p], p, Len(b) + 1)
  <1>0. PICK last \in Nat \ {0} : last = Len(b) + 1
    BY DEF Bytes
  <1> DEFINE Good(f, first) == /\ Parses(f, b, first)
                               /\ \A p \in first..last : Onward(f[p], p, last)
             S == {k \in Nat : k < last => \E f : Good(f, last - k)}
  <1>1. 0 \in S
    <2> DEFINE f == [p \in last..last |-> Incomplete]
    <2>1. FindCRLF(b, last) = 0
      BY <1>0, FindCRLFNone
    <2>2. \A p \in last..last : ParseValue(f, b, p) = Incomplete
      BY <2>1 DEF ParseValue
    <2>3. f = [p \in last..last |-> ParseValue(f, b, p)]
      <3> HIDE DEF f
      <3>1. f = [p \in last..last |-> Incomplete]
        BY DEF f
      <3> QED
        BY <2>2, <3>1
    <2>4. Good(f, last)
      BY <1>0, <2>3 DEF Parses, Onward, Incomplete
    <2> HIDE DEF Good
    <2>5. last - 0 = last
      OBVIOUS
    <2> QED
      BY <2>4, <2>5
  <1>2. ASSUME NEW k \in Nat, k \in S PROVE k + 1 \in S
    <2> SUFFICES ASSUME k + 1 < last PROVE \E g : Good(g, last - (k + 1))
      <3> HIDE DEF Good
      <3> QED
        OBVIOUS
    <2>1. PICK first \in Nat \ {0} : first = last - (k + 1)
      OBVIOUS
    <2>2. last - k = first + 1 /\ k < last /\ first \in 1..last
      BY <2>1
    <2>3. PICK f : Good(f, first + 1)
      <3> HIDE DEF Good
      <3> QED
        BY <1>2, <2>2
    <2> DEFINE g == [p \in first..last |-> IF p = first THEN ParseValue(f, b, first) ELSE f[p]]
    <2>4. ASSUME NEW p \in first..last
          PROVE  g[p] = ParseValue(g, b, p) /\ Onward(g[p], p, last)
      <3>1. \A q \in (p + 1)..last : q \in (first + 1)..last /\ q \in first..last /\ q # first
        BY <2>2
      <3>2. \A q \in (p + 1)..last : f[q] = g[q] /\ Onward(f[q], q, last)
        BY <2>3, <3>1
      <3>3. /\ ParseValue(f, b, p) = ParseValue(g, b, p)
            /\ Onward(ParseValue(f, b, p), p, last)
        <4> HIDE DEF g
        <4>1. p \in 1..last
          BY <2>2
        <4> QED
          BY <1>0, <3>2, <4>1, ValueAgrees
      <3>4. g[p] = ParseValue(f, b, p)
        <4>1. CASE p = first
          BY <4>1
        <4>2. CASE p # first
          <5>1. p \in (first + 1)..last
            BY <2>2, <4>2
          <5>2. f[p] = ParseValue(f, b, p)
            BY <1>0, <2>3, <5>1 DEF Parses
          <5> QED
            BY <4>2, <5>2
        <4> QED
          BY <4>1, <4>2
      <3> HIDE DEF g
      <3> QED
        BY <3>3, <3>4
    <2>5. Good(g, first)
      <3>1. g = [p \in first..last |-> g[p]]
        OBVIOUS
      <3> HIDE DEF g
      <3> QED
        BY <1>0, <2>4, <3>1 DEF Parses
    <2> HIDE DEF Good
    <2> QED
      BY <2>1, <2>5
  <1> HIDE DEF Good, S
  <1>3. n \in S
    BY <1>1, <1>2, NatSetInduction
  <1> QED
    BY <1>0, <1>3 DEF S, Good

\* parseNext is what ParseValue makes of itself.
IsParser(next, b) ==
  \A p \in 1..(Len(b) + 1) : next[p] = ParseNext(b, p) /\ next[p] = ParseValue(next, b, p)

\* There is a function of the position that the recursion defines.
LEMMA ParseNextIs ==
  ASSUME NEW b \in Bytes
  PROVE  \E next : IsParser(next, b)
  <1> DEFINE h == CHOOSE f : Parses(f, b, 1)
  <1>1. \E f : Parses(f, b, 1)
    <2>1. Len(b) \in 0..Len(b) /\ Len(b) + 1 - Len(b) = 1
      BY DEF Bytes
    <2> QED
      BY <2>1, ParserExists
  <1>2. Parses(h, b, 1)
    BY <1>1
  <1>3. \A p : ParseNext(b, p) = h[p]
    BY DEF ParseNext, Parses
  <1> HIDE DEF h
  <1>4. \A p \in 1..(Len(b) + 1) : h[p] = ParseValue(h, b, p)
    BY <1>2 DEF Parses
  <1> QED
    BY <1>3, <1>4 DEF IsParser

-----------------------------------------------------------------------------
(* Messages in a buffer                                                    *)

\* From pos on the buffer holds u, as far as it goes.
Begins(b, pos, u) ==
  \A i \in 1..Len(u) : pos + i - 1 <= Len(b) => b[pos + i - 1] = u[i]

\* Where a buffer holds all of u, the parser returns v and the position behind u;
\* where it ends within u, the parser asks for more.
ReadsAs(u, v) ==
  /\ u \in Bytes /\ u # <<>>
  /\ \A b \in Bytes : \A pos \in 1..(Len(b) + 1) : Begins(b, pos, u) =>
       IF pos + Len(u) <= Len(b) + 1 THEN ParseNext(b, pos) = Parsed(v, pos + Len(u))
       ELSE ~ParseNext(b, pos).ok

\* So the parser reads a buffer that holds nothing else.
LEMMA ReadAlone ==
  ASSUME NEW u, NEW v, ReadsAs(u, v)
  PROVE  ParseOne(u) = Parsed(v, Len(u) + 1) /\ Len(u) \in Nat
  <1>1. u \in Bytes /\ Len(u) \in Nat
    BY DEF ReadsAs, Bytes
  <1>2. 1 \in 1..(Len(u) + 1) /\ 1 + Len(u) <= Len(u) + 1 /\ 1 + Len(u) = Len(u) + 1
    BY <1>1
  <1>3. Begins(u, 1, u)
    BY <1>1 DEF Begins
  <1>4. ParseNext(u, 1) = Parsed(v, Len(u) + 1)
    BY <1>1, <1>2, <1>3 DEF ReadsAs
  <1> QED
    BY <1>1, <1>4 DEF ParseOne

\* What begins with a \o c begins with a, and behind it with c.
LEMMA BeginsConcat ==
  ASSUME NEW b \in Bytes, NEW pos \in Nat \ {0}, NEW a \in Bytes, NEW c \in Bytes,
         Begins(b, pos, a \o c)
  PROVE  Begins(b, pos, a) /\ Begins(b, pos + Len(a), c)
  <1>1. /\ Len(a) \in Nat /\ Len(c) \in Nat /\ Len(b) \in Nat
        /\ Len(a \o c) = Len(a) + Len(c)
        /\ \A i \in 1..(Len(a) + Len(c)) : (a \o c)[i] = IF i <= Len(a) THEN a[i] ELSE c[i - Len(a)]
    BY ConcatProperties DEF Bytes
  <1> DEFINE d == a \o c
  <1>2. \A i \in 1..Len(d) : pos + i - 1 <= Len(b) => b[pos + i - 1] = d[i]
    BY DEF Begins
  <1> HIDE DEF d
  <1>3. ASSUME NEW i \in 1..Len(a), pos + i - 1 <= Len(b) PROVE b[pos + i - 1] = a[i]
    <2>1. i \in 1..Len(d) /\ d[i] = a[i]
      BY <1>1 DEF d
    <2> QED
      BY <1>2, <1>3, <2>1
  <1>4. ASSUME NEW i \in 1..Len(c), (pos + Len(a)) + i - 1 <= Len(b)
        PROVE  b[(pos + Len(a)) + i - 1] = c[i]
    <2>1. PICK j \in Nat : j = Len(a) + i
      BY <1>1
    <2>2. j \in 1..Len(d) /\ d[j] = c[i] /\ (pos + Len(a)) + i - 1 = pos + j - 1
      BY <1>1, <2>1 DEF d
    <2> QED
      BY <1>2, <1>4, <2>2
  <1> QED
    BY <1>3, <1>4 DEF Begins

\* A piece of a buffer is what was put there.
LEMMA PieceIs ==
  ASSUME NEW b \in Bytes, NEW u \in Bytes, NEW pos \in Nat \ {0}, Begins(b, pos, u),
         NEW end \in Int, end = pos + Len(u) - 1, end <= Len(b)
  PROVE  SubSeq(b, pos, end) = u
  <1>1. Len(u) \in Nat /\ Len(b) \in Nat
    BY DEF Bytes
  <1>2. \A i \in pos..end : b[i] \in AnyUnit
    BY <1>1 DEF Bytes
  <1> DEFINE p == SubSeq(b, pos, end)
  <1>3. /\ p \in Bytes /\ Len(p) = IF pos <= end THEN end - pos + 1 ELSE 0
        /\ \A i \in 1..(end - pos + 1) : p[i] = b[pos + i - 1]
    BY <1>2, SubSeqProperties DEF Bytes
  <1> HIDE DEF p
  <1>4. Len(p) = Len(u)
    BY <1>1, <1>3
  <1>5. \A i \in 1..Len(u) : p[i] = u[i]
    BY <1>1, <1>3, <1>4 DEF Begins
  <1>6. p = u
    BY <1>3, <1>4, <1>5, SeqEqual DEF Bytes
  <1> QED
    BY <1>6 DEF p

\* The end of a line is found when it is there, and no other.
LEMMA LineIsFound ==
  ASSUME NEW b \in Bytes, NEW pos \in Nat \ {0}, NEW text \in Bytes,
         \A i \in 1..Len(text) : text[i] # CRLF, Begins(b, pos, text), Begins(b, pos + Len(text), <<CRLF>>)
  PROVE  FindCRLF(b, pos) = IF pos + Len(text) <= Len(b) THEN pos + Len(text) ELSE 0
  <1>0. Len(b) \in Nat /\ Len(text) \in Nat
    BY DEF Bytes
  <1>1. ASSUME NEW i \in pos..(pos + Len(text) - 1), i <= Len(b) PROVE b[i] # CRLF
    <2>1. PICK j \in 1..Len(text) : i = pos + j - 1
      <3>1. i - pos + 1 \in 1..Len(text) /\ i = pos + (i - pos + 1) - 1
        BY <1>0
      <3> QED
        BY <3>1
    <2> QED
      BY <1>1, <2>1 DEF Begins
  <1>2. CASE pos + Len(text) <= Len(b)
    <2>1. PICK end \in pos..Len(b) : end = pos + Len(text)
      BY <1>0, <1>2
    <2>2. b[end] = CRLF
      <3>1. 1 \in 1..Len(<<CRLF>>) /\ end + 1 - 1 = end /\ <<CRLF>>[1] = CRLF
        BY <2>1
      <3> QED
        BY <2>1, <3>1 DEF Begins
    <2>3. \A i \in pos..(end - 1) : b[i] # CRLF
      BY <1>0, <1>1, <2>1
    <2> QED
      BY <1>2, <2>1, <2>2, <2>3, FindCRLFIsFirst
  <1>3. CASE ~(pos + Len(text) <= Len(b))
    <2>1. \A i \in pos..Len(b) : b[i] # CRLF
      BY <1>0, <1>1, <1>3
    <2> QED
      BY <1>3, <2>1, FindCRLFNone
  <1> QED
    BY <1>2, <1>3

\* What a parser does with a line whose end has not arrived.
LEMMA CutLineIsIncomplete ==
  ASSUME NEW b \in Bytes, NEW pos \in 1..(Len(b) + 1), FindCRLF(b, pos) = 0
  PROVE  ~ParseNext(b, pos).ok
  <1>1. PICK next : IsParser(next, b)
    BY ParseNextIs
  <1> QED
    BY <1>1 DEF IsParser, ParseValue, Incomplete

\* What it does with one that has.
LEMMA WholeLine ==
  ASSUME NEW b \in Bytes, NEW pos \in 1..Len(b), NEW end, FindCRLF(b, pos) = end, end # 0
  PROVE  /\ b[pos].tag = "+" => ParseNext(b, pos) = Parsed(Simple(SubSeq(b, pos + 1, end - 1)), end + 1)
         /\ b[pos].tag = "-" => ParseNext(b, pos) = Parsed(Error(SubSeq(b, pos + 1, end - 1)), end + 1)
         /\ b[pos].tag = ":" => ParseNext(b, pos) = ParseInt(b, pos, end)
         /\ b[pos].tag = "$" => ParseNext(b, pos) = ParseBulk(b, pos, end)
         /\ b[pos].tag \notin {"*", "+", "-", ":", "$"} => ParseNext(b, pos) = ParseInline(b, pos, end)
  <1>1. PICK next : IsParser(next, b)
    BY ParseNextIs
  <1>2. ParseNext(b, pos) = ParseValue(next, b, pos)
    BY <1>1 DEF IsParser, Bytes
  <1> QED
    BY <1>2 DEF ParseValue

-----------------------------------------------------------------------------
(* Each kind of message is read as what it means                           *)

\* The units of the protocol are units.
LEMMA UnitTypes ==
  /\ CRLF \in AnyUnit /\ Bare("+") \in AnyUnit /\ Bare("-") \in AnyUnit
  /\ Bare("+").tag = "+" /\ Bare("-").tag = "-" /\ CRLF.tag = "crlf"
  /\ \A n \in Int : /\ Number("*", n) \in AnyUnit /\ Number("*", n).tag = "*" /\ Number("*", n).n = n
                   /\ Number("$", n) \in AnyUnit /\ Number("$", n).tag = "$" /\ Number("$", n).n = n
                   /\ Number(":", n) \in AnyUnit /\ Number(":", n).tag = ":" /\ Number(":", n).n = n
  <1>1. ASSUME NEW t \in Tags, NEW n \in Int
        PROVE  Unit(t, n) \in AnyUnit /\ Unit(t, n).tag = t /\ Unit(t, n).n = n
    BY DEF Unit, AnyUnit
  <1>2. {"crlf", "+", "-", "*", "$", ":"} \subseteq Tags
    BY DEF Tags
  <1>3. /\ CRLF \in AnyUnit /\ Bare("+") \in AnyUnit /\ Bare("-") \in AnyUnit
        /\ Bare("+").tag = "+" /\ Bare("-").tag = "-" /\ CRLF.tag = "crlf"
    BY <1>1, <1>2 DEF CRLF, Bare
  <1>4. ASSUME NEW t \in {"*", "$", ":"}, NEW n \in Int
        PROVE  Number(t, n) \in AnyUnit /\ Number(t, n).tag = t /\ Number(t, n).n = n
    BY <1>1, <1>2 DEF Number
  <1> QED
    BY <1>3, <1>4

\* Two units in a row.
LEMMA TwoUnits ==
  ASSUME NEW h \in AnyUnit, NEW k \in AnyUnit
  PROVE  /\ <<h>> \in Bytes /\ Len(<<h>>) = 1 /\ <<h>>[1] = h
         /\ <<h, k>> = <<h>> \o <<k>>
         /\ <<h, k>> \in Bytes /\ Len(<<h, k>>) = 2 /\ <<h, k>> # <<>>
  <1>1. <<h>> \in Bytes /\ Len(<<h>>) = 1 /\ <<h>>[1] = h
    BY DEF Bytes
  <1>2. <<h, k>> \in Bytes /\ Len(<<h, k>>) = 2 /\ <<h, k>> # <<>>
    BY DEF Bytes
  <1>3. <<h, k>> = Append(<<h>>, k)
    OBVIOUS
  <1>4. Append(<<h>>, k) = <<h>> \o <<k>>
    BY <1>1, AppendIsConcat DEF Bytes
  <1> QED
    BY <1>1, <1>2, <1>3, <1>4

\* The line that begins a number, a bulk string or an array.
LEMMA HeaderIsFound ==
  ASSUME NEW b \in Bytes, NEW pos \in 1..(Len(b) + 1), NEW h \in AnyUnit, h # CRLF,
         Begins(b, pos, <<h, CRLF>>)
  PROVE  /\ FindCRLF(b, pos) = IF pos + 1 <= Len(b) THEN pos + 1 ELSE 0
         /\ pos <= Len(b) => b[pos] = h
  <1>0. Len(b) \in Nat /\ pos \in Nat \ {0}
    BY DEF Bytes
  <1>1. /\ <<h>> \in Bytes /\ <<CRLF>> \in Bytes /\ Len(<<h>>) = 1 /\ <<h>>[1] = h
        /\ <<h, CRLF>> = <<h>> \o <<CRLF>>
    BY TwoUnits, UnitTypes
  <1>2. Begins(b, pos, <<h>>) /\ Begins(b, pos + 1, <<CRLF>>)
    <2>1. Begins(b, pos, <<h>> \o <<CRLF>>)
      BY <1>1
    <2> QED
      BY <1>0, <1>1, <2>1, BeginsConcat
  <1>3. \A i \in 1..Len(<<h>>) : <<h>>[i] # CRLF
    BY <1>1
  <1>4. FindCRLF(b, pos) = IF pos + 1 <= Len(b) THEN pos + 1 ELSE 0
    BY <1>0, <1>1, <1>2, <1>3, LineIsFound
  <1>5. pos <= Len(b) => b[pos] = h
    <2>1. 1 \in 1..Len(<<h>>) /\ pos + 1 - 1 = pos
      BY <1>0, <1>1
    <2> QED
      BY <1>1, <1>2, <2>1 DEF Begins
  <1> QED
    BY <1>4, <1>5

\* A number is read as the word its digits make.
LEMMA IntegerReads ==
  ASSUME NEW n \in Int
  PROVE  ReadsAs(<<Number(":", n), CRLF>>, Integer(Wrap(n)))
  <1> DEFINE u == <<Number(":", n), CRLF>>
  <1>1. /\ Number(":", n) \in AnyUnit /\ CRLF \in AnyUnit /\ Number(":", n) # CRLF
        /\ Number(":", n).tag = ":" /\ Number(":", n).n = n
    BY UnitTypes
  <1>2. u \in Bytes /\ Len(u) = 2 /\ u # <<>>
    BY <1>1, TwoUnits
  <1>3. ASSUME NEW b \in Bytes, NEW pos \in 1..(Len(b) + 1), Begins(b, pos, u)
        PROVE  IF pos + Len(u) <= Len(b) + 1 THEN ParseNext(b, pos) = Parsed(Integer(Wrap(n)), pos + Len(u))
               ELSE ~ParseNext(b, pos).ok
    <2>0. Len(b) \in Nat
      BY DEF Bytes
    <2>1. /\ FindCRLF(b, pos) = IF pos + 1 <= Len(b) THEN pos + 1 ELSE 0
          /\ pos <= Len(b) => b[pos] = Number(":", n)
      BY <1>1, <1>3, HeaderIsFound
    <2>2. CASE pos + 1 <= Len(b)
      <3>1. ParseNext(b, pos) = ParseInt(b, pos, pos + 1)
        BY <1>1, <2>0, <2>1, <2>2, WholeLine
      <3>2. ParseInt(b, pos, pos + 1) = Parsed(Integer(Wrap(n)), (pos + 1) + 1)
        BY <1>1, <2>0, <2>1, <2>2 DEF ParseInt, IsNumber
      <3> QED
        BY <1>2, <2>0, <2>2, <3>1, <3>2
    <2>3. CASE ~(pos + 1 <= Len(b))
      BY <1>2, <2>0, <2>1, <2>3, CutLineIsIncomplete
    <2> QED
      BY <2>2, <2>3
  <1> HIDE DEF u
  <1>4. ReadsAs(u, Integer(Wrap(n)))
    BY <1>2, <1>3 DEF ReadsAs
  <1> QED
    BY <1>4 DEF u

\* The length -1 is read as the null.
LEMMA NullReads == ReadsAs(<<Number("$", -1), CRLF>>, Null)
  <1> DEFINE h == Number("$", -1)
             u == <<h, CRLF>>
  <1>1. h \in AnyUnit /\ CRLF \in AnyUnit /\ h # CRLF /\ h.tag = "$" /\ h.n = -1
    BY UnitTypes
  <1> HIDE DEF h
  <1>2. u \in Bytes /\ Len(u) = 2 /\ u # <<>>
    BY <1>1, TwoUnits
  <1>3. ASSUME NEW b \in Bytes, NEW pos \in 1..(Len(b) + 1), Begins(b, pos, u)
        PROVE  IF pos + Len(u) <= Len(b) + 1 THEN ParseNext(b, pos) = Parsed(Null, pos + Len(u))
               ELSE ~ParseNext(b, pos).ok
    <2>0. Len(b) \in Nat
      BY DEF Bytes
    <2>1. /\ FindCRLF(b, pos) = IF pos + 1 <= Len(b) THEN pos + 1 ELSE 0
          /\ pos <= Len(b) => b[pos] = h
      BY <1>1, <1>3, HeaderIsFound
    <2>2. CASE pos + 1 <= Len(b)
      <3>1. ParseNext(b, pos) = ParseBulk(b, pos, pos + 1)
        BY <1>1, <2>0, <2>1, <2>2, WholeLine
      <3>2. Wrap(b[pos].n) = -1
        BY <1>1, <2>0, <2>1, <2>2, WordIsKept, RespAssumption DEF MinInt
      <3>3. ParseBulk(b, pos, pos + 1) = Parsed(Null, (pos + 1) + 1)
        BY <3>2 DEF ParseBulk, IsNumber
      <3> QED
        BY <1>2, <2>0, <2>2, <3>1, <3>3
    <2>3. CASE ~(pos + 1 <= Len(b))
      BY <1>2, <2>0, <2>1, <2>3, CutLineIsIncomplete
    <2> QED
      BY <2>2, <2>3
  <1> HIDE DEF u
  <1>4. ReadsAs(u, Null)
    BY <1>2, <1>3 DEF ReadsAs
  <1> QED
    BY <1>4 DEF u, h

\* StripNewlines leaves a text without a line end.
LEMMA StrippedText ==
  ASSUME NEW text \in Bytes
  PROVE  /\ StripNewlines(text) \in Bytes /\ Len(StripNewlines(text)) = Len(text)
         /\ \A i \in 1..Len(text) : StripNewlines(text)[i] # CRLF
  <1>1. Text(0) \in AnyUnit /\ Text(0) # CRLF
    BY DEF Text, Unit, AnyUnit, Tags, CRLF
  <1>2. Len(text) \in Nat /\ DOMAIN text = 1..Len(text) /\ \A i \in 1..Len(text) : text[i] \in AnyUnit
    BY DEF Bytes
  <1>3. StripNewlines(text) = [i \in 1..Len(text) |-> IF text[i] = CRLF THEN Text(0) ELSE text[i]]
    BY <1>2 DEF StripNewlines
  <1>4. StripNewlines(text) \in [1..Len(text) -> AnyUnit]
    BY <1>1, <1>2, <1>3
  <1>5. StripNewlines(text) \in Bytes /\ Len(StripNewlines(text)) = Len(text)
    BY <1>2, <1>4 DEF Bytes
  <1> QED
    BY <1>1, <1>3, <1>5

\* A buffer in which a line begins: its end, and its first byte.
LEMMA TextLineIsFound ==
  ASSUME NEW b \in Bytes, NEW pos \in 1..(Len(b) + 1), NEW text \in Bytes,
         \A i \in 1..Len(text) : text[i] # CRLF, Begins(b, pos, text \o <<CRLF>>)
  PROVE  /\ Begins(b, pos, text) /\ Begins(b, pos + Len(text), <<CRLF>>)
         /\ Len(text \o <<CRLF>>) = Len(text) + 1 /\ Len(text) \in Nat
         /\ FindCRLF(b, pos) = IF pos + Len(text) <= Len(b) THEN pos + Len(text) ELSE 0
  <1>0. Len(b) \in Nat /\ pos \in Nat \ {0} /\ Len(text) \in Nat
    BY DEF Bytes
  <1>1. CRLF \in AnyUnit /\ <<CRLF>> \in Bytes /\ Len(<<CRLF>>) = 1
    BY TwoUnits, UnitTypes
  <1>2. Begins(b, pos, text) /\ Begins(b, pos + Len(text), <<CRLF>>)
    BY <1>0, <1>1, BeginsConcat
  <1>3. Len(text \o <<CRLF>>) = Len(text) + 1
    BY <1>1, ConcatProperties DEF Bytes
  <1> QED
    BY <1>0, <1>2, <1>3, LineIsFound

\* A type byte and a text: what the parser makes of the line.
TextLine(h, text) == <<h>> \o text \o <<CRLF>>

\* A line of text ends at its line end, and its text is what was written.
LEMMA TextLineReads ==
  ASSUME NEW h \in AnyUnit, h # CRLF, NEW text \in Bytes, \A i \in 1..Len(text) : text[i] # CRLF,
         NEW b \in Bytes, NEW pos \in 1..(Len(b) + 1), Begins(b, pos, TextLine(h, text))
  PROVE  /\ Len(TextLine(h, text)) = Len(text) + 2 /\ Len(text) \in Nat
         /\ FindCRLF(b, pos) = IF pos + 1 + Len(text) <= Len(b) THEN pos + 1 + Len(text) ELSE 0
         /\ pos <= Len(b) => b[pos] = h
         /\ pos + 1 + Len(text) <= Len(b) => SubSeq(b, pos + 1, pos + Len(text)) = text
  <1>0. Len(b) \in Nat /\ pos \in Nat \ {0} /\ Len(text) \in Nat
    BY DEF Bytes
  <1>1. <<h>> \in Bytes /\ Len(<<h>>) = 1 /\ <<h>>[1] = h
    BY TwoUnits
  <1> DEFINE whole == <<h>> \o text
  <1>2. /\ whole \in Bytes /\ Len(whole) = Len(text) + 1
        /\ \A i \in 1..(Len(text) + 1) : whole[i] = IF i <= 1 THEN <<h>>[i] ELSE text[i - 1]
    BY <1>0, <1>1, ConcatProperties DEF Bytes
  <1>3. Begins(b, pos, whole \o <<CRLF>>) /\ Len(TextLine(h, text)) = Len(whole \o <<CRLF>>)
    BY DEF TextLine
  <1>4. \A i \in 1..Len(whole) : whole[i] # CRLF
    <2> HIDE DEF whole
    <2>1. ASSUME NEW i \in 1..(Len(text) + 1) PROVE whole[i] # CRLF
      <3>1. CASE i <= 1
        BY <1>1, <1>2, <3>1
      <3>2. CASE i > 1
        <4>1. i - 1 \in 1..Len(text) /\ ~(i <= 1)
          BY <1>0, <3>2
        <4> QED
          BY <1>2, <4>1
      <3> QED
        BY <1>0, <3>1, <3>2
    <2> QED
      BY <1>2, <2>1
  <1>5. Begins(b, pos, <<h>>) /\ Begins(b, pos + 1, text)
    <2>1. Begins(b, pos, whole)
      <3> HIDE DEF whole
      <3> QED
        BY <1>2, <1>3, <1>4, TextLineIsFound
    <2> QED
      BY <1>0, <1>1, <2>1, BeginsConcat
  <1>6. /\ Len(whole \o <<CRLF>>) = Len(whole) + 1
        /\ FindCRLF(b, pos) = IF pos + Len(whole) <= Len(b) THEN pos + Len(whole) ELSE 0
    <2> HIDE DEF whole
    <2> QED
      BY <1>2, <1>3, <1>4, TextLineIsFound
  <1> HIDE DEF whole
  <1>7. pos <= Len(b) => b[pos] = h
    <2>1. 1 \in 1..Len(<<h>>) /\ pos + 1 - 1 = pos
      BY <1>0, <1>1
    <2> QED
      BY <1>1, <1>5, <2>1 DEF Begins
  <1>8. pos + 1 + Len(text) <= Len(b) => SubSeq(b, pos + 1, pos + Len(text)) = text
    <2> SUFFICES ASSUME pos + 1 + Len(text) <= Len(b) PROVE SubSeq(b, pos + 1, pos + Len(text)) = text
      OBVIOUS
    <2>1. PICK start \in Nat \ {0} : start = pos + 1
      BY <1>0
    <2>2. PICK end \in Int : end = pos + Len(text)
      BY <1>0
    <2>3. end = start + Len(text) - 1 /\ end <= Len(b) /\ Begins(b, start, text)
      BY <1>0, <1>5, <2>1, <2>2
    <2>4. SubSeq(b, start, end) = text
      BY <2>3, PieceIs
    <2> QED
      BY <2>1, <2>2, <2>4
  <1> QED
    BY <1>0, <1>2, <1>3, <1>6, <1>7, <1>8

\* A text after + or -, without line ends, is read as it is.
LEMMA TextReads ==
  ASSUME NEW text \in Bytes, \A i \in 1..Len(text) : text[i] # CRLF
  PROVE  /\ ReadsAs(TextLine(Bare("+"), text), Simple(text))
         /\ ReadsAs(TextLine(Bare("-"), text), Error(text))
  <1>1. ASSUME NEW h \in {Bare("+"), Bare("-")}, NEW v, v = IF h = Bare("+") THEN Simple(text) ELSE Error(text)
        PROVE  ReadsAs(TextLine(h, text), v)
    <2>1. h \in AnyUnit /\ h # CRLF /\ h.tag \in {"+", "-"} /\ (h.tag = "+" <=> h = Bare("+"))
      BY UnitTypes
    <2>2. TextLine(h, text) \in Bytes /\ TextLine(h, text) # <<>>
      <3>1. <<h>> \in Bytes /\ Len(<<h>>) = 1 /\ <<CRLF>> \in Bytes
        BY <2>1, TwoUnits, UnitTypes
      <3>2. <<h>> \o text \in Bytes
        BY <3>1, ConcatBytes
      <3>3. TextLine(h, text) \in Bytes /\ Len(TextLine(h, text)) = Len(<<h>> \o text) + Len(<<CRLF>>)
        BY <3>1, <3>2, ConcatProperties, ConcatBytes DEF TextLine, Bytes
      <3>4. Len(<<h>> \o text) \in Nat /\ Len(<<CRLF>>) = 1
        BY <3>2, TwoUnits, UnitTypes DEF Bytes
      <3> QED
        BY <3>3, <3>4
    <2>3. ASSUME NEW b \in Bytes, NEW pos \in 1..(Len(b) + 1), Begins(b, pos, TextLine(h, text))
          PROVE  IF pos + Len(TextLine(h, text)) <= Len(b) + 1
                 THEN ParseNext(b, pos) = Parsed(v, pos + Len(TextLine(h, text)))
                 ELSE ~ParseNext(b, pos).ok
      <3>0. Len(b) \in Nat
        BY DEF Bytes
      <3>1. /\ Len(TextLine(h, text)) = Len(text) + 2 /\ Len(text) \in Nat
            /\ FindCRLF(b, pos) = IF pos + 1 + Len(text) <= Len(b) THEN pos + 1 + Len(text) ELSE 0
            /\ pos <= Len(b) => b[pos] = h
            /\ pos + 1 + Len(text) <= Len(b) => SubSeq(b, pos + 1, pos + Len(text)) = text
        BY <2>1, <2>3, TextLineReads
      <3>2. CASE pos + 1 + Len(text) <= Len(b)
        <4>1. PICK end \in Nat \ {0} : end = pos + 1 + Len(text)
          BY <3>1
        <4>2. FindCRLF(b, pos) = end /\ pos \in 1..Len(b) /\ b[pos] = h /\ SubSeq(b, pos + 1, end - 1) = text
          <5>1. end - 1 = pos + Len(text)
            BY <3>1, <4>1
          <5> QED
            BY <3>0, <3>1, <3>2, <4>1, <5>1
        <4>3. ParseNext(b, pos) = Parsed(v, end + 1)
          <5>1. /\ b[pos].tag = "+" => ParseNext(b, pos) = Parsed(Simple(text), end + 1)
                /\ b[pos].tag = "-" => ParseNext(b, pos) = Parsed(Error(text), end + 1)
            BY <4>1, <4>2, WholeLine
          <5>2. CASE h = Bare("+")
            BY <1>1, <2>1, <4>2, <5>1, <5>2
          <5>3. CASE h # Bare("+")
            BY <1>1, <2>1, <4>2, <5>1, <5>3
          <5> QED
            BY <5>2, <5>3
        <4>4. end + 1 = pos + Len(TextLine(h, text)) /\ pos + Len(TextLine(h, text)) <= Len(b) + 1
          BY <3>0, <3>1, <3>2, <4>1
        <4> QED
          BY <4>3, <4>4
      <3>3. CASE ~(pos + 1 + Len(text) <= Len(b))
        <4>1. ~(pos + Len(TextLine(h, text)) <= Len(b) + 1)
          BY <3>0, <3>1, <3>3
        <4>2. ~ParseNext(b, pos).ok
          BY <3>1, <3>3, CutLineIsIncomplete
        <4> QED
          BY <4>1, <4>2
      <3> QED
        BY <3>2, <3>3
    <2> QED
      BY <2>2, <2>3 DEF ReadsAs
  <1>2. Bare("+") # Bare("-")
    BY UnitTypes
  <1> QED
    BY <1>1, <1>2

\* A line that does not begin with a type byte is read as its words.
LEMMA InlineReads ==
  ASSUME NEW text \in Bytes, \A i \in 1..Len(text) : text[i] # CRLF,
         text # <<>> => text[1].tag \notin {"*", "+", "-", ":", "$"}
  PROVE  ReadsAs(text \o <<CRLF>>, InlineValue(text))
  <1> DEFINE u == text \o <<CRLF>>
  <1>1. CRLF \in AnyUnit /\ <<CRLF>> \in Bytes /\ Len(<<CRLF>>) = 1 /\ CRLF.tag = "crlf" /\ Len(text) \in Nat
    BY TwoUnits, UnitTypes DEF Bytes
  <1>2. u \in Bytes /\ Len(u) = Len(text) + 1
    BY <1>1, ConcatProperties DEF Bytes
  <1>3. u # <<>>
    BY <1>1, <1>2
  <1>4. ASSUME NEW b \in Bytes, NEW pos \in 1..(Len(b) + 1), Begins(b, pos, u)
        PROVE  IF pos + Len(u) <= Len(b) + 1 THEN ParseNext(b, pos) = Parsed(InlineValue(text), pos + Len(u))
               ELSE ~ParseNext(b, pos).ok
    <2>0. Len(b) \in Nat
      BY DEF Bytes
    <2>1. /\ Begins(b, pos, text) /\ Begins(b, pos + Len(text), <<CRLF>>)
          /\ FindCRLF(b, pos) = IF pos + Len(text) <= Len(b) THEN pos + Len(text) ELSE 0
      BY <1>4, TextLineIsFound
    <2> HIDE DEF u
    <2>2. CASE pos + Len(text) <= Len(b)
      <3>1. PICK end \in Nat \ {0} : end = pos + Len(text)
        BY <1>1
      <3>2. FindCRLF(b, pos) = end /\ pos \in 1..Len(b)
        BY <1>1, <2>0, <2>1, <2>2, <3>1
      <3>3. b[pos].tag \notin {"*", "+", "-", ":", "$"}
        <4>1. CASE text = <<>>
          <5>1. Len(text) = 0 /\ 1 \in 1..Len(<<CRLF>>) /\ (pos + Len(text)) + 1 - 1 = pos
            BY <1>1, <4>1
          <5>2. b[pos] = <<CRLF>>[1]
            BY <2>0, <2>1, <3>2, <5>1 DEF Begins
          <5> QED
            BY <1>1, <5>2
        <4>2. CASE text # <<>>
          <5>1. 1 \in 1..Len(text) /\ pos + 1 - 1 = pos
            BY <1>1, <4>2 DEF Bytes
          <5>2. b[pos] = text[1]
            BY <2>0, <2>1, <3>2, <5>1 DEF Begins
          <5> QED
            BY <4>2, <5>2
        <4> QED
          BY <4>1, <4>2
      <3>4. SubSeq(b, pos, end - 1) = text
        <4>1. PICK last \in Int : last = end - 1
          OBVIOUS
        <4>2. last = pos + Len(text) - 1 /\ last <= Len(b) /\ pos \in Nat \ {0}
          BY <1>1, <2>0, <2>2, <3>1, <4>1
        <4>3. SubSeq(b, pos, last) = text
          BY <2>1, <4>2, PieceIs
        <4> QED
          BY <4>1, <4>3
      <3>5. ParseNext(b, pos) = Parsed(InlineValue(text), end + 1)
        BY ZenonT(60), <3>2, <3>3, <3>4, WholeLine DEF ParseInline
      <3>6. end + 1 = pos + Len(u) /\ pos + Len(u) <= Len(b) + 1
        BY <1>1, <1>2, <2>0, <2>2, <3>1
      <3> QED
        BY <3>5, <3>6
    <2>3. CASE ~(pos + Len(text) <= Len(b))
      <3>1. ~(pos + Len(u) <= Len(b) + 1)
        BY <1>1, <1>2, <2>0, <2>3
      <3>2. ~ParseNext(b, pos).ok
        BY <2>1, <2>3, CutLineIsIncomplete
      <3> QED
        BY <3>1, <3>2
    <2> QED
      BY <2>2, <2>3
  <1> HIDE DEF u
  <1>5. ReadsAs(u, InlineValue(text))
    BY <1>2, <1>3, <1>4 DEF ReadsAs
  <1> QED
    BY <1>5 DEF u

\* Data of a length that fits into a word is read as it is, line ends included.
LEMMA BulkReads ==
  ASSUME NEW data \in Bytes, Len(data) <= MaxInt
  PROVE  ReadsAs(<<Number("$", Len(data)), CRLF>> \o data \o <<CRLF>>, Bulk(data))
  <1>a. PICK size \in Nat : size = Len(data)
    BY DEF Bytes
  <1> DEFINE h == Number("$", size)
             front == <<h, CRLF>> \o data
             u == front \o <<CRLF>>
  <1>0. size \in Nat /\ size = Len(data) /\ size \in Int /\ size \in MinInt..MaxInt
    BY <1>a, RespAssumption DEF MinInt
  <1>1. /\ h \in AnyUnit /\ CRLF \in AnyUnit /\ h # CRLF /\ h.tag = "$" /\ h.n = size
        /\ <<CRLF>> \in Bytes /\ Len(<<CRLF>>) = 1 /\ <<CRLF>>[1] = CRLF
    <2>1. /\ h \in AnyUnit /\ CRLF \in AnyUnit /\ h.tag = "$" /\ h.n = size /\ CRLF.tag = "crlf"
      BY <1>0, UnitTypes
    <2>2. h # CRLF
      <3> HIDE DEF h
      <3> QED
        BY <2>1
    <2> HIDE DEF h
    <2> QED
      BY <2>1, <2>2, TwoUnits
  <1> HIDE DEF h
  <1>2. <<h, CRLF>> \in Bytes /\ Len(<<h, CRLF>>) = 2
    BY <1>1, TwoUnits
  <1>3. front \in Bytes /\ Len(front) = size + 2
    BY <1>0, <1>2, ConcatProperties DEF Bytes
  <1>4. u \in Bytes /\ Len(u) = size + 3 /\ u # <<>>
    <2> HIDE DEF front
    <2>1. u \in Bytes /\ Len(u) = size + 3
      BY <1>0, <1>1, <1>3, ConcatProperties DEF Bytes
    <2> QED
      BY <1>0, <2>1
  <1>5. ASSUME NEW b \in Bytes, NEW pos \in 1..(Len(b) + 1), Begins(b, pos, u)
        PROVE  IF pos + Len(u) <= Len(b) + 1 THEN ParseNext(b, pos) = Parsed(Bulk(data), pos + Len(u))
               ELSE ~ParseNext(b, pos).ok
    <2>0. Len(b) \in Nat /\ pos \in Nat \ {0}
      BY DEF Bytes
    <2>1. Begins(b, pos, front) /\ Begins(b, pos + Len(front), <<CRLF>>)
      <3> HIDE DEF front
      <3> QED
        BY <1>1, <1>3, <1>5, <2>0, BeginsConcat
    <2>2. Begins(b, pos, <<h, CRLF>>) /\ Begins(b, pos + 2, data)
      BY <1>2, <2>0, <2>1, BeginsConcat
    <2> HIDE DEF u, front
    <2>3. /\ FindCRLF(b, pos) = IF pos + 1 <= Len(b) THEN pos + 1 ELSE 0
          /\ pos <= Len(b) => b[pos] = h
      BY <1>1, <2>2, HeaderIsFound
    <2>4. CASE pos + 1 <= Len(b)
      <3>1. PICK end \in Nat \ {0} : end = pos + 1
        BY <2>0
      <3>2. FindCRLF(b, pos) = end /\ pos \in 1..Len(b) /\ b[pos] = h
        BY <2>0, <2>3, <2>4, <3>1
      <3>3. ParseNext(b, pos) = ParseBulk(b, pos, end)
        BY <1>1, <3>1, <3>2, WholeLine
      <3>4. Wrap(b[pos].n) = size
        BY <1>0, <1>1, <3>2, WordIsKept
      <3>5. PICK last \in Nat \ {0} : last = end + size
        BY <1>0, <3>1
      <3>6. ParseBulk(b, pos, end) =
              IF Len(b) < last + 1 \/ b[last + 1] # CRLF THEN Incomplete
              ELSE Parsed(Bulk(SubSeq(b, end + 1, last)), last + 2)
        BY <1>0, <3>1, <3>4, <3>5 DEF ParseBulk, IsNumber
      <3>7. CASE Len(b) < last + 1
        <4>1. ~(pos + Len(u) <= Len(b) + 1)
          BY <1>0, <1>4, <2>0, <3>1, <3>5, <3>7
        <4>2. ~ParseNext(b, pos).ok
          BY <3>3, <3>6, <3>7 DEF Incomplete
        <4> QED
          BY <4>1, <4>2
      <3>8. CASE last + 1 <= Len(b)
        <4>1. b[last + 1] = CRLF
          <5>1. 1 \in 1..Len(<<CRLF>>) /\ (pos + Len(front)) + 1 - 1 = last + 1
            BY <1>0, <1>1, <1>3, <2>0, <3>1, <3>5
          <5> QED
            BY <1>1, <2>1, <3>8, <5>1 DEF Begins
        <4>2. PICK start \in Nat \ {0} : start = end + 1
          BY <3>1
        <4>3. Begins(b, start, data) /\ last = start + Len(data) - 1 /\ last <= Len(b) /\ last \in Int
          BY <1>0, <2>0, <2>2, <3>1, <3>5, <3>8, <4>2
        <4>4. SubSeq(b, start, last) = data
          BY <4>3, PieceIs
        <4>5. ~(Len(b) < last + 1)
          BY <2>0, <3>8
        <4>6. ParseNext(b, pos) = Parsed(Bulk(data), last + 2)
          BY <3>3, <3>6, <4>1, <4>2, <4>4, <4>5
        <4>7. last + 2 = pos + Len(u) /\ pos + Len(u) <= Len(b) + 1
          BY <1>0, <1>4, <2>0, <3>1, <3>5, <3>8
        <4> QED
          BY <4>6, <4>7
      <3> QED
        BY <2>0, <3>7, <3>8
    <2>5. CASE ~(pos + 1 <= Len(b))
      <3>1. ~(pos + Len(u) <= Len(b) + 1)
        BY <1>0, <1>4, <2>0, <2>5
      <3>2. ~ParseNext(b, pos).ok
        BY <2>3, <2>5, CutLineIsIncomplete
      <3> QED
        BY <3>1, <3>2
    <2> QED
      BY <2>4, <2>5
  <1>6. ReadsAs(u, Bulk(data))
    <2> HIDE DEF u
    <2> QED
      BY <1>4, <1>5 DEF ReadsAs
  <1> QED
    BY <1>0, <1>6 DEF h

\* The joints of what is in a buffer: up to each of them it holds the elements.
LEMMA BeginsJoints ==
  ASSUME NEW b \in Bytes, NEW pos \in Nat \ {0}, NEW s \in Seq(Bytes), NEW joint, Joints(joint, s),
         Begins(b, pos, joint[Len(s)])
  PROVE  \A k \in 1..Len(s) : Begins(b, pos + Len(joint[k - 1]), s[k])
  <1>0. /\ Len(s) \in Nat
        /\ \A k \in 1..Len(s) : /\ joint[k] = joint[k - 1] \o s[k] /\ s[k] \in Bytes /\ joint[k] \in Bytes
                               /\ joint[k - 1] \in Bytes
    <2>1. Len(s) \in Nat /\ \A k \in 1..Len(s) : s[k] \in Bytes
      OBVIOUS
    <2>2. \A k \in 1..Len(s) : k - 1 \in 0..Len(s) /\ k \in 0..Len(s)
      BY <2>1
    <2>3. \A k \in 1..Len(s) : joint[k] = joint[k - 1] \o s[k]
      BY DEF Joints
    <2>4. \A k \in 0..Len(s) : joint[k] \in Bytes
      BY DEF Joints
    <2> QED
      BY <2>1, <2>2, <2>3, <2>4
  <1> DEFINE S == {j \in Nat : j <= Len(s) => Begins(b, pos, joint[Len(s) - j])}
  <1>1. 0 \in S
    <2>1. Len(s) - 0 = Len(s)
      BY <1>0
    <2> QED
      BY <2>1
  <1>2. ASSUME NEW j \in Nat, j \in S PROVE j + 1 \in S
    <2> SUFFICES ASSUME j + 1 <= Len(s) PROVE Begins(b, pos, joint[Len(s) - (j + 1)])
      OBVIOUS
    <2>1. PICK k \in 1..Len(s) : k = Len(s) - j
      BY <1>0
    <2>2. k - 1 = Len(s) - (j + 1) /\ j <= Len(s)
      BY <1>0, <2>1
    <2>3. Begins(b, pos, joint[k])
      BY <1>2, <2>1, <2>2
    <2>4. Begins(b, pos, joint[k - 1])
      <3>1. Begins(b, pos, joint[k - 1] \o s[k])
        BY <1>0, <2>3
      <3> QED
        BY <1>0, <3>1, BeginsConcat
    <2> QED
      BY <2>2, <2>4
  <1>3. Nat \subseteq S
    <2> HIDE DEF S
    <2> QED
      BY <1>1, <1>2, NatSetInduction
  <1>4. ASSUME NEW k \in 1..Len(s) PROVE Begins(b, pos + Len(joint[k - 1]), s[k])
    <2>1. Len(s) - k \in Nat /\ Len(s) - k <= Len(s) /\ Len(s) - (Len(s) - k) = k
      BY <1>0
    <2>2. Begins(b, pos, joint[Len(s) - (Len(s) - k)])
      BY <1>3, <2>1
    <2>3. Begins(b, pos, joint[k - 1] \o s[k])
      BY <1>0, <2>1, <2>2
    <2> QED
      BY <1>0, <2>3, BeginsConcat
  <1> QED
    BY <1>4

\* The loop of parseArray: after k turns it has the first k elements, if the buffer
\* holds as many.
FirstMeanings(items, k) == [i \in 1..k |-> items[i].meaning]

\* The meanings of one element more.
LEMMA OneMoreMeaning ==
  ASSUME NEW items, NEW k \in Nat \ {0}
  PROVE  Append(FirstMeanings(items, k - 1), items[k].meaning) = FirstMeanings(items, k)
  <1> DEFINE M == {items[i].meaning : i \in 1..k}
             s == FirstMeanings(items, k - 1)
             t == FirstMeanings(items, k)
             a == Append(s, items[k].meaning)
  <1>1. s \in Seq(M) /\ Len(s) = k - 1 /\ \A i \in 1..(k - 1) : s[i] = items[i].meaning
    BY DEF FirstMeanings
  <1>2. t \in Seq(M) /\ Len(t) = k /\ \A i \in 1..k : t[i] = items[i].meaning
    BY DEF FirstMeanings
  <1>3. items[k].meaning \in M
    OBVIOUS
  <1> HIDE DEF M, s, t
  <1>4. /\ a \in Seq(M) /\ Len(a) = (k - 1) + 1 /\ a[(k - 1) + 1] = items[k].meaning
        /\ \A i \in 1..(k - 1) : a[i] = s[i]
    <2>1. /\ a \in Seq(M) /\ Len(a) = Len(s) + 1 /\ a[Len(s) + 1] = items[k].meaning
          /\ \A i \in 1..Len(s) : a[i] = s[i]
      BY <1>1, <1>3, AppendProperties
    <2> HIDE DEF a
    <2> QED
      BY <1>1, <2>1
  <1> HIDE DEF a
  <1>5. Len(a) = Len(t)
    BY <1>2, <1>4
  <1>6. ASSUME NEW i \in 1..k PROVE a[i] = t[i]
    <2>1. CASE i = k
      BY <1>2, <1>4, <2>1
    <2>2. CASE i # k
      BY <1>1, <1>2, <1>4, <2>2
    <2> QED
      BY <2>1, <2>2
  <1>7. a = t
    BY <1>2, <1>4, <1>5, <1>6, SeqEqual
  <1> QED
    BY <1>7 DEF a, s, t

\* Elements that are each read as they are meant make an array that is.
LEMMA ArrayReads ==
  ASSUME NEW M, \A m \in M : ReadsAs(m.units, m.meaning),
         NEW items \in Seq(M), Len(items) <= MaxInt
  PROVE  ReadsAs(Array(items).units, Array(items).meaning)
  <1>a. PICK n \in Nat : n = Len(items)
    OBVIOUS
  <1>b. DOMAIN items = 1..n /\ \A i \in 1..n : items[i] \in M
    BY <1>a
  <1>c. PICK parts : parts = [i \in 1..n |-> items[i].units]
    OBVIOUS
  <1>d. parts \in Seq(Bytes) /\ Len(parts) = n /\ \A i \in 1..n : parts[i] = items[i].units
    <2>1. \A i \in 1..n : items[i].units \in Bytes
      BY <1>b DEF ReadsAs
    <2> QED
      BY <1>c, <2>1
  <1>e. PICK joint : Joints(joint, parts) /\ FlattenSeq(parts) = joint[n]
    BY <1>d, FlattenIsLastJoint
  <1>f. /\ joint[0] = <<>> /\ joint[n] \in Bytes
        /\ \A k \in 1..n : /\ joint[k] = joint[k - 1] \o parts[k]
                          /\ parts[k] \in Bytes /\ joint[k] \in Bytes /\ joint[k - 1] \in Bytes
    <2>1. \A k \in 1..n : k - 1 \in 0..n /\ k \in 0..n
      OBVIOUS
    <2>2. n \in 0..n
      OBVIOUS
    <2>3. \A k \in 1..n : joint[k] = joint[k - 1] \o parts[k]
      BY <1>d, <1>e DEF Joints
    <2>4. joint[0] = <<>> /\ \A k \in 0..n : joint[k] \in Bytes
      BY <1>d, <1>e DEF Joints
    <2>5. \A k \in 1..n : parts[k] \in Bytes
      BY <1>d
    <2> QED
      BY <2>1, <2>2, <2>3, <2>4, <2>5
  <1>g. PICK h : h = Number("*", n)
    OBVIOUS
  <1>h. /\ h \in AnyUnit /\ CRLF \in AnyUnit /\ h.tag = "*" /\ h.n = n /\ CRLF.tag = "crlf"
    BY <1>g, UnitTypes
  <1>i. h # CRLF /\ <<h, CRLF>> \in Bytes /\ Len(<<h, CRLF>>) = 2
    BY <1>h, TwoUnits
  <1> DEFINE value == ArrayOf(FirstMeanings(items, n))
             u == <<h, CRLF>> \o joint[n]
  <1>1. Array(items).meaning = value /\ Array(items).units = u
    <2>1. ArrayOf([i \in DOMAIN items |-> items[i].meaning]) = value
      BY <1>b DEF FirstMeanings
    <2>2. [i \in DOMAIN items |-> items[i].units] = parts
      BY <1>b, <1>c
    <2>3. value.type = "array" /\ Len(value.array) = n
      BY DEF ArrayOf, Value, FirstMeanings
    <2> HIDE DEF value
    <2>4. Serialize(value, parts) = <<h, CRLF>> \o FlattenSeq(parts)
      BY <1>g, <2>3 DEF Serialize
    <2> QED
      BY <1>e, <2>1, <2>2, <2>4 DEF Array
  <1>2. u \in Bytes /\ Len(u) = Len(joint[n]) + 2 /\ u # <<>> /\ Len(joint[n]) \in Nat
    <2>1. u \in Bytes /\ Len(u) = 2 + Len(joint[n])
      BY <1>f, <1>i, ConcatProperties DEF Bytes
    <2>2. Len(joint[n]) \in Nat
      BY <1>f DEF Bytes
    <2> HIDE DEF u
    <2> QED
      BY <2>1, <2>2
  <1>3. ASSUME NEW b \in Bytes, NEW pos \in 1..(Len(b) + 1), Begins(b, pos, u)
        PROVE  IF pos + Len(u) <= Len(b) + 1 THEN ParseNext(b, pos) = Parsed(value, pos + Len(u))
               ELSE ~ParseNext(b, pos).ok
    <2>0. Len(b) \in Nat /\ pos \in Nat \ {0}
      BY DEF Bytes
    <2>a. PICK start \in Nat \ {0} : start = pos + 2
      BY <2>0
    <2>b. PICK last \in Nat \ {0} : last = Len(b) + 1
      BY <2>0
    <2>1. Begins(b, pos, <<h, CRLF>>) /\ Begins(b, start, joint[n])
      BY <1>3, <1>f, <1>i, <2>0, <2>a, BeginsConcat
    <2>2. /\ FindCRLF(b, pos) = IF pos + 1 <= Len(b) THEN pos + 1 ELSE 0
          /\ pos <= Len(b) => b[pos] = h
      BY <1>h, <1>i, <2>1, HeaderIsFound
    <2> HIDE DEF u, value
    <2>3. CASE pos + 1 <= Len(b)
      <3>1. PICK next : IsParser(next, b)
        BY ParseNextIs
      <3>2. ParseNext(b, pos) = ParseItems(next, start, n)
        <4>1. Wrap(b[pos].n) = n
          <5>1. n \in MinInt..MaxInt
            BY <1>a, RespAssumption DEF MinInt
          <5> QED
            BY <1>h, <2>0, <2>2, <2>3, <5>1, WordIsKept
        <4>2. FindCRLF(b, pos) = pos + 1 /\ FindCRLF(b, pos) # 0 /\ b[pos].tag = "*"
          BY <1>h, <2>0, <2>2, <2>3
        <4>3. ParseNext(b, pos) = ParseArray(next, b, pos, pos + 1)
          BY <3>1, <4>2 DEF IsParser, ParseValue
        <4>4. ParseArray(next, b, pos, pos + 1) = ParseItems(next, (pos + 1) + 1, n)
          BY <4>1 DEF ParseArray, IsNumber
        <4> QED
          BY <2>0, <2>a, <4>3, <4>4
      <3>3. PICK f : ItemsOf(f, next, start, n) /\ ParseItems(next, start, n) = f[n]
        BY ParseItemsIs
      <3> DEFINE S == {k \in Nat : k <= n =>
                         IF start + Len(joint[k]) <= last
                         THEN f[k] = Parsed(ArrayOf(FirstMeanings(items, k)), start + Len(joint[k]))
                         ELSE ~f[k].ok}
      <3>4. 0 \in S
        <4>1. f[0] = Parsed(ArrayOf(<<>>), start)
          BY <3>3 DEF ItemsOf
        <4>2. FirstMeanings(items, 0) = <<>> /\ Len(joint[0]) = 0
          BY <1>f DEF FirstMeanings
        <4>3. start + Len(joint[0]) = start /\ start <= last
          BY <2>0, <2>3, <2>a, <2>b, <4>2
        <4> QED
          BY <4>1, <4>2, <4>3
      <3>5. ASSUME NEW j \in Nat, j \in S PROVE j + 1 \in S
        <4>a. PICK k \in Nat \ {0} : k = j + 1
          OBVIOUS
        <4> SUFFICES ASSUME k <= n
                     PROVE  IF start + Len(joint[k]) <= last
                            THEN f[k] = Parsed(ArrayOf(FirstMeanings(items, k)), start + Len(joint[k]))
                            ELSE ~f[k].ok
          BY <4>a
        <4>1. k \in 1..n /\ j = k - 1 /\ j <= n
          BY <4>a
        <4>2. IF start + Len(joint[j]) <= last
              THEN f[j] = Parsed(ArrayOf(FirstMeanings(items, j)), start + Len(joint[j]))
              ELSE ~f[j].ok
          BY <3>5, <4>1
        <4>3. f[k] = NextItem(next, f[j])
          BY <3>3, <4>1 DEF ItemsOf
        <4>4. /\ Len(joint[k]) = Len(joint[j]) + Len(parts[k])
              /\ Len(joint[j]) \in Nat /\ Len(parts[k]) \in Nat
          <5> HIDE DEF S
          <5>1. joint[k] = joint[j] \o parts[k] /\ joint[j] \in Bytes /\ parts[k] \in Bytes
            BY <1>f, <4>1
          <5> QED
            BY <5>1, ConcatProperties DEF Bytes
        <4> HIDE DEF S
        <4>b. PICK before \in Nat : before = Len(joint[j])
          BY <4>4
        <4>c. PICK size \in Nat : size = Len(parts[k])
          BY <4>4
        <4>d. Len(joint[k]) = before + size
          BY <4>4, <4>b, <4>c
        <4>5. CASE start + Len(joint[j]) <= last
          <5>1. PICK q \in 1..last : q = start + Len(joint[j])
            BY <4>4, <4>5
          <5>2. Begins(b, q, parts[k])
            BY <1>d, <1>e, <2>1, <4>1, <5>1, BeginsJoints
          <5>3. ReadsAs(parts[k], items[k].meaning)
            BY <1>b, <1>d, <4>1
          <5>4. IF q + Len(parts[k]) <= last
                THEN ParseNext(b, q) = Parsed(items[k].meaning, q + Len(parts[k]))
                ELSE ~ParseNext(b, q).ok
            BY <2>b, <5>2, <5>3 DEF ReadsAs
          <5>5. next[q] = ParseNext(b, q)
            BY <2>b, <3>1 DEF IsParser
          <5>6. f[j].ok /\ f[j].pos = q /\ f[j].value.array = FirstMeanings(items, j)
            BY <4>2, <4>5, <5>1 DEF Parsed, ArrayOf, Value
          <5>7. CASE q + Len(parts[k]) <= last
            <6>1. next[q].ok /\ next[q].value = items[k].meaning /\ next[q].pos = q + Len(parts[k])
              BY <5>4, <5>5, <5>7 DEF Parsed
            <6>2. f[k] = Parsed(ArrayOf(Append(FirstMeanings(items, j), items[k].meaning)), q + Len(parts[k]))
              BY <4>3, <5>6, <6>1 DEF NextItem
            <6>3. Append(FirstMeanings(items, j), items[k].meaning) = FirstMeanings(items, k)
              BY <4>1, OneMoreMeaning
            <6>4. q + Len(parts[k]) = start + Len(joint[k])
              <7>1. q = start + before
                BY <4>b, <5>1, Zenon
              <7>2. q + size = start + (before + size)
                BY <7>1
              <7> QED
                BY <4>c, <4>d, <7>2, Zenon
            <6> QED
              BY <5>7, <6>2, <6>3, <6>4
          <5>8. CASE ~(q + Len(parts[k]) <= last)
            <6>1. ~next[q].ok
              BY <5>4, <5>5, <5>8
            <6>2. f[k] = Incomplete
              BY <4>3, <5>6, <6>1 DEF NextItem
            <6>3. ~(start + Len(joint[k]) <= last)
              <7>1. q = start + before
                BY <4>b, <5>1, Zenon
              <7>2. q + size = start + (before + size)
                BY <7>1
              <7> QED
                BY <4>c, <4>d, <5>8, <7>2, Zenon
            <6> QED
              BY <6>2, <6>3 DEF Incomplete
          <5> QED
            BY <5>7, <5>8
        <4>6. CASE ~(start + Len(joint[j]) <= last)
          <5>1. ~(start + Len(joint[k]) <= last)
            BY <4>b, <4>d, <4>6
          <5>2. ~f[k].ok
            BY <4>2, <4>3, <4>6 DEF NextItem, Incomplete
          <5> QED
            BY <5>1, <5>2
        <4> QED
          BY <4>5, <4>6
      <3>6. n \in S
        <4> HIDE DEF S
        <4> QED
          BY <3>4, <3>5, NatSetInduction
      <3>7. pos + Len(u) = start + Len(joint[n])
        <4> HIDE DEF S
        <4>1. PICK size \in Nat : size = Len(joint[n])
          BY <1>2
        <4>2. Len(u) = size + 2
          BY <1>2, <4>1
        <4>3. pos + (size + 2) = start + size
          BY <2>0, <2>a
        <4> QED
          BY <4>1, <4>2, <4>3, Zenon
      <3> QED
        BY <2>b, <3>2, <3>3, <3>6, <3>7 DEF value
    <2>4. CASE ~(pos + 1 <= Len(b))
      <3>1. ~(pos + Len(u) <= Len(b) + 1)
        BY <1>2, <2>0, <2>4
      <3>2. ~ParseNext(b, pos).ok
        BY <2>2, <2>4, CutLineIsIncomplete
      <3> QED
        BY <3>1, <3>2
    <2> QED
      BY <2>3, <2>4
  <1>4. ReadsAs(u, value)
    <2> HIDE DEF u, value
    <2> QED
      BY <1>2, <1>3 DEF ReadsAs
  <1> QED
    BY <1>1, <1>4

-----------------------------------------------------------------------------
(* Typed lines: the parser splits a line into the arguments that the        *)
(* grammar finds in it                                                     *)

\* A part of a buffer is bytes.
LEMMA PartIsBytes ==
  ASSUME NEW b \in Bytes, NEW i \in Nat \ {0}, NEW j \in Int, j <= Len(b)
  PROVE  /\ SubSeq(b, i, j) \in Bytes
         /\ Len(SubSeq(b, i, j)) = IF i <= j THEN j - i + 1 ELSE 0
         /\ \A k \in 1..(j - i + 1) : SubSeq(b, i, j)[k] = b[i + k - 1]
  <1>1. \A k \in i..j : b[k] \in AnyUnit
    BY DEF Bytes
  <1> QED
    BY <1>1, SubSeqProperties DEF Bytes

-----------------------------------------------------------------------------
(* The scan of a typed line, byte by byte                                  *)

Cat(a, b) == a \o b

Before(a, r) == <<a>> \o r

\* A sequence gets longer by one in the middle.
LEMMA CatIs ==
  ASSUME NEW S, NEW a \in Seq(S)
  PROVE  /\ Cat(a, <<>>) = a /\ <<>> \in Seq(S)
         /\ \A w \in S : \A r \in Seq(S) :
              Before(w, r) \in Seq(S) /\ Append(a, w) \in Seq(S) /\ Cat(Append(a, w), r) = Cat(a, Before(w, r))
  <1>1. Cat(a, <<>>) = a
    BY ConcatEmptySeq DEF Cat
  <1>2. ASSUME NEW w \in S, NEW r \in Seq(S)
        PROVE  Before(w, r) \in Seq(S) /\ Append(a, w) \in Seq(S) /\ Cat(Append(a, w), r) = Cat(a, Before(w, r))
    <2>1. <<w>> \in Seq(S) /\ Append(a, w) = a \o <<w>>
      BY AppendIsConcat
    <2>2. PICK o \in Seq(S) : o = <<w>>
      BY <2>1
    <2>3. o \o r \in Seq(S) /\ (a \o o) \o r = a \o (o \o r)
      BY SMTT(30), ConcatProperties, ConcatAssociative
    <2>4. Append(a, w) \in Seq(S)
      BY AppendProperties
    <2> QED
      BY <2>1, <2>2, <2>3, <2>4 DEF Cat, Before
  <1> QED
    BY <1>1, <1>2

\* Where the scan of a line is.
At(mode, q, word, args) == [mode |-> mode, quote |-> q, word |-> word, args |-> args]

\* What one byte does outside quotes.
LEMMA WordByte ==
  ASSUME NEW q, NEW word, NEW args, NEW u, NEW s, s = At("word", q, word, args)
  PROVE  /\ u = Space => InlineByte(s, u) = At("word", q, <<>>, IF word = <<>> THEN args ELSE Append(args, word))
         /\ u.tag = "quote" /\ word = <<>> => InlineByte(s, u) = At("opened", u, <<>>, args)
         /\ u.tag = "quote" /\ word # <<>> => InlineByte(s, u).mode = "bad"
         /\ u # Space /\ u.tag # "quote" => InlineByte(s, u) = At("word", q, Append(word, u), args)
  <1>1. Space.tag # "quote"
    BY DEF Space, Text, Unit
  <1>2. s.mode = "word" /\ s.quote = q /\ s.word = word /\ s.args = args
    BY DEF At
  <1>3. CASE u = Space
    <2>1. InlineByte(s, u) = [s EXCEPT !.word = <<>>, !.args = EndWord(s)]
      BY <1>1, <1>2, <1>3 DEF InlineByte
    <2>2. EndWord(s) = IF word = <<>> THEN args ELSE Append(args, word)
      BY <1>2 DEF EndWord
    <2> QED
      BY <1>1, <1>3, <2>1, <2>2 DEF At
  <1>4. CASE u.tag = "quote"
    <2>1. u # Space
      BY <1>1, <1>4
    <2>2. InlineByte(s, u) = IF s.word = <<>> THEN [s EXCEPT !.mode = "opened", !.quote = u] ELSE [s EXCEPT !.mode = "bad"]
      BY <1>2, <1>4, <2>1 DEF InlineByte
    <2> QED
      BY <1>2, <1>4, <2>1, <2>2 DEF At
  <1>5. CASE u # Space /\ u.tag # "quote"
    <2>1. InlineByte(s, u) = [s EXCEPT !.word = Append(@, u)]
      BY <1>2, <1>5 DEF InlineByte
    <2> QED
      BY <1>2, <1>5, <2>1 DEF At
  <1> QED
    BY <1>3, <1>4, <1>5

\* What one byte does between quotes.
LEMMA QuotedByte ==
  ASSUME NEW mode \in {"opened", "quoted"}, NEW q, q # Backslash, NEW word, NEW args, NEW u,
         NEW s, s = At(mode, q, word, args)
  PROVE  /\ u = q => InlineByte(s, u) = At("closed", q, <<>>, Append(args, word))
         /\ u = Backslash => InlineByte(s, u) = At("escaped", q, word, args)
         /\ u # q /\ u # Backslash => InlineByte(s, u) = At("quoted", q, Append(word, u), args)
  <1>2. s.mode = mode /\ s.quote = q /\ s.word = word /\ s.args = args
    BY DEF At
  <1>3. CASE u = q
    <2>1. InlineByte(s, u) = [s EXCEPT !.mode = "closed", !.word = <<>>, !.args = Append(@, s.word)]
      BY <1>2, <1>3 DEF InlineByte
    <2> QED
      BY <1>2, <1>3, <2>1 DEF At
  <1>4. CASE u = Backslash
    <2>1. InlineByte(s, u) = [s EXCEPT !.mode = "escaped"]
      BY <1>2, <1>4 DEF InlineByte
    <2> QED
      BY <1>2, <1>4, <2>1 DEF At
  <1>5. CASE u # q /\ u # Backslash
    <2>1. CASE mode = "opened"
      <3>1. InlineByte(s, u) = [s EXCEPT !.mode = "quoted", !.word = Append(@, u)]
        BY <1>2, <1>5, <2>1 DEF InlineByte
      <3> QED
        BY <1>2, <1>5, <3>1 DEF At
    <2>2. CASE mode = "quoted"
      <3>1. InlineByte(s, u) = [s EXCEPT !.word = Append(@, u)]
        BY <1>2, <1>5, <2>2 DEF InlineByte
      <3> QED
        BY <1>2, <1>5, <2>2, <3>1 DEF At
    <2> QED
      BY <2>1, <2>2
  <1> QED
    BY <1>3, <1>4, <1>5

\* What one byte does behind a backslash.
LEMMA EscapedByte ==
  ASSUME NEW q, NEW word, NEW args, NEW u, NEW s, s = At("escaped", q, word, args)
  PROVE  InlineByte(s, u) = At("quoted", q, Append(word, Unescaped(u)), args)
  <1>1. s.mode = "escaped"
    BY DEF At
  <1>2. InlineByte(s, u) = [s EXCEPT !.mode = "quoted", !.word = Append(@, Unescaped(u))]
    BY <1>1 DEF InlineByte
  <1> QED
    BY <1>2 DEF At

\* What one byte does behind a closing quote.
LEMMA ClosedByte ==
  ASSUME NEW q, NEW word, NEW args, NEW u, NEW s, s = At("closed", q, word, args)
  PROVE  /\ u = Space => InlineByte(s, u) = At("word", q, word, args)
         /\ u # Space => InlineByte(s, u).mode = "bad"
  <1>1. s.mode = "closed"
    BY DEF At
  <1>2. InlineByte(s, u) = [s EXCEPT !.mode = IF u = Space THEN "word" ELSE "bad"]
    BY <1>1 DEF InlineByte
  <1> QED
    BY <1>2 DEF At

\* What one byte does once the line is bad.
LEMMA BadByte ==
  ASSUME NEW u, NEW s, s.mode = "bad"
  PROVE  InlineByte(s, u) = s
  BY DEF InlineByte

-----------------------------------------------------------------------------
StatesOf(state, line, n) ==
  state = [i \in 0..n |-> IF i = 0 THEN InlineStart ELSE InlineByte(state[i - 1], line[i])]

\* One byte of the scan.
LEMMA StateStep ==
  ASSUME NEW line, NEW n \in Nat, NEW state, StatesOf(state, line, n), NEW k \in 1..n
  PROVE  state[k] = InlineByte(state[k - 1], line[k])
  BY DEF StatesOf

\* The scan has a state behind every byte.
LEMMA StatesExist ==
  ASSUME NEW line, NEW n \in Nat
  PROVE  \E state : StatesOf(state, line, n)
  <1> DEFINE S == {k \in Nat : \E state : StatesOf(state, line, k)}
  <1>1. 0 \in S
    <2>1. StatesOf([i \in 0..0 |-> InlineStart], line, 0)
      BY DEF StatesOf
    <2> QED
      BY <2>1
  <1>2. ASSUME NEW k \in Nat, k \in S PROVE k + 1 \in S
    <2>1. PICK f : StatesOf(f, line, k)
      BY <1>2
    <2> DEFINE g == [i \in 0..(k + 1) |-> IF i = k + 1 THEN InlineByte(f[k], line[k + 1]) ELSE f[i]]
    <2>2. ASSUME NEW i \in 0..(k + 1)
          PROVE  g[i] = IF i = 0 THEN InlineStart ELSE InlineByte(g[i - 1], line[i])
      <3>1. CASE i = k + 1
        <4>1. g[i] = InlineByte(f[k], line[k + 1]) /\ i # 0 /\ i - 1 \in 0..(k + 1) /\ i - 1 = k
          BY <3>1
        <4>2. g[i - 1] = f[k]
          BY <4>1
        <4> HIDE DEF g
        <4> QED
          BY <3>1, <4>1, <4>2
      <3>2. CASE i # k + 1
        <4>1. i \in 0..k /\ g[i] = f[i] /\ (i # 0 => g[i - 1] = f[i - 1])
          BY <3>2
        <4> HIDE DEF g
        <4>2. f[i] = IF i = 0 THEN InlineStart ELSE InlineByte(f[i - 1], line[i])
          BY <2>1, <4>1 DEF StatesOf
        <4> QED
          BY <4>1, <4>2
      <3> QED
        BY <3>1, <3>2
    <2>3. StatesOf(g, line, k + 1)
      <3>1. g = [i \in 0..(k + 1) |-> g[i]]
        OBVIOUS
      <3> HIDE DEF g
      <3> QED
        BY <2>2, <3>1 DEF StatesOf
    <2> QED
      BY <2>3
  <1> HIDE DEF S
  <1>3. n \in S
    BY <1>1, <1>2, NatSetInduction
  <1> QED
    BY <1>3 DEF S

\* The state at the end of a line is the last of its states.
LEMMA InlineStateIs ==
  ASSUME NEW line, Len(line) \in Nat
  PROVE  \E state : StatesOf(state, line, Len(line)) /\ InlineState(line) = state[Len(line)]
  <1> DEFINE h == CHOOSE state : StatesOf(state, line, Len(line))
  <1>1. StatesOf(h, line, Len(line))
    BY StatesExist
  <1>2. InlineState(line) = h[Len(line)]
    BY DEF InlineState, StatesOf
  <1> HIDE DEF h
  <1> QED
    BY <1>1, <1>2

\* What is bad stays bad.
LEMMA BadStays ==
  ASSUME NEW line, NEW n \in Nat, NEW state, StatesOf(state, line, n), NEW k \in 0..n, state[k].mode = "bad"
  PROVE  state[n].mode = "bad"
  <1> DEFINE S == {d \in Nat : k + d <= n => state[k + d].mode = "bad"}
  <1>1. 0 \in S
    OBVIOUS
  <1>2. ASSUME NEW d \in Nat, d \in S PROVE d + 1 \in S
    <2> SUFFICES ASSUME k + (d + 1) <= n PROVE state[k + (d + 1)].mode = "bad"
      OBVIOUS
    <2>1. state[k + d].mode = "bad"
      BY <1>2
    <2>2. PICK i \in 1..n : i = k + (d + 1) /\ i - 1 = k + d
      OBVIOUS
    <2>3. state[i] = InlineByte(state[i - 1], line[i])
      BY <2>2 DEF StatesOf
    <2>4. state[i] = state[k + d]
      <3>1. state[i - 1].mode = "bad"
        BY <2>1, <2>2
      <3>2. InlineByte(state[i - 1], line[i]) = state[i - 1]
        BY <3>1, BadByte
      <3> QED
        BY <2>2, <2>3, <3>2
    <2> QED
      BY <2>1, <2>2, <2>4
  <1>3. n - k \in S
    <2> HIDE DEF S
    <2> QED
      BY <1>1, <1>2, NatSetInduction
  <1> QED
    BY <1>3
-----------------------------------------------------------------------------
(* The grammar                                                             *)

\* What is meant between quotes depends on what is meant further on.
LEMMA QuotedLocal ==
  ASSUME NEW q, NEW s \in Bytes, NEW i \in 1..(Len(s) + 1), NEW f, NEW g,
         \A j \in (i + 1)..(Len(s) + 1) : f[j] = g[j]
  PROVE  QuotedFrom(f, q, s, i) = QuotedFrom(g, q, s, i)
  <1>1. PICK size \in Nat : size = Len(s)
    BY DEF Bytes
  <1>2. CASE i = size + 1
    BY <1>1, <1>2 DEF QuotedFrom
  <1>3. CASE i <= size
    <2>1. f[i + 1] = g[i + 1]
      BY <1>1, <1>3
    <2>2. i # size => f[i + 2] = g[i + 2]
      BY <1>1, <1>3
    <2>3. i # size + 1
      BY <1>3
    <2> QED
      BY <1>1, <1>3, <2>1, <2>2, <2>3 DEF QuotedFrom
  <1> QED
    BY <1>1, <1>2, <1>3

\* f is what is meant, from each place on.
QuotedOf(f, q, s, low) == f = [i \in low..(Len(s) + 1) |-> QuotedFrom(f, q, s, i)]

\* The recursion between quotes has a value at every place.
LEMMA QuotedExists ==
  ASSUME NEW q, NEW s \in Bytes
  PROVE  \E f : QuotedOf(f, q, s, 1)
  <1>0. PICK last \in Nat \ {0} : last = Len(s) + 1
    BY DEF Bytes
  <1> DEFINE S == {n \in Nat : n < last => \E f : QuotedOf(f, q, s, last - n)}
  <1>1. 0 \in S
    <2> DEFINE f == [i \in last..last |-> {<<>>}]
    <2>1. ASSUME NEW i \in last..last PROVE f[i] = QuotedFrom(f, q, s, i)
      <3>1. i = Len(s) + 1 /\ f[i] = {<<>>}
        BY <1>0
      <3> HIDE DEF f
      <3> QED
        BY <1>0, <3>1 DEF QuotedFrom
    <2>2. f = [i \in last..last |-> f[i]]
      OBVIOUS
    <2> HIDE DEF f
    <2>3. f = [i \in last..last |-> QuotedFrom(f, q, s, i)]
      BY <2>1, <2>2
    <2>4. QuotedOf(f, q, s, last)
      BY <1>0, <2>3 DEF QuotedOf
    <2>5. last - 0 = last
      OBVIOUS
    <2> QED
      BY <2>4, <2>5
  <1>2. ASSUME NEW n \in Nat, n \in S PROVE n + 1 \in S
    <2> SUFFICES ASSUME n + 1 < last PROVE \E f : QuotedOf(f, q, s, last - (n + 1))
      OBVIOUS
    <2>1. PICK low \in Nat \ {0} : low = last - (n + 1) /\ low + 1 = last - n /\ low < last
      OBVIOUS
    <2>2. PICK f : QuotedOf(f, q, s, low + 1)
      BY <1>2, <2>1
    <2> DEFINE g == [i \in low..last |-> IF i = low THEN QuotedFrom(f, q, s, i) ELSE f[i]]
    <2>3. g[low] = QuotedFrom(f, q, s, low) /\ \A i \in (low + 1)..last : g[i] = f[i]
      BY <2>1
    <2>4. g = [i \in low..last |-> g[i]]
      OBVIOUS
    <2> HIDE DEF g
    <2>5. ASSUME NEW i \in low..last PROVE g[i] = QuotedFrom(g, q, s, i)
      <3>1. i \in 1..(Len(s) + 1) /\ \A j \in (i + 1)..(Len(s) + 1) : f[j] = g[j]
        BY <1>0, <2>1, <2>3
      <3>2. QuotedFrom(f, q, s, i) = QuotedFrom(g, q, s, i)
        BY <3>1, QuotedLocal
      <3>3. i \in (low + 1)..last => f[i] = QuotedFrom(f, q, s, i)
        BY <1>0, <2>2 DEF QuotedOf
      <3>4. i = low \/ i \in (low + 1)..last
        BY <2>1
      <3> QED
        BY <2>3, <3>2, <3>3, <3>4
    <2>6. g = [i \in low..last |-> QuotedFrom(g, q, s, i)]
      BY <2>4, <2>5
    <2>7. QuotedOf(g, q, s, low)
      BY <1>0, <2>6 DEF QuotedOf
    <2> QED
      BY <2>1, <2>7
  <1>3. last - 1 \in S
    <2>1. last - 1 \in Nat
      OBVIOUS
    <2> HIDE DEF S
    <2> QED
      BY <1>1, <1>2, <2>1, NatSetInduction
  <1>4. last - 1 < last /\ last - (last - 1) = 1
    OBVIOUS
  <1> QED
    BY <1>3, <1>4

\* What s means between quotes is what it means from its first byte on.
LEMMA QuotedIs ==
  ASSUME NEW q, NEW s \in Bytes
  PROVE  \E f : QuotedOf(f, q, s, 1) /\ Quoted(q, s) = f[1]
  <1> DEFINE h == CHOOSE f : QuotedOf(f, q, s, 1)
  <1>1. QuotedOf(h, q, s, 1)
    BY QuotedExists
  <1>2. Quoted(q, s) = h[1]
    BY DEF Quoted, QuotedOf
  <1> HIDE DEF h
  <1> QED
    BY <1>1, <1>2

\* How a line reads depends on how it reads further on.
LEMMA ReadingsLocal ==
  ASSUME NEW line \in Bytes, NEW i \in 1..(Len(line) + 1), NEW f, NEW g,
         \A j \in (i + 1)..(Len(line) + 1) : f[j] = g[j]
  PROVE  ReadingsFrom(f, line, i) = ReadingsFrom(g, line, i)
  <1>1. PICK size \in Nat : size = Len(line)
    BY DEF Bytes
  <1>2. ASSUME NEW n \in Ends(line, i) PROVE f[n + 1] = g[n + 1]
    <2>1. n \in i..size
      BY <1>1 DEF Ends
    <2> QED
      BY <1>1, <2>1
  <1>3. (IF i = Len(line) + 1 THEN {<<>>} ELSE IF line[i] = Space THEN f[i + 1] ELSE {})
         = (IF i = Len(line) + 1 THEN {<<>>} ELSE IF line[i] = Space THEN g[i + 1] ELSE {})
    <2>1. i # Len(line) + 1 => f[i + 1] = g[i + 1]
      BY <1>1
    <2> QED
      BY <2>1
  <1> DEFINE Starting(from, n) == Followed(Argument(SubSeq(line, i, n)), from[n + 1])
  <1>4. ASSUME NEW n \in Ends(line, i) PROVE Starting(f, n) = Starting(g, n)
    BY <1>2
  <1>5. UNION {Starting(f, n) : n \in Ends(line, i)} = UNION {Starting(g, n) : n \in Ends(line, i)}
    <2> HIDE DEF Starting
    <2> QED
      BY <1>4
  <1>6. \A from : ReadingsFrom(from, line, i) =
                 (IF i = Len(line) + 1 THEN {<<>>} ELSE IF line[i] = Space THEN from[i + 1] ELSE {})
                   \cup UNION {Starting(from, n) : n \in Ends(line, i)}
    BY DEF ReadingsFrom
  <1> HIDE DEF Starting
  <1> QED
    BY <1>3, <1>5, <1>6

ReadingsOf(f, line, low) == f = [i \in low..(Len(line) + 1) |-> ReadingsFrom(f, line, i)]

\* The recursion over a line has a value at every place.
LEMMA ReadingsExist ==
  ASSUME NEW line \in Bytes
  PROVE  \E f : ReadingsOf(f, line, 1)
  <1>0. PICK last \in Nat \ {0} : last = Len(line) + 1
    BY DEF Bytes
  <1> DEFINE S == {n \in Nat : n < last => \E f : ReadingsOf(f, line, last - n)}
  <1>1. 0 \in S
    <2> DEFINE f == [i \in last..last |-> ReadingsFrom(line, line, last)]
    <2>1. ASSUME NEW i \in last..last PROVE f[i] = ReadingsFrom(f, line, i)
      <3>1. i = last /\ f[i] = ReadingsFrom(line, line, last)
        OBVIOUS
      <3>2. last \in 1..(Len(line) + 1) /\ \A j \in (last + 1)..(Len(line) + 1) : line[j] = f[j]
        BY <1>0
      <3> HIDE DEF f
      <3>3. ReadingsFrom(line, line, last) = ReadingsFrom(f, line, last)
        BY <3>2, ReadingsLocal
      <3> QED
        BY <3>1, <3>3
    <2>2. f = [i \in last..last |-> f[i]]
      OBVIOUS
    <2> HIDE DEF f
    <2>3. f = [i \in last..last |-> ReadingsFrom(f, line, i)]
      BY <2>1, <2>2
    <2>4. ReadingsOf(f, line, last)
      BY <1>0, <2>3 DEF ReadingsOf
    <2>5. last - 0 = last
      OBVIOUS
    <2> QED
      BY <2>4, <2>5
  <1>2. ASSUME NEW n \in Nat, n \in S PROVE n + 1 \in S
    <2> SUFFICES ASSUME n + 1 < last PROVE \E f : ReadingsOf(f, line, last - (n + 1))
      OBVIOUS
    <2>1. PICK low \in Nat \ {0} : low = last - (n + 1) /\ low + 1 = last - n /\ low < last
      OBVIOUS
    <2>2. PICK f : ReadingsOf(f, line, low + 1)
      BY <1>2, <2>1
    <2> DEFINE g == [i \in low..last |-> IF i = low THEN ReadingsFrom(f, line, i) ELSE f[i]]
    <2>3. g[low] = ReadingsFrom(f, line, low) /\ \A i \in (low + 1)..last : g[i] = f[i]
      BY <2>1
    <2>4. g = [i \in low..last |-> g[i]]
      OBVIOUS
    <2> HIDE DEF g
    <2>5. ASSUME NEW i \in low..last PROVE g[i] = ReadingsFrom(g, line, i)
      <3>1. i \in 1..(Len(line) + 1) /\ \A j \in (i + 1)..(Len(line) + 1) : f[j] = g[j]
        BY <1>0, <2>1, <2>3
      <3>2. ReadingsFrom(f, line, i) = ReadingsFrom(g, line, i)
        BY <3>1, ReadingsLocal
      <3>3. i \in (low + 1)..last => f[i] = ReadingsFrom(f, line, i)
        BY <1>0, <2>2 DEF ReadingsOf
      <3>4. i = low \/ i \in (low + 1)..last
        BY <2>1
      <3> QED
        BY <2>3, <3>2, <3>3, <3>4
    <2>6. g = [i \in low..last |-> ReadingsFrom(g, line, i)]
      BY <2>4, <2>5
    <2>7. ReadingsOf(g, line, low)
      BY <1>0, <2>6 DEF ReadingsOf
    <2> QED
      BY <2>1, <2>7
  <1>3. last - 1 \in S
    <2>1. last - 1 \in Nat
      OBVIOUS
    <2> HIDE DEF S
    <2> QED
      BY <1>1, <1>2, <2>1, NatSetInduction
  <1>4. last - 1 < last /\ last - (last - 1) = 1
    OBVIOUS
  <1> QED
    BY <1>3, <1>4

\* The readings of a line are those from its first byte on.
LEMMA ReadingsIs ==
  ASSUME NEW line \in Bytes
  PROVE  \E f : ReadingsOf(f, line, 1) /\ Readings(line) = f[1]
  <1> DEFINE h == CHOOSE f : ReadingsOf(f, line, 1)
  <1>1. ReadingsOf(h, line, 1)
    BY ReadingsExist
  <1>2. Readings(line) = h[1]
    BY DEF Readings, ReadingsOf
  <1> HIDE DEF h
  <1> QED
    BY <1>1, <1>2
StepAt(f, q, s, i) ==
  /\ i = Len(s) + 1 => f[i] = {<<>>}
  /\ i <= Len(s) /\ s[i] = q => f[i] = {}
  /\ i = Len(s) /\ s[i] = Backslash => f[i] = {}
  /\ i < Len(s) /\ s[i] = Backslash => f[i] = {Before(Unescaped(s[i + 1]), r) : r \in f[i + 2]}
  /\ i <= Len(s) /\ s[i] # q /\ s[i] # Backslash => f[i] = {Before(s[i], r) : r \in f[i + 1]}

\* What may stand between quotes, byte by byte.
LEMMA QuotedSteps ==
  ASSUME NEW q, q # Backslash, NEW s \in Bytes, NEW f, QuotedOf(f, q, s, 1), NEW i \in 1..(Len(s) + 1)
  PROVE  StepAt(f, q, s, i)
  <1> SUFFICES /\ i = Len(s) + 1 => f[i] = {<<>>}
               /\ i <= Len(s) /\ s[i] = q => f[i] = {}
               /\ i = Len(s) /\ s[i] = Backslash => f[i] = {}
               /\ i < Len(s) /\ s[i] = Backslash => f[i] = {Before(Unescaped(s[i + 1]), r) : r \in f[i + 2]}
               /\ i <= Len(s) /\ s[i] # q /\ s[i] # Backslash => f[i] = {Before(s[i], r) : r \in f[i + 1]}
    BY DEF StepAt
  <1>1. f[i] = QuotedFrom(f, q, s, i)
    BY DEF QuotedOf
  <1>2. PICK size \in Nat : size = Len(s)
    BY DEF Bytes
  <1>3. CASE i = size + 1
    <2>1. ~(i <= size) /\ ~(i < size)
      BY <1>3
    <2> QED
      BY <1>1, <1>2, <1>3, <2>1 DEF QuotedFrom
  <1>4. CASE i <= size /\ s[i] = Backslash
    <2>1. i # size + 1
      BY <1>4
    <2>2. QuotedFrom(f, q, s, i) =
            IF i = Len(s) THEN {} ELSE {<<Unescaped(s[i + 1])>> \o rest : rest \in f[i + 2]}
      BY <1>2, <1>4, <2>1 DEF QuotedFrom
    <2>3. {<<Unescaped(s[i + 1])>> \o rest : rest \in f[i + 2]} = {Before(Unescaped(s[i + 1]), r) : r \in f[i + 2]}
      BY DEF Before
    <2>4. i # size <=> i < size
      BY <1>4
    <2> HIDE DEF Before
    <2> QED
      BY <1>1, <1>2, <1>4, <2>1, <2>2, <2>3, <2>4
  <1>5. CASE i <= size /\ s[i] # Backslash
    <2>1. i # size + 1
      BY <1>5
    <2>2. QuotedFrom(f, q, s, i) = IF s[i] = q THEN {} ELSE {<<s[i]>> \o rest : rest \in f[i + 1]}
      BY <1>2, <1>5, <2>1 DEF QuotedFrom
    <2>3. {<<s[i]>> \o rest : rest \in f[i + 1]} = {Before(s[i], r) : r \in f[i + 1]}
      BY DEF Before
    <2> QED
      BY <1>1, <1>2, <1>5, <2>1, <2>2, <2>3
  <1> QED
    BY <1>2, <1>3, <1>4, <1>5

\* M[n][j] is what the bytes from j to n - 1 mean between a quote q at i and one at n.
QuotesOf(M, line, i, q) ==
  \A n \in (i + 1)..Len(line) :
    /\ Quoted(q, SubSeq(line, i + 1, n - 1)) = M[n][i + 1]
    /\ \A j \in (i + 1)..n :
         /\ j = n => M[n][j] = {<<>>}
         /\ j < n /\ line[j] = q => M[n][j] = {}
         /\ j + 1 = n /\ line[j] = Backslash => M[n][j] = {}
         /\ j + 1 < n /\ line[j] = Backslash => M[n][j] = {Before(Unescaped(line[j + 1]), r) : r \in M[n][j + 2]}
         /\ j < n /\ line[j] # q /\ line[j] # Backslash => M[n][j] = {Before(line[j], r) : r \in M[n][j + 1]}

\* There is such a table.
LEMMA QuotesExist ==
  ASSUME NEW line \in Bytes, NEW i \in 1..Len(line), NEW q, q # Backslash
  PROVE  \E M : QuotesOf(M, line, i, q)
  <1>0. PICK size \in Nat : size = Len(line)
    BY DEF Bytes
  <1> DEFINE Part(n) == SubSeq(line, i + 1, n - 1)
             F(n) == CHOOSE f : QuotedOf(f, q, Part(n), 1) /\ Quoted(q, Part(n)) = f[1]
             M == [n \in (i + 1)..size |-> [j \in (i + 1)..n |-> F(n)[j - i]]]
  <1>1. ASSUME NEW n \in (i + 1)..size
        PROVE  /\ Quoted(q, SubSeq(line, i + 1, n - 1)) = M[n][i + 1]
               /\ \A j \in (i + 1)..n :
                    /\ j = n => M[n][j] = {<<>>}
                    /\ j < n /\ line[j] = q => M[n][j] = {}
                    /\ j + 1 = n /\ line[j] = Backslash => M[n][j] = {}
                    /\ j + 1 < n /\ line[j] = Backslash =>
                         M[n][j] = {Before(Unescaped(line[j + 1]), r) : r \in M[n][j + 2]}
                    /\ j < n /\ line[j] # q /\ line[j] # Backslash =>
                         M[n][j] = {Before(line[j], r) : r \in M[n][j + 1]}
    <2>1. PICK s \in Bytes : s = Part(n) /\ Len(s) = n - 1 - i /\ \A k \in 1..(n - 1 - i) : s[k] = line[i + k]
      <3>1. PICK a \in Nat \ {0}, z \in Int : a = i + 1 /\ z = n - 1 /\ z <= Len(line) /\ z - a + 1 = n - 1 - i
        BY <1>0
      <3>2. /\ SubSeq(line, a, z) \in Bytes
            /\ Len(SubSeq(line, a, z)) = IF a <= z THEN z - a + 1 ELSE 0
            /\ \A k \in 1..(z - a + 1) : SubSeq(line, a, z)[k] = line[a + k - 1]
        BY <3>1, PartIsBytes
      <3>3. (IF a <= z THEN z - a + 1 ELSE 0) = n - 1 - i
        BY <1>0, <3>1
      <3>4. \A k \in 1..(n - 1 - i) : a + k - 1 = i + k
        BY <1>0, <3>1
      <3>5. PICK s \in Bytes : s = SubSeq(line, a, z) /\ Len(s) = n - 1 - i /\ \A k \in 1..(n - 1 - i) : s[k] = line[a + k - 1]
        BY <3>1, <3>2, <3>3
      <3>6. s = Part(n)
        BY <3>1, <3>5
      <3>7. \A k \in 1..(n - 1 - i) : s[k] = line[i + k]
        BY <3>4, <3>5
      <3> QED
        BY <3>5, <3>6, <3>7
    <2>2. PICK f : f = F(n) /\ QuotedOf(f, q, s, 1) /\ Quoted(q, s) = f[1]
      <3>1. \E f : QuotedOf(f, q, s, 1) /\ Quoted(q, s) = f[1]
        BY QuotedIs
      <3> QED
        BY <2>1, <3>1
    <2> HIDE DEF F
    <2>3. ASSUME NEW j \in (i + 1)..n PROVE M[n][j] = f[j - i]
      BY <2>2, <2>3
    <2> HIDE DEF M, Part
    <2>4. M[n][i + 1] = f[1]
      <3>1. i + 1 \in (i + 1)..n /\ (i + 1) - i = 1
        BY <1>0
      <3> QED
        BY <2>3, <3>1
    <2>5. ASSUME NEW j \in (i + 1)..n
          PROVE  /\ j = n => M[n][j] = {<<>>}
                 /\ j < n /\ line[j] = q => M[n][j] = {}
                 /\ j + 1 = n /\ line[j] = Backslash => M[n][j] = {}
                 /\ j + 1 < n /\ line[j] = Backslash =>
                      M[n][j] = {Before(Unescaped(line[j + 1]), r) : r \in M[n][j + 2]}
                 /\ j < n /\ line[j] # q /\ line[j] # Backslash =>
                      M[n][j] = {Before(line[j], r) : r \in M[n][j + 1]}
      <3>1. PICK k \in 1..(n - i) : k = j - i
        BY <1>0
      <3>2. PICK len \in Nat : len = Len(s) /\ len = n - 1 - i
        BY <1>0, <2>1
      <3>3. /\ k \in 1..(len + 1) /\ (k = len + 1 <=> j = n) /\ (k <= len <=> j < n)
            /\ (k = len <=> j + 1 = n) /\ (k < len <=> j + 1 < n)
            /\ (k <= len => k \in 1..(n - 1 - i) /\ i + k = j)
            /\ (k < len => k + 1 \in 1..(n - 1 - i) /\ i + (k + 1) = j + 1)
        BY <1>0, <3>1, <3>2
      <3>4. /\ k <= len => s[k] = line[j]
            /\ k < len => s[k + 1] = line[j + 1]
        BY <2>1, <3>3
      <3>5. /\ k = len + 1 => f[k] = {<<>>}
            /\ k <= len /\ s[k] = q => f[k] = {}
            /\ k = len /\ s[k] = Backslash => f[k] = {}
            /\ k < len /\ s[k] = Backslash => f[k] = {Before(Unescaped(s[k + 1]), r) : r \in f[k + 2]}
            /\ k <= len /\ s[k] # q /\ s[k] # Backslash => f[k] = {Before(s[k], r) : r \in f[k + 1]}
        <4>1. k \in 1..(Len(s) + 1)
          BY <3>2, <3>3
        <4>2. StepAt(f, q, s, k)
          BY <2>2, <4>1, QuotedSteps
        <4> QED
          BY <3>2, <4>2 DEF StepAt
      <3>6. M[n][j] = f[k]
        BY <2>3, <3>1
      <3>7. /\ j < n => M[n][j + 1] = f[k + 1]
            /\ j + 1 < n => M[n][j + 2] = f[k + 2]
        <4>1. ASSUME j < n PROVE M[n][j + 1] = f[k + 1]
          <5>1. j + 1 \in (i + 1)..n /\ (j + 1) - i = k + 1
            BY <1>0, <3>1, <4>1
          <5> QED
            BY <2>3, <5>1
        <4>2. ASSUME j + 1 < n PROVE M[n][j + 2] = f[k + 2]
          <5>1. j + 2 \in (i + 1)..n /\ (j + 2) - i = k + 2
            BY <1>0, <3>1, <4>2
          <5> QED
            BY <2>3, <5>1
        <4> QED
          BY <4>1, <4>2
      <3>8. j = n => M[n][j] = {<<>>}
        BY <3>3, <3>5, <3>6
      <3>9. j < n /\ line[j] = q => M[n][j] = {}
        BY <3>3, <3>4, <3>5, <3>6
      <3>10. j + 1 = n /\ line[j] = Backslash => M[n][j] = {}
        <4>1. j + 1 = n => k <= len
          BY <3>3
        <4> QED
          BY <3>3, <3>4, <3>5, <3>6, <4>1
      <3>11. j + 1 < n /\ line[j] = Backslash => M[n][j] = {Before(Unescaped(line[j + 1]), r) : r \in M[n][j + 2]}
        <4>1. j + 1 < n => k < len /\ k <= len
          BY <3>2, <3>3
        <4> QED
          BY <3>4, <3>5, <3>6, <3>7, <4>1
      <3>12. j < n /\ line[j] # q /\ line[j] # Backslash => M[n][j] = {Before(line[j], r) : r \in M[n][j + 1]}
        BY <3>3, <3>4, <3>5, <3>6, <3>7
      <3> QED
        BY <3>8, <3>9, <3>10, <3>11, <3>12
    <2>6. Quoted(q, SubSeq(line, i + 1, n - 1)) = M[n][i + 1]
      BY <2>1, <2>2, <2>4 DEF Part
    <2> QED
      BY <2>5, <2>6
  <1> HIDE DEF M
  <1> QED
    BY <1>0, <1>1 DEF QuotesOf
InQuotes(s, q, word, args) == s = At("opened", q, word, args) \/ s = At("quoted", q, word, args)

\* From j on no quote closes the argument, in the scan and in the grammar.
StaysOpen(state, line, M, q, j) ==
  /\ state[Len(line)].mode \in {"opened", "quoted", "escaped"}
  /\ \A n \in j..Len(line) : line[n] = q => M[n][j] = {}

\* The quote at c closes it, with x behind what was scanned, and no other does.
ClosesAt(state, line, M, q, j, word, args, c, x) ==
  /\ line[c] = q /\ state[c] = At("closed", q, <<>>, Append(args, Cat(word, x))) /\ M[c][j] = {x}
  /\ \A n \in j..Len(line) : n # c /\ line[n] = q => M[n][j] = {}

ScansFrom(state, line, M, q, j) ==
  \A word \in Bytes : \A args \in Seq(Bytes) : InQuotes(state[j - 1], q, word, args) =>
    \/ StaysOpen(state, line, M, q, j)
    \/ \E c \in j..Len(line) : \E x \in Bytes : ClosesAt(state, line, M, q, j, word, args, c, x)

\* A byte behind a backslash is a byte.
LEMMA UnescapedIs ==
  ASSUME NEW u \in AnyUnit
  PROVE  Unescaped(u) \in AnyUnit
  BY DEF Unescaped, Unit, AnyUnit, Tags

\* Nothing can close an argument behind the end of the line.
LEMMA ScanAtEnd ==
  ASSUME NEW line \in Bytes, NEW state, NEW M, NEW q
  PROVE  ScansFrom(state, line, M, q, Len(line) + 1)
  <1>1. PICK size \in Nat : size = Len(line)
    BY DEF Bytes
  <1>2. ASSUME NEW word, NEW args, InQuotes(state[size], q, word, args)
        PROVE  StaysOpen(state, line, M, q, size + 1)
    <2>1. state[size].mode \in {"opened", "quoted", "escaped"}
      BY <1>2 DEF InQuotes, At
    <2>2. \A n \in (size + 1)..size : FALSE
      OBVIOUS
    <2> QED
      BY <1>1, <2>1, <2>2 DEF StaysOpen
  <1>3. (size + 1) - 1 = size
    OBVIOUS
  <1> QED
    BY <1>1, <1>2, <1>3 DEF ScansFrom

\* Within quotes scan and grammar agree on one byte if they agree on what is behind it.
LEMMA ScanStep ==
  ASSUME NEW line \in Bytes, NEW state, StatesOf(state, line, Len(line)),
         NEW i \in 1..Len(line), NEW q, q # Backslash, NEW M, QuotesOf(M, line, i, q),
         NEW j \in (i + 1)..Len(line),
         \A k \in (j + 1)..(Len(line) + 1) : ScansFrom(state, line, M, q, k)
  PROVE  ScansFrom(state, line, M, q, j)
  <1>0. PICK size \in Nat : size = Len(line)
    BY DEF Bytes
  <1>a. j \in 1..size /\ i \in 1..size /\ j - 1 \in 0..size
    BY <1>0
  <1> SUFFICES ASSUME NEW word \in Bytes, NEW args \in Seq(Bytes), InQuotes(state[j - 1], q, word, args)
               PROVE  \/ StaysOpen(state, line, M, q, j)
                      \/ \E c \in j..Len(line) : \E x \in Bytes : ClosesAt(state, line, M, q, j, word, args, c, x)
    BY DEF ScansFrom
  <1>1. PICK mode \in {"opened", "quoted"} : state[j - 1] = At(mode, q, word, args)
    BY DEF InQuotes
  <1>2. \A k \in 1..size : state[k] = InlineByte(state[k - 1], line[k])
    BY <1>0 DEF StatesOf
  <1>3. \A k \in 1..size : line[k] \in AnyUnit
    BY <1>0 DEF Bytes
  <1>4. ASSUME NEW n \in j..size
        PROVE  /\ j = n => M[n][j] = {<<>>}
               /\ j < n /\ line[j] = q => M[n][j] = {}
               /\ j + 1 = n /\ line[j] = Backslash => M[n][j] = {}
               /\ j + 1 < n /\ line[j] = Backslash => M[n][j] = {Before(Unescaped(line[j + 1]), r) : r \in M[n][j + 2]}
               /\ j < n /\ line[j] # q /\ line[j] # Backslash => M[n][j] = {Before(line[j], r) : r \in M[n][j + 1]}
    <2>1. n \in (i + 1)..Len(line) /\ j \in (i + 1)..n
      BY <1>0, <1>a
    <2> QED
      BY <2>1 DEF QuotesOf
  <1>5. state[j] = InlineByte(At(mode, q, word, args), line[j])
    BY <1>1, <1>2, <1>a
  <1>6. CASE line[j] = q
    <2>1. state[j] = At("closed", q, <<>>, Append(args, word))
      BY <1>5, <1>6, QuotedByte
    <2>2. Cat(word, <<>>) = word /\ <<>> \in Bytes
      BY CatIs DEF Bytes
    <2>3. j \in j..size /\ M[j][j] = {<<>>}
      BY <1>4, <1>a
    <2>4. ASSUME NEW n \in j..size, n # j PROVE M[n][j] = {}
      <3>1. j < n
        BY <1>a, <2>4
      <3> QED
        BY <1>4, <1>6, <3>1
    <2>5. ClosesAt(state, line, M, q, j, word, args, j, <<>>)
      BY <1>0, <1>6, <2>1, <2>2, <2>3, <2>4 DEF ClosesAt
    <2> QED
      BY <1>0, <2>2, <2>3, <2>5
  <1>7. CASE line[j] = Backslash
    <2>0. line[j] # q
      BY <1>7
    <2>1. state[j] = At("escaped", q, word, args)
      BY <1>5, <1>7, QuotedByte
    <2>2. CASE j = size
      <3>1. state[size].mode = "escaped"
        BY <2>1, <2>2 DEF At
      <3>2. \A n \in j..size : n = j
        BY <1>a, <2>2
      <3>3. StaysOpen(state, line, M, q, j)
        BY <1>0, <2>0, <3>1, <3>2 DEF StaysOpen
      <3> QED
        BY <3>3
    <2>3. CASE j # size
      <3>1. j + 1 \in 1..size /\ (j + 1) - 1 = j /\ (j + 2) - 1 = j + 1 /\ j + 2 \in (j + 1)..(size + 1)
        BY <1>a, <2>3
      <3>2. PICK u \in AnyUnit : u = Unescaped(line[j + 1])
        BY <1>3, <3>1, UnescapedIs
      <3>3. state[j + 1] = At("quoted", q, Append(word, u), args)
        BY <1>2, <2>1, <3>1, <3>2, EscapedByte
      <3>4. PICK longer \in Bytes : longer = Append(word, u)
        BY <3>2, AppendProperties DEF Bytes
      <3>5. ScansFrom(state, line, M, q, j + 2)
        BY <1>0, <3>1
      <3>6. InQuotes(state[(j + 2) - 1], q, longer, args)
        BY <3>1, <3>3, <3>4 DEF InQuotes
      <3>7. ASSUME NEW n \in j..size, line[n] = q
            PROVE  /\ n = j + 1 => M[n][j] = {}
                   /\ n # j + 1 => n \in (j + 2)..size /\ M[n][j] = {Before(u, r) : r \in M[n][j + 2]}
        <4>1. n # j
          BY <2>0, <3>7
        <4>2. n = j + 1 \/ n \in (j + 2)..size
          BY <1>a, <4>1
        <4>3. n = j + 1 => M[n][j] = {}
          BY <1>4, <1>7
        <4>4. n \in (j + 2)..size => M[n][j] = {Before(u, r) : r \in M[n][j + 2]}
          BY <1>4, <1>7, <1>a, <3>2
        <4> QED
          BY <4>2, <4>3, <4>4
      <3>8. CASE StaysOpen(state, line, M, q, j + 2)
        <4>1. ASSUME NEW n \in j..size, line[n] = q PROVE M[n][j] = {}
          <5>1. n # j + 1 => M[n][j + 2] = {}
            BY <1>0, <3>7, <3>8, <4>1 DEF StaysOpen
          <5> QED
            BY <3>7, <4>1, <5>1
        <4>2. StaysOpen(state, line, M, q, j)
          BY <1>0, <3>8, <4>1 DEF StaysOpen
        <4> QED
          BY <4>2
      <3>9. CASE ~StaysOpen(state, line, M, q, j + 2)
        <4>1. PICK c \in (j + 2)..size, x \in Bytes : ClosesAt(state, line, M, q, j + 2, longer, args, c, x)
          BY <1>0, <3>5, <3>6, <3>9 DEF ScansFrom
        <4>2. PICK y \in Bytes : y = Before(u, x) /\ Cat(longer, x) = Cat(word, y)
          BY <3>2, <3>4, CatIs DEF Bytes
        <4>3. c \in j..size /\ line[c] = q /\ c # j + 1
          BY <1>a, <4>1 DEF ClosesAt
        <4>4. M[c][j] = {y}
          <5>1. M[c][j] = {Before(u, r) : r \in M[c][j + 2]} /\ M[c][j + 2] = {x}
            BY <3>7, <4>1, <4>3 DEF ClosesAt
          <5> QED
            BY <4>2, <5>1
        <4>5. ASSUME NEW n \in j..size, n # c, line[n] = q PROVE M[n][j] = {}
          <5>1. n # j + 1 => M[n][j + 2] = {}
            BY <1>0, <3>7, <4>1, <4>5 DEF ClosesAt
          <5> QED
            BY <3>7, <4>5, <5>1
        <4>6. state[c] = At("closed", q, <<>>, Append(args, Cat(word, y)))
          BY <4>1, <4>2 DEF ClosesAt
        <4>7. ClosesAt(state, line, M, q, j, word, args, c, y)
          BY <1>0, <4>3, <4>4, <4>5, <4>6 DEF ClosesAt
        <4> QED
          BY <1>0, <4>3, <4>7
      <3> QED
        BY <3>8, <3>9
    <2> QED
      BY <2>2, <2>3
  <1>8. CASE line[j] # q /\ line[j] # Backslash
    <2>1. PICK u \in AnyUnit : u = line[j]
      BY <1>3, <1>a
    <2>2. state[j] = At("quoted", q, Append(word, u), args)
      BY <1>5, <1>8, <2>1, QuotedByte
    <2>3. PICK longer \in Bytes : longer = Append(word, u)
      BY <2>1, AppendProperties DEF Bytes
    <2>4. (j + 1) - 1 = j /\ j + 1 \in (j + 1)..(size + 1)
      BY <1>a
    <2>5. ScansFrom(state, line, M, q, j + 1) /\ InQuotes(state[(j + 1) - 1], q, longer, args)
      BY <1>0, <2>2, <2>3, <2>4 DEF InQuotes
    <2>6. ASSUME NEW n \in j..size, line[n] = q
          PROVE  n \in (j + 1)..size /\ M[n][j] = {Before(u, r) : r \in M[n][j + 1]}
      <3>1. n # j
        BY <1>8, <2>6
      <3>2. n \in (j + 1)..size /\ j < n
        BY <1>a, <3>1
      <3> QED
        BY <1>4, <1>8, <2>1, <3>2
    <2>7. CASE StaysOpen(state, line, M, q, j + 1)
      <3>1. ASSUME NEW n \in j..size, line[n] = q PROVE M[n][j] = {}
        <4>1. M[n][j + 1] = {}
          BY <1>0, <2>6, <2>7, <3>1 DEF StaysOpen
        <4> QED
          BY <2>6, <3>1, <4>1
      <3>2. StaysOpen(state, line, M, q, j)
        BY <1>0, <2>7, <3>1 DEF StaysOpen
      <3> QED
        BY <3>2
    <2>8. CASE ~StaysOpen(state, line, M, q, j + 1)
      <3>1. PICK c \in (j + 1)..size, x \in Bytes : ClosesAt(state, line, M, q, j + 1, longer, args, c, x)
        BY <1>0, <2>5, <2>8 DEF ScansFrom
      <3>2. PICK y \in Bytes : y = Before(u, x) /\ Cat(longer, x) = Cat(word, y)
        BY <2>1, <2>3, CatIs DEF Bytes
      <3>3. c \in j..size /\ line[c] = q
        BY <1>a, <3>1 DEF ClosesAt
      <3>4. M[c][j] = {y}
        <4>1. M[c][j] = {Before(u, r) : r \in M[c][j + 1]} /\ M[c][j + 1] = {x}
          BY <2>6, <3>1, <3>3 DEF ClosesAt
        <4> QED
          BY <3>2, <4>1
      <3>5. ASSUME NEW n \in j..size, n # c, line[n] = q PROVE M[n][j] = {}
        <4>1. M[n][j + 1] = {}
          BY <1>0, <2>6, <3>1, <3>5 DEF ClosesAt
        <4> QED
          BY <2>6, <3>5, <4>1
      <3>6. state[c] = At("closed", q, <<>>, Append(args, Cat(word, y)))
        BY <3>1, <3>2 DEF ClosesAt
      <3>7. ClosesAt(state, line, M, q, j, word, args, c, y)
        BY <1>0, <3>3, <3>4, <3>5, <3>6 DEF ClosesAt
      <3> QED
        BY <1>0, <3>3, <3>7
    <2> QED
      BY <2>7, <2>8
  <1> QED
    BY <1>6, <1>7, <1>8

\* Scan and grammar agree on where quotes close, and on what is between them.
LEMMA QuoteScan ==
  ASSUME NEW line \in Bytes, NEW state, StatesOf(state, line, Len(line)),
         NEW i \in 1..Len(line), NEW q, q # Backslash, NEW M, QuotesOf(M, line, i, q)
  PROVE  ScansFrom(state, line, M, q, i + 1)
  <1>0. PICK size \in Nat : size = Len(line)
    BY DEF Bytes
  <1> DEFINE S == {d \in Nat : d <= size - i =>
                     \A k \in (size + 1 - d)..(size + 1) : ScansFrom(state, line, M, q, k)}
  <1>1. 0 \in S
    <2>1. \A k \in (size + 1 - 0)..(size + 1) : k = size + 1
      OBVIOUS
    <2>2. ScansFrom(state, line, M, q, size + 1)
      BY <1>0, ScanAtEnd
    <2> QED
      BY <2>1, <2>2
  <1>2. ASSUME NEW d \in Nat, d \in S PROVE d + 1 \in S
    <2> SUFFICES ASSUME d + 1 <= size - i, NEW k \in (size + 1 - (d + 1))..(size + 1)
                 PROVE  ScansFrom(state, line, M, q, k)
      OBVIOUS
    <2>1. \A l \in (size + 1 - d)..(size + 1) : ScansFrom(state, line, M, q, l)
      BY <1>0, <1>2
    <2>2. CASE k \in (size + 1 - d)..(size + 1)
      BY <2>1, <2>2
    <2>3. CASE k \notin (size + 1 - d)..(size + 1)
      <3>1. k \in (i + 1)..size /\ k + 1 = size + 1 - d
        BY <1>0, <2>3
      <3>2. \A l \in (k + 1)..(size + 1) : ScansFrom(state, line, M, q, l)
        BY <2>1, <3>1
      <3> QED
        BY <1>0, <3>1, <3>2, ScanStep
    <2> QED
      BY <2>2, <2>3
  <1>3. size - i \in S
    <2>1. size - i \in Nat
      BY <1>0
    <2> HIDE DEF S
    <2> QED
      BY <1>1, <1>2, <2>1, NatSetInduction
  <1>4. size - i <= size - i /\ i + 1 \in (size + 1 - (size - i))..(size + 1)
    BY <1>0
  <1> QED
    BY <1>3, <1>4
PlainByte(u) == u # Space /\ u.tag # "quote"

\* What a part of a line is as an argument.
LEMMA ArgumentIs ==
  ASSUME NEW line \in Bytes, NEW i \in 1..Len(line), NEW n \in i..Len(line)
  PROVE  /\ SubSeq(line, i, n) \in Bytes /\ SubSeq(line, i, n) # <<>>
         /\ line[i].tag # "quote" =>
              Argument(SubSeq(line, i, n)) =
                IF \A k \in i..n : PlainByte(line[k]) THEN {SubSeq(line, i, n)} ELSE {}
         /\ line[i].tag = "quote" =>
              Argument(SubSeq(line, i, n)) =
                IF i < n /\ line[n] = line[i] THEN Quoted(line[i], SubSeq(line, i + 1, n - 1)) ELSE {}
  <1>0. PICK size \in Nat : size = Len(line)
    BY DEF Bytes
  <1>a. i \in 1..size /\ n \in i..size
    BY <1>0
  <1>1. PICK s \in Bytes : s = SubSeq(line, i, n) /\ Len(s) = n - i + 1 /\ \A k \in 1..(n - i + 1) : s[k] = line[i + k - 1]
    <2>1. i \in Nat \ {0} /\ n \in Int /\ n <= Len(line)
      BY <1>0, <1>a
    <2>2. /\ SubSeq(line, i, n) \in Bytes
          /\ Len(SubSeq(line, i, n)) = IF i <= n THEN n - i + 1 ELSE 0
          /\ \A k \in 1..(n - i + 1) : SubSeq(line, i, n)[k] = line[i + k - 1]
      BY <2>1, PartIsBytes
    <2>3. i <= n
      BY <1>a
    <2> QED
      BY <2>2, <2>3
  <1>2. PICK len \in Nat \ {0} : len = n - i + 1
    BY <1>a
  <1>3. Len(s) = len /\ DOMAIN s = 1..len /\ s # <<>>
    BY <1>1, <1>2 DEF Bytes
  <1>4. s[1] = line[i] /\ s[len] = line[n]
    <2>1. 1 \in 1..len /\ len \in 1..len /\ i + 1 - 1 = i /\ i + len - 1 = n
      BY <1>a, <1>2
    <2> QED
      BY <1>1, <1>2, <2>1
  <1>5. IsBare(s) <=> \A k \in i..n : PlainByte(line[k])
    <2>1. IsBare(s) <=> \A k \in 1..len : PlainByte(s[k])
      BY <1>3 DEF IsBare, PlainByte
    <2>2. \A k \in 1..len : i + k - 1 \in i..n /\ s[k] = line[i + k - 1]
      BY <1>a, <1>1, <1>2
    <2>3. \A k \in i..n : k - i + 1 \in 1..len /\ i + (k - i + 1) - 1 = k
      BY <1>a, <1>2
    <2>4. \A k \in i..n : s[k - i + 1] = line[k]
      BY <2>2, <2>3
    <2> QED
      BY <2>1, <2>2, <2>3, <2>4
  <1>6. Argument(s) = IF IsBare(s) THEN {s}
                      ELSE IF len >= 2 /\ s[1].tag = "quote" /\ s[len] = s[1]
                           THEN Quoted(s[1], SubSeq(s, 2, len - 1)) ELSE {}
    BY <1>3 DEF Argument
  <1>7. CASE line[i].tag # "quote"
    <2>1. Argument(s) = IF \A k \in i..n : PlainByte(line[k]) THEN {s} ELSE {}
      BY <1>4, <1>5, <1>6, <1>7
    <2> QED
      BY <1>1, <1>3, <1>7, <2>1
  <1>8. CASE line[i].tag = "quote"
    <2>1. ~IsBare(s)
      <3>1. i \in i..n /\ ~PlainByte(line[i])
        BY <1>a, <1>8 DEF PlainByte
      <3> QED
        BY <1>5, <3>1
    <2>2. len >= 2 <=> i < n
      BY <1>a, <1>2
    <2>3. CASE i < n
      <3>1. SubSeq(s, 2, len - 1) = SubSeq(line, i + 1, n - 1)
        <4>1. i \in 1..(Len(line) + 1) /\ n \in (i - 1)..Len(line) /\ 2 \in 1..(2 + n - i) /\ len - 1 \in (2 - 1)..(n - i + 1)
          BY <1>0, <1>a, <1>2, <2>3
        <4>2. i + 2 - 1 = i + 1 /\ i + (len - 1) - 1 = n - 1
          BY <1>a, <1>2
        <4>3. SubSeq(SubSeq(line, i, n), 2, len - 1) = SubSeq(line, i + 2 - 1, i + (len - 1) - 1)
          BY <4>1, SubSeqOfSubSeq DEF Bytes
        <4> QED
          BY <1>1, <4>2, <4>3
      <3>2. Argument(s) = IF line[n] = line[i] THEN Quoted(line[i], SubSeq(line, i + 1, n - 1)) ELSE {}
        BY <1>4, <1>6, <1>8, <2>1, <2>2, <2>3, <3>1
      <3> QED
        BY <1>1, <1>3, <1>8, <2>3, <3>2
    <2>4. CASE ~(i < n)
      <3>1. Argument(s) = {}
        BY <1>6, <2>1, <2>2, <2>4
      <3> QED
        BY <1>1, <1>3, <1>8, <2>4, <3>1
    <2> QED
      BY <2>3, <2>4
  <1> QED
    BY <1>7, <1>8

\* The readings from i on, one by one.
LEMMA InReadings ==
  ASSUME NEW line \in Bytes, NEW f, ReadingsOf(f, line, 1), NEW i \in 1..(Len(line) + 1), NEW r
  PROVE  r \in f[i] <=>
           \/ i = Len(line) + 1 /\ r = <<>>
           \/ i # Len(line) + 1 /\ line[i] = Space /\ r \in f[i + 1]
           \/ \E n \in Ends(line, i) : \E arg \in Argument(SubSeq(line, i, n)) : \E rest \in f[n + 1] :
                r = Before(arg, rest)
  <1>1. f[i] = ReadingsFrom(f, line, i)
    BY DEF ReadingsOf
  <1>2. \A n : r \in Followed(Argument(SubSeq(line, i, n)), f[n + 1]) <=>
                 \E arg \in Argument(SubSeq(line, i, n)) : \E rest \in f[n + 1] : r = Before(arg, rest)
    BY DEF Followed, Before
  <1>3. r \in UNION {Followed(Argument(SubSeq(line, i, n)), f[n + 1]) : n \in Ends(line, i)} <=>
          \E n \in Ends(line, i) : r \in Followed(Argument(SubSeq(line, i, n)), f[n + 1])
    OBVIOUS
  <1>4. r \in (IF i = Len(line) + 1 THEN {<<>>} ELSE IF line[i] = Space THEN f[i + 1] ELSE {}) <=>
          \/ i = Len(line) + 1 /\ r = <<>>
          \/ i # Len(line) + 1 /\ line[i] = Space /\ r \in f[i + 1]
    OBVIOUS
  <1> QED
    BY <1>1, <1>2, <1>3, <1>4 DEF ReadingsFrom

\* Nothing is one reading of the end of a line, and a space before an argument means nothing.
LEMMA SpaceReadings ==
  ASSUME NEW line \in Bytes, NEW f, ReadingsOf(f, line, 1)
  PROVE  /\ f[Len(line) + 1] = {<<>>}
         /\ \A i \in 1..Len(line) : line[i] = Space => f[i] = f[i + 1]
  <1>0. PICK size \in Nat : size = Len(line)
    BY DEF Bytes
  <1>1. f[size + 1] = {<<>>}
    <2>1. Ends(line, size + 1) = {}
      BY <1>0 DEF Ends
    <2>2. size + 1 \in 1..(Len(line) + 1)
      BY <1>0
    <2>3. ASSUME NEW r PROVE r \in f[size + 1] <=> r = <<>>
      BY <1>0, <2>1, <2>2, InReadings
    <2> QED
      BY <2>3
  <1>2. ASSUME NEW i \in 1..size, line[i] = Space PROVE f[i] = f[i + 1]
    <2>1. i \in 1..(Len(line) + 1) /\ i # Len(line) + 1 /\ i \in 1..Len(line)
      BY <1>0
    <2>2. ASSUME NEW n \in Ends(line, i) PROVE Argument(SubSeq(line, i, n)) = {}
      <3>1. n \in i..Len(line) /\ i \in i..n
        BY <1>0 DEF Ends
      <3>2. line[i].tag # "quote" /\ ~PlainByte(line[i])
        BY <1>2 DEF PlainByte, Space, Text, Unit
      <3> QED
        BY <2>1, <3>1, <3>2, ArgumentIs
    <2>3. ASSUME NEW r PROVE r \in f[i] <=> r \in f[i + 1]
      BY <1>2, <2>1, <2>2, InReadings
    <2> QED
      BY <2>3
  <1> QED
    BY <1>0, <1>1, <1>2

\* A line that can begin with an argument, or with none.
LEMMA FirstArgument ==
  ASSUME NEW line \in Bytes, NEW f, ReadingsOf(f, line, 1), NEW i \in 1..Len(line), line[i] # Space, NEW r
  PROVE  r \in f[i] <=> \E n \in Ends(line, i) : \E arg \in Argument(SubSeq(line, i, n)) : \E rest \in f[n + 1] :
                          r = Before(arg, rest)
  <1>1. i \in 1..(Len(line) + 1) /\ i # Len(line) + 1
    BY DEF Bytes
  <1> QED
    BY <1>1, InReadings

\* The grammar reads the line from i on if the scan does, and as the scan does.
Reads(state, line, f, i, args) ==
  \/ f[i] = {} /\ state[Len(line)].mode \notin {"word", "closed"}
  \/ \E r \in Seq(Bytes) :
       f[i] = {r} /\ state[Len(line)].mode \in {"word", "closed"} /\ InlineArgs(line) = Cat(args, r)

\* It does wherever the scan is not within a word.
AgreesFrom(state, line, f, i) ==
  \A args \in Seq(Bytes) : \A q : state[i - 1] = At("word", q, <<>>, args) => Reads(state, line, f, i, args)

\* The scan of a line, and its readings.
Scanned(state, line, f) ==
  /\ StatesOf(state, line, Len(line)) /\ InlineState(line) = state[Len(line)]
  /\ ReadingsOf(f, line, 1)

\* Behind an argument.
LEMMA ArgumentRead ==
  ASSUME NEW line \in Bytes, NEW state, NEW f, Scanned(state, line, f),
         NEW i \in 1..Len(line), line[i] # Space, NEW args \in Seq(Bytes),
         NEW c \in Ends(line, i), NEW a \in Bytes, Argument(SubSeq(line, i, c)) = {a},
         \A n \in Ends(line, i) : n # c => Argument(SubSeq(line, i, n)) = {},
         c = Len(line) =>
           state[Len(line)].mode \in {"word", "closed"} /\ InlineArgs(line) = Append(args, a),
         c # Len(line) =>
           (\E q : state[c + 1] = At("word", q, <<>>, Append(args, a))) /\ AgreesFrom(state, line, f, c + 2)
  PROVE  Reads(state, line, f, i, args)
  <1>0. PICK size \in Nat : size = Len(line)
    BY DEF Bytes
  <1>1. ReadingsOf(f, line, 1)
    BY DEF Scanned
  <1>a. ASSUME NEW r PROVE r \in f[i] <=> \E rest \in f[c + 1] : r = Before(a, rest)
    <2>1. r \in f[i] <=> \E n \in Ends(line, i) : \E arg \in Argument(SubSeq(line, i, n)) : \E rest \in f[n + 1] :
                          r = Before(arg, rest)
      BY <1>1, FirstArgument
    <2>2. \A n \in Ends(line, i) : \A arg \in Argument(SubSeq(line, i, n)) : n = c /\ arg = a
      OBVIOUS
    <2>3. a \in Argument(SubSeq(line, i, c))
      OBVIOUS
    <2> QED
      BY <2>1, <2>2, <2>3
  <1>2. f[i] = {Before(a, r) : r \in f[c + 1]}
    BY <1>a
  <1>3. PICK more \in Seq(Bytes) : more = Append(args, a)
    BY AppendProperties
  <1>4. \A r \in Seq(Bytes) : Before(a, r) \in Seq(Bytes) /\ Cat(more, r) = Cat(args, Before(a, r))
    BY <1>3, CatIs
  <1>5. CASE c = size
    <2>1. f[c + 1] = {<<>>}
      BY <1>0, <1>1, <1>5, SpaceReadings
    <2>2. <<>> \in Seq(Bytes) /\ Cat(more, <<>>) = more
      BY CatIs
    <2>3. PICK r \in Seq(Bytes) : r = Before(a, <<>>) /\ more = Cat(args, r)
      BY <1>4, <2>2
    <2>4. f[i] = {r}
      BY <1>2, <2>1, <2>3
    <2> QED
      BY <1>0, <1>3, <1>5, <2>3, <2>4 DEF Reads
  <1>6. CASE c # size
    <2>1. c \in i..size /\ line[c + 1] = Space
      BY <1>0, <1>6 DEF Ends
    <2>2. c + 1 \in 1..size /\ (c + 1) + 1 = c + 2 /\ (c + 2) - 1 = c + 1
      BY <1>0, <1>6, <2>1
    <2>3. f[c + 1] = f[c + 2]
      BY <1>0, <1>1, <2>1, <2>2, SpaceReadings
    <2>4. Reads(state, line, f, c + 2, more)
      BY <1>0, <1>3, <1>6, <2>2 DEF AgreesFrom
    <2>5. CASE f[c + 2] = {}
      <3>1. f[i] = {}
        BY <1>2, <2>3, <2>5
      <3> QED
        BY <2>4, <2>5, <3>1 DEF Reads
    <2>6. CASE f[c + 2] # {}
      <3>1. PICK r \in Seq(Bytes) : /\ f[c + 2] = {r} /\ state[Len(line)].mode \in {"word", "closed"}
                                    /\ InlineArgs(line) = Cat(more, r)
        BY <2>4, <2>6 DEF Reads
      <3>2. PICK t \in Seq(Bytes) : t = Before(a, r) /\ Cat(more, r) = Cat(args, t)
        BY <1>4
      <3>3. f[i] = {t}
        BY <1>2, <2>3, <3>1, <3>2
      <3> QED
        BY <3>1, <3>2, <3>3 DEF Reads
    <2> QED
      BY <2>5, <2>6
  <1> QED
    BY <1>5, <1>6

\* A line that can begin with no argument.
LEMMA NothingRead ==
  ASSUME NEW line \in Bytes, NEW state, NEW f, Scanned(state, line, f),
         NEW i \in 1..Len(line), line[i] # Space, NEW args,
         \A n \in Ends(line, i) : Argument(SubSeq(line, i, n)) = {},
         state[Len(line)].mode \notin {"word", "closed"}
  PROVE  Reads(state, line, f, i, args)
  <1>1. \A r : r \notin f[i]
    BY FirstArgument DEF Scanned
  <1>2. f[i] = {}
    BY <1>1
  <1> QED
    BY <1>2 DEF Reads

\* The scan within a word, one byte further.
LEMMA WordStep ==
  ASSUME NEW line \in Bytes, NEW state, NEW f, Scanned(state, line, f),
         NEW i \in 1..Len(line), NEW args \in Seq(Bytes), NEW q, NEW j \in (i + 1)..(Len(line) + 1),
         \A k \in i..(j - 1) : PlainByte(line[k]),
         state[j - 1] = At("word", q, SubSeq(line, i, j - 1), args),
         \A k \in (i + 1)..(Len(line) + 1) : AgreesFrom(state, line, f, k)
  PROVE  \/ Reads(state, line, f, i, args)
         \/ /\ j <= Len(line) /\ PlainByte(line[j])
            /\ state[j] = At("word", q, SubSeq(line, i, j), args)
  <1>0. PICK size \in Nat : size = Len(line)
    BY DEF Bytes
  <1>a. i \in 1..size /\ j \in (i + 1)..(size + 1) /\ i \in i..(j - 1) /\ j - 1 \in i..size
    BY <1>0
  <1>b. line[i] # Space /\ line[i].tag # "quote"
    BY <1>a DEF PlainByte
  <1>c. StatesOf(state, line, size)
    BY <1>0 DEF Scanned
  <1>1. \A k \in 1..size : state[k] = InlineByte(state[k - 1], line[k])
    BY <1>c, StateStep
  <1>2. PICK word \in Bytes : word = SubSeq(line, i, j - 1) /\ word # <<>>
    BY <1>0, <1>a, ArgumentIs
  <1>d. ASSUME NEW u, NEW s, s = At("word", q, word, args)
        PROVE  /\ u = Space => InlineByte(s, u) = At("word", q, <<>>, Append(args, word))
               /\ u.tag = "quote" => InlineByte(s, u).mode = "bad"
               /\ u # Space /\ u.tag # "quote" => InlineByte(s, u) = At("word", q, Append(word, u), args)
    <2>1. /\ u = Space => InlineByte(s, u) = At("word", q, <<>>, IF word = <<>> THEN args ELSE Append(args, word))
          /\ u.tag = "quote" /\ word # <<>> => InlineByte(s, u).mode = "bad"
          /\ u # Space /\ u.tag # "quote" => InlineByte(s, u) = At("word", q, Append(word, u), args)
      BY <1>d, WordByte
    <2> QED
      BY <1>2, <2>1
  <1>e. state[j - 1] = At("word", q, word, args)
    BY <1>2
  <1>3. Argument(SubSeq(line, i, j - 1)) = {word}
    BY <1>0, <1>a, <1>b, <1>2, ArgumentIs
  <1>4. ASSUME NEW n \in Ends(line, i), n # j - 1, j <= size => ~PlainByte(line[j])
        PROVE  Argument(SubSeq(line, i, n)) = {}
    <2>1. n \in i..size /\ (n = size \/ line[n + 1] = Space)
      BY <1>0 DEF Ends
    <2>2. ~(n < j - 1)
      <3> SUFFICES ASSUME n < j - 1 PROVE FALSE
        OBVIOUS
      <3>1. n # size /\ n + 1 \in i..(j - 1)
        BY <1>a, <2>1
      <3> QED
        BY <2>1, <3>1 DEF PlainByte
    <2>3. j \in i..n /\ j <= size
      BY <1>a, <1>4, <2>1, <2>2
    <2>4. ~\A k \in i..n : PlainByte(line[k])
      BY <1>4, <2>3
    <2> QED
      BY <1>0, <1>a, <1>b, <2>1, <2>4, ArgumentIs
  <1>5. CASE j = size + 1
    <2>1. j - 1 = size /\ ~(j <= size) /\ j - 1 \in Ends(line, i)
      BY <1>0, <1>a, <1>5 DEF Ends
    <2>2. state[size] = At("word", q, word, args)
      BY <1>2, <2>1
    <2>3. InlineArgs(line) = Append(args, word) /\ state[size].mode = "word"
      <3>1. InlineState(line) = At("word", q, word, args)
        BY <1>0, <2>2 DEF Scanned
      <3>2. PICK s : s = InlineState(line) /\ s.mode = "word" /\ s.word = word /\ s.args = args
        BY <3>1 DEF At
      <3>3. InlineArgs(line) = EndWord(s)
        BY <3>2 DEF InlineArgs
      <3>4. EndWord(s) = Append(args, word)
        BY <1>2, <3>2 DEF EndWord
      <3>5. state[size].mode = "word"
        BY <2>2 DEF At
      <3> QED
        BY <3>3, <3>4, <3>5
    <2>4. \A n \in Ends(line, i) : n # j - 1 => Argument(SubSeq(line, i, n)) = {}
      BY <1>4, <2>1
    <2>5. Reads(state, line, f, i, args)
      BY <1>0, <1>b, <1>2, <1>3, <2>1, <2>3, <2>4, ArgumentRead
    <2> QED
      BY <2>5
  <1>6. CASE j <= size /\ line[j] = Space
    <2>1. j \in 1..size /\ state[j] = InlineByte(state[j - 1], line[j])
      BY <1>1, <1>a, <1>6
    <2>2. state[j] = At("word", q, <<>>, Append(args, word))
      BY <1>d, <1>e, <1>6, <2>1
    <2>3. j - 1 \in Ends(line, i) /\ j - 1 # size /\ (j - 1) + 1 = j /\ (j - 1) + 2 \in (i + 1)..(size + 1)
      <3>1. j - 1 \in i..size /\ (j - 1) + 1 = j /\ j - 1 # size /\ (j - 1) + 2 \in (i + 1)..(size + 1)
        BY <1>a, <1>6
      <3> QED
        BY <1>0, <1>6, <3>1 DEF Ends
    <2>4. ~PlainByte(line[j])
      BY <1>6 DEF PlainByte
    <2>5. \A n \in Ends(line, i) : n # j - 1 => Argument(SubSeq(line, i, n)) = {}
      BY <1>4, <2>4
    <2>6. AgreesFrom(state, line, f, (j - 1) + 2)
      BY <1>0, <2>3
    <2>7. \E r : state[(j - 1) + 1] = At("word", r, <<>>, Append(args, word))
      BY <2>2, <2>3
    <2>8. Reads(state, line, f, i, args)
      BY <1>0, <1>b, <1>2, <1>3, <2>3, <2>5, <2>6, <2>7, ArgumentRead
    <2> QED
      BY <2>8
  <1>7. CASE j <= size /\ line[j].tag = "quote"
    <2>1. j \in 1..size /\ j \in 0..size /\ state[j] = InlineByte(state[j - 1], line[j])
      BY <1>1, <1>a, <1>7
    <2>2. state[j].mode = "bad"
      BY <1>d, <1>e, <1>7, <2>1
    <2>3. state[size].mode = "bad"
      BY <1>0, <2>1, <2>2, BadStays DEF Scanned
    <2>4. ~PlainByte(line[j]) /\ line[j] # Space
      BY <1>7 DEF PlainByte, Space, Text, Unit
    <2>5. j - 1 \notin Ends(line, i)
      <3>1. (j - 1) + 1 = j /\ j - 1 # size
        BY <1>a, <1>7
      <3> QED
        BY <1>0, <2>4, <3>1 DEF Ends
    <2>6. \A n \in Ends(line, i) : Argument(SubSeq(line, i, n)) = {}
      BY <1>4, <2>4, <2>5
    <2>7. Reads(state, line, f, i, args)
      BY <1>0, <1>b, <2>3, <2>6, NothingRead
    <2> QED
      BY <2>7
  <1>8. CASE j <= size /\ PlainByte(line[j])
    <2>1. j \in 1..size /\ state[j] = InlineByte(state[j - 1], line[j])
      BY <1>1, <1>a, <1>8
    <2>2. state[j] = At("word", q, Append(word, line[j]), args)
      BY <1>d, <1>e, <1>8, <2>1 DEF PlainByte
    <2>3. Append(word, line[j]) = SubSeq(line, i, j)
      <3>1. line[j] \in AnyUnit
        BY <1>0, <2>1 DEF Bytes
      <3>2. \A k \in i..j : line[k] \in AnyUnit
        BY <1>0, <1>a, <2>1 DEF Bytes
      <3>3. PICK grown \in Bytes : grown = Append(word, line[j])
        BY <3>1, AppendProperties DEF Bytes
      <3>4. PICK len \in Nat : len = j - i /\ Len(word) = len /\ \A k \in 1..len : word[k] = line[i + k - 1]
        <4>1. PICK y \in Int : y = j - 1 /\ y <= Len(line) /\ i <= y /\ i \in Nat \ {0} /\ y - i + 1 = j - i
          BY <1>0, <1>a
        <4>2. /\ Len(SubSeq(line, i, y)) = IF i <= y THEN y - i + 1 ELSE 0
              /\ \A k \in 1..(y - i + 1) : SubSeq(line, i, y)[k] = line[i + k - 1]
          BY <4>1, PartIsBytes
        <4>3. j - i \in Nat
          BY <1>a
        <4> QED
          BY <1>2, <4>1, <4>2, <4>3
      <3>5. PICK t \in Bytes : t = SubSeq(line, i, j) /\ Len(t) = len + 1 /\ \A k \in 1..(len + 1) : t[k] = line[i + k - 1]
        <4>1. i \in Nat \ {0} /\ j \in Int /\ j <= Len(line) /\ i <= j /\ j - i + 1 = len + 1
          BY <1>0, <1>a, <2>1, <3>4
        <4>2. /\ SubSeq(line, i, j) \in Bytes
              /\ Len(SubSeq(line, i, j)) = IF i <= j THEN j - i + 1 ELSE 0
              /\ \A k \in 1..(j - i + 1) : SubSeq(line, i, j)[k] = line[i + k - 1]
          BY <4>1, PartIsBytes
        <4> QED
          BY <4>1, <4>2
      <3>6. Len(grown) = len + 1 /\ grown[len + 1] = line[j] /\ \A k \in 1..len : grown[k] = word[k]
        <4>1. /\ Len(Append(word, line[j])) = Len(word) + 1
              /\ \A k \in 1..Len(word) : Append(word, line[j])[k] = word[k]
              /\ Append(word, line[j])[Len(word) + 1] = line[j]
          BY <3>1, AppendProperties DEF Bytes
        <4> QED
          BY <3>3, <3>4, <4>1
      <3>7. ASSUME NEW k \in 1..(len + 1) PROVE grown[k] = t[k]
        <4>1. CASE k = len + 1
          <5>1. i + k - 1 = j
            BY <1>a, <3>4, <4>1
          <5> QED
            BY <3>5, <3>6, <4>1, <5>1
        <4>2. CASE k # len + 1
          <5>1. k \in 1..len
            BY <4>2
          <5> QED
            BY <3>4, <3>5, <3>6, <5>1
        <4> QED
          BY <4>1, <4>2
      <3>8. grown = t
        BY <3>5, <3>6, <3>7, SeqEqual DEF Bytes
      <3> QED
        BY <3>3, <3>5, <3>8
    <2> QED
      BY <1>0, <1>8, <2>2, <2>3
  <1> QED
    BY <1>5, <1>6, <1>7, <1>8, <1>a DEF PlainByte
\* Between spaces and quotes.
LEMMA WordAgrees ==
  ASSUME NEW line \in Bytes, NEW state, NEW f, Scanned(state, line, f),
         NEW i \in 1..Len(line), NEW args \in Seq(Bytes), NEW q,
         PlainByte(line[i]), state[i - 1] = At("word", q, <<>>, args),
         \A k \in (i + 1)..(Len(line) + 1) : AgreesFrom(state, line, f, k)
  PROVE  Reads(state, line, f, i, args)
  <1>0. PICK size \in Nat : size = Len(line)
    BY DEF Bytes
  <1> DEFINE Within(j) == /\ \A k \in i..(j - 1) : PlainByte(line[k])
                          /\ state[j - 1] = At("word", q, SubSeq(line, i, j - 1), args)
             S == {d \in Nat : d <= size - i => Within(i + 1 + d)}
  <1> SUFFICES ASSUME ~Reads(state, line, f, i, args) PROVE FALSE
    OBVIOUS
  <1>1. StatesOf(state, line, size) /\ i \in 1..size
    BY <1>0 DEF Scanned
  <1>2. 0 \in S
    <2>1. state[i] = InlineByte(state[i - 1], line[i])
      BY <1>1, StateStep
    <2>a. ASSUME NEW u, NEW s, NEW word, s = At("word", q, word, args), PlainByte(u)
          PROVE  InlineByte(s, u) = At("word", q, Append(word, u), args)
      <3>1. u # Space /\ u.tag # "quote"
        BY <2>a DEF PlainByte
      <3>2. u # Space /\ u.tag # "quote" => InlineByte(s, u) = At("word", q, Append(word, u), args)
        BY <2>a, WordByte
      <3> QED
        BY <3>1, <3>2
    <2>2. InlineByte(state[i - 1], line[i]) = At("word", q, Append(<<>>, line[i]), args)
      BY <2>a
    <2>3. PICK u \in AnyUnit : u = line[i]
      BY DEF Bytes
    <2>4. SubSeq(line, i, i) = <<u>>
      <3>1. /\ SubSeq(line, i, i) \in Bytes /\ Len(SubSeq(line, i, i)) = IF i <= i THEN i - i + 1 ELSE 0
            /\ \A k \in 1..(i - i + 1) : SubSeq(line, i, i)[k] = line[i + k - 1]
        BY PartIsBytes
      <3>2. i <= i /\ i - i + 1 = 1 /\ i + 1 - 1 = i
        BY <1>1
      <3>3. PICK part \in Bytes : part = SubSeq(line, i, i) /\ Len(part) = 1 /\ part[1] = line[i]
        <4>1. 1 \in 1..(i - i + 1)
          BY <3>2
        <4>2. SubSeq(line, i, i)[1] = line[i + 1 - 1] /\ Len(SubSeq(line, i, i)) = i - i + 1
          BY <3>1, <3>2, <4>1
        <4> QED
          BY <3>1, <3>2, <4>2
      <3>4. <<u>> \in Bytes /\ Len(<<u>>) = 1 /\ <<u>>[1] = u
        BY DEF Bytes
      <3>5. \A k \in 1..1 : part[k] = <<u>>[k]
        BY <2>3, <3>3, <3>4
      <3>6. part = <<u>>
        BY <3>3, <3>4, <3>5, SeqEqual DEF Bytes
      <3> QED
        BY <3>3, <3>6
    <2>5. Append(<<>>, u) = <<u>>
      OBVIOUS
    <2>6. (i + 1) - 1 = i /\ i + 1 + 0 = i + 1 /\ \A k \in i..((i + 1) - 1) : k = i
      BY <1>1
    <2>7. Within(i + 1)
      BY <2>1, <2>2, <2>3, <2>4, <2>5, <2>6
    <2> HIDE DEF Within
    <2> QED
      BY <2>6, <2>7
  <1>3. ASSUME NEW d \in Nat, d \in S PROVE d + 1 \in S
    <2> SUFFICES ASSUME d + 1 <= size - i PROVE Within(i + 1 + (d + 1))
      OBVIOUS
    <2>1. PICK j \in (i + 1)..size : j = i + 1 + d
      BY <1>1
    <2>2. Within(j)
      BY <1>3, <2>1
    <2>3. j \in (i + 1)..(Len(line) + 1)
      BY <1>0, <2>1
    <2>4. PlainByte(line[j]) /\ state[j] = At("word", q, SubSeq(line, i, j), args)
      BY <2>2, <2>3, WordStep
    <2>5. j = (j + 1) - 1 /\ j + 1 = i + 1 + (d + 1) /\ \A k \in i..((j + 1) - 1) : k = j \/ k \in i..(j - 1)
      BY <2>1
    <2>6. Within(j + 1)
      BY <2>2, <2>4, <2>5
    <2> HIDE DEF Within
    <2> QED
      BY <2>5, <2>6
  <1>4. size - i \in S /\ size - i \in Nat
    <2>1. size - i \in Nat
      BY <1>1
    <2> HIDE DEF S
    <2> QED
      BY <1>2, <1>3, <2>1, NatSetInduction
  <1>5. Within(size + 1)
    <2>1. i + 1 + (size - i) = size + 1
      BY <1>1
    <2> HIDE DEF Within
    <2> QED
      BY <1>4, <2>1
  <1>6. size + 1 \in (i + 1)..(Len(line) + 1) /\ ~(size + 1 <= Len(line))
    BY <1>0, <1>1
  <1> QED
    BY <1>5, <1>6, WordStep

\* Between quotes.
LEMMA QuoteAgrees ==
  ASSUME NEW line \in Bytes, NEW state, NEW f, Scanned(state, line, f),
         NEW i \in 1..Len(line), NEW args \in Seq(Bytes), NEW r,
         line[i].tag = "quote", state[i - 1] = At("word", r, <<>>, args),
         \A k \in (i + 1)..(Len(line) + 1) : AgreesFrom(state, line, f, k)
  PROVE  Reads(state, line, f, i, args)
  <1>0. PICK size \in Nat : size = Len(line)
    BY DEF Bytes
  <1>1. StatesOf(state, line, size) /\ i \in 1..size
    BY <1>0 DEF Scanned
  <1>2. PICK q : q = line[i] /\ q # Backslash /\ q # Space
    BY DEF Backslash, Space, Text, Unit
  <1>3. state[i] = At("opened", q, <<>>, args)
    <2>1. state[i] = InlineByte(state[i - 1], line[i])
      BY <1>1, StateStep
    <2> QED
      BY <1>2, <2>1, WordByte
  <1>4. PICK M : QuotesOf(M, line, i, q)
    BY <1>2, QuotesExist
  <1>5. ScansFrom(state, line, M, q, i + 1)
    BY <1>0, <1>1, <1>2, <1>4, QuoteScan
  <1>6. InQuotes(state[(i + 1) - 1], q, <<>>, args)
    <2>1. (i + 1) - 1 = i
      BY <1>1
    <2> QED
      BY <1>3, <2>1 DEF InQuotes
  <1>7. ASSUME NEW n \in Ends(line, i)
        PROVE  Argument(SubSeq(line, i, n)) = IF n \in (i + 1)..size /\ line[n] = q THEN M[n][i + 1] ELSE {}
    <2>1. n \in i..Len(line) /\ n \in i..size
      BY <1>0 DEF Ends
    <2>2. Argument(SubSeq(line, i, n)) = IF i < n /\ line[n] = q THEN Quoted(q, SubSeq(line, i + 1, n - 1)) ELSE {}
      BY <1>2, <2>1, ArgumentIs
    <2>3. i < n <=> n \in (i + 1)..size
      BY <1>1, <2>1
    <2>4. n \in (i + 1)..size => Quoted(q, SubSeq(line, i + 1, n - 1)) = M[n][i + 1]
      BY <1>0, <1>4 DEF QuotesOf
    <2> QED
      BY <2>2, <2>3, <2>4
  <1>8. <<>> \in Bytes /\ \A x \in Bytes : Cat(<<>>, x) = x
    BY ConcatEmptySeq DEF Bytes, Cat
  <1>9. CASE StaysOpen(state, line, M, q, i + 1)
    <2>1. state[size].mode \notin {"word", "closed"}
      BY <1>0, <1>9 DEF StaysOpen
    <2>2. \A n \in Ends(line, i) : Argument(SubSeq(line, i, n)) = {}
      BY <1>0, <1>7, <1>9 DEF StaysOpen
    <2> QED
      BY <1>0, <1>2, <2>1, <2>2, NothingRead
  <1>10. CASE ~StaysOpen(state, line, M, q, i + 1)
    <2>1. PICK c \in (i + 1)..size, x \in Bytes : ClosesAt(state, line, M, q, i + 1, <<>>, args, c, x)
      BY <1>0, <1>5, <1>6, <1>8, <1>10 DEF ScansFrom
    <2>2. line[c] = q /\ M[c][i + 1] = {x} /\ state[c] = At("closed", q, <<>>, Append(args, x))
      BY <1>8, <2>1 DEF ClosesAt
    <2>3. \A n \in Ends(line, i) : n # c => Argument(SubSeq(line, i, n)) = {}
      BY <1>0, <1>7, <2>1 DEF ClosesAt
    <2>4. c \in Ends(line, i) => Argument(SubSeq(line, i, c)) = {x}
      BY <1>7, <2>1, <2>2
    <2>a. ASSUME NEW u, NEW s, NEW word, NEW more, s = At("closed", q, word, more)
          PROVE  /\ u = Space => InlineByte(s, u) = At("word", q, word, more)
                 /\ u # Space => InlineByte(s, u).mode = "bad"
      BY <2>a, ClosedByte
    <2>5. c \in i..size /\ c \in 0..size
      BY <1>1, <2>1
    <2>6. CASE c = size
      <3>1. c \in Ends(line, i)
        BY <1>0, <2>5, <2>6 DEF Ends
      <3>2. PICK s : s = InlineState(line) /\ s.mode = "closed" /\ s.args = Append(args, x) /\ state[size].mode = "closed"
        BY <1>0, <2>2, <2>6 DEF Scanned, At
      <3>3. InlineArgs(line) = Append(args, x)
        BY <3>2 DEF InlineArgs
      <3>4. c = Len(line) /\ state[Len(line)].mode \in {"word", "closed"}
        BY <1>0, <2>6, <3>2
      <3> QED
        BY <1>2, <2>3, <2>4, <3>1, <3>3, <3>4, ArgumentRead
    <2>7. CASE c # size /\ line[c + 1] = Space
      <3>1. c \in Ends(line, i) /\ c # Len(line)
        BY <1>0, <2>5, <2>7 DEF Ends
      <3>2. c + 1 \in 1..size /\ (c + 1) - 1 = c /\ c + 2 \in (i + 1)..(size + 1)
        BY <1>1, <2>1, <2>7
      <3>3. state[c + 1] = InlineByte(state[c], line[c + 1])
        BY <1>1, <3>2, StateStep
      <3>4. state[c + 1] = At("word", q, <<>>, Append(args, x))
        BY <2>a, <2>2, <2>7, <3>3
      <3>5. AgreesFrom(state, line, f, c + 2)
        BY <1>0, <3>2
      <3> QED
        BY <1>2, <2>3, <2>4, <3>1, <3>4, <3>5, ArgumentRead
    <2>8. CASE c # size /\ line[c + 1] # Space
      <3>1. c \notin Ends(line, i)
        BY <1>0, <2>8 DEF Ends
      <3>2. c + 1 \in 1..size /\ (c + 1) - 1 = c /\ c + 1 \in 0..size
        BY <1>1, <2>1, <2>8
      <3>3. state[c + 1] = InlineByte(state[c], line[c + 1])
        BY <1>1, <3>2, StateStep
      <3>4. state[c + 1].mode = "bad"
        BY <2>a, <2>2, <2>8, <3>3
      <3>5. state[size].mode = "bad"
        BY <1>1, <3>2, <3>4, BadStays
      <3>6. \A n \in Ends(line, i) : Argument(SubSeq(line, i, n)) = {}
        BY <2>3, <3>1
      <3> QED
        BY <1>0, <1>2, <3>5, <3>6, NothingRead
    <2> QED
      BY <2>6, <2>7, <2>8
  <1> QED
    BY <1>9, <1>10

\* At a space, and at the end of the line.
LEMMA SpaceAgrees ==
  ASSUME NEW line \in Bytes, NEW state, NEW f, Scanned(state, line, f)
  PROVE  /\ AgreesFrom(state, line, f, Len(line) + 1)
         /\ \A i \in 1..Len(line) : line[i] = Space /\ AgreesFrom(state, line, f, i + 1) => AgreesFrom(state, line, f, i)
  <1>0. PICK size \in Nat : size = Len(line)
    BY DEF Bytes
  <1>1. StatesOf(state, line, size) /\ ReadingsOf(f, line, 1) /\ InlineState(line) = state[size]
    BY <1>0 DEF Scanned
  <1>2. ASSUME NEW args \in Seq(Bytes), NEW q, state[size] = At("word", q, <<>>, args)
        PROVE  Reads(state, line, f, size + 1, args)
    <2>1. f[size + 1] = {<<>>}
      BY <1>0, <1>1, SpaceReadings
    <2>2. PICK s : s = InlineState(line) /\ s.mode = "word" /\ s.word = <<>> /\ s.args = args /\ state[size].mode = "word"
      BY <1>1, <1>2 DEF At
    <2>3. InlineArgs(line) = EndWord(s) /\ EndWord(s) = args
      BY <2>2 DEF InlineArgs, EndWord
    <2>4. <<>> \in Seq(Bytes) /\ Cat(args, <<>>) = args
      BY CatIs
    <2> QED
      BY <1>0, <2>1, <2>2, <2>3, <2>4 DEF Reads
  <1>3. ASSUME NEW i \in 1..size, line[i] = Space, AgreesFrom(state, line, f, i + 1),
               NEW args \in Seq(Bytes), NEW q, state[i - 1] = At("word", q, <<>>, args)
        PROVE  Reads(state, line, f, i, args)
    <2>1. state[i] = InlineByte(state[i - 1], line[i])
      BY <1>1, StateStep
    <2>2. state[i] = At("word", q, <<>>, args)
      BY <1>3, <2>1, WordByte
    <2>3. (i + 1) - 1 = i /\ f[i] = f[i + 1]
      BY <1>0, <1>1, <1>3, SpaceReadings
    <2>4. Reads(state, line, f, i + 1, args)
      BY <1>3, <2>2, <2>3 DEF AgreesFrom
    <2> QED
      BY <2>3, <2>4 DEF Reads
  <1>4. (size + 1) - 1 = size
    OBVIOUS
  <1> QED
    BY <1>0, <1>2, <1>3, <1>4 DEF AgreesFrom

\* Scan and grammar agree on all of a line.
LEMMA ScanAgrees ==
  ASSUME NEW line \in Bytes, NEW state, NEW f, Scanned(state, line, f)
  PROVE  AgreesFrom(state, line, f, 1)
  <1>0. PICK size \in Nat : size = Len(line)
    BY DEF Bytes
  <1> DEFINE S == {d \in Nat : d <= size => \A k \in (size + 1 - d)..(size + 1) : AgreesFrom(state, line, f, k)}
  <1>1. 0 \in S
    <2>1. \A k \in (size + 1 - 0)..(size + 1) : k = size + 1
      OBVIOUS
    <2>2. AgreesFrom(state, line, f, size + 1)
      BY <1>0, SpaceAgrees
    <2> QED
      BY <2>1, <2>2
  <1>2. ASSUME NEW d \in Nat, d \in S PROVE d + 1 \in S
    <2> SUFFICES ASSUME d + 1 <= size, NEW k \in (size + 1 - (d + 1))..(size + 1)
                 PROVE  AgreesFrom(state, line, f, k)
      OBVIOUS
    <2>1. \A l \in (size + 1 - d)..(size + 1) : AgreesFrom(state, line, f, l)
      BY <1>2
    <2>2. CASE k \in (size + 1 - d)..(size + 1)
      BY <2>1, <2>2
    <2>3. CASE k \notin (size + 1 - d)..(size + 1)
      <3>1. k \in 1..size /\ k + 1 = size + 1 - d /\ k + 1 \in (k + 1)..(size + 1)
        BY <2>3
      <3>2. \A l \in (k + 1)..(Len(line) + 1) : AgreesFrom(state, line, f, l)
        BY <1>0, <2>1, <3>1
      <3>3. CASE line[k] = Space
        <4>1. AgreesFrom(state, line, f, k + 1)
          BY <2>1, <3>1
        <4> QED
          BY <1>0, <3>1, <3>3, <4>1, SpaceAgrees
      <3>4. CASE line[k].tag = "quote"
        BY <1>0, <3>1, <3>2, <3>4, QuoteAgrees DEF AgreesFrom
      <3>5. CASE PlainByte(line[k])
        BY <1>0, <3>1, <3>2, <3>5, WordAgrees DEF AgreesFrom
      <3> QED
        BY <3>3, <3>4, <3>5 DEF PlainByte
    <2> QED
      BY <2>2, <2>3
  <1>3. size \in S
    <2> HIDE DEF S
    <2> QED
      BY <1>1, <1>2, NatSetInduction
  <1>4. size <= size /\ 1 \in (size + 1 - size)..(size + 1)
    OBVIOUS
  <1> QED
    BY <1>3, <1>4
\* The states of a scan are well formed.
IsMode(mode, q, word) ==
  /\ q # Backslash
  /\ mode \in {"opened", "quoted", "escaped"} => q # Space
  /\ mode = "closed" => word = <<>>

IsAt(s) ==
  \E mode : \E q : \E word \in Bytes : \E args \in Seq(Bytes) : IsMode(mode, q, word) /\ s = At(mode, q, word, args)

\* What fits together is a state.
LEMMA AtIs ==
  ASSUME NEW mode, NEW q, NEW word \in Bytes, NEW args \in Seq(Bytes), IsMode(mode, q, word),
         NEW s, s = At(mode, q, word, args)
  PROVE  IsAt(s) /\ s.mode = mode /\ s.word = word
  <1>1. s.mode = mode /\ s.word = word
    BY DEF At
  <1> QED
    BY <1>1 DEF IsAt

\* What one byte leaves of a well-formed state: a quote is opened, and a word empty, in one way only.
LEMMA ByteIs ==
  ASSUME NEW u \in AnyUnit, NEW s, IsAt(s)
  PROVE  /\ IsAt(InlineByte(s, u))
         /\ InlineByte(s, u).mode = "opened" => s.mode = "word" /\ s.word = <<>> /\ u.tag = "quote"
         /\ InlineByte(s, u).mode = "word" /\ InlineByte(s, u).word = <<>> => u = Space \/ s.mode = "closed"
         /\ InlineByte(s, u).mode = "word" /\ s.mode = "closed" => u = Space
         /\ u = Space /\ InlineByte(s, u).mode \in {"word", "closed"} =>
              InlineByte(s, u).mode = "word" /\ InlineByte(s, u).word = <<>>
  <1>1. PICK mode, q : \E word \in Bytes : \E args \in Seq(Bytes) : IsMode(mode, q, word) /\ s = At(mode, q, word, args)
    BY DEF IsAt
  <1>2. PICK word \in Bytes, args \in Seq(Bytes) : IsMode(mode, q, word) /\ s = At(mode, q, word, args)
    BY <1>1
  <1>3. s.mode = mode /\ s.quote = q /\ s.word = word /\ s.args = args
    BY <1>2 DEF At
  <1>a. /\ q # Backslash
        /\ mode \in {"opened", "quoted", "escaped"} => q # Space
        /\ mode = "closed" => word = <<>>
    BY <1>2 DEF IsMode
  <1>4. /\ <<>> \in Bytes /\ Append(args, word) \in Seq(Bytes)
        /\ \A x \in AnyUnit : Append(word, x) \in Bytes /\ Append(word, x) # <<>>
    <2>1. Append(args, word) \in Seq(Bytes)
      BY AppendProperties
    <2>2. ASSUME NEW x \in AnyUnit PROVE Append(word, x) \in Bytes /\ Append(word, x) # <<>>
      BY AppendProperties DEF Bytes
    <2> QED
      BY <2>1, <2>2 DEF Bytes
  <1>b. Space # Backslash /\ Space.tag # "quote" /\ (u.tag = "quote" => u # Backslash /\ u # Space)
    BY DEF Space, Backslash, Text, Unit
  <1>5. CASE mode = "bad"
    <2>1. InlineByte(s, u) = s
      BY <1>3, <1>5, BadByte
    <2> QED
      BY <1>3, <1>5, <2>1
  <1>6. CASE mode = "closed" /\ u = Space
    <2>1. InlineByte(s, u) = At("word", q, word, args)
      BY <1>2, <1>6, ClosedByte
    <2>2. IsMode("word", q, word) /\ word = <<>>
      BY <1>a, <1>6 DEF IsMode
    <2> QED
      BY <1>3, <1>6, <2>1, <2>2, AtIs
  <1>7. CASE mode = "closed" /\ u # Space
    <2>1. InlineByte(s, u) = [s EXCEPT !.mode = "bad"]
      BY <1>3, <1>7 DEF InlineByte
    <2>2. InlineByte(s, u) = At("bad", q, word, args)
      BY <1>2, <2>1 DEF At
    <2>3. IsMode("bad", q, word)
      BY <1>a DEF IsMode
    <2> QED
      BY <2>2, <2>3, AtIs
  <1>8. CASE mode = "escaped"
    <2>1. PICK longer \in Bytes : longer = Append(word, Unescaped(u))
      BY <1>4, UnescapedIs
    <2>2. InlineByte(s, u) = At("quoted", q, longer, args)
      BY <1>2, <1>8, <2>1, EscapedByte
    <2>3. IsMode("quoted", q, longer)
      BY <1>a, <1>8 DEF IsMode
    <2> QED
      BY <2>2, <2>3, AtIs
  <1>9. CASE mode \in {"opened", "quoted"} /\ u = q
    <2>1. PICK more \in Seq(Bytes) : more = Append(args, word)
      BY <1>4
    <2>2. InlineByte(s, u) = At("closed", q, <<>>, more)
      BY <1>2, <1>a, <1>9, <2>1, QuotedByte
    <2>3. IsMode("closed", q, <<>>) /\ u # Space
      BY <1>a, <1>9 DEF IsMode
    <2> QED
      BY <1>4, <2>2, <2>3, AtIs
  <1>10. CASE mode \in {"opened", "quoted"} /\ u # q /\ u = Backslash
    <2>1. InlineByte(s, u) = At("escaped", q, word, args)
      BY <1>2, <1>a, <1>10, QuotedByte
    <2>2. IsMode("escaped", q, word)
      BY <1>a, <1>10 DEF IsMode
    <2> QED
      BY <2>1, <2>2, AtIs
  <1>11. CASE mode \in {"opened", "quoted"} /\ u # q /\ u # Backslash
    <2>1. PICK longer \in Bytes : longer = Append(word, u)
      BY <1>4
    <2>2. InlineByte(s, u) = At("quoted", q, longer, args)
      BY <1>2, <1>a, <1>11, <2>1, QuotedByte
    <2>3. IsMode("quoted", q, longer)
      BY <1>a, <1>11 DEF IsMode
    <2> QED
      BY <2>2, <2>3, AtIs
  <1>12. CASE mode = "word" /\ u = Space
    <2>1. PICK more \in Seq(Bytes) : more = IF word = <<>> THEN args ELSE Append(args, word)
      BY <1>4
    <2>2. InlineByte(s, u) = At("word", q, <<>>, more)
      BY <1>2, <1>12, <2>1, WordByte
    <2>3. IsMode("word", q, <<>>)
      BY <1>a DEF IsMode
    <2> QED
      BY <1>3, <1>4, <1>12, <2>2, <2>3, AtIs
  <1>13. CASE mode = "word" /\ u.tag = "quote" /\ word = <<>>
    <2>1. InlineByte(s, u) = At("opened", u, <<>>, args)
      BY <1>2, <1>13, WordByte
    <2>2. IsMode("opened", u, <<>>)
      BY <1>b, <1>13 DEF IsMode
    <2> QED
      BY <1>3, <1>4, <1>13, <2>1, <2>2, AtIs
  <1>14. CASE mode = "word" /\ u.tag = "quote" /\ word # <<>>
    <2>1. InlineByte(s, u) = [s EXCEPT !.mode = "bad"]
      BY <1>3, <1>b, <1>14 DEF InlineByte
    <2>2. InlineByte(s, u) = At("bad", q, word, args)
      BY <1>2, <2>1 DEF At
    <2>3. IsMode("bad", q, word)
      BY <1>a DEF IsMode
    <2> QED
      BY <2>2, <2>3, AtIs
  <1>15. CASE /\ mode \notin {"bad", "closed", "escaped", "opened", "quoted"}
              /\ ~(mode = "word" /\ (u = Space \/ u.tag = "quote"))
    <2>1. PICK longer \in Bytes : longer = Append(word, u) /\ longer # <<>>
      BY <1>4
    <2>2. InlineByte(s, u) = [s EXCEPT !.word = Append(@, u)]
      BY <1>3, <1>15 DEF InlineByte
    <2>3. InlineByte(s, u) = At(mode, q, longer, args)
      BY <1>2, <1>3, <2>1, <2>2 DEF At
    <2>4. IsMode(mode, q, longer)
      BY <1>a, <1>15 DEF IsMode
    <2>5. u = Space => mode # "word"
      BY <1>15
    <2>6. IsAt(InlineByte(s, u)) /\ InlineByte(s, u).mode = mode /\ InlineByte(s, u).word = longer
      BY <2>3, <2>4, AtIs
    <2>7. mode \notin {"opened", "closed"}
      BY <1>15
    <2> QED
      BY <1>3, <2>1, <2>5, <2>6, <2>7
  <1> QED
    BY <1>5, <1>6, <1>7, <1>8, <1>9, <1>10, <1>11, <1>12, <1>13, <1>14, <1>15

\* All states of a scan are.
LEMMA StatesAre ==
  ASSUME NEW line \in Bytes, NEW n \in Nat, n <= Len(line), NEW state, StatesOf(state, line, n), NEW k \in 0..n
  PROVE  IsAt(state[k])
  <1>0. PICK size \in Nat : size = Len(line)
    BY DEF Bytes
  <1> DEFINE S == {d \in Nat : d <= n => IsAt(state[d])}
  <1>1. 0 \in S
    <2>1. state[0] = At("word", Space, <<>>, <<>>)
      BY DEF StatesOf, InlineStart, At
    <2>2. <<>> \in Bytes /\ <<>> \in Seq(Bytes)
      BY CatIs DEF Bytes
    <2>3. IsMode("word", Space, <<>>)
      BY DEF Space, Backslash, Text, Unit, IsMode
    <2> QED
      BY <2>1, <2>2, <2>3 DEF IsAt
  <1>2. ASSUME NEW d \in Nat, d \in S PROVE d + 1 \in S
    <2> SUFFICES ASSUME d + 1 <= n PROVE IsAt(state[d + 1])
      OBVIOUS
    <2>1. d + 1 \in 1..n /\ (d + 1) - 1 = d /\ IsAt(state[d]) /\ d + 1 \in 1..size
      BY <1>0, <1>2
    <2>2. state[d + 1] = InlineByte(state[d], line[d + 1])
      BY <2>1, StateStep
    <2>3. line[d + 1] \in AnyUnit
      BY <1>0, <2>1 DEF Bytes
    <2> QED
      BY <2>1, <2>2, <2>3, ByteIs
  <1>3. k \in S
    <2> HIDE DEF S
    <2> QED
      BY <1>1, <1>2, NatSetInduction
  <1> QED
    BY <1>3

\* The scan of a beginning of a line is the beginning of its scan.
LEMMA StatesAgree ==
  ASSUME NEW line \in Bytes, NEW part \in Bytes, NEW n \in Nat, NEW size \in Nat, n <= size,
         \A k \in 1..n : part[k] = line[k],
         NEW state, StatesOf(state, line, size), NEW other, StatesOf(other, part, n)
  PROVE  other[n] = state[n]
  <1> DEFINE S == {d \in Nat : d <= n => other[d] = state[d]}
  <1>1. 0 \in S
    BY DEF StatesOf
  <1>2. ASSUME NEW d \in Nat, d \in S PROVE d + 1 \in S
    <2> SUFFICES ASSUME d + 1 <= n PROVE other[d + 1] = state[d + 1]
      OBVIOUS
    <2>1. d + 1 \in 1..n /\ d + 1 \in 1..size /\ (d + 1) - 1 = d /\ other[d] = state[d] /\ part[d + 1] = line[d + 1]
      BY <1>2
    <2>2. state[d + 1] = InlineByte(state[d], line[d + 1])
      BY <2>1, StateStep
    <2>3. other[d + 1] = InlineByte(other[d], part[d + 1])
      BY <2>1, StateStep
    <2> QED
      BY <2>1, <2>2, <2>3
  <1>3. n \in S
    <2> HIDE DEF S
    <2> QED
      BY <1>1, <1>2, NatSetInduction
  <1> QED
    BY <1>3

\* A scan that ends with an open quote and nothing in it ends with that quote, and
\* the line without it has a reading.
LEMMA OpenedIs ==
  ASSUME NEW line \in Bytes, NEW state, NEW f, Scanned(state, line, f), Readings(line) = {},
         state[Len(line)].mode = "opened"
  PROVE  OpensAtEnd(line)
  <1>0. PICK size \in Nat : size = Len(line)
    BY DEF Bytes
  <1>1. StatesOf(state, line, size) /\ state[size].mode = "opened"
    BY <1>0 DEF Scanned
  <1>2. state[0].mode = "word"
    BY <1>1 DEF StatesOf, InlineStart
  <1>3. size # 0
    BY <1>1, <1>2
  <1>4. PICK n \in Nat : n = size - 1 /\ n + 1 = size /\ n \in 0..size /\ size \in 1..size
    BY <1>3
  <1>5. state[size] = InlineByte(state[n], line[size])
    BY <1>1, <1>4, StateStep
  <1>6. /\ \A k \in 1..size : line[k] \in AnyUnit
        /\ \A k \in 0..size : IsAt(state[k])
    BY <1>0, <1>1, StatesAre DEF Bytes
  <1>7. state[n].mode = "word" /\ state[n].word = <<>> /\ line[size].tag = "quote"
    BY <1>1, <1>4, <1>5, <1>6, ByteIs
  <1>8. size = 1 \/ line[size - 1] = Space
    <2> SUFFICES ASSUME size # 1 PROVE line[size - 1] = Space
      OBVIOUS
    <2>1. n \in 1..size /\ n - 1 \in 0..size
      BY <1>4
    <2>2. state[n] = InlineByte(state[n - 1], line[n])
      BY <1>1, <2>1, StateStep
    <2>3. line[n] = Space
      BY <1>6, <1>7, <2>1, <2>2, ByteIs
    <2> QED
      BY <1>4, <2>3
  <1>9. Readings(SubSeq(line, 1, size - 1)) # {}
    <2>1. /\ SubSeq(line, 1, n) \in Bytes
          /\ Len(SubSeq(line, 1, n)) = IF 1 <= n THEN n - 1 + 1 ELSE 0
          /\ \A k \in 1..(n - 1 + 1) : SubSeq(line, 1, n)[k] = line[1 + k - 1]
      BY <1>0, <1>4, PartIsBytes
    <2>2. (IF 1 <= n THEN n - 1 + 1 ELSE 0) = n /\ n - 1 + 1 = n /\ \A k \in 1..n : 1 + k - 1 = k
      BY <1>4
    <2>3. PICK part \in Bytes : part = SubSeq(line, 1, n) /\ Len(part) = n /\ \A k \in 1..n : part[k] = line[k]
      BY <2>1, <2>2
    <2>4. PICK other : StatesOf(other, part, Len(part)) /\ InlineState(part) = other[Len(part)]
      BY <2>3, InlineStateIs
    <2>5. PICK g : ReadingsOf(g, part, 1) /\ Readings(part) = g[1]
      BY ReadingsIs
    <2>6. Scanned(other, part, g)
      BY <2>4, <2>5 DEF Scanned
    <2>7. other[n] = state[n]
      <3>1. n <= size /\ StatesOf(other, part, n)
        BY <1>4, <2>3, <2>4
      <3>2. \A k \in 1..n : part[k] = line[k]
        BY <2>3
      <3>3. StatesOf(state, line, size)
        BY <1>1
      <3> QED
        BY <3>1, <3>2, <3>3, StatesAgree
    <2>8. other[Len(part)].mode = "word"
      BY <1>7, <2>3, <2>7
    <2>9. AgreesFrom(other, part, g, 1)
      BY <2>6, ScanAgrees
    <2>10. other[1 - 1] = At("word", Space, <<>>, <<>>) /\ <<>> \in Seq(Bytes)
      <3>1. other[0] = InlineStart
        BY <2>3, <2>4 DEF StatesOf
      <3> QED
        BY <3>1, CatIs DEF InlineStart, At
    <2>11. Reads(other, part, g, 1, <<>>)
      BY <2>9, <2>10 DEF AgreesFrom
    <2>12. g[1] # {}
      BY <2>8, <2>11 DEF Reads
    <2> QED
      BY <1>4, <2>3, <2>5, <2>12
  <1>10. line # <<>>
    BY <1>0, <1>3
  <1> QED
    BY <1>0, <1>7, <1>8, <1>9, <1>10 DEF OpensAtEnd

\* The parser reads a line as the grammar does, unless it ends with an open quote.
LEMMA GrammarAgrees ==
  ASSUME NEW line \in Bytes, ~OpensAtEnd(line)
  PROVE  Meant(line) = InlineArgs(line)
  <1>0. PICK size \in Nat : size = Len(line)
    BY DEF Bytes
  <1>1. PICK state : StatesOf(state, line, Len(line)) /\ InlineState(line) = state[Len(line)]
    BY <1>0, InlineStateIs
  <1>2. PICK f : ReadingsOf(f, line, 1) /\ Readings(line) = f[1]
    BY ReadingsIs
  <1>3. Scanned(state, line, f)
    BY <1>1, <1>2 DEF Scanned
  <1>4. state[1 - 1] = At("word", Space, <<>>, <<>>) /\ <<>> \in Seq(Bytes)
    <2>1. state[0] = InlineStart
      BY <1>0, <1>1 DEF StatesOf
    <2> QED
      BY <2>1, CatIs DEF InlineStart, At
  <1>5. AgreesFrom(state, line, f, 1)
    BY <1>3, ScanAgrees
  <1>6. Reads(state, line, f, 1, <<>>)
    BY <1>4, <1>5 DEF AgreesFrom
  <1>7. CASE f[1] = {}
    <2>1. Meant(line) = <<>>
      BY <1>2, <1>7 DEF Meant
    <2>2. state[Len(line)].mode \notin {"word", "closed"}
      BY <1>6, <1>7 DEF Reads
    <2>3. state[Len(line)].mode # "opened"
      BY <1>2, <1>3, <1>7, OpenedIs
    <2>4. InlineArgs(line) = <<>>
      BY <1>1, <2>2, <2>3 DEF InlineArgs
    <2> QED
      BY <2>1, <2>4
  <1>8. CASE f[1] # {}
    <2>1. PICK r \in Seq(Bytes) : f[1] = {r} /\ InlineArgs(line) = Cat(<<>>, r)
      BY <1>6, <1>8 DEF Reads
    <2>2. Cat(<<>>, r) = r
      BY ConcatEmptySeq DEF Cat
    <2>3. Readings(line) = {r} /\ Readings(line) # {}
      BY <1>2, <2>1
    <2>4. Meant(line) \in {r}
      BY <2>3 DEF Meant
    <2> QED
      BY <2>1, <2>2, <2>4
  <1> QED
    BY <1>7, <1>8

\* What a line says: an opening quote at its end adds nothing to what is in front of it.
Said(line) == Meant(IF OpensAtEnd(line) THEN SubSeq(line, 1, Len(line) - 1) ELSE line)

\* The parser reads in a line what it says.
LEMMA SaidIsRead ==
  ASSUME NEW line \in Bytes
  PROVE  InlineArgs(line) = Said(line)
  <1>0. PICK size \in Nat : size = Len(line)
    BY DEF Bytes
  <1>1. CASE ~OpensAtEnd(line)
    BY <1>1, GrammarAgrees DEF Said
  <1>2. CASE OpensAtEnd(line)
    <2>1. /\ size # 0 /\ line[size].tag = "quote" /\ Readings(SubSeq(line, 1, size - 1)) # {}
          /\ size = 1 \/ line[size - 1] = Space
      <3>1. line # <<>> => size # 0
        BY <1>0 DEF Bytes
      <3> QED
        BY <1>0, <1>2, <3>1 DEF OpensAtEnd
    <2>2. PICK n \in Nat : n = size - 1 /\ n + 1 = size /\ n <= size /\ n \in 0..size /\ size \in 1..size
      BY <2>1
    <2>3. PICK part \in Bytes : part = SubSeq(line, 1, n) /\ Len(part) = n /\ \A k \in 1..n : part[k] = line[k]
      <3>1. /\ SubSeq(line, 1, n) \in Bytes
            /\ Len(SubSeq(line, 1, n)) = IF 1 <= n THEN n - 1 + 1 ELSE 0
            /\ \A k \in 1..(n - 1 + 1) : SubSeq(line, 1, n)[k] = line[1 + k - 1]
        BY <1>0, <2>2, PartIsBytes
      <3>2. (IF 1 <= n THEN n - 1 + 1 ELSE 0) = n /\ n - 1 + 1 = n /\ \A k \in 1..n : 1 + k - 1 = k
        BY <2>2
      <3> QED
        BY <3>1, <3>2
    <2>4. PICK state : StatesOf(state, line, size) /\ InlineState(line) = state[size]
      BY <1>0, InlineStateIs
    <2>5. PICK other : StatesOf(other, part, n) /\ InlineState(part) = other[n]
      <3>1. \E other : StatesOf(other, part, Len(part)) /\ InlineState(part) = other[Len(part)]
        BY <2>3, InlineStateIs
      <3> QED
        BY <2>3, <3>1
    <2>6. PICK g : ReadingsOf(g, part, 1) /\ Readings(part) = g[1] /\ g[1] # {}
      BY <2>1, <2>2, <2>3, ReadingsIs
    <2>7. Scanned(other, part, g)
      BY <2>3, <2>5, <2>6 DEF Scanned
    <2>8. other[n].mode \in {"word", "closed"}
      <3>1. AgreesFrom(other, part, g, 1)
        BY <2>7, ScanAgrees
      <3>2. other[0] = InlineStart
        BY <2>5 DEF StatesOf
      <3>3. other[1 - 1] = At("word", Space, <<>>, <<>>) /\ <<>> \in Seq(Bytes)
        BY <3>2, CatIs DEF InlineStart, At
      <3>4. Reads(other, part, g, 1, <<>>)
        BY <3>1, <3>3 DEF AgreesFrom
      <3> QED
        BY <2>3, <2>6, <3>4 DEF Reads
    <2>9. other[n].mode = "word" /\ other[n].word = <<>>
      <3>1. CASE n = 0
        BY <2>5, <3>1 DEF StatesOf, InlineStart
      <3>2. CASE n # 0
        <4>1. n \in 1..n /\ n - 1 \in 0..n /\ n <= Len(part) /\ n \in 1..Len(part)
          BY <2>3, <3>2
        <4>2. other[n] = InlineByte(other[n - 1], part[n]) /\ part[n] = Space
          <5>1. other[n] = InlineByte(other[n - 1], part[n])
            BY <2>5, <4>1, StateStep
          <5>2. part[n] = line[n]
            BY <2>3, <4>1
          <5>3. line[n] = Space
            BY <2>1, <2>2, <3>2
          <5> QED
            BY <5>1, <5>2, <5>3
        <4>3. IsAt(other[n - 1]) /\ part[n] \in AnyUnit
          BY <2>5, <4>1, StatesAre DEF Bytes
        <4> QED
          BY <2>8, <4>2, <4>3, ByteIs
      <3> QED
        BY <3>1, <3>2
    <2>10. other[n] = state[n]
      <3>1. n <= size /\ \A k \in 1..n : part[k] = line[k]
        BY <2>2, <2>3
      <3>2. StatesOf(state, line, size) /\ StatesOf(other, part, n)
        BY <2>4, <2>5
      <3> QED
        BY <3>1, <3>2, StatesAgree
    <2>11. IsAt(state[n])
      BY <1>0, <2>2, <2>4, StatesAre
    <2>12. PICK q, args : state[n] = At("word", q, <<>>, args)
      <3>1. PICK mode, q : \E word \in Bytes : \E args \in Seq(Bytes) : IsMode(mode, q, word) /\ state[n] = At(mode, q, word, args)
        BY <2>11 DEF IsAt
      <3>2. PICK word, args : state[n] = At(mode, q, word, args)
        BY <3>1
      <3>3. mode = "word" /\ word = <<>>
        BY <2>9, <2>10, <3>2 DEF At
      <3> QED
        BY <3>2, <3>3
    <2>13. state[size] = At("opened", line[size], <<>>, args)
      <3>1. state[size] = InlineByte(state[n], line[size])
        BY <2>2, <2>4, StateStep
      <3> QED
        BY <2>1, <2>12, <3>1, WordByte
    <2>14. InlineArgs(line) = args
      <3>1. PICK s : s = InlineState(line) /\ s.mode = "opened" /\ s.args = args
        BY <2>4, <2>13 DEF At
      <3> QED
        BY <3>1 DEF InlineArgs
    <2>15. InlineArgs(part) = args
      <3>1. PICK s : s = InlineState(part) /\ s.mode = "word" /\ s.word = <<>> /\ s.args = args
        BY <2>5, <2>10, <2>12 DEF At
      <3> QED
        BY <3>1 DEF InlineArgs, EndWord
    <2>16. Meant(part) = InlineArgs(part)
      <3>1. ~OpensAtEnd(part)
        BY <2>6 DEF OpensAtEnd
      <3> QED
        BY <3>1, GrammarAgrees
    <2>17. Said(line) = Meant(part)
      BY <1>0, <1>2, <2>2, <2>3 DEF Said
    <2> QED
      BY <2>14, <2>15, <2>16, <2>17
  <1> QED
    BY <1>1, <1>2

-----------------------------------------------------------------------------
(* The messages of the protocol                                            *)

\* No slice is longer than its length, an int, can say.
Texts == {text \in Bytes : Len(text) <= MaxInt}

\* What Writer encodes without elements.
Scalars ==
  {Null, NilBulk} \cup {Integer(n) : n \in MinInt..MaxInt}
  \cup {Simple(text) : text \in Texts} \cup {Error(text) : text \in Texts} \cup {Bulk(text) : text \in Texts}

\* What a person types: no line end within, no type byte at the front.
IsLine(text) ==
  /\ \A i \in 1..Len(text) : text[i] # CRLF
  /\ text # <<>> => text[1].tag \notin {"*", "+", "-", ":", "$"}

Lines == {text \in Texts : IsLine(text)}

\* And what is meant by it.
LineValue(text) ==
  LET args == Said(text) IN IF args = <<>> THEN NilArray ELSE ArrayOf([i \in DOMAIN args |-> Bulk(args[i])])

BasicMessages ==
  {Scalar(v) : v \in Scalars}
  \cup {Raw(<<Number(":", n), CRLF>>, Integer(Wrap(n))) : n \in Int}
  \cup {Raw(text \o <<CRLF>>, LineValue(text)) : text \in Lines}

\* And the arrays of them.
Deeper(M) == M \cup {Array(items) : items \in {s \in Seq(M) : Len(s) <= MaxInt}}

\* Messages nested up to a depth, and to any.
Nested[depth \in Nat] == IF depth = 0 THEN BasicMessages ELSE Deeper(Nested[depth - 1])

ProtocolMessages == UNION {Nested[depth] : depth \in Nat}

\* Every message is read as what it means.
Readable(M) == \A m \in M : ReadsAs(m.units, m.meaning)

\* An error of any length is read as one line.
LEMMA ErrorReads ==
  ASSUME NEW text \in Bytes
  PROVE  ReadsAs(Serialize(Error(text), <<>>), Meaning(Error(text)))
  <1>1. /\ Serialize(Error(text), <<>>) = TextLine(Bare("-"), StripNewlines(text))
        /\ Meaning(Error(text)) = Error(StripNewlines(text))
    BY DEF Serialize, Meaning, Error, Value, TextLine
  <1> QED
    BY <1>1, StrippedText, TextReads

\* A value without elements.
LEMMA ScalarReads ==
  ASSUME NEW v \in Scalars
  PROVE  ReadsAs(Scalar(v).units, Scalar(v).meaning)
  <1>1. Scalar(v).units = Serialize(v, <<>>) /\ Scalar(v).meaning = Meaning(v)
    BY DEF Scalar
  <1>2. CASE v \in {Null, NilBulk}
    <2>1. Serialize(v, <<>>) = <<Number("$", -1), CRLF>> /\ Meaning(v) = Null
      BY <1>2 DEF Serialize, Meaning, Null, NilBulk, Value
    <2> QED
      BY <1>1, <2>1, NullReads
  <1>3. CASE v \in {Integer(n) : n \in MinInt..MaxInt}
    <2>1. PICK n \in MinInt..MaxInt : v = Integer(n)
      BY <1>3
    <2>2. Serialize(v, <<>>) = <<Number(":", n), CRLF>> /\ Meaning(v) = Integer(n)
      BY <2>1 DEF Serialize, Meaning, Integer, Value
    <2>3. n \in Int /\ Wrap(n) = n
      BY WordIsKept, RespAssumption DEF MinInt
    <2> QED
      BY <1>1, <2>2, <2>3, IntegerReads
  <1>4. ASSUME NEW text \in Texts, v = Simple(text) PROVE ReadsAs(Serialize(v, <<>>), Meaning(v))
    <2>1. /\ Serialize(v, <<>>) = TextLine(Bare("+"), StripNewlines(text))
          /\ Meaning(v) = Simple(StripNewlines(text))
      BY <1>4 DEF Serialize, Meaning, Simple, Value, TextLine
    <2> QED
      BY <2>1, StrippedText, TextReads DEF Texts
  <1>5. ASSUME NEW text \in Texts, v = Error(text) PROVE ReadsAs(Serialize(v, <<>>), Meaning(v))
    BY <1>5, ErrorReads DEF Texts
  <1>6. ASSUME NEW text \in Texts, v = Bulk(text) PROVE ReadsAs(Serialize(v, <<>>), Meaning(v))
    <2>1. /\ Serialize(v, <<>>) = <<Number("$", Len(text)), CRLF>> \o text \o <<CRLF>>
          /\ Meaning(v) = Bulk(text)
      BY <1>6 DEF Serialize, Meaning, Bulk, Value
    <2> QED
      BY <2>1, BulkReads DEF Texts
  <1> QED
    BY <1>1, <1>2, <1>3, <1>4, <1>5, <1>6 DEF Scalars

\* The parser makes a command of it.
LEMMA LineValueIs ==
  ASSUME NEW text \in Bytes
  PROVE  LineValue(text) = InlineValue(text)
  BY SaidIsRead DEF LineValue, InlineValue

\* Every message without elements is read as it is meant.
LEMMA BasicReads == Readable(BasicMessages)
  <1>1. ASSUME NEW n \in Int, NEW m, m = Raw(<<Number(":", n), CRLF>>, Integer(Wrap(n)))
        PROVE  ReadsAs(m.units, m.meaning)
    <2>1. m.units = <<Number(":", n), CRLF>> /\ m.meaning = Integer(Wrap(n))
      BY <1>1 DEF Raw
    <2> QED
      BY <2>1, IntegerReads
  <1>2. ASSUME NEW text \in Lines, NEW m, m = Raw(text \o <<CRLF>>, LineValue(text))
        PROVE  ReadsAs(m.units, m.meaning)
    <2>1. m.units = text \o <<CRLF>> /\ m.meaning = LineValue(text)
      BY <1>2 DEF Raw
    <2>2. /\ text \in Bytes /\ \A i \in 1..Len(text) : text[i] # CRLF
          /\ text # <<>> => text[1].tag \notin {"*", "+", "-", ":", "$"}
      <3>1. text \in Texts /\ IsLine(text)
        BY DEF Lines
      <3> QED
        BY <3>1 DEF IsLine, Texts
    <2>3. ReadsAs(text \o <<CRLF>>, InlineValue(text))
      BY <2>2, InlineReads
    <2>4. LineValue(text) = InlineValue(text)
      BY <2>2, LineValueIs
    <2> QED
      BY <2>1, <2>3, <2>4
  <1> QED
    BY <1>1, <1>2, ScalarReads DEF Readable, BasicMessages

\* So are arrays of messages that are.
LEMMA DeeperReads ==
  ASSUME NEW M, Readable(M)
  PROVE  Readable(Deeper(M))
  <1>1. ASSUME NEW items \in Seq(M), Len(items) <= MaxInt
        PROVE  ReadsAs(Array(items).units, Array(items).meaning)
    BY <1>1, ArrayReads DEF Readable
  <1> QED
    BY <1>1 DEF Readable, Deeper

\* f is Nested up to a depth.
NestedTo(f, depth) == f = [d \in 0..depth |-> IF d = 0 THEN BasicMessages ELSE Deeper(f[d - 1])]

\* The recursion over the depth has a value at every depth.
LEMMA NestedToExists ==
  ASSUME NEW depth \in Nat
  PROVE  \E f : NestedTo(f, depth)
  <1> DEFINE S == {k \in Nat : \E f : NestedTo(f, k)}
  <1>1. 0 \in S
    <2>1. NestedTo([d \in 0..0 |-> BasicMessages], 0)
      BY DEF NestedTo
    <2> QED
      BY <2>1
  <1>2. ASSUME NEW k \in Nat, k \in S PROVE k + 1 \in S
    <2>1. PICK f : NestedTo(f, k)
      BY <1>2
    <2> DEFINE g == [d \in 0..(k + 1) |-> IF d = k + 1 THEN Deeper(f[k]) ELSE f[d]]
    <2>2. ASSUME NEW d \in 0..(k + 1)
          PROVE  g[d] = IF d = 0 THEN BasicMessages ELSE Deeper(g[d - 1])
      <3>1. CASE d = k + 1
        <4>1. g[d] = Deeper(f[k]) /\ d # 0 /\ d - 1 \in 0..(k + 1) /\ d - 1 = k
          BY <3>1
        <4>2. g[d - 1] = f[k]
          BY <4>1
        <4> HIDE DEF g
        <4> QED
          BY <4>1, <4>2
      <3>2. CASE d # k + 1
        <4>1. d \in 0..k /\ g[d] = f[d] /\ (d # 0 => g[d - 1] = f[d - 1])
          BY <3>2
        <4> HIDE DEF g
        <4>2. f[d] = IF d = 0 THEN BasicMessages ELSE Deeper(f[d - 1])
          BY <2>1, <4>1 DEF NestedTo
        <4> QED
          BY <4>1, <4>2
      <3> QED
        BY <3>1, <3>2
    <2>3. NestedTo(g, k + 1)
      <3>1. g = [d \in 0..(k + 1) |-> g[d]]
        OBVIOUS
      <3> HIDE DEF g
      <3> QED
        BY <2>2, <3>1 DEF NestedTo
    <2> QED
      BY <2>3
  <1> HIDE DEF S
  <1>3. depth \in S
    BY <1>1, <1>2, NatSetInduction
  <1> QED
    BY <1>3 DEF S

\* Any two agree, and are Nested.
LEMMA NestedToAgree ==
  ASSUME NEW m \in Nat, NEW n \in Nat, NEW f, NEW g, NestedTo(f, m), NestedTo(g, n)
  PROVE  \A d \in Nat : d <= m /\ d <= n => f[d] = g[d]
  <1> DEFINE S == {d \in Nat : d <= m /\ d <= n => f[d] = g[d]}
  <1>1. 0 \in S
    BY DEF NestedTo
  <1>2. ASSUME NEW d \in Nat, d \in S PROVE d + 1 \in S
    <2> SUFFICES ASSUME d + 1 <= m, d + 1 <= n PROVE f[d + 1] = g[d + 1]
      OBVIOUS
    <2>1. d + 1 \in 0..m /\ d + 1 \in 0..n /\ d + 1 # 0 /\ (d + 1) - 1 = d /\ f[d] = g[d]
      BY <1>2
    <2>2. f[d + 1] = Deeper(f[d]) /\ g[d + 1] = Deeper(g[d])
      BY <2>1 DEF NestedTo
    <2> QED
      BY <2>1, <2>2
  <1>3. Nat \subseteq S
    <2> HIDE DEF S
    <2> QED
      BY <1>1, <1>2, NatSetInduction
  <1> QED
    BY <1>3

\* What Nested is at each depth.
LEMMA NestedIs ==
  /\ Nested[0] = BasicMessages
  /\ \A d \in Nat \ {0} : Nested[d] = Deeper(Nested[d - 1])
  <1> DEFINE Chosen(n) == CHOOSE f : NestedTo(f, n)
             h == [n \in Nat |-> Chosen(n)[n]]
             IsNested(f) == f = [n \in Nat |-> IF n = 0 THEN BasicMessages ELSE Deeper(f[n - 1])]
  <1>1. ASSUME NEW n \in Nat PROVE NestedTo(Chosen(n), n)
    BY NestedToExists
  <1> HIDE DEF Chosen
  <1>2. ASSUME NEW n \in Nat PROVE h[n] = IF n = 0 THEN BasicMessages ELSE Deeper(h[n - 1])
    <2>1. h[n] = Chosen(n)[n] /\ n \in 0..n
      OBVIOUS
    <2>2. Chosen(n)[n] = IF n = 0 THEN BasicMessages ELSE Deeper(Chosen(n)[n - 1])
      BY <1>1, <2>1 DEF NestedTo
    <2>3. n # 0 => h[n - 1] = Chosen(n)[n - 1]
      <3> SUFFICES ASSUME n # 0 PROVE h[n - 1] = Chosen(n)[n - 1]
        OBVIOUS
      <3>1. n - 1 \in Nat /\ n - 1 <= n /\ n - 1 <= n - 1
        OBVIOUS
      <3>2. h[n - 1] = Chosen(n - 1)[n - 1]
        BY <3>1
      <3> QED
        BY <1>1, <3>1, <3>2, NestedToAgree
    <2> HIDE DEF h
    <2> QED
      BY <2>1, <2>2, <2>3
  <1>3. IsNested(h)
    <2>1. h = [n \in Nat |-> h[n]]
      OBVIOUS
    <2> HIDE DEF h
    <2> QED
      BY <1>2, <2>1
  <1>4. Nested = CHOOSE f : IsNested(f)
    BY DEF Nested
  <1> HIDE DEF h
  <1>5. IsNested(Nested)
    <2> HIDE DEF IsNested
    <2> QED
      BY <1>3, <1>4
  <1> QED
    BY <1>5

\* Messages of any depth are read as what they mean.
LEMMA ProtocolMessagesRead == Readable(ProtocolMessages)
  <1> DEFINE S == {d \in Nat : Readable(Nested[d])}
  <1>1. 0 \in S
    BY NestedIs, BasicReads
  <1>2. ASSUME NEW d \in Nat, d \in S PROVE d + 1 \in S
    <2>1. d + 1 \in Nat \ {0} /\ (d + 1) - 1 = d
      OBVIOUS
    <2>2. Nested[d + 1] = Deeper(Nested[d])
      BY <2>1, NestedIs
    <2> QED
      BY <1>2, <2>1, <2>2, DeeperReads
  <1> HIDE DEF S
  <1>3. Nat \subseteq S
    BY <1>1, <1>2, NatSetInduction
  <1> QED
    BY <1>3 DEF S, ProtocolMessages, Readable
=============================================================================
