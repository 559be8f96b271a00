------------------------------ MODULE MCLegacy ------------------------------
(* Instances of Legacy for TLC.                                            *)
EXTENDS Legacy

x == Text(4)
A == Upper(6)

One(kind, data) == Encode(Go(kind, data))
Word(data)      == One("string", data)

\* What a client may send as a command, and the single values the parser knows.
Commands ==
  {EncodeAll("slice", <<Word(<<x>>), Word(<<CRLF, Number("$", 1)>>), Word(<<>>)>>),
   EncodeAll("slice", <<>>),
   Word(<<x, CRLF>>), One("nil bytes", <<>>), One("simple int", -2),
   One("simple string", <<x, CRLF, x>>), One("error", <<Space, x>>)}

\* Values for AppendAny that only a reader of all of RESP understands, and
\* errors of every shape.
OtherValues ==
  {EncodeAll("slice", <<One("nil", <<>>), One("simple int", MaxInt), One("bool", <<Digits(1)>>)>>),
   EncodeAll("map", <<Word(<<x>>), EncodeAll("slice", <<One("number", -5)>>)>>),
   One("error", <<>>), One("error", <<A, Space, x>>), One("error", <<A, CRLF, x>>),
   One("error", <<CRLF>>), One("error", <<CRLF, A, A>>), One("simple error", <<x, CRLF>>)}

Lines(n) == UNION {[1..k -> {Space, Quote(1), Quote(2), Backslash, Text(1), x}] : k \in 0..n}

ALine == Typed(<<x, Space, Quote(1), x, Quote(1)>>)

\* Every line of up to five bytes, every value by itself, and three messages of
\* different kinds one behind the other.
AllScripts ==
  {<<Typed(l)>> : l \in {k \in Lines(5) : ~OpensAtEnd(k)}}
    \cup {<<v, w>> : v \in Commands, w \in OtherValues}
    \cup [1..3 -> (Commands \cup {ALine})]

\* A line behind another command.
SecondLine == {<<v, ALine>> : v \in Commands}

\* Lines that end with an opening quote.
OpeningAtEnd == {<<Typed(l)>> : l \in {k \in Lines(3) : OpensAtEnd(k)}}

FewScripts == [1..2 -> Commands]
=============================================================================
