------------------------------ MODULE MCCommands ------------------------------
(* Instances of Commands for TLC, and of the Reader it contains.           *)
EXTENDS Commands

CONSTANT w1

x == Text(4)
y == Text(5)

ping == <<Text(6)>>
PING == <<Upper(6)>>
echo == <<Text(7)>>
get  == <<Text(8)>>
GET  == <<Upper(8)>>

RECURSIVE Encoded(_)

\* What Writer makes of a value.
Encoded(v) ==
  IF v.type = "array" THEN Array([i \in DOMAIN v.array |-> Encoded(v.array[i])]) ELSE Scalar(v)

\* One value of every kind, payloads that look like protocol, the extreme
\* integers, an empty and a nested array.
SomeValues ==
  {Null, Integer(MinInt), Error(<<x, y>>), Bulk(<<x, CRLF, Number("*", 2)>>), ArrayOf(<<>>),
   ArrayOf(<<Integer(-1), Bulk(ping)>>), ArrayOf(<<ArrayOf(<<Bulk(<<y>>), Null>>), Simple(<<>>)>>)}

\* The built-in commands with none, one and two arguments, a command that is
\* registered late, and unknown names, one with a line end in it.
SomeRequests ==
  {ArrayOf(<<Bulk(PING)>>), ArrayOf(<<Simple(ping), Bulk(<<CRLF>>)>>),
   ArrayOf(<<Bulk(ping), Bulk(<<>>), Bulk(<<x>>)>>), ArrayOf(<<Bulk(echo)>>),
   ArrayOf(<<Bulk(echo), Null>>), ArrayOf(<<Bulk(echo), Integer(MaxInt)>>),
   ArrayOf(<<Bulk(get)>>), ArrayOf(<<Bulk(<<x, CRLF, y>>)>>)}

SomeLines ==
  {Raw(ping \o <<Space, Quote(2), x, Space, Quote(2), CRLF>>, ArrayOf(<<Bulk(ping), Bulk(<<x, Space>>)>>)),
   Raw(<<CRLF>>, NilArray),
   Raw(<<x, Quote(1), CRLF>>, NilArray),
   Raw(<<Number(":", MaxInt + 1), CRLF>>, Integer(MinInt))}

WellFormed == {Encoded(v) : v \in SomeValues \cup SomeRequests} \cup SomeLines

\* While it serves, the program registers a command, written in capitals, sets
\* the handler of unknown names, and replaces ECHO by something that refuses.
LateSetup ==
  <<Call("register", GET, Factory("func", 1)),
    Call("notFound", <<>>, Factory("func", 2)),
    Call("register", echo, Factory("refuse", 0))>>

TheNames     == {ping, echo, GET}
TheFactories == {Factory("ping", 0), Factory("echo", 0), Factory("refuse", 0)} \cup {Factory("func", n) : n \in 1..2}

FewWellFormed ==
  {Encoded(Bulk(<<CRLF>>)), Encoded(ArrayOf(<<Bulk(<<x>>), Integer(-1)>>)), Raw(<<CRLF>>, NilArray)}

\* A request for the late command.
WithGet == {Encoded(ArrayOf(<<Bulk(get)>>))}

\* The null array, a number line with a letter in it, and the least integer as an
\* argument.
WithExceptions ==
  FewWellFormed \cup
  {Encoded(NilArray), Raw(<<Number(":", 1), x, CRLF>>, Null), Encoded(ArrayOf(<<Bulk(<<x>>), Integer(MinInt)>>))}
=============================================================================
