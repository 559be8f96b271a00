------------------------------ MODULE InlineGrammar ------------------------------
(***************************************************************************)
(* The inline ("telnet") commands that the parsers accept, as a grammar: a  *)
(* line is a sequence of arguments with spaces between them, an argument is *)
(* a bare word or anything between two quotes of one kind, in which a       *)
(* backslash makes any byte stand for itself or for a control character.    *)
(* Written without regard to how the parsers scan a line.                   *)
(***************************************************************************)
EXTENDS Resp

\* What may be meant by s from i on, between two quotes q: nothing or one byte string.
QuotedFrom(from, q, s, i) ==
  CASE i = Len(s) + 1 -> {<<>>}
    [] i <= Len(s) /\ s[i] = Backslash ->
         IF i = Len(s) THEN {} ELSE {<<Unescaped(s[i + 1])>> \o rest : rest \in from[i + 2]}
    [] i <= Len(s) /\ s[i] = q -> {}
    [] OTHER -> {<<s[i]>> \o rest : rest \in from[i + 1]}

Quoted(q, s) ==
  LET from[i \in 1..(Len(s) + 1)] == QuotedFrom(from, q, s, i) IN from[1]

IsBare(s) == s # <<>> /\ \A i \in DOMAIN s : s[i] # Space /\ s[i].tag # "quote"

Argument(s) ==
  IF IsBare(s) THEN {s}
  ELSE IF Len(s) >= 2 /\ s[1].tag = "quote" /\ s[Len(s)] = s[1]
       THEN Quoted(s[1], SubSeq(s, 2, Len(s) - 1)) ELSE {}

\* Where an argument that begins at i can end.
Ends(line, i) == {n \in i..Len(line) : n = Len(line) \/ line[n + 1] = Space}

\* One of the arguments, and one of the rests behind it.
Followed(args, rests) == {<<arg>> \o rest : arg \in args, rest \in rests}

\* The ways to read a line as arguments, from i on.
ReadingsFrom(from, line, i) ==
  (IF i = Len(line) + 1 THEN {<<>>} ELSE IF line[i] = Space THEN from[i + 1] ELSE {})
    \cup UNION {Followed(Argument(SubSeq(line, i, n)), from[n + 1]) : n \in Ends(line, i)}

Readings(line) ==
  LET from[i \in 1..(Len(line) + 1)] == ReadingsFrom(from, line, i) IN from[1]

\* A line that has no reading is a command without arguments.
Meant(line) == IF Readings(line) = {} THEN <<>> ELSE CHOOSE args \in Readings(line) : TRUE

\* The one kind of line on which the parsers differ from the grammar: its last
\* byte opens a quote.
OpensAtEnd(line) ==
  /\ line # <<>> /\ line[Len(line)].tag = "quote"
  /\ Readings(line) = {} /\ Readings(SubSeq(line, 1, Len(line) - 1)) # {}
  /\ Len(line) = 1 \/ line[Len(line) - 1] = Space
=============================================================================
