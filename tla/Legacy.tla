--------------------------------- MODULE Legacy ---------------------------------
(***************************************************************************)
(* internal/resp: the Writer and the Parser of the older package, one at    *)
(* each end of a connection.  A program appends values to its Writer and    *)
(* flushes it, or a person types lines; the network hands the bytes over in *)
(* pieces; a caller keeps them in its own buffer, gives the rest that it    *)
(* has not used yet to the Parser and asks for commands until one is        *)
(* incomplete.  Positions in a buffer count from 1.                         *)
(***************************************************************************)
EXTENDS InlineGrammar

CONSTANTS
  Scripts,  \* what the peer does: sequences of messages, see Append and Typed
  OwnMark   \* the caller resumes where the last whole command ended; if FALSE, at Position()

ASSUME LegacyAssumption == OwnMark \in BOOLEAN

-----------------------------------------------------------------------------
(* Writer.  A Go value is [kind, data], where the data of a slice or a map    *)
(* are how many items it has; those of a map are its keys and values in turn. *)

Go(kind, data) == [kind |-> kind, data |-> data]

AppendPrefix(t, n) == <<Number(t, n), CRLF>>
AppendBulk(data)   == AppendPrefix("$", Len(data)) \o data \o <<CRLF>>

\* Slip: line ends stay in the text.
AppendLineRaw(t, s) == <<Bare(t)>> \o s \o <<CRLF>>

AppendLine(t, s) == <<Bare(t)>> \o StripNewlines(s) \o <<CRLF>>

AppendNull       == AppendPrefix("$", -1)

Decimal(n) == IF n < 0 THEN <<Minus, Digits(-n)>> ELSE <<Digits(n)>>

ERR == <<Upper(4), Upper(5), Upper(5)>>

\* strings.TrimSpace
Trim(s) ==
  LET solid == {i \in DOMAIN s : s[i] \notin {Space, CRLF}}
  IN IF solid = {} THEN <<>> ELSE SubSeq(s, Min(solid), Max(solid))

\* The first word, up to a space, is made of capitals only.
IsErrorType(s) ==
  LET spaces == {i \in DOMAIN s : s[i] = Space}
      first  == IF spaces = {} THEN s ELSE SubSeq(s, 1, Min(spaces) - 1)
  IN first # <<>> /\ \A i \in DOMAIN first : first[i].tag = "upper"

PrefixERRIfNeeded(s) ==
  IF IsErrorType(Trim(s)) THEN Trim(s) ELSE Trim(ERR \o <<Space>> \o Trim(s))

\* appendAny.  items: what it appends for the items of a slice or a map, in turn.
AppendAny(v, items) ==
  CASE v.kind = "simple string"     -> AppendLine("+", v.data)
    [] v.kind = "simple int"        -> AppendPrefix(":", v.data)
    [] v.kind = "simple error"      -> AppendLine("-", v.data)
    [] v.kind \in {"nil", "nil bytes"} -> AppendNull
    [] v.kind = "error"             -> AppendLine("-", PrefixERRIfNeeded(v.data))
    [] v.kind = "number"            -> AppendBulk(Decimal(v.data))
    [] v.kind \in {"slice", "map"}  -> AppendPrefix("*", v.data) \o FlattenSeq(items)
    [] OTHER                        -> AppendBulk(v.data)

-----------------------------------------------------------------------------
(* Parser                                                                  *)

NoResult(pos) == [complete |-> FALSE, type |-> "none", raw |-> <<>>, args |-> <<>>, pos |-> pos]

Result(type, raw, args, pos) ==
  [complete |-> TRUE, type |-> type, raw |-> raw, args |-> args, pos |-> pos]

\* Slip: one unit behind the bulk string is waited for.
WholeBulkLate(buf, pos) ==
  /\ pos <= Len(buf) /\ buf[pos].tag = "$"
  /\ LET end  == FindCRLF(buf, pos)
         last == end + Wrap(buf[pos].n)
     IN end # 0 /\ IsNumber(pos, end) /\ Wrap(buf[pos].n) >= 0 /\ last + 2 <= Len(buf)

\* A bulk string with its line end, of a length that is not negative.
WholeBulk(buf, pos) ==
  /\ pos <= Len(buf) /\ buf[pos].tag = "$"
  /\ LET end  == FindCRLF(buf, pos)
         last == end + Wrap(buf[pos].n)
     IN /\ end # 0 /\ IsNumber(pos, end) /\ Wrap(buf[pos].n) >= 0
        /\ last + 1 <= Len(buf) /\ buf[last + 1] = CRLF

BulkData(buf, pos) == SubSeq(buf, pos + 2, pos + 1 + Wrap(buf[pos].n))
BulkEnd(buf, pos)  == pos + 3 + Wrap(buf[pos].n)

\* The state of the loop: p.pos stays where the first bad element begins.
NextElement(buf, s) ==
  IF s.ok /\ WholeBulk(buf, s.pos)
  THEN [ok |-> TRUE, pos |-> BulkEnd(buf, s.pos), args |-> Append(s.args, BulkData(buf, s.pos))]
  ELSE [s EXCEPT !.ok = FALSE]

ParseElements(buf, pos, count) ==
  LET state[i \in 0..count] ==
        IF i = 0 THEN [ok |-> TRUE, pos |-> pos, args |-> <<>>] ELSE NextElement(buf, state[i - 1])
  IN state[count]

ParseCommandArray(buf, pos) ==
  LET end   == FindCRLF(buf, pos)
      count == Wrap(buf[pos].n)
  IN IF end = 0 \/ ~IsNumber(pos, end) \/ count < 0 THEN NoResult(pos)
     ELSE LET s == ParseElements(buf, end + 1, count)
          IN IF s.ok THEN Result("array", SubSeq(buf, pos, s.pos - 1), s.args, s.pos)
             ELSE NoResult(s.pos)

\* +, - and :, whose line is taken as it is.
ParseLine(buf, pos, type) ==
  LET end  == FindCRLF(buf, pos)
      text == (IF type = "integer" THEN Decimal(buf[pos].n) ELSE <<>>) \o SubSeq(buf, pos + 1, end - 1)
  IN IF end = 0 THEN NoResult(pos) ELSE Result(type, SubSeq(buf, pos, end), <<text>>, end + 1)

ParseBulkString(buf, pos) ==
  LET end == FindCRLF(buf, pos) IN
  CASE end # 0 /\ IsNumber(pos, end) /\ Wrap(buf[pos].n) = -1 ->
         Result("bulk", SubSeq(buf, pos, end), <<>>, end + 1)
    [] WholeBulk(buf, pos) ->
         Result("bulk", SubSeq(buf, pos, BulkEnd(buf, pos) - 1), <<BulkData(buf, pos)>>, BulkEnd(buf, pos))
    [] OTHER -> NoResult(pos)

\* Raw is meant to begin where the line does and begins where the buffer does.
ParseInlineCommand(buf, pos) ==
  LET end  == FindCRLF(buf, pos)
      args == InlineArgs(SubSeq(buf, pos, end - 1))
  IN IF end = 0 THEN NoResult(pos)
     ELSE IF args = <<>> THEN Result("none", <<>>, <<>>, end + 1)
     ELSE Result("array", SubSeq(buf, 1, end), args, end + 1)

ParseNextCommand(buf, pos) ==
  IF pos > Len(buf) THEN NoResult(pos)
  ELSE CASE buf[pos].tag = "*" -> ParseCommandArray(buf, pos)
         [] buf[pos].tag = "+" -> ParseLine(buf, pos, "simple")
         [] buf[pos].tag = "-" -> ParseLine(buf, pos, "error")
         [] buf[pos].tag = ":" -> ParseLine(buf, pos, "integer")
         [] buf[pos].tag = "$" -> ParseBulkString(buf, pos)
         [] OTHER              -> ParseInlineCommand(buf, pos)

-----------------------------------------------------------------------------
(* Messages: a value for AppendAny, or a line that is typed; values is what   *)
(* the documentation of AppendAny lets a reader of the bytes find.           *)

\* A text of an error begins with a word of capitals: its own or else ERR.
ErrorTexts(data) ==
  LET own  == Trim(data)
      text == IF IsErrorType(own) THEN StripNewlines(own)
              ELSE IF own = <<>> THEN ERR ELSE ERR \o <<Space>> \o StripNewlines(own)
  IN {s \in {text} : IsErrorType(s)}

Values(v) ==
  CASE v.kind = "simple string"     -> {Simple(StripNewlines(v.data))}
    [] v.kind = "simple int"        -> {Integer(v.data)}
    [] v.kind = "simple error"      -> {Error(StripNewlines(v.data))}
    [] v.kind = "error"             -> {Error(s) : s \in ErrorTexts(v.data)}
    [] v.kind \in {"nil", "nil bytes"} -> {Null}
    [] v.kind = "number"            -> {Bulk(Decimal(v.data))}
    [] OTHER                        -> {Bulk(v.data)}

ArraysOf(sets) == {ArrayOf(s) : s \in {t \in [DOMAIN sets -> UNION Range(sets)] : \A i \in DOMAIN sets : t[i] \in sets[i]}}

Encode(v) == [typed |-> FALSE, units |-> AppendAny(v, <<>>), values |-> Values(v)]

\* A slice or a map of the values of other messages.
EncodeAll(kind, items) ==
  [typed  |-> FALSE,
   units  |-> AppendAny(Go(kind, Len(items)), [i \in DOMAIN items |-> items[i].units]),
   values |-> ArraysOf([i \in DOMAIN items |-> items[i].values])]

Typed(line) == [typed |-> TRUE, units |-> Append(line, CRLF), values |-> {}]

-----------------------------------------------------------------------------
(* The connection                                                          *)

VARIABLES
  script,   \* what the peer does in this behaviour
  done,     \* how much of it is done
  out,      \* w.buf
  wire,     \* bytes on their way
  broken,   \* the peer's connection has failed
  buf,      \* the caller's buffer, which p.buf is a view of
  pos,      \* p.pos
  mark,     \* the end of the last whole command in buf, which the caller noted
  parsing,  \* the caller is asking for commands, not reading
  results   \* history: the results that were complete

vars == <<script, done, out, wire, broken, buf, pos, mark, parsing, results>>

Writers == <<script, done, out, broken>>
Readers == <<buf, pos, mark, parsing, results>>

Init ==
  /\ script \in Scripts /\ done = 0
  /\ out = <<>> /\ wire = <<>> /\ broken = FALSE
  /\ buf = <<>> /\ pos = 1 /\ mark = 1 /\ parsing = FALSE /\ results = <<>>

Peer ==
  /\ done < Len(script) /\ ~broken
  /\ done' = done + 1
  /\ LET m == script[done + 1] IN
       \/ ~m.typed /\ out' = out \o m.units /\ UNCHANGED wire
       \/ m.typed /\ out = <<>> /\ wire' = wire \o m.units /\ UNCHANGED out
  /\ UNCHANGED <<script, broken, Readers>>

\* Slip: the buffer is not cleared.
FlushOkKeeps ==
  /\ out # <<>> /\ ~broken
  /\ wire' = wire \o out
  /\ UNCHANGED <<script, done, out, broken, Readers>>

FlushOk ==
  /\ out # <<>> /\ ~broken
  /\ wire' = wire \o out /\ out' = <<>>
  /\ UNCHANGED <<script, done, broken, Readers>>

\* conn.Write fails after some of the bytes; the buffer is cleared all the same.
FlushFails ==
  /\ out # <<>> /\ ~broken
  /\ \E n \in 0..(Len(out) - 1) : wire' = wire \o SubSeq(out, 1, n)
  /\ out' = <<>> /\ broken' = TRUE
  /\ UNCHANGED <<script, done, Readers>>

\* The caller reads some bytes and resets the parser to what it has not used.
Receive ==
  /\ ~parsing /\ wire # <<>>
  /\ \E n \in 1..Len(wire) :
       /\ buf' = SubSeq(buf, IF OwnMark THEN mark ELSE pos, Len(buf)) \o SubSeq(wire, 1, n)
       /\ wire' = SubSeq(wire, n + 1, Len(wire))
  /\ pos' = 1 /\ mark' = 1 /\ parsing' = TRUE
  /\ UNCHANGED <<Writers, results>>

Ask ==
  LET r == ParseNextCommand(buf, pos) IN
  /\ parsing
  /\ pos' = r.pos
  /\ IF r.complete
     THEN results' = Append(results, r) /\ mark' = r.pos /\ UNCHANGED parsing
     ELSE parsing' = FALSE /\ UNCHANGED <<results, mark>>
  /\ UNCHANGED <<Writers, wire, buf>>

\* Nothing is left to do and the caller waits.
Quiescent ==
  /\ (done = Len(script) /\ out = <<>>) \/ broken
  /\ wire = <<>> /\ ~parsing
  /\ UNCHANGED vars

Next == Peer \/ FlushOk \/ FlushFails \/ Receive \/ Ask \/ Quiescent

Spec == Init /\ [][Next]_vars

-----------------------------------------------------------------------------
(* Properties                                                              *)

\* AppendAny writes exactly one value, the documented one, whatever the text of
\* an error holds and however deep slices and maps are nested: what lies in
\* w.buf is read back as one value for each call, by the parser of the other
\* package, which knows all of RESP.
WritesOneValueEach ==
  \A i \in 1..done : ~script[i].typed =>
    LET first == ParseOne(script[i].units) IN
    first.ok /\ first.pos = Len(script[i].units) + 1 /\ first.value \in script[i].values

\* A complete result says what the parser of internal/protocol says of the same
\* bytes; a typed line has the arguments that the grammar gives it.
ExpectedArgs(m) ==
  IF m.typed THEN Meant(SubSeq(m.units, 1, Len(m.units) - 1))
  ELSE LET value == ParseOne(m.units).value IN
       CASE value.type = "array"   -> [i \in DOMAIN value.array |-> value.array[i].data]
         [] value.type = "null"    -> <<>>
         [] value.type = "integer" -> <<Decimal(value.int)>>
         [] OTHER                  -> <<value.data>>

\* The bytes of a result end where its command ends; they are the command,
\* unless that was typed.
RawIsTheCommand(r, m) ==
  IF m.typed THEN SubSeq(r.raw, Len(r.raw) - Len(m.units) + 1, Len(r.raw)) = m.units
  ELSE r.raw = m.units

\* However the network cuts the stream, and also when a command is given to the
\* parser a second and a third time after it was incomplete, the caller gets each
\* command that was sent, once, in order, with its arguments and its bytes.
ReturnsWhatWasSent ==
  \A i \in DOMAIN results :
    /\ results[i].args = ExpectedArgs(script[i])
    /\ results[i].type # "none" => RawIsTheCommand(results[i], script[i])

\* No byte is lost or kept: what the caller has not used, what is under way and
\* what is in the writer are the messages that were not returned yet, or the first
\* of their bytes when a flush has failed.
NothingLostNothingKept ==
  LET rest    == SubSeq(buf, mark, Len(buf)) \o wire \o out
      pending == FlattenSeq([i \in 1..(done - Len(results)) |-> script[Len(results) + i].units])
  IN IF broken THEN IsPrefix(rest, pending) ELSE rest = pending

\* What the parser is for: lines, single values, and arrays of bulk strings.
IsCommand(m) ==
  m.typed \/ LET value == ParseOne(m.units).value
              IN \A i \in DOMAIN value.array : value.array[i].type = "bulk"

\* A result is not held back: the caller reads on only when its buffer ends
\* inside a command.
WaitsOnlyForTheRest ==
  ~parsing /\ Len(results) < done /\ IsCommand(script[Len(results) + 1]) =>
    Len(buf) - mark + 1 < Len(script[Len(results) + 1].units)

-----------------------------------------------------------------------------
(* What a comment says and the code does not do                            *)

\* Raw is a "View of original line".
RawIsTheLine ==
  \A i \in DOMAIN results : results[i].type # "none" => results[i].raw = script[i].units
=============================================================================
