---------------------------------- MODULE Resp ----------------------------------
(***************************************************************************)
(* internal/protocol: RespValue (types.go), the incremental parser          *)
(* (parser.go) and the encoder (writer.go), as operators on sequences of    *)
(* units.                                                                   *)
(***************************************************************************)
EXTENDS Integers, Units, FiniteSets, SequencesExt

CONSTANT MaxInt   \* of int and int64

ASSUME RespAssumption == MaxInt \in Nat

\* Two's complement: what n*10+digit and n *= -1 leave in a word.
Wrap(n) == ((n + (MaxInt + 1)) % (2 * MaxInt + 2)) - (MaxInt + 1)

MinInt == -MaxInt - 1

\* The letters n, r and t, and what they stand for behind a backslash.
ControlLetters == 1..3
Unescaped(u) == IF u \in {Text(n) : n \in ControlLetters} THEN Unit("control", u.n) ELSE u

Value(type, int, data, array) == [type |-> type, int |-> int, data |-> data, array |-> array]

Null         == Value("null", 0, <<>>, <<>>)
Integer(n)   == Value("integer", n, <<>>, <<>>)
Simple(s)    == Value("simple", 0, s, <<>>)
Error(s)     == Value("error", 0, s, <<>>)
Bulk(s)      == Value("bulk", 0, s, <<>>)
NilBulk      == Value("nilBulk", 0, <<>>, <<>>)   \* Bulk == nil
ArrayOf(s)   == Value("array", 0, <<>>, s)
NilArray     == Value("nilArray", 0, <<>>, <<>>)  \* Array == nil

-----------------------------------------------------------------------------
(* Parser                                                                  *)

Incomplete       == [ok |-> FALSE, value |-> Null, pos |-> 0]
Parsed(v, pos)   == [ok |-> TRUE, value |-> v, pos |-> pos]

\* Slip: the line end is only seen with another byte behind it.
FindCRLFLate(buf, pos) ==
  LET ends == {i \in pos..(Len(buf) - 1) : buf[i] = CRLF} IN
  IF ends = {} THEN 0 ELSE CHOOSE i \in ends : \A j \in ends : i <= j

\* findCRLF: the first line end at or after pos, 0 if there is none.
FindCRLF(buf, pos) ==
  LET ends == {i \in pos..Len(buf) : buf[i] = CRLF} IN
  IF ends = {} THEN 0 ELSE CHOOSE i \in ends : \A j \in ends : i <= j

\* parseIntBuf and parseInt64 accept a line that is a number and nothing else.
IsNumber(pos, end) == end = pos + 1

\* Slip: the CRLF behind the data is not passed over.
ParseBulkShort(buf, pos, end) ==
  LET length == Wrap(buf[pos].n)
      last   == end + length
  IN IF ~IsNumber(pos, end) THEN Incomplete
     ELSE CASE length = -1 -> Parsed(Null, end + 1)
            [] length < -1 -> Incomplete
            [] length >= 0 /\ (Len(buf) < last + 1 \/ buf[last + 1] # CRLF) -> Incomplete
            [] OTHER -> Parsed(Bulk(SubSeq(buf, end + 1, last)), last + 1)

ParseBulk(buf, pos, end) ==
  LET length == Wrap(buf[pos].n)
      last   == end + length
  IN IF ~IsNumber(pos, end) THEN Incomplete
     ELSE CASE length = -1 -> Parsed(Null, end + 1)
            [] length < -1 -> Incomplete
            [] length >= 0 /\ (Len(buf) < last + 1 \/ buf[last + 1] # CRLF) -> Incomplete
            [] OTHER -> Parsed(Bulk(SubSeq(buf, end + 1, last)), last + 2)

ParseInt(buf, pos, end) ==
  IF IsNumber(pos, end) THEN Parsed(Integer(Wrap(buf[pos].n)), end + 1) ELSE Incomplete

\* parseInlineArgs, one byte of the line after the other.  Outside quotes the
\* mode is "word", behind an opening quote "opened" and then "quoted", behind a
\* closing quote "closed"; "bad" is return nil.
InlineStart == [mode |-> "word", quote |-> Space, word |-> <<>>, args |-> <<>>]

EndWord(s) == IF s.word = <<>> THEN s.args ELSE Append(s.args, s.word)

InlineByte(s, u) ==
  CASE s.mode = "bad" -> s
    [] s.mode = "closed" -> [s EXCEPT !.mode = IF u = Space THEN "word" ELSE "bad"]
    [] s.mode = "escaped" -> [s EXCEPT !.mode = "quoted", !.word = Append(@, Unescaped(u))]
    [] s.mode \in {"opened", "quoted"} /\ u = s.quote ->
         [s EXCEPT !.mode = "closed", !.word = <<>>, !.args = Append(@, s.word)]
    [] s.mode \in {"opened", "quoted"} /\ u = Backslash -> [s EXCEPT !.mode = "escaped"]
    [] s.mode = "opened" /\ u \notin {s.quote, Backslash} -> [s EXCEPT !.mode = "quoted", !.word = Append(@, u)]
    [] s.mode = "word" /\ u = Space -> [s EXCEPT !.word = <<>>, !.args = EndWord(s)]
    [] s.mode = "word" /\ u.tag = "quote" ->
         IF s.word = <<>> THEN [s EXCEPT !.mode = "opened", !.quote = u] ELSE [s EXCEPT !.mode = "bad"]
    [] OTHER -> [s EXCEPT !.word = Append(@, u)]

InlineState(line) ==
  LET state[i \in 0..Len(line)] ==
        IF i = 0 THEN InlineStart ELSE InlineByte(state[i - 1], line[i])
  IN state[Len(line)]

\* Slip: what stands behind a quote that is never closed is an argument.
InlineArgsUnclosed(line) ==
  LET s == InlineState(line) IN
  IF s.mode \in {"bad", "opened"} THEN <<>> ELSE EndWord(s)

\* A line that ends inside quotes has no arguments, unless its last byte is the
\* opening quote: the loop over the rest is not entered again.
InlineArgs(line) ==
  LET s == InlineState(line) IN
  CASE s.mode = "word"                 -> EndWord(s)
    [] s.mode \in {"closed", "opened"} -> s.args
    [] OTHER                           -> <<>>

InlineValue(line) ==
  LET args == InlineArgs(line)
  IN IF args = <<>> THEN NilArray ELSE ArrayOf([i \in DOMAIN args |-> Bulk(args[i])])

ParseInline(buf, pos, end) == Parsed(InlineValue(SubSeq(buf, pos, end - 1)), end + 1)

\* One turn of parseArray's loop; next is parseNext as a function of the position.
NextItem(next, items) ==
  LET item == next[items.pos] IN
  IF items.ok /\ item.ok
  THEN Parsed(ArrayOf(Append(items.value.array, item.value)), item.pos)
  ELSE Incomplete

\* The elements of an array that starts at pos, or nothing of it.
ParseItems(next, pos, count) ==
  LET items[i \in 0..count] ==
        IF i = 0 THEN Parsed(ArrayOf(<<>>), pos) ELSE NextItem(next, items[i - 1])
  IN items[count]

\* A negative count is refused before the test for -1 is reached.
ParseArray(next, buf, pos, end) ==
  IF IsNumber(pos, end) /\ Wrap(buf[pos].n) >= 0
  THEN ParseItems(next, end + 1, Wrap(buf[pos].n))
  ELSE Incomplete

ParseValue(next, buf, pos) ==
  LET end == FindCRLF(buf, pos) IN
  IF end = 0 THEN Incomplete
  ELSE CASE buf[pos].tag = "*" -> ParseArray(next, buf, pos, end)
         [] buf[pos].tag = "+" -> Parsed(Simple(SubSeq(buf, pos + 1, end - 1)), end + 1)
         [] buf[pos].tag = "-" -> Parsed(Error(SubSeq(buf, pos + 1, end - 1)), end + 1)
         [] buf[pos].tag = ":" -> ParseInt(buf, pos, end)
         [] buf[pos].tag = "$" -> ParseBulk(buf, pos, end)
         [] OTHER              -> ParseInline(buf, pos, end)

ParseNext(buf, pos) ==
  LET next[p \in 1..(Len(buf) + 1)] == ParseValue(next, buf, p) IN next[pos]

ParseOne(buf) == ParseNext(buf, 1)

-----------------------------------------------------------------------------
(* Writer                                                                  *)

\* Slip: a line end stays in the text.
StripNewlinesNot(s) == s

StripNewlines(s) == [i \in DOMAIN s |-> IF s[i] = CRLF THEN Text(0) ELSE s[i]]

\* appendValue.  items: what it appends for the elements of an array, in turn.
Serialize(v, items) ==
  CASE v.type = "simple"    -> <<Bare("+")>> \o StripNewlines(v.data) \o <<CRLF>>
    [] v.type = "error"     -> <<Bare("-")>> \o StripNewlines(v.data) \o <<CRLF>>
    [] v.type = "integer"   -> <<Number(":", v.int), CRLF>>
    [] v.type = "bulk"      -> <<Number("$", Len(v.data)), CRLF>> \o v.data \o <<CRLF>>
    [] v.type = "array"     -> <<Number("*", Len(v.array)), CRLF>> \o FlattenSeq(items)
    [] v.type = "nilArray"  -> <<Number("*", -1), CRLF>>
    [] OTHER                -> <<Number("$", -1), CRLF>>

-----------------------------------------------------------------------------
(* The name and the arguments of a request                                 *)

Digits(n) == Unit("digits", n)
Minus     == Unit("minus", 0)

\* int64ToBytes: n = -n, then digits while n > 0.
Int64ToBytes(n) ==
  LET magnitude == IF n < 0 THEN Wrap(-n) ELSE n
  IN (IF n < 0 THEN <<Minus>> ELSE <<>>) \o (IF magnitude >= 0 THEN <<Digits(magnitude)>> ELSE <<>>)

\* An argument as the bulk string it is: a null and a nested array are nil bytes.
CommandArgs(v) ==
  IF v.type # "array" \/ Len(v.array) <= 1 THEN <<>>
  ELSE [i \in 1..(Len(v.array) - 1) |->
          LET elem == v.array[i + 1]
          IN CASE elem.type = "integer"                   -> Bulk(Int64ToBytes(elem.int))
               [] elem.type \in {"bulk", "simple", "error"} -> Bulk(elem.data)
               [] OTHER                                   -> NilBulk]

CommandName(v) ==
  IF v.type = "array" /\ v.array # <<>> /\ v.array[1].type \in {"bulk", "simple"}
  THEN Lower(v.array[1].data) ELSE <<>>

-----------------------------------------------------------------------------
(* Messages                                                                *)

\* The RESP protocol's own view of a value that is no array: there is one null,
\* and the text of a simple string or an error is a single line.
Meaning(v) ==
  CASE v.type \in {"nilBulk", "nilArray"} -> Null
    [] v.type \in {"simple", "error"} -> [v EXCEPT !.data = StripNewlines(@)]
    [] OTHER -> v

\* Messages: a value that is no array, an array of what other messages hold, or a
\* typed line.
Scalar(v) == [units |-> Serialize(v, <<>>), meaning |-> Meaning(v)]

Array(items) ==
  LET value == ArrayOf([i \in DOMAIN items |-> items[i].meaning])
  IN [units |-> Serialize(value, [i \in DOMAIN items |-> items[i].units]), meaning |-> value]

Raw(units, v) == [units |-> units, meaning |-> v]
=============================================================================
