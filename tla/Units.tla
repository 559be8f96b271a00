---------------------------------- MODULE Units ----------------------------------
(***************************************************************************)
(* What byte strings and streams are made of.  A unit is CRLF, a type byte  *)
(* with the decimal number behind it, a bare type byte, or a piece of text. *)
(* Within a unit there is nothing that parser or encoder would do           *)
(* differently for one byte than for another, so a stream may be cut        *)
(* between any two units.                                                   *)
(***************************************************************************)
EXTENDS Naturals, Sequences

Unit(tag, n) == [tag |-> tag, n |-> n]
CRLF         == Unit("crlf", 0)
Number(t, n) == Unit(t, n)      \* t is "*", "$" or ":"
Bare(t)      == Unit(t, 0)      \* t is "+" or "-"
Text(n)      == Unit("text", n) \* Text(0) is a space, another number a letter
Upper(n)     == Unit("upper", n) \* the capital of Text(n)
Space        == Text(0)
Quote(n)     == Unit("quote", n) \* 1: double, 2: single
Backslash    == Unit("backslash", 0)

\* NormalizeCommandName, and strings.ToLower: a name in lower case.
Lower(name) == [i \in DOMAIN name |-> IF name[i].tag = "upper" THEN Text(name[i].n) ELSE name[i]]
=============================================================================
