------------------------------ MODULE Literals ------------------------------
(***************************************************************************)
(* From the text of a literal to its value (cel/src/parser/parse.rs and    *)
(* the visitor's methods for literals in parser.rs).  A text is a sequence *)
(* of characters; the value of a string or of bytes is the sequence of its *)
(* code points or bytes.  Numbers are as wide as the constants say.        *)
(***************************************************************************)
EXTENDS Expressions, SequencesExt

CONSTANTS
  IntMax,    \* i64::MAX
  UintMax,   \* u64::MAX
  Infinite   \* the texts of doubles that no f64 is large enough for

ASSUME BoundsAssumption == IntMax \in Nat /\ UintMax \in Nat

-----------------------------------------------------------------------------
(* Characters. *)

Backslash == "\\"
Quotes    == {"'", "\""}

Digit ==
  [c \in {"0","1","2","3","4","5","6","7","8","9","a","b","c","d","e","f"} |->
     CHOOSE n \in 0..15 : c = <<"0","1","2","3","4","5","6","7","8","9","a","b","c","d","e","f">>[n + 1]]

\* The code points of the characters that occur, and of what an escaped letter stands for.
Code ==
  [c \in DOMAIN Digit |-> IF Digit[c] < 10 THEN 48 + Digit[c] ELSE 87 + Digit[c]]
    @@ ("\\" :> 92) @@ ("\"" :> 34) @@ ("'" :> 39) @@ ("backtick" :> 96) @@ ("?" :> 63) @@ ("+" :> 43)
    @@ ("n" :> 110) @@ ("r" :> 114) @@ ("t" :> 116) @@ ("u" :> 117) @@ ("v" :> 118) @@ ("x" :> 120)
    @@ ("U" :> 85) @@ ("X" :> 88) @@ ("eacute" :> 233)

Escapes ==
  ("a" :> 7) @@ ("b" :> 8) @@ ("v" :> 11) @@ ("f" :> 12) @@ ("n" :> 10) @@ ("r" :> 13) @@ ("t" :> 9)
    @@ ("\\" :> 92) @@ ("?" :> 63) @@ ("'" :> 39) @@ ("\"" :> 34) @@ ("backtick" :> 96)

\* from_str_radix: digits of the radix, behind a sign if any.
Digits(text) == IF text # <<>> /\ text[1] \in {"+", "-"} THEN Tail(text) ELSE text
IsNumeral(text, radix) ==
  /\ Digits(text) # <<>>
  /\ \A i \in DOMAIN Digits(text) : Digits(text)[i] \in DOMAIN Digit /\ Digit[Digits(text)[i]] < radix
Magnitude(text, radix) == FoldLeft(LAMBDA n, c : n * radix + Digit[c], 0, Digits(text))

InRange(text, radix, low, high) ==
  IF ~IsNumeral(text, radix) \/ (text[1] = "-" /\ low = 0) THEN Err("Invalid")
  ELSE LET n == IF text[1] = "-" THEN -Magnitude(text, radix) ELSE Magnitude(text, radix)
       IN IF n \in low..high THEN Ok(n) ELSE Err("OutOfRange")

\* char::from_u32
CharOf(n) == IF n \in 55296..57343 \/ n > 1114111 THEN Err("Unicode") ELSE Ok(<<n>>)

\* encode_utf8, of characters below U+0800
Utf8(c) == IF Code[c] < 128 THEN <<Code[c]>> ELSE <<192 + Code[c] \div 64, 128 + (Code[c] % 64)>>

Slice(text, p, n) == SubSeq(text, p, IF p + n - 1 > Len(text) THEN Len(text) ELSE p + n - 1)
-----------------------------------------------------------------------------
(* Strings. *)

\* How many characters an escape takes behind the backslash.
EscapeLength(c) == CASE c = "x" -> 3 [] c = "u" -> 5 [] c = "U" -> 9
                     [] c \in {"0", "1", "2", "3"} -> 3 [] OTHER -> 1

Numeric(text, radix) ==
  LET n == InRange(text, radix, 0, 2147483647)
  IN IF Failed(n) THEN n ELSE CharOf(n[2])

\* What an escape stands for; one of the quote that is not open keeps its backslash.
Escaped(text, open) ==
  CASE text[1] \in {"x", "u", "U"}        -> Numeric(Tail(text), 16)
    [] text[1] \in {"0", "1", "2", "3"}   -> Numeric(text, 8)
    [] text[1] \in Quotes \ {open}        -> Ok(<<Code[Backslash], Code[text[1]]>>)
    [] text[1] \in DOMAIN Escapes         -> Ok(<<Escapes[text[1]]>>)
    [] OTHER                              -> Err("InvalidEscape")

RECURSIVE Quoted(_, _, _)

\* parse_quoted_string: `open` is the quote one is in, if any; a quote turns it on and off.
Quoted(text, open, res) ==
  LET c == Head(text)
      n == EscapeLength(text[2])
      e == Escaped(SubSeq(text, 2, IF n + 1 > Len(text) THEN Len(text) ELSE n + 1), open)
  IN IF text = <<>> THEN IF open = "" THEN Ok(res) ELSE Err("MissingClosingQuote")
     ELSE IF c = Backslash /\ open # ""
     THEN IF Len(text) = 1 THEN Err("InvalidEscape")
          ELSE IF Failed(e) THEN e
          ELSE Quoted(SubSeq(text, n + 2, Len(text)), open, res \o e[2])
     ELSE IF c \in Quotes /\ open \in {"", c}
     THEN Quoted(Tail(text), IF open = "" THEN c ELSE "", res)
     ELSE IF open = "" THEN Err("MissingOpeningQuote")
     ELSE Quoted(Tail(text), open, Append(res, Code[c]))

RECURSIVE Raw(_, _, _)

\* parse_raw_string: a backslash stays, but for one in front of the quote one is in.
Raw(text, open, res) ==
  LET c == Head(text)
  IN IF text = <<>> THEN Ok(res)
     ELSE IF c = Backslash /\ open # "" /\ Len(text) > 1
     THEN Raw(SubSeq(text, 3, Len(text)), open,
              res \o (IF text[2] = open THEN <<>> ELSE <<Code[c]>>) \o <<Code[text[2]]>>)
     ELSE IF c \in Quotes /\ open \in {"", c}
     THEN Raw(Tail(text), IF open = "" THEN c ELSE "", res)
     ELSE IF open = "" THEN Err("MissingOpeningQuote")
     ELSE Raw(Tail(text), open, Append(res, Code[c]))

ParseString(text) ==
  CASE text # <<>> /\ text[1] \in {"r", "R"} -> Raw(Tail(text), "", <<>>)
    [] text # <<>> /\ text[1] \in Quotes     -> Quoted(Tail(text), text[1], <<>>)
    [] OTHER                                 -> Err("MissingOpeningQuote")

RECURSIVE ParseBytes(_, _)

\* parse_bytes knows numeric escapes only.
ParseBytes(text, res) ==
  LET radix  == IF text[2] = "x" THEN 16 ELSE 8
      number == IF radix = 16 THEN Slice(text, 3, 2) ELSE Slice(text, 2, 3)
      octet  == InRange(number, radix, 0, 255)
  IN IF text = <<>> THEN Ok(res)
     ELSE IF text[1] # Backslash THEN ParseBytes(Tail(text), res \o Utf8(text[1]))
     ELSE IF Len(text) < 4 \/ text[2] \notin {"x", "0", "1", "2", "3"} \/ Failed(octet)
     THEN Err("InvalidEscape")
     ELSE ParseBytes(SubSeq(text, 5, Len(text)), Append(res, octet[2]))
-----------------------------------------------------------------------------
(* visit_Int .. visit_Null *)

Hexadecimal(text) == Len(text) > 1 /\ text[1] = "0" /\ text[2] = "x"

ParseNumber(text, low, high) ==
  IF Hexadecimal(text) THEN InRange(SubSeq(text, 3, Len(text)), 16, low, high)
  ELSE InRange(text, 10, low, high)

Made(Value(_), r) == IF Failed(r) THEN r ELSE Ok(Value(r[2]))

\* The value of a literal's text, by the type of its token.
LiteralValue(type, text) ==
  CASE type = "NUM_INT"   -> Made(IntOf, ParseNumber(text, -IntMax - 1, IntMax))
    [] type = "NUM_UINT"  -> Made(UintOf, ParseNumber(Front(text), 0, UintMax))
    [] type = "NUM_FLOAT" -> IF text \in Infinite THEN Err("OutOfRange") ELSE Ok(DoubleOf(text))
    [] type = "STRING"    -> Made(StrOf, ParseString(text))
    [] type = "BYTES"     -> Made(BytesOf, ParseBytes(SubSeq(text, 3, Len(text) - 1), <<>>))
    [] type \in {"true", "false"} -> Ok(BoolVal(type = "true"))
    [] type = "null"      -> Ok(Null)
-----------------------------------------------------------------------------
(* What a literal's text denotes by the grammar (CEL.g4): the characters   *)
(* between its quotes, of which escapes stand for their codes.             *)

IsBytes(text) == text[1] \in {"b", "B"}
Bare(text)    == IF IsBytes(text) THEN Tail(text) ELSE text
IsRaw(text)   == Bare(text)[1] \in {"r", "R"}
Enclosed(text) == IF IsRaw(text) THEN Tail(Bare(text)) ELSE Bare(text)

\* three quotes, or one
QuoteLength(text) ==
  IF Len(Enclosed(text)) >= 6 /\ \A i \in 1..3 : Enclosed(text)[i] = Enclosed(text)[1] THEN 3 ELSE 1

Body(text) == SubSeq(Enclosed(text), QuoteLength(text) + 1, Len(Enclosed(text)) - QuoteLength(text))

\* The characters and escapes that a body consists of.
RECURSIVE Pieces(_)
Pieces(body) ==
  IF body = <<>> THEN <<>>
  ELSE LET n == IF body[1] = Backslash THEN 1 + EscapeLength(IF body[2] = "X" THEN "x" ELSE body[2]) ELSE 1
       IN <<SubSeq(body, 1, n)>> \o Pieces(SubSeq(body, n + 1, Len(body)))

\* The code of an escape.
EscapeCode(piece) ==
  CASE piece[2] \in {"x", "X", "u", "U"}   -> Magnitude(SubSeq(piece, 3, Len(piece)), 16)
    [] piece[2] \in {"0", "1", "2", "3"}   -> Magnitude(Tail(piece), 8)
    [] OTHER                               -> Escapes[piece[2]]

Denoted(text) ==
  LET octets(c) == IF IsBytes(text) THEN Utf8(c) ELSE <<Code[c]>>
      pieces    == IF IsRaw(text) THEN [i \in DOMAIN Body(text) |-> <<Body(text)[i]>>] ELSE Pieces(Body(text))
  IN FlattenSeq([i \in DOMAIN pieces |-> IF Len(pieces[i]) = 1 THEN octets(pieces[i][1]) ELSE <<EscapeCode(pieces[i])>>])
=============================================================================
