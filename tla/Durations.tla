------------------------------ MODULE Durations -----------------------------
(***************************************************************************)
(* The text of a duration (cel/src/duration.rs).  A text is a sequence of  *)
(* tokens: a minus, numbers <<"number", m, d>> that stand for m / 10^d,    *)
(* units and words.  nom's parser of doubles reads a number with its sign; *)
(* an exponent only writes a number otherwise, and the infinities and NaN  *)
(* it also reads are no numbers here.                                      *)
(***************************************************************************)
EXTENDS Times, SequencesExt

CONSTANTS
  Places,      \* decimal places of a second; a third each of a micro- and a millisecond
  MinuteSecs   \* seconds in a minute and minutes in an hour

\* Powers of ten.
Tens[n \in Nat] == IF n = 0 THEN 1 ELSE 10 * Tens[n - 1]

Minus        == <<"minus">>
Number(m, d) == <<"number", m, d>>
Word(w)      == <<"word", w>>
Unit(u)      == <<"unit", u>>

Microsecond == Tens[Places \div 3]
Millisecond == Tens[2 * (Places \div 3)]
U64         == 2 * (NanosMax + 1)   \* u64::MAX + 1

\* Unit::nanos; the unit format_duration writes for microseconds is not among them.
Nanos ==
  [u \in {"ns", "us", "ms", "s", "m", "h"} |->
     CASE u = "ns" -> 1
       [] u = "us" -> Microsecond
       [] u = "ms" -> Millisecond
       [] u = "s"  -> Second
       [] u = "m"  -> MinuteSecs * Second
       [] u = "h"  -> MinuteSecs * MinuteSecs * Second]

\* An i64 of nanoseconds holds hours.
ASSUME UnitsAssumption ==
  /\ Places \in Nat \ {0} /\ Places % 3 = 0 /\ Second = Tens[Places] /\ MinuteSecs \in Nat \ {0}
  /\ Nanos["h"] <= NanosMax
-----------------------------------------------------------------------------
(* format_duration *)

\* format_float: no zeros at the end.
Decimal(m, d) ==
  LET zeros == Max({z \in 0..d : m % Tens[z] = 0})
  IN Number(m \div Tens[zeros], d - zeros)

\* Faulty: minutes are written in full beside the hours.
ClockInFull(u) ==
  LET secs == u \div Second
      mins == secs \div MinuteSecs
      hrs  == mins \div MinuteSecs
  IN (IF hrs > 0 THEN <<Number(hrs, 0), Unit("h")>> ELSE <<>>)
       \o (IF mins > 0 THEN <<Number(mins, 0), Unit("m")>> ELSE <<>>)
       \o <<Decimal(u % (MinuteSecs * Second), Places), Unit("s")>>

\* A second or more.
Clock(u) ==
  LET secs == u \div Second
      mins == secs \div MinuteSecs
      hrs  == mins \div MinuteSecs
  IN (IF hrs > 0 THEN <<Number(hrs, 0), Unit("h")>> ELSE <<>>)
       \o (IF mins > 0 THEN <<Number(mins % MinuteSecs, 0), Unit("m")>> ELSE <<>>)
       \o <<Decimal(u % (MinuteSecs * Second), Places), Unit("s")>>

Unsigned(u) ==
  IF u >= Second THEN Clock(u)
  ELSE IF u = 0 THEN <<Number(0, 0), Unit("s")>>
  ELSE IF u < Microsecond THEN <<Number(u, 0), Unit("ns")>>
  ELSE IF u < Millisecond THEN <<Decimal(u, Places \div 3), Unit("micro")>>
  ELSE <<Decimal(u, 2 * (Places \div 3)), Unit("ms")>>

\* The number is taken as a u64 with its sign in it; what has no number of nanoseconds is
\* multiplied by a second, which overflows: it panics in a build that checks and wraps in others.
FormatDuration(n, checked) ==
  LET secs   == Quotient(n, Second) % U64
      amount == IF HasNanos(n) THEN n % U64 ELSE secs * Second
      u      == amount % U64
  IN IF checked /\ amount >= U64 THEN Err("panic")
     ELSE Ok((IF n < 0 /\ u # 0 THEN <<Minus>> ELSE <<>>) \o Unsigned(u))
-----------------------------------------------------------------------------
(* parse_duration *)

\* to_duration: the product, cut off; if a fraction, it may fall short of a whole number.
ToDuration(m, d, unit, short) ==
  LET product == m * Nanos[unit]
      exact   == Quotient(product, Tens[d])
      n       == IF short /\ d > 0 /\ product # 0 /\ product % Tens[d] = 0
                 THEN exact - (IF m < 0 THEN -1 ELSE 1) ELSE exact
  IN IF n > NanosMax THEN NanosMax ELSE IF n < -NanosMax - 1 THEN -NanosMax - 1 ELSE n

\* parse_number_unit at a place in the text, if there is a term.
ReadTerm(text, short, read) ==
  LET neg == read.at <= Len(text) /\ text[read.at] = Minus
      at  == IF neg THEN read.at + 1 ELSE read.at
  IN IF at + 1 > Len(text) THEN read
     ELSE IF text[at][1] # "number" \/ text[at + 1][1] # "unit" THEN read
     ELSE IF text[at + 1][2] \notin DOMAIN Nanos THEN read
     ELSE LET m == IF neg THEN -text[at][2] ELSE text[at][2]
          IN [at |-> at + 2, total |-> read.total + ToDuration(m, text[at][3], text[at + 1][2], short)]

\* many1, which reads terms from the start of the text as long as there are any, and their sum.
ReadTerms(text, short) ==
  LET Read[i \in 0..Len(text)] ==
        IF i = 0 THEN [at |-> 1, total |-> 0] ELSE ReadTerm(text, short, Read[i - 1])
  IN Read[Len(text)]

\* What is left of the text after the terms is not looked at.
ParseDuration(text, short) ==
  LET neg  == text # <<>> /\ text[1] = Minus
      rest == IF neg THEN Tail(text) ELSE text
      read == ReadTerms(rest, short)
  IN IF rest = <<Number(0, 0)>> THEN Ok(0)
     ELSE IF read.at = 1 THEN Err("FunctionError")
     ELSE Ok(IF neg THEN -read.total ELSE read.total)
=============================================================================
