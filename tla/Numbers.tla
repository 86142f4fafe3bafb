------------------------------- MODULE Numbers ------------------------------
(***************************************************************************)
(* Arithmetic, comparison and equality of values on both sides of the      *)
(* library: of a Val, which programs compute with (cel/src/common/types),  *)
(* and of a Value, which host functions compute with (cel/src/objects.rs). *)
(*                                                                         *)
(* Integers have the widths the constants give.  A double is a number of   *)
(* halves with two significant bits, so that integers lose precision as    *)
(* i64 and u64 do in an f64; the result of arithmetic on doubles is a term *)
(* nothing computes further with.  A text is a sequence of tokens.         *)
(***************************************************************************)
EXTENDS Conversions

CONSTANTS
  IntMax, UintMax,        \* i64::MAX, u64::MAX
  DurationMax,            \* the longest chrono::Duration
  CelTimes, ChronoTimes,  \* the timestamps of the CEL specification and those of chrono
  Texts                   \* the texts that are compared, in order

ASSUME WidthsAssumption ==
  /\ IntMax \in Nat \ {0} /\ UintMax = 2 * IntMax + 1
  /\ DurationMax \in Nat /\ NanosMax <= DurationMax
  /\ 1 < Second /\ Second <= NanosMax /\ DurationMax < Second * NanosMax
  /\ CelTimes \subseteq ChronoTimes

Ints  == -IntMax - 1..IntMax
Uints == 0..UintMax

Panic == Err("panic")
Overflow == Err("Overflow")
Unsupported == Err("UnsupportedBinaryOperator")
-----------------------------------------------------------------------------
(* Doubles. *)

Half(h)       == <<"half", h>>
Nan           == <<"nan", 0>>
Infinite(sgn) == <<"inf", sgn>>

PowersOfTwo == {1, 2, 4, 8, 16, 32, 64, 128}
Mantissas   == {0} \cup PowersOfTwo \cup {3, 6, 12, 24, 48, 96}
Distance(a, b) == IF a < b THEN b - a ELSE a - b

\* The double nearest to so many halves; of two the one with the even mantissa.
Nearest(h) ==
  LET n == IF h < 0 THEN -h ELSE h
      near == {m \in Mantissas : \A k \in Mantissas : Distance(m, n) <= Distance(k, n)}
      best == CHOOSE m \in near : m \in PowersOfTwo \/ near = {m}
  IN Half(IF h < 0 THEN -best ELSE best)

\* The casts of Rust from f64, which cut off and saturate.
Clamp(n, low, high) == IF n < low THEN low ELSE IF n > high THEN high ELSE n
Cast(d, low, high) ==
  CASE d[1] = "half" -> Clamp(Quotient(d[2], 2), low, high)
    [] d[1] = "inf"  -> IF d[2] < 0 THEN low ELSE high
    [] d[1] = "nan"  -> 0

NumberTypes == {"int", "uint", "double"}
AsDouble(v) == IF TypeOf(v) = "double" THEN v[2] ELSE Nearest(2 * v[2])
-----------------------------------------------------------------------------
(* Order and equality. *)

Order(a, b) == IF a < b THEN -1 ELSE IF a = b THEN 0 ELSE 1
Less == -1
Greater == 1

\* partial_cmp of f64
OrderOfDoubles(d, e) ==
  LET RankOf(x) == IF x[1] = "inf" THEN 1000 * x[2] ELSE x[2]
  IN IF Nan \in {d, e} THEN Err(NoSuchOverload) ELSE Ok(Order(RankOf(d), RankOf(e)))

\* Int and UInt are compared as numbers; with a double both are doubles.
OrderOfNumbers(v, w) ==
  IF "double" \in {TypeOf(v), TypeOf(w)} THEN OrderOfDoubles(AsDouble(v), AsDouble(w))
  ELSE Ok(Order(v[2], w[2]))

Place(v) ==
  CASE TypeOf(v) = "bool" -> IF v[2] THEN 1 ELSE 0
    [] TypeOf(v) \in {"string", "bytes"} -> CHOOSE i \in DOMAIN Texts : Texts[i] = v[2]
    [] TypeOf(v) \in {"duration", "timestamp"} -> v[2]

AreNumbers(v, w) == {TypeOf(v), TypeOf(w)} \subseteq NumberTypes
OfOne(types, v, w) == TypeOf(v) = TypeOf(w) /\ TypeOf(v) \in types

\* Comparer::compare
Compare(v, w) ==
  IF AreNumbers(v, w) THEN OrderOfNumbers(v, w)
  ELSE IF OfOne({"bool", "string", "bytes", "duration", "timestamp"}, v, w) THEN Ok(Order(Place(v), Place(w)))
  ELSE Err(NoSuchOverload)

\* PartialOrd for Value
PartialCmp(v, w) ==
  IF AreNumbers(v, w) THEN OrderOfNumbers(v, w)
  ELSE IF OfOne({"null"}, v, w) THEN Ok(0)
  ELSE IF OfOne({"bool", "string", "duration", "timestamp"}, v, w) THEN Ok(Order(Place(v), Place(w)))
  ELSE Err("None")

Scalars == {"bool", "string", "bytes", "duration", "timestamp", "null"}

Alike(same, f, g) == DOMAIN f = DOMAIN g /\ \A i \in DOMAIN f : same[<<f[i], g[i]>>]

\* Val::equals, given which of the values inside are equal.
ValEqualsUsing(same, x, y) ==
  IF AreNumbers(x, y) THEN OrderOfNumbers(x, y) = Ok(0)
  ELSE /\ TypeOf(x) = TypeOf(y)
       /\ CASE TypeOf(x) \in {"list", "map"} -> Alike(same, x[2], y[2])
            [] TypeOf(x) \in Scalars \cup {"opaque"} -> x = y
            [] TypeOf(x) = "struct" -> x[2][1] = y[2][1] /\ Alike(same, x[2][2], y[2][2])
            [] OTHER -> FALSE

ValEquals(v, w) ==
  LET Same[p \in AnywhereIn(v) \X AnywhereIn(w)] == ValEqualsUsing(Same, p[1], p[2]) IN Same[<<v, w>>]

\* PartialEq for Value, likewise, of two values built apart: Arc's comparison takes a list or a map
\* that is shared with itself for equal without looking inside, where a NaN would say otherwise.
ValueEqualsUsing(same, x, y) ==
  IF AreNumbers(x, y) THEN OrderOfNumbers(x, y) = Ok(0)
  ELSE /\ TypeOf(x) = TypeOf(y)
       /\ CASE TypeOf(x) \in {"list", "map", "optional"} -> Alike(same, x[2], y[2])
            [] TypeOf(x) \in Scalars \cup {"opaque", "function"} -> x = y
            [] OTHER -> FALSE

ValueEquals(v, w) ==
  LET Same[p \in AnywhereIn(v) \X AnywhereIn(w)] == ValueEqualsUsing(Same, p[1], p[2]) IN Same[<<v, w>>]
-----------------------------------------------------------------------------
(* Arithmetic. *)

\* checked_add and the others of Rust's integers: nothing where the type has no result.
CheckedResult(op, a, b, range) ==
  LET n == CASE op = "add" -> a + b
             [] op = "sub" -> a - b
             [] op = "mul" -> a * b
             [] op = "div" -> Quotient(a, b)
             [] op = "rem" -> Remainder(a, b)
  IN IF op \in {"div", "rem"} /\ (b = 0 \/ Quotient(a, b) \notin range) THEN <<>>
     ELSE IF n \notin range THEN <<>> ELSE <<n>>

ByZero == [op \in {"div", "rem"} |-> Err(IF op = "div" THEN "DivisionByZero" ELSE "RemainderByZero")]

\* Faulty: the plain operations, which panic.
IntegersUnchecked(op, v, w, range) ==
  LET n == CheckedResult(op, v[2], w[2], range)
  IN IF op \in DOMAIN ByZero /\ w[2] = 0 THEN ByZero[op]
     ELSE IF n = <<>> THEN Panic ELSE Ok(<<TypeOf(v), n[1]>>)

\* Of Vals.
Integers(op, v, w, range) ==
  LET n == CheckedResult(op, v[2], w[2], range)
  IN IF op \in DOMAIN ByZero /\ w[2] = 0 THEN ByZero[op]
     ELSE IF n = <<>> THEN Overflow ELSE Ok(<<TypeOf(v), n[1]>>)

\* Of Values; nothing fails to divide unsigned integers but a zero.
HostIntegers(op, v, w, range) ==
  LET n == CheckedResult(op, v[2], w[2], range)
  IN IF op \in DOMAIN ByZero /\ (IF TypeOf(v) = "uint" THEN n = <<>> ELSE w[2] = 0) THEN ByZero[op]
     ELSE IF n = <<>> THEN Overflow ELSE Ok(<<TypeOf(v), n[1]>>)

Doubles(op, v, w) == Ok(DoubleOf(<<op, v[2], w[2]>>))

Signed(op, n)  == IF op = "add" THEN n ELSE -n
Lengths        == -DurationMax..DurationMax
DurationSum(op, v, w) ==
  LET n == v[2] + Signed(op, w[2]) IN IF n \in Lengths THEN Ok(DurationOf(n)) ELSE Overflow

\* Moving a timestamp: chrono panics where it has no time to move to, before the limits are looked at.
TimestampMoved(op, v, w) ==
  LET t == v[2] + Signed(op, w[2])
  IN IF t \notin ChronoTimes THEN Panic ELSE IF t \notin CelTimes THEN Overflow ELSE Ok(TimestampOf(t))

\* A list and anything that can be gone through, in each of its orders.
ListSums(v, w) ==
  IF IsIterable(w) THEN {Ok(Clone(ListOf(v[2] \o items))) : items \in Iterations(w)} ELSE {Err(NoSuchOverload)}

\* A timestamp moved: checked_op, and checked_add_signed alone.
HostMoved(t, times) == IF t \in times THEN Ok(TimestampOf(t)) ELSE Overflow

Refused(v) == IF TypeOf(v) = "int" THEN Err(NoSuchOverload) ELSE Unsupported

\* Adder, Subtractor, Multiplier, Divider and Modder of the Vals; one result for each order an
\* iterable may be gone through in.
Computed(op, v, w) ==
  CASE OfOne({"int"}, v, w)  -> {Integers(op, v, w, Ints)}
    [] OfOne({"uint"}, v, w) -> {Integers(op, v, w, Uints)}
    [] OfOne({"double"}, v, w) /\ op # "rem" -> {Doubles(op, v, w)}
    [] OfOne({"string", "bytes"}, v, w) /\ op = "add" -> {Ok(<<TypeOf(v), v[2] \o w[2]>>)}
    [] TypeOf(v) = "list" /\ op = "add" -> ListSums(v, w)
    [] OfOne({"duration"}, v, w) /\ op \in {"add", "sub"} -> {DurationSum(op, v, w)}
    [] TypeOf(v) = "duration" /\ TypeOf(w) # "duration" /\ op = "sub" -> {Err(NoSuchOverload)}
    [] TypeOf(v) = "timestamp" /\ TypeOf(w) = "duration" /\ op \in {"add", "sub"} -> {TimestampMoved(op, v, w)}
    [] OfOne({"timestamp"}, v, w) /\ op = "sub" -> {Ok(DurationOf(v[2] - w[2]))}
    [] OTHER -> {Refused(v)}

\* ops::Add, Sub, Mul, Div and Rem for Value
HostComputed(op, v, w) ==
  CASE OfOne({"int"}, v, w)  -> HostIntegers(op, v, w, Ints)
    [] OfOne({"uint"}, v, w) -> HostIntegers(op, v, w, Uints)
    [] OfOne({"double"}, v, w) /\ op # "rem" -> Doubles(op, v, w)
    [] OfOne({"string", "list"}, v, w) /\ op = "add" -> Ok(<<TypeOf(v), v[2] \o w[2]>>)
    [] OfOne({"duration"}, v, w) /\ op \in {"add", "sub"} -> DurationSum(op, v, w)
    [] TypeOf(v) = "timestamp" /\ TypeOf(w) = "duration" /\ op \in {"add", "sub"} ->
         HostMoved(v[2] + Signed(op, w[2]), CelTimes)
    [] TypeOf(v) = "duration" /\ TypeOf(w) = "timestamp" /\ op = "add" -> HostMoved(v[2] + w[2], ChronoTimes)
    [] OfOne({"timestamp"}, v, w) /\ op = "sub" -> Ok(DurationOf(v[2] - w[2]))
    [] OTHER -> Unsupported

\* Negator; i64::MIN has no negation: it panics in a build that checks and wraps in others.
Negated(v, checked) ==
  CASE TypeOf(v) = "int"    -> IF v[2] = -IntMax - 1 THEN (IF checked THEN Panic ELSE Ok(v)) ELSE Ok(IntOf(-v[2]))
    [] TypeOf(v) = "double" -> Ok(DoubleOf(<<v[2][1], -v[2][2]>>))
    [] TypeOf(v) = "bool"   -> Ok(BoolVal(~v[2]))
    [] OTHER                -> Err(NoSuchOverload)
=============================================================================
