------------------------------ MODULE MCStdlib ------------------------------
\* The standard library registered, and then one request: every operator on every two values of a
\* wide choice, every function on every value and on pairs of them, as a function and as a method.
EXTENDS Calling

W(w) == Word(w)
Whole(n) == Number(n, 0)
MCTexts ==
  << <<>>, <<Whole(0)>>, <<Minus, Whole(0)>>, <<Whole(5)>>, <<Minus, Whole(5)>>, <<Whole(16)>>, <<Whole(32)>>,
     <<Number(15, 1)>>, <<Minus, Number(15, 1)>>, <<W("NaN")>>, <<W("inf")>>, <<W("no pattern")>>, <<W("no utf8")>>,
     <<W("a")>>, <<W("b"), W("a")>>, <<W("a"), W("b")>>, <<Moment(5)>>,
     <<Number(15, 1), Unit("h")>>, <<Whole(1), Unit("h"), W("a")>>, <<W("a"), Whole(1), Unit("h")>>,
     <<Minus, Whole(1), Unit("h"), Whole(1), Unit("m")>>, <<Whole(5), Unit("s"), Minus, Whole(1), Unit("s")>>,
     <<Minus, Minus, Whole(1), Unit("us")>>, <<Whole(9), Unit("h")>>, <<Minus, Whole(9), Unit("h")>> >>

A == StrOf(<<W("a")>>)
S(v) == StructOf("S", [f \in {"f"} |-> v])
OneKey(k, v) == MapOf([x \in {k} |-> v])

Numerals == {IntOf(n) : n \in {-16, -15, -1, 0, 1, 7, 15}} \cup {UintOf(n) : n \in {0, 1, 15, 16, 31}}
              \cup {DoubleOf(Half(h)) : h \in {-48, -32, -3, 0, 2, 3, 32, 64, 96}} \cup {DoubleOf(d) : d \in {Nan, Infinite(1), Infinite(-1)}}
Others   == {BytesOf(<<>>), BytesOf(<<W("a")>>), BytesOf(<<W("no utf8")>>), BoolVal(TRUE), BoolVal(FALSE), Null,
             OpaqueOf("o", <<>>), OpaqueOf("p", <<>>)}
Holders  == {ListOf(<<>>), ListOf(<<IntOf(1)>>), ListOf(<<UintOf(1), IntOf(7)>>), ListOf(<<OptSome(IntOf(1))>>), ListOf(<<IntOf(1), Null>>),
             ListOf(<<S(IntOf(1))>>), ListOf(<<OptNone>>),
             MapOf([x \in {} |-> Null]), OneKey(IntOf(1), A), OneKey(UintOf(1), A), OneKey(A, OptSome(A)),
             OptNone, OptSome(IntOf(1)), OptSome(OptSome(IntOf(1))), OptSome(OptNone), OptSome(A),
             S(IntOf(1)), S(OptSome(IntOf(1))), StructOf("S", [x \in {} |-> Null])}
SomeTimes == {DurationOf(n) : n \in {0, 250, 4000, 30001, 125000, -125000, 129000, -129000}}
               \cup {TimestampOf(t) : t \in {0, 5, 8000, 47999, -24000}}
SomeTexts == {StrOf(MCTexts[i]) : i \in {1, 4, 12, 14, 15, 16}}
Few  == Numerals \cup Others \cup Holders \cup SomeTimes \cup SomeTexts
Many == Few \cup {StrOf(MCTexts[i]) : i \in DOMAIN MCTexts} \cup {TimestampOf(t) : t \in {1, 7999, 15999, 20000, 31111, -1, -9000}}
          \cup {DurationOf(n) : n \in {1, 9, 10, 15, 99, 100, 205, 999, 1000, 1001, 1500, 2000, 3999, 4001, 6250, 7300, 29999, 30000,
                                       -1, -100, -1500, -30001, -30002, 59999, 61000}}

Usual    == [lent |-> FALSE, checked |-> TRUE, short |-> FALSE]
Hows     == [lent : {FALSE}, checked : BOOLEAN, short : BOOLEAN]
Asks(names, targets, args, hows) == [name : names, target : targets, args : args, how : hows]
Singles(values) == {<<v>> : v \in values}
Doubled(values) == {<<v, w>> : v \in values, w \in values}
Alone == {<<>>}

Getters == {"getHours", "getMinutes", "getSeconds", "getMilliseconds", "getDate", "getFullYear", "getMonth", "getDayOfYear",
            "getDayOfMonth", "getDayOfWeek"}
Unary   == {"size", "bytes", "double", "int", "uint", "timestamp", "value", "hasValue"} \cup Getters
Binary  == {"contains", "startsWith", "endsWith", "matches", "or", "orValue"}
Mixed   == {IntOf(1), Null, A}

MCRequests ==
  Asks(Arithmetic \cup {"compare", "equals"}, Alone, Doubled(Few), {Usual})
    \cup Asks({"negate"}, Alone, Singles(Few), Hows)
    \cup Asks({"string", "duration"}, Alone, Singles(Many), Hows) \cup Asks({"string", "duration"}, Singles(Many), Alone, {Usual})
    \cup Asks(Unary, Alone, Singles(Many), {Usual}) \cup Asks(Unary, Singles(Many), Alone, {Usual})
    \cup Asks({"optional.of", "optional.ofNonZeroValue"}, Alone, Singles(Few), [lent : BOOLEAN, checked : {TRUE}, short : {FALSE}])
    \cup Asks({"optional.none"}, Alone, Alone \cup Singles(Mixed), {Usual})
    \cup Asks({"contains", "matches", "max", "min"}, Alone, Alone \cup Singles(Few) \cup Doubled(Few), {Usual})
    \cup Asks(Binary, Singles(Few), Singles(Few), {Usual})
    \cup Asks({"max", "min", "swapped", "all", "maybe"}, Alone \cup Singles(Mixed), UNION {[1..n -> Mixed] : n \in 0..3}, {Usual})

\* swapped(v: Value, This(this): This<Value>), all(This(this), Arguments(args), v: Value) and
\* maybe(This(this): This<Option<i64>>, n: i64)
MCOwnSignatures ==
  [swapped |-> <<Arg, This>>, all |-> <<This, Rest, Arg>>, maybe |-> <<ThisOf({"null", "int"}), ArgOf({"int"})>>]

MCCelTimes    == -24000..47999
MCChronoTimes == -48000..95999
MCMonthDays   == <<2, 1>>
=============================================================================
