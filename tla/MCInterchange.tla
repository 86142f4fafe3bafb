--------------------------- MODULE MCInterchange ---------------------------
\* Scalars and wrappers of every kind, maps from every sequence of up to four calls over a few keys
\* and values, and everything in everything once; Values with functions, structs and optionals.
EXTENDS Interchange, TLC

MCTimestamps    == {1}
MCRfc3339(t)    == "at " \o ToString(t)
MCInts          == 1..2
MCNumberText(n) == ToString(n)

Leaves  == {<<"bool", TRUE>>, <<"i64", 1>>, <<"u64", 1>>, <<"f64", "1.5">>, <<"f64", "nan">>, <<"str", "a">>,
            <<"str", "1">>, <<"str", "true">>, <<"bytes", "a">>, <<"none", "">>, <<"unit", "">>,
            <<"unit_variant", "a">>, <<"duration", 6>>, <<"duration", -6>>, <<"duration", 17>>,
            <<"duration", -18>>, <<"timestamp", 1>>}
Few     == {<<"bool", TRUE>>, <<"none", "">>, <<"duration", 17>>, <<"timestamp", 1>>}
Wrapped(S) == {<<"some", d>> : d \in S} \cup {<<"newtype_struct", "N", d>> : d \in S}
KeyCallsOf(S)   == {<<"key", d>> : d \in S}
ValueCallsOf(S) == {<<"value", d>> : d \in S}
CallsUpTo(n, calls) == UNION {[1..k -> calls] : k \in 0..n}

MapsOf(n, keys, values) == {<<"map", c>> : c \in CallsUpTo(n, KeyCallsOf(keys) \cup ValueCallsOf(values))}
Maps == MapsOf(2, Leaves \cup Wrapped(Leaves) \cup {<<"seq", <<>>>>}, {<<"i64", 1>>, <<"bytes", "a">>})
          \cup MapsOf(4, {<<"i64", 1>>, <<"u64", 1>>, <<"str", "1">>, <<"timestamp", 1>>}, {<<"bool", TRUE>>, <<"none", "">>})

Around(S, T) ==
  Wrapped(S) \cup {<<"newtype_variant", "V", d>> : d \in S}
    \cup {<<"seq", <<d, e>>>> : d \in S, e \in T} \cup {<<"tuple_variant", "V", <<d, e>>>> : d \in S, e \in T}
    \cup {<<"struct", "S", <<<<"a", d>>, <<"b", e>>>>>> : d \in S, e \in T}
    \cup {<<"struct_variant", "V", <<<<"a", d>>, <<"b", e>>>>>> : d \in S, e \in T}
    \cup {<<"map", <<<<"key", <<"u64", 1>>>>, <<"value", d>>, <<"key", <<"i64", 1>>>>, <<"value", e>>>>>> : d \in S, e \in T}
Once == Around(Leaves, Leaves)
MCData == Leaves \cup Maps \cup Once \cup Around(Around(Few, Few), Few)

Atoms == {IntOf(1), UintOf(1), StrOf("1"), BoolVal(TRUE), BytesOf("a"), Null, DoubleOf("inf"), DurationOf(17), TimestampOf(1),
          FunctionOf("f"), OpaqueOf("o", <<>>), OpaqueOf("o", <<"a">>)}
\* what a struct holds is Vals, and no function is one
Struct(v, w) == StructOf("S", [f \in {"a", "b"} |-> IF f = "a" THEN v ELSE w])
KeyPairs == {<<IntOf(1), UintOf(1)>>, <<IntOf(1), IntOf(2)>>, <<StrOf("a"), StrOf("1")>>, <<StrOf("1"), UintOf(1)>>,
             <<BoolVal(TRUE), StrOf("true")>>, <<BoolVal(TRUE), IntOf(1)>>}
Pairs(v, w) == {ListOf(<<v, w>>)} \cup {MapOf([k \in {p[1], p[2]} |-> IF k = p[1] THEN v ELSE w]) : p \in KeyPairs}
                  \cup (IF OfType(v, "function") = {} THEN {Struct(v, w)} ELSE {})
Held(S) == {OptSome(v) : v \in S} \cup UNION {Pairs(v, w) : v \in S, w \in {Null, OptSome(IntOf(1)), IntOf(1)}}
\* maps and lists with errors of two kinds
TwoErrors == Pairs(Struct(Null, Null), DurationOf(17)) \cup Pairs(DurationOf(17), Struct(Null, Null))
MCHostValues == LET one == Atoms \cup {OptNone} \cup Held(Atoms \cup {OptNone})
                IN one \cup Held(one) \cup TwoErrors
=============================================================================
