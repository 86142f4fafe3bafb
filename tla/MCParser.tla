------------------------------ MODULE MCParser ------------------------------
(* What is written: every kind of source over a few parts, some of which are at fault, and    *)
(* again inside every other kind; chains of up to four terms; two operators without brackets, *)
(* where they need none; literals of up to two characters and escapes, in every kind of       *)
(* quotes.  And all sequences of a few tokens.                                                *)
EXTENDS Parser

Marked_(src, opts) == [src EXCEPT !.opts = opts]
Over1(context, parts) == [context EXCEPT !.parts = parts]
NamedAs(context, name, parts) == [context EXCEPT !.name = name, !.parts = parts]
Text(type, words) == [LiteralContext(type) EXCEPT !.words = words]
Struct(name, quals, fields, parts) ==
  [CreateMessageContext EXCEPT !.name = name, !.quals = quals, !.words = fields, !.parts = parts]

A    == NamedAs(IdentContext, "a", <<>>)
DotA == [A EXCEPT !.quals = <<"">>]
One  == Text("NUM_INT", <<"1">>)
MinusOne == Text("NUM_INT", <<"-", "1">>)
Bad  == Text("NUM_INT", <<"1", "2", "8">>)
Field    == NamedAs(SelectContext, "f", <<A>>)
OptField_ == Marked_(Field, {1})
Brackets(src) == Over1(NestedContext, <<src>>)

Over(S, T) ==
  {Over1(LogicalNotContext(n), <<s>>) : s \in S, n \in 1..3}
    \cup {Over1(NegateContext(n), <<s>>) : s \in S, n \in 1..2}
    \cup {Brackets(s) : s \in S}
    \cup {NamedAs(GlobalCallContext, name, <<s>>) : name \in {"g", "has"}, s \in S}
    \cup {[NamedAs(GlobalCallContext, "has", <<s>>) EXCEPT !.quals = <<"">>] : s \in S}
    \cup {Marked_(NamedAs(SelectContext, "f", <<s>>), o) : s \in S, o \in {{}, {1}}}
    \cup {Over1(CalcContext("+"), <<s, t>>) : s \in S, t \in T}
    \cup {Over1(ConditionalOrContext, <<s, t, A>>) : s \in S, t \in T}
    \cup {Marked_(Over1(IndexContext, <<s, t>>), o) : s \in S, t \in T, o \in {{}, {1}}}
    \cup {Marked_(Over1(CreateListContext, <<s, t>>), o) : s \in S, t \in T, o \in {{}, {1}, {2}}}
    \cup {Marked_(Over1(CreateStructContext, <<s, t, A, t>>), o) : s \in S, t \in T, o \in {{}, {1}, {2}}}
    \cup {Marked_(Struct("T", q, <<"f", "g">>, <<s, t>>), o) :
            q \in {<<>>, <<"", "p">>}, s \in S, t \in T, o \in {{}, {1}}}
    \cup {Over1(ExprContext, <<A, s, t>>) : s \in S, t \in T}
    \cup {NamedAs(MemberCallContext, name, <<A, s, t>>) :
            name \in {"g", "map", "all", "exists", "existsOne", "filter"}, s \in S, t \in T}
    \cup {NamedAs(MemberCallContext, "map", <<s, A, t, A>>) : s \in S, t \in T}

Atoms == {A, One, MinusOne, Bad, Field, OptField_}
Few   == {A, OptField_}

Chains == {Over1(context, [i \in 1..n |-> IF i = k THEN s ELSE A]) :
             context \in {ConditionalOrContext, ConditionalAndContext}, n \in 2..4, k \in 1..4,
             s \in {A, Bad, Brackets(Over1(ConditionalOrContext, <<A, One>>)),
                    NamedAs(MemberCallContext, "exists", <<A, A, Field>>)}}

\* in brackets where the grammar wants them
Inner == {IF Tightness(s) < 7 THEN Brackets(s) ELSE s : s \in Over(Few, Few)}

\* operators side by side
Contexts == {RelationContext(op) : op \in {"<", "in"}} \cup {CalcContext(op) : op \in {"+", "-", "*"}}
              \cup {ConditionalOrContext, ConditionalAndContext}
Infix(S, T) == {Over1(c, <<s, t>>) : c \in Contexts, s \in S, t \in T}
                 \cup {Over1(ExprContext, <<s, t, s>>) : s \in S, t \in T}
Terms == {A, MinusOne, Over1(NegateContext(1), <<A>>)}
Beside == Infix(Infix({A}, Terms) \cup Terms, {A, MinusOne}) \cup Infix({A, MinusOne}, Infix(Terms, {A}) \cup Terms)

\* literals
Plain_   == {<<"a">>, <<"'">>, <<"\"">>}
Escaped_ == {<<"\\">> \o e : e \in {<<"n">>, <<"'">>, <<"\"">>, <<"\\">>, <<"X", "2", "0">>, <<"x", "e", "9">>,
                                    <<"u", "d", "8", "0", "0">>, <<"1", "0", "1">>}}
OfQuote(q) == {[i \in 1..n |-> q] : n \in {1, 3}}
Bodies(q) == {b \in {<<>>} \cup Plain_ \cup Escaped_ \cup {x \o y : x, y \in Plain_ \cup Escaped_ \cup {<<"eacute">>}} :
                 Len(q) = 1 => <<q[1]>> \notin ToSet(Pieces(b))}
RawBodies(q) == {b \in {x \o y : x, y \in Plain_ \cup {<<"\\">>, <<"n">>}} : Len(q) = 1 => q[1] \notin ToSet(b)}
\* a body that ends with its quote would end three of them early
EndsWell(q, b) == Len(q) = 3 /\ b # <<>> => Last(b) # q[1] \/ (Len(b) > 1 /\ b[Len(b) - 1] = "\\")
Strings == UNION {{q \o b \o q : b \in {x \in Bodies(q) : EndsWell(q, x)}}
                    \cup {<<"r">> \o q \o b \o q : b \in {x \in RawBodies(q) : Len(q) = 3 => Last(x) # q[1]}} :
                  q \in UNION {OfQuote(x) : x \in Quotes}}
Numerals == {<<"1", "2", "7">>, <<"1", "2", "8">>, <<"0", "x", "7", "f">>, <<"0", "x", "8", "0">>}
MCLiterals ==
  {Text("STRING", t) : t \in Strings} \cup {Text("BYTES", <<"b">> \o t) : t \in Strings}
    \cup {Text("NUM_INT", sign \o n) : sign \in {<<>>, <<"-">>}, n \in Numerals}
    \cup {Text("NUM_UINT", n \o <<"u">>) : n \in Numerals \cup {<<"2", "5", "6">>}}
    \cup {Text("NUM_FLOAT", <<t>>) : t \in {"1.5", "1e999"}}
    \cup {Text(t, <<>>) : t \in {"true", "false", "null"}}

MCInfinite == {<<"1e999">>}

\* one expr inside the other
Deep == {Brackets(Over1(CreateListContext, <<Brackets(s), A>>)) : s \in {A, Brackets(A), Over1(IndexContext, <<A, Brackets(A)>>)}}

MCSources ==
  {s \in Atoms \cup {DotA} \cup Over(Atoms, Atoms) \cup Chains \cup Over(Inner, {A}) \cup Over({A}, Inner)
           \cup Beside \cup Deep \cup MCLiterals : Canonical(s)}

Alphabet == Id("a") \o <<Word("NUM_INT", <<"1">>)>> \o P("-") \o P("?") \o P(":") \o P(",") \o P(".")
              \o P("[") \o P("]") \o P("{") \o P("}")
AnyOf(n) == UNION {[1..k -> ToSet(Alphabet)] : k \in 1..n}
Beginnings ==
  {P("[") \o Id("a"), P("{") \o Id("a") \o P(":"), Id("a") \o P("?") \o Id("a"),
   Id("a") \o P("{"), P("-") \o P("-"), P(".") \o Id("a")}
MCInputs == AnyOf(3) \cup {Id("a") \o P(".") \o t : t \in AnyOf(3)}
              \cup {s \o t : s \in Beginnings, t \in AnyOf(2)}
=============================================================================
