----------------------------- MODULE MCEvaluator ----------------------------
(* Expressions over two variables and a comprehension's, with functions that succeed, fail or *)
(* are not declared; the root context knows x, and y in some way or not at all, and may have  *)
(* a resolver, which answers with a value or with a function.                                 *)
EXTENDS Evaluator

MCNames == {"x", "y", "v", "w", "optional", "@result"}

Bindings(values) == [n \in MCNames |-> IF n \in DOMAIN values THEN Some(values[n]) ELSE Absent]

Level(variables, resolver) == [variables |-> Bindings(variables), resolver |-> Bindings(resolver)]

One  == IntOf(1)
Two  == IntOf(2)
OneTwo == ListOf(<<One, Two>>)
Pairs  == MapOf(StrOf("a") :> One @@ StrOf("b") :> BoolVal(TRUE))

\* A struct of the host, which may hold an optional as it is.
MCFieldNames == <<"a", "b", "c", "o">>
MCStructDefs ==
  "Conf" :> [fields   |-> "a" :> "int" @@ "b" :> "list" @@ "o" :> "optional",
             defaults |-> "o" :> OptSome(One)] @@
  "Box"  :> [fields |-> "a" :> "Conf", defaults |-> <<>>]
Conf == StructOf("Conf", "a" :> One @@ "o" :> OptSome(OneTwo))

MCRoots == {
  Level("x" :> OneTwo, <<>>),
  Level("x" :> One @@ "y" :> One, "y" :> OneTwo),
  [Level("x" :> IntOf(0) @@ "y" :> Conf, <<>>) EXCEPT !.resolver["v"] = Panic],
  Level("x" :> Pairs @@ "y" :> OptSome(OneTwo) @@ "v" :> Two, <<>>)}

\* functions of the context: f fails on what is not 1, x.g takes no target, h wants one
MCCtxFunctions == {"f", "x.g", "h"}
MCRunFunction(name, target, args) ==
  CASE name = "f"   -> IF args # <<>> /\ args[1][2] = One THEN Own(BoolVal(TRUE))
                       ELSE Err("FunctionError")
    [] name = "x.g" -> Own(StrOf("qualified"))
    [] name = "h"   -> IF target = <<>> THEN Err("MissingArgument") ELSE Own(IntoOwned(target[1]))

Overload(id, member, args) == [id |-> id, member |-> member, args |-> args]
MCDecls ==
  "optional.of"   :> <<Overload("optional_of", FALSE, <<"dyn">>)>> @@
  "optional.ofNonZeroValue" :> <<Overload("optional_ofNonZeroValue", FALSE, <<"dyn">>)>> @@
  "optional.none" :> <<Overload("optional_none", FALSE, <<>>)>> @@
  "orValue"       :> <<Overload("optional_or_value", TRUE, <<"optional", "dyn">>)>> @@
  "size"          :> <<Overload("size_list", FALSE, <<"list">>), Overload("list_size", TRUE, <<"list">>)>>
-----------------------------------------------------------------------------
X == Var("x")
Y == Var("y")
V == Var("v")
N(n) == Lit(IntOf(n))

Fails == CallOf("f", <<N(2)>>)
Atoms == {True, False, N(1), Y, Fails, CallOf("f", <<X>>)}

Connectives ==
  LET ops == {"_||_", "_&&_"}
      inner == {CallOf(op, <<a, b>>) : op \in ops, a \in Atoms, b \in Atoms}
  IN {CallOf(op, <<a, i>>) : op \in ops, a \in Atoms, i \in inner}
       \cup {CallOf(op, <<i, a>>) : op \in ops, a \in Atoms, i \in inner}
       \cup {CallOf("!_", <<i>>) : i \in inner}
       \cup {Choose(i, N(1), Fails) : i \in inner}

Tests == {CallOf("_<_", <<V, N(2)>>), CallOf("f", <<V>>), CallOf("_==_", <<V, X>>),
          V, CallOf("f", <<Y>>)}

Folds(ranges, v, tests) ==
  {Exists(r, v, t) : r \in ranges, t \in tests} \cup {All(r, v, t) : r \in ranges, t \in tests}
    \cup {ExistsOne(r, v, t) : r \in ranges, t \in tests}
    \cup {Filter(r, v, t) : r \in ranges, t \in tests}
    \cup {Map(r, v, t) : r \in ranges, t \in tests}
    \cup {MapFilter(r, v, t, CallOf("_+_", <<V, V>>)) : r \in ranges, t \in tests}

Ranges == {X, Y, V, EmptyListExpr, ListExpr(<<N(1), Fails>>, {}), ListExpr(<<N(2), True, Y>>, {})}

\* nested ones: the inner range depends on the outer variable, or the inner variable hides it
Nested ==
  {Map(X, "v", f) : f \in Folds({Y, V}, "v", {CallOf("_<_", <<V, N(2)>>)})}
    \cup Folds({X, Filter(Y, "v", CallOf("_<_", <<V, N(2)>>))}, "w",
               {Exists(X, "v", CallOf("_==_", <<V, Var("w")>>)),
                All(Y, "w", CallOf("_<_", <<V, Var("w")>>)),
                CallOf("_==_", <<Map(X, "v", Var("w")), Filter(Y, "w", CallOf("f", <<Var("w")>>))>>)})
    \cup Folds({X, Y}, "x", {CallOf("f", <<X>>), Exists(X, "v", V), All(Y, "v", CallOf("_<_", <<V, X>>))})

Calls ==
  {MemberOf(t, name, args) : t \in {X, Y, Var("optional"), N(1)}, name \in {"g", "h", "of", "size"},
                             args \in {<<>>, <<X>>, <<Fails>>}}
    \cup {CallOf(name, args) : name \in {"f", "h", "nope", "size"}, args \in {<<>>, <<X>>, <<Y, Fails>>}}
    \cup {MemberOf(t, "orValue", <<N(1)>>) : t \in {X, Y, MemberOf(Var("optional"), "none", <<>>)}}

A == Lit(StrOf("a"))

Optionals == {Y, MemberOf(Var("optional"), "of", <<X>>), MemberOf(Var("optional"), "none", <<>>)}

Contents ==
  {CallOf(op, <<c, i>>) : op \in {"_[_]", "_[?_]", "_?._"}, c \in {X} \cup Optionals,
                          i \in {N(0), N(2), Lit(UintOf(1)), A, Fails}}
    \cup {SelectOf(c, "a") : c \in {X, Y}} \cup {HasField(c, "b") : c \in {X, Y}}
    \cup {ListExpr(<<a, b>>, o) : a \in {X} \cup Optionals, b \in {N(1), Y, Fails}, o \in {{}, {1}, {1, 2}}}
    \cup {MapExpr(<<k, a, A, b>>, o) : k \in {A, X, N(1)}, a \in {N(1)} \cup Optionals, b \in {Y, N(2)},
                                       o \in {{}, {1}, {2}}}
    \cup {CallOf(op, <<a, b>>) : op \in {"_==_", "_!=_", "_+_", "_-_", "_>_", "_>=_", "_<=_", "@in"},
                                 a \in {X, N(1)}, b \in {Y, X, Lit(Null)}}
    \cup {CallOf("-_", <<a>>) : a \in {X, Y, Fails}}

ConfOf(fields, values) == StructExpr("Conf", fields, values, {})
FieldValues == {<<f, e>> : f \in {"a", "b", "o"}, e \in {X, N(2), Fails} \cup Optionals}

Structures ==
  {ConfOf(<<>>, <<>>), StructExpr("Nope", <<"a">>, <<Fails>>, {})}
    \cup {StructExpr("Conf", <<p[1]>>, <<p[2]>>, o) : p \in FieldValues, o \in {{}, {1}}}
    \cup {ConfOf(<<p[1], q[1]>>, <<p[2], q[2]>>) : p \in FieldValues,
                                                   q \in {<<"a", N(1)>>, <<"b", X>>, <<"c", Y>>}}
    \cup {StructExpr("Box", <<"a">>, <<e>>, {}) : e \in {X, Y, ConfOf(<<>>, <<>>)}}

OfStructs ==
  LET owned == {ConfOf(<<"a", "o">>, <<N(2), Y>>), ConfOf(<<"b", "o">>, <<X, CallOf("f", <<X>>)>>),
                StructExpr("Box", <<"a">>, <<Y>>, {})}
  IN {SelectOf(c, f) : c \in {Y} \cup owned, f \in {"a", "o"}}
       \cup {HasField(c, f) : c \in {Y} \cup owned, f \in {"a", "b"}}
       \cup {CallOf(op, <<c, i>>) : op \in {"_[_]", "_[?_]", "_?._"}, c \in {Y} \cup owned,
                                    i \in {N(0), A, Lit(StrOf("o")), Fails}}
       \cup {CallOf(op, <<c, d>>) : op \in {"_==_", "_+_"}, c \in {Y, ConfOf(<<"a">>, <<N(1)>>)},
                                    d \in {Y} \cup owned \cup {ConfOf(<<"a">>, <<N(1)>>)}}
       \cup {MemberOf(Var("optional"), "ofNonZeroValue", <<c>>) : c \in {Y} \cup owned}
       \cup {Exists(ListExpr(<<c, Y>>, {}), "v", CallOf("_==_", <<SelectOf(V, "a"), X>>)) : c \in owned}

Arithmetics ==
  {CallOf(op, <<a, b>>) : op \in {"_*_", "_/_", "_%_"}, a \in {X, N(7), N(-7)},
                          b \in {X, Y, N(0), N(2), N(-2), Fails}}

MCPrograms ==
  Connectives \cup Folds(Ranges, "v", Tests) \cup Nested \cup Calls \cup Contents
    \cup Structures \cup OfStructs \cup Arithmetics
-----------------------------------------------------------------------------
(* The meaning, as the equations give it. *)

MCResults(e, env) == LET results == ResultsOf(e, env) IN results
MCPasses(e, env, items, taken) == LET results == PassesOf(e, env, items, taken) IN results
=============================================================================
