----------------------------- MODULE Expressions ----------------------------
(***************************************************************************)
(* Expression trees (common/ast/mod.rs), the trees the macros expand to    *)
(* (parser/macros.rs) and the names an expression refers to                *)
(* (parser/references.rs).  An expression is a record whose field `op`     *)
(* names its kind; a call with a target is the kind "member".              *)
(***************************************************************************)
EXTENDS Values

Lit(v)                   == [op |-> "lit", value |-> v]
Var(name)                == [op |-> "ident", name |-> name]
CallOf(func, args)       == [op |-> "call", func |-> func, args |-> args]
MemberOf(t, func, args)  == [op |-> "member", func |-> func, target |-> t, args |-> args]
SelectOf(operand, field) == [op |-> "select", operand |-> operand, field |-> field, test |-> FALSE]
HasField(operand, field) == [op |-> "select", operand |-> operand, field |-> field, test |-> TRUE]

\* `optional` holds the positions of the elements, or entries, marked with ?
ListExpr(elements, optional) == [op |-> "list", elements |-> elements, optional |-> optional]
MapExpr(entries, optional)   == [op |-> "map", entries |-> entries, optional |-> optional]

\* `fields` names them, `entries` has the value of each.
StructExpr(name, fields, entries, optional) ==
  [op |-> "struct", name |-> name, fields |-> fields, entries |-> entries, optional |-> optional]

Comprehension(range, v, init, cond, step, result) ==
  [op |-> "fold", iter_range |-> range, iter_var |-> v, accu_var |-> "@result",
   accu_init |-> init, loop_cond |-> cond, loop_step |-> step, result |-> result]

\* The direct subexpressions, the target of a call first.
Operands(e) ==
  CASE e.op \in {"lit", "ident"} -> {}
    [] e.op = "call"   -> {e.args[i] : i \in DOMAIN e.args}
    [] e.op = "member" -> {e.target} \cup {e.args[i] : i \in DOMAIN e.args}
    [] e.op = "select" -> {e.operand}
    [] e.op = "list"   -> {e.elements[i] : i \in DOMAIN e.elements}
    [] e.op \in {"map", "struct"} -> {e.entries[i] : i \in DOMAIN e.entries}
    [] e.op = "fold"   -> {e.iter_range, e.accu_init, e.loop_cond, e.loop_step, e.result}

\* Bound: expressions are nested in one another at most MaxDepth deep.
MaxDepth == 12

\* The expressions that Below leads to from e, itself included.
Reached(e, Below(_)) ==
  LET Up[n \in 0..MaxDepth] ==
        IF n = 0 THEN {e} ELSE LET S == Up[n - 1] IN S \cup UNION {Below(x) : x \in S}
  IN Up[MaxDepth]

\* The expression and all it is made of.
Subexpressions(e) == Reached(e, Operands)

-----------------------------------------------------------------------------
(* The macros, with the names their expanders use. *)

Accu   == Var("@result")
True   == Lit(BoolVal(TRUE))
False  == Lit(BoolVal(FALSE))
EmptyListExpr == ListExpr(<<>>, {})

Choose(cond, then, else) == CallOf("_?_:_", <<cond, then, else>>)
NotFalse(e) == CallOf("@not_strictly_false", <<e>>)
Push(e)     == CallOf("_+_", <<Accu, ListExpr(<<e>>, {})>>)

Exists(range, v, pred) ==
  Comprehension(range, v, False, NotFalse(CallOf("!_", <<Accu>>)),
                CallOf("_||_", <<Accu, pred>>), Accu)

All(range, v, pred) ==
  Comprehension(range, v, True, NotFalse(Accu), CallOf("_&&_", <<Accu, pred>>), Accu)

ExistsOne(range, v, pred) ==
  Comprehension(range, v, Lit(IntOf(0)), True,
                Choose(pred, CallOf("_+_", <<Accu, Lit(IntOf(1))>>), Accu),
                CallOf("_==_", <<Accu, Lit(IntOf(1))>>))

Map(range, v, func) ==
  Comprehension(range, v, EmptyListExpr, True, Push(func), Accu)

MapFilter(range, v, pred, func) ==
  Comprehension(range, v, EmptyListExpr, True, Choose(pred, Push(func), Accu), Accu)

Filter(range, v, pred) ==
  Comprehension(range, v, EmptyListExpr, True, Choose(pred, Push(Var(v)), Accu), Accu)
-----------------------------------------------------------------------------
(* References: what an expression and its subexpressions name.  Names that *)
(* begin with @ are made by macros and are no references.                  *)

Internal == {"@result"}

Identifiers(S) == {e.name : e \in {x \in S : x.op = "ident"}}

Called(S) == {e.func : e \in {x \in S : x.op \in {"call", "member"}}}

\* Faulty: the variable of a comprehension is taken off everywhere, its range included.
ReferencesOutsideFolds(e) ==
  LET S == Subexpressions(e)
  IN [variables |-> Identifiers(S) \ (Internal \cup {x.iter_var : x \in {y \in S : y.op = "fold"}}),
      functions |-> Called(S)]

References(e) ==
  LET S == Subexpressions(e)
  IN [variables |-> Identifiers(S) \ Internal, functions |-> Called(S)]
-----------------------------------------------------------------------------
(* What the parser makes. *)

\* A list of operands is a sequence; a macro's accumulator is the variable of the macro's own
\* comprehension, and nothing is called on it.
IsExpression(e) ==
  /\ e.op \in {"call", "member"} => IsSequence(e.args)
  /\ e.op = "member" => Identifiers({e.target}) \cap Internal = {}
  /\ e.op = "list" => IsSequence(e.elements)
  /\ e.op \in {"map", "struct"} => IsSequence(e.entries)
  /\ e.op = "fold" => e.accu_var = "@result"
  /\ e.op \in {"lit", "ident", "call", "member", "select", "list", "map", "struct", "fold"}

\* The operands a comprehension evaluates before it opens its scope, and all those of others.
OuterOperands(e) == IF e.op = "fold" THEN {e.accu_init, e.iter_range} ELSE Operands(e)

\* What an expression evaluates outside its comprehensions' scopes.
Outside(e) == Reached(e, OuterOperands)

\* Whole expressions: the accumulators in them belong to comprehensions around them.
IsProgram(p) ==
  /\ \A e \in Subexpressions(p) : IsExpression(e) /\ Operands(e) \subseteq Subexpressions(p)
  /\ \A e \in Outside(p) : OuterOperands(e) \subseteq Outside(p)
  /\ Identifiers(Outside(p)) \cap Internal = {}
=============================================================================
