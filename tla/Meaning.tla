------------------------------ MODULE Meaning -------------------------------
(***************************************************************************)
(* What an expression means, said without evaluating it step by step: the  *)
(* set of results it may have in an environment.  The environment is a     *)
(* function from names to values that comprehensions extend; there is no   *)
(* order among operands, so of several errors any may be the result; || and *)
(* && are symmetric, and an operand that decides them hides what the other *)
(* comes to.  A copy of an optional may have lost its wrapping, and where  *)
(* copies are made is left open.                                           *)
(*                                                                         *)
(* The meaning of an expression is an equation between its results and     *)
(* those of its operands: Results is what satisfies these equations.       *)
(***************************************************************************)
EXTENDS Invocation

CONSTANTS
  Results(_, _),       \* the results of an expression in an environment
  Passes(_, _, _, _)   \* those of a comprehension that has gone through so many items

Copies(v) == {v, Clone(v)}
OkAny(S)  == {Ok(v) : v \in S}

Errors(S)   == {r \in S : Failed(r)}
ValuesIn(S) == {r[2] : r \in {x \in S : ~Failed(x)}}

\* The operands' errors, and every way of choosing one of each set.
Faults(sets) == UNION {Errors(sets[i]) : i \in DOMAIN sets}

Selections(sets) ==
  {f \in [DOMAIN sets -> UNION {sets[i] : i \in DOMAIN sets}] :
     \A i \in DOMAIN sets : f[i] \in sets[i]}

OperandValues(sets) == Selections([i \in DOMAIN sets |-> ValuesIn(sets[i])])

\* A function is given its arguments lent or its own; a result that is lent may be copied.
Handed(S) == {Own(v) : v \in ValuesIn(S)} \cup {Lent(v) : v \in ValuesIn(S)}
Arguments(sets) == Selections([i \in DOMAIN sets |-> Handed(sets[i])])

Passed(r) ==
  IF Failed(r) THEN {r} ELSE OkAny(IF r = Lent(r[2]) THEN Copies(r[2]) ELSE {r[2]})
-----------------------------------------------------------------------------
(* Operators, by the results of their operands. *)

OfTernary(c, t, f) ==
  UNION {IF Failed(TryBool(x)) THEN {TryBool(x)} ELSE IF x = OkTrue THEN t ELSE f : x \in c}

\* The connectives, decided by either operand; otherwise both are true (false), or what is
\* no bool is an error.
Connected(decisive, l, r) ==
  IF l = decisive \/ r = decisive THEN {decisive}
  ELSE IF Failed(TryBool(l)) \/ Failed(TryBool(r))
       THEN {TryBool(x) : x \in {y \in {l, r} : Failed(TryBool(y))}}
       ELSE {r}

OfConnective(decisive, l, r) ==
  ({decisive} \cap (l \cup r)) \cup UNION {Connected(decisive, x, y) : x \in l, y \in r}

OfUnary(op, operand) ==
  Errors(operand)
    \cup {IF op = "!_" THEN LogicalNot(Ok(v)) ELSE Negated(v) : v \in ValuesIn(operand)}

OfBinary(op, l, r) ==
  Errors(l) \cup Errors(r) \cup UNION {Binary(op, v, w) : v \in ValuesIn(l), w \in ValuesIn(r)}

\* The element of a container, if it has it; the errors differ with who owns the container.
Element(r) == IF Failed(r) THEN {r} ELSE OkAny(Copies(r[2]))

ElementsAt(c, i) ==
  IF TypeOf(c) = "list" THEN Element(ListAt(c, i))
  ELSE IF TypeOf(c) = "struct" THEN Element(FieldAt(c, i))
  ELSE IF TypeOf(c) = "map" /\ TypeOf(i) \in KeyTypes THEN Element(MapAt(c, i))
  ELSE {Err(NoSuchOverload), Err("UnsupportedKeyType")}

Elements(c, i) == UNION {ElementsAt(c, k) : k \in Copies(i)}

InOptional(S) ==
  UNION {IF Failed(r) THEN {Ok(OptNone)} ELSE {Ok(OptSome(w)) : w \in Copies(r[2])} : r \in S}

Indexed(optional, c, i) ==
  IF TypeOf(c) = "optional" THEN InOptional(Elements(Clone(c), i))
  ELSE IF optional THEN InOptional(Elements(c, i))
  ELSE Elements(c, i)

\* An index matters only for something that can be indexed.
OfIndex(optional, container, index) ==
  Errors(container) \cup UNION {
    IF c = OptNone THEN {Ok(OptNone)}
    ELSE IF ~IsIndexer(IF TypeOf(c) = "optional" THEN Clone(c) ELSE c) THEN {Err(NoSuchOverload)}
    ELSE Errors(index) \cup UNION {Indexed(optional, c, i) : i \in ValuesIn(index)}
    : c \in ValuesIn(container)}

\* Of an optional, a field that is missing is an optional that holds an empty optional.
FieldOf(c, i) ==
  IF TypeOf(i) # "string" THEN {Err("FunctionError")}
  ELSE IF c = OptNone THEN {Ok(OptNone)}
  ELSE IF TypeOf(c) = "optional"
       THEN {IF Failed(r) THEN Ok(OptSome(OptNone)) ELSE Ok(OptSome(r[2])) : r \in Elements(c[2][1], i)}
  ELSE {IF Failed(r) THEN r ELSE Ok(OptSome(r[2])) : r \in Elements(c, i)}

OfOptSelect(container, index) ==
  Errors(container) \cup Errors(index)
    \cup UNION {FieldOf(c, i) : c \in ValuesIn(container), i \in ValuesIn(index)}

Field(test, c, field) ==
  IF test /\ TypeOf(c) = "map" THEN {ContainsVal(c, StrOf(field))}
  ELSE IF test /\ TypeOf(c) = "struct" THEN {Ok(BoolVal(field \in DOMAIN c[2][2]))}
  ELSE IF IsIndexer(c) THEN Elements(c, StrOf(field))
  ELSE {Err(NoSuchOverload)}

OfSelect(test, container, field) ==
  Errors(container) \cup UNION {Field(test, c, field) : c \in ValuesIn(container)}
-----------------------------------------------------------------------------
(* Literals. *)

\* What elements or entries, some of them optional, contribute.
Contributions(v, optional) ==
  IF optional /\ TypeOf(v) = "optional"
  THEN IF v = OptNone THEN {<<>>} ELSE {<<Clone(v)>>}
  ELSE {<<w>> : w \in Copies(v)}

OfList(elements, optional) ==
  Faults(elements) \cup UNION {
    {Ok(ListOf(FlattenSeq(f)))
       : f \in Selections([i \in DOMAIN v |-> Contributions(v[i], i \in optional)])}
    : v \in OperandValues(elements)}

\* The keys and values alternate.
AsKey(r) ==
  IF Failed(r) \/ TypeOf(r[2]) \in KeyTypes THEN r ELSE Err("UnsupportedKeyType")

Keyed(entries) ==
  [i \in DOMAIN entries |-> IF i % 2 = 1 THEN {AsKey(r) : r \in entries[i]} ELSE entries[i]]

MapsOf(v, optional) ==
  LET n == Len(v) \div 2
  IN {Ok(MapOf(Collected([i \in 1..n |-> v[2 * i - 1]], f)))
        : f \in Selections([i \in 1..n |-> Contributions(v[2 * i], i \in optional)])}

OfMap(entries, optional) ==
  Faults(Keyed(entries)) \cup UNION {MapsOf(v, optional) : v \in OperandValues(Keyed(entries))}

\* Of two values for one field the last counts.
Provisions(fields, g) ==
  {p \in [{fields[i] : i \in DOMAIN g} -> {g[i] : i \in DOMAIN g}] :
     \A i \in DOMAIN g :
       (\A j \in DOMAIN g : j > i => fields[j] # fields[i]) => p[fields[i]] = g[i]}

OfStruct(name, fields, entries) ==
  IF name \notin DOMAIN StructDefs THEN {Err("UnexpectedType")}
  ELSE Faults(entries) \cup UNION {
         {Plain(NewStruct(name, p)) : p \in Provisions(fields, g)} : g \in Arguments(entries)}
-----------------------------------------------------------------------------
(* Calls. *)

\* Nothing comes of a panic.
Answers(name, member, target, args) ==
  LET r == Dispatch(name, member, target, args) IN IF r = Panic THEN {} ELSE Passed(r)

OfCall(name, args) ==
  Faults(args) \cup UNION {Answers(name, FALSE, <<>>, g) : g \in Arguments(args)}

\* A target that only is the prefix of a function's name is not evaluated.
OfMember(name, qualified, target, args) ==
  Faults(args) \cup UNION {
    IF qualified # "" /\ Found(qualified, FALSE, g)
    THEN Answers(qualified, FALSE, <<>>, g)
    ELSE Errors(target) \cup UNION {Answers(name, TRUE, <<t>>, g) : t \in Handed(target)}
    : g \in Arguments(args)}
-----------------------------------------------------------------------------
(* Comprehensions. *)

\* After the loop condition of a round; env binds the comprehension's variables.
Stepped(e, env, items, taken) ==
  UNION {IF Failed(s) THEN {s}
         ELSE Passes(e, [env EXCEPT ![e.accu_var] = Some(Clone(s[2]))], items, taken)
         : s \in Results(e.loop_step, env)}

PassesOf(e, env, items, taken) ==
  IF taken = Len(items) THEN Results(e.result, env)
  ELSE UNION {
    IF Failed(TryBool(c)) THEN {TryBool(c)}
    ELSE IF c = OkFalse THEN Results(e.result, env)
    ELSE Stepped(e, [env EXCEPT ![e.iter_var] = Some(Clone(items[taken + 1]))], items, taken + 1)
    : c \in Results(e.loop_cond, env)}

Folded(e, env, init, range) ==
  IF ~IsIterable(range) THEN {Err(NoSuchOverload)}
  ELSE UNION {Passes(e, [env EXCEPT ![e.accu_var] = Some(Clone(init))], items, 0)
              : items \in Iterations(range)}

OfFold(e, env) ==
  LET init  == Results(e.accu_init, env)
      range == Results(e.iter_range, env)
  IN Errors(init) \cup Errors(range)
       \cup UNION {Folded(e, env, a, v) : a \in ValuesIn(init), v \in ValuesIn(range)}
-----------------------------------------------------------------------------
Each(es, env) == [i \in DOMAIN es |-> Results(es[i], env)]

OfIdent(v) ==
  IF v = Absent THEN {Err(UndeclaredReference)}
  ELSE IF v = Panic THEN {}
  ELSE OkAny(Copies(v[2]))

OfOperator(op, args, env) ==
  LET Of(i) == Results(args[i], env)
  IN
  CASE op = "_?_:_"               -> OfTernary(Of(1), Of(2), Of(3))
    [] op = "_||_"                -> OfConnective(OkTrue, Of(1), Of(2))
    [] op = "_&&_"                -> OfConnective(OkFalse, Of(1), Of(2))
    [] op = "@not_strictly_false" -> {NotStrictlyFalse(r) : r \in Of(1)}
    [] op \in {"!_", "-_"}        -> OfUnary(op, Of(1))
    [] op \in {"_[_]", "_[?_]"}   -> OfIndex(op = "_[?_]", Of(1), Of(2))
    [] op = "_?._"                -> OfOptSelect(Of(1), Of(2))
    [] op \in BinaryOps           -> OfBinary(op, Of(1), Of(2))

QualifiedName(e) == IF e.target.op = "ident" THEN e.target.name \o "." \o e.func ELSE ""

\* The results of e in env.
ResultsOf(e, env) ==
  CASE e.op = "lit"    -> OkAny(Copies(e.value))
    [] e.op = "ident"  -> OfIdent(env[e.name])
    [] e.op = "call"   -> IF e.func \in Operators THEN OfOperator(e.func, e.args, env)
                          ELSE OfCall(e.func, Each(e.args, env))
    [] e.op = "member" -> OfMember(e.func, QualifiedName(e), Results(e.target, env), Each(e.args, env))
    [] e.op = "select" -> OfSelect(e.test, Results(e.operand, env), e.field)
    [] e.op = "list"   -> OfList(Each(e.elements, env), e.optional)
    [] e.op = "map"    -> OfMap(Each(e.entries, env), e.optional)
    [] e.op = "struct" -> OfStruct(e.name, e.fields, Each(e.entries, env))
    [] e.op = "fold"   -> OfFold(e, env)

\* Results and Passes are the meaning of the expressions in S.
IsMeaning(S) ==
  \A e \in S : \A env :
    /\ Results(e, env) = ResultsOf(e, env)
    /\ \A items : \A taken \in Nat :
         Passes(e, env, items, taken) = PassesOf(e, env, items, taken)
=============================================================================
