----------------------------- MODULE Invocation -----------------------------
(***************************************************************************)
(* What evaluation invokes: the functions of the environment, of which an  *)
(* overload is found by the types of the arguments, the functions added to *)
(* the context, and the definitions of structs (Env and Context, as        *)
(* Value::resolve_val in cel/src/objects.rs calls them).                   *)
(***************************************************************************)
EXTENDS Expressions, Contexts, SequencesExt

CONSTANTS
  Decls,          \* the functions of the environment: name -> sequence of overloads
  CtxFunctions,   \* the functions added to the context
  RunFunction(_, _, _), \* what such a function returns: its name, target and arguments
  FieldNames,     \* the names of fields, in their order
  StructDefs      \* the structs of the environment: name -> [fields, defaults]

\* Context::get_variable: a value, or Absent.
Some(v) == <<"some", v>>

NoResult == <<"none">>

UndeclaredReference == "UndeclaredReference"

\* The environment's dispatch, on what is declared here.
Types == {"bool", "int", "string", "list", "map", "struct", "null", "optional", "dyn"}
Env == INSTANCE Overloads WITH
         FunctionNames <- DOMAIN Decls,
         Ids <- {}, ValueTypes <- Types \ {"dyn"}, Dyn <- "dyn", Opaque <- {"optional"},
         FirstParameter <- [t \in {"optional"} |-> "dyn"],
         MaxArity <- 0, MaxOverloads <- 0, decls <- Decls, answer <- "none"

FindOverload(name, member, args) ==
  IF name \in DOMAIN Decls
  THEN Env!FindOverload(name, member, [i \in DOMAIN args |-> TypeOf(args[i][2])])
  ELSE Env!NoOverload

\* The overloads of the standard library that are modelled, by their id; `a` holds the
\* arguments, still owned or lent.
RunOp(id, a) ==
  CASE id = "optional_none"          -> Own(OptNone)
    [] id = "optional_of"            -> Own(OptSome(IntoOwned(a[1])))
    [] id = "optional_ofNonZeroValue" ->
         Own(IF IsZero(a[1][2]) THEN OptNone ELSE OptSome(IntoOwned(a[1])))
    [] id = "optional_value"         ->
         IF TypeOf(a[1][2]) # "optional" THEN Panic
         ELSE IF a[1][2] = OptNone THEN Err("FunctionError")
         ELSE Own(Clone(a[1][2]))
    [] id = "optional_has_value"     ->
         IF TypeOf(a[1][2]) # "optional" THEN Err("UnexpectedType")
         ELSE Own(BoolVal(a[1][2] # OptNone))
    [] id = "optional_or_optional"   ->
         IF TypeOf(a[1][2]) # "optional" THEN Panic
         ELSE IF a[1][2] # OptNone THEN a[1] ELSE a[2]
    [] id = "optional_or_value"      ->
         IF TypeOf(a[1][2]) # "optional" THEN Panic
         ELSE IF a[1][2] # OptNone THEN Own(Clone(a[1][2])) ELSE a[2]
    [] id \in {"size_list", "list_size"} -> Own(IntOf(Len(a[1][2][2])))

Arity == [
  optional_none |-> 0, optional_of |-> 1, optional_ofNonZeroValue |-> 1, optional_value |-> 1,
  optional_has_value |-> 1, optional_or_optional |-> 2, optional_or_value |-> 2,
  size_list |-> 1, list_size |-> 1]

\* The target of a member is among the arguments it is declared with.
ASSUME DeclsAssumption ==
  \A name \in DOMAIN Decls :
    /\ IsSequence(Decls[name])
    /\ \A i \in DOMAIN Decls[name] :
         /\ Decls[name][i].id \in DOMAIN Arity
         /\ Len(Decls[name][i].args) = Arity[Decls[name][i].id]

\* An overload of the environment goes before a function of the context.
Dispatch(name, member, target, args) ==
  LET o == FindOverload(name, member, target \o args)
  IN IF o # Env!NoOverload THEN RunOp(o.id, target \o args)
     ELSE IF name \in CtxFunctions THEN Mine(RunFunction(name, target, args))
     ELSE Err(UndeclaredReference)

Found(name, member, args) ==
  FindOverload(name, member, args) # Env!NoOverload \/ name \in CtxFunctions
-----------------------------------------------------------------------------
(* Structs. *)

\* The type a value says it has: that of a struct is its name.
TypeName(v) == IF TypeOf(v) = "struct" THEN v[2][1] ELSE TypeOf(v)

\* A value as new_struct takes it, by its type; the struct keeps it as its own.
Typed(r) == [type |-> TypeName(r[2]), from |-> r]

Def(name) == [fields   |-> StructDefs[name].fields,
              defaults |-> [f \in DOMAIN StructDefs[name].defaults |->
                              Typed(Lent(StructDefs[name].defaults[f]))]]

\* The definition called `name`, as the environment holds it.
Definition(name) ==
  INSTANCE Structs WITH
    Fields <- FieldNames, fields <- Def(name).fields, defaults <- Def(name).defaults,
    built <- TRUE, provided <- <<>>, result <- NoResult

NewStruct(name, given) ==
  LET made == Definition(name)!Made([f \in DOMAIN given |-> Typed(given[f])])
  IN IF ~made.ok THEN Err(made.error)
     ELSE Own(StructOf(name, [f \in DOMAIN made.fields |-> IntoOwned(made.fields[f].from)]))
-----------------------------------------------------------------------------
(* Operators, by the names of the functions they are calls of. *)

ArithmeticOps == {"_-_", "_*_", "_/_", "_%_"}
BinaryOps == ArithmeticOps \cup {"_==_", "_!=_", "_+_", "_<_", "_<=_", "_>_", "_>=_", "@in"}

Operators ==
  BinaryOps \cup {"_?_:_", "_||_", "_&&_", "@not_strictly_false", "!_", "-_", "_[_]", "_[?_]", "_?._"}

\* The results a binary operator may come to.
Binary(op, l, r) ==
  CASE op = "_==_" -> {Ok(BoolVal(Equals(l, r)))}
    [] op = "_!=_" -> {Ok(BoolVal(~Equals(l, r)))}
    [] op = "_+_"  -> Sums(l, r)
    [] op \in ArithmeticOps -> {IntArithmetic(op, l, r)}
    [] op = "_<_"  -> {Compared(l, r, LAMBDA m, n : m < n)}
    [] op = "_<=_" -> {Compared(l, r, LAMBDA m, n : m <= n)}
    [] op = "_>_"  -> {Compared(l, r, LAMBDA m, n : m > n)}
    [] op = "_>=_" -> {Compared(l, r, LAMBDA m, n : m >= n)}
    [] op = "@in"  -> {ContainsVal(r, l)}

Negated(v) ==
  CASE TypeOf(v) = "int"  -> Ok(IntOf(-v[2]))
    [] TypeOf(v) = "bool" -> Ok(BoolVal(~v[2]))
    [] OTHER              -> Err(NoSuchOverload)

\* An entry overwrites what an earlier one put at its key.
MapWith(map, k, contributed) ==
  IF contributed = <<>> THEN map
  ELSE [x \in DOMAIN map \cup {k} |-> IF x = k THEN contributed[1] ELSE map[x]]

\* The map of what is contributed for each key.
Collected(keys, contributed) ==
  LET Table[n \in 0..Len(keys)] ==
        IF n = 0 THEN <<>> ELSE MapWith(Table[n - 1], keys[n], contributed[n])
  IN Table[Len(keys)]
=============================================================================
