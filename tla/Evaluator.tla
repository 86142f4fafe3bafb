----------------------------- MODULE Evaluator ------------------------------
(***************************************************************************)
(* Evaluation of an expression tree: Value::resolve_val                    *)
(* (cel/src/objects.rs), its recursion laid out as a stack of frames.  A   *)
(* frame is an expression under evaluation with the results its operands   *)
(* have come to so far; a comprehension's frame also owns the inner scope  *)
(* it opened.  Every step looks at the frame on top: it starts the next    *)
(* operand or returns a result to the frame below.                         *)
(***************************************************************************)
EXTENDS Meaning

CONSTANTS
  Programs,       \* the expressions evaluated
  Roots,          \* the root contexts: [variables, resolver], over Names
  Names           \* the names of variables

ASSUME ProgramsAssumption ==
  \A p \in Programs :
    /\ IsProgram(p)
    /\ Identifiers(Subexpressions(p)) \subseteq Names
    /\ \A e \in Subexpressions(p) : e.op = "fold" => {e.iter_var, e.accu_var} \subseteq Names

VARIABLES
  program,
  root,     \* the root context; evaluation does not change it
  stack,    \* the frames, the outermost first
  out,      \* what resolve_val returned to its caller
  asked,    \* names looked up and not found in an inner scope
  invoked   \* names of functions dispatched to

vars == <<program, root, stack, out, asked, invoked>>

-----------------------------------------------------------------------------
(* Frames. *)

Closed == [phase |-> "init", level |-> EmptyLevel(Names),
           accu |-> NoResult, items |-> <<>>, taken |-> 0]

Frame(e) == [e |-> e, done |-> <<>>, fold |-> Closed]

Top    == stack[Len(stack)]
E      == Top.e
Done   == Top.done
Active == stack # <<>>

\* the result of the operand that returned last
Latest == Done[Len(Done)]
Broken == Done # <<>> /\ Failed(Latest)

IsCall(funcs, arity) ==
  Active /\ E.op = "call" /\ E.func \in funcs /\ Len(E.args) = arity

Start(e) == stack' = Append(stack, Frame(e)) /\ UNCHANGED out

Return(r) ==
  IF r = Panic \/ Len(stack) = 1
  THEN stack' = <<>> /\ out' = r
  ELSE LET below == Front(stack)
       IN /\ stack' = [below EXCEPT ![Len(below)].done = Append(@, r)]
          /\ UNCHANGED out

\* Faulty: the results of a comprehension's operands are kept.
StartAboveKeepingResults(frame, e) ==
  /\ stack' = Append(Front(stack), frame) \o <<Frame(e)>>
  /\ UNCHANGED out

\* Keep the frame on top, its operands' results consumed, and start e above it.
StartAbove(frame, e) ==
  /\ stack' = Append(Front(stack), [frame EXCEPT !.done = <<>>]) \o <<Frame(e)>>
  /\ UNCHANGED out

Fixed == UNCHANGED <<program, root>>
Quiet == Fixed /\ UNCHANGED <<asked, invoked>>

\* Faulty: the outermost scope is asked first.
InnerReversed == [i \in DOMAIN stack |-> stack[Len(stack) + 1 - i].fold.level]

\* The inner scopes around the expression on top, innermost last; an expression that has opened
\* none counts as one without variables.
Inner == [i \in DOMAIN stack |-> stack[i].fold.level]
-----------------------------------------------------------------------------
Init ==
  /\ program \in Programs
  /\ root \in Roots
  /\ stack = <<Frame(program)>>
  /\ out = NoResult
  /\ asked = {}
  /\ invoked = {}

Literal ==
  /\ Active /\ E.op = "lit"
  /\ Return(IF E.value = Null THEN Own(Null) ELSE Lent(E.value))
  /\ Quiet

\* A variable is lent by the context, what a resolver answers is the evaluator's own, and an
\* answer that is a function panics.
Ident ==
  /\ Active /\ E.op = "ident"
  /\ LET inner == GetVariable(Inner, E.name)
         v     == IF inner # Absent THEN inner ELSE GetVariable(<<root>>, E.name)
     IN /\ asked' = IF inner = Absent THEN asked \cup {E.name} ELSE asked
        /\ Return(IF v = Absent THEN Err(UndeclaredReference)
                  ELSE IF v = Panic THEN Panic
                  ELSE IF inner = Absent /\ root.resolver[E.name] # Absent THEN Own(v[2])
                  ELSE Lent(v[2]))
  /\ Fixed /\ UNCHANGED invoked

\* The operands of the operators below are evaluated by need.
Ternary ==
  /\ IsCall({"_?_:_"}, 3)
  /\ CASE Len(Done) = 0 -> Start(E.args[1])
       [] Len(Done) = 1 ->
            LET c == TryBool(Plain(Done[1]))
            IN IF Failed(c) THEN Return(c)
               ELSE Start(IF c = OkTrue THEN E.args[2] ELSE E.args[3])
       [] OTHER         -> Return(Done[2])
  /\ Quiet

Connective ==
  /\ IsCall({"_||_", "_&&_"}, 2)
  /\ LET decisive == IF E.func = "_||_" THEN OkTrue ELSE OkFalse
         Connect(l, r) == IF E.func = "_||_" THEN LogicalOr(l, r) ELSE LogicalAnd(l, r)
     IN CASE Len(Done) = 0 -> Start(E.args[1])
          [] Len(Done) = 1 -> IF TryBool(Plain(Done[1])) = decisive THEN Return(Mine(decisive))
                              ELSE Start(E.args[2])
          [] OTHER         -> Return(Mine(Connect(Plain(Done[1]), Plain(Done[2]))))
  /\ Quiet

NotStrictly ==
  /\ IsCall({"@not_strictly_false"}, 1)
  /\ IF Done = <<>> THEN Start(E.args[1]) ELSE Return(Mine(NotStrictlyFalse(Plain(Done[1]))))
  /\ Quiet
-----------------------------------------------------------------------------
(* Strict operators: every operand in its order, the first error is the result. *)

Operator ==
  /\ IsCall(BinaryOps, 2)
  /\ IF Broken THEN Return(Latest)
     ELSE IF Len(Done) < 2 THEN Start(E.args[Len(Done) + 1])
     ELSE \E r \in Binary(E.func, Done[1][2], Done[2][2]) : Return(Mine(r))
  /\ Quiet

Unary ==
  /\ IsCall({"!_", "-_"}, 1)
  /\ IF Done = <<>> THEN Start(E.args[1])
     ELSE IF Broken THEN Return(Latest)
     ELSE Return(Mine(IF E.func = "!_" THEN LogicalNot(Plain(Done[1])) ELSE Negated(Done[1][2])))
  /\ Quiet

\* The container an index applies to: what an optional holds is copied out of it.
Container(r) ==
  IF TypeOf(r[2]) = "optional" THEN Own(Clone(r[2])) ELSE r

\* The index is evaluated only on something that can be indexed; its own error is never made
\* an empty optional.
Index ==
  /\ IsCall({"_[_]", "_[?_]"}, 2)
  /\ IF Done = <<>> THEN Start(E.args[1])
     ELSE IF Broken THEN Return(Latest)
     ELSE IF Len(Done) = 1
     THEN IF Done[1][2] = OptNone THEN Return(Own(OptNone))
          ELSE IF ~IsIndexer(Container(Done[1])[2]) THEN Return(Err(NoSuchOverload))
          ELSE Start(E.args[2])
     ELSE LET c == Container(Done[1])
              r == IF c[3] THEN Steal(c[2], Done[2][2]) ELSE Get(c[2], Done[2][2])
          IN IF E.func = "_[_]" /\ TypeOf(Done[1][2]) # "optional" THEN Return(r)
             ELSE IF Failed(r) THEN Return(Own(OptNone))
             ELSE Return(Own(OptSome(Clone(r[2]))))
  /\ Quiet

\* Of an optional, a field that is missing yields an optional that holds an empty optional.
OptSelected(operand, field) ==
  IF TypeOf(operand) # "optional"
  THEN IF ~IsIndexer(operand) THEN Err(NoSuchOverload)
       ELSE LET r == Get(operand, field)
            IN IF Failed(r) THEN r ELSE Own(OptSome(Clone(r[2])))
  ELSE IF operand = OptNone THEN Own(OptNone)
  ELSE IF ~IsIndexer(operand[2][1]) \/ Failed(Get(operand[2][1], field))
       THEN Own(OptSome(OptNone))
       ELSE Own(OptSome(Clone(Get(operand[2][1], field)[2])))

OptSelect ==
  /\ IsCall({"_?._"}, 2)
  /\ IF Broken THEN Return(Latest)
     ELSE IF Len(Done) < 2 THEN Start(E.args[Len(Done) + 1])
     ELSE IF TypeOf(Done[2][2]) # "string" THEN Return(Err("FunctionError"))
     ELSE Return(OptSelected(Done[1][2], Done[2][2]))
  /\ Quiet

Has(operand, key) ==
  IF TypeOf(operand) = "map" THEN Mine(ContainsVal(operand, key))
  ELSE IF TypeOf(operand) = "struct" THEN Own(BoolVal(~Failed(Get(operand, key))))
  ELSE IF ~IsIndexer(operand) THEN Err(NoSuchOverload)
  ELSE LET r == Get(operand, key) IN IF Failed(r) THEN r ELSE Own(Clone(r[2]))

Selected(operand, key) ==
  IF ~IsIndexer(operand) THEN Err(NoSuchOverload)
  ELSE LET r == Get(operand, key) IN IF Failed(r) THEN r ELSE Own(Clone(r[2]))

Select ==
  /\ Active /\ E.op = "select"
  /\ IF Done = <<>> THEN Start(E.operand)
     ELSE IF Broken THEN Return(Latest)
     ELSE IF E.test THEN Return(Has(Done[1][2], StrOf(E.field)))
     ELSE Return(Selected(Done[1][2], StrOf(E.field)))
  /\ Quiet

\* What an element or entry marked optional adds: nothing, what it holds, or itself.
Contributed(r, optional) ==
  IF optional /\ TypeOf(r[2]) = "optional"
  THEN IF r[2] = OptNone THEN <<>> ELSE <<Clone(r[2])>>
  ELSE <<IntoOwned(r)>>

ListLiteral ==
  /\ Active /\ E.op = "list"
  /\ IF Broken THEN Return(Latest)
     ELSE IF Len(Done) < Len(E.elements) THEN Start(E.elements[Len(Done) + 1])
     ELSE Return(Own(ListOf(FlattenSeq(
            [i \in DOMAIN Done |-> Contributed(Done[i], i \in E.optional)]))))
  /\ Quiet

\* The keys and values alternate; a value is made the evaluator's own before its contents are
\* looked at.
Entries(done, optional) ==
  LET n == Len(done) \div 2
  IN Collected([i \in 1..n |-> IntoOwned(done[2 * i - 1])],
               [i \in 1..n |-> Contributed(Own(IntoOwned(done[2 * i])), i \in optional)])

MapLiteral ==
  /\ Active /\ E.op = "map"
  /\ IF Broken THEN Return(Latest)
     ELSE IF Len(Done) % 2 = 1 /\ TypeOf(IntoOwned(Latest)) \notin KeyTypes
          THEN Return(Err("UnsupportedKeyType"))
     ELSE IF Len(Done) < Len(E.entries) THEN Start(E.entries[Len(Done) + 1])
     ELSE Return(Own(MapOf(Entries(Done, E.optional))))
  /\ Quiet
-----------------------------------------------------------------------------
(* Struct literals. *)

\* Of two values for one field the last counts.
Provided(names, results) ==
  [f \in {names[i] : i \in DOMAIN results} |->
     results[CHOOSE i \in DOMAIN results :
               names[i] = f /\ \A j \in i + 1..Len(results) : names[j] # f]]

\* A field marked optional is provided like any other.
StructLiteral ==
  /\ Active /\ E.op = "struct"
  /\ IF E.name \notin DOMAIN StructDefs THEN Return(Err("UnexpectedType"))
     ELSE IF Broken THEN Return(Latest)
     ELSE IF Len(Done) < Len(E.entries) THEN Start(E.entries[Len(Done) + 1])
     ELSE Return(NewStruct(E.name, Provided(E.fields, Done)))
  /\ Quiet
-----------------------------------------------------------------------------
(* Calls that are no operator. *)

Invoke(name, member, target, args) ==
  /\ Return(Dispatch(name, member, target, args))
  /\ invoked' = IF Found(name, member, target \o args) THEN invoked \cup {name} ELSE invoked

Call ==
  /\ Active /\ E.op = "call" /\ E.func \notin Operators
  /\ IF Broken THEN Return(Latest) /\ UNCHANGED invoked
     ELSE IF Len(Done) < Len(E.args) THEN Start(E.args[Len(Done) + 1]) /\ UNCHANGED invoked
     ELSE Invoke(E.func, FALSE, <<>>, Done)
  /\ Fixed /\ UNCHANGED asked

\* The arguments come first; then a function by the qualified name, with the target as a mere
\* prefix; only then the target itself.
MemberCall ==
  LET n         == Len(E.args)
      qualified == IF E.target.op = "ident" THEN E.target.name \o "." \o E.func ELSE ""
  IN /\ Active /\ E.op = "member"
     /\ IF Broken THEN Return(Latest) /\ UNCHANGED invoked
        ELSE IF Len(Done) < n THEN Start(E.args[Len(Done) + 1]) /\ UNCHANGED invoked
        ELSE IF Len(Done) = n /\ qualified # "" /\ Found(qualified, FALSE, Done)
             THEN Invoke(qualified, FALSE, <<>>, Done)
        ELSE IF Len(Done) = n THEN Start(E.target) /\ UNCHANGED invoked
        ELSE Invoke(E.func, TRUE, <<Done[n + 1]>>, SubSeq(Done, 1, n))
     /\ Fixed /\ UNCHANGED asked
-----------------------------------------------------------------------------
(* Comprehensions. *)

Fold == Top.fold
InFold(phase) == Active /\ E.op = "fold" /\ Fold.phase = phase

Bound(fold, name, v) == [fold EXCEPT !.level.variables[name] = Some(v)]

\* accu_init and iter_range are evaluated in the outer scope.
FoldInit ==
  /\ InFold("init")
  /\ IF Done = <<>> THEN Start(E.accu_init)
     ELSE IF Broken THEN Return(Latest)
     ELSE StartAbove([Top EXCEPT !.fold.phase = "range", !.fold.accu = Done[1]], E.iter_range)
  /\ Quiet

FoldOpen ==
  /\ InFold("range") /\ Done # <<>>
  /\ IF Broken THEN Return(Latest)
     ELSE IF ~IsIterable(Done[1][2]) THEN Return(Err(NoSuchOverload))
     ELSE \E items \in Iterations(Done[1][2]) :
            /\ stack' = Append(Front(stack), [Top EXCEPT
                 !.done = <<>>,
                 !.fold = Bound([Fold EXCEPT !.phase = "next", !.items = items],
                                E.accu_var, Clone(Fold.accu[2]))])
            /\ UNCHANGED out
  /\ Quiet

\* Faulty: the iterator is asked for its first item again.
FoldNextAgain ==
  /\ InFold("next")
  /\ IF Fold.items = <<>>
     THEN StartAbove([Top EXCEPT !.fold.phase = "result"], E.result)
     ELSE StartAbove([Top EXCEPT !.fold.phase = "cond", !.fold.taken = 1], E.loop_cond)
  /\ Quiet

\* items.next(), then the loop condition
FoldNext ==
  /\ InFold("next")
  /\ IF Fold.taken = Len(Fold.items)
     THEN StartAbove([Top EXCEPT !.fold.phase = "result"], E.result)
     ELSE StartAbove([Top EXCEPT !.fold.phase = "cond", !.fold.taken = @ + 1], E.loop_cond)
  /\ Quiet

FoldCond ==
  /\ InFold("cond") /\ Done # <<>>
  /\ LET c == TryBool(Plain(Done[1]))
     IN IF Failed(c) THEN Return(c)
        ELSE IF c = OkFalse THEN StartAbove([Top EXCEPT !.fold.phase = "result"], E.result)
        ELSE StartAbove([Top EXCEPT
               !.fold = Bound([Fold EXCEPT !.phase = "step"], E.iter_var,
                              Clone(Fold.items[Fold.taken]))], E.loop_step)
  /\ Quiet

FoldStep ==
  /\ InFold("step") /\ Done # <<>>
  /\ IF Broken THEN Return(Latest)
     ELSE /\ stack' = Append(Front(stack), [Top EXCEPT
               !.done = <<>>,
               !.fold = Bound([Fold EXCEPT !.phase = "next"], E.accu_var, Clone(Done[1][2]))])
          /\ UNCHANGED out
  /\ Quiet

\* The result is made the evaluator's own: the scope that may have lent it goes.
FoldResult ==
  /\ InFold("result") /\ Done # <<>>
  /\ IF Broken THEN Return(Latest) ELSE Return(Own(IntoOwned(Done[1])))
  /\ Quiet

Next ==
  \/ Literal \/ Ident \/ Ternary \/ Connective \/ NotStrictly \/ Operator \/ Unary
  \/ Index \/ OptSelect \/ Select \/ ListLiteral \/ MapLiteral \/ StructLiteral
  \/ Call \/ MemberCall
  \/ FoldInit \/ FoldOpen \/ FoldNext \/ FoldCond \/ FoldStep \/ FoldResult

Spec == Init /\ [][Next]_vars

\* resolve_val runs to its end on the caller's thread
FairSpec == Spec /\ WF_vars(Next)
-----------------------------------------------------------------------------
(* Correctness. *)

Outcomes == {NoResult, Panic}

\* How many operands e may have had evaluated while its frame waits for nothing more.
Room(e) ==
  CASE e.op \in {"lit", "ident"}     -> 0
    [] e.op = "call"                 -> Len(e.args)
    [] e.op = "member"               -> Len(e.args) + 1
    [] e.op = "list"                 -> Len(e.elements)
    [] e.op \in {"map", "struct"}    -> Len(e.entries)
    [] e.op \in {"select", "fold"}   -> 1

\* The stack is a path down the program from its root: every frame evaluates an operand of the
\* frame below it and has room for its result, no frame has more results than it can use, and
\* there is a result exactly when the path is gone.
TypeOK ==
  /\ root \in Roots
  /\ asked \subseteq Names
  /\ Active => stack[1].e = program
  /\ \A i \in DOMAIN stack :
       /\ i > 1 => stack[i].e \in Operands(stack[i - 1].e)
       /\ Len(stack[i].done) <= Room(stack[i].e)
       /\ i < Len(stack) => Len(stack[i].done) < Room(stack[i].e)
  /\ Active <=> out = NoResult

\* Evaluating by frames, with scopes that are opened, rebound and dropped and values that are
\* lent and moved, comes to one of the results the expression has in the environment made of
\* what the root context knows; an order of evaluation may choose among errors but make up no
\* result.
ImplementsMeaning ==
  out \notin Outcomes => Plain(out) \in Results(program, [n \in Names |-> Known(root)[n]])

\* Whoever defines every variable that references() names answers every lookup evaluation
\* makes of the root context; the names may be more than those looked up.  The
\* functions dispatched to are named too, one with a qualified name in two parts.
AsksOnlyReferences ==
  LET names == References(program) IN
  /\ asked \subseteq names.variables
  /\ \A f \in invoked :
       \/ f \in names.functions
       \/ \E v \in names.variables, g \in names.functions : f = v \o "." \o g

\* Evaluation comes to a result.
Terminates == <>(out # NoResult)
=============================================================================
