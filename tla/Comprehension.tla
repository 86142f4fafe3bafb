--------------------------- MODULE Comprehension ---------------------------
(***************************************************************************)
(* One evaluation of a comprehension: the loop of Value::resolve_val's     *)
(* Expr::Comprehension arm (cel/src/objects.rs) driven by the initial      *)
(* accumulator, loop condition, loop step and result that the macro        *)
(* expanders (cel/src/parser/macros.rs) wrote into the tree.               *)
(*                                                                         *)
(* What the user's predicate and transform evaluate to on each item is an  *)
(* input: they are pure and see the item through the iteration variable,   *)
(* so an item is its pair of outcomes.  The value an item contributes to a *)
(* list is its position in the range.                                      *)
(***************************************************************************)
EXTENDS Logic, Naturals, Sequences, FiniteSets

CONSTANTS
  EvalErrors,  \* errors a predicate, a transform or the range may evaluate to
  NonBools,    \* values that are no bool
  MaxLen       \* bound on the length of the range

ASSUME NonBoolAssumption == \A v \in NonBools : ~IsBool(v)
ASSUME MaxLenAssumption  == MaxLen \in Nat

VARIABLES
  macro,   \* the macro the comprehension was expanded from
  source,  \* what iter_range evaluates to: Ok(<<"list">>), Ok(<<"scalar">>) or an error
  range,   \* the items, in the order the iterator yields them
  taken,   \* items taken from the iterator
  idx,     \* position of the item iter_var is bound to; 0 before the first
  accu,    \* the value of accu_var in the inner scope
  pc,
  out      \* what resolve_val returns

vars == <<macro, source, range, taken, idx, accu, pc, out>>

ListMacros == {"map", "map_filter", "filter"}
Macros     == {"all", "exists", "exists_one"} \cup ListMacros

IntVal(n)   == <<"int", n>>
ListVal(s)  == <<"list", s>>
ItemVal     == <<"item">>
Iterable    == Ok(<<"list">>)
Scalar      == Ok(<<"scalar">>)
NoResult    == <<"none">>

Failures  == {Err(e) : e \in EvalErrors}
Predicate == {OkTrue, OkFalse} \cup {Ok(v) : v \in NonBools} \cup Failures
Transform == {Ok(ItemVal)} \cup Failures
Item      == [pred : Predicate, func : Transform]
Ranges    == UNION {[1..n -> Item] : n \in 0..MaxLen}
-----------------------------------------------------------------------------
(* The expansions. *)

AccuInit(m) ==
  CASE m = "all"        -> BoolVal(TRUE)
    [] m = "exists"     -> BoolVal(FALSE)
    [] m = "exists_one" -> IntVal(0)
    [] OTHER            -> ListVal(<<>>)

\* Faulty: exists goes on while its accumulator is true.
LoopConditionNotNegated(m, a) ==
  IF m \in {"all", "exists"} THEN NotStrictlyFalse(Ok(a)) ELSE OkTrue

\* Faulty: all never stops early.
LoopConditionForAllDropped(m, a) ==
  IF m = "exists" THEN NotStrictlyFalse(LogicalNot(Ok(a))) ELSE OkTrue

LoopCond(m, a) ==
  CASE m = "all"    -> NotStrictlyFalse(Ok(a))
    [] m = "exists" -> NotStrictlyFalse(LogicalNot(Ok(a)))
    [] OTHER        -> OkTrue

\* Faulty: the element is looked up one position too far.
PushedNext(a, f, i) ==
  IF Failed(f) THEN f ELSE Ok(ListVal(Append(a[2], i + 1)))

\* accu_var + [f], the element being the item at position i
Pushed(a, f, i) ==
  IF Failed(f) THEN f ELSE Ok(ListVal(Append(a[2], i)))

\* Faulty: the step of all connects with ||.
LoopStepOrForAll(m, a, item, i) ==
  CASE m \in {"all", "exists"} -> LogicalOr(Ok(a), item.pred)
    [] m = "exists_one" -> Conditional(item.pred, Ok(IntVal(a[2] + 1)), Ok(a))
    [] m = "map"        -> Pushed(a, item.func, i)
    [] m = "map_filter" -> Conditional(item.pred, Pushed(a, item.func, i), Ok(a))
    [] m = "filter"     -> Conditional(item.pred, Pushed(a, Ok(ItemVal), i), Ok(a))

LoopStep(m, a, item, i) ==
  CASE m = "all"        -> LogicalAnd(Ok(a), item.pred)
    [] m = "exists"     -> LogicalOr(Ok(a), item.pred)
    [] m = "exists_one" -> Conditional(item.pred, Ok(IntVal(a[2] + 1)), Ok(a))
    [] m = "map"        -> Pushed(a, item.func, i)
    [] m = "map_filter" -> Conditional(item.pred, Pushed(a, item.func, i), Ok(a))
    [] m = "filter"     -> Conditional(item.pred, Pushed(a, Ok(ItemVal), i), Ok(a))

\* Faulty: exists_one is content with more than one.
ResultAtLeastOne(m, a) ==
  IF m = "exists_one" THEN Ok(BoolVal(a[2] >= 1)) ELSE Ok(a)

Result(m, a) ==
  IF m = "exists_one" THEN Ok(BoolVal(a[2] = 1)) ELSE Ok(a)
-----------------------------------------------------------------------------
(* The loop. *)

Init ==
  /\ macro \in Macros
  /\ source \in {Iterable, Scalar} \cup Failures
  /\ range \in Ranges
  /\ taken = 0
  /\ idx = 0
  /\ accu = AccuInit(macro)
  /\ pc = "start"
  /\ out = NoResult

Return(r) == pc' = "done" /\ out' = r

\* accu_init, then iter_range in the outer scope, then the inner scope and the iterator
Open ==
  /\ pc = "start"
  /\ IF Failed(source) THEN Return(source)
     ELSE IF source # Iterable THEN Return(Err(NoSuchOverload))
     ELSE pc' = "loop" /\ out' = out
  /\ UNCHANGED <<macro, source, range, taken, idx, accu>>

\* items.next() first; only then the loop condition, with iter_var still bound to the
\* previous item.  The item taken is lost when the condition ends the loop.
Take ==
  /\ pc = "loop"
  /\ taken < Len(range)
  /\ taken' = taken + 1
  /\ LET c == TryBool(LoopCond(macro, accu)) IN
     IF Failed(c) THEN Return(c) /\ idx' = idx
     ELSE /\ pc' = IF c = OkTrue THEN "step" ELSE "result"
          /\ idx' = IF c = OkTrue THEN taken' ELSE idx
          /\ out' = out
  /\ UNCHANGED <<macro, source, range, accu>>

\* Faulty: the end of the range is looked for one item too far.
ExhaustedTooLate ==
  /\ pc = "loop"
  /\ taken > Len(range)
  /\ pc' = "result"
  /\ UNCHANGED <<macro, source, range, taken, idx, accu, out>>

Exhausted ==
  /\ pc = "loop"
  /\ taken = Len(range)
  /\ pc' = "result"
  /\ UNCHANGED <<macro, source, range, taken, idx, accu, out>>

\* the loop step's error leaves resolve_val at once, whatever accu_var holds
Step ==
  /\ pc = "step"
  /\ LET r == LoopStep(macro, accu, range[idx], idx) IN
     IF Failed(r) THEN Return(r) /\ accu' = accu
     ELSE pc' = "loop" /\ accu' = r[2] /\ out' = out
  /\ UNCHANGED <<macro, source, range, taken, idx>>

Finish ==
  /\ pc = "result"
  /\ Return(Result(macro, accu))
  /\ UNCHANGED <<macro, source, range, taken, idx, accu>>

Next == Open \/ Take \/ Exhausted \/ Step \/ Finish

Spec == Init /\ [][Next]_vars

\* resolve_val runs to its end on the caller's thread
FairSpec == Spec /\ WF_vars(Next)
-----------------------------------------------------------------------------
(* Properties. *)

\* The type invariant.
TypeOK ==
  /\ macro \in Macros
  /\ source \in {Iterable, Scalar} \cup Failures
  /\ range \in Ranges
  /\ taken \in 0..Len(range)
  /\ idx \in 0..taken
  /\ accu = <<AccuInit(macro)[1], accu[2]>>
  /\ macro \in {"all", "exists"} => accu[2] \in BOOLEAN
  /\ macro = "exists_one" => accu[2] \in 0..idx
  /\ macro \in ListMacros => accu[2] \in Seq(1..idx)
  /\ pc \in {"start", "loop", "step", "result", "done"}
  /\ pc = "step" => idx > 0

Promise == INSTANCE MacroPromise

\* The number of items the loop step has been evaluated on.
Stepped == IF pc = "step" THEN idx - 1 ELSE idx

Settled(i) == Promise!Settles(macro, range[i])
Holding    == {i \in 1..Stepped : macro = "map" \/ range[i].pred = OkTrue}

\* While the loop runs, the accumulator sums up the items stepped over: none of them
\* failed the macro, only the last can have decided it, and the accumulator is the
\* decision, the count or the list that those items amount to.
AccuSumsUp ==
  pc # "done" =>
    /\ out = NoResult
    /\ IF pc = "start" THEN idx = 0 ELSE source = Iterable
    /\ \A i \in 1..Stepped : ~Promise!Fails(macro, range[i])
    /\ \A i \in 1..Stepped : Settled(i) => i = Stepped /\ pc # "step"
    /\ macro \in {"all", "exists"} =>
         accu = IF (macro = "all") <=> \A i \in 1..Stepped : ~Settled(i)
                THEN BoolVal(TRUE) ELSE BoolVal(FALSE)
    /\ macro = "exists_one" => accu[2] = Cardinality(Holding)
    /\ macro \in ListMacros => Promise!Enumerates(accu[2], Holding)
    /\ pc = "result" => Stepped = Len(range) \/ \E i \in 1..Stepped : Settled(i)

\* The predicate is evaluated on the items up to the first that settles the macro and on no
\* item after it; items are left out only behind one that settles it.  A failing item ends
\* the loop at once.  A deciding one is seen by the loop condition only when one more item
\* has been taken from the iterator, which is lost.
StopsWhenSettled ==
  /\ \A i \in 1..(idx - 1) : ~Settled(i)
  /\ pc = "done" /\ source = Iterable =>
       /\ idx < Len(range) => idx > 0 /\ Settled(idx)
       /\ taken = IF idx < Len(range) /\ ~Promise!Fails(macro, range[idx])
                  THEN idx + 1 ELSE idx

\* What a settling item makes the answer.
Verdict(item) ==
  IF Promise!Fails(macro, item) THEN Promise!FailureOf(macro, item)
  ELSE IF macro = "exists" THEN OkTrue ELSE OkFalse

Verdicts == {Verdict(range[i]) : i \in {j \in DOMAIN range : Settled(j)}}

\* The range with the items i and j in each other's place.
Swapped(i, j) == [range EXCEPT ![i] = range[j], ![j] = range[i]]

\* What the order of the items can change about the answer, and what it cannot.  (The keys
\* of a map come in the order of a HashMap.)  The answer is one of the verdicts of the items
\* that settle the macro, and each of those is the answer of some order: exists over an
\* error and a true item is the error or true, by which comes first.  With no such item the
\* answer depends on how many items the predicate holds for and not on their order.
OrderPicksVerdict ==
  pc = "done" /\ source = Iterable =>
    LET holds == Cardinality({i \in DOMAIN range : range[i].pred = OkTrue})
        n     == Len(range)
    IN IF Verdicts # {}
       THEN /\ out \in Verdicts
            /\ \A i \in DOMAIN range : Settled(i) =>
                 Promise!Promised(macro, source, Swapped(1, i), Verdict(range[i]))
       ELSE /\ macro = "all" => out = OkTrue
            /\ macro = "exists" => out = OkFalse
            /\ macro = "exists_one" => out = IF holds = 1 THEN OkTrue ELSE OkFalse
            /\ macro \in ListMacros => Len(out[2][2]) = IF macro = "map" THEN n ELSE holds

\* The loop implements the promise of the macro it was expanded from.
ImplementsPromise == Promise!Spec

\* Every comprehension over a finite range comes to an end.
Terminates == <>(pc = "done")
=============================================================================
