------------------------------- MODULE Scope --------------------------------
(***************************************************************************)
(* The tree of contexts of cel/src/context.rs: one root, shared by every   *)
(* evaluation that runs against it, and the inner scopes that              *)
(* comprehensions and functions open below it, on any number of threads.   *)
(*                                                                         *)
(* A context is named by its path from the root.  A scope borrows its      *)
(* parent for as long as it lives, so the methods that take &mut self act  *)
(* on a context that no live scope borrows.  add_variable on a value that  *)
(* fails to convert returns or panics before anything changes and is no    *)
(* step here.                                                              *)
(*                                                                         *)
(* That no scope borrows the context a method changes (~Shared) is the     *)
(* compiler's rule for &mut self, and for the reference a child holds; it  *)
(* is no code of context.rs.  The properties take it for granted and ask   *)
(* what lookup along the chain, resolvers at any level and the writes of   *)
(* the methods make of it.                                                 *)
(***************************************************************************)
EXTENDS Contexts, FiniteSets

CONSTANTS
  Names,        \* variable names
  Values,       \* values variables are bound to
  Resolved,     \* what asking a resolver may come to: a value, or Panic
  Resolvers,    \* resolvers: [Names -> Resolved \cup {Absent}]
  Functions,    \* function names
  Bodies,       \* function implementations
  MaxChildren,  \* bound on the scopes open at once on one context
  MaxLive       \* bound on the contexts alive at once

ASSUME ValuesAssumption    == Absent \notin Values \cup Resolved
ASSUME ResolversAssumption == Resolvers \subseteq [Names -> Resolved \cup {Absent}]
ASSUME BoundsAssumption    == MaxChildren \in Nat /\ MaxLive \in Nat

VARIABLES
  level,      \* live context -> its variables and its resolver
  functions   \* the root's registry

vars == <<level, functions>>

Live  == DOMAIN level
Root  == <<>>
NoFunction == <<"no function">>

Shared(p) == \E k \in 1..MaxChildren : Append(p, k) \in Live

\* Faulty: a chain that starts at the innermost context, so that the root answers first.
ChainReversed(p) ==
  [i \in 1..Len(p) + 1 |-> level[SubSeq(p, 1, Len(p) + 1 - i)]]

\* the contexts get_variable walks through from p, root first
Chain(p) == [i \in 1..Len(p) + 1 |-> level[SubSeq(p, 1, i - 1)]]

\* What get_variable answers in p for every name.
View(p) == LET chain == Chain(p) IN [n \in Names |-> GetVariable(chain, n)]

\* What get_function finds in p: every chain is climbed to the one root, which alone has a
\* registry.
GetFunction(p, f) == functions[f]
-----------------------------------------------------------------------------
Init ==
  /\ level = [p \in {Root} |-> EmptyLevel(Names)]
  /\ functions = [f \in Functions |-> NoFunction]

\* Faulty: the variable goes to the root, where every evaluation finds it.
AddVariableToRoot(p, n, v) ==
  /\ ~Shared(p)
  /\ level' = [level EXCEPT ![Root].variables[n] = v]
  /\ UNCHANGED functions

AddVariable(p, n, v) ==
  /\ ~Shared(p)
  /\ level' = [level EXCEPT ![p].variables[n] = v]
  /\ UNCHANGED functions

SetVariableResolver(p, r) ==
  /\ ~Shared(p)
  /\ level' = [level EXCEPT ![p].resolver = r]
  /\ UNCHANGED functions

\* on an inner scope the function is dropped without a word
AddFunction(p, f, body) ==
  /\ ~Shared(p)
  /\ functions' = IF p = Root THEN [functions EXCEPT ![f] = body] ELSE functions
  /\ UNCHANGED level

NewInnerScope(p, k) ==
  LET child == Append(p, k) IN
  /\ Cardinality(Live) < MaxLive
  /\ child \notin Live
  /\ level' = [q \in Live \cup {child} |-> IF q = child THEN EmptyLevel(Names) ELSE level[q]]
  /\ UNCHANGED functions

\* Faulty: a scope may be dropped before the scopes opened on it.
DropWhileShared(p) ==
  /\ p # Root
  /\ level' = [q \in Live \ {p} |-> level[q]]
  /\ UNCHANGED functions

\* the scope goes out of its owner's hands
Drop(p) ==
  /\ p # Root
  /\ ~Shared(p)
  /\ level' = [q \in Live \ {p} |-> level[q]]
  /\ UNCHANGED functions

Next ==
  \E p \in Live :
    \/ \E n \in Names, v \in Values : AddVariable(p, n, v)
    \/ \E r \in Resolvers : SetVariableResolver(p, r)
    \/ \E f \in Functions, body \in Bodies : AddFunction(p, f, body)
    \/ \E k \in 1..MaxChildren : NewInnerScope(p, k)
    \/ Drop(p)

Spec == Init /\ [][Next]_vars
-----------------------------------------------------------------------------
(* Properties. *)

Levels   == [variables : [Names -> Values \cup {Absent}],
             resolver  : [Names -> Resolved \cup {Absent}]]
Paths    == Seq(1..MaxChildren)

\* The type invariant; every live context is below live contexts only.
TypeOK ==
  /\ Live \subseteq Paths
  /\ level \in [Live -> Levels]
  /\ functions \in [Functions -> Bodies \cup {NoFunction}]
  /\ \A p \in Live : \A d \in 0..Len(p) : SubSeq(p, 1, d) \in Live

\* A step changes what one context sees at most.  In particular a comprehension that binds
\* its variables is not seen by the evaluations that share its root, nor by the context
\* it was opened on.
Isolation ==
  [][LET changed == {p \in Live \cap DOMAIN level' : View(p)' # View(p)}
     IN \A p, q \in changed : p = q]_vars

\* What p sees with its own resolver left aside: its variables over what its parent sees.
Unveiled(p) ==
  IF p = Root THEN level[p].variables
  ELSE Over(level[p].variables, View(SubSeq(p, 1, Len(p) - 1)))

Env == INSTANCE Environment WITH
         sees <- [p \in Live |-> Unveiled(p)],
         veil <- [p \in Live |-> level[p].resolver],
         calls <- [p \in Live |-> [f \in Functions |-> GetFunction(p, f)]]

\* Looking names up along the chain is as good as copying every binding, and every function,
\* into the scope when it is opened: no later call on another context shows.  A function
\* added to an inner scope is found nowhere.
ImplementsEnvironment == Env!Spec
=============================================================================
