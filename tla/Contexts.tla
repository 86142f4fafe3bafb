------------------------------ MODULE Contexts ------------------------------
(***************************************************************************)
(* Variable lookup in a chain of contexts (Context::get_variable,          *)
(* cel/src/context.rs).  A chain is the sequence of contexts from the root *)
(* to the innermost one.  A context holds its variables and its resolver;  *)
(* both are functions from names, giving Absent for a name they do not     *)
(* know.  A context without a resolver has one that knows no name.         *)
(***************************************************************************)
EXTENDS Naturals, Sequences

Absent == <<"absent">>

\* What a lookup comes to where the resolver answers with a function: get_variable unwraps
\* the conversion of the answer to a Val, which a function does not have.
Panic == <<"panic">>

NoBindings(names) == [n \in names |-> Absent]

EmptyLevel(names) == [variables |-> NoBindings(names), resolver |-> NoBindings(names)]

\* `first` where it knows the name, `second` elsewhere.
Over(first, second) ==
  [n \in DOMAIN first |-> IF first[n] # Absent THEN first[n] ELSE second[n]]

\* What one context knows by itself: its resolver is asked before its variables.
Known(level) == Over(level.resolver, level.variables)

\* The innermost context of the chain that knows n answers.
GetVariable(chain, n) ==
  LET found == {i \in DOMAIN chain : Known(chain[i])[n] # Absent}
  IN IF found = {} THEN Absent
     ELSE Known(chain[CHOOSE i \in found : \A j \in found : j <= i])[n]
=============================================================================
