------------------------------ MODULE MCScope -------------------------------
(* Two names; a resolver, when there is one, knows the first of them and answers with *)
(* a value no variable has, or the second and answers with a function.                *)
EXTENDS Scope

CONSTANTS a, b, bound, resolved, body

MCResolved == {resolved, Panic}

MCResolvers ==
  {NoBindings(Names), [NoBindings(Names) EXCEPT ![a] = resolved],
   [NoBindings(Names) EXCEPT ![b] = Panic]}
=============================================================================
