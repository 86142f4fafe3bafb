-------------------------- MODULE MCComprehension --------------------------
(* Comprehensions over ranges of up to MaxLen items, with one value that is no bool. *)
EXTENDS Comprehension

MCNonBools == {IntVal(7)}
=============================================================================
