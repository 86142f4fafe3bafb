---------------------------- MODULE MCOverloads -----------------------------
(* One concrete type, Dyn, and an opaque type whose parameter is Dyn, as the *)
(* optional type of the standard library.                                    *)
EXTENDS Overloads

CONSTANTS int, opt

MCFirstParameter == [t \in {opt} |-> Dyn]
=============================================================================
