----------------------------- MODULE MCStructs ------------------------------
(* Three fields, any of which a definition may leave undeclared, and two types. *)
EXTENDS Structs

MCFields == <<"a", "b", "c">>
=============================================================================
