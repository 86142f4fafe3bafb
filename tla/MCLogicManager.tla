--------------------------- MODULE MCLogicManager ---------------------------
(* Chains of terms that hold, do not hold, are no bools or fail in two ways. *)
EXTENDS LogicManager

MCTerms == {OkTrue, OkFalse, Ok(<<"int">>), Err("e1"), Err("e2")}
=============================================================================
