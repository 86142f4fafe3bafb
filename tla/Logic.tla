------------------------------- MODULE Logic -------------------------------
(***************************************************************************)
(* The results an expression can evaluate to, and the connectives that     *)
(* Value::resolve_val (cel/src/objects.rs) gives a special treatment       *)
(* because an error of one operand may be absorbed by the other: ||, &&,   *)
(* the conditional, negation and @not_strictly_false.                      *)
(*                                                                         *)
(* A result is Ok(v) or Err(e).  A value is a tuple whose first component  *)
(* names its kind; only the kind "bool" matters here.                      *)
(***************************************************************************)

Ok(v)  == <<"ok", v>>
Err(e) == <<"err", e>>

Failed(r) == r[1] = "err"

BoolVal(b) == <<"bool", b>>
IsBool(v)  == v \in {BoolVal(TRUE), BoolVal(FALSE)}

OkTrue  == Ok(BoolVal(TRUE))
OkFalse == Ok(BoolVal(FALSE))

NoSuchOverload == "NoSuchOverload"

\* try_bool: an error stays the error it is, a value that is no bool becomes one.
TryBool(r) ==
  IF Failed(r) \/ IsBool(r[2]) THEN r ELSE Err(NoSuchOverload)

\* _||_: `right` is what the right operand evaluates to, which the code finds out
\* only when the left operand is not true.
LogicalOr(left, right) ==
  LET l == TryBool(left) IN
  IF l = OkTrue THEN OkTrue
  ELSE IF Failed(right) THEN right
  ELSE IF IsBool(right[2]) /\ (l = OkFalse \/ right = OkTrue) THEN right
  ELSE IF Failed(l) THEN l ELSE Err(NoSuchOverload)

\* _&&_: the dual of _||_.
LogicalAnd(left, right) ==
  LET l == TryBool(left) IN
  IF l = OkFalse THEN OkFalse
  ELSE IF Failed(right) THEN right
  ELSE IF IsBool(right[2]) /\ (l = OkTrue \/ right = OkFalse) THEN right
  ELSE IF Failed(l) THEN l ELSE Err(NoSuchOverload)

\* _?_:_: an undecided condition fails the whole conditional.
Conditional(cond, then, else) ==
  LET c == TryBool(cond) IN
  IF Failed(c) THEN c ELSE IF c = OkTrue THEN then ELSE else

LogicalNot(r) ==
  IF Failed(r) THEN r
  ELSE IF IsBool(r[2]) THEN Ok(BoolVal(~r[2][2])) ELSE Err(NoSuchOverload)

\* @not_strictly_false: what is no bool counts as true.
NotStrictlyFalse(r) ==
  IF Failed(TryBool(r)) THEN OkTrue ELSE r
=============================================================================
