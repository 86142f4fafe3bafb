-------------------------- MODULE OverloadClaims ---------------------------
(***************************************************************************)
(* What registering overloads promises, without any list of them: a call   *)
(* belongs to the first overload registered that accepts it, and to no     *)
(* other ever after.                                                       *)
(***************************************************************************)
CONSTANTS
  Calls,       \* calls: a function name, its call style and the types of its arguments
  Overloads,   \* overloads: a function name and a signature
  Accepted(_), \* the calls an overload accepts
  Unclaimed    \* no overload

VARIABLE owner  \* call -> the overload it belongs to, or Unclaimed

Init == owner = [c \in Calls |-> Unclaimed]

Register(o) ==
  owner' = [c \in Calls |->
              IF owner[c] = Unclaimed /\ c \in Accepted(o) THEN o ELSE owner[c]]

Next == \E o \in Overloads : Register(o)

Spec == Init /\ [][Next]_owner
=============================================================================
