------------------------------ MODULE Overloads -----------------------------
(***************************************************************************)
(* The functions of an environment: Env (cel/src/env.rs) over FunctionDecl *)
(* (cel/src/common/decls.rs).  Overloads are added under a function name,  *)
(* and a call is dispatched to the first of them, in the order they were   *)
(* added, that its arguments are assignable to.                            *)
(*                                                                         *)
(* A type is opaque data; what is_assignable asks of it is whether it is   *)
(* Dyn and, for an opaque type, what its first parameter is.               *)
(***************************************************************************)
EXTENDS Naturals, Sequences, FiniteSets

CONSTANTS
  FunctionNames,
  Ids,             \* overload ids
  Types,           \* types signatures are made of
  ValueTypes,      \* types a value can have
  Dyn,             \* the type of kind Dyn
  Opaque,          \* types of kind Opaque that have a parameter
  FirstParameter,  \* their first one
  MaxArity,        \* bound on the arguments of a call, the target included
  MaxOverloads     \* bound on the overloads of an environment

ASSUME TypesAssumption ==
  /\ Dyn \in Types
  /\ ValueTypes \subseteq Types
  /\ Opaque \subseteq Types \ {Dyn}
  /\ FirstParameter \in [Opaque -> Types]
ASSUME BoundsAssumption == MaxArity \in Nat /\ MaxOverloads \in Nat

VARIABLES
  decls,   \* function name -> its overloads, in the order they were added
  answer   \* what the last registration returned

vars == <<decls, answer>>

Tuples(S) == UNION {[1..n -> S] : n \in 0..MaxArity}

Signatures == [id : Ids, member : BOOLEAN, args : Tuples(Types)]
Calls      == [name : FunctionNames, member : BOOLEAN, args : Tuples(ValueTypes)]

NoOverload == [no |-> "overload"]

\* The types of the values assignable to t.
Assignable[t \in Types] ==
  (IF t = Dyn THEN ValueTypes ELSE {t} \cap ValueTypes)
    \cup (IF t \in Opaque THEN Assignable[FirstParameter[t]] ELSE {})

Matches(o, member, args) ==
  /\ o.member = member
  /\ Len(o.args) = Len(args)
  /\ \A i \in DOMAIN args : args[i] \in Assignable[o.args[i]]

\* Faulty: the last overload the arguments match wins.
FindLastOverload(name, member, args) ==
  LET matching == {i \in DOMAIN decls[name] : Matches(decls[name][i], member, args)}
  IN IF matching = {} THEN NoOverload
     ELSE decls[name][CHOOSE i \in matching : \A j \in matching : j <= i]

\* The first overload of the function that the arguments match.
FindOverload(name, member, args) ==
  LET matching == {i \in DOMAIN decls[name] : Matches(decls[name][i], member, args)}
  IN IF matching = {} THEN NoOverload
     ELSE decls[name][CHOOSE i \in matching : \A j \in matching : i <= j]

\* Faulty: an overload is taken for another one unless both id and signature agree.
IsPresentEntirely(name, o) ==
  \E i \in DOMAIN decls[name] :
    LET p == decls[name][i]
    IN p.id = o.id /\ p.member = o.member /\ p.args = o.args

IsPresent(name, o) ==
  \E i \in DOMAIN decls[name] :
    LET p == decls[name][i]
    IN p.id = o.id \/ (p.member = o.member /\ p.args = o.args)

TotalOverloads ==
  Cardinality({at \in FunctionNames \X (1..MaxOverloads) : at[2] \in DOMAIN decls[at[1]]})
-----------------------------------------------------------------------------
Init ==
  /\ decls = [name \in FunctionNames |-> <<>>]
  /\ answer = "none"

\* Faulty: a new overload goes to the front of the list.
AddInFront(name, o) ==
  IF IsPresent(name, o)
  THEN answer' = "err" /\ UNCHANGED decls
  ELSE /\ TotalOverloads < MaxOverloads
       /\ answer' = "ok"
       /\ decls' = [decls EXCEPT ![name] = <<o>> \o @]

Add(name, o) ==
  IF IsPresent(name, o)
  THEN answer' = "err" /\ UNCHANGED decls
  ELSE /\ TotalOverloads < MaxOverloads
       /\ answer' = "ok"
       /\ decls' = [decls EXCEPT ![name] = Append(@, o)]

AddOverload(name, id, args) ==
  Add(name, [id |-> id, member |-> FALSE, args |-> args])

\* Faulty: the target is left out of the signature.
AddMemberWithoutTarget(name, id, target, args) ==
  /\ Len(args) < MaxArity
  /\ Add(name, [id |-> id, member |-> TRUE, args |-> args])

AddMemberOverload(name, id, target, args) ==
  /\ Len(args) < MaxArity
  /\ Add(name, [id |-> id, member |-> TRUE, args |-> <<target>> \o args])

Next ==
  \E name \in FunctionNames, id \in Ids, args \in Tuples(Types) :
    \/ AddOverload(name, id, args)
    \/ \E target \in Types : AddMemberOverload(name, id, target, args)

Spec == Init /\ [][Next]_vars
-----------------------------------------------------------------------------
(* Properties. *)

\* The type invariant; a member overload has a target.
TypeOK ==
  /\ decls \in [FunctionNames -> Seq(Signatures)]
  /\ answer \in {"none", "ok", "err"}
  /\ \A name \in FunctionNames : \A i \in DOMAIN decls[name] :
       decls[name][i].member => decls[name][i].args # <<>>

\* Within a function, an id and a signature of a call style each name one overload.
OverloadsDiffer ==
  \A name \in FunctionNames : \A i, j \in DOMAIN decls[name] :
    LET o == decls[name][i]
        p == decls[name][j]
    IN i # j => o.id # p.id /\ (o.member # p.member \/ o.args # p.args)

Dispatch(c) ==
  LET o == FindOverload(c.name, c.member, c.args)
  IN IF o = NoOverload THEN NoOverload ELSE [name |-> c.name, overload |-> o]

\* Once a call is dispatched to an overload, no later registration takes it away: adding
\* overloads to an environment never changes what the expressions that worked mean.
DispatchIsStable ==
  [][\A c \in Calls : Dispatch(c) # NoOverload => Dispatch(c)' = Dispatch(c)]_vars

AcceptedCalls(o) ==
  {c \in Calls : c.name = o.name /\ Matches(o.overload, c.member, c.args)}

Claims == INSTANCE OverloadClaims WITH
            Overloads <- [name : FunctionNames, overload : Signatures],
            Accepted  <- AcceptedCalls,
            Unclaimed <- NoOverload,
            owner     <- [c \in Calls |-> Dispatch(c)]

\* The list of overloads, searched from its start, gives each call to the first overload
\* registered that accepts it.
ImplementsClaims == Claims!Spec
=============================================================================
