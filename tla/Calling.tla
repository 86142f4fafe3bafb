------------------------------- MODULE Calling ------------------------------
(***************************************************************************)
(* What is asked of the library once its environment is complete: calls of *)
(* functions and operators on values (Value::resolve_val,                  *)
(* cel/src/objects.rs).  An overload of the environment answers a call; a  *)
(* function the host has registered under the name is tried when there is  *)
(* none (FunctionContext, cel/src/magic.rs), and it takes its parameters   *)
(* one by one out of the target and the arguments.  Here it is tried every *)
(* time, so that the two answers can be compared: which of them a program  *)
(* gets depends only on what the host has registered, and where.           *)
(***************************************************************************)
EXTENDS Stdlib, Operations

CONSTANTS
  Requests,        \* [name, target: <<>> or <<v>>, args, how]
  OwnSignatures    \* the functions hosts write themselves: name -> parameters

VARIABLES
  outcome,  \* the library's answer
  arg_idx,  \* the argument the host's function takes next
  params,   \* the parameters it has
  reply     \* the host's answer

callVars == <<decls, answer, registered, request, outcome, arg_idx, params, reply>>

None       == <<"none">>
Undeclared == Err("UndeclaredReference")   \* if there is no host's function either
Asked == request[1]
Found == outcome \notin {None, Undeclared}

\* The arguments an overload is found for, with the target for a member.
Operands(r) == r.target \o r.args

Arithmetic == {"add", "sub", "mul", "div", "rem"}
Operators  == Arithmetic \cup {"compare", "equals", "negate"}
Signature  == [name \in DOMAIN HostSignatures \cup DOMAIN OwnSignatures |->
                 IF name \in DOMAIN HostSignatures THEN HostSignatures[name] ELSE OwnSignatures[name]]
Parameters == ({"this", "argument"} \X SUBSET AnyType) \cup {Rest}

ASSUME SignaturesAssumption ==
  \A name \in DOMAIN OwnSignatures : name \notin Operators /\ OwnSignatures[name] \in Seq(Parameters)

\* A value of any type but function, with contents of its type.
IsShaped(w) ==
  /\ w = <<TypeOf(w), w[2]>> /\ TypeOf(w) \in AnyType
  /\ TypeOf(w) = "int" => w[2] \in Ints
  /\ TypeOf(w) = "uint" => w[2] \in Uints
  /\ TypeOf(w) = "duration" => w[2] \in Lengths
  /\ TypeOf(w) \in {"string", "bytes", "list"} => IsSequence(w[2])
  /\ TypeOf(w) = "map" => w[2] = [k \in DOMAIN w[2] |-> w[2][k]]
  /\ TypeOf(w) = "optional" => w = OptNone \/ w = OptSome(w[2][1])
  /\ TypeOf(w) = "struct" => w = StructOf(w[2][1], [f \in DOMAIN w[2][2] |-> w[2][2][f]])

\* What operands are, with all that is inside them.
IsOperand(v) == \A w \in AnywhereIn(v) : IsShaped(w)

\* Arguments leave room for two levels around them, which a host's function may put there.
ASSUME RequestsAssumption ==
  \A r \in Requests :
    /\ r.how \in [lent : BOOLEAN, checked : BOOLEAN, short : BOOLEAN]
    /\ IsSequence(r.target) /\ Len(r.target) <= 1
    /\ IsSequence(r.args)
    /\ r.name \in Operators => r.target = <<>> /\ Len(r.args) = IF r.name = "negate" THEN 1 ELSE 2
    /\ IsNested(ListOf(r.target)) /\ IsNested(ListOf(<<ListOf(r.args)>>))
    /\ \A i \in DOMAIN Operands(r) : IsOperand(Operands(r)[i])

Dispatched(r) ==
  LET types == [i \in DOMAIN Operands(r) |-> TypeOf(Operands(r)[i])]
      o     == IF r.name \in FunctionNames THEN FindOverload(r.name, r.target # <<>>, types) ELSE NoOverload
  IN IF o = NoOverload THEN Undeclared ELSE StdOp(o.id, Operands(r), r.how)
-----------------------------------------------------------------------------
CallInit ==
  /\ StdInit
  /\ outcome = None
  /\ arg_idx = 0
  /\ params = <<>>
  /\ reply = None

RegisterNext == Register /\ UNCHANGED <<outcome, arg_idx, params, reply>>

Ready == Complete /\ request = <<>>

\* Expr::Call of a function, to the overload.
Call ==
  /\ Ready
  /\ \E r \in Requests :
       /\ r.name \notin Operators
       /\ request' = <<r>>
       /\ outcome' = Dispatched(r)
  /\ UNCHANGED <<decls, answer, registered, arg_idx, params, reply>>

\* Expr::Call of an operator, and the operator of the Values beside it.
Operate ==
  /\ Ready
  /\ \E r \in Requests :
       LET v == r.args[1]
           w == r.args[Len(r.args)]
       IN /\ r.name \in Operators
          /\ request' = <<r>>
          /\ \/ r.name \in Arithmetic /\ outcome' \in Computed(r.name, v, w) /\ reply' = HostComputed(r.name, v, w)
             \/ r.name = "compare" /\ outcome' = Compare(v, w) /\ reply' = PartialCmp(v, w)
             \/ r.name = "equals" /\ outcome' = Ok(BoolVal(ValEquals(v, w))) /\ reply' = Ok(BoolVal(ValueEquals(v, w)))
             \/ r.name = "negate" /\ outcome' = Negated(v, r.how.checked) /\ UNCHANGED reply
  /\ UNCHANGED <<decls, answer, registered, arg_idx, params>>

\* T::from_value; an Option takes null besides.
FromValue(types, v) == IF TypeOf(v) \in types THEN Ok(v) ELSE UnexpectedType

\* Argument(idx)
ArgumentAt(args, idx) == IF idx < Len(args) THEN Ok(FromVal(args[idx + 1])) ELSE Err("InvalidArgumentCount")

\* FromContext of a parameter.
FromContext(p, r, idx) ==
  CASE p = Rest                         -> Ok(ListOf([i \in DOMAIN r.args |-> FromVal(r.args[i])]))
    [] p[1] = "this" /\ r.target # <<>> -> FromValue(p[2], FromVal(r.target[1]))
    [] p[1] = "this" /\ r.target = <<>> /\ idx >= Len(r.args) -> Err("MissingArgumentOrTarget")
    [] OTHER -> LET arg == ArgumentAt(r.args, idx) IN IF Failed(arg) THEN arg ELSE FromValue(p[2], arg[2])

\* Faulty: This takes an argument even if there is a target.
TakesAnyway(p, r) == p # Rest

\* Whether the parameter takes an argument.
TakesArgument(p, r) == p # Rest /\ ~(p[1] = "this" /\ r.target # <<>>)

HostIsBusy == request # <<>> /\ Asked.name \in DOMAIN Signature /\ reply = None

\* let arg_c1 = C1::from_context(_ftx)?
Extract ==
  /\ HostIsBusy
  /\ Len(params) < Len(Signature[Asked.name])
  /\ LET p   == Signature[Asked.name][Len(params) + 1]
         got == FromContext(p, Asked, arg_idx)
     IN /\ arg_idx' = IF TakesArgument(p, Asked) THEN arg_idx + 1 ELSE arg_idx
        /\ IF Failed(got) THEN reply' = got /\ UNCHANGED params
           ELSE params' = Append(params, got[2]) /\ UNCHANGED reply
  /\ UNCHANGED <<decls, answer, registered, request, outcome>>

\* self(arg_c1, ...).into_resolve_result(), and the Value back to a Val.
Apply ==
  /\ HostIsBusy
  /\ Len(params) = Len(Signature[Asked.name])
  /\ LET result == HostBody(Asked.name, params, Asked)
     IN reply' = IF Failed(result) THEN result ELSE IntoVal(result[2], FALSE)
  /\ UNCHANGED <<decls, answer, registered, request, outcome, arg_idx, params>>

CallNext == RegisterNext \/ Call \/ Operate \/ Extract \/ Apply

CallSpec == CallInit /\ [][CallNext]_callVars
-----------------------------------------------------------------------------
(* Properties. *)

\* How many of a call's first parameters are for its arguments, one each.
Taking(sig, i, r) == Cardinality({j \in 1..i : sig[j] # Rest /\ (sig[j][1] = "argument" \/ r.target = <<>>)})

\* The operand at the place of a parameter, if there is one.
OperandFor(sig, i, r) ==
  LET place == Taking(sig, i, r)
  IN IF sig[i] = Rest THEN <<ListOf(r.args)>>
     ELSE IF sig[i][1] = "this" /\ r.target # <<>> THEN r.target
     ELSE SubSeq(r.args, place, IF place > Len(r.args) THEN place - 1 ELSE place)

\* A parameter of a host's function is the operand at its place: This is the target of a method
\* and otherwise counts with the others, the arguments go to the parameters in order, and all of
\* them to Arguments.  A call fails at the first parameter without an operand, with an error and
\* not the panic that the comment on arg_value_from_context announces, or of another type;
\* operands in excess are ignored (magic.rs).
OperandsReachParameters ==
  request # <<>> /\ Asked.name \in DOMAIN Signature =>
    LET sig == Signature[Asked.name]
        Operand(i) == OperandFor(sig, i, Asked)
        next == Len(params) + 1
    IN /\ \A i \in DOMAIN params :
            Operand(i) # <<>> /\ params[i] = FromVal(Operand(i)[1]) /\ TypeOf(params[i]) \in sig[i][2]
       /\ reply # None /\ next <= Len(sig) =>
            IF Operand(next) = <<>>
            THEN reply = Err(IF sig[next][1] = "this" THEN "MissingArgumentOrTarget" ELSE "InvalidArgumentCount")
            ELSE reply = UnexpectedType /\ TypeOf(Operand(next)[1]) \notin sig[next][2]

OutsideChrono(r) ==
  /\ r.name \in {"add", "sub"} /\ TypeOf(r.args[1]) = "timestamp" /\ TypeOf(r.args[2]) = "duration"
  /\ r.args[1][2] + Signed(r.name, r.args[2][2]) \notin ChronoTimes

UnaskedOptional(r) == r.name \in {"value", "or", "orValue"} /\ ~IsOptional(r.target[1])

TooLongToFormat(r) ==
  LET v == Operands(r)[1]
  IN /\ r.name = "string" /\ r.how.checked /\ TypeOf(v) = "duration"
     /\ ~HasNanos(v[2]) /\ (v[2] < 0 \/ v[2] - Remainder(v[2], Second) >= U64)

\* The library panics for four reasons and no other: an optional's op on what is no optional, the
\* negation of i64::MIN and the text of a duration that has no number of nanoseconds in builds
\* that check overflows, and a timestamp moved beyond chrono's.  A host's function shares the
\* third of them only.
PanicsAreKnown ==
  /\ Found =>
       (outcome = Panic <=>
          \/ UnaskedOptional(Asked) \/ OutsideChrono(Asked) \/ TooLongToFormat(Asked)
          \/ Asked.name = "negate" /\ Asked.args[1] = IntOf(-IntMax - 1) /\ Asked.how.checked)
  /\ reply # None /\ params # <<>> /\ Operands(Asked) # <<>> => (reply = Panic <=> TooLongToFormat(Asked))

\* A text with the micro sign written as a u, as parse_duration's grammar has it.
Respelled(text) == [i \in DOMAIN text |-> IF text[i] = Unit("micro") THEN Unit("us") ELSE text[i]]

\* The text of a duration that is not negative reads back as that duration, or as one nanosecond
\* less where the fraction is cut off, once the micro sign is a u (duration.rs).
DurationsReadBack ==
  Found /\ Asked.name = "string" /\ TypeOf(Asked.args[1]) = "duration" =>
    LET n == Asked.args[1][2]
    IN 0 <= n /\ HasNanos(n) =>
         \A short \in BOOLEAN :
           ParseDuration(Respelled(outcome[2][2]), short) \in IF short THEN {Ok(n), Ok(n - 1)} ELSE {Ok(n)}

\* duration.rs: "representing the duration in the form "72h3m0.5s"" and "a direct port of the Go
\* version of the time.Duration(0).String() function" -- the text of every duration says that
\* duration, of a negative one behind a minus.  The code writes a negative one as the u64 its
\* i64 of nanoseconds becomes.
TextsDenoteDurations ==
  Found /\ Asked.name = "string" /\ TypeOf(Asked.args[1]) = "duration" =>
    LET n == Asked.args[1][2]
    IN HasNanos(n) => ParseDuration(Respelled(outcome[2][2]), FALSE) = Ok(n)
-----------------------------------------------------------------------------
(* Where the two answers are not the same. *)

Types2(r) == <<TypeOf(r.args[1]), TypeOf(r.args[2])>>
IsArg(r, type) == r.args # <<>> /\ TypeOf(r.args[1]) = type

Refusals == {Err(NoSuchOverload), Unsupported, Err("None")}

\* What the library answers and the host's function refuses.
OnlyByLibrary(r) ==
  \/ r.name = "add" /\ (Types2(r) = <<"bytes", "bytes">> \/ Types2(r) = <<"list", "map">>)
  \/ r.name = "compare" /\ Types2(r) = <<"bytes", "bytes">>
  \/ r.name \in {"size", "bytes"} /\ TypeOf(Operands(r)[1]) = "bytes"
  \/ r.name = "duration" /\ IsArg(r, "duration")
  \/ r.name \in {"getHours", "getMinutes", "getSeconds", "getMilliseconds"} /\ TypeOf(r.target[1]) = "timestamp"
  \/ r.name = "int"  /\ IsArg(r, "uint")   /\ r.args[1][2] > IntMax
  \/ r.name = "int"  /\ IsArg(r, "double") /\ OutOf(r.args[1][2], -IntMax - 1, IntMax)
  \/ r.name = "uint" /\ IsArg(r, "int")    /\ r.args[1][2] < 0
  \/ r.name = "uint" /\ IsArg(r, "double") /\ OutOf(r.args[1][2], 0, UintMax)
  \/ r.name = "or" /\ r.target[1] = OptNone /\ ~IsOptional(r.args[1])

\* What the host's side answers and the library refuses.
OnlyByHost(r) ==
  \/ r.name = "add" /\ Types2(r) = <<"duration", "timestamp">>   \* beyond chrono's times, an overflow
  \/ r.name = "compare" /\ Types2(r) = <<"null", "null">>

IsCopied(v) == Clone(v) # v

\* What both answer, each in its own way.
Otherwise(r) ==
  \/ UnaskedOptional(r) \/ OutsideChrono(r)
  \/ \E i \in DOMAIN Operands(r) : IsCopied(Operands(r)[i])
  \/ r.name = "equals" /\ \E i \in 1..2 : \E x \in AnywhereIn(r.args[i]) : TypeOf(x) \in {"struct", "optional"}
  \/ r.name = "optional.ofNonZeroValue" /\ TypeOf(r.args[1]) \in {"timestamp", "struct"} /\ ZeroVal(r.args[1])
  \/ r.name \in {"getHours", "getMinutes", "getSeconds", "getMilliseconds"} /\ Small(outcome[2][2]) # outcome[2][2]

\* It makes no difference whether a call is answered by the library or by the function that hosts
\* can register under its name, and an operator by Vals or by Values, save where one side
\* refuses what the other answers: bytes, durations and timestamps that only one of them knows
\* how to take, and numbers out of range, which the library wraps or clamps and a host's
\* function refuses; and save for copied optionals, zeros and equalities of structs and
\* optionals, numbers cut to 32 bits, and panics.  Two of the refusals are at odds with what
\* functions.rs says of itself: its size documents Value::Bytes as supported, and its getHours,
\* getMinutes, getSeconds and getMilliseconds refuse a timestamp with "expected timestamp or duration".
SidesAgree ==
  Found /\ reply # None /\ Asked.name \in Operators \cup DOMAIN HostSignatures =>
    /\ OnlyByLibrary(Asked) => ~Failed(outcome) /\ Failed(reply)
    /\ OnlyByHost(Asked) => outcome \in Refusals /\ reply \notin Refusals
    /\ OnlyByLibrary(Asked) \/ OnlyByHost(Asked) \/ Otherwise(Asked) \/ outcome = reply
         \/ {outcome, reply} \subseteq Refusals
=============================================================================
