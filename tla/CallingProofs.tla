--------------------------- MODULE CallingProofs ----------------------------
(***************************************************************************)
(* Theorems about the environment and what is asked of it: of Overloads,   *)
(* for any function names, ids and types and calls of any length; of the   *)
(* library's registration; and of Calling, for any requests and any        *)
(* functions that hosts write.                                             *)
(***************************************************************************)
EXTENDS Calling, Recursion, TLAPS, SequenceTheorems, FiniteSetTheorems

-----------------------------------------------------------------------------
(* Signatures. *)

\* A tuple of types is a sequence that is short enough.
LEMMA TupleShape ==
  ASSUME NEW S
  PROVE  /\ \A args \in Tuples(S) : args \in Seq(S) /\ Len(args) \in 0..MaxArity
         /\ \A args \in Seq(S) : Len(args) <= MaxArity => args \in Tuples(S)
  <1>1. ASSUME NEW args \in Tuples(S) PROVE args \in Seq(S) /\ Len(args) \in 0..MaxArity
    <2>1. PICK n \in 0..MaxArity : args \in [1..n -> S]
      BY DEF Tuples
    <2>2. n \in Nat
      BY BoundsAssumption
    <2> QED BY <2>1, <2>2
  <1>2. ASSUME NEW args \in Seq(S), Len(args) <= MaxArity PROVE args \in Tuples(S)
    <2>1. Len(args) \in 0..MaxArity /\ args \in [1..Len(args) -> S]
      BY <1>2, LenProperties, BoundsAssumption
    <2> QED BY <2>1 DEF Tuples
  <1> QED BY <1>1, <1>2

\* What the two registrations hand to Add is a signature, and a member has a target.
LEMMA RegisteredShapes ==
  /\ \A id \in Ids, args \in Tuples(Types) :
       LET o == [id |-> id, member |-> FALSE, args |-> args]
       IN o \in Signatures /\ ~o.member
  /\ \A id \in Ids, target \in Types, args \in Tuples(Types) :
       Len(args) < MaxArity =>
         LET o == [id |-> id, member |-> TRUE, args |-> <<target>> \o args]
         IN o \in Signatures /\ o.args # <<>>
  <1>1. ASSUME NEW id \in Ids, NEW args \in Tuples(Types)
        PROVE  [id |-> id, member |-> FALSE, args |-> args] \in Signatures
    BY DEF Signatures
  <1>2. ASSUME NEW id \in Ids, NEW target \in Types, NEW args \in Tuples(Types),
               Len(args) < MaxArity
        PROVE  /\ [id |-> id, member |-> TRUE, args |-> <<target>> \o args] \in Signatures
               /\ <<target>> \o args # <<>>
    <2>1. args \in Seq(Types) /\ Len(args) \in Nat
      BY TupleShape
    <2>2. <<target>> \in Seq(Types) /\ Len(<<target>>) = 1
      OBVIOUS
    <2>3. <<target>> \o args \in Seq(Types) /\ Len(<<target>> \o args) = Len(args) + 1
      BY <2>1, <2>2, ConcatProperties
    <2>4. <<target>> \o args \in Tuples(Types)
      <3>1. Len(<<target>> \o args) <= MaxArity
        BY <1>2, <2>1, <2>3, BoundsAssumption
      <3> HIDE DEF Tuples
      <3> QED BY <2>3, <3>1, TupleShape
    <2>5. <<target>> \o args # <<>>
      BY <2>1, <2>3
    <2> QED BY <2>4, <2>5 DEF Signatures
  <1> QED BY <1>1, <1>2

\* NoOverload is no overload.
LEMMA NoOverloadIsNone ==
  /\ NoOverload \notin Signatures
  /\ \A name, o : [name |-> name, overload |-> o] # NoOverload
  <1>1. DOMAIN NoOverload = {"no"} /\ "no" # "id" /\ "no" # "name"
    BY DEF NoOverload
  <1>2. ASSUME NEW o \in Signatures PROVE o # NoOverload
    <2>1. "id" \in DOMAIN o
      BY DEF Signatures
    <2> QED BY <1>1, <2>1
  <1>3. ASSUME NEW name, NEW o PROVE [name |-> name, overload |-> o] # NoOverload
    <2>1. "name" \in DOMAIN [name |-> name, overload |-> o]
      OBVIOUS
    <2> QED BY <1>1, <2>1
  <1> QED BY <1>2, <1>3

-----------------------------------------------------------------------------
(* Registration. *)

\* Every step is a registration, refused or made.
LEMMA StepIsAdd ==
  ASSUME Next
  PROVE  \E name \in FunctionNames, o \in Signatures :
           (o.member => o.args # <<>>) /\ Add(name, o)
  <1>1. ASSUME NEW name \in FunctionNames, NEW id \in Ids, NEW args \in Tuples(Types),
               AddOverload(name, id, args)
        PROVE  \E o \in Signatures : (o.member => o.args # <<>>) /\ Add(name, o)
    BY <1>1, RegisteredShapes DEF AddOverload
  <1>2. ASSUME NEW name \in FunctionNames, NEW id \in Ids, NEW args \in Tuples(Types),
               NEW target \in Types, AddMemberOverload(name, id, target, args)
        PROVE  \E o \in Signatures : (o.member => o.args # <<>>) /\ Add(name, o)
    BY <1>2, RegisteredShapes DEF AddMemberOverload
  <1> QED BY <1>1, <1>2 DEF Next

\* What Add leaves behind.
LEMMA AddEffect ==
  ASSUME TypeOK, NEW name \in FunctionNames, NEW o \in Signatures, Add(name, o)
  PROVE  \/ answer' = "err" /\ decls' = decls
         \/ /\ ~IsPresent(name, o)
            /\ answer' = "ok"
            /\ decls' \in [FunctionNames -> Seq(Signatures)]
            /\ \A f \in FunctionNames \ {name} : decls'[f] = decls[f]
            /\ Len(decls[name]) \in Nat
            /\ DOMAIN decls[name] = 1..Len(decls[name])
            /\ DOMAIN decls'[name] = 1..(Len(decls[name]) + 1)
            /\ \A i \in 1..Len(decls[name]) : decls'[name][i] = decls[name][i]
            /\ decls'[name][Len(decls[name]) + 1] = o
  <1>1. CASE IsPresent(name, o)
    BY <1>1 DEF Add
  <1>2. CASE ~IsPresent(name, o)
    <2>1. decls \in [FunctionNames -> Seq(Signatures)]
      BY DEF TypeOK
    <2>2. answer' = "ok" /\ decls' = [decls EXCEPT ![name] = Append(decls[name], o)]
      BY <1>2 DEF Add
    <2>3. decls[name] \in Seq(Signatures)
      BY <2>1
    <2>4. decls'[name] = Append(decls[name], o)
      BY <2>1, <2>2
    <2>5. /\ Len(decls[name]) \in Nat
          /\ DOMAIN decls[name] = 1..Len(decls[name])
      BY <2>3, LenProperties
    <2>6. /\ Append(decls[name], o) \in Seq(Signatures)
          /\ Len(Append(decls[name], o)) = Len(decls[name]) + 1
          /\ \A i \in 1..Len(decls[name]) : Append(decls[name], o)[i] = decls[name][i]
          /\ Append(decls[name], o)[Len(decls[name]) + 1] = o
      BY <2>3, AppendProperties
    <2>7. DOMAIN decls'[name] = 1..(Len(decls[name]) + 1)
      BY <2>4, <2>6, LenProperties
    <2>8. decls' \in [FunctionNames -> Seq(Signatures)]
      BY <2>1, <2>2, <2>6
    <2>9. \A f \in FunctionNames \ {name} : decls'[f] = decls[f]
      BY <2>1, <2>2
    <2> QED BY <1>2, <2>2, <2>4, <2>5, <2>6, <2>7, <2>8, <2>9
  <1> QED BY <1>1, <1>2

-----------------------------------------------------------------------------
(* Invariants. *)

\* The invariant the theorems rest on.
RegistryInv == TypeOK /\ OverloadsDiffer

\* Nothing is registered at the start.
LEMMA RegistryInit == Init => RegistryInv
  <1> SUFFICES ASSUME Init PROVE RegistryInv
    OBVIOUS
  <1>1. \A name \in FunctionNames : decls[name] = <<>> /\ DOMAIN decls[name] = {}
    BY DEF Init
  <1>2. decls \in [FunctionNames -> Seq(Signatures)]
    BY EmptySeq DEF Init
  <1> QED BY <1>1, <1>2 DEF RegistryInv, TypeOK, OverloadsDiffer, Init

\* No registration breaks the invariant.
LEMMA RegistryStep == RegistryInv /\ [Next]_vars => RegistryInv'
  <1> SUFFICES ASSUME RegistryInv, [Next]_vars PROVE RegistryInv'
    OBVIOUS
  <1>1. CASE UNCHANGED vars
    BY <1>1 DEF RegistryInv, TypeOK, OverloadsDiffer, vars
  <1>2. ASSUME NEW name \in FunctionNames, NEW o \in Signatures,
               o.member => o.args # <<>>, Add(name, o)
        PROVE  RegistryInv'
    <2>1. CASE answer' = "err" /\ decls' = decls
      BY <2>1 DEF RegistryInv, TypeOK, OverloadsDiffer
    <2>2. CASE ~(answer' = "err" /\ decls' = decls)
      <3> DEFINE n == Len(decls[name])
      <3>1. /\ ~IsPresent(name, o)
            /\ answer' = "ok"
            /\ decls' \in [FunctionNames -> Seq(Signatures)]
            /\ \A f \in FunctionNames \ {name} : decls'[f] = decls[f]
            /\ n \in Nat
            /\ DOMAIN decls[name] = 1..n
            /\ DOMAIN decls'[name] = 1..(n + 1)
            /\ \A i \in 1..n : decls'[name][i] = decls[name][i]
            /\ decls'[name][n + 1] = o
        BY <1>2, <2>2, AddEffect DEF RegistryInv
      <3> HIDE DEF n
      <3>2. ASSUME NEW f \in FunctionNames, NEW i \in DOMAIN decls'[f]
            PROVE  decls'[f][i].member => decls'[f][i].args # <<>>
        <4>1. CASE f # name
          BY <3>1, <4>1 DEF RegistryInv, TypeOK
        <4>2. CASE f = name /\ i = n + 1
          BY <1>2, <3>1, <4>2
        <4>3. CASE f = name /\ i \in 1..n
          BY <3>1, <4>3 DEF RegistryInv, TypeOK
        <4> QED BY <3>1, <4>1, <4>2, <4>3
      <3>3. ASSUME NEW i \in 1..n
            PROVE  /\ decls[name][i].id # o.id
                   /\ decls[name][i].member # o.member \/ decls[name][i].args # o.args
        BY <3>1 DEF IsPresent
      <3>4. ASSUME NEW f \in FunctionNames, NEW i \in DOMAIN decls'[f], NEW j \in DOMAIN decls'[f],
                   i # j
            PROVE  /\ decls'[f][i].id # decls'[f][j].id
                   /\ decls'[f][i].member # decls'[f][j].member \/ decls'[f][i].args # decls'[f][j].args
        <4>1. CASE f # name
          <5>1. decls'[f] = decls[f]
            BY <3>1, <4>1
          <5> QED BY <3>4, <5>1 DEF RegistryInv, OverloadsDiffer
        <4>2. CASE f = name /\ i \in 1..n /\ j \in 1..n
          BY <3>1, <3>4, <4>2 DEF RegistryInv, OverloadsDiffer
        <4>3. CASE f = name /\ i = n + 1 /\ j \in 1..n
          BY <3>1, <3>3, <4>3
        <4>4. CASE f = name /\ j = n + 1 /\ i \in 1..n
          BY <3>1, <3>3, <4>4
        <4> QED BY <3>1, <3>4, <4>1, <4>2, <4>3, <4>4
      <3>5. TypeOK'
        BY <3>1, <3>2 DEF TypeOK
      <3>6. OverloadsDiffer'
        BY <3>4 DEF OverloadsDiffer
      <3> QED BY <3>5, <3>6 DEF RegistryInv
    <2> QED BY <2>1, <2>2
  <1> QED BY <1>1, <1>2, StepIsAdd

\* The registry holds signatures only, and every member overload has a target.
THEOREM TypeCorrect == Spec => []TypeOK
  <1>1. RegistryInv => TypeOK
    BY DEF RegistryInv
  <1> QED BY <1>1, RegistryInit, RegistryStep, PTL DEF Spec

\* No function ever has two overloads of one id, or two of one signature and call style.
THEOREM NoDuplicates == Spec => []OverloadsDiffer
  <1>1. RegistryInv => OverloadsDiffer
    BY DEF RegistryInv
  <1> QED BY <1>1, RegistryInit, RegistryStep, PTL DEF Spec

-----------------------------------------------------------------------------
(* Dispatch. *)

\* find_overload in any list of overloads.
First(list, member, args) ==
  LET matching == {i \in DOMAIN list : Matches(list[i], member, args)}
  IN IF matching = {} THEN NoOverload
     ELSE list[CHOOSE i \in matching : \A j \in matching : i <= j]

\* An overload at the end of a list answers only for what the list has no answer to.
LEMMA FirstOfLonger ==
  ASSUME NEW n \in Nat, NEW list, NEW longer, NEW member, NEW args,
         DOMAIN list = 1..n, DOMAIN longer = 1..(n + 1),
         \A i \in 1..n : longer[i] = list[i] /\ list[i] \in Signatures
  PROVE  First(longer, member, args) =
           IF First(list, member, args) # NoOverload THEN First(list, member, args)
           ELSE IF Matches(longer[n + 1], member, args) THEN longer[n + 1]
           ELSE NoOverload
  <1> DEFINE before == {i \in DOMAIN list : Matches(list[i], member, args)}
             after  == {i \in DOMAIN longer : Matches(longer[i], member, args)}
             o      == longer[n + 1]
  <1>1. First(list, member, args) =
          IF before = {} THEN NoOverload
          ELSE list[CHOOSE i \in before : \A j \in before : i <= j]
    BY DEF First
  <1>2. First(longer, member, args) =
          IF after = {} THEN NoOverload
          ELSE longer[CHOOSE i \in after : \A j \in after : i <= j]
    BY DEF First
  <1>3. after = IF Matches(o, member, args) THEN before \cup {n + 1} ELSE before
    OBVIOUS
  <1>4. before \in SUBSET (1..n) /\ after \in SUBSET (1..(n + 1))
    OBVIOUS
  <1> HIDE DEF before, after, o
  <1>5. CASE before = {}
    <2>1. CASE Matches(o, member, args)
      <3>1. after = {n + 1}
        BY <1>3, <1>5, <2>1
      <3>2. (CHOOSE i \in after : \A j \in after : i <= j) = n + 1
        BY <3>1
      <3> QED BY <1>1, <1>2, <1>5, <2>1, <3>1, <3>2 DEF o
    <2>2. CASE ~Matches(o, member, args)
      BY <1>1, <1>2, <1>3, <1>5, <2>2 DEF o
    <2> QED BY <2>1, <2>2
  <1>6. CASE before # {}
    <2> DEFINE b == CHOOSE i \in before : \A j \in before : i <= j
               a == CHOOSE i \in after : \A j \in after : i <= j
    <2>1. b \in before /\ \A j \in before : b <= j
      <3>1. \E i \in before : \A j \in before : i <= j
        BY <1>4, <1>6, FirstPosition
      <3> QED BY <3>1
    <2>2. after # {} /\ b \in after /\ n + 1 \in Nat
      BY <1>3, <2>1
    <2>3. a \in after /\ \A j \in after : a <= j
      <3>1. \E i \in after : \A j \in after : i <= j
        BY <1>4, <2>2, FirstPosition
      <3> QED BY <3>1
    <2> HIDE DEF a, b
    <2>4. b \in 1..n /\ a \in 1..(n + 1) /\ a <= b
      BY <1>4, <2>1, <2>2, <2>3
    <2>5. a \in before
      BY <1>3, <2>3, <2>4
    <2>6. a = b
      BY <2>1, <2>4, <2>5
    <2>7. First(list, member, args) = list[b] /\ First(longer, member, args) = longer[b]
      BY <1>1, <1>2, <1>6, <2>2, <2>6 DEF a, b
    <2>8. longer[b] = list[b] /\ list[b] # NoOverload
      BY <2>4, NoOverloadIsNone
    <2> QED BY <2>7, <2>8
  <1> QED BY <1>5, <1>6

\* What a registration does to a call.
LEMMA AddDispatch ==
  ASSUME RegistryInv, NEW name \in FunctionNames, NEW o \in Signatures, Add(name, o),
         decls' # decls, NEW c \in Calls
  PROVE  FindOverload(c.name, c.member, c.args)' =
           IF FindOverload(c.name, c.member, c.args) # NoOverload
           THEN FindOverload(c.name, c.member, c.args)
           ELSE IF c.name = name /\ Matches(o, c.member, c.args) THEN o
           ELSE NoOverload
  <1> DEFINE n == Len(decls[name])
  <1>1. /\ \A f \in FunctionNames \ {name} : decls'[f] = decls[f]
        /\ n \in Nat
        /\ DOMAIN decls[name] = 1..n
        /\ DOMAIN decls'[name] = 1..(n + 1)
        /\ \A i \in 1..n : decls'[name][i] = decls[name][i]
        /\ decls'[name][n + 1] = o
    BY AddEffect DEF RegistryInv
  <1>2. \A i \in 1..n : decls[name][i] \in Signatures
    <2>1. decls[name] \in Seq(Signatures)
      BY DEF RegistryInv, TypeOK
    <2> QED BY <2>1, ElementOfSeq
  <1>3. FindOverload(c.name, c.member, c.args) = First(decls[c.name], c.member, c.args)
    BY DEF FindOverload, First
  <1>4. FindOverload(c.name, c.member, c.args)' = First(decls'[c.name], c.member, c.args)
    BY DEF FindOverload, First, Matches
  <1>5. c.name \in FunctionNames
    BY DEF Calls
  <1> HIDE DEF n
  <1>6. CASE c.name # name
    BY <1>1, <1>3, <1>4, <1>5, <1>6
  <1>7. CASE c.name = name
    <2>1. First(decls'[name], c.member, c.args) =
            IF First(decls[name], c.member, c.args) # NoOverload
            THEN First(decls[name], c.member, c.args)
            ELSE IF Matches(decls'[name][n + 1], c.member, c.args) THEN decls'[name][n + 1]
            ELSE NoOverload
      BY <1>1, <1>2, FirstOfLonger
    <2> QED BY <1>1, <1>3, <1>4, <1>7, <2>1
  <1> QED BY <1>6, <1>7

\* A call that is dispatched to an overload keeps it, whatever is registered later.
THEOREM DispatchStable == Spec => DispatchIsStable
  <1>1. RegistryInv /\ [Next]_vars =>
          [\A c \in Calls : Dispatch(c) # NoOverload => Dispatch(c)' = Dispatch(c)]_vars
    <2> SUFFICES ASSUME RegistryInv, Next, NEW c \in Calls, Dispatch(c) # NoOverload
                 PROVE  Dispatch(c)' = Dispatch(c)
      OBVIOUS
    <2>1. PICK name \in FunctionNames, o \in Signatures : Add(name, o)
      BY StepIsAdd
    <2>2. FindOverload(c.name, c.member, c.args) # NoOverload
      BY DEF Dispatch
    <2>3. CASE decls' = decls
      BY <2>3 DEF Dispatch, FindOverload
    <2>4. CASE decls' # decls
      <3>1. FindOverload(c.name, c.member, c.args)' = FindOverload(c.name, c.member, c.args)
        BY <2>1, <2>2, <2>4, AddDispatch
      <3> QED BY <3>1 DEF Dispatch
    <2> QED BY <2>3, <2>4
  <1> QED BY <1>1, RegistryInit, RegistryStep, PTL DEF Spec, DispatchIsStable

-----------------------------------------------------------------------------
(* Dispatch by list implements claims. *)

\* The calls' owners at the start: none.
LEMMA InitImplements == Init => Claims!Init
  <1> SUFFICES ASSUME Init, NEW c \in Calls PROVE Dispatch(c) = NoOverload
    BY DEF Claims!Init
  <1>1. c.name \in FunctionNames
    BY DEF Calls
  <1>2. DOMAIN decls[c.name] = {}
    BY <1>1 DEF Init
  <1>3. FindOverload(c.name, c.member, c.args) = NoOverload
    BY <1>2 DEF FindOverload
  <1> QED BY <1>3 DEF Dispatch

\* Every registration is one of the abstract promise, or is refused and changes nothing.
LEMMA StepImplements ==
  RegistryInv /\ [Next]_vars => [Claims!Next]_([c \in Calls |-> Dispatch(c)])
  <1> SUFFICES ASSUME RegistryInv, [Next]_vars
               PROVE  \/ Claims!Next
                      \/ [c \in Calls |-> Dispatch(c)]' = [c \in Calls |-> Dispatch(c)]
    OBVIOUS
  <1>1. CASE decls' = decls
    BY <1>1 DEF Dispatch, FindOverload
  <1>2. ASSUME NEW name \in FunctionNames, NEW o \in Signatures, Add(name, o), decls' # decls
        PROVE  Claims!Next
    <2> DEFINE added == [name |-> name, overload |-> o]
    <2>1. ASSUME NEW c \in Calls
          PROVE  Dispatch(c)' = IF Dispatch(c) = NoOverload /\ c \in AcceptedCalls(added)
                                THEN added ELSE Dispatch(c)
      <3>1. FindOverload(c.name, c.member, c.args)' =
              IF FindOverload(c.name, c.member, c.args) # NoOverload
              THEN FindOverload(c.name, c.member, c.args)
              ELSE IF c.name = name /\ Matches(o, c.member, c.args) THEN o
              ELSE NoOverload
        BY <1>2, AddDispatch
      <3>2. c \in AcceptedCalls(added) <=> c.name = name /\ Matches(o, c.member, c.args)
        BY DEF AcceptedCalls
      <3>3. Dispatch(c) = NoOverload <=> FindOverload(c.name, c.member, c.args) = NoOverload
        BY NoOverloadIsNone DEF Dispatch
      <3>4. o # NoOverload
        BY NoOverloadIsNone
      <3>5. Dispatch(c)' = IF FindOverload(c.name, c.member, c.args)' = NoOverload THEN NoOverload
                           ELSE [name |-> c.name, overload |-> FindOverload(c.name, c.member, c.args)']
        BY DEF Dispatch
      <3>6. Dispatch(c) = IF FindOverload(c.name, c.member, c.args) = NoOverload THEN NoOverload
                          ELSE [name |-> c.name, overload |-> FindOverload(c.name, c.member, c.args)]
        BY DEF Dispatch
      <3> QED BY <3>1, <3>2, <3>3, <3>4, <3>5, <3>6
    <2>2. added \in [name : FunctionNames, overload : Signatures]
      OBVIOUS
    <2>3. Claims!Register(added)
      BY <2>1 DEF Claims!Register
    <2> QED BY <2>2, <2>3 DEF Claims!Next
  <1>3. CASE Next
    BY <1>1, <1>2, <1>3, StepIsAdd
  <1>4. CASE UNCHANGED vars
    BY <1>1, <1>4 DEF vars
  <1> QED BY <1>3, <1>4

\* Searching the list from its start gives each call to the first overload added that
\* accepts it.
THEOREM ListImplementsClaims == Spec => ImplementsClaims
  <1> QED BY InitImplements, StepImplements, RegistryInit, RegistryStep, PTL
          DEF Spec, ImplementsClaims, Claims!Spec
-----------------------------------------------------------------------------
(* Values within values. *)

LEMMA NestingIsNatural == MaxNesting \in Nat
  BY DEF MaxNesting

\* A value nested no deeper than so many levels, and one no deeper than another.
Ends(v, n) == \A w \in Levels(v)[n] : DirectlyIn(w) = {}
NoDeeper(u, v) == \A n \in 0..MaxNesting : Ends(v, n) => Ends(u, n)

\* What every conversion of a value keeps.
Kept(v, u) == NoDeeper(u, v) /\ IsOperand(u)

HoldsValue(v) == TypeOf(v) = "optional" /\ v[2] # <<>>

\* Into of IntoVal.
Within(v) == LET Into[w \in AnywhereIn(v)] == IntoUsing(Into, w) IN Into[v]

\* What becomes of a value: it is copied, received by a host and given back, and keeps what it
\* is; the host receives it as it is if its copies are.
Converts(v) ==
  IsOperand(v) =>
    /\ Kept(v, Clone(v)) /\ Kept(v, FromVal(v))
    /\ ~HoldsValue(Clone(v))
    /\ Clone(v) = v => FromVal(v) = v
    /\ Within(v) = Ok(FromVal(v))

Receiving == INSTANCE Recursion WITH PartsOf <- DirectlyIn, Make <- FromUsing, Holds <- Converts, Depth <- MaxNesting
Copying   == INSTANCE Recursion WITH PartsOf <- DirectlyIn, Make <- CloneUsing, Holds <- Converts, Depth <- MaxNesting
Binding   == INSTANCE Recursion WITH PartsOf <- DirectlyIn, Make <- IntoUsing, Holds <- Converts, Depth <- MaxNesting

\* The steps ask only for what the value holds.
LEMMA FromParts == Receiving!MakesFromParts
  <1> SUFFICES ASSUME NEW f, NEW g, NEW w, \A x \in DirectlyIn(w) : f[x] = g[x]
               PROVE  FromUsing(f, w) = FromUsing(g, w)
    BY DEF Receiving!MakesFromParts
  <1>1. CASE TypeOf(w) \in {"list", "map"}
    <2>1. \A k \in DOMAIN w[2] : f[w[2][k]] = g[w[2][k]]
      BY <1>1 DEF DirectlyIn
    <2>2. [k \in DOMAIN w[2] |-> f[w[2][k]]] = [k \in DOMAIN w[2] |-> g[w[2][k]]]
      BY <2>1
    <2> QED BY <1>1, <2>2 DEF FromUsing
  <1>2. CASE TypeOf(w) = "optional"
    <2>1. w[2] # <<>> => f[w[2][1]] = g[w[2][1]]
      BY <1>2 DEF DirectlyIn
    <2> QED BY <1>2, <2>1 DEF FromUsing
  <1>3. CASE TypeOf(w) \notin {"list", "map", "optional"}
    BY <1>3 DEF FromUsing
  <1> QED BY <1>1, <1>2, <1>3

LEMMA CopyParts == Copying!MakesFromParts
  <1> SUFFICES ASSUME NEW f, NEW g, NEW w, \A x \in DirectlyIn(w) : f[x] = g[x]
               PROVE  CloneUsing(f, w) = CloneUsing(g, w)
    BY DEF Copying!MakesFromParts
  <1>1. CASE TypeOf(w) \in {"list", "map"}
    <2>1. \A k \in DOMAIN w[2] : f[w[2][k]] = g[w[2][k]]
      BY <1>1 DEF DirectlyIn
    <2>2. [k \in DOMAIN w[2] |-> f[w[2][k]]] = [k \in DOMAIN w[2] |-> g[w[2][k]]]
      BY <2>1
    <2> QED BY <1>1, <2>2 DEF CloneUsing
  <1>2. CASE TypeOf(w) = "optional"
    <2>1. w[2] # <<>> => f[w[2][1]] = g[w[2][1]]
      BY <1>2 DEF DirectlyIn
    <2> QED BY <1>2, <2>1 DEF CloneUsing
  <1>3. CASE TypeOf(w) = "struct"
    <2>1. \A x \in DOMAIN w[2][2] : f[w[2][2][x]] = g[w[2][2][x]]
      BY <1>3 DEF DirectlyIn
    <2>2. [x \in DOMAIN w[2][2] |-> f[w[2][2][x]]] = [x \in DOMAIN w[2][2] |-> g[w[2][2][x]]]
      BY <2>1
    <2> QED BY <1>3, <2>2 DEF CloneUsing
  <1>4. CASE TypeOf(w) \notin {"list", "map", "optional", "struct"}
    BY <1>4 DEF CloneUsing
  <1> QED BY <1>1, <1>2, <1>3, <1>4

LEMMA BindingParts == Binding!MakesFromParts
  <1> SUFFICES ASSUME NEW f, NEW g, NEW w, \A x \in DirectlyIn(w) : f[x] = g[x]
               PROVE  IntoUsing(f, w) = IntoUsing(g, w)
    BY DEF Binding!MakesFromParts
  <1>1. CASE TypeOf(w) = "list"
    <2>1. \A k \in DOMAIN w[2] : f[w[2][k]] = g[w[2][k]]
      BY <1>1 DEF DirectlyIn
    <2>2. [k \in DOMAIN w[2] |-> f[w[2][k]]] = [k \in DOMAIN w[2] |-> g[w[2][k]]]
      BY <2>1
    <2> QED BY <1>1, <2>2 DEF IntoUsing
  <1>2. CASE TypeOf(w) = "map"
    <2>1. \A k \in DOMAIN w[2] : f[w[2][k]] = g[w[2][k]]
      BY <1>2 DEF DirectlyIn
    <2>2. [k \in DOMAIN w[2] |-> f[w[2][k]][2]] = [k \in DOMAIN w[2] |-> g[w[2][k]][2]]
      BY <2>1
    <2>3. (\E k \in DOMAIN w[2] : Failed(f[w[2][k]])) <=> (\E k \in DOMAIN w[2] : Failed(g[w[2][k]]))
      BY <2>1
    <2> QED BY <1>2, <2>2, <2>3 DEF IntoUsing
  <1>3. CASE TypeOf(w) = "optional"
    <2>1. w[2] # <<>> => f[w[2][1]] = g[w[2][1]]
      BY <1>3 DEF DirectlyIn
    <2> QED BY <1>3, <2>1 DEF IntoUsing
  <1>4. CASE TypeOf(w) \notin {"list", "map", "optional"}
    BY <1>4 DEF IntoUsing
  <1> QED BY <1>1, <1>2, <1>3, <1>4

LEMMA NestedIsBounded ==
  ASSUME NEW v
  PROVE  /\ Receiving!IsBounded(v) <=> IsNested(v)
         /\ Copying!IsBounded(v) <=> IsNested(v)
         /\ Binding!IsBounded(v) <=> IsNested(v)
         /\ Receiving!AllPartsOf(v) = AnywhereIn(v)
         /\ Copying!AllPartsOf(v) = AnywhereIn(v)
         /\ Binding!AllPartsOf(v) = AnywhereIn(v)
  <1>1. Receiving!PartLevels(v) = Levels(v) /\ Copying!PartLevels(v) = Levels(v) /\ Binding!PartLevels(v) = Levels(v)
    BY DEF Receiving!PartLevels, Copying!PartLevels, Binding!PartLevels, Levels
  <1> QED BY <1>1 DEF Receiving!IsBounded, Copying!IsBounded, Binding!IsBounded, IsNested, Receiving!AllPartsOf,
                      Copying!AllPartsOf, Binding!AllPartsOf, AnywhereIn

LEMMA Nested ==
  ASSUME NEW v
  PROVE  /\ Copying!IsBounded(v) <=> IsNested(v)
         /\ Copying!AllPartsOf(v) = AnywhereIn(v)
         /\ IsNested(v) <=> Ends(v, MaxNesting)
         /\ Ends(v, 0) <=> DirectlyIn(v) = {}
         /\ \A n \in Nat : n + 1 <= MaxNesting => (Ends(v, n + 1) <=> \A x \in DirectlyIn(v) : Ends(x, n))
         /\ \A n \in Nat : n + 1 <= MaxNesting /\ Ends(v, n) => Ends(v, n + 1)
  <1>1. Copying!PartLevels(v) = Levels(v)
    BY DEF Copying!PartLevels, Levels
  <1>2. (Copying!IsBounded(v) <=> IsNested(v)) /\ Copying!AllPartsOf(v) = AnywhereIn(v)
    BY <1>1 DEF Copying!IsBounded, IsNested, Copying!AllPartsOf, AnywhereIn
  <1>3. \A x, n : Ends(x, n) <=> Copying!EndsBy(x, n)
    <2> SUFFICES ASSUME NEW x, NEW n PROVE Ends(x, n) <=> Copying!EndsBy(x, n)
      OBVIOUS
    <2>1. Copying!PartLevels(x) = Levels(x)
      BY DEF Copying!PartLevels, Levels
    <2> QED BY <2>1 DEF Ends, Copying!EndsBy
  <1>4. /\ Copying!EndsBy(v, 0) <=> DirectlyIn(v) = {}
        /\ \A n \in Nat : n + 1 <= MaxNesting =>
             (Copying!EndsBy(v, n + 1) <=> \A x \in DirectlyIn(v) : Copying!EndsBy(x, n))
        /\ \A n \in Nat : n + 1 <= MaxNesting /\ Copying!EndsBy(v, n) => Copying!EndsBy(v, n + 1)
        /\ Copying!IsBounded(v) <=> Copying!EndsBy(v, MaxNesting)
    BY NestingIsNatural, Copying!EndsByParts
  <1> QED BY <1>2, <1>3, <1>4

LEMMA InNested ==
  ASSUME NEW v, IsNested(v)
  PROVE  /\ AnywhereIn(v) = {v} \cup UNION {AnywhereIn(x) : x \in DirectlyIn(v)}
         /\ \A x \in DirectlyIn(v) : IsNested(x) /\ AnywhereIn(x) \subseteq AnywhereIn(v)
         /\ \A w \in AnywhereIn(v) : IsNested(w) /\ AnywhereIn(w) \subseteq AnywhereIn(v)
         /\ v \in AnywhereIn(v)
  <1>1. Copying!IsBounded(v)
    BY Nested
  <1>2. Copying!AllPartsOf(v) = {v} \cup UNION {Copying!AllPartsOf(x) : x \in DirectlyIn(v)}
    BY <1>1, NestingIsNatural, Copying!AllOfParts
  <1>3. AnywhereIn(v) = {v} \cup UNION {AnywhereIn(x) : x \in DirectlyIn(v)}
    BY <1>2, Nested
  <1>4. \A x \in DirectlyIn(v) : Copying!IsBounded(x) /\ Copying!AllPartsOf(x) \subseteq Copying!AllPartsOf(v)
    BY <1>1, NestingIsNatural, Copying!PartsAreBounded
  <1>5. \A w \in Copying!AllPartsOf(v) :
          Copying!IsBounded(w) /\ Copying!AllPartsOf(w) \subseteq Copying!AllPartsOf(v)
    BY <1>1, NestingIsNatural, Copying!InnermostBounded
  <1> QED BY <1>3, <1>4, <1>5, Nested

\* A value that holds what f makes of the values another holds, each no deeper than it was.
LEMMA Rebuilt ==
  ASSUME NEW v, IsNested(v), NEW u, NEW f,
         DirectlyIn(u) = {f[x] : x \in DirectlyIn(v)},
         \A x \in DirectlyIn(v) : NoDeeper(f[x], x)
  PROVE  /\ NoDeeper(u, v)
         /\ IsNested(u)
         /\ AnywhereIn(u) = {u} \cup UNION {AnywhereIn(f[x]) : x \in DirectlyIn(v)}
  <1>1. ASSUME NEW n \in 0..MaxNesting, Ends(v, n) PROVE Ends(u, n)
    <2>1. CASE n = 0
      BY <1>1, <2>1, Nested
    <2>2. CASE n # 0
      <3>1. PICK m \in Nat : n = m + 1 /\ m \in 0..MaxNesting /\ m + 1 <= MaxNesting
        <4>1. n - 1 \in Nat /\ n = (n - 1) + 1 /\ n - 1 \in 0..MaxNesting
          BY <2>2, NestingIsNatural
        <4> QED BY <4>1, NestingIsNatural
      <3>2. \A x \in DirectlyIn(v) : Ends(x, m)
        BY <1>1, <3>1, Nested
      <3>3. \A y \in DirectlyIn(u) : Ends(y, m)
        BY <3>1, <3>2 DEF NoDeeper
      <3> QED BY <3>1, <3>3, Nested
    <2> QED BY <2>1, <2>2
  <1>2. IsNested(u)
    <2>1. MaxNesting \in 0..MaxNesting
      BY NestingIsNatural
    <2> QED BY <1>1, <2>1, Nested
  <1>3. UNION {AnywhereIn(y) : y \in DirectlyIn(u)} = UNION {AnywhereIn(f[x]) : x \in DirectlyIn(v)}
    OBVIOUS
  <1>4. AnywhereIn(u) = {u} \cup UNION {AnywhereIn(y) : y \in DirectlyIn(u)}
    BY <1>2, InNested
  <1> QED BY <1>1, <1>2, <1>3, <1>4 DEF NoDeeper

\* Each kind of value holds what its kind holds.
LEMMA DirectlyInKinds ==
  /\ \A s : DirectlyIn(ListOf(s)) = {s[i] : i \in DOMAIN s}
  /\ \A f : DirectlyIn(MapOf(f)) = {f[k] : k \in DOMAIN f}
  /\ \A n, f : DirectlyIn(StructOf(n, f)) = {f[x] : x \in DOMAIN f}
  /\ \A x : DirectlyIn(OptSome(x)) = {x}
  /\ DirectlyIn(OptNone) = {}
  /\ \A v : TypeOf(v) \notin {"list", "map", "optional", "struct"} => DirectlyIn(v) = {}
  <1>1. \A s : TypeOf(ListOf(s)) = "list" /\ ListOf(s)[2] = s
    BY DEF TypeOf, ListOf
  <1>2. \A f : TypeOf(MapOf(f)) = "map" /\ MapOf(f)[2] = f
    BY DEF TypeOf, MapOf
  <1>3. \A n, f : TypeOf(StructOf(n, f)) = "struct" /\ StructOf(n, f)[2][2] = f
    BY DEF TypeOf, StructOf
  <1>4. \A x : TypeOf(OptSome(x)) = "optional" /\ OptSome(x)[2] = <<x>>
    BY DEF TypeOf, OptSome
  <1>5. TypeOf(OptNone) = "optional" /\ OptNone[2] = <<>>
    BY DEF TypeOf, OptNone
  <1>6. \A x : <<x>> # <<>> /\ <<x>>[1] = x
    OBVIOUS
  <1> QED BY <1>1, <1>2, <1>3, <1>4, <1>5, <1>6 DEF DirectlyIn

\* What a value holds, and what that becomes, is nested no deeper than the value.
LEMMA PartIsNoDeeper ==
  ASSUME NEW v, NEW x \in DirectlyIn(v), NEW u, NoDeeper(u, x)
  PROVE  NoDeeper(u, v)
  <1> SUFFICES ASSUME NEW n \in 0..MaxNesting, Ends(v, n) PROVE Ends(u, n)
    BY DEF NoDeeper
  <1>1. n # 0
    BY Nested
  <1>2. PICK m \in Nat : n = m + 1 /\ m \in 0..MaxNesting /\ m + 1 <= MaxNesting
    <2>1. n - 1 \in Nat /\ n = (n - 1) + 1 /\ n - 1 \in 0..MaxNesting
      BY <1>1, NestingIsNatural
    <2> QED BY <2>1, NestingIsNatural
  <1>3. Ends(x, m)
    BY <1>2, Nested
  <1>4. Ends(u, m)
    BY <1>2, <1>3 DEF NoDeeper
  <1> QED BY <1>2, <1>4, Nested

\* A value as a host receives it holds the values it holds as the host receives them.
LEMMA FromValOfParts ==
  ASSUME NEW v, IsNested(v)
  PROVE  FromVal(v) = FromUsing([x \in DirectlyIn(v) |-> FromVal(x)], v)
  <1>1. \A w : FromVal(w) = Receiving!MadeOf(w)
    <2>1. \A w : Receiving!AllPartsOf(w) = AnywhereIn(w)
      BY NestedIsBounded
    <2> QED BY ONLY <2>1 DEF FromVal, Receiving!MadeOf
  <1>2. Receiving!MadeOf(v) = FromUsing([x \in DirectlyIn(v) |-> Receiving!MadeOf(x)], v)
    BY NestedIsBounded, NestingIsNatural, FromParts, Receiving!Unfolding
  <1>3. [x \in DirectlyIn(v) |-> Receiving!MadeOf(x)] = [x \in DirectlyIn(v) |-> FromVal(x)]
    BY <1>1
  <1> QED BY <1>1, <1>2, <1>3

LEMMA CloneOfParts ==
  ASSUME NEW v, IsNested(v)
  PROVE  Clone(v) = CloneUsing([x \in DirectlyIn(v) |-> Clone(x)], v)
  <1>1. \A w : Clone(w) = Copying!MadeOf(w)
    <2>1. \A w : Copying!AllPartsOf(w) = AnywhereIn(w)
      BY NestedIsBounded
    <2> QED BY ONLY <2>1 DEF Clone, Copying!MadeOf
  <1>2. Copying!MadeOf(v) = CloneUsing([x \in DirectlyIn(v) |-> Copying!MadeOf(x)], v)
    BY NestedIsBounded, NestingIsNatural, CopyParts, Copying!Unfolding
  <1>3. [x \in DirectlyIn(v) |-> Copying!MadeOf(x)] = [x \in DirectlyIn(v) |-> Clone(x)]
    BY <1>1
  <1> QED BY <1>1, <1>2, <1>3

\* The conversion keeps the type, and converts a list item by item.
LEMMA FromValKeepsType ==
  ASSUME NEW v, IsNested(v)
  PROVE  TypeOf(FromVal(v)) = TypeOf(v)
  <1> DEFINE g == [x \in DirectlyIn(v) |-> FromVal(x)]
             h == [x \in DirectlyIn(v) |-> Clone(x)]
  <1>1. FromVal(v) = FromUsing(g, v) /\ Clone(v) = CloneUsing(h, v)
    BY FromValOfParts, CloneOfParts
  <1> HIDE DEF g, h
  <1>2. CASE TypeOf(v) = "struct"
    <2>1. TypeOf(CloneUsing(h, v)) = "struct"
      BY <1>2 DEF CloneUsing, StructOf, TypeOf
    <2>2. FromUsing(g, v) = Clone(v)
      BY <1>2 DEF FromUsing
    <2> QED BY <1>1, <1>2, <2>1, <2>2
  <1>3. CASE TypeOf(v) # "struct"
    <2>1. \A x : TypeOf(ListOf(x)) = "list" /\ TypeOf(MapOf(x)) = "map" /\ TypeOf(OptSome(x)) = "optional"
      BY DEF TypeOf, ListOf, MapOf, OptSome
    <2>2. TypeOf(OptNone) = "optional"
      BY DEF TypeOf, OptNone
    <2> QED BY <1>1, <1>3, <2>1, <2>2 DEF FromUsing
  <1> QED BY <1>2, <1>3

LEMMA FromValOfList ==
  ASSUME NEW s, IsNested(ListOf(s))
  PROVE  /\ FromVal(ListOf(s)) = ListOf([i \in DOMAIN s |-> FromVal(s[i])])
         /\ \A i \in DOMAIN s : IsNested(s[i])
  <1> DEFINE g == [x \in DirectlyIn(ListOf(s)) |-> FromVal(x)]
  <1>1. TypeOf(ListOf(s)) = "list" /\ ListOf(s)[2] = s
    BY DEF TypeOf, ListOf
  <1>2. \A i \in DOMAIN s : s[i] \in DirectlyIn(ListOf(s))
    BY <1>1 DEF DirectlyIn
  <1>3. \A i \in DOMAIN s : g[s[i]] = FromVal(s[i])
    BY <1>2
  <1>4. FromVal(ListOf(s)) = FromUsing(g, ListOf(s))
    BY FromValOfParts
  <1> HIDE DEF g
  <1>5. FromUsing(g, ListOf(s)) = ListOf([i \in DOMAIN s |-> g[s[i]]])
    <2> HIDE DEF ListOf
    <2> QED BY <1>1 DEF FromUsing
  <1>6. [i \in DOMAIN s |-> g[s[i]]] = [i \in DOMAIN s |-> FromVal(s[i])]
    BY <1>3
  <1>7. \A i \in DOMAIN s : IsNested(s[i])
    BY <1>2, InNested
  <1> QED BY <1>4, <1>5, <1>6, <1>7

LEMMA WithinOfParts ==
  ASSUME NEW v, IsNested(v)
  PROVE  /\ Within(v) = IntoUsing([x \in DirectlyIn(v) |-> Within(x)], v)
         /\ \A shared : IntoVal(v, shared) = IF TypeOf(v) = "struct" THEN Ok(Moved(v, shared)) ELSE Within(v)
  <1>1. \A w : Within(w) = Binding!MadeOf(w)
    <2>1. \A w : Binding!AllPartsOf(w) = AnywhereIn(w)
      BY NestedIsBounded
    <2> QED BY ONLY <2>1 DEF Within, Binding!MadeOf
  <1>2. Binding!MadeOf(v) = IntoUsing([x \in DirectlyIn(v) |-> Binding!MadeOf(x)], v)
    BY NestedIsBounded, NestingIsNatural, BindingParts, Binding!Unfolding
  <1>3. [x \in DirectlyIn(v) |-> Binding!MadeOf(x)] = [x \in DirectlyIn(v) |-> Within(x)]
    BY <1>1
  <1>4. \A shared : IntoVal(v, shared) = IF TypeOf(v) = "struct" THEN Ok(Moved(v, shared)) ELSE Within(v)
    BY DEF IntoVal, Within
  <1> QED BY <1>1, <1>2, <1>3, <1>4

\* What conversions have in common: a value is rebuilt from what its parts have become.
RebuiltFrom(f, v) ==
  CASE TypeOf(v) = "list"   -> ListOf([i \in DOMAIN v[2] |-> f[v[2][i]]])
    [] TypeOf(v) = "map"    -> MapOf([k \in DOMAIN v[2] |-> f[v[2][k]]])
    [] TypeOf(v) = "struct" -> StructOf(v[2][1], [x \in DOMAIN v[2][2] |-> f[v[2][2][x]]])
    [] HoldsValue(v)        -> OptSome(f[v[2][1]])
    [] OTHER                -> v

\* What is rebuilt is of the same kind and holds what the parts have become; it is the value itself
\* when the parts are what they were, and then only.
LEMMA RebuiltAlike ==
  ASSUME NEW v, IsShaped(v), NEW f
  PROVE  /\ TypeOf(RebuiltFrom(f, v)) = TypeOf(v)
         /\ IsShaped(RebuiltFrom(f, v))
         /\ DirectlyIn(RebuiltFrom(f, v)) = {f[x] : x \in DirectlyIn(v)}
         /\ (\A x \in DirectlyIn(v) : f[x] = x) <=> RebuiltFrom(f, v) = v
  <1> DEFINE R == RebuiltFrom(f, v)
  <1>0. v = <<TypeOf(v), v[2]>> /\ TypeOf(v) \in AnyType
    BY DEF IsShaped
  <1>1. CASE TypeOf(v) = "list"
    <2> DEFINE s == [i \in DOMAIN v[2] |-> f[v[2][i]]]
    <2>0. v = ListOf(v[2]) /\ IsSequence(v[2])
      BY <1>0, <1>1 DEF IsShaped, ListOf
    <2>1. v = ListOf(v[2]) /\ IsSequence(v[2]) /\ R = ListOf(s)
      BY <1>1, <2>0 DEF RebuiltFrom, HoldsValue
    <2>2. DirectlyIn(R) = {s[i] : i \in DOMAIN s} /\ DirectlyIn(v) = {v[2][i] : i \in DOMAIN v[2]}
      <3>1. DirectlyIn(v) = {v[2][i] : i \in DOMAIN v[2]}
        BY <1>1 DEF DirectlyIn
      <3> HIDE DEF s
      <3> QED BY <2>1, <3>1, DirectlyInKinds
    <2>3. R = v <=> s = v[2]
      BY <2>1 DEF ListOf
    <2>4. v[2] = [i \in DOMAIN v[2] |-> v[2][i]]
      BY <2>1 DEF IsSequence
    <2>5. s = v[2] <=> \A i \in DOMAIN v[2] : f[v[2][i]] = v[2][i]
      <3>1. ASSUME s = v[2], NEW i \in DOMAIN v[2] PROVE f[v[2][i]] = v[2][i]
        <4>1. s[i] = f[v[2][i]]
          OBVIOUS
        <4> QED BY <3>1, <4>1
      <3>2. ASSUME \A i \in DOMAIN v[2] : f[v[2][i]] = v[2][i] PROVE s = v[2]
        BY <2>4, <3>2
      <3> QED BY <3>1, <3>2
    <2>6. IsSequence(s)
      BY <2>1 DEF IsSequence
    <2>7. TypeOf(R) = "list" /\ R[2] = s /\ R = <<"list", s>>
      BY <2>1 DEF ListOf, TypeOf
    <2>8. IsShaped(R)
      BY <2>6, <2>7 DEF IsShaped, AnyType
    <2>9. {s[i] : i \in DOMAIN s} = {f[x] : x \in DirectlyIn(v)}
      BY <2>2
    <2> HIDE DEF s, R
    <2> QED BY <1>1, <2>2, <2>3, <2>5, <2>7, <2>8, <2>9 DEF R
  <1>2. CASE TypeOf(v) = "map"
    <2> DEFINE s == [i \in DOMAIN v[2] |-> f[v[2][i]]]
    <2>0. v = MapOf(v[2]) /\ v[2] = [k \in DOMAIN v[2] |-> v[2][k]]
      BY <1>0, <1>2 DEF IsShaped, MapOf
    <2>1. v = MapOf(v[2]) /\ v[2] = [k \in DOMAIN v[2] |-> v[2][k]] /\ R = MapOf(s)
      <3>1. R = MapOf(s)
        BY <1>2 DEF RebuiltFrom, HoldsValue
      <3> QED BY <2>0, <3>1
    <2>2. DirectlyIn(R) = {s[i] : i \in DOMAIN s} /\ DirectlyIn(v) = {v[2][i] : i \in DOMAIN v[2]}
      <3>1. DirectlyIn(v) = {v[2][i] : i \in DOMAIN v[2]}
        BY <1>2 DEF DirectlyIn
      <3>2. R = MapOf(s)
        BY <2>1
      <3> HIDE DEF s
      <3> QED BY <3>2, <3>1, DirectlyInKinds
    <2>3. R = v <=> s = v[2]
      BY <2>1 DEF MapOf
    <2>5. s = v[2] <=> \A i \in DOMAIN v[2] : f[v[2][i]] = v[2][i]
      <3>1. ASSUME s = v[2], NEW i \in DOMAIN v[2] PROVE f[v[2][i]] = v[2][i]
        <4>1. s[i] = f[v[2][i]]
          OBVIOUS
        <4> QED BY <3>1, <4>1
      <3>2. ASSUME \A i \in DOMAIN v[2] : f[v[2][i]] = v[2][i] PROVE s = v[2]
        BY <2>1, <3>2
      <3> QED BY <3>1, <3>2
    <2>7. TypeOf(R) = "map" /\ R[2] = s /\ R = <<"map", s>>
      BY <2>1 DEF MapOf, TypeOf
    <2>8. IsShaped(R)
      BY <2>7 DEF IsShaped, AnyType
    <2>9. {s[i] : i \in DOMAIN s} = {f[x] : x \in DirectlyIn(v)}
      BY <2>2
    <2> HIDE DEF s, R
    <2> QED BY <1>2, <2>2, <2>3, <2>5, <2>7, <2>8, <2>9 DEF R
  <1>3. CASE TypeOf(v) = "struct"
    <2> DEFINE c == v[2][2]
               s == [i \in DOMAIN c |-> f[c[i]]]
               b == [i \in DOMAIN c |-> c[i]]
    <2>0. v = StructOf(v[2][1], b)
      BY <1>3 DEF IsShaped
    <2>1. v = StructOf(v[2][1], b) /\ R = StructOf(v[2][1], s)
      <3>1. R = StructOf(v[2][1], s)
        BY <1>3 DEF RebuiltFrom, HoldsValue
      <3> QED BY <2>0, <3>1
    <2>2. DirectlyIn(R) = {s[i] : i \in DOMAIN s} /\ DirectlyIn(v) = {c[i] : i \in DOMAIN c}
      <3>1. DirectlyIn(v) = {c[i] : i \in DOMAIN c}
        BY <1>3 DEF DirectlyIn
      <3>2. R = StructOf(v[2][1], s)
        BY <2>1
      <3> HIDE DEF s
      <3> QED BY <3>2, <3>1, DirectlyInKinds
    <2>3. R = v <=> s = b
      BY <2>1 DEF StructOf
    <2>5. s = b <=> \A i \in DOMAIN c : f[c[i]] = c[i]
      <3>1. ASSUME s = b, NEW i \in DOMAIN c PROVE f[c[i]] = c[i]
        <4>1. s[i] = f[c[i]] /\ b[i] = c[i]
          OBVIOUS
        <4> HIDE DEF s, b
        <4> QED BY <3>1, <4>1
      <3>2. ASSUME \A i \in DOMAIN c : f[c[i]] = c[i] PROVE s = b
        BY <3>2
      <3> QED BY <3>1, <3>2
    <2>7. TypeOf(R) = "struct" /\ R[2][1] = v[2][1] /\ R[2][2] = s /\ R = <<"struct", R[2]>>
      BY <2>1 DEF StructOf, TypeOf
    <2>8. R = StructOf(R[2][1], [i \in DOMAIN R[2][2] |-> R[2][2][i]])
      <3>1. s = [i \in DOMAIN s |-> s[i]]
        OBVIOUS
      <3> HIDE DEF s, R, StructOf
      <3> QED BY <2>1, <2>7, <3>1
    <2>10. IsShaped(R)
      <3> HIDE DEF R
      <3> QED BY <2>7, <2>8 DEF IsShaped, AnyType
    <2>9. {s[i] : i \in DOMAIN s} = {f[x] : x \in DirectlyIn(v)}
      BY <2>2
    <2> HIDE DEF s, R, b
    <2> QED BY <1>3, <2>2, <2>3, <2>5, <2>7, <2>10, <2>9 DEF R
  <1>4. CASE HoldsValue(v)
    <2> DEFINE x == v[2][1]
    <2>1. v = OptSome(x) /\ R = OptSome(f[x])
      <3>1. OptNone[2] = <<>>
        BY DEF OptNone
      <3> QED BY <1>4, <3>1 DEF IsShaped, RebuiltFrom, HoldsValue
    <2> HIDE DEF x
    <2>2. DirectlyIn(v) = {x} /\ DirectlyIn(R) = {f[x]}
      BY <2>1, DirectlyInKinds
    <2>3. R = v <=> f[x] = x
      BY <2>1 DEF OptSome
    <2>4. TypeOf(R) = "optional" /\ R[2][1] = f[x] /\ R = <<"optional", R[2]>>
      BY <2>1 DEF OptSome, TypeOf
    <2>5. IsShaped(R)
      BY <2>1, <2>4 DEF IsShaped, AnyType
    <2> QED BY <1>4, <2>2, <2>3, <2>4, <2>5 DEF HoldsValue
  <1>5. CASE TypeOf(v) \notin {"list", "map", "struct"} /\ ~HoldsValue(v)
    <2>1. R = v
      BY <1>5 DEF RebuiltFrom
    <2>2. DirectlyIn(v) = {}
      BY <1>5 DEF DirectlyIn, HoldsValue
    <2> QED BY <2>1, <2>2
  <1>6. HoldsValue(v) => TypeOf(v) = "optional"
    BY DEF HoldsValue
  <1> QED BY <1>1, <1>2, <1>3, <1>4, <1>5, <1>6

\* What a value is made of is shaped if the value is an operand.
LEMMA OperandParts ==
  ASSUME NEW v, IsNested(v)
  PROVE  IsOperand(v) <=> IsShaped(v) /\ \A x \in DirectlyIn(v) : IsOperand(x)
  <1>1. AnywhereIn(v) = {v} \cup UNION {AnywhereIn(x) : x \in DirectlyIn(v)}
    BY InNested
  <1> HIDE DEF AnywhereIn
  <1> QED BY <1>1 DEF IsOperand

LEMMA RebuiltKeeps ==
  ASSUME NEW v, IsNested(v), IsShaped(v), NEW f, \A x \in DirectlyIn(v) : Kept(x, f[x])
  PROVE  Kept(v, RebuiltFrom(f, v)) /\ IsNested(RebuiltFrom(f, v))
  <1> DEFINE R == RebuiltFrom(f, v)
  <1>1. IsShaped(R) /\ DirectlyIn(R) = {f[x] : x \in DirectlyIn(v)}
    BY RebuiltAlike
  <1> HIDE DEF R
  <1>2. \A x \in DirectlyIn(v) : NoDeeper(f[x], x) /\ IsOperand(f[x])
    BY DEF Kept
  <1>3. NoDeeper(R, v) /\ IsNested(R)
    BY <1>1, <1>2, Rebuilt
  <1>4. \A y \in DirectlyIn(R) : IsOperand(y)
    BY <1>1, <1>2
  <1>5. IsOperand(R)
    BY <1>1, <1>3, <1>4, OperandParts
  <1> QED BY <1>3, <1>5 DEF Kept, R

\* A copy is rebuilt from copies, but for an optional that holds a value, which is left; a host
\* receives a value rebuilt from its parts as it receives them, but for a struct, which is copied.
LEMMA ConversionsRebuild ==
  ASSUME NEW v, IsNested(v), IsShaped(v)
  PROVE  LET g == [x \in DirectlyIn(v) |-> Clone(x)]
             h == [x \in DirectlyIn(v) |-> FromVal(x)]
         IN /\ Clone(v) = IF HoldsValue(v) THEN g[v[2][1]] ELSE RebuiltFrom(g, v)
            /\ FromVal(v) = IF TypeOf(v) = "struct" THEN Clone(v) ELSE RebuiltFrom(h, v)
  <1> DEFINE g == [x \in DirectlyIn(v) |-> Clone(x)]
             h == [x \in DirectlyIn(v) |-> FromVal(x)]
  <1>1. Clone(v) = CloneUsing(g, v)
    BY CloneOfParts
  <1>2. FromVal(v) = FromUsing(h, v)
    BY FromValOfParts
  <1> HIDE DEF g, h
  <1>3. TypeOf(v) = "optional" /\ v[2] = <<>> => v = OptNone
    BY DEF IsShaped, OptNone, OptSome
  <1>4. CloneUsing(g, v) = IF HoldsValue(v) THEN g[v[2][1]] ELSE RebuiltFrom(g, v)
    BY DEF CloneUsing, RebuiltFrom, HoldsValue
  <1>5. FromUsing(h, v) = IF TypeOf(v) = "struct" THEN Clone(v) ELSE RebuiltFrom(h, v)
    BY <1>3 DEF FromUsing, RebuiltFrom, HoldsValue
  <1> QED BY <1>1, <1>2, <1>4, <1>5 DEF g, h

\* What results are made of, taken together.
LEMMA TogetherResults ==
  ASSUME NEW r, \A i \in DOMAIN r : ~Failed(r[i])
  PROVE  Together(r) = Ok([i \in DOMAIN r |-> r[i][2]])
  BY DEF Together

\* A value that holds what others have become is what is made of those that have.
LEMMA WithinRebuilds ==
  ASSUME NEW v, IsNested(v), IsShaped(v), NEW h,
         \A x \in DirectlyIn(v) : Within(x) = Ok(h[x])
  PROVE  TypeOf(v) # "struct" => Within(v) = Ok(RebuiltFrom(h, v))
  <1> DEFINE g == [x \in DirectlyIn(v) |-> Within(x)]
  <1>1. Within(v) = IntoUsing(g, v)
    BY WithinOfParts
  <1>2. \A x \in DirectlyIn(v) : ~Failed(g[x]) /\ g[x][2] = h[x]
    BY DEF Ok, Failed
  <1> HIDE DEF g
  <1>3. CASE TypeOf(v) = "list"
    <2> DEFINE r == [i \in DOMAIN v[2] |-> g[v[2][i]]]
    <2>1. \A i \in DOMAIN v[2] : v[2][i] \in DirectlyIn(v)
      BY <1>3 DEF DirectlyIn
    <2>2. DOMAIN r = DOMAIN v[2] /\ \A i \in DOMAIN v[2] : ~Failed(r[i]) /\ r[i][2] = h[v[2][i]]
      BY <1>2, <2>1
    <2>3. IntoUsing(g, v) = InList(Together(r))
      BY <1>3 DEF IntoUsing
    <2> HIDE DEF r
    <2>4. Together(r) = Ok([i \in DOMAIN r |-> r[i][2]])
      BY <2>2, TogetherResults
    <2>5. [i \in DOMAIN r |-> r[i][2]] = [i \in DOMAIN v[2] |-> h[v[2][i]]]
      BY <2>2
    <2>6. RebuiltFrom(h, v) = ListOf([i \in DOMAIN v[2] |-> h[v[2][i]]])
      BY <1>3 DEF RebuiltFrom, HoldsValue
    <2>7. \A s : InList(Ok(s)) = Ok(ListOf(s))
      BY DEF InList, Ok, Failed
    <2> QED BY <1>1, <2>3, <2>4, <2>5, <2>6, <2>7
  <1>4. CASE TypeOf(v) = "map"
    <2>1. \A i \in DOMAIN v[2] : v[2][i] \in DirectlyIn(v)
      BY <1>4 DEF DirectlyIn
    <2>2. \A i \in DOMAIN v[2] : ~Failed(g[v[2][i]]) /\ g[v[2][i]][2] = h[v[2][i]]
      BY <1>2, <2>1
    <2>3. [k \in DOMAIN v[2] |-> g[v[2][k]][2]] = [k \in DOMAIN v[2] |-> h[v[2][k]]]
      BY <2>2
    <2>4. IntoUsing(g, v) = Ok(MapOf([k \in DOMAIN v[2] |-> g[v[2][k]][2]]))
      BY <1>4, <2>2 DEF IntoUsing
    <2>6. RebuiltFrom(h, v) = MapOf([i \in DOMAIN v[2] |-> h[v[2][i]]])
      BY <1>4 DEF RebuiltFrom, HoldsValue
    <2> QED BY <1>1, <2>3, <2>4, <2>6
  <1>5. CASE HoldsValue(v)
    <2>1. v[2][1] \in DirectlyIn(v)
      BY <1>5 DEF HoldsValue, DirectlyIn
    <2>2. ~Failed(g[v[2][1]]) /\ g[v[2][1]][2] = h[v[2][1]]
      BY <1>2, <2>1
    <2>3. IntoUsing(g, v) = Ok(OptSome(g[v[2][1]][2]))
      BY <1>5, <2>2 DEF HoldsValue, IntoUsing
    <2>4. RebuiltFrom(h, v) = OptSome(h[v[2][1]])
      BY <1>5 DEF RebuiltFrom, HoldsValue
    <2> QED BY <1>1, <2>2, <2>3, <2>4
  <1>6. CASE TypeOf(v) \notin {"list", "map", "struct"} /\ ~HoldsValue(v)
    <2>1. RebuiltFrom(h, v) = v
      BY <1>6 DEF RebuiltFrom, HoldsValue
    <2>2. TypeOf(v) = "optional" => v[2] = <<>> /\ v = OptNone
      BY <1>6 DEF HoldsValue, IsShaped, OptSome, OptNone
    <2>3. TypeOf(v) # "function"
      BY DEF IsShaped, AnyType
    <2>4. IntoUsing(g, v) = Ok(v)
      BY <1>6, <2>2, <2>3 DEF IntoUsing
    <2> QED BY <1>1, <2>1, <2>4
  <1>7. HoldsValue(v) => TypeOf(v) = "optional"
    BY DEF HoldsValue
  <1> QED BY <1>3, <1>4, <1>5, <1>6, <1>7

LEMMA ConvertsOfParts ==
  ASSUME NEW v, IsNested(v), \A x \in DirectlyIn(v) : Converts(x)
  PROVE  Converts(v)
  <1> SUFFICES ASSUME IsOperand(v)
               PROVE  /\ Kept(v, Clone(v)) /\ Kept(v, FromVal(v))
                      /\ ~HoldsValue(Clone(v))
                      /\ Clone(v) = v => FromVal(v) = v
                      /\ Within(v) = Ok(FromVal(v))
    BY DEF Converts
  <1> DEFINE g == [x \in DirectlyIn(v) |-> Clone(x)]
             h == [x \in DirectlyIn(v) |-> FromVal(x)]
             C == RebuiltFrom(g, v)
             R == RebuiltFrom(h, v)
  <1>1. IsShaped(v) /\ \A x \in DirectlyIn(v) : IsOperand(x)
    BY OperandParts
  <1>2. /\ Clone(v) = IF HoldsValue(v) THEN g[v[2][1]] ELSE C
        /\ FromVal(v) = IF TypeOf(v) = "struct" THEN Clone(v) ELSE R
    BY <1>1, ConversionsRebuild
  <1>3. ASSUME NEW x \in DirectlyIn(v)
        PROVE  /\ Kept(x, g[x]) /\ Kept(x, h[x])
               /\ ~HoldsValue(g[x])
               /\ g[x] = x => h[x] = x
               /\ Within(x) = Ok(h[x])
    <2>1. g[x] = Clone(x) /\ h[x] = FromVal(x)
      OBVIOUS
    <2>2. Converts(x) /\ IsOperand(x)
      BY <1>1, <1>3
    <2> QED BY <2>1, <2>2 DEF Converts
  <1> HIDE DEF g, h
  <1>4. /\ Kept(v, C) /\ Kept(v, R)
        /\ (\A x \in DirectlyIn(v) : g[x] = x) <=> C = v
        /\ (\A x \in DirectlyIn(v) : h[x] = x) <=> R = v
        /\ TypeOf(C) = TypeOf(v) /\ DirectlyIn(C) = {g[x] : x \in DirectlyIn(v)}
    <2>1. (\A x \in DirectlyIn(v) : Kept(x, g[x])) /\ \A x \in DirectlyIn(v) : Kept(x, h[x])
      BY <1>3
    <2> QED BY <1>1, <2>1, RebuiltKeeps, RebuiltAlike
  <1>5. TypeOf(v) # "struct" => Within(v) = Ok(R)
    BY <1>1, <1>3, WithinRebuilds
  <1> HIDE DEF C, R
  <1>6. HoldsValue(v) => v[2][1] \in DirectlyIn(v) /\ TypeOf(v) = "optional"
    BY DEF HoldsValue, DirectlyIn
  <1>7. Kept(v, Clone(v))
    <2>1. ASSUME HoldsValue(v) PROVE Kept(v, g[v[2][1]])
      <3> DEFINE x == v[2][1]
      <3>1. x \in DirectlyIn(v) /\ Kept(x, g[x])
        BY <1>3, <1>6, <2>1
      <3> HIDE DEF x
      <3>2. NoDeeper(g[x], v)
        BY <3>1, PartIsNoDeeper DEF Kept
      <3> QED BY <3>1, <3>2 DEF Kept, x
    <2> QED BY <1>2, <1>4, <2>1
  <1>8. ~HoldsValue(Clone(v))
    <2>1. CASE HoldsValue(v)
      BY <1>2, <1>3, <1>6, <2>1
    <2>2. CASE ~HoldsValue(v)
      <3>1. Clone(v) = C
        BY <1>2, <2>2
      <3>2. HoldsValue(C) => TypeOf(v) = "optional" /\ DirectlyIn(v) # {}
        <4>1. HoldsValue(C) => DirectlyIn(C) # {} /\ TypeOf(C) = "optional"
          BY DEF HoldsValue, DirectlyIn
        <4> QED BY <1>4, <4>1
      <3>3. TypeOf(v) = "optional" /\ DirectlyIn(v) # {} => HoldsValue(v)
        BY DEF HoldsValue, DirectlyIn
      <3> QED BY <2>2, <3>1, <3>2, <3>3
    <2> QED BY <2>1, <2>2
  <1>9. ASSUME Clone(v) = v PROVE FromVal(v) = v
    <2>1. ~HoldsValue(v)
      BY <1>8, <1>9
    <2>2. C = v
      BY <1>2, <1>9, <2>1
    <2>3. R = v
      BY <1>3, <1>4, <2>2
    <2> QED BY <1>2, <1>9, <2>3
  <1>10. Within(v) = Ok(FromVal(v))
    <2>1. CASE TypeOf(v) = "struct"
      <3> DEFINE k == [x \in DirectlyIn(v) |-> Within(x)]
      <3>1. Within(v) = IntoUsing(k, v)
        BY WithinOfParts
      <3> HIDE DEF k
      <3>2. IntoUsing(k, v) = Ok(Clone(v))
        BY <2>1 DEF IntoUsing, Moved
      <3> QED BY <1>2, <2>1, <3>1, <3>2
    <2>2. CASE TypeOf(v) # "struct"
      BY <1>2, <1>5, <2>2
    <2> QED BY <2>1, <2>2
  <1> QED BY <1>2, <1>4, <1>7, <1>8, <1>9, <1>10

\* An operand is copied and received as an operand nested no deeper, and what is given back is it.
LEMMA OperandsConvert ==
  ASSUME NEW v, IsNested(v), IsOperand(v)
  PROVE  /\ Kept(v, Clone(v)) /\ Kept(v, FromVal(v))
         /\ ~HoldsValue(Clone(v))
         /\ Clone(v) = v => FromVal(v) = v
         /\ ~Failed(IntoVal(v, FALSE))
         /\ Clone(v) = v => IntoVal(v, FALSE) = Ok(v)
  <1>1. \A w : Copying!IsBounded(w) /\ (\A x \in DirectlyIn(w) : Converts(x)) => Converts(w)
    BY ConvertsOfParts, Nested
  <1>2. Copying!IsBounded(v)
    BY Nested
  <1>3. Converts(v)
    BY <1>1, <1>2, NestingIsNatural, Copying!HoldsOfParts
  <1>4. /\ Kept(v, Clone(v)) /\ Kept(v, FromVal(v))
        /\ ~HoldsValue(Clone(v))
        /\ Clone(v) = v => FromVal(v) = v
        /\ Within(v) = Ok(FromVal(v))
    BY <1>3 DEF Converts
  <1>5. IntoVal(v, FALSE) = IF TypeOf(v) = "struct" THEN Ok(v) ELSE Within(v)
    BY WithinOfParts DEF Moved
  <1>6. \A x : ~Failed(Ok(x))
    BY DEF Ok, Failed
  <1> QED BY <1>4, <1>5, <1>6
-----------------------------------------------------------------------------
(* Signatures and requests. *)

\* Every function takes a sequence of parameters, and is not named as an operator is.
LEMMA HostSignatureShapes ==
  \A name \in DOMAIN HostSignatures : HostSignatures[name] \in Seq(Parameters) /\ name \notin Operators
  <1>1. This \in Parameters /\ Arg \in Parameters /\ Rest \in Parameters
        /\ ArgOf({"string"}) \in Parameters /\ ThisOf({"string"}) \in Parameters
        /\ ThisOf({"timestamp"}) \in Parameters
    BY DEF This, Arg, Rest, ArgOf, ThisOf, Parameters, AnyType
  <1>2. <<>> \in Seq(Parameters)
    OBVIOUS
  <1>3. \A p \in Parameters : <<p>> \in Seq(Parameters)
    OBVIOUS
  <1>4. \A p, q \in Parameters : <<p, q>> \in Seq(Parameters)
    OBVIOUS
  <1> HIDE DEF Parameters, This, Arg, Rest, ArgOf, ThisOf
  <1>5. \A name \in DOMAIN HostSignatures :
          HostSignatures[name] \in
            {<<>>, <<This>>, <<Arg>>, <<Rest>>, <<This, Arg>>, <<ArgOf({"string"})>>, <<ThisOf({"timestamp"})>>,
             <<ThisOf({"string"}), ArgOf({"string"})>>}
    BY DEF HostSignatures
  <1>6. \A name \in DOMAIN HostSignatures : name \notin Operators
    BY DEF HostSignatures, Operators, Arithmetic
  <1> QED BY <1>1, <1>2, <1>3, <1>4, <1>5, <1>6

LEMMA SignatureShapes ==
  \A name \in DOMAIN Signature : Signature[name] \in Seq(Parameters) /\ name \notin Operators
  BY HostSignatureShapes, SignaturesAssumption DEF Signature

\* A parameter that takes an argument counts, any other does not.
LEMMA TakingCounts ==
  ASSUME NEW sig \in Seq(Parameters), NEW i \in Nat, i + 1 <= Len(sig), NEW r
  PROVE  /\ Taking(sig, i, r) \in Nat
         /\ Taking(sig, i + 1, r) = IF TakesArgument(sig[i + 1], r) THEN Taking(sig, i, r) + 1 ELSE Taking(sig, i, r)
  <1> DEFINE Takes(j) == sig[j] # Rest /\ (sig[j][1] = "argument" \/ r.target = <<>>)
             before == {j \in 1..i : Takes(j)}
             after  == {j \in 1..i + 1 : Takes(j)}
  <1>1. Taking(sig, i, r) = Cardinality(before) /\ Taking(sig, i + 1, r) = Cardinality(after)
    BY DEF Taking
  <1>2. sig[i + 1] \in Parameters
    BY ElementOfSeq
  <1>3. Takes(i + 1) <=> TakesArgument(sig[i + 1], r)
    BY <1>2 DEF Parameters, TakesArgument
  <1> HIDE DEF Takes
  <1>4. IsFiniteSet(before) /\ Cardinality(before) \in Nat
    <2>1. IsFiniteSet(1..i)
      BY FS_Interval
    <2>2. before \subseteq 1..i
      OBVIOUS
    <2> HIDE DEF before
    <2> QED BY <2>1, <2>2, FS_Subset, FS_CardinalityType
  <1>5. i + 1 \notin before /\ after = IF Takes(i + 1) THEN before \cup {i + 1} ELSE before
    <2>1. 1..i + 1 = 1..i \cup {i + 1} /\ i + 1 \notin 1..i
      OBVIOUS
    <2> QED BY <2>1
  <1>6. Cardinality(before \cup {i + 1}) = Cardinality(before) + 1
    <2> HIDE DEF before
    <2> QED BY <1>4, <1>5, FS_AddElement
  <1> HIDE DEF before, after
  <1> QED BY <1>1, <1>3, <1>4, <1>5, <1>6

LEMMA TakingNone == ASSUME NEW sig, NEW r PROVE Taking(sig, 0, r) = 0
  <1>1. {j \in 1..0 : sig[j] # Rest /\ (sig[j][1] = "argument" \/ r.target = <<>>)} = {}
    OBVIOUS
  <1> QED BY <1>1, FS_EmptySet DEF Taking

\* What a request brings.
LEMMA RequestShapes ==
  ASSUME NEW r \in Requests
  PROVE  /\ Len(r.args) \in Nat /\ DOMAIN r.args = 1..Len(r.args)
         /\ \A i \in 1..Len(r.args) : SubSeq(r.args, i, i) = <<r.args[i]>> /\ IsNested(r.args[i])
         /\ \A i \in Nat : i > Len(r.args) => SubSeq(r.args, i, i - 1) = <<>>
         /\ FromVal(ListOf(r.args)) = ListOf([i \in DOMAIN r.args |-> FromVal(r.args[i])])
         /\ IsNested(ListOf(r.args))
         /\ r.target # <<>> => r.target = <<r.target[1]>> /\ IsNested(r.target[1])
  <1>1. /\ IsSequence(r.target) /\ IsSequence(r.args)
        /\ IsNested(ListOf(r.target)) /\ IsNested(ListOf(r.args))
    <2>1. ListOf(r.args) \in DirectlyIn(ListOf(<<ListOf(r.args)>>))
      <3>1. 1 \in DOMAIN <<ListOf(r.args)>> /\ <<ListOf(r.args)>>[1] = ListOf(r.args)
        OBVIOUS
      <3> QED BY <3>1, DirectlyInKinds
    <2> QED BY <2>1, RequestsAssumption, InNested
  <1>2. /\ Len(r.args) \in Nat /\ DOMAIN r.args = 1..Len(r.args)
        /\ r.args \in Seq({r.args[i] : i \in DOMAIN r.args})
    BY <1>1 DEF IsSequence
  <1>3. ASSUME NEW i \in 1..Len(r.args) PROVE SubSeq(r.args, i, i) = <<r.args[i]>>
    <2>1. /\ SubSeq(r.args, i, i) \in Seq({r.args[k] : k \in DOMAIN r.args})
          /\ Len(SubSeq(r.args, i, i)) = 1 /\ SubSeq(r.args, i, i)[1] = r.args[i]
      BY <1>2, SubSeqProperties
    <2> DEFINE s == SubSeq(r.args, i, i)
    <2> HIDE DEF s
    <2>2. s \in Seq({r.args[k] : k \in DOMAIN r.args}) /\ Len(s) = 1 /\ s[1] = r.args[i]
      BY <2>1 DEF s
    <2>3. s = <<r.args[i]>>
      BY <2>2
    <2> QED BY <2>3 DEF s
  <1>4. \A i \in Nat : i > Len(r.args) => SubSeq(r.args, i, i - 1) = <<>>
    BY <1>2
  <1>5. FromVal(ListOf(r.args)) = ListOf([i \in DOMAIN r.args |-> FromVal(r.args[i])])
        /\ \A i \in DOMAIN r.args : IsNested(r.args[i])
    BY <1>1, FromValOfList
  <1>6. r.target # <<>> => 1 \in DOMAIN r.target /\ r.target = <<r.target[1]>>
    <2> DEFINE t == r.target
    <2>1. t \in Seq({t[i] : i \in DOMAIN t}) /\ Len(t) <= 1
      BY RequestsAssumption DEF IsSequence
    <2> HIDE DEF t
    <2>2. t # <<>> => Len(t) = 1
      <3> DEFINE S == {t[i] : i \in DOMAIN t}
      <3>1. t \in Seq(S)
        BY <2>1
      <3> HIDE DEF S
      <3>2. t # <<>> => Len(t) \in Nat \ {0}
        BY <3>1, EmptySeq
      <3>3. ASSUME NEW n \in Nat \ {0}, n <= 1 PROVE n = 1
        BY <3>3
      <3>4. Len(t) <= 1
        BY <2>1
      <3> QED BY <3>2, <3>3, <3>4
    <2> QED BY <2>1, <2>2 DEF t
  <1>7. r.target # <<>> => r.target = <<r.target[1]>> /\ IsNested(r.target[1])
    BY <1>1, <1>6, FromValOfList
  <1> QED BY <1>1, <1>2, <1>3, <1>4, <1>5, <1>7

\* FromContext finds the operand of the parameter and converts it, or says what is wrong with it.
Delivered(got, p, operand) ==
  IF Failed(got)
  THEN IF operand = <<>>
       THEN got = Err(IF p[1] = "this" THEN "MissingArgumentOrTarget" ELSE "InvalidArgumentCount")
       ELSE got = UnexpectedType /\ TypeOf(operand[1]) \notin p[2]
  ELSE operand # <<>> /\ got[2] = FromVal(operand[1]) /\ TypeOf(got[2]) \in p[2]

LEMMA ResultShapes ==
  /\ \A v : ~Failed(Ok(v)) /\ Ok(v)[2] = v
  /\ \A e : Failed(Err(e))
  BY DEF Ok, Err, Failed

LEMMA ValueDelivered ==
  ASSUME NEW p, NEW v, IsNested(v)
  PROVE  Delivered(FromValue(p[2], FromVal(v)), p, <<v>>)
  <1>1. TypeOf(FromVal(v)) = TypeOf(v)
    BY FromValKeepsType
  <1>2. CASE TypeOf(v) \in p[2]
    <2>1. FromValue(p[2], FromVal(v)) = Ok(FromVal(v))
      BY <1>1, <1>2 DEF FromValue
    <2> QED BY <1>1, <1>2, <2>1, ResultShapes DEF Delivered
  <1>3. CASE TypeOf(v) \notin p[2]
    <2>1. FromValue(p[2], FromVal(v)) = UnexpectedType /\ Failed(UnexpectedType)
      BY <1>1, <1>3, ResultShapes DEF FromValue, UnexpectedType
    <2> QED BY <1>3, <2>1 DEF Delivered
  <1> QED BY <1>2, <1>3

LEMMA ParameterDelivered ==
  ASSUME NEW r \in Requests, NEW sig \in Seq(Parameters), NEW i \in Nat, i + 1 <= Len(sig)
  PROVE  Delivered(FromContext(sig[i + 1], r, Taking(sig, i, r)), sig[i + 1], OperandFor(sig, i + 1, r))
  <1> DEFINE p       == sig[i + 1]
             idx     == Taking(sig, i, r)
             got     == FromContext(p, r, idx)
             operand == OperandFor(sig, i + 1, r)
  <1> SUFFICES Delivered(got, p, operand)
    OBVIOUS
  <1>1. p \in Parameters
    BY ElementOfSeq
  <1>2. idx \in Nat /\ Taking(sig, i + 1, r) = IF TakesArgument(p, r) THEN idx + 1 ELSE idx
    BY TakingCounts
  <1>3. Rest[1] = "arguments" /\ Rest[2] = AnyType /\ "list" \in AnyType
    BY DEF Rest, AnyType
  <1>4. CASE p = Rest
    <2>1. got = Ok(FromVal(ListOf(r.args)))
      BY <1>3, <1>4, RequestShapes DEF FromContext
    <2>2. operand = <<ListOf(r.args)>>
      BY <1>4 DEF OperandFor
    <2>3. TypeOf(FromVal(ListOf(r.args))) = "list"
      <3>1. TypeOf(ListOf(r.args)) = "list"
        BY DEF TypeOf, ListOf
      <3> QED BY <3>1, RequestShapes, FromValKeepsType
    <2>4. operand # <<>> /\ operand[1] = ListOf(r.args)
      BY <2>2
    <2> HIDE DEF operand, got
    <2> QED BY <1>3, <1>4, <2>1, <2>3, <2>4, ResultShapes DEF Delivered
  <1>5. CASE p # Rest /\ p[1] = "this" /\ r.target # <<>>
    <2>1. got = FromValue(p[2], FromVal(r.target[1]))
      BY <1>5 DEF FromContext
    <2>2. operand = r.target
      BY <1>5 DEF OperandFor
    <2>3. operand = <<r.target[1]>> /\ IsNested(r.target[1])
      BY <1>5, <2>2, RequestShapes
    <2> HIDE DEF operand, got, p
    <2> QED BY <2>1, <2>3, ValueDelivered
  <1>6. CASE p # Rest /\ ~(p[1] = "this" /\ r.target # <<>>)
    <2>1. Taking(sig, i + 1, r) = idx + 1
      BY <1>2, <1>6 DEF TakesArgument
    <2>2. operand = SubSeq(r.args, idx + 1, IF idx + 1 > Len(r.args) THEN (idx + 1) - 1 ELSE idx + 1)
      BY <1>6, <2>1 DEF OperandFor
    <2>3. CASE idx < Len(r.args)
      <3>1. idx + 1 \in 1..Len(r.args) /\ ~(idx + 1 > Len(r.args))
        BY <1>2, <2>3, RequestShapes
      <3>2. operand = <<r.args[idx + 1]>>
        BY <2>2, <3>1, RequestShapes
      <3>3. ArgumentAt(r.args, idx) = Ok(FromVal(r.args[idx + 1]))
        BY <2>3 DEF ArgumentAt
      <3>4. got = FromValue(p[2], FromVal(r.args[idx + 1]))
        <4>1. ~(idx >= Len(r.args))
          BY <1>2, <2>3, RequestShapes
        <4> QED BY <1>6, <3>3, <4>1, ResultShapes DEF FromContext
      <3>5. IsNested(r.args[idx + 1])
        BY <3>1, RequestShapes
      <3> HIDE DEF operand, got, idx, p
      <3> QED BY <3>2, <3>4, <3>5, ValueDelivered
    <2>4. CASE ~(idx < Len(r.args))
      <3>1. idx >= Len(r.args) /\ idx + 1 > Len(r.args) /\ idx + 1 \in Nat
        BY <1>2, <2>4, RequestShapes
      <3>2. operand = <<>>
        BY <2>2, <3>1, RequestShapes
      <3>3. ArgumentAt(r.args, idx) = Err("InvalidArgumentCount")
        BY <2>4 DEF ArgumentAt
      <3>4. got = Err(IF p[1] = "this" THEN "MissingArgumentOrTarget" ELSE "InvalidArgumentCount")
        BY <1>6, <3>1, <3>3, ResultShapes DEF FromContext
      <3> HIDE DEF operand, got
      <3> QED BY <3>2, <3>4, ResultShapes DEF Delivered
    <2> QED BY <2>3, <2>4
  <1> QED BY <1>4, <1>5, <1>6
-----------------------------------------------------------------------------
(* Sequences of anything. *)

LEMMA SequenceDomain ==
  ASSUME NEW s, IsSequence(s)
  PROVE  Len(s) \in Nat /\ DOMAIN s = 1..Len(s) /\ (s = <<>> <=> Len(s) = 0)
  <1> DEFINE S == {s[i] : i \in DOMAIN s}
  <1>1. s \in Seq(S)
    BY DEF IsSequence
  <1> HIDE DEF S
  <1> QED BY <1>1

\* One element more at the end.
LEMMA Appended ==
  ASSUME NEW s, IsSequence(s), NEW x
  PROVE  /\ IsSequence(Append(s, x))
         /\ Len(Append(s, x)) = Len(s) + 1
         /\ \A i \in 1..Len(s) : Append(s, x)[i] = s[i]
         /\ Append(s, x)[Len(s) + 1] = x
  <1> DEFINE S == {s[i] : i \in DOMAIN s} \cup {x}
             t == Append(s, x)
  <1>1. s \in Seq(S)
    <2>1. s \in Seq({s[i] : i \in DOMAIN s})
      BY DEF IsSequence
    <2> QED BY <2>1
  <1> HIDE DEF S
  <1>2. x \in S
    BY DEF S
  <1>3. t \in Seq(S) /\ Len(t) = Len(s) + 1 /\ DOMAIN t = 1..Len(t) /\ Len(s) \in Nat
        /\ t[Len(s) + 1] = x /\ (\A i \in 1..Len(s) : t[i] = s[i])
    BY <1>1, <1>2
  <1>4. t \in Seq({t[i] : i \in DOMAIN t})
    <2> HIDE DEF t
    <2> QED BY <1>3
  <1> QED BY <1>3, <1>4 DEF IsSequence
-----------------------------------------------------------------------------
(* The rows of the library. *)

RowsIn(s) == {s[i] : i \in DOMAIN s}

\* The overload of a row, made of its parts, which take values of types the library knows.
IsRow(p) ==
  LET o == p.overload
  IN /\ p = [name |-> p.name, overload |-> [id |-> o.id, member |-> o.member, args |-> o.args]]
     /\ o.args \in Seq(StdTypes)
     /\ o.member \in BOOLEAN
     /\ o.member => o.args # <<>>

\* Two rows of one function have ids of their own, and what distinguishes their signatures if they are called in one
\* style is the first type, which is of values only that type has.
Concrete == StdValueTypes \ {"optional"}
Takes(p) == p.overload.args[1]
Apart(p, q) ==
  p.name = q.name =>
    /\ p.overload.id # q.overload.id
    /\ p.overload.member = q.overload.member =>
         /\ p.overload.args # <<>> /\ q.overload.args # <<>>
         /\ Takes(p) \in Concrete /\ Takes(q) \in Concrete /\ Takes(p) # Takes(q)

AreApart(P, Q) == \A p \in P, q \in Q : Apart(p, q)
IsClean(s) == s \in Seq(RowsIn(s)) /\ (\A p \in RowsIn(s) : IsRow(p)) /\ \A i, j \in DOMAIN s : i # j => Apart(s[i], s[j])

LEMMA JoinedRows ==
  ASSUME NEW S, NEW s \in Seq(S), NEW t \in Seq(S)
  PROVE  RowsIn(s \o t) = RowsIn(s) \cup RowsIn(t)
  <1>1. \A i \in DOMAIN (s \o t) :
          \/ i \in DOMAIN s /\ (s \o t)[i] = s[i]
          \/ i - Len(s) \in DOMAIN t /\ (s \o t)[i] = t[i - Len(s)]
    OBVIOUS
  <1>2. \A i \in DOMAIN s : i \in DOMAIN (s \o t) /\ (s \o t)[i] = s[i]
    OBVIOUS
  <1>3. \A i \in DOMAIN t : i + Len(s) \in DOMAIN (s \o t) /\ (s \o t)[i + Len(s)] = t[i]
    OBVIOUS
  <1>4. ASSUME NEW p PROVE p \in RowsIn(s \o t) <=> p \in RowsIn(s) \/ p \in RowsIn(t)
    <2>1. CASE p \in RowsIn(s \o t)
      BY <1>1, <2>1 DEF RowsIn
    <2>2. CASE p \in RowsIn(s)
      BY <1>2, <2>2 DEF RowsIn
    <2>3. CASE p \in RowsIn(t)
      BY <1>3, <2>3 DEF RowsIn
    <2> QED BY <2>1, <2>2, <2>3
  <1> QED BY <1>4

LEMMA RowOf ==
  ASSUME NEW name, NEW id, NEW member \in BOOLEAN, NEW args \in Seq(StdTypes), member => args # <<>>
  PROVE  IsRow([name |-> name, overload |-> [id |-> id, member |-> member, args |-> args]])
  BY DEF IsRow

LEMMA GlobalOfNone == \A name, id : IsRow(Global(name, id, <<>>))
  <1> TAKE name, id
  <1>1. <<>> \in Seq(StdTypes)
    OBVIOUS
  <1> QED BY <1>1, RowOf DEF Global

LEMMA GlobalOfOne == \A name, id, t : t \in StdTypes => IsRow(Global(name, id, <<t>>))
  <1> TAKE name, id, t
  <1> HAVE t \in StdTypes
  <1>1. <<t>> \in Seq(StdTypes)
    OBVIOUS
  <1> QED BY <1>1, RowOf DEF Global

LEMMA MemberOf ==
  ASSUME NEW name, NEW id, NEW t \in StdTypes, NEW args \in Seq(StdTypes)
  PROVE  IsRow(Member(name, id, t, args))
  <1> DEFINE S == StdTypes
             all == <<t>> \o args
  <1>1. <<t>> \in Seq(S) /\ args \in Seq(S)
    OBVIOUS
  <1> HIDE DEF S
  <1>2. all \in Seq(S) /\ Len(all) = 1 + Len(args) /\ Len(args) \in Nat
    BY <1>1
  <1> USE DEF S
  <1> HIDE DEF all
  <1>3. all \in Seq(StdTypes) /\ all # <<>>
    BY <1>2
  <1> QED BY <1>3, RowOf DEF Member, all

LEMMA MemberOfNone == \A name, id, t : t \in StdTypes => IsRow(Member(name, id, t, <<>>))
  <1>1. <<>> \in Seq(StdTypes)
    OBVIOUS
  <1> QED BY <1>1, MemberOf

LEMMA MemberOfOne ==
  \A name, id, t, u : t \in StdTypes /\ u \in StdTypes => IsRow(Member(name, id, t, <<u>>))
  <1> TAKE name, id, t, u
  <1> HAVE t \in StdTypes /\ u \in StdTypes
  <1>1. <<u>> \in Seq(StdTypes)
    OBVIOUS
  <1> QED BY <1>1, MemberOf

LEMMA LibraryTypes ==
  /\ "bytes" \in StdTypes /\ "double" \in StdTypes /\ "duration" \in StdTypes /\ "dyn" \in StdTypes
  /\ "int" \in StdTypes /\ "list" \in StdTypes /\ "map" \in StdTypes /\ "optional" \in StdTypes
  /\ "string" \in StdTypes /\ "timestamp" \in StdTypes /\ "uint" \in StdTypes
  BY DEF StdTypes, StdValueTypes

LEMMA BytesRows == IsClean(BytesLib)
  <1>1. \A i \in DOMAIN BytesLib : IsRow(BytesLib[i])
    BY GlobalOfNone, GlobalOfOne, MemberOfNone, MemberOfOne, LibraryTypes DEF BytesLib
  <1>2. \A i, j \in DOMAIN BytesLib : i # j => Apart(BytesLib[i], BytesLib[j])
    BY SMTT(30) DEF Apart, Takes, Concrete, BytesLib, Global, Member, StdValueTypes
  <1>3. BytesLib \in Seq(RowsIn(BytesLib))
    <2>1. \A i \in DOMAIN BytesLib : BytesLib[i] \in RowsIn(BytesLib)
      BY DEF RowsIn
    <2> DEFINE S == RowsIn(BytesLib)
    <2> HIDE DEF S
    <2> QED BY <2>1 DEF BytesLib
  <1> QED BY <1>1, <1>2, <1>3 DEF IsClean, RowsIn

LEMMA DoubleRows == IsClean(DoubleLib)
  <1>1. \A i \in DOMAIN DoubleLib : IsRow(DoubleLib[i])
    BY GlobalOfNone, GlobalOfOne, MemberOfNone, MemberOfOne, LibraryTypes DEF DoubleLib
  <1>2. \A i, j \in DOMAIN DoubleLib : i # j => Apart(DoubleLib[i], DoubleLib[j])
    BY SMTT(30) DEF Apart, Takes, Concrete, DoubleLib, Global, Member, StdValueTypes
  <1>3. DoubleLib \in Seq(RowsIn(DoubleLib))
    <2>1. \A i \in DOMAIN DoubleLib : DoubleLib[i] \in RowsIn(DoubleLib)
      BY DEF RowsIn
    <2> DEFINE S == RowsIn(DoubleLib)
    <2> HIDE DEF S
    <2> QED BY <2>1 DEF DoubleLib
  <1> QED BY <1>1, <1>2, <1>3 DEF IsClean, RowsIn

LEMMA IntRows == IsClean(IntLib)
  <1>1. \A i \in DOMAIN IntLib : IsRow(IntLib[i])
    BY GlobalOfNone, GlobalOfOne, MemberOfNone, MemberOfOne, LibraryTypes DEF IntLib
  <1>2. \A i, j \in DOMAIN IntLib : i # j => Apart(IntLib[i], IntLib[j])
    BY SMTT(30) DEF Apart, Takes, Concrete, IntLib, Global, Member, StdValueTypes
  <1>3. IntLib \in Seq(RowsIn(IntLib))
    <2>1. \A i \in DOMAIN IntLib : IntLib[i] \in RowsIn(IntLib)
      BY DEF RowsIn
    <2> DEFINE S == RowsIn(IntLib)
    <2> HIDE DEF S
    <2> QED BY <2>1 DEF IntLib
  <1> QED BY <1>1, <1>2, <1>3 DEF IsClean, RowsIn

LEMMA ListRows == IsClean(ListLib)
  <1>1. \A i \in DOMAIN ListLib : IsRow(ListLib[i])
    BY GlobalOfNone, GlobalOfOne, MemberOfNone, MemberOfOne, LibraryTypes DEF ListLib
  <1>2. \A i, j \in DOMAIN ListLib : i # j => Apart(ListLib[i], ListLib[j])
    BY SMTT(30) DEF Apart, Takes, Concrete, ListLib, Global, Member, StdValueTypes
  <1>3. ListLib \in Seq(RowsIn(ListLib))
    <2>1. \A i \in DOMAIN ListLib : ListLib[i] \in RowsIn(ListLib)
      BY DEF RowsIn
    <2> DEFINE S == RowsIn(ListLib)
    <2> HIDE DEF S
    <2> QED BY <2>1 DEF ListLib
  <1> QED BY <1>1, <1>2, <1>3 DEF IsClean, RowsIn

LEMMA MapRows == IsClean(MapLib)
  <1>1. \A i \in DOMAIN MapLib : IsRow(MapLib[i])
    BY GlobalOfNone, GlobalOfOne, MemberOfNone, MemberOfOne, LibraryTypes DEF MapLib
  <1>2. \A i, j \in DOMAIN MapLib : i # j => Apart(MapLib[i], MapLib[j])
    BY SMTT(30) DEF Apart, Takes, Concrete, MapLib, Global, Member, StdValueTypes
  <1>3. MapLib \in Seq(RowsIn(MapLib))
    <2>1. \A i \in DOMAIN MapLib : MapLib[i] \in RowsIn(MapLib)
      BY DEF RowsIn
    <2> DEFINE S == RowsIn(MapLib)
    <2> HIDE DEF S
    <2> QED BY <2>1 DEF MapLib
  <1> QED BY <1>1, <1>2, <1>3 DEF IsClean, RowsIn

LEMMA OptionalRows == IsClean(OptionalLib)
  <1>1. \A i \in DOMAIN OptionalLib : IsRow(OptionalLib[i])
    BY GlobalOfNone, GlobalOfOne, MemberOfNone, MemberOfOne, LibraryTypes DEF OptionalLib
  <1>2. \A i, j \in DOMAIN OptionalLib : i # j => Apart(OptionalLib[i], OptionalLib[j])
    BY SMTT(30) DEF Apart, Takes, Concrete, OptionalLib, Global, Member, StdValueTypes
  <1>3. OptionalLib \in Seq(RowsIn(OptionalLib))
    <2>1. \A i \in DOMAIN OptionalLib : OptionalLib[i] \in RowsIn(OptionalLib)
      BY DEF RowsIn
    <2> DEFINE S == RowsIn(OptionalLib)
    <2> HIDE DEF S
    <2> QED BY <2>1 DEF OptionalLib
  <1> QED BY <1>1, <1>2, <1>3 DEF IsClean, RowsIn

LEMMA StringRows == IsClean(StringLib)
  <1>1. \A i \in DOMAIN StringLib : IsRow(StringLib[i])
    BY GlobalOfNone, GlobalOfOne, MemberOfNone, MemberOfOne, LibraryTypes DEF StringLib
  <1>2. \A i, j \in DOMAIN StringLib : i # j => Apart(StringLib[i], StringLib[j])
    BY SMTT(30) DEF Apart, Takes, Concrete, StringLib, Global, Member, StdValueTypes
  <1>3. StringLib \in Seq(RowsIn(StringLib))
    <2>1. \A i \in DOMAIN StringLib : StringLib[i] \in RowsIn(StringLib)
      BY DEF RowsIn
    <2> DEFINE S == RowsIn(StringLib)
    <2> HIDE DEF S
    <2> QED BY <2>1 DEF StringLib
  <1> QED BY <1>1, <1>2, <1>3 DEF IsClean, RowsIn

LEMMA UIntRows == IsClean(UIntLib)
  <1>1. \A i \in DOMAIN UIntLib : IsRow(UIntLib[i])
    BY GlobalOfNone, GlobalOfOne, MemberOfNone, MemberOfOne, LibraryTypes DEF UIntLib
  <1>2. \A i, j \in DOMAIN UIntLib : i # j => Apart(UIntLib[i], UIntLib[j])
    BY SMTT(30) DEF Apart, Takes, Concrete, UIntLib, Global, Member, StdValueTypes
  <1>3. UIntLib \in Seq(RowsIn(UIntLib))
    <2>1. \A i \in DOMAIN UIntLib : UIntLib[i] \in RowsIn(UIntLib)
      BY DEF RowsIn
    <2> DEFINE S == RowsIn(UIntLib)
    <2> HIDE DEF S
    <2> QED BY <2>1 DEF UIntLib
  <1> QED BY <1>1, <1>2, <1>3 DEF IsClean, RowsIn

LEMMA DurationRows == IsClean(DurationLib)
  <1>1. \A i \in DOMAIN DurationLib : IsRow(DurationLib[i])
    BY GlobalOfNone, GlobalOfOne, MemberOfNone, MemberOfOne, LibraryTypes DEF DurationLib
  <1>2. \A i, j \in DOMAIN DurationLib : i # j => Apart(DurationLib[i], DurationLib[j])
    BY SMTT(30) DEF Apart, Takes, Concrete, DurationLib, Global, Member, StdValueTypes
  <1>3. DurationLib \in Seq(RowsIn(DurationLib))
    <2>1. \A i \in DOMAIN DurationLib : DurationLib[i] \in RowsIn(DurationLib)
      BY DEF RowsIn
    <2> DEFINE S == RowsIn(DurationLib)
    <2> HIDE DEF S
    <2> QED BY <2>1 DEF DurationLib
  <1> QED BY <1>1, <1>2, <1>3 DEF IsClean, RowsIn

LEMMA TimestampRows == IsClean(TimestampLib)
  <1>1. \A i \in DOMAIN TimestampLib : IsRow(TimestampLib[i])
    BY GlobalOfNone, GlobalOfOne, MemberOfNone, MemberOfOne, LibraryTypes DEF TimestampLib
  <1>2. \A i, j \in DOMAIN TimestampLib : i # j => Apart(TimestampLib[i], TimestampLib[j])
    BY SMTT(30) DEF Apart, Takes, Concrete, TimestampLib, Global, Member, StdValueTypes
  <1>3. TimestampLib \in Seq(RowsIn(TimestampLib))
    <2>1. \A i \in DOMAIN TimestampLib : TimestampLib[i] \in RowsIn(TimestampLib)
      BY DEF RowsIn
    <2> DEFINE S == RowsIn(TimestampLib)
    <2> HIDE DEF S
    <2> QED BY <2>1 DEF TimestampLib
  <1> QED BY <1>1, <1>2, <1>3 DEF IsClean, RowsIn

\* The functions each part of the library has overloads of.
LEMMA NamesOfRows ==
  /\ \A p \in RowsIn(BytesLib) : p.name \in {"bytes", "size"}
  /\ \A p \in RowsIn(DoubleLib) : p.name \in {"double"}
  /\ \A p \in RowsIn(IntLib) : p.name \in {"int"}
  /\ \A p \in RowsIn(ListLib) : p.name \in {"size"}
  /\ \A p \in RowsIn(MapLib) : p.name \in {"size"}
  /\ \A p \in RowsIn(OptionalLib) : p.name \in {"optional.none", "optional.of", "optional.ofNonZeroValue", "value", "hasValue", "or", "orValue"}
  /\ \A p \in RowsIn(StringLib) : p.name \in {"string", "contains", "endsWith", "size", "startsWith", "matches"}
  /\ \A p \in RowsIn(UIntLib) : p.name \in {"uint"}
  /\ \A p \in RowsIn(DurationLib) : p.name \in {"duration", "getHours", "getMinutes", "getSeconds", "getMilliseconds"}
  /\ \A p \in RowsIn(TimestampLib) : p.name \in {"timestamp", "getFullYear", "getMonth", "getDayOfYear", "getDayOfMonth", "getDate", "getDayOfWeek", "getHours", "getMinutes", "getSeconds", "getMilliseconds"}
  <1>1. \A p \in RowsIn(BytesLib) : p.name \in {"bytes", "size"}
    BY DEF RowsIn, BytesLib, Global, Member
  <1>2. \A p \in RowsIn(DoubleLib) : p.name \in {"double"}
    BY DEF RowsIn, DoubleLib, Global, Member
  <1>3. \A p \in RowsIn(IntLib) : p.name \in {"int"}
    BY DEF RowsIn, IntLib, Global, Member
  <1>4. \A p \in RowsIn(ListLib) : p.name \in {"size"}
    BY DEF RowsIn, ListLib, Global, Member
  <1>5. \A p \in RowsIn(MapLib) : p.name \in {"size"}
    BY DEF RowsIn, MapLib, Global, Member
  <1>6. \A p \in RowsIn(OptionalLib) : p.name \in {"optional.none", "optional.of", "optional.ofNonZeroValue", "value", "hasValue", "or", "orValue"}
    BY DEF RowsIn, OptionalLib, Global, Member
  <1>7. \A p \in RowsIn(StringLib) : p.name \in {"string", "contains", "endsWith", "size", "startsWith", "matches"}
    BY DEF RowsIn, StringLib, Global, Member
  <1>8. \A p \in RowsIn(UIntLib) : p.name \in {"uint"}
    BY DEF RowsIn, UIntLib, Global, Member
  <1>9. \A p \in RowsIn(DurationLib) : p.name \in {"duration", "getHours", "getMinutes", "getSeconds", "getMilliseconds"}
    BY DEF RowsIn, DurationLib, Global, Member
  <1>10. \A p \in RowsIn(TimestampLib) : p.name \in {"timestamp", "getFullYear", "getMonth", "getDayOfYear", "getDayOfMonth", "getDate", "getDayOfWeek", "getHours", "getMinutes", "getSeconds", "getMilliseconds"}
    BY DEF RowsIn, TimestampLib, Global, Member
  <1> QED BY <1>1, <1>2, <1>3, <1>4, <1>5, <1>6, <1>7, <1>8, <1>9, <1>10

\* Those of them that share names.
LEMMA SharedNames ==
  /\ AreApart(RowsIn(BytesLib), RowsIn(ListLib))
  /\ AreApart(RowsIn(BytesLib), RowsIn(MapLib))
  /\ AreApart(RowsIn(BytesLib), RowsIn(StringLib))
  /\ AreApart(RowsIn(ListLib), RowsIn(MapLib))
  /\ AreApart(RowsIn(ListLib), RowsIn(StringLib))
  /\ AreApart(RowsIn(MapLib), RowsIn(StringLib))
  /\ AreApart(RowsIn(DurationLib), RowsIn(TimestampLib))
  <1>1. \A i \in DOMAIN BytesLib, j \in DOMAIN ListLib : Apart(BytesLib[i], ListLib[j])
    BY SMTT(60) DEF Apart, Takes, Concrete, BytesLib, ListLib, Global, Member, StdValueTypes
  <1>2. \A i \in DOMAIN BytesLib, j \in DOMAIN MapLib : Apart(BytesLib[i], MapLib[j])
    BY SMTT(60) DEF Apart, Takes, Concrete, BytesLib, MapLib, Global, Member, StdValueTypes
  <1>3. \A i \in DOMAIN BytesLib, j \in DOMAIN StringLib : Apart(BytesLib[i], StringLib[j])
    BY SMTT(60) DEF Apart, Takes, Concrete, BytesLib, StringLib, Global, Member, StdValueTypes
  <1>4. \A i \in DOMAIN ListLib, j \in DOMAIN MapLib : Apart(ListLib[i], MapLib[j])
    BY SMTT(60) DEF Apart, Takes, Concrete, ListLib, MapLib, Global, Member, StdValueTypes
  <1>5. \A i \in DOMAIN ListLib, j \in DOMAIN StringLib : Apart(ListLib[i], StringLib[j])
    BY SMTT(60) DEF Apart, Takes, Concrete, ListLib, StringLib, Global, Member, StdValueTypes
  <1>6. \A i \in DOMAIN MapLib, j \in DOMAIN StringLib : Apart(MapLib[i], StringLib[j])
    BY SMTT(60) DEF Apart, Takes, Concrete, MapLib, StringLib, Global, Member, StdValueTypes
  <1>7. \A i \in DOMAIN DurationLib, j \in DOMAIN TimestampLib : Apart(DurationLib[i], TimestampLib[j])
    BY SMTT(60) DEF Apart, Takes, Concrete, DurationLib, TimestampLib, Global, Member, StdValueTypes
  <1> QED BY <1>1, <1>2, <1>3, <1>4, <1>5, <1>6, <1>7 DEF AreApart, RowsIn

LEMMA OthersAreApart == \A P, Q : (\A p \in P, q \in Q : p.name # q.name) => AreApart(P, Q)
  BY DEF AreApart, Apart

LEMMA JoinedIsClean ==
  ASSUME NEW s, NEW t, IsClean(s), IsClean(t), AreApart(RowsIn(s), RowsIn(t))
  PROVE  IsClean(s \o t) /\ RowsIn(s \o t) = RowsIn(s) \cup RowsIn(t)
  <1> DEFINE R == RowsIn(s) \cup RowsIn(t)
             st == s \o t
  <1>1. s \in Seq(R) /\ t \in Seq(R)
    BY DEF IsClean
  <1>2. RowsIn(st) = R
    BY <1>1, JoinedRows
  <1>3. st \in Seq(R)
    BY <1>1
  <1>4. ASSUME NEW i \in DOMAIN st, NEW j \in DOMAIN st, i # j PROVE Apart(st[i], st[j])
    <2>1. Len(s) \in Nat /\ Len(t) \in Nat /\ i \in 1..Len(s) + Len(t) /\ j \in 1..Len(s) + Len(t)
          /\ DOMAIN s = 1..Len(s) /\ DOMAIN t = 1..Len(t)
      BY <1>1
    <2>2. \A k \in DOMAIN st : st[k] = IF k <= Len(s) THEN s[k] ELSE t[k - Len(s)]
      BY <1>1
    <2> HIDE DEF st
    <2>3. CASE i <= Len(s) /\ j <= Len(s)
      BY <2>1, <2>2, <2>3, <1>4 DEF IsClean
    <2>4. CASE i <= Len(s) /\ ~(j <= Len(s))
      <3>1. i \in DOMAIN s /\ j - Len(s) \in DOMAIN t
        BY <2>1, <2>4
      <3> QED BY <3>1, <2>2, <2>4 DEF AreApart, RowsIn
    <2>5. CASE ~(i <= Len(s)) /\ j <= Len(s)
      <3>1. j \in DOMAIN s /\ i - Len(s) \in DOMAIN t
        BY <2>1, <2>5
      <3>2. Apart(st[j], st[i])
        BY <3>1, <2>2, <2>5 DEF AreApart, RowsIn
      <3> QED BY <3>2 DEF Apart
    <2>6. CASE ~(i <= Len(s)) /\ ~(j <= Len(s))
      <3>1. i - Len(s) \in DOMAIN t /\ j - Len(s) \in DOMAIN t /\ i - Len(s) # j - Len(s)
        BY <2>1, <2>6, <1>4
      <3> QED BY <3>1, <2>2, <2>6 DEF IsClean
    <2> QED BY <2>3, <2>4, <2>5, <2>6
  <1>5. \A p \in R : IsRow(p)
    BY DEF IsClean
  <1> QED BY <1>2, <1>3, <1>4, <1>5 DEF IsClean

LEMMA LibraryRows ==
  /\ IsClean(Library)
  /\ RowsIn(Library) = RowsIn(BytesLib) \cup RowsIn(DoubleLib) \cup RowsIn(IntLib) \cup RowsIn(ListLib)
                        \cup RowsIn(MapLib) \cup RowsIn(OptionalLib) \cup RowsIn(StringLib)
                        \cup RowsIn(UIntLib) \cup RowsIn(DurationLib) \cup RowsIn(TimestampLib)
  <1> DEFINE L2 == BytesLib \o DoubleLib
             L3 == L2 \o IntLib
             L4 == L3 \o ListLib
             L5 == L4 \o MapLib
             L6 == L5 \o OptionalLib
             L7 == L6 \o StringLib
             L8 == L7 \o UIntLib
             L9 == L8 \o DurationLib
             L10 == L9 \o TimestampLib
  <1>1. IsClean(L2) /\ RowsIn(L2) = RowsIn(BytesLib) \cup RowsIn(DoubleLib)
    <2>1. AreApart(RowsIn(BytesLib), RowsIn(DoubleLib))
      BY NamesOfRows, OthersAreApart DEF AreApart, Apart
    <2> QED BY <2>1, JoinedIsClean, DoubleRows, BytesRows
  <1>2. IsClean(L3) /\ RowsIn(L3) = RowsIn(L2) \cup RowsIn(IntLib)
    <2>1. AreApart(RowsIn(L2), RowsIn(IntLib))
      BY NamesOfRows, OthersAreApart, <1>1 DEF AreApart, Apart
    <2> QED BY <2>1, JoinedIsClean, IntRows, <1>1
  <1>3. IsClean(L4) /\ RowsIn(L4) = RowsIn(L3) \cup RowsIn(ListLib)
    <2>1. AreApart(RowsIn(L3), RowsIn(ListLib))
      BY NamesOfRows, OthersAreApart, SharedNames, <1>1, <1>2 DEF AreApart, Apart
    <2> QED BY <2>1, JoinedIsClean, ListRows, <1>2
  <1>4. IsClean(L5) /\ RowsIn(L5) = RowsIn(L4) \cup RowsIn(MapLib)
    <2>1. AreApart(RowsIn(L4), RowsIn(MapLib))
      BY NamesOfRows, OthersAreApart, SharedNames, <1>1, <1>2, <1>3 DEF AreApart, Apart
    <2> QED BY <2>1, JoinedIsClean, MapRows, <1>3
  <1>5. IsClean(L6) /\ RowsIn(L6) = RowsIn(L5) \cup RowsIn(OptionalLib)
    <2>1. AreApart(RowsIn(L5), RowsIn(OptionalLib))
      BY NamesOfRows, OthersAreApart, <1>1, <1>2, <1>3, <1>4 DEF AreApart, Apart
    <2> QED BY <2>1, JoinedIsClean, OptionalRows, <1>4
  <1>6. IsClean(L7) /\ RowsIn(L7) = RowsIn(L6) \cup RowsIn(StringLib)
    <2>1. AreApart(RowsIn(L6), RowsIn(StringLib))
      BY NamesOfRows, OthersAreApart, SharedNames, <1>1, <1>2, <1>3, <1>4, <1>5 DEF AreApart, Apart
    <2> QED BY <2>1, JoinedIsClean, StringRows, <1>5
  <1>7. IsClean(L8) /\ RowsIn(L8) = RowsIn(L7) \cup RowsIn(UIntLib)
    <2>1. AreApart(RowsIn(L7), RowsIn(UIntLib))
      BY NamesOfRows, OthersAreApart, <1>1, <1>2, <1>3, <1>4, <1>5, <1>6 DEF AreApart, Apart
    <2> QED BY <2>1, JoinedIsClean, UIntRows, <1>6
  <1>8. IsClean(L9) /\ RowsIn(L9) = RowsIn(L8) \cup RowsIn(DurationLib)
    <2>1. \A p \in RowsIn(L8) : p.name \notin {"duration", "getHours", "getMinutes", "getSeconds", "getMilliseconds"}
      BY NamesOfRows, <1>1, <1>2, <1>3, <1>4, <1>5, <1>6, <1>7
    <2>2. AreApart(RowsIn(L8), RowsIn(DurationLib))
      BY <2>1, NamesOfRows, OthersAreApart
    <2> QED BY <2>2, JoinedIsClean, DurationRows, <1>7
  <1>9. IsClean(L10) /\ RowsIn(L10) = RowsIn(L9) \cup RowsIn(TimestampLib)
    <2>1. \A p \in RowsIn(L8) : p.name \notin {"timestamp", "getFullYear", "getMonth", "getDayOfYear", "getDayOfMonth", "getDate",
                                             "getDayOfWeek", "getHours", "getMinutes", "getSeconds", "getMilliseconds"}
      BY NamesOfRows, <1>1, <1>2, <1>3, <1>4, <1>5, <1>6, <1>7
    <2>2. AreApart(RowsIn(L8), RowsIn(TimestampLib))
      BY <2>1, NamesOfRows, OthersAreApart
    <2>3. AreApart(RowsIn(L9), RowsIn(TimestampLib))
      BY <2>2, <1>8, SharedNames DEF AreApart
    <2> QED BY <2>3, JoinedIsClean, TimestampRows, <1>8
  <1>10. Library = L10
    BY DEF Library
  <1> HIDE DEF L2, L3, L4, L5, L6, L7, L8, L9, L10
  <1> QED BY <1>1, <1>2, <1>3, <1>4, <1>5, <1>6, <1>7, <1>8, <1>9, <1>10

\* The types whose values an overload takes for one of a type.
LEMMA AssignableTypes ==
  \A t \in Types : Assignable[t] = IF t \in {Dyn, "optional"} THEN ValueTypes ELSE {t} \cap ValueTypes
  <1> DEFINE g == [t \in Types |-> IF t \in {Dyn, "optional"} THEN ValueTypes ELSE {t} \cap ValueTypes]
  <1>1. Dyn \in Types /\ Dyn # "optional" /\ Opaque = {"optional"} /\ FirstParameter["optional"] = Dyn
    BY TypesAssumption, LibraryAssumption
  <1>2. g = [t \in Types |-> (IF t = Dyn THEN ValueTypes ELSE {t} \cap ValueTypes)
                               \cup (IF t \in Opaque THEN g[FirstParameter[t]] ELSE {})]
    BY <1>1
  <1> HIDE DEF g
  <1>3. Assignable = [t \in Types |-> (IF t = Dyn THEN ValueTypes ELSE {t} \cap ValueTypes)
                                        \cup (IF t \in Opaque THEN Assignable[FirstParameter[t]] ELSE {})]
    BY <1>2 DEF Assignable
  <1>4. Assignable[Dyn] = ValueTypes
    BY <1>1, <1>3
  <1> QED BY <1>1, <1>3, <1>4

-----------------------------------------------------------------------------
(* The library registered. *)

\* The overloads of a function among the first n registrations.
OverloadsUpTo(name, n) == {Library[j].overload : j \in {k \in 1..n : Library[k].name = name}}

RegistersInto(d, n) ==
  /\ d = [name \in FunctionNames |-> d[name]]
  /\ \A name \in FunctionNames :
       /\ d[name] \in Seq(OverloadsUpTo(name, n))
       /\ \A o \in OverloadsUpTo(name, n) : \E k \in DOMAIN d[name] : d[name][k] = o

\* The environment holds the registrations made, each under its function, and none was refused.
IsRegistered ==
  /\ registered \in 0..Len(Library)
  /\ RegistersInto(decls, registered)
  /\ RegistersOnce

LEMMA LibraryLength == Len(Library) \in Nat /\ DOMAIN Library = 1..Len(Library)
  BY LibraryRows DEF IsClean

LEMMA RowShapes ==
  ASSUME NEW j \in 1..Len(Library)
  PROVE  IsRow(Library[j]) /\ Library[j].name \in FunctionNames
  BY LibraryRows, LibraryLength, LibraryAssumption DEF IsClean, RowsIn, StdNames

LEMMA RowsDiffer ==
  ASSUME NEW i \in 1..Len(Library), NEW j \in 1..Len(Library), i # j
  PROVE  Apart(Library[i], Library[j])
  BY LibraryRows, LibraryLength DEF IsClean

LEMMA StartsEmpty == StdInit => IsRegistered
  <1> SUFFICES ASSUME StdInit PROVE IsRegistered
    OBVIOUS
  <1>1. \A name \in FunctionNames : OverloadsUpTo(name, 0) = {}
    BY DEF OverloadsUpTo
  <1>2. \A name \in FunctionNames : decls[name] = <<>>
    BY DEF StdInit, Init
  <1>3. decls = [name \in FunctionNames |-> decls[name]]
    BY DEF StdInit, Init
  <1>4. \A name \in FunctionNames : decls[name] \in Seq(OverloadsUpTo(name, 0))
    BY <1>2, EmptySeq
  <1>5. RegistersInto(decls, 0)
    BY <1>1, <1>3, <1>4 DEF RegistersInto
  <1>6. registered = 0 /\ answer = "none"
    BY DEF StdInit, Init
  <1> QED BY <1>5, <1>6, LibraryLength DEF IsRegistered, RegistersOnce

\* What is registered is the overload of the row, as it is written.
LEMMA RegistersRow ==
  ASSUME IsRegistered, Register
  PROVE  /\ registered + 1 \in 1..Len(Library)
         /\ registered' = registered + 1
         /\ Add(Library[registered + 1].name, Library[registered + 1].overload)
  <1> DEFINE row == Library[registered + 1]
             o   == row.overload
  <1>1. registered + 1 \in 1..Len(Library) /\ registered' = registered + 1
    <2>1. registered \in 0..Len(Library) /\ registered # Len(Library) /\ registered' = registered + 1
      BY DEF IsRegistered, Register, Complete
    <2> DEFINE len == Len(Library)
    <2>2. len \in Nat /\ registered \in 0..len /\ registered # len
      BY <2>1, LibraryLength
    <2> HIDE DEF len
    <2>3. registered + 1 \in 1..len
      BY <2>2
    <2> QED BY <2>1, <2>3 DEF len
  <1>2. IsRow(row)
    BY <1>1, RowShapes
  <1>3. IF o.member THEN AddMemberOverload(row.name, o.id, o.args[1], Tail(o.args)) ELSE AddOverload(row.name, o.id, o.args)
    BY DEF Register
  <1> HIDE DEF row
  <1>4. o = [id |-> o.id, member |-> o.member, args |-> o.args] /\ o.member \in BOOLEAN
        /\ o.args \in Seq(StdTypes) /\ (o.member => o.args # <<>>)
    BY <1>2 DEF IsRow
  <1> HIDE DEF o
  <1>5. CASE o.member
    <2> DEFINE S == StdTypes
               joined == <<o.args[1]>> \o Tail(o.args)
    <2>1. o.args \in Seq(S) /\ o.args # <<>>
      BY <1>4, <1>5
    <2> HIDE DEF S
    <2>2. joined = o.args
      BY <2>1, HeadTailProperties
    <2> HIDE DEF joined
    <2>3. Add(row.name, [id |-> o.id, member |-> TRUE, args |-> joined])
      BY <1>3, <1>5 DEF AddMemberOverload, joined
    <2>4. o.member = TRUE
      BY <1>4, <1>5
    <2> QED BY <1>1, <1>4, <2>2, <2>3, <2>4 DEF o, row
  <1>6. CASE ~o.member
    <2>1. o.member = FALSE
      BY <1>4, <1>6
    <2> QED BY <1>1, <1>3, <1>4, <1>6, <2>1 DEF AddOverload, o, row
  <1> QED BY <1>5, <1>6

LEMMA RegisterKeeps == IsRegistered /\ Register => IsRegistered'
  <1> SUFFICES ASSUME IsRegistered, Register PROVE IsRegistered'
    OBVIOUS
  <1> DEFINE n   == registered
             row == Library[n + 1]
             o   == row.overload
             name == row.name
  <1>1. n \in Nat /\ n + 1 \in 1..Len(Library) /\ registered' = n + 1 /\ Add(name, o)
    BY RegistersRow, LibraryLength DEF IsRegistered
  <1>2. name \in FunctionNames
    BY <1>1, RowShapes
  <1>3. RegistersInto(decls, n)
    BY DEF IsRegistered
  <1>4. ASSUME NEW f \in FunctionNames
        PROVE  OverloadsUpTo(f, n + 1) = IF f = name THEN OverloadsUpTo(f, n) \cup {o} ELSE OverloadsUpTo(f, n)
    <2>1. 1..n + 1 = (1..n) \cup {n + 1}
      BY <1>1
    <2> QED BY <2>1 DEF OverloadsUpTo
  <1>5. \A p \in OverloadsUpTo(name, n) : p.id # o.id /\ (p.member # o.member \/ p.args # o.args)
    <2> SUFFICES ASSUME NEW k \in 1..n, Library[k].name = name
                 PROVE  LET p == Library[k].overload IN p.id # o.id /\ (p.member # o.member \/ p.args # o.args)
      BY DEF OverloadsUpTo
    <2>1. Apart(Library[k], row)
      <3>1. k \in 1..Len(Library) /\ k # n + 1
        BY <1>1, LibraryLength
      <3> QED BY <1>1, <3>1, RowsDiffer
    <2> QED BY <2>1 DEF Apart, Takes
  <1> HIDE DEF row
  <1>6. ~IsPresent(name, o)
    <2>1. \A i \in DOMAIN decls[name] : decls[name][i] \in OverloadsUpTo(name, n)
      <3> DEFINE S == OverloadsUpTo(name, n)
      <3>1. decls[name] \in Seq(S)
        BY <1>2, <1>3 DEF RegistersInto
      <3> HIDE DEF S
      <3>2. \A i \in DOMAIN decls[name] : decls[name][i] \in S
        BY <3>1
      <3> QED BY <3>2 DEF S
    <2> QED BY <2>1, <1>5 DEF IsPresent
  <1> HIDE DEF o, name
  <1>7. answer' = "ok" /\ decls' = [decls EXCEPT ![name] = Append(@, o)]
    BY <1>1, <1>6 DEF Add
  <1>8. ASSUME NEW f \in FunctionNames
        PROVE  /\ decls'[f] \in Seq(OverloadsUpTo(f, n + 1))
               /\ \A p \in OverloadsUpTo(f, n + 1) : \E k \in DOMAIN decls'[f] : decls'[f][k] = p
    <2> DEFINE S == OverloadsUpTo(f, n)
               T == OverloadsUpTo(f, n + 1)
    <2>1. decls[f] \in Seq(S) /\ \A p \in S : \E k \in DOMAIN decls[f] : decls[f][k] = p
      BY <1>3 DEF RegistersInto
    <2>2. decls'[f] = IF f = name THEN Append(decls[f], o) ELSE decls[f]
      BY <1>2, <1>3, <1>7 DEF RegistersInto
    <2>3. T = IF f = name THEN S \cup {o} ELSE S
      BY <1>4 DEF o, name
    <2> HIDE DEF S, T
    <2>4. CASE f = name
      <3>1. decls[f] \in Seq(S \cup {o})
        BY <2>1
      <3>2. Append(decls[f], o) \in Seq(S \cup {o})
        BY <3>1
      <3>3. \A k \in DOMAIN decls[f] : k \in DOMAIN Append(decls[f], o) /\ Append(decls[f], o)[k] = decls[f][k]
        BY <3>1
      <3>4. Len(decls[f]) + 1 \in DOMAIN Append(decls[f], o) /\ Append(decls[f], o)[Len(decls[f]) + 1] = o
        BY <3>1
      <3>5. \A p \in S \cup {o} : \E k \in DOMAIN Append(decls[f], o) : Append(decls[f], o)[k] = p
        BY <2>1, <3>3, <3>4
      <3> QED BY <2>2, <2>3, <2>4, <3>2, <3>5 DEF T
    <2>5. CASE f # name
      BY <2>1, <2>2, <2>3, <2>5 DEF T
    <2> QED BY <2>4, <2>5
  <1>9. decls' = [f \in FunctionNames |-> decls'[f]]
    BY <1>3, <1>7 DEF RegistersInto
  <1>10. RegistersInto(decls', n + 1)
    BY <1>8, <1>9 DEF RegistersInto
  <1>11. n + 1 \in 0..Len(Library)
    BY <1>1, LibraryLength
  <1> QED BY <1>1, <1>7, <1>10, <1>11 DEF IsRegistered, RegistersOnce

-----------------------------------------------------------------------------
(* What the complete library answers to. *)

\* Two rows of a function that take one call are one.
LEMMA TakersAreOne ==
  ASSUME NEW i \in 1..Len(Library), NEW j \in 1..Len(Library), NEW member, NEW V, NEW args \in Seq(V),
         Library[i].name = Library[j].name,
         Matches(Library[i].overload, member, args), Matches(Library[j].overload, member, args)
  PROVE  i = j
  <1> SUFFICES ASSUME i # j PROVE FALSE
    OBVIOUS
  <1>1. Apart(Library[i], Library[j]) /\ IsRow(Library[i]) /\ IsRow(Library[j])
    BY RowsDiffer, RowShapes
  <1> DEFINE a == Library[i].overload.args
             b == Library[j].overload.args
  <1>2. /\ a \in Seq(StdTypes) /\ b \in Seq(StdTypes) /\ a # <<>> /\ b # <<>>
        /\ a[1] \in Concrete /\ b[1] \in Concrete /\ a[1] # b[1]
    BY <1>1 DEF Apart, Takes, IsRow, Matches
  <1>3. Len(a) = Len(args) /\ \A k \in DOMAIN args : args[k] \in Assignable[a[k]] /\ args[k] \in Assignable[b[k]]
    BY DEF Matches
  <1>4. \A t \in Concrete : t \in Types /\ Assignable[t] \subseteq {t}
    <2> TAKE t \in Concrete
    <2>1. t \in ValueTypes /\ t \in Types /\ t \notin {Dyn, "optional"}
      BY TypesAssumption, LibraryAssumption DEF Concrete
    <2> QED BY <2>1, AssignableTypes
  <1> HIDE DEF a, b
  <1>5. Len(a) \in Nat /\ Len(a) # 0 /\ 1 \in DOMAIN args
    BY <1>2, <1>3
  <1> QED BY <1>2, <1>3, <1>4, <1>5

LEMMA CallsReachRows ==
  ASSUME IsRegistered, Complete, NEW j \in 1..Len(Library), NEW V, NEW args \in Seq(V),
         Matches(Library[j].overload, Library[j].overload.member, args)
  PROVE  FindOverload(Library[j].name, Library[j].overload.member, args) = Library[j].overload
  <1> DEFINE name == Library[j].name
             o    == Library[j].overload
             S    == OverloadsUpTo(name, Len(Library))
  <1>1. RegistersInto(decls, Len(Library)) /\ name \in FunctionNames
    BY RowShapes DEF IsRegistered, Complete
  <1>2. decls[name] \in Seq(S) /\ \A p \in S : \E k \in DOMAIN decls[name] : decls[name][k] = p
    BY <1>1 DEF RegistersInto
  <1>3. o \in S
    BY DEF OverloadsUpTo
  <1>4. PICK k \in DOMAIN decls[name] : decls[name][k] = o
    BY <1>2, <1>3
  <1>5. \A p \in S : Matches(p, o.member, args) => p = o
    <2> SUFFICES ASSUME NEW i \in 1..Len(Library), Library[i].name = name, Matches(Library[i].overload, o.member, args)
                 PROVE  Library[i].overload = o
      BY DEF OverloadsUpTo
    <2> QED BY TakersAreOne
  <1> HIDE DEF S, o, name
  <1>6. \A i \in DOMAIN decls[name] : decls[name][i] \in S
    BY <1>2
  <1>7. Matches(decls[name][k], o.member, args)
    BY <1>4 DEF o
  <1>8. \A i \in DOMAIN decls[name] : Matches(decls[name][i], o.member, args) => decls[name][i] = decls[name][k]
    BY <1>4, <1>5, <1>6
  <1> DEFINE M == {i \in DOMAIN decls[name] : Matches(decls[name][i], o.member, args)}
  <1>9. k \in M /\ \A i \in M : decls[name][i] = o
    BY <1>4, <1>7, <1>8
  <1>10. M \in SUBSET (1..Len(decls[name])) /\ Len(decls[name]) \in Nat
    BY <1>2
  <1>11. FindOverload(name, o.member, args)
           = IF M = {} THEN NoOverload ELSE decls[name][CHOOSE i \in M : \A h \in M : i <= h]
    BY DEF FindOverload
  <1> HIDE DEF M
  <1>12. (CHOOSE i \in M : \A h \in M : i <= h) \in M
    BY <1>9, <1>10, FirstPosition
  <1> QED BY <1>9, <1>11, <1>12 DEF name, o

LEMMA RegisteredReach == IsRegistered => EveryOverloadReachable
  <1> SUFFICES ASSUME IsRegistered, Complete, NEW i \in DOMAIN Library,
                      NEW args \in [DOMAIN Library[i].overload.args -> ValueTypes],
                      \A k \in DOMAIN args : Library[i].overload.args[k] \in {args[k], Dyn}
               PROVE  FindOverload(Library[i].name, Library[i].overload.member, args) = Library[i].overload
    BY DEF EveryOverloadReachable
  <1> DEFINE o == Library[i].overload
  <1>1. i \in 1..Len(Library) /\ IsRow(Library[i])
    BY LibraryLength, RowShapes
  <1>2. o.args \in Seq(StdTypes)
    BY <1>1 DEF IsRow
  <1>3. args \in Seq(ValueTypes) /\ Len(args) = Len(o.args) /\ DOMAIN args = DOMAIN o.args
    BY <1>2
  <1>4. ASSUME NEW k \in DOMAIN args PROVE args[k] \in Assignable[o.args[k]]
    <2>1. args[k] \in ValueTypes /\ o.args[k] \in {args[k], Dyn} /\ ValueTypes \subseteq Types /\ Dyn \in Types
      BY TypesAssumption
    <2> QED BY <2>1, AssignableTypes
  <1>5. Matches(o, o.member, args)
    BY <1>3, <1>4 DEF Matches
  <1> QED BY <1>1, <1>3, <1>5, CallsReachRows

-----------------------------------------------------------------------------
(* The invariant. *)

\* The host's function of the request takes its parameters in order, and while none has failed it
\* has gone past as many arguments as its parameters so far took.
TakesInOrder ==
  request # <<>> /\ Asked.name \in DOMAIN Signature =>
    LET sig == Signature[Asked.name]
    IN /\ IsSequence(params) /\ Len(params) <= Len(sig)
       /\ reply = None => arg_idx = Taking(sig, Len(params), Asked)

\* There is one request, and nothing is taken before it.
AsksOnce ==
  /\ request # <<>> => \E r \in Requests : request = <<r>>
  /\ request = <<>> => arg_idx = 0 /\ params = <<>> /\ reply = None

IInv == AsksOnce /\ TakesInOrder /\ OperandsReachParameters

\* An operator is no function of a host's.
LEMMA AskedShapes ==
  ASSUME AsksOnce, request # <<>>
  PROVE  /\ Asked \in Requests
         /\ Asked.name \in DOMAIN Signature => Signature[Asked.name] \in Seq(Parameters)
  BY SignatureShapes DEF AsksOnce, Asked

LEMMA InitInv == CallInit => IInv
  BY DEF CallInit, StdInit, IInv, AsksOnce, TakesInOrder, OperandsReachParameters

\* A call starts with no parameters.
LEMMA FreshInv ==
  ASSUME NEW r \in Requests, request' = <<r>>, arg_idx' = 0, params' = <<>>,
         r.name \in DOMAIN Signature => reply' = None
  PROVE  IInv'
  <1>1. Asked' = r /\ request' # <<>>
    BY DEF Asked
  <1>2. ASSUME r.name \in DOMAIN Signature
        PROVE  IsSequence(<<>>) /\ Len(<<>>) = 0 /\ Len(Signature[r.name]) \in Nat
    <2>1. IsSequence(<<>>) /\ Len(<<>>) = 0
      BY DEF IsSequence
    <2>2. Signature[r.name] \in Seq(Parameters)
      BY <1>2, SignatureShapes
    <2> QED BY <2>1, <2>2
  <1>3. \A sig : Taking(sig, 0, r) = 0
    BY TakingNone
  <1>4. TakesInOrder'
    BY <1>1, <1>2, <1>3 DEF TakesInOrder
  <1>5. OperandsReachParameters'
    BY <1>1, <1>2 DEF OperandsReachParameters
  <1> QED BY <1>1, <1>4, <1>5 DEF IInv, AsksOnce

LEMMA CallInv == ASSUME IInv, Call PROVE IInv'
  <1>1. arg_idx = 0 /\ params = <<>> /\ reply = None
    BY DEF IInv, AsksOnce, Call, Ready
  <1>2. PICK r \in Requests : request' = <<r>>
    BY DEF Call
  <1>3. arg_idx' = 0 /\ params' = <<>> /\ reply' = None
    BY <1>1 DEF Call
  <1> QED BY <1>2, <1>3, FreshInv

LEMMA OperateInv == ASSUME IInv, Operate PROVE IInv'
  <1>1. arg_idx = 0 /\ params = <<>>
    BY DEF IInv, AsksOnce, Operate, Ready
  <1>2. PICK r \in Requests : request' = <<r>> /\ r.name \in Operators
    BY DEF Operate
  <1>3. r.name \notin DOMAIN Signature
    BY <1>2, SignatureShapes
  <1>4. arg_idx' = 0 /\ params' = <<>>
    BY <1>1 DEF Operate
  <1> QED BY <1>2, <1>3, <1>4, FreshInv

\* A step of registration does not touch a call.
LEMMA QuietInv == ASSUME IInv, UNCHANGED <<request, arg_idx, params, reply>> PROVE IInv'
  BY DEF IInv, AsksOnce, TakesInOrder, OperandsReachParameters, Asked

LEMMA ApplyInv == ASSUME IInv, Apply PROVE IInv'
  <1> DEFINE sig == Signature[Asked.name]
  <1>1. /\ request # <<>> /\ Asked.name \in DOMAIN Signature /\ reply = None
        /\ Len(params) = Len(sig) /\ request' = request /\ params' = params /\ arg_idx' = arg_idx
    BY DEF Apply, HostIsBusy
  <1>2. Asked' = Asked
    BY <1>1 DEF Asked
  <1>3. AsksOnce'
    BY <1>1 DEF IInv, AsksOnce
  <1>4. sig \in Seq(Parameters)
    BY <1>1, AskedShapes DEF IInv
  <1>5. TakesInOrder'
    BY <1>1, <1>2 DEF IInv, TakesInOrder
  <1>6. ~(Len(params) + 1 <= Len(sig))
    BY <1>1, <1>4
  <1>7. OperandsReachParameters'
    BY <1>1, <1>2, <1>6 DEF IInv, OperandsReachParameters
  <1> QED BY <1>3, <1>5, <1>7 DEF IInv

LEMMA ExtractInv == ASSUME IInv, Extract PROVE IInv'
  <1> DEFINE sig == Signature[Asked.name]
             n   == Len(params)
             p   == sig[n + 1]
             got == FromContext(p, Asked, arg_idx)
             Reaches(i, v) == /\ OperandFor(sig, i, Asked) # <<>>
                              /\ v = FromVal(OperandFor(sig, i, Asked)[1])
                              /\ TypeOf(v) \in sig[i][2]
  <1>1. /\ request # <<>> /\ Asked.name \in DOMAIN Signature /\ reply = None /\ n < Len(sig)
        /\ request' = request
        /\ arg_idx' = IF TakesArgument(p, Asked) THEN arg_idx + 1 ELSE arg_idx
        /\ IF Failed(got) THEN reply' = got /\ params' = params
           ELSE params' = Append(params, got[2]) /\ reply' = reply
    BY DEF Extract, HostIsBusy
  <1>2. Asked \in Requests /\ sig \in Seq(Parameters) /\ Asked' = Asked
    BY <1>1, AskedShapes DEF IInv, Asked
  <1>3. IsSequence(params) /\ arg_idx = Taking(sig, n, Asked)
    BY <1>1 DEF IInv, TakesInOrder
  <1>4. n \in Nat /\ DOMAIN params = 1..n /\ n + 1 <= Len(sig) /\ Len(sig) \in Nat
    BY <1>1, <1>2, <1>3, SequenceDomain
  <1>5. Delivered(got, p, OperandFor(sig, n + 1, Asked))
    BY <1>2, <1>3, <1>4, ParameterDelivered
  <1>6. AsksOnce'
    BY <1>1 DEF IInv, AsksOnce
  <1>7. \A i \in 1..n : Reaches(i, params[i])
    BY <1>1, <1>4 DEF IInv, OperandsReachParameters
  <1>8. /\ arg_idx' = Taking(sig, n + 1, Asked)
    BY <1>1, <1>2, <1>3, <1>4, TakingCounts
  <1> HIDE DEF got, p, n, Reaches
  <1>9. CASE Failed(got)
    <2>1. reply' = got /\ params' = params
      BY <1>1, <1>9
    <2>2. reply' # None
      BY <1>9, <2>1 DEF Failed, None
    <2>3. TakesInOrder'
      <3>1. n <= Len(sig)
        BY <1>4
      <3>2. IsSequence(params') /\ Len(params') <= Len(sig)
        BY <1>3, <2>1, <3>1 DEF n
      <3> QED BY <1>1, <1>2, <2>2, <3>2 DEF TakesInOrder
    <2>4. IF OperandFor(sig, n + 1, Asked) = <<>>
          THEN reply' = Err(IF sig[n + 1][1] = "this" THEN "MissingArgumentOrTarget" ELSE "InvalidArgumentCount")
          ELSE reply' = UnexpectedType /\ TypeOf(OperandFor(sig, n + 1, Asked)[1]) \notin sig[n + 1][2]
      BY <1>5, <1>9, <2>1 DEF Delivered, p
    <2>5. OperandsReachParameters'
      BY <1>1, <1>2, <1>4, <1>7, <2>1, <2>4 DEF OperandsReachParameters, Reaches, n
    <2> QED BY <1>6, <2>3, <2>5 DEF IInv
  <1>10. CASE ~Failed(got)
    <2>1. params' = Append(params, got[2]) /\ reply' = None
      BY <1>1, <1>10
    <2>2. /\ IsSequence(params') /\ Len(params') = n + 1
          /\ \A i \in 1..n : params'[i] = params[i]
          /\ params'[n + 1] = got[2]
      BY <1>3, <2>1, Appended DEF n
    <2>3. DOMAIN params' = 1..n + 1
      BY <2>2, SequenceDomain
    <2>4. Reaches(n + 1, got[2])
      BY <1>5, <1>10 DEF Delivered, Reaches, p
    <2>5. \A i \in 1..n + 1 : Reaches(i, params'[i])
      <3>1. \A i \in 1..n + 1 : i \in 1..n \/ i = n + 1
        BY <1>4
      <3> QED BY <1>7, <2>2, <2>4, <3>1
    <2>6. TakesInOrder'
      BY <1>1, <1>2, <1>4, <1>8, <2>2 DEF TakesInOrder
    <2>7. OperandsReachParameters'
      BY <1>1, <1>2, <2>1, <2>3, <2>5 DEF OperandsReachParameters, Reaches
    <2> QED BY <1>6, <2>6, <2>7 DEF IInv
  <1> QED BY <1>9, <1>10

LEMMA NextInv == IInv /\ [CallNext]_callVars => IInv'
  <1> SUFFICES ASSUME IInv, [CallNext]_callVars PROVE IInv'
    OBVIOUS
  <1>1. CASE RegisterNext
    BY <1>1, QuietInv DEF RegisterNext, Register
  <1>2. CASE Call
    BY <1>2, CallInv
  <1>3. CASE Operate
    BY <1>3, OperateInv
  <1>4. CASE Extract
    BY <1>4, ExtractInv
  <1>5. CASE Apply
    BY <1>5, ApplyInv
  <1>6. CASE UNCHANGED callVars
    BY <1>6, QuietInv DEF callVars
  <1> QED BY <1>1, <1>2, <1>3, <1>4, <1>5, <1>6 DEF CallNext
-----------------------------------------------------------------------------
(* Theorems. *)

\* The inductive invariant.
THEOREM Invariance == CallSpec => []IInv
  BY InitInv, NextInv, PTL DEF CallSpec

\* Whatever a host's functions take and whatever they are called with, each parameter receives the
\* operand at its place, converted, or the call fails at the first for which there is none or one
\* of another type (magic.rs).
THEOREM ParametersReceiveOperands == CallSpec => []OperandsReachParameters
  <1>1. IInv => OperandsReachParameters
    BY DEF IInv
  <1> QED BY <1>1, Invariance, PTL

\* No registration of the library is refused, with whatever types hosts declare beside its own.
THEOREM EveryRegistrationSucceeds == CallSpec => []IsRegistered
  <1>1. CallInit => IsRegistered
    BY StartsEmpty DEF CallInit
  <1>2. IsRegistered /\ [CallNext]_callVars => IsRegistered'
    <2>1. CASE RegisterNext
      BY <2>1, RegisterKeeps DEF RegisterNext
    <2>2. CASE UNCHANGED <<decls, answer, registered>>
      BY <2>2 DEF IsRegistered, RegistersInto, RegistersOnce
    <2> QED BY <2>1, <2>2 DEF CallNext, Call, Operate, Extract, Apply, callVars
  <1> QED BY <1>1, <1>2, PTL DEF CallSpec

\* (env.rs: .expect("Must be unique id"))
THEOREM RegistrationsAreUnique == CallSpec => []RegistersOnce
  <1>1. IsRegistered => RegistersOnce
    BY DEF IsRegistered
  <1> QED BY <1>1, EveryRegistrationSucceeds, PTL

\* Every overload of the complete library gets the calls with values of its own types.
THEOREM OverloadsAreReached == CallSpec => []EveryOverloadReachable
  BY RegisteredReach, EveryRegistrationSucceeds, PTL
-----------------------------------------------------------------------------
(* The text of a duration. *)

LEMMA Divided ==
  ASSUME NEW a \in Nat, NEW b \in Nat \ {0}
  PROVE  a \div b \in Nat /\ b * (a \div b) <= a /\ a < b * (a \div b) + b
  OBVIOUS

LEMMA ProductAtLeast ==
  ASSUME NEW a \in Nat, NEW b \in Nat, NEW c \in Nat, b <= c
  PROVE  a * b \in Nat /\ a * b <= a * c
  <1>1. c - b \in Nat /\ c = b + (c - b)
    OBVIOUS
  <1>2. \A d \in Nat : a * (b + d) = a * b + a * d /\ a * d \in Nat /\ a * b \in Nat
    OBVIOUS
  <1> QED BY <1>1, <1>2

LEMMA WithinModulus ==
  ASSUME NEW m \in Nat, NEW a \in Nat, a < m
  PROVE  a % m = a /\ (a # 0 => (-a) % m = m - a)
  OBVIOUS

\* Seconds in what may be the length of a duration.
LEMMA SecondsIn ==
  ASSUME NEW a \in Nat, a <= DurationMax
  PROVE  LET q == a \div Second
         IN /\ q \in Nat /\ Second * q <= a /\ q < NanosMax
            /\ Second <= a => q # 0
  <1> DEFINE q == a \div Second
  <1>1. Second \in Nat \ {0} /\ NanosMax \in Nat /\ DurationMax \in Nat /\ DurationMax < Second * NanosMax
    BY TimeAssumption, WidthsAssumption
  <1>2. q \in Nat /\ Second * q <= a /\ a < Second * q + Second
    BY <1>1, Divided
  <1> HIDE DEF q
  <1>3. ASSUME NanosMax <= q PROVE FALSE
    <2>1. Second * NanosMax <= Second * q
      BY <1>1, <1>2, <1>3, ProductAtLeast
    <2>2. Second * NanosMax \in Nat /\ Second * q \in Nat
      BY <1>1, <1>2, ProductAtLeast
    <2> QED BY <1>1, <1>2, <2>1, <2>2
  <1>4. q = 0 => Second * q = 0
    BY <1>1
  <1> QED BY <1>1, <1>2, <1>3, <1>4 DEF q

LEMMA FormatPanics ==
  ASSUME NEW n \in Lengths, NEW checked \in BOOLEAN
  PROVE  FormatDuration(n, checked) = Panic <=>
           checked /\ ~HasNanos(n) /\ (n < 0 \/ n - Remainder(n, Second) >= U64)
  <1> DEFINE secs   == Quotient(n, Second) % U64
             amount == IF HasNanos(n) THEN n % U64 ELSE secs * Second
  <1>1. FormatDuration(n, checked) = Panic <=> checked /\ amount >= U64
    BY DEF FormatDuration, Panic, Err, Ok
  <1>2. /\ Second \in Nat /\ 1 < Second /\ Second <= NanosMax /\ NanosMax \in Nat
        /\ DurationMax \in Nat /\ n \in Int /\ n <= DurationMax /\ -n <= DurationMax
    BY TimeAssumption, WidthsAssumption DEF Lengths
  <1>3. U64 = 2 * NanosMax + 2 /\ U64 \in Nat \ {0}
    BY <1>2 DEF U64
  <1>4. CASE HasNanos(n)
    <2>1. n % U64 < U64
      BY <1>2, <1>3
    <2>2. amount < U64 /\ amount \in Int
      BY <1>2, <1>3, <1>4, <2>1
    <2> HIDE DEF amount
    <2> QED BY <1>1, <1>3, <1>4, <2>2
  <1>5. CASE ~HasNanos(n) /\ n >= 0
    <2> DEFINE q == n \div Second
    <2>1. q \in Nat /\ q < NanosMax /\ Second * q <= n
      BY <1>2, <1>5, SecondsIn
    <2>2. Quotient(n, Second) = q
      BY <1>2, <1>5 DEF Quotient
    <2>3. Remainder(n, Second) = n - Second * q
      BY <2>2 DEF Remainder
    <2> HIDE DEF q
    <2>4. secs = q
      <3>1. q < U64 /\ U64 \in Nat
        BY <1>2, <1>3, <2>1
      <3>2. q % U64 = q
        BY <2>1, <3>1, WithinModulus
      <3> QED BY <2>2, <3>2
    <2> HIDE DEF secs
    <2>5. amount = q * Second
      BY <1>5, <2>4
    <2> HIDE DEF amount
    <2>6. q * Second = Second * q /\ Second * q \in Nat
      BY <1>2, <2>1
    <2>7. n - Remainder(n, Second) = amount /\ ~(n < 0)
      BY <1>2, <1>5, <2>3, <2>5, <2>6
    <2> QED BY <1>1, <1>5, <2>7
  <1>6. CASE ~HasNanos(n) /\ n < 0
    <2> DEFINE q == (-n) \div Second
    <2>1. -n \in Nat /\ Second <= -n
      BY <1>2, <1>6 DEF HasNanos
    <2>2. q \in Nat \ {0} /\ q < NanosMax
      BY <1>2, <2>1, SecondsIn
    <2>3. Quotient(n, Second) = -q
      BY <1>2, <1>6 DEF Quotient
    <2> HIDE DEF q
    <2>4. secs = U64 - q
      <3>1. q < U64 /\ U64 \in Nat /\ q \in Nat /\ q # 0
        BY <1>2, <1>3, <2>2
      <3>2. (-q) % U64 = U64 - q
        BY <3>1, WithinModulus
      <3> QED BY <2>3, <3>2
    <2> HIDE DEF secs
    <2>5. secs \in Nat /\ secs >= NanosMax + 3
      BY <1>2, <1>3, <2>2, <2>4
    <2>6. secs * 2 <= secs * Second
      BY <1>2, <2>5, ProductAtLeast
    <2>7. amount = secs * Second /\ secs * Second \in Nat
      BY <1>2, <1>6, <2>5, ProductAtLeast
    <2> HIDE DEF amount
    <2>8. amount >= U64
      BY <1>2, <1>3, <2>5, <2>6, <2>7
    <2> QED BY <1>1, <1>6, <2>8
  <1> QED BY <1>2, <1>4, <1>5, <1>6

-----------------------------------------------------------------------------
(* The overload that answers a call, and what it answers. *)

\* The library answers the request with the overload of a row.
AnsweredBy(r, row) ==
  LET o == row.overload
      a == Operands(r)
  IN /\ row.name = r.name
     /\ o.member = (r.target # <<>>)
     /\ Len(o.args) = Len(a)
     /\ \A i \in 1..Len(a) : o.args[i] \in {"dyn", "optional", TypeOf(a[i])}
     /\ Dispatched(r) = StdOp(o.id, a, r.how)

LEMMA OperandShapes ==
  ASSUME NEW r \in Requests
  PROVE  LET a == Operands(r)
         IN /\ Len(a) = Len(r.target) + Len(r.args) /\ Len(a) \in Nat /\ DOMAIN a = 1..Len(a)
            /\ r.target = <<>> => a = r.args
            /\ r.target # <<>> => Len(r.target) = 1 /\ a[1] = r.target[1] /\ \A i \in 1..Len(r.args) : a[i + 1] = r.args[i]
  <1> DEFINE S == {r.target[i] : i \in DOMAIN r.target} \cup {r.args[i] : i \in DOMAIN r.args}
             t == r.target
             u == r.args
  <1>1. t \in Seq(S) /\ u \in Seq(S) /\ Len(t) <= 1
    <2>1. t \in Seq({t[i] : i \in DOMAIN t}) /\ u \in Seq({u[i] : i \in DOMAIN u}) /\ Len(t) <= 1
      BY RequestsAssumption DEF IsSequence
    <2> QED BY <2>1
  <1> HIDE DEF S, t, u
  <1>2. Len(t \o u) = Len(t) + Len(u) /\ Len(t \o u) \in Nat /\ DOMAIN (t \o u) = 1..Len(t \o u)
    BY <1>1, ConcatProperties
  <1>3. t = <<>> => t \o u = u
    BY <1>1
  <1>4. t # <<>> => Len(t) = 1
    <2>1. Len(t) \in Nat /\ (t # <<>> => Len(t) # 0)
      BY <1>1
    <2>2. \A n \in Nat : n <= 1 /\ n # 0 => n = 1
      OBVIOUS
    <2> QED BY <1>1, <2>1, <2>2
  <1>5. ASSUME Len(t) = 1 PROVE (t \o u)[1] = t[1] /\ \A i \in 1..Len(u) : (t \o u)[i + 1] = u[i]
    <2> DEFINE both == t \o u
    <2>1. /\ Len(u) \in Nat
          /\ \A i \in 1..(Len(t) + Len(u)) : both[i] = IF i <= Len(t) THEN t[i] ELSE u[i - Len(t)]
      BY <1>1, ConcatProperties
    <2> HIDE DEF both
    <2>2. both[1] = t[1]
      <3>1. 1 \in 1..(1 + Len(u)) /\ 1 <= 1
        BY <2>1
      <3> QED BY <1>5, <2>1, <3>1
    <2>3. ASSUME NEW i \in 1..Len(u) PROVE both[i + 1] = u[i]
      <3>1. i + 1 \in 1..(1 + Len(u)) /\ ~(i + 1 <= 1) /\ (i + 1) - 1 = i
        BY <2>1
      <3> QED BY <1>5, <2>1, <3>1
    <2> QED BY <2>2, <2>3 DEF both
  <1> QED BY <1>2, <1>3, <1>4, <1>5 DEF t, u, Operands

LEMMA CallsAreAnswered ==
  ASSUME IsRegistered, Complete, NEW r \in Requests, Dispatched(r) # Undeclared
  PROVE  \E row \in RowsIn(Library) : AnsweredBy(r, row)
  <1> DEFINE a      == Operands(r)
             types  == [i \in DOMAIN a |-> TypeOf(a[i])]
             member == (r.target # <<>>)
             list   == decls[r.name]
             M      == {i \in DOMAIN list : Matches(list[i], member, types)}
             o      == FindOverload(r.name, member, types)
             S      == OverloadsUpTo(r.name, Len(Library))
  <1>1. r.name \in FunctionNames /\ o # NoOverload /\ Dispatched(r) = StdOp(o.id, a, r.how)
    BY DEF Dispatched
  <1>2. Len(a) \in Nat /\ DOMAIN a = 1..Len(a)
    BY OperandShapes
  <1>3. list \in Seq(S)
    BY <1>1 DEF IsRegistered, Complete, RegistersInto
  <1>4. o = IF M = {} THEN NoOverload ELSE list[CHOOSE i \in M : \A h \in M : i <= h]
    BY DEF FindOverload
  <1>5. Len(types) = Len(a) /\ DOMAIN types = 1..Len(a) /\ \A i \in 1..Len(a) : types[i] = TypeOf(a[i])
    <2> HIDE DEF a
    <2> QED BY <1>2
  <1> HIDE DEF o, S, a, types, list, M
  <1>6. M \in SUBSET (1..Len(list)) /\ Len(list) \in Nat
    BY <1>3 DEF M
  <1>7. M # {}
    BY <1>1, <1>4
  <1>8. (CHOOSE i \in M : \A h \in M : i <= h) \in M
    BY <1>6, <1>7, FirstPosition
  <1>9. PICK i \in M : o = list[i]
    BY <1>4, <1>7, <1>8
  <1>10. o \in S /\ Matches(o, member, types)
    BY <1>3, <1>9 DEF M
  <1>11. PICK j \in 1..Len(Library) : Library[j].overload = o /\ Library[j].name = r.name
    BY <1>10 DEF S, OverloadsUpTo
  <1> DEFINE row == Library[j]
  <1>12. row \in RowsIn(Library) /\ IsRow(row)
    BY LibraryLength, RowShapes DEF RowsIn
  <1>13. row.overload = o /\ row.name = r.name
    BY <1>11
  <1> HIDE DEF row
  <1>14. o.args \in Seq(StdTypes) /\ Len(o.args) = Len(a) /\ o.member = member
    BY <1>5, <1>10, <1>12, <1>13 DEF IsRow, Matches
  <1>15. ASSUME NEW k \in 1..Len(a) PROVE o.args[k] \in {"dyn", "optional", TypeOf(a[k])}
    <2>1. TypeOf(a[k]) \in Assignable[o.args[k]]
      BY <1>5, <1>10 DEF Matches
    <2>2. o.args[k] \in StdTypes
      BY <1>2, <1>14
    <2>3. o.args[k] \in Types /\ Dyn = "dyn"
      BY <2>2, TypesAssumption, LibraryAssumption DEF StdTypes
    <2> QED BY <2>1, <2>3, AssignableTypes
  <1>16. AnsweredBy(r, row)
    BY <1>1, <1>13, <1>14, <1>15 DEF AnsweredBy, a, member
  <1> QED BY <1>12, <1>16

\* What an answer says of a request.
LEMMA Answering ==
  ASSUME NEW r, NEW row, AnsweredBy(r, row)
  PROVE  LET o == row.overload
             a == Operands(r)
         IN /\ row.name = r.name /\ o.member = (r.target # <<>>) /\ Len(o.args) = Len(a)
            /\ Dispatched(r) = StdOp(o.id, a, r.how)
            /\ Len(o.args) \in {1, 2} => o.args[1] \in {"dyn", "optional", TypeOf(a[1])}
            /\ Len(o.args) = 2 => o.args[2] \in {"dyn", "optional", TypeOf(a[2])}
  <1> DEFINE o == row.overload
             a == Operands(r)
  <1>1. /\ row.name = r.name /\ o.member = (r.target # <<>>) /\ Len(o.args) = Len(a)
        /\ Dispatched(r) = StdOp(o.id, a, r.how)
        /\ \A i \in 1..Len(a) : o.args[i] \in {"dyn", "optional", TypeOf(a[i])}
    BY DEF AnsweredBy
  <1> HIDE DEF a, o
  <1>2. Len(a) \in {1, 2} => 1 \in 1..Len(a)
    OBVIOUS
  <1>3. Len(a) = 2 => 2 \in 1..Len(a)
    OBVIOUS
  <1>4. Len(o.args) \in {1, 2} => o.args[1] \in {"dyn", "optional", TypeOf(a[1])}
    BY <1>1, <1>2
  <1>5. Len(o.args) = 2 => o.args[2] \in {"dyn", "optional", TypeOf(a[2])}
    BY <1>1, <1>3
  <1> QED BY <1>1, <1>4, <1>5 DEF a, o

\* And by the shape of the row.
LEMMA AnsweredGlobals ==
  /\ \A r, name, id : AnsweredBy(r, Global(name, id, <<>>)) =>
       r.name = name /\ r.target = <<>> /\ Len(Operands(r)) = 0 /\ Dispatched(r) = StdOp(id, Operands(r), r.how)
  /\ \A r, name, id, t : AnsweredBy(r, Global(name, id, <<t>>)) =>
       /\ r.name = name /\ r.target = <<>> /\ Len(Operands(r)) = 1 /\ Dispatched(r) = StdOp(id, Operands(r), r.how)
       /\ t \in {"dyn", "optional", TypeOf(Operands(r)[1])}
  <1>1. ASSUME NEW r, NEW name, NEW id, NEW args, AnsweredBy(r, Global(name, id, args))
        PROVE  /\ r.name = name /\ r.target = <<>> /\ Len(Operands(r)) = Len(args)
               /\ Dispatched(r) = StdOp(id, Operands(r), r.how)
               /\ Len(args) = 1 => args[1] \in {"dyn", "optional", TypeOf(Operands(r)[1])}
    <2> DEFINE row == Global(name, id, args)
    <2>1. row.name = name /\ row.overload.id = id /\ row.overload.member = FALSE /\ row.overload.args = args
      BY DEF Global
    <2> HIDE DEF row
    <2>2. AnsweredBy(r, row)
      BY <1>1 DEF row
    <2> QED BY <2>1, <2>2, Answering
  <1>2. Len(<<>>) = 0 /\ \A t : Len(<<t>>) = 1 /\ <<t>>[1] = t
    OBVIOUS
  <1> QED BY <1>1, <1>2

LEMMA AnsweredMembers ==
  /\ \A r, name, id, t : AnsweredBy(r, Member(name, id, t, <<>>)) =>
       /\ r.name = name /\ r.target # <<>> /\ Len(Operands(r)) = 1 /\ Dispatched(r) = StdOp(id, Operands(r), r.how)
       /\ t \in {"dyn", "optional", TypeOf(Operands(r)[1])}
  /\ \A r, name, id, t, u : AnsweredBy(r, Member(name, id, t, <<u>>)) =>
       /\ r.name = name /\ r.target # <<>> /\ Len(Operands(r)) = 2 /\ Dispatched(r) = StdOp(id, Operands(r), r.how)
       /\ t \in {"dyn", "optional", TypeOf(Operands(r)[1])}
       /\ u \in {"dyn", "optional", TypeOf(Operands(r)[2])}
  <1>1. ASSUME NEW r, NEW name, NEW id, NEW t, NEW args, IsSequence(args), Len(args) \in {0, 1},
               AnsweredBy(r, Member(name, id, t, args))
        PROVE  /\ r.name = name /\ r.target # <<>> /\ Len(Operands(r)) = Len(args) + 1
               /\ Dispatched(r) = StdOp(id, Operands(r), r.how)
               /\ t \in {"dyn", "optional", TypeOf(Operands(r)[1])}
               /\ Len(args) = 1 => args[1] \in {"dyn", "optional", TypeOf(Operands(r)[2])}
    <2> DEFINE row == Member(name, id, t, args)
               all == <<t>> \o args
    <2>1. row.name = name /\ row.overload.id = id /\ row.overload.member = TRUE /\ row.overload.args = all
      BY DEF Member
    <2>2. Len(all) = Len(args) + 1 /\ Len(args) \in Nat /\ all[1] = t /\ (Len(args) = 1 => all[2] = args[1])
      <3> DEFINE T == {args[i] : i \in DOMAIN args} \cup {t}
      <3>1. <<t>> \in Seq(T) /\ args \in Seq(T)
        <4>1. args \in Seq({args[i] : i \in DOMAIN args})
          BY <1>1 DEF IsSequence
        <4> QED BY <4>1
      <3> HIDE DEF T
      <3>2. Len(<<t>>) = 1 /\ <<t>>[1] = t
        OBVIOUS
      <3>3. Len(all) = Len(args) + 1 /\ Len(args) \in Nat
        BY <3>1, <3>2, ConcatProperties
      <3>4. all[1] = t
        BY <3>1, <3>2, <3>3, ConcatProperties
      <3>5. Len(args) = 1 => all[2] = args[1]
        BY <3>1, <3>2, <3>3, ConcatProperties
      <3> QED BY <3>3, <3>4, <3>5
    <2> HIDE DEF row, all
    <2>3. AnsweredBy(r, row)
      BY <1>1 DEF row
    <2>4. Len(all) \in {1, 2} /\ (Len(args) = 1 => Len(all) = 2)
      <3>1. Len(args) = 0 \/ Len(args) = 1
        BY <1>1
      <3>2. \A m, n \in Nat : (m = 0 \/ m = 1) /\ n = m + 1 => n \in {1, 2} /\ (m = 1 => n = 2)
        OBVIOUS
      <3>3. Len(args) \in Nat /\ Len(all) = Len(args) + 1 /\ Len(all) \in Nat
        BY <2>2
      <3> QED BY ONLY <3>1, <3>2, <3>3
    <2>5. /\ r.name = name /\ r.target # <<>> /\ Len(all) = Len(Operands(r))
          /\ Dispatched(r) = StdOp(id, Operands(r), r.how)
          /\ all[1] \in {"dyn", "optional", TypeOf(Operands(r)[1])}
          /\ Len(all) = 2 => all[2] \in {"dyn", "optional", TypeOf(Operands(r)[2])}
      BY <2>1, <2>3, <2>4, Answering
    <2> QED BY <2>2, <2>4, <2>5
  <1>2. IsSequence(<<>>) /\ Len(<<>>) = 0 /\ \A u : IsSequence(<<u>>) /\ Len(<<u>>) = 1 /\ <<u>>[1] = u
    BY DEF IsSequence
  <1>3. ASSUME NEW r, NEW name, NEW id, NEW t, AnsweredBy(r, Member(name, id, t, <<>>))
        PROVE  /\ r.name = name /\ r.target # <<>> /\ Len(Operands(r)) = 1 /\ Dispatched(r) = StdOp(id, Operands(r), r.how)
               /\ t \in {"dyn", "optional", TypeOf(Operands(r)[1])}
    <2> DEFINE args == <<>>
    <2>1. IsSequence(args) /\ Len(args) = 0 /\ AnsweredBy(r, Member(name, id, t, args))
      BY <1>2, <1>3
    <2> HIDE DEF args
    <2>2. Len(args) \in {0, 1} /\ Len(args) + 1 = 1
      BY <2>1
    <2> QED BY <1>1, <2>1, <2>2
  <1>4. ASSUME NEW r, NEW name, NEW id, NEW t, NEW u, AnsweredBy(r, Member(name, id, t, <<u>>))
        PROVE  /\ r.name = name /\ r.target # <<>> /\ Len(Operands(r)) = 2 /\ Dispatched(r) = StdOp(id, Operands(r), r.how)
               /\ t \in {"dyn", "optional", TypeOf(Operands(r)[1])}
               /\ u \in {"dyn", "optional", TypeOf(Operands(r)[2])}
    <2> DEFINE args == <<u>>
    <2>1. IsSequence(args) /\ Len(args) = 1 /\ args[1] = u /\ AnsweredBy(r, Member(name, id, t, args))
      BY <1>2, <1>4
    <2> HIDE DEF args
    <2>2. Len(args) \in {0, 1} /\ Len(args) + 1 = 2
      BY <2>1
    <2> QED BY <1>1, <2>1, <2>2
  <1> QED BY <1>3, <1>4

\* The op of an overload.
LEMMA StdOps ==
  ASSUME NEW a, NEW how
  PROVE  /\ \A id \in Noops   : StdOp(id, a, how) = Ok(a[1])
         /\ \A id \in Sizings : StdOp(id, a, how) = Ok(IntOf(SizeOf(a[1])))
         /\ \A id \in ToStrings : StdOp(id, a, how) = String(a[1], how)
         /\ \A id \in ToDoubles : StdOp(id, a, how) = Double(a[1])
         /\ \A id \in ToInts    : StdOp(id, a, how) = IntOp(a[1])
         /\ \A id \in ToUints   : StdOp(id, a, how) = UintOp(a[1])
         /\ StdOp("string_to_bytes", a, how) = Ok(BytesOf(a[1][2]))
         /\ StdOp("contains_string", a, how) = Ok(BoolVal(OccursIn(a[2][2], a[1][2])))
         /\ StdOp("starts_with_string", a, how) = Ok(BoolVal(IsPrefix(a[2][2], a[1][2])))
         /\ StdOp("ends_with_string", a, how) = Ok(BoolVal(IsSuffix(a[2][2], a[1][2])))
         /\ StdOp("matches", a, how) = Matching(a[1][2], a[2][2])
         /\ StdOp("string_to_duration", a, how) = Outcome(DurationOf, ParseDuration(a[1][2], how.short))
         /\ StdOp("string_to_timestamp", a, how) = ParseTimestamp(a[1][2])
         /\ \A id \in DurationGetters  : StdOp(id, a, how) = Ok(IntOf(OfDuration(id, a[1][2])))
         /\ \A id \in TimestampGetters : StdOp(id, a, how) = Ok(IntOf(OfTimestamp(id, a[1][2])))
         /\ \A id \in {"optional_none", "optional_of", "optional_ofNonZeroValue", "optional_value", "optional_has_value",
                       "optional_or_optional", "optional_or_value"} : StdOp(id, a, how) = OptionalOp(id, a, how)
  BY DEF StdOp, Noops, Sizings, ToStrings, ToDoubles, ToInts, ToUints, DurationGetters, TimestampGetters

LEMMA OptionalOps ==
  ASSUME NEW a, NEW how
  PROVE  /\ OptionalOp("optional_none", a, how) = Ok(OptNone)
         /\ OptionalOp("optional_of", a, how) = OfValue(a[1], how)
         /\ OptionalOp("optional_ofNonZeroValue", a, how) = IF ZeroVal(a[1]) THEN Ok(OptNone) ELSE OfValue(a[1], how)
         /\ OptionalOp("optional_value", a, how) =
              IF ~IsOptional(a[1]) THEN Panic
              ELSE IF a[1] = OptNone THEN FunctionError ELSE Ok(Clone(a[1][2][1]))
         /\ OptionalOp("optional_has_value", a, how) =
              IF ~IsOptional(a[1]) THEN UnexpectedType ELSE Ok(BoolVal(a[1] # OptNone))
         /\ OptionalOp("optional_or_optional", a, how) =
              IF ~IsOptional(a[1]) THEN Panic ELSE Ok(IF a[1] # OptNone THEN a[1] ELSE a[2])
         /\ OptionalOp("optional_or_value", a, how) =
              IF ~IsOptional(a[1]) THEN Panic ELSE Ok(IF a[1] # OptNone THEN Clone(a[1][2][1]) ELSE a[2])
  BY DEF OptionalOp, Unchecking, IsOptional

Left(r)  == Operands(r)[1]
Right(r) == Operands(r)[2]
OfOneOf(r, types) == Len(Operands(r)) = 1 /\ TypeOf(Left(r)) \in types
OfTexts(r) == Len(Operands(r)) = 2 /\ TypeOf(Left(r)) = "string" /\ TypeOf(Right(r)) = "string"

SizeCall(r) ==
  /\ r.name = "size" /\ OfOneOf(r, {"bytes", "list", "map", "string"})
  /\ Dispatched(r) = Ok(IntOf(SizeOf(Left(r))))

BytesCall(r) ==
  /\ r.name = "bytes" /\ r.target = <<>>
  /\ \/ OfOneOf(r, {"string"}) /\ Dispatched(r) = Ok(BytesOf(Left(r)[2]))
     \/ OfOneOf(r, {"bytes"}) /\ Dispatched(r) = Ok(Left(r))

NumberCall(r) ==
  /\ OfOneOf(r, {"double", "int", "uint", "string"}) /\ r.target = <<>>
  /\ \/ r.name = "double" /\ Dispatched(r) = Double(Left(r))
     \/ r.name = "int" /\ Dispatched(r) = IntOp(Left(r))
     \/ r.name = "uint" /\ Dispatched(r) = UintOp(Left(r))

StringCall(r) ==
  /\ r.name = "string" /\ r.target = <<>>
  /\ OfOneOf(r, {"string", "int", "uint", "double", "bytes", "timestamp", "duration"})
  /\ Dispatched(r) = String(Left(r), r.how)

TextCall(r) ==
  /\ OfTexts(r) /\ r.target # <<>>
  /\ \/ r.name = "contains" /\ Dispatched(r) = Ok(BoolVal(OccursIn(Right(r)[2], Left(r)[2])))
     \/ r.name = "startsWith" /\ Dispatched(r) = Ok(BoolVal(IsPrefix(Right(r)[2], Left(r)[2])))
     \/ r.name = "endsWith" /\ Dispatched(r) = Ok(BoolVal(IsSuffix(Right(r)[2], Left(r)[2])))
     \/ r.name = "matches" /\ Dispatched(r) = Matching(Left(r)[2], Right(r)[2])

TimeCall(r) ==
  /\ r.target = <<>>
  /\ \/ r.name = "duration" /\ OfOneOf(r, {"string"}) /\ Dispatched(r) = Outcome(DurationOf, ParseDuration(Left(r)[2], r.how.short))
     \/ r.name = "timestamp" /\ OfOneOf(r, {"string"}) /\ Dispatched(r) = ParseTimestamp(Left(r)[2])
     \/ r.name \in {"duration", "timestamp"} /\ OfOneOf(r, {r.name}) /\ Dispatched(r) = Ok(Left(r))

Clocks == [name \in {"getHours", "getMinutes", "getSeconds", "getMilliseconds"} |->
             CASE name = "getHours"   -> "duration_to_hours"
               [] name = "getMinutes" -> "duration_to_minutes"
               [] name = "getSeconds" -> "duration_to_seconds"
               [] name = "getMilliseconds" -> "duration_to_millis"]

GetterCall(r) ==
  /\ r.target # <<>>
  /\ \/ /\ r.name \in DOMAIN Clocks /\ OfOneOf(r, {"duration"})
        /\ Dispatched(r) = Ok(IntOf(OfDuration(Clocks[r.name], Left(r)[2])))
     \/ /\ r.name \in DOMAIN Clocks \cup {"getFullYear", "getMonth", "getDayOfYear", "getDayOfMonth", "getDayOfWeek"}
        /\ OfOneOf(r, {"timestamp"})
        /\ \E id \in TimestampGetters : Dispatched(r) = Ok(IntOf(OfTimestamp(id, Left(r)[2])))
     \/ r.name = "getDate" /\ OfOneOf(r, {"timestamp"}) /\ Dispatched(r) = Ok(IntOf(Day0(Left(r)[2]) + 1))

\* optional.none and the others that make an optional, and the methods of optionals.
MakerCall(r) ==
  /\ r.target = <<>>
  /\ \/ r.name = "optional.none" /\ Len(Operands(r)) = 0 /\ Dispatched(r) = Ok(OptNone)
     \/ r.name = "optional.of" /\ Len(Operands(r)) = 1 /\ Dispatched(r) = OfValue(Left(r), r.how)
     \/ /\ r.name = "optional.ofNonZeroValue" /\ Len(Operands(r)) = 1
        /\ Dispatched(r) = IF ZeroVal(Left(r)) THEN Ok(OptNone) ELSE OfValue(Left(r), r.how)

OptionalCall(r) ==
  /\ r.target # <<>>
  /\ \/ /\ r.name = "value" /\ Len(Operands(r)) = 1
        /\ Dispatched(r) = IF ~IsOptional(Left(r)) THEN Panic
                           ELSE IF Left(r) = OptNone THEN FunctionError ELSE Ok(Clone(Left(r)[2][1]))
     \/ /\ r.name = "hasValue" /\ Len(Operands(r)) = 1
        /\ Dispatched(r) = IF ~IsOptional(Left(r)) THEN UnexpectedType ELSE Ok(BoolVal(Left(r) # OptNone))
     \/ /\ r.name = "or" /\ Len(Operands(r)) = 2
        /\ Dispatched(r) = IF ~IsOptional(Left(r)) THEN Panic ELSE Ok(IF Left(r) # OptNone THEN Left(r) ELSE Right(r))
     \/ /\ r.name = "orValue" /\ Len(Operands(r)) = 2
        /\ Dispatched(r) = IF ~IsOptional(Left(r)) THEN Panic
                           ELSE Ok(IF Left(r) # OptNone THEN Clone(Left(r)[2][1]) ELSE Right(r))

\* What the rows of each part of the library answer.
LEMMA BytesAnswers ==
  ASSUME NEW r, NEW row \in RowsIn(BytesLib), AnsweredBy(r, row)
  PROVE  SizeCall(r) \/ BytesCall(r)
  <1>1. row \in {Global("bytes", "string_to_bytes", <<"string">>), Global("bytes", "bytes_to_bytes", <<"bytes">>),
                 Global("size", "size_bytes", <<"bytes">>), Member("size", "bytes_size", "bytes", <<>>)}
    <2> HIDE DEF Global, Member
    <2> QED BY DEF RowsIn, BytesLib
  <1>2. ASSUME AnsweredBy(r, Global("bytes", "string_to_bytes", <<"string">>)) PROVE BytesCall(r)
    BY <1>2, AnsweredGlobals, StdOps DEF BytesCall, OfOneOf, Left
  <1>3. ASSUME AnsweredBy(r, Global("bytes", "bytes_to_bytes", <<"bytes">>)) PROVE BytesCall(r)
    BY <1>3, AnsweredGlobals, StdOps DEF BytesCall, OfOneOf, Left, Noops
  <1>4. ASSUME AnsweredBy(r, Global("size", "size_bytes", <<"bytes">>)) PROVE SizeCall(r)
    BY <1>4, AnsweredGlobals, StdOps DEF SizeCall, OfOneOf, Left, Sizings
  <1>5. ASSUME AnsweredBy(r, Member("size", "bytes_size", "bytes", <<>>)) PROVE SizeCall(r)
    BY <1>5, AnsweredMembers, StdOps DEF SizeCall, OfOneOf, Left, Sizings
  <1> QED BY <1>1, <1>2, <1>3, <1>4, <1>5

LEMMA DoubleAnswers ==
  ASSUME NEW r, NEW row \in RowsIn(DoubleLib), AnsweredBy(r, row)
  PROVE  NumberCall(r)
  <1>1. row \in {Global("double", "double_to_double", <<"double">>),
                 Global("double", "int64_to_double", <<"int">>),
                 Global("double", "uint64_to_double", <<"uint">>),
                 Global("double", "string_to_double", <<"string">>)}
    <2> HIDE DEF Global, Member
    <2> QED BY DEF RowsIn, DoubleLib
  <1>2. ASSUME NEW id \in ToDoubles, NEW t \in {"double", "int", "uint", "string"},
               AnsweredBy(r, Global("double", id, <<t>>)) PROVE NumberCall(r)
    <2>1. /\ r.name = "double" /\ r.target = <<>> /\ Len(Operands(r)) = 1
          /\ Dispatched(r) = StdOp(id, Operands(r), r.how) /\ t \in {"dyn", "optional", TypeOf(Left(r))}
      BY <1>2, AnsweredGlobals DEF Left
    <2>2. Dispatched(r) = Double(Left(r))
      BY <2>1, StdOps DEF Left
    <2> QED BY <1>2, <2>1, <2>2 DEF NumberCall, OfOneOf
  <1> QED BY <1>1, <1>2 DEF ToDoubles

LEMMA IntAnswers ==
  ASSUME NEW r, NEW row \in RowsIn(IntLib), AnsweredBy(r, row)
  PROVE  NumberCall(r)
  <1>1. row \in {Global("int", "int64_to_int64", <<"int">>), Global("int", "uint64_to_int64", <<"uint">>),
                 Global("int", "double_to_int64", <<"double">>),
                 Global("int", "string_to_int64", <<"string">>)}
    <2> HIDE DEF Global, Member
    <2> QED BY DEF RowsIn, IntLib
  <1>2. ASSUME NEW id \in ToInts, NEW t \in {"double", "int", "uint", "string"},
               AnsweredBy(r, Global("int", id, <<t>>)) PROVE NumberCall(r)
    <2>1. /\ r.name = "int" /\ r.target = <<>> /\ Len(Operands(r)) = 1
          /\ Dispatched(r) = StdOp(id, Operands(r), r.how) /\ t \in {"dyn", "optional", TypeOf(Left(r))}
      BY <1>2, AnsweredGlobals DEF Left
    <2>2. Dispatched(r) = IntOp(Left(r))
      BY <2>1, StdOps DEF Left
    <2> QED BY <1>2, <2>1, <2>2 DEF NumberCall, OfOneOf
  <1> QED BY <1>1, <1>2 DEF ToInts

LEMMA UIntAnswers ==
  ASSUME NEW r, NEW row \in RowsIn(UIntLib), AnsweredBy(r, row)
  PROVE  NumberCall(r)
  <1>1. row \in {Global("uint", "uint64_to_uint64", <<"uint">>),
                 Global("uint", "int64_to_uint64", <<"int">>),
                 Global("uint", "double_to_uint64", <<"double">>),
                 Global("uint", "string_to_uint64", <<"string">>)}
    <2> HIDE DEF Global, Member
    <2> QED BY DEF RowsIn, UIntLib
  <1>2. ASSUME NEW id \in ToUints, NEW t \in {"double", "int", "uint", "string"},
               AnsweredBy(r, Global("uint", id, <<t>>)) PROVE NumberCall(r)
    <2>1. /\ r.name = "uint" /\ r.target = <<>> /\ Len(Operands(r)) = 1
          /\ Dispatched(r) = StdOp(id, Operands(r), r.how) /\ t \in {"dyn", "optional", TypeOf(Left(r))}
      BY <1>2, AnsweredGlobals DEF Left
    <2>2. Dispatched(r) = UintOp(Left(r))
      BY <2>1, StdOps DEF Left
    <2> QED BY <1>2, <2>1, <2>2 DEF NumberCall, OfOneOf
  <1> QED BY <1>1, <1>2 DEF ToUints

LEMMA ListAnswers ==
  ASSUME NEW r, NEW row \in RowsIn(ListLib), AnsweredBy(r, row)
  PROVE  SizeCall(r)
  <1>1. row \in {Global("size", "size_list", <<"list">>), Member("size", "list_size", "list", <<>>)}
    <2> HIDE DEF Global, Member
    <2> QED BY DEF RowsIn, ListLib
  <1>2. ASSUME AnsweredBy(r, Global("size", "size_list", <<"list">>)) PROVE SizeCall(r)
    BY <1>2, AnsweredGlobals, StdOps DEF SizeCall, OfOneOf, Left, Sizings
  <1>3. ASSUME AnsweredBy(r, Member("size", "list_size", "list", <<>>)) PROVE SizeCall(r)
    BY <1>3, AnsweredMembers, StdOps DEF SizeCall, OfOneOf, Left, Sizings
  <1> QED BY <1>1, <1>2, <1>3

LEMMA MapAnswers ==
  ASSUME NEW r, NEW row \in RowsIn(MapLib), AnsweredBy(r, row)
  PROVE  SizeCall(r)
  <1>1. row \in {Global("size", "size_map", <<"map">>), Member("size", "map_size", "map", <<>>)}
    <2> HIDE DEF Global, Member
    <2> QED BY DEF RowsIn, MapLib
  <1>2. ASSUME AnsweredBy(r, Global("size", "size_map", <<"map">>)) PROVE SizeCall(r)
    BY <1>2, AnsweredGlobals, StdOps DEF SizeCall, OfOneOf, Left, Sizings
  <1>3. ASSUME AnsweredBy(r, Member("size", "map_size", "map", <<>>)) PROVE SizeCall(r)
    BY <1>3, AnsweredMembers, StdOps DEF SizeCall, OfOneOf, Left, Sizings
  <1> QED BY <1>1, <1>2, <1>3

LEMMA OptionalAnswers ==
  ASSUME NEW r, NEW row \in RowsIn(OptionalLib), AnsweredBy(r, row)
  PROVE  MakerCall(r) \/ OptionalCall(r)
  <1>1. row \in {Global("optional.none", "optional_none", <<>>),
                 Global("optional.of", "optional_of", <<"dyn">>),
                 Global("optional.ofNonZeroValue", "optional_ofNonZeroValue", <<"dyn">>),
                 Member("value", "optional_value", "optional", <<>>),
                 Member("hasValue", "optional_has_value", "optional", <<>>),
                 Member("or", "optional_or_optional", "optional", <<"optional">>),
                 Member("orValue", "optional_or_value", "optional", <<"dyn">>)}
    <2> HIDE DEF Global, Member
    <2> QED BY DEF RowsIn, OptionalLib
  <1>2. ASSUME AnsweredBy(r, Global("optional.none", "optional_none", <<>>)) PROVE MakerCall(r)
    BY <1>2, AnsweredGlobals, StdOps, OptionalOps DEF MakerCall, Left, Right
  <1>3. ASSUME AnsweredBy(r, Global("optional.of", "optional_of", <<"dyn">>)) PROVE MakerCall(r)
    BY <1>3, AnsweredGlobals, StdOps, OptionalOps DEF MakerCall, Left, Right
  <1>4. ASSUME AnsweredBy(r, Global("optional.ofNonZeroValue", "optional_ofNonZeroValue", <<"dyn">>)) PROVE MakerCall(r)
    BY <1>4, AnsweredGlobals, StdOps, OptionalOps DEF MakerCall, Left, Right
  <1>5. ASSUME AnsweredBy(r, Member("value", "optional_value", "optional", <<>>)) PROVE OptionalCall(r)
    BY <1>5, AnsweredMembers, StdOps, OptionalOps DEF OptionalCall, Left, Right
  <1>6. ASSUME AnsweredBy(r, Member("hasValue", "optional_has_value", "optional", <<>>)) PROVE OptionalCall(r)
    BY <1>6, AnsweredMembers, StdOps, OptionalOps DEF OptionalCall, Left, Right
  <1>7. ASSUME AnsweredBy(r, Member("or", "optional_or_optional", "optional", <<"optional">>)) PROVE OptionalCall(r)
    BY <1>7, AnsweredMembers, StdOps, OptionalOps DEF OptionalCall, Left, Right
  <1>8. ASSUME AnsweredBy(r, Member("orValue", "optional_or_value", "optional", <<"dyn">>)) PROVE OptionalCall(r)
    BY <1>8, AnsweredMembers, StdOps, OptionalOps DEF OptionalCall, Left, Right
  <1> QED BY <1>1, <1>2, <1>3, <1>4, <1>5, <1>6, <1>7, <1>8

LEMMA StringAnswers ==
  ASSUME NEW r, NEW row \in RowsIn(StringLib), AnsweredBy(r, row)
  PROVE  StringCall(r) \/ TextCall(r) \/ SizeCall(r)
  <1>1. row \in {Global("string", "string_to_string", <<"string">>),
                 Global("string", "int64_to_string", <<"int">>),
                 Global("string", "uint64_to_string", <<"uint">>),
                 Global("string", "double_to_string", <<"double">>),
                 Global("string", "bytes_to_string", <<"bytes">>),
                 Global("string", "timestamp_to_string", <<"timestamp">>),
                 Global("string", "duration_to_string", <<"duration">>),
                 Member("contains", "contains_string", "string", <<"string">>),
                 Member("endsWith", "ends_with_string", "string", <<"string">>),
                 Global("size", "size_string", <<"string">>), Member("size", "string_size", "string", <<>>),
                 Member("startsWith", "starts_with_string", "string", <<"string">>),
                 Member("matches", "matches", "string", <<"string">>)}
    <2> HIDE DEF Global, Member
    <2> QED BY DEF RowsIn, StringLib
  <1>2. ASSUME NEW id \in ToStrings,
               NEW t \in {"string", "int", "uint", "double", "bytes", "timestamp", "duration"},
               AnsweredBy(r, Global("string", id, <<t>>)) PROVE StringCall(r)
    <2>1. /\ r.name = "string" /\ r.target = <<>> /\ Len(Operands(r)) = 1
          /\ Dispatched(r) = StdOp(id, Operands(r), r.how) /\ t \in {"dyn", "optional", TypeOf(Left(r))}
      BY <1>2, AnsweredGlobals DEF Left
    <2>2. Dispatched(r) = String(Left(r), r.how)
      BY <2>1, StdOps DEF Left
    <2> QED BY <1>2, <2>1, <2>2 DEF StringCall, OfOneOf
  <1>3. ASSUME AnsweredBy(r, Global("size", "size_string", <<"string">>)) PROVE SizeCall(r)
    BY <1>3, AnsweredGlobals, StdOps DEF SizeCall, OfOneOf, Left, Sizings
  <1>4. ASSUME AnsweredBy(r, Member("size", "string_size", "string", <<>>)) PROVE SizeCall(r)
    BY <1>4, AnsweredMembers, StdOps DEF SizeCall, OfOneOf, Left, Sizings
  <1>5. ASSUME AnsweredBy(r, Member("contains", "contains_string", "string", <<"string">>)) PROVE TextCall(r)
    BY <1>5, AnsweredMembers, StdOps DEF TextCall, OfTexts, Left, Right
  <1>6. ASSUME AnsweredBy(r, Member("endsWith", "ends_with_string", "string", <<"string">>)) PROVE TextCall(r)
    BY <1>6, AnsweredMembers, StdOps DEF TextCall, OfTexts, Left, Right
  <1>7. ASSUME AnsweredBy(r, Member("startsWith", "starts_with_string", "string", <<"string">>)) PROVE TextCall(r)
    BY <1>7, AnsweredMembers, StdOps DEF TextCall, OfTexts, Left, Right
  <1>8. ASSUME AnsweredBy(r, Member("matches", "matches", "string", <<"string">>)) PROVE TextCall(r)
    BY <1>8, AnsweredMembers, StdOps DEF TextCall, OfTexts, Left, Right
  <1> QED BY <1>1, <1>2, <1>3, <1>4, <1>5, <1>6, <1>7, <1>8 DEF ToStrings

LEMMA DurationAnswers ==
  ASSUME NEW r, NEW row \in RowsIn(DurationLib), AnsweredBy(r, row)
  PROVE  TimeCall(r) \/ GetterCall(r)
  <1>1. row \in {Global("duration", "string_to_duration", <<"string">>),
                 Global("duration", "duration_to_duration", <<"duration">>),
                 Member("getHours", "duration_to_hours", "duration", <<>>),
                 Member("getMinutes", "duration_to_minutes", "duration", <<>>),
                 Member("getSeconds", "duration_to_seconds", "duration", <<>>),
                 Member("getMilliseconds", "duration_to_millis", "duration", <<>>)}
    <2> HIDE DEF Global, Member
    <2> QED BY DEF RowsIn, DurationLib
  <1>2. ASSUME AnsweredBy(r, Global("duration", "string_to_duration", <<"string">>)) PROVE TimeCall(r)
    BY <1>2, AnsweredGlobals, StdOps DEF TimeCall, OfOneOf, Left, Noops
  <1>3. ASSUME AnsweredBy(r, Global("duration", "duration_to_duration", <<"duration">>)) PROVE TimeCall(r)
    BY <1>3, AnsweredGlobals, StdOps DEF TimeCall, OfOneOf, Left, Noops
  <1>4. ASSUME AnsweredBy(r, Member("getHours", "duration_to_hours", "duration", <<>>)) PROVE GetterCall(r)
    BY <1>4, AnsweredMembers, StdOps DEF GetterCall, OfOneOf, Left, Clocks, DurationGetters
  <1>5. ASSUME AnsweredBy(r, Member("getMinutes", "duration_to_minutes", "duration", <<>>)) PROVE GetterCall(r)
    BY <1>5, AnsweredMembers, StdOps DEF GetterCall, OfOneOf, Left, Clocks, DurationGetters
  <1>6. ASSUME AnsweredBy(r, Member("getSeconds", "duration_to_seconds", "duration", <<>>)) PROVE GetterCall(r)
    BY <1>6, AnsweredMembers, StdOps DEF GetterCall, OfOneOf, Left, Clocks, DurationGetters
  <1>7. ASSUME AnsweredBy(r, Member("getMilliseconds", "duration_to_millis", "duration", <<>>)) PROVE GetterCall(r)
    BY <1>7, AnsweredMembers, StdOps DEF GetterCall, OfOneOf, Left, Clocks, DurationGetters
  <1> QED BY <1>1, <1>2, <1>3, <1>4, <1>5, <1>6, <1>7

LEMMA TimestampAnswers ==
  ASSUME NEW r, NEW row \in RowsIn(TimestampLib), AnsweredBy(r, row)
  PROVE  TimeCall(r) \/ GetterCall(r)
  <1>1. row \in {Global("timestamp", "string_to_timestamp", <<"string">>),
                 Global("timestamp", "timestamp_to_timestamp", <<"timestamp">>),
                 Member("getFullYear", "timestamp_to_year", "timestamp", <<>>),
                 Member("getMonth", "timestamp_to_month", "timestamp", <<>>),
                 Member("getDayOfYear", "timestamp_to_day_of_year", "timestamp", <<>>),
                 Member("getDayOfMonth", "timestamp_to_day_of_month", "timestamp", <<>>),
                 Member("getDate", "timestamp_to_day_of_month_1_based", "timestamp", <<>>),
                 Member("getDayOfWeek", "timestamp_to_day_of_week", "timestamp", <<>>),
                 Member("getHours", "timestamp_to_hours", "timestamp", <<>>),
                 Member("getMinutes", "timestamp_to_minutes", "timestamp", <<>>),
                 Member("getSeconds", "timestamp_to_seconds", "timestamp", <<>>),
                 Member("getMilliseconds", "timestamp_to_millis", "timestamp", <<>>)}
    <2> HIDE DEF Global, Member
    <2> QED BY DEF RowsIn, TimestampLib
  <1>2. ASSUME AnsweredBy(r, Global("timestamp", "string_to_timestamp", <<"string">>)) PROVE TimeCall(r)
    BY <1>2, AnsweredGlobals, StdOps DEF TimeCall, OfOneOf, Left, Noops
  <1>3. ASSUME AnsweredBy(r, Global("timestamp", "timestamp_to_timestamp", <<"timestamp">>)) PROVE TimeCall(r)
    BY <1>3, AnsweredGlobals, StdOps DEF TimeCall, OfOneOf, Left, Noops
  <1>4. ASSUME AnsweredBy(r, Member("getFullYear", "timestamp_to_year", "timestamp", <<>>)) PROVE GetterCall(r)
    BY <1>4, AnsweredMembers, StdOps DEF GetterCall, OfOneOf, Left, Clocks, TimestampGetters
  <1>5. ASSUME AnsweredBy(r, Member("getMonth", "timestamp_to_month", "timestamp", <<>>)) PROVE GetterCall(r)
    BY <1>5, AnsweredMembers, StdOps DEF GetterCall, OfOneOf, Left, Clocks, TimestampGetters
  <1>6. ASSUME AnsweredBy(r, Member("getDayOfYear", "timestamp_to_day_of_year", "timestamp", <<>>)) PROVE GetterCall(r)
    BY <1>6, AnsweredMembers, StdOps DEF GetterCall, OfOneOf, Left, Clocks, TimestampGetters
  <1>7. ASSUME AnsweredBy(r, Member("getDayOfMonth", "timestamp_to_day_of_month", "timestamp", <<>>)) PROVE GetterCall(r)
    BY <1>7, AnsweredMembers, StdOps DEF GetterCall, OfOneOf, Left, Clocks, TimestampGetters
  <1>8. ASSUME AnsweredBy(r, Member("getDate", "timestamp_to_day_of_month_1_based", "timestamp", <<>>)) PROVE GetterCall(r)
    BY <1>8, AnsweredMembers, StdOps DEF GetterCall, OfOneOf, Left, Clocks, TimestampGetters, OfTimestamp
  <1>9. ASSUME AnsweredBy(r, Member("getDayOfWeek", "timestamp_to_day_of_week", "timestamp", <<>>)) PROVE GetterCall(r)
    BY <1>9, AnsweredMembers, StdOps DEF GetterCall, OfOneOf, Left, Clocks, TimestampGetters
  <1>10. ASSUME AnsweredBy(r, Member("getHours", "timestamp_to_hours", "timestamp", <<>>)) PROVE GetterCall(r)
    BY <1>10, AnsweredMembers, StdOps DEF GetterCall, OfOneOf, Left, Clocks, TimestampGetters
  <1>11. ASSUME AnsweredBy(r, Member("getMinutes", "timestamp_to_minutes", "timestamp", <<>>)) PROVE GetterCall(r)
    BY <1>11, AnsweredMembers, StdOps DEF GetterCall, OfOneOf, Left, Clocks, TimestampGetters
  <1>12. ASSUME AnsweredBy(r, Member("getSeconds", "timestamp_to_seconds", "timestamp", <<>>)) PROVE GetterCall(r)
    BY <1>12, AnsweredMembers, StdOps DEF GetterCall, OfOneOf, Left, Clocks, TimestampGetters
  <1>13. ASSUME AnsweredBy(r, Member("getMilliseconds", "timestamp_to_millis", "timestamp", <<>>)) PROVE GetterCall(r)
    BY <1>13, AnsweredMembers, StdOps DEF GetterCall, OfOneOf, Left, Clocks, TimestampGetters
  <1> QED BY <1>1, <1>2, <1>3, <1>4, <1>5, <1>6, <1>7, <1>8, <1>9, <1>10, <1>11, <1>12, <1>13

\* What the library can answer.
CallOfData(r) == SizeCall(r) \/ BytesCall(r) \/ NumberCall(r) \/ StringCall(r) \/ TextCall(r)
CallOfTimesOrOptionals(r) == TimeCall(r) \/ GetterCall(r) \/ MakerCall(r) \/ OptionalCall(r)

LEMMA Answers ==
  ASSUME IsRegistered, Complete, NEW r \in Requests, Dispatched(r) # Undeclared
  PROVE  CallOfData(r) \/ CallOfTimesOrOptionals(r)
  <1>1. PICK row \in RowsIn(Library) : AnsweredBy(r, row)
    BY CallsAreAnswered
  <1>2. row \in RowsIn(BytesLib) \cup RowsIn(DoubleLib) \cup RowsIn(IntLib) \cup RowsIn(ListLib) \cup RowsIn(MapLib)
                  \cup RowsIn(OptionalLib) \cup RowsIn(StringLib) \cup RowsIn(UIntLib) \cup RowsIn(DurationLib)
                  \cup RowsIn(TimestampLib)
    BY LibraryRows
  <1> QED BY <1>1, <1>2, BytesAnswers, DoubleAnswers, IntAnswers, ListAnswers, MapAnswers, OptionalAnswers,
             StringAnswers, UIntAnswers, DurationAnswers, TimestampAnswers DEF CallOfData, CallOfTimesOrOptionals

-----------------------------------------------------------------------------
(* Panics. *)

\* What operands are, and the room they leave.
LEMMA RequestOperands ==
  ASSUME NEW r \in Requests
  PROVE  /\ r.how.checked \in BOOLEAN
         /\ \A i \in DOMAIN Operands(r) :
              LET v == Operands(r)[i] IN IsNested(v) /\ Ends(v, MaxNesting - 1) /\ IsOperand(v) /\ IsShaped(v)
         /\ \A i \in DOMAIN r.args : Ends(r.args[i], MaxNesting - 2)
         /\ LET v == ListOf(r.args) IN IsNested(v) /\ Ends(v, MaxNesting - 1) /\ IsOperand(v) /\ IsShaped(v)
  <1> DEFINE a == Operands(r)
             l == ListOf(r.args)
             L == ListOf(<<l>>)
             t == ListOf(r.target)
  <1>1. /\ r.how \in [lent : BOOLEAN, checked : BOOLEAN, short : BOOLEAN]
        /\ IsNested(t) /\ IsNested(L) /\ IsSequence(r.args) /\ IsSequence(r.target)
        /\ \A i \in DOMAIN a : IsOperand(a[i])
    BY RequestsAssumption
  <1>2. MaxNesting = 8 /\ MaxNesting - 1 = 7 /\ MaxNesting - 2 = 6 /\ 7 + 1 = 8 /\ 6 + 1 = 7
    BY DEF MaxNesting
  <1>3. DirectlyIn(L) = {l} /\ DirectlyIn(l) = {r.args[i] : i \in DOMAIN r.args}
        /\ DirectlyIn(t) = {r.target[i] : i \in DOMAIN r.target}
    <2>1. DOMAIN <<l>> = {1} /\ <<l>>[1] = l
      OBVIOUS
    <2>2. {<<l>>[k] : k \in DOMAIN <<l>>} = {l}
      BY <2>1
    <2> HIDE DEF l
    <2>3. DirectlyIn(L) = {l}
      BY <2>2, DirectlyInKinds
    <2> QED BY <2>3, DirectlyInKinds DEF l
  <1> HIDE DEF L, l, t
  <1>4. Ends(L, 8) /\ Ends(t, 8)
    BY <1>1, <1>2, Nested
  <1>5. ASSUME NEW v, Ends(v, 8) PROVE \A x \in DirectlyIn(v) : Ends(x, 7)
    <2>1. 7 \in Nat /\ 7 + 1 <= MaxNesting
      BY <1>2
    <2> QED BY <1>2, <1>5, <2>1, Nested
  <1>6. ASSUME NEW v, Ends(v, 7) PROVE IsNested(v) /\ \A x \in DirectlyIn(v) : Ends(x, 6)
    <2>1. 7 \in Nat /\ 7 + 1 <= MaxNesting /\ 6 \in Nat /\ 6 + 1 <= MaxNesting
      BY <1>2
    <2> QED BY <1>2, <1>6, <2>1, Nested
  <1>7. ASSUME NEW v, Ends(v, 6) PROVE Ends(v, 7)
    <2>1. 6 \in Nat /\ 6 + 1 <= MaxNesting
      BY <1>2
    <2> QED BY <1>2, <1>7, <2>1, Nested
  <1>8. Ends(l, 7) /\ IsNested(l) /\ \A i \in DOMAIN r.args : Ends(r.args[i], 6) /\ Ends(r.args[i], 7)
    BY <1>3, <1>4, <1>5, <1>6, <1>7
  <1>9. \A i \in DOMAIN r.target : Ends(r.target[i], 7)
    BY <1>3, <1>4, <1>5
  <1>10. \A i \in DOMAIN a : a[i] \in {r.args[j] : j \in DOMAIN r.args} \cup {r.target[j] : j \in DOMAIN r.target}
    <2> DEFINE S == {r.args[j] : j \in DOMAIN r.args} \cup {r.target[j] : j \in DOMAIN r.target}
    <2>1. r.target \in Seq({r.target[j] : j \in DOMAIN r.target}) /\ r.args \in Seq({r.args[j] : j \in DOMAIN r.args})
      BY <1>1 DEF IsSequence
    <2>2. r.target \in Seq(S) /\ r.args \in Seq(S)
      BY <2>1
    <2> HIDE DEF S
    <2>3. a \in Seq(S)
      BY <2>2, ConcatProperties DEF Operands
    <2> HIDE DEF a
    <2>4. \A i \in DOMAIN a : a[i] \in S
      BY <2>3
    <2> QED BY <2>4 DEF S
  <1>11. ASSUME NEW i \in DOMAIN a
         PROVE  IsNested(a[i]) /\ Ends(a[i], 7) /\ IsOperand(a[i]) /\ IsShaped(a[i])
    <2> DEFINE v == a[i]
    <2>1. Ends(v, 7) /\ IsOperand(v)
      BY <1>1, <1>8, <1>9, <1>10
    <2> HIDE DEF v
    <2>2. IsNested(v)
      BY <1>6, <2>1
    <2>3. IsShaped(v)
      BY <2>1, <2>2, OperandParts
    <2> QED BY <2>1, <2>2, <2>3 DEF v
  <1>12. IsShaped(l) /\ IsOperand(l)
    <2>1. IsShaped(l)
      BY <1>1 DEF IsShaped, l, ListOf, TypeOf, AnyType
    <2>2. \A x \in DirectlyIn(l) : IsOperand(x)
      <3>1. ASSUME NEW j \in DOMAIN r.args PROVE IsOperand(r.args[j])
        <4>1. PICK k \in DOMAIN a : a[k] = r.args[j]
          <5>1. j \in 1..Len(r.args) /\ Len(r.args) \in Nat /\ Len(a) = Len(r.target) + Len(r.args) /\ DOMAIN a = 1..Len(a)
            BY OperandShapes, RequestShapes
          <5>2. CASE r.target = <<>>
            BY <5>1, <5>2, OperandShapes
          <5>3. CASE r.target # <<>>
            <6>1. Len(r.target) = 1 /\ a[j + 1] = r.args[j]
              BY <5>1, <5>3, OperandShapes
            <6>2. j + 1 \in DOMAIN a
              BY <5>1, <6>1
            <6> QED BY <6>1, <6>2
          <5> QED BY <5>2, <5>3
        <4> QED BY <1>1, <4>1
      <3> QED BY <1>3, <3>1
    <2> QED BY <1>8, <2>1, <2>2, OperandParts
  <1>13. r.how.checked \in BOOLEAN
    BY <1>1
  <1> HIDE DEF a
  <1> QED BY <1>2, <1>8, <1>11, <1>12, <1>13 DEF l, a

\* The results of the parts: a value or an error that is no panic.
IsSound(result) == result = FunctionError \/ result = UnexpectedType \/ \E v : result = Ok(v)

LEMMA SoundResults ==
  /\ \A result : IsSound(result) => result # Panic
  /\ \A v : IsSound(Ok(v))
  /\ IsSound(FunctionError) /\ IsSound(UnexpectedType)
  BY DEF IsSound, FunctionError, UnexpectedType, Panic, Err, Ok

\* Reading a text gives a number or fails.
LEMMA ReadingsAreSound ==
  /\ \A text : ParseDouble(text) = FunctionError \/ \E x : ParseDouble(text) = Ok(x)
  /\ \A text, low, high : ParseWhole(text, low, high) = FunctionError \/ \E x : ParseWhole(text, low, high) = Ok(x)
  /\ \A text, short : ParseDuration(text, short) = FunctionError \/ \E x : ParseDuration(text, short) = Ok(x)
  /\ \A text : IsSound(ParseTimestamp(text))
  /\ \A text, pattern : IsSound(Matching(text, pattern))
  <1>1. \A text : ParseDouble(text) = FunctionError \/ \E x : ParseDouble(text) = Ok(x)
    BY DEF ParseDouble
  <1>2. \A text, low, high : ParseWhole(text, low, high) = FunctionError \/ \E x : ParseWhole(text, low, high) = Ok(x)
    BY DEF ParseWhole
  <1>3. \A text, short : ParseDuration(text, short) = FunctionError \/ \E x : ParseDuration(text, short) = Ok(x)
    BY DEF ParseDuration, FunctionError
  <1>4. \A text : IsSound(ParseTimestamp(text))
    BY DEF ParseTimestamp, IsSound
  <1>5. \A text, pattern : IsSound(Matching(text, pattern))
    BY DEF Matching, IsSound
  <1> QED BY <1>1, <1>2, <1>3, <1>4, <1>5

LEMMA NumbersAreSound ==
  ASSUME NEW v, TypeOf(v) \in {"double", "int", "uint", "string"}
  PROVE  IsSound(Double(v)) /\ IsSound(IntOp(v)) /\ IsSound(UintOp(v))
  <1>1. Failed(FunctionError) /\ \A x : ~Failed(Ok(x))
    BY ResultShapes DEF FunctionError
  <1>2. IsSound(Double(v))
    <2>1. IsSound(Outcome(DoubleOf, ParseDouble(v[2])))
      BY <1>1, ReadingsAreSound, SoundResults DEF Outcome
    <2> QED BY <2>1, SoundResults DEF Double
  <1>3. \A low, high : /\ IsSound(Outcome(IntOf, ParseWhole(v[2], low, high)))
                       /\ IsSound(Outcome(UintOf, ParseWhole(v[2], low, high)))
    BY <1>1, ReadingsAreSound, SoundResults DEF Outcome
  <1>4. IsSound(IntOp(v))
    BY <1>3, SoundResults DEF IntOp
  <1>5. IsSound(UintOp(v))
    BY <1>3, SoundResults DEF UintOp
  <1> QED BY <1>2, <1>4, <1>5

\* The text of a value is one, but for the durations for which there is none.
LEMMA TextsPanic ==
  ASSUME NEW v, IsShaped(v), NEW how, how.checked \in BOOLEAN,
         TypeOf(v) \in {"string", "int", "uint", "double", "bytes", "timestamp", "duration"}
  PROVE  /\ IsSound(String(v, how)) \/ String(v, how) = Panic
         /\ String(v, how) = Panic <=>
              /\ TypeOf(v) = "duration" /\ how.checked /\ ~HasNanos(v[2])
              /\ v[2] < 0 \/ v[2] - Remainder(v[2], Second) >= U64
  <1>1. CASE TypeOf(v) = "duration"
    <2>1. v[2] \in Lengths
      BY <1>1 DEF IsShaped
    <2>2. String(v, how) = Outcome(StrOf, FormatDuration(v[2], how.checked))
      BY <1>1 DEF String
    <2>3. FormatDuration(v[2], how.checked) = Panic \/ \E x : FormatDuration(v[2], how.checked) = Ok(x)
      BY DEF FormatDuration, Panic
    <2>4. Failed(Panic) /\ \A x : ~Failed(Ok(x)) /\ Ok(x) # Panic
      BY ResultShapes DEF Panic, Ok, Err
    <2>5. String(v, how) = Panic <=> FormatDuration(v[2], how.checked) = Panic
      BY <2>2, <2>3, <2>4 DEF Outcome
    <2>6. IsSound(String(v, how)) \/ String(v, how) = Panic
      BY <2>2, <2>3, <2>4, SoundResults DEF Outcome
    <2> QED BY <1>1, <2>1, <2>5, <2>6, FormatPanics
  <1>2. CASE TypeOf(v) # "duration"
    <2>1. \E s : String(v, how) = Ok(s)
      BY <1>2 DEF String
    <2> QED BY <1>2, <2>1, SoundResults
  <1> QED BY <1>1, <1>2

\* The answers to calls of functions that panic.
LEMMA CallPanics ==
  ASSUME NEW r \in Requests, CallOfData(r) \/ CallOfTimesOrOptionals(r)
  PROVE  Dispatched(r) = Panic <=> UnaskedOptional(r) \/ TooLongToFormat(r)
  <1>1. /\ Panic # FunctionError /\ Panic # UnexpectedType /\ \A v : Ok(v) # Panic
    BY DEF Panic, FunctionError, UnexpectedType, Err, Ok
  <1>2. Len(Operands(r)) \in {1, 2} => IsShaped(Left(r)) /\ r.how.checked \in BOOLEAN
    <2>1. Len(Operands(r)) \in {1, 2} => 1 \in DOMAIN Operands(r)
      BY OperandShapes
    <2> QED BY <2>1, RequestOperands DEF Left
  <1>3. r.target # <<>> => Left(r) = r.target[1]
    BY OperandShapes DEF Left
  <1>4. TooLongToFormat(r) => r.name = "string" /\ TypeOf(Left(r)) = "duration"
    BY DEF TooLongToFormat, Left
  <1>5. UnaskedOptional(r) <=> r.name \in {"value", "or", "orValue"} /\ ~IsOptional(r.target[1])
    BY DEF UnaskedOptional
  <1>6. CASE SizeCall(r) \/ BytesCall(r)
    <2>1. Dispatched(r) # Panic /\ r.name \in {"size", "bytes"}
      BY <1>1, <1>6 DEF SizeCall, BytesCall
    <2> QED BY <1>4, <1>5, <2>1
  <1>7. CASE NumberCall(r)
    <2>1. IsSound(Dispatched(r)) /\ r.name \in {"double", "int", "uint"}
      BY <1>7, NumbersAreSound DEF NumberCall, OfOneOf
    <2> QED BY <1>4, <1>5, <2>1, SoundResults
  <1>8. CASE StringCall(r)
    <2>1. /\ r.name = "string" /\ Dispatched(r) = String(Left(r), r.how) /\ Len(Operands(r)) = 1
          /\ TypeOf(Left(r)) \in {"string", "int", "uint", "double", "bytes", "timestamp", "duration"}
      BY <1>8 DEF StringCall, OfOneOf
    <2>2. Dispatched(r) = Panic <=> TooLongToFormat(r)
      BY <1>2, <2>1, TextsPanic DEF TooLongToFormat, Left
    <2> QED BY <1>5, <2>1, <2>2
  <1>9. CASE TextCall(r)
    <2>1. IsSound(Dispatched(r)) /\ r.name \in {"contains", "startsWith", "endsWith", "matches"}
      BY <1>9, SoundResults, ReadingsAreSound DEF TextCall
    <2> QED BY <1>4, <1>5, <2>1, SoundResults
  <1>10. CASE TimeCall(r)
    <2>1. Failed(FunctionError) /\ \A x : ~Failed(Ok(x))
      BY ResultShapes DEF FunctionError
    <2>2. \A text, short : IsSound(Outcome(DurationOf, ParseDuration(text, short)))
      BY <2>1, ReadingsAreSound, SoundResults DEF Outcome
    <2>3. IsSound(Dispatched(r)) /\ r.name \in {"duration", "timestamp"}
      BY <1>10, <2>2, SoundResults, ReadingsAreSound DEF TimeCall
    <2> QED BY <1>4, <1>5, <2>3, SoundResults
  <1>11. CASE GetterCall(r)
    <2>1. /\ \E v : Dispatched(r) = Ok(v)
          /\ r.name \in {"getHours", "getMinutes", "getSeconds", "getMilliseconds", "getFullYear", "getMonth",
                         "getDayOfYear", "getDayOfMonth", "getDayOfWeek", "getDate"}
      BY <1>11 DEF GetterCall, Clocks
    <2> QED BY <1>1, <1>4, <1>5, <2>1
  <1>12. CASE MakerCall(r)
    <2>1. /\ \E v : Dispatched(r) = Ok(v)
          /\ r.name \in {"optional.none", "optional.of", "optional.ofNonZeroValue"}
      BY <1>12 DEF MakerCall, OfValue
    <2> QED BY <1>1, <1>4, <1>5, <2>1
  <1>13. CASE OptionalCall(r)
    <2>1. r.name \in {"value", "hasValue", "or", "orValue"} /\ r.target # <<>>
      BY <1>13 DEF OptionalCall
    <2>2. Dispatched(r) = Panic <=> r.name # "hasValue" /\ ~IsOptional(Left(r))
      BY <1>1, <1>13 DEF OptionalCall
    <2> QED BY <1>3, <1>4, <1>5, <2>1, <2>2
  <1> QED BY <1>6, <1>7, <1>8, <1>9, <1>10, <1>11, <1>12, <1>13 DEF CallOfData, CallOfTimesOrOptionals

\* The answers of operators that panic.
LEMMA ComputedPanics ==
  ASSUME NEW op \in Arithmetic, NEW v, NEW w, NEW result \in Computed(op, v, w)
  PROVE  result = Panic <=> /\ op \in {"add", "sub"} /\ TypeOf(v) = "timestamp" /\ TypeOf(w) = "duration"
                            /\ v[2] + Signed(op, w[2]) \notin ChronoTimes
  <1>1. /\ Panic # Overflow /\ Panic # Err(NoSuchOverload) /\ Panic # Unsupported
        /\ \A x : Ok(x) # Panic
    BY DEF Panic, Overflow, Unsupported, NoSuchOverload, Err, Ok
  <1>2. \A range : Integers(op, v, w, range) # Panic
    <2>1. op \in DOMAIN ByZero => ByZero[op] # Panic
      BY DEF ByZero, Panic, Err
    <2> HIDE DEF ByZero
    <2> QED BY <1>1, <2>1 DEF Integers
  <1>3. CASE TypeOf(v) = "timestamp" /\ TypeOf(w) = "duration" /\ op \in {"add", "sub"}
    <2>1. result = TimestampMoved(op, v, w)
      BY <1>3 DEF Computed, OfOne
    <2> QED BY <1>1, <1>3, <2>1 DEF TimestampMoved
  <1>4. CASE ~(TypeOf(v) = "timestamp" /\ TypeOf(w) = "duration" /\ op \in {"add", "sub"})
    <2>1. \A x \in ListSums(v, w) : x # Panic
      BY <1>1 DEF ListSums
    <2>2. DurationSum(op, v, w) # Panic /\ Doubles(op, v, w) # Panic /\ Refused(v) # Panic
      BY <1>1 DEF DurationSum, Doubles, Refused
    <2>3. \/ \E range : result = Integers(op, v, w, range)
          \/ result \in ListSums(v, w)
          \/ result \in {DurationSum(op, v, w), Doubles(op, v, w), Refused(v), Err(NoSuchOverload)}
          \/ \E x : result = Ok(x)
      BY <1>4 DEF Computed
    <2> QED BY <1>1, <1>2, <1>4, <2>1, <2>2, <2>3
  <1> QED BY <1>3, <1>4

LEMMA OthersPanic ==
  ASSUME NEW v, IsShaped(v), NEW w, NEW checked \in BOOLEAN
  PROVE  /\ Compare(v, w) # Panic
         /\ Negated(v, checked) = Panic <=> v = IntOf(-IntMax - 1) /\ checked
  <1>1. /\ Panic # Err(NoSuchOverload) /\ \A x : Ok(x) # Panic
    BY DEF Panic, NoSuchOverload, Err, Ok
  <1>2. Compare(v, w) # Panic
    BY <1>1 DEF Compare, OrderOfNumbers, OrderOfDoubles
  <1>3. v = IntOf(-IntMax - 1) <=> TypeOf(v) = "int" /\ v[2] = -IntMax - 1
    BY DEF IsShaped, TypeOf, IntOf
  <1>4. Negated(v, checked) = Panic <=> v = IntOf(-IntMax - 1) /\ checked
    BY <1>1, <1>3 DEF Negated
  <1> QED BY <1>2, <1>4

-----------------------------------------------------------------------------
(* What a host's function answers. *)

\* max and min go through their items.
BestStep(input, i, acc) == Better(input[1], acc, input[2][i + 1])
Choosing == INSTANCE Recursion WITH Following <- BestStep

LEMMA BestIsItem ==
  ASSUME NEW sign, NEW items, IsSequence(items), items # <<>>
  PROVE  LET Best[i \in 0..Len(items) - 1] == IF i = 0 THEN Ok(items[1]) ELSE Better(sign, Best[i - 1], items[i + 1])
         IN \/ Best[Len(items) - 1] = Err("ValuesNotComparable")
            \/ \E k \in DOMAIN items : Best[Len(items) - 1] = Ok(items[k])
  <1> DEFINE n     == Len(items) - 1
             input == <<sign, items>>
             Best[i \in 0..n] == IF i = 0 THEN Ok(items[1]) ELSE Better(sign, Best[i - 1], items[i + 1])
             B     == Choosing!StepsFrom(input, Ok(items[1]), n)
             IsItem(x) == x = Err("ValuesNotComparable") \/ \E k \in DOMAIN items : x = Ok(items[k])
  <1>1. Best = B
    BY DEF Choosing!StepsFrom, BestStep
  <1>2. n \in Nat /\ DOMAIN items = 1..Len(items) /\ Len(items) \in Nat
    <2>1. DOMAIN items = 1..Len(items) /\ Len(items) \in Nat
      BY SequenceDomain
    <2>2. Len(items) # 0
      <3> DEFINE S == {items[i] : i \in DOMAIN items}
      <3>1. items \in Seq(S)
        BY DEF IsSequence
      <3> HIDE DEF S
      <3> QED BY <3>1, EmptySeq
    <2> QED BY <2>1, <2>2
  <1>3. /\ B[0] = Ok(items[1])
        /\ \A i \in Nat : i + 1 <= n => B[i + 1] = BestStep(input, i + 1, B[i])
    <2> HIDE DEF n, input, Best
    <2> QED BY <1>2, Choosing!StepByStep
  <1> HIDE DEF B, Best
  <1> DEFINE S == {i \in Nat : i <= n => IsItem(B[i])}
  <1>4. 0 \in S
    BY <1>2, <1>3
  <1>5. ASSUME NEW i \in Nat, i \in S, i + 1 <= n PROVE IsItem(B[i + 1])
    <2>1. IsItem(B[i]) /\ (i + 1) + 1 \in DOMAIN items
      BY <1>2, <1>5
    <2>2. B[i + 1] = Better(sign, B[i], items[(i + 1) + 1])
      BY <1>3, <1>5 DEF BestStep
    <2>3. B[i + 1] \in {B[i], Err("ValuesNotComparable"), Ok(items[(i + 1) + 1])}
      BY <2>2 DEF Better
    <2> QED BY <2>1, <2>3
  <1>6. \A i \in Nat : i \in S => i + 1 \in S
    BY <1>5
  <1> HIDE DEF S, IsItem, n
  <1>7. \A i \in Nat : i \in S
    BY <1>4, <1>6, Induction
  <1>8. IsItem(B[n])
    BY <1>2, <1>7 DEF S
  <1> QED BY <1>1, <1>8 DEF Best, IsItem, n

LEMMA ExtremeIsItem ==
  ASSUME NEW args, IsSequence(args), NEW sign,
         Len(args) = 1 /\ TypeOf(args[1]) = "list" => IsSequence(args[1][2])
  PROVE  \/ Extreme(args, sign) = Err("ValuesNotComparable")
         \/ Extreme(args, sign) = Ok(Null)
         \/ \E k \in DOMAIN args : Extreme(args, sign) = Ok(args[k])
         \/ Len(args) = 1 /\ TypeOf(args[1]) = "list" /\ \E k \in DOMAIN args[1][2] : Extreme(args, sign) = Ok(args[1][2][k])
  <1> DEFINE isOne == Len(args) = 1 /\ TypeOf(args[1]) = "list"
             items == IF isOne THEN args[1][2] ELSE args
             Best[i \in 0..Len(items) - 1] == IF i = 0 THEN Ok(items[1]) ELSE Better(sign, Best[i - 1], items[i + 1])
  <1>1. Extreme(args, sign) =
          IF Len(args) = 1 /\ TypeOf(args[1]) # "list" THEN Ok(args[1])
          ELSE IF items = <<>> THEN Ok(Null) ELSE Best[Len(items) - 1]
    BY DEF Extreme
  <1>2. IsSequence(items)
    OBVIOUS
  <1>3. items # <<>> =>
          \/ Best[Len(items) - 1] = Err("ValuesNotComparable")
          \/ \E k \in DOMAIN items : Best[Len(items) - 1] = Ok(items[k])
    <2> HIDE DEF items
    <2> QED BY <1>2, BestIsItem
  <1>4. Len(args) = 1 => 1 \in DOMAIN args
    BY SequenceDomain
  <1> HIDE DEF Best
  <1> QED BY <1>1, <1>3, <1>4

\* What a host's function gives becomes a value of the evaluator again.
Returned(result) == IF Failed(result) THEN result ELSE IntoVal(result[2], FALSE)

\* What a host receives, and what it gives back without harm.
Received(v) == IsNested(v) /\ Ends(v, MaxNesting - 1) /\ IsOperand(v) /\ IsShaped(v)
CanReturn(v) == IsNested(v) /\ IsOperand(v)

LEMMA EndsAbove ==
  ASSUME NEW v, DirectlyIn(v) = {}
  PROVE  Ends(v, MaxNesting - 1) /\ Ends(v, MaxNesting) /\ IsNested(v)
  <1>1. \A n \in 0..7 : n \in Nat /\ n + 1 <= MaxNesting
    BY DEF MaxNesting
  <1>2. \A n \in 0..7 : Ends(v, n) => Ends(v, n + 1)
    BY <1>1, Nested
  <1>3. Ends(v, 0)
    BY Nested
  <1>4. Ends(v, 1) /\ Ends(v, 2) /\ Ends(v, 3) /\ Ends(v, 4)
    BY <1>2, <1>3
  <1>5. Ends(v, 5) /\ Ends(v, 6) /\ Ends(v, 7) /\ Ends(v, 8)
    BY <1>2, <1>4
  <1>6. MaxNesting - 1 = 7 /\ MaxNesting = 8
    BY DEF MaxNesting
  <1> QED BY <1>5, <1>6, Nested

PlainTypes == {"bool", "bytes", "double", "duration", "int", "null", "string", "timestamp", "uint", "opaque"}

LEMMA PlainConverts ==
  ASSUME NEW v, TypeOf(v) \in PlainTypes
  PROVE  /\ DirectlyIn(v) = {} /\ IsNested(v)
         /\ FromVal(v) = v /\ Clone(v) = v /\ Returned(Ok(v)) = Ok(v)
  <1>1. DirectlyIn(v) = {}
    BY DEF DirectlyIn, PlainTypes
  <1>2. IsNested(v)
    BY <1>1, EndsAbove
  <1>3. FromVal(v) = v
    BY <1>2, FromValOfParts DEF FromUsing, PlainTypes
  <1>4. Clone(v) = v
    BY <1>2, CloneOfParts DEF CloneUsing, PlainTypes
  <1>5. IntoVal(v, FALSE) = Ok(v)
    <2>1. IntoVal(v, FALSE) = Within(v)
      BY <1>2, WithinOfParts DEF PlainTypes, Moved
    <2>2. Within(v) = Ok(v)
      BY <1>2, WithinOfParts DEF IntoUsing, PlainTypes
    <2> QED BY <2>1, <2>2
  <1> QED BY <1>1, <1>2, <1>3, <1>4, <1>5, ResultShapes DEF Returned

\* A host may give back what it receives, what that holds, and one or many of it.
LEMMA ReturnsParts ==
  ASSUME NEW v, CanReturn(v)
  PROVE  /\ IsShaped(v)
         /\ TypeOf(v) = "optional" /\ v # OptNone => v = OptSome(v[2][1]) /\ CanReturn(v[2][1])
         /\ TypeOf(v) = "list" => IsSequence(v[2]) /\ \A k \in DOMAIN v[2] : CanReturn(v[2][k])
  <1>1. IsShaped(v) /\ \A x \in DirectlyIn(v) : CanReturn(x)
    BY InNested, OperandParts DEF CanReturn
  <1>2. ASSUME TypeOf(v) = "optional", v # OptNone PROVE v = OptSome(v[2][1]) /\ CanReturn(v[2][1])
    <2>1. v = OptSome(v[2][1])
      BY <1>1, <1>2 DEF IsShaped
    <2>2. v[2] # <<>>
      BY <1>2, <2>1 DEF OptSome, OptNone
    <2>3. v[2][1] \in DirectlyIn(v)
      BY <1>2, <2>2 DEF DirectlyIn
    <2> QED BY <1>1, <2>1, <2>3
  <1>3. ASSUME TypeOf(v) = "list" PROVE IsSequence(v[2]) /\ \A k \in DOMAIN v[2] : CanReturn(v[2][k])
    <2>1. IsSequence(v[2])
      BY <1>1, <1>3 DEF IsShaped
    <2>2. DirectlyIn(v) = {v[2][k] : k \in DOMAIN v[2]}
      BY <1>3 DEF DirectlyIn
    <2> QED BY <1>1, <2>1, <2>2
  <1> QED BY <1>1, <1>2, <1>3

LEMMA ReturnsReceived ==
  ASSUME NEW v, Received(v)
  PROVE  CanReturn(v) /\ CanReturn(OptSome(v))
  <1>1. CanReturn(v)
    BY DEF CanReturn, Received
  <1>2. MaxNesting = 8 /\ MaxNesting - 1 = 7 /\ 7 + 1 = 8 /\ 7 \in Nat /\ 7 + 1 <= MaxNesting
    BY DEF MaxNesting
  <1> DEFINE o == OptSome(v)
  <1>3. DirectlyIn(o) = {v} /\ IsShaped(o)
    BY DEF DirectlyIn, OptSome, TypeOf, IsShaped, AnyType
  <1> HIDE DEF o
  <1>4. Ends(o, 8)
    BY <1>2, <1>3, Nested DEF Received
  <1>5. IsNested(o)
    BY <1>2, <1>4, Nested
  <1>6. IsOperand(o)
    BY <1>3, <1>5, OperandParts DEF Received
  <1> QED BY <1>1, <1>5, <1>6 DEF CanReturn, o

LEMMA ListsReturn ==
  ASSUME NEW s, IsSequence(s), \A i \in DOMAIN s : Received(s[i])
  PROVE  CanReturn(ListOf(s))
  <1> DEFINE l == ListOf(s)
  <1>1. MaxNesting = 8 /\ MaxNesting - 1 = 7 /\ 7 + 1 = 8 /\ 7 \in Nat /\ 7 + 1 <= MaxNesting
    BY DEF MaxNesting
  <1>2. DirectlyIn(l) = {s[i] : i \in DOMAIN s} /\ IsShaped(l)
    BY DirectlyInKinds DEF ListOf, TypeOf, IsShaped, AnyType
  <1> HIDE DEF l
  <1>3. \A x \in DirectlyIn(l) : Ends(x, 7) /\ IsOperand(x)
    BY <1>1, <1>2 DEF Received
  <1>4. Ends(l, 8)
    BY <1>1, <1>3, Nested
  <1>5. IsNested(l)
    BY <1>1, <1>4, Nested
  <1>6. IsOperand(l)
    BY <1>2, <1>3, <1>5, OperandParts
  <1> QED BY <1>5, <1>6 DEF CanReturn, l

\* What can be returned is no failure, let alone a panic.
LEMMA ReturnedOperand ==
  ASSUME NEW v, CanReturn(v)
  PROVE  ~Failed(Returned(Ok(v))) /\ (Clone(v) = v => Returned(Ok(v)) = Ok(v))
  BY OperandsConvert, ResultShapes DEF CanReturn, Returned

\* The operands of a function whose first parameter is the target, or which is no method.
LEMMA FirstOperand ==
  ASSUME NEW r \in Requests, NEW sig \in Seq(Parameters), Len(sig) >= 1, sig[1] # Rest,
         sig[1][1] = "this" \/ r.target = <<>>
  PROVE  OperandFor(sig, 1, r) = IF Len(Operands(r)) = 0 THEN <<>> ELSE <<Left(r)>>
  <1>1. CASE r.target # <<>>
    <2>1. OperandFor(sig, 1, r) = <<r.target[1]>>
      BY <1>1, RequestShapes DEF OperandFor
    <2>2. Left(r) = r.target[1] /\ Len(Operands(r)) = 1 + Len(r.args) /\ Len(r.args) \in Nat
      BY <1>1, OperandShapes, RequestShapes DEF Left
    <2>3. Len(Operands(r)) # 0
      BY <2>2
    <2> QED BY <2>1, <2>2, <2>3
  <1>2. CASE r.target = <<>>
    <2>1. Operands(r) = r.args /\ Len(r.args) \in Nat
      BY <1>2, OperandShapes, RequestShapes
    <2>2. Taking(sig, 0 + 1, r) = 1
      <3>1. TakesArgument(sig[0 + 1], r)
        BY <1>2 DEF TakesArgument
      <3>2. Taking(sig, 0, r) = 0 /\ 0 \in Nat /\ 0 + 1 <= Len(sig)
        BY TakingNone
      <3>3. Taking(sig, 0 + 1, r) = 0 + 1
        BY <3>1, <3>2, TakingCounts
      <3> QED BY <3>3
    <2>3. OperandFor(sig, 1, r) = SubSeq(r.args, 1, IF 1 > Len(r.args) THEN 1 - 1 ELSE 1)
      BY <1>2, <2>2 DEF OperandFor
    <2>4. CASE Len(r.args) = 0
      <3>1. 1 \in Nat /\ 1 > Len(r.args)
        BY <2>4
      <3>2. SubSeq(r.args, 1, 1 - 1) = <<>>
        BY <3>1, RequestShapes
      <3> QED BY <2>1, <2>3, <2>4, <3>1, <3>2
    <2>5. CASE Len(r.args) # 0
      <3>1. 1 \in 1..Len(r.args) /\ ~(1 > Len(r.args))
        BY <2>1, <2>5
      <3>2. SubSeq(r.args, 1, 1) = <<r.args[1]>>
        BY <3>1, RequestShapes
      <3> QED BY <2>1, <2>3, <2>5, <3>1, <3>2 DEF Left
    <2> QED BY <2>4, <2>5
  <1> QED BY <1>1, <1>2

LEMMA SecondOperand ==
  ASSUME NEW r \in Requests, NEW sig \in Seq(Parameters), Len(sig) = 2, sig[1] # Rest, sig[1][1] = "this",
         sig[2] # Rest, sig[2][1] = "argument"
  PROVE  OperandFor(sig, 2, r) = IF Len(Operands(r)) < 2 THEN <<>> ELSE <<Right(r)>>
  <1> DEFINE place == IF r.target # <<>> THEN 1 ELSE 2
             n     == Len(r.args)
  <1>1. n \in Nat /\ Len(Operands(r)) = IF r.target # <<>> THEN 1 + n ELSE n
    BY OperandShapes, RequestShapes
  <1>2. Taking(sig, 2, r) = place
    <2>1. /\ TakesArgument(sig[0 + 1], r) <=> r.target = <<>>
          /\ TakesArgument(sig[1 + 1], r)
      BY DEF TakesArgument
    <2>2. Taking(sig, 0, r) = 0 /\ 0 \in Nat /\ 0 + 1 <= Len(sig)
      BY TakingNone
    <2>3. Taking(sig, 0 + 1, r) = IF r.target = <<>> THEN 1 ELSE 0
      <3>1. Taking(sig, 0 + 1, r) = IF TakesArgument(sig[0 + 1], r) THEN Taking(sig, 0, r) + 1 ELSE Taking(sig, 0, r)
        BY <2>2, TakingCounts
      <3> QED BY <2>1, <2>2, <3>1
    <2>4. 1 \in Nat /\ 1 + 1 <= Len(sig) /\ Taking(sig, 1, r) = IF r.target = <<>> THEN 1 ELSE 0
      BY <2>3
    <2>5. Taking(sig, 1 + 1, r) = Taking(sig, 1, r) + 1
      BY <2>1, <2>4, TakingCounts
    <2> QED BY <2>4, <2>5
  <1>3. OperandFor(sig, 2, r) = SubSeq(r.args, place, IF place > n THEN place - 1 ELSE place)
    BY <1>2 DEF OperandFor
  <1>4. place \in Nat /\ (place <= n => place \in 1..n)
    BY <1>1
  <1>5. place > n <=> Len(Operands(r)) < 2
    BY <1>1
  <1>6. CASE place > n
    BY <1>3, <1>4, <1>5, <1>6, RequestShapes
  <1>7. CASE ~(place > n)
    <2>1. place \in 1..n
      BY <1>1, <1>4, <1>7
    <2>2. SubSeq(r.args, place, place) = <<r.args[place]>>
      BY <2>1, RequestShapes
    <2>3. Right(r) = r.args[place]
      <3>1. CASE r.target # <<>>
        <4>1. 1 \in 1..n /\ 1 + 1 = 2
          BY <2>1, <3>1
        <4> QED BY <3>1, <4>1, OperandShapes DEF Right
      <3>2. CASE r.target = <<>>
        BY <3>2, OperandShapes DEF Right
      <3> QED BY <3>1, <3>2
    <2> QED BY <1>3, <1>5, <1>7, <2>2, <2>3
  <1> QED BY <1>6, <1>7

\* Whatever the parameter, what a host receives is what it can be given, and with the room that
\* an argument leaves if it is one.
LEMMA ParametersReceived ==
  ASSUME NEW r \in Requests, NEW sig \in Seq(Parameters), NEW i \in 1..Len(sig), OperandFor(sig, i, r) # <<>>
  PROVE  Received(FromVal(OperandFor(sig, i, r)[1]))
  <1> DEFINE x == OperandFor(sig, i, r)[1]
             place == Taking(sig, i, r)
  <1>1. Received(x)
    <2>1. CASE sig[i] = Rest
      <3>1. x = ListOf(r.args)
        BY <2>1 DEF OperandFor
      <3> QED BY <3>1, RequestOperands DEF Received
    <2>2. CASE sig[i] # Rest /\ sig[i][1] = "this" /\ r.target # <<>>
      <3>1. x = Operands(r)[1] /\ 1 \in DOMAIN Operands(r)
        <4>1. x = r.target[1] /\ Operands(r)[1] = r.target[1]
          BY <2>2, OperandShapes DEF OperandFor
        <4>2. DOMAIN Operands(r) = 1..(1 + Len(r.args)) /\ Len(r.args) \in Nat
          BY <2>2, OperandShapes, RequestShapes
        <4> QED BY <4>1, <4>2
      <3> QED BY <3>1, RequestOperands DEF Received
    <2>3. CASE sig[i] # Rest /\ ~(sig[i][1] = "this" /\ r.target # <<>>)
      <3>1. OperandFor(sig, i, r) = SubSeq(r.args, place, IF place > Len(r.args) THEN place - 1 ELSE place)
        BY <2>3 DEF OperandFor
      <3>2. place \in Nat \ {0}
        <4>1. i - 1 \in Nat /\ (i - 1) + 1 = i /\ (i - 1) + 1 <= Len(sig)
          OBVIOUS
        <4>2. sig[i] \in Parameters
          BY ElementOfSeq
        <4>3. TakesArgument(sig[i], r)
          BY <2>3 DEF TakesArgument
        <4>4. Taking(sig, i - 1, r) \in Nat /\ place = Taking(sig, i - 1, r) + 1
          BY <4>1, <4>3, TakingCounts
        <4> QED BY <4>4
      <3>3. ~(place > Len(r.args))
        BY <3>1, <3>2, RequestShapes
      <3>4. place \in 1..Len(r.args)
        BY <3>2, <3>3, RequestShapes
      <3>5. OperandFor(sig, i, r) = <<r.args[place]>>
        BY <3>1, <3>3, <3>4, RequestShapes
      <3>6. \E k \in DOMAIN Operands(r) : Operands(r)[k] = r.args[place]
        <4>1. CASE r.target = <<>>
          BY <3>4, <4>1, OperandShapes
        <4>2. CASE r.target # <<>>
          <5>1. Operands(r)[place + 1] = r.args[place] /\ DOMAIN Operands(r) = 1..(1 + Len(r.args))
            BY <3>4, <4>2, OperandShapes
          <5>2. place + 1 \in DOMAIN Operands(r)
            BY <3>4, <5>1, RequestShapes
          <5> QED BY <5>1, <5>2
        <4> QED BY <4>1, <4>2
      <3>7. x = r.args[place]
        BY <3>5
      <3> HIDE DEF x
      <3> QED BY <3>6, <3>7, RequestOperands DEF Received
    <2> QED BY <2>1, <2>2, <2>3
  <1> HIDE DEF x
  <1>2. Kept(x, FromVal(x))
    BY <1>1, OperandsConvert DEF Received
  <1>3. MaxNesting - 1 \in 0..MaxNesting /\ MaxNesting \in 0..MaxNesting
    BY DEF MaxNesting
  <1>4. Ends(FromVal(x), MaxNesting - 1) /\ IsNested(FromVal(x)) /\ IsOperand(FromVal(x))
    BY <1>1, <1>2, <1>3, Nested DEF Kept, NoDeeper, Received
  <1>5. IsShaped(FromVal(x))
    BY <1>4, OperandParts
  <1> QED BY <1>4, <1>5 DEF x, Received

\* A host's function that gives one of its values, a plain one, or an error.
GivesBack(result) ==
  \/ Failed(result) /\ result # Panic
  \/ \E v : result = Ok(v) /\ (TypeOf(v) \in PlainTypes \/ CanReturn(v))

LEMMA NothingPanics ==
  ASSUME NEW result, GivesBack(result)
  PROVE  Returned(result) # Panic
  <1>1. Failed(Panic)
    BY DEF Panic, Failed, Err
  <1>2. ASSUME NEW v, TypeOf(v) \in PlainTypes \/ CanReturn(v) PROVE Returned(Ok(v)) # Panic
    BY <1>1, <1>2, PlainConverts, ReturnedOperand, ResultShapes
  <1> QED BY <1>2 DEF GivesBack, Returned

\* What makes a plain value of a text or fails gives one back.
LEMMA GivesPlain ==
  /\ GivesBack(FunctionError) /\ GivesBack(UnexpectedType)
  /\ GivesBack(Err("UnsupportedKeyType")) /\ GivesBack(Err("ValuesNotComparable"))
  /\ \A v : TypeOf(v) \in PlainTypes \/ CanReturn(v) => GivesBack(Ok(v))
  /\ \A x : /\ TypeOf(IntOf(x)) \in PlainTypes /\ TypeOf(UintOf(x)) \in PlainTypes /\ TypeOf(DoubleOf(x)) \in PlainTypes
            /\ TypeOf(BoolVal(x)) \in PlainTypes /\ TypeOf(BytesOf(x)) \in PlainTypes /\ TypeOf(StrOf(x)) \in PlainTypes
            /\ TypeOf(DurationOf(x)) \in PlainTypes
  /\ TypeOf(Null) \in PlainTypes
  <1>1. /\ GivesBack(FunctionError) /\ GivesBack(UnexpectedType)
        /\ GivesBack(Err("UnsupportedKeyType")) /\ GivesBack(Err("ValuesNotComparable"))
    BY DEF GivesBack, FunctionError, UnexpectedType, Panic, Err, Failed
  <1>2. \A v : TypeOf(v) \in PlainTypes \/ CanReturn(v) => GivesBack(Ok(v))
    BY DEF GivesBack
  <1>3. \A x : /\ TypeOf(IntOf(x)) \in PlainTypes /\ TypeOf(UintOf(x)) \in PlainTypes /\ TypeOf(DoubleOf(x)) \in PlainTypes
               /\ TypeOf(BoolVal(x)) \in PlainTypes /\ TypeOf(BytesOf(x)) \in PlainTypes /\ TypeOf(StrOf(x)) \in PlainTypes
               /\ TypeOf(DurationOf(x)) \in PlainTypes
    BY DEF TypeOf, IntOf, UintOf, DoubleOf, BoolVal, BytesOf, StrOf, DurationOf, PlainTypes
  <1>4. TypeOf(Null) \in PlainTypes
    BY DEF TypeOf, Null, PlainTypes
  <1> QED BY <1>1, <1>2, <1>3, <1>4

LEMMA TextsGive ==
  /\ \A text : GivesBack(Outcome(DoubleOf, ParseDouble(text)))
  /\ \A text, low, high : /\ GivesBack(Outcome(IntOf, ParseWhole(text, low, high)))
                          /\ GivesBack(Outcome(UintOf, ParseWhole(text, low, high)))
  /\ \A text, short : GivesBack(Outcome(DurationOf, ParseDuration(text, short)))
  /\ \A text, pattern : GivesBack(Matching(text, pattern))
  <1>1. Failed(FunctionError) /\ \A x : ~Failed(Ok(x)) /\ Ok(x)[2] = x
    BY ResultShapes DEF FunctionError
  <1>2. \A text : GivesBack(Outcome(DoubleOf, ParseDouble(text)))
    BY <1>1, ReadingsAreSound, GivesPlain DEF Outcome
  <1>3. \A text, low, high : /\ GivesBack(Outcome(IntOf, ParseWhole(text, low, high)))
                             /\ GivesBack(Outcome(UintOf, ParseWhole(text, low, high)))
    BY <1>1, ReadingsAreSound, GivesPlain DEF Outcome
  <1>4. \A text, short : GivesBack(Outcome(DurationOf, ParseDuration(text, short)))
    BY <1>1, ReadingsAreSound, GivesPlain DEF Outcome
  <1>5. \A text, pattern : GivesBack(Matching(text, pattern))
    BY GivesPlain DEF Matching
  <1> QED BY <1>2, <1>3, <1>4, <1>5

\* The functions of one value and of two, but for string.
LEMMA NumbersGive ==
  ASSUME NEW v
  PROVE  /\ GivesBack(HostSize(v)) /\ GivesBack(HostDouble(v)) /\ GivesBack(HostInt(v)) /\ GivesBack(HostUint(v))
         /\ \A w : GivesBack(HostContains(v, w))
         /\ \A id : GivesBack(HostGetter(id, v))
  <1>1. GivesBack(HostSize(v))
    BY GivesPlain DEF HostSize
  <1>2. GivesBack(HostDouble(v))
    BY GivesPlain, TextsGive DEF HostDouble, Double
  <1>3. GivesBack(HostInt(v))
    BY GivesPlain, TextsGive DEF HostInt, HostWhole
  <1>4. GivesBack(HostUint(v))
    BY GivesPlain, TextsGive DEF HostUint, HostWhole
  <1>5. \A w : GivesBack(HostContains(v, w))
    BY GivesPlain DEF HostContains
  <1>6. \A id : GivesBack(HostGetter(id, v))
    BY GivesPlain DEF HostGetter
  <1> QED BY <1>1, <1>2, <1>3, <1>4, <1>5, <1>6

LEMMA OptionalsGive ==
  ASSUME NEW v, NEW w, Received(v), Received(w)
  PROVE  /\ GivesBack(HostValueOf(v)) /\ GivesBack(HostHasValue(v)) /\ GivesBack(HostOr(v, w)) /\ GivesBack(HostOrValue(v, w))
         /\ GivesBack(Ok(OptNone)) /\ GivesBack(Ok(OptSome(v)))
  <1>1. CanReturn(v) /\ CanReturn(OptSome(v)) /\ CanReturn(w)
    BY ReturnsReceived
  <1>2. IsOptional(v) /\ v # OptNone => CanReturn(v[2][1])
    BY <1>1, ReturnsParts DEF IsOptional
  <1>3. CanReturn(OptNone)
    <2>1. DirectlyIn(OptNone) = {} /\ IsShaped(OptNone)
      BY DEF DirectlyIn, OptNone, TypeOf, IsShaped, AnyType
    <2>2. IsNested(OptNone)
      BY <2>1, EndsAbove
    <2> QED BY <2>1, <2>2, OperandParts DEF CanReturn
  <1>4. GivesBack(HostValueOf(v)) /\ GivesBack(HostHasValue(v)) /\ GivesBack(HostOr(v, w)) /\ GivesBack(HostOrValue(v, w))
    BY <1>1, <1>2, GivesPlain DEF HostValueOf, HostHasValue, HostOr, HostOrValue
  <1> QED BY <1>1, <1>3, <1>4, GivesPlain

LEMMA ExtremesGive ==
  ASSUME NEW l, CanReturn(l), TypeOf(l) = "list", NEW sign
  PROVE  GivesBack(Extreme(l[2], sign))
  <1> DEFINE args == l[2]
  <1>1. IsSequence(args) /\ \A k \in DOMAIN args : CanReturn(args[k])
    BY ReturnsParts
  <1> HIDE DEF args
  <1>2. Len(args) = 1 /\ TypeOf(args[1]) = "list" =>
          IsSequence(args[1][2]) /\ \A k \in DOMAIN args[1][2] : CanReturn(args[1][2][k])
    <2>1. Len(args) = 1 => 1 \in DOMAIN args
      BY <1>1, SequenceDomain
    <2> QED BY <1>1, <2>1, ReturnsParts
  <1>3. \/ Extreme(args, sign) = Err("ValuesNotComparable")
        \/ Extreme(args, sign) = Ok(Null)
        \/ \E k \in DOMAIN args : Extreme(args, sign) = Ok(args[k])
        \/ Len(args) = 1 /\ TypeOf(args[1]) = "list" /\ \E k \in DOMAIN args[1][2] : Extreme(args, sign) = Ok(args[1][2][k])
    BY <1>1, <1>2, ExtremeIsItem
  <1>4. GivesBack(Extreme(args, sign))
    BY <1>1, <1>2, <1>3, GivesPlain
  <1> QED BY <1>4 DEF args

LEMMA BodiesGive ==
  ASSUME NEW name \in DOMAIN Signature, name # "string", NEW p, IsSequence(p), Len(p) = Len(Signature[name]),
         \A i \in DOMAIN p : Received(p[i]), name \in {"max", "min"} => TypeOf(p[1]) = "list", NEW r
  PROVE  GivesBack(HostBody(name, p, r))
  <1>1. DOMAIN p = 1..Len(p)
    BY SequenceDomain
  <1>2. name \in DOMAIN HostSignatures => Len(p) = Len(HostSignatures[name])
    BY DEF Signature
  <1>3. CASE name \in {"size", "double", "int", "uint", "contains", "getHours", "getMinutes", "getSeconds", "getMilliseconds"}
    BY <1>3, NumbersGive DEF HostBody
  <1>4. CASE name \in {"bytes", "matches", "duration", "getDate"}
    BY <1>4, GivesPlain, TextsGive DEF HostBody
  <1>5. CASE name = "optional.none"
    <2>1. GivesBack(Ok(OptNone))
      <3>1. Received(ListOf(<<>>))
        <4>1. DirectlyIn(ListOf(<<>>)) = {} /\ IsShaped(ListOf(<<>>))
          BY DEF DirectlyIn, ListOf, TypeOf, IsShaped, AnyType, IsSequence
        <4> QED BY <4>1, EndsAbove, OperandParts DEF Received
      <3> QED BY <3>1, OptionalsGive
    <2> QED BY <1>5, <2>1, GivesPlain DEF HostBody
  <1>6. CASE name \in {"optional.of", "optional.ofNonZeroValue", "value", "hasValue", "max", "min"}
    <2>1. Len(p) = 1
      <3>1. name \in DOMAIN HostSignatures /\ Len(HostSignatures[name]) = 1
        BY <1>6 DEF HostSignatures
      <3> QED BY <1>2, <3>1
    <2>2. Received(p[1])
      BY <1>1, <2>1
    <2>3. GivesBack(Ok(OptNone)) /\ GivesBack(Ok(OptSome(p[1]))) /\ GivesBack(HostValueOf(p[1])) /\ GivesBack(HostHasValue(p[1]))
      BY <2>2, OptionalsGive
    <2>4. TypeOf(p[1]) = "list" => GivesBack(Extreme(p[1][2], Greater)) /\ GivesBack(Extreme(p[1][2], Less))
      BY <2>2, ReturnsReceived, ExtremesGive
    <2> QED BY <1>6, <2>3, <2>4, GivesPlain DEF HostBody
  <1>7. CASE name \in {"or", "orValue"}
    <2>1. Len(p) = 2
      <3>1. name \in DOMAIN HostSignatures /\ Len(HostSignatures[name]) = 2
        BY <1>7 DEF HostSignatures
      <3> QED BY <1>2, <3>1
    <2>2. Received(p[1]) /\ Received(p[2])
      BY <1>1, <2>1
    <2>3. GivesBack(HostOr(p[1], p[2])) /\ GivesBack(HostOrValue(p[1], p[2]))
      BY <2>2, OptionalsGive
    <2> QED BY <1>7, <2>3 DEF HostBody
  <1>8. CASE name \notin {"size", "double", "int", "uint", "contains", "getHours", "getMinutes", "getSeconds",
                          "getMilliseconds", "bytes", "matches", "duration", "getDate", "optional.none", "optional.of",
                          "optional.ofNonZeroValue", "value", "hasValue", "max", "min", "or", "orValue"}
    <2>1. HostBody(name, p, r) = Ok(ListOf(p))
      BY <1>8 DEF HostBody
    <2> QED BY <2>1, ListsReturn, GivesPlain
  <1> QED BY <1>3, <1>4, <1>5, <1>6, <1>7, <1>8

\* The text of a value from a host's function.
LEMMA StringReplies ==
  ASSUME NEW r \in Requests, NEW v, IsNested(v), IsShaped(v)
  PROVE  Returned(HostString(FromVal(v), r.how)) =
           IF TypeOf(v) \in {"string", "int", "uint", "double", "bytes", "timestamp", "duration"}
           THEN String(v, r.how) ELSE FunctionError
  <1>1. TypeOf(FromVal(v)) = TypeOf(v)
    BY FromValKeepsType
  <1>2. CASE TypeOf(v) \in {"string", "int", "uint", "double", "bytes", "timestamp", "duration"}
    <2>1. FromVal(v) = v
      BY <1>2, PlainConverts DEF PlainTypes
    <2>2. HostString(FromVal(v), r.how) = String(v, r.how)
      BY <1>2, <2>1 DEF HostString
    <2>3. Failed(String(v, r.how)) \/ \E s : String(v, r.how) = Ok(s) /\ TypeOf(s) \in PlainTypes
      <3>1. Failed(Outcome(StrOf, FormatDuration(v[2], r.how.checked)))
            \/ \E s : Outcome(StrOf, FormatDuration(v[2], r.how.checked)) = Ok(StrOf(s))
        BY DEF Outcome
      <3>2. TypeOf(v) = "string" => TypeOf(v) \in PlainTypes
        BY DEF PlainTypes
      <3> QED BY <1>2, <3>1, <3>2, GivesPlain DEF String
    <2> QED BY <1>2, <2>2, <2>3, PlainConverts DEF Returned
  <1>3. CASE TypeOf(v) \notin {"string", "int", "uint", "double", "bytes", "timestamp", "duration"}
    <2>1. HostString(FromVal(v), r.how) = FunctionError
      BY <1>1, <1>3 DEF HostString
    <2> QED BY <1>3, <2>1, ResultShapes DEF Returned, FunctionError
  <1> QED BY <1>2, <1>3

-----------------------------------------------------------------------------
(* The answers in the course of a call. *)

\* What the operators and the values make of the operands.
Operated(r, o, h) ==
  LET v == r.args[1]
      w == r.args[2]
  IN \/ r.name \in Arithmetic /\ o \in Computed(r.name, v, w) /\ h = HostComputed(r.name, v, w)
     \/ r.name = "compare" /\ o = Compare(v, w) /\ h = PartialCmp(v, w)
     \/ r.name = "equals" /\ o = Ok(BoolVal(ValEquals(v, w))) /\ h = Ok(BoolVal(ValueEquals(v, w)))
     \/ r.name = "negate" /\ o = Negated(v, r.how.checked) /\ h = None

\* A function is answered by its overload, and by the host's function once all its parameters are
\* there.
AnswersAsAsked ==
  IF request = <<>> THEN outcome = None
  ELSE /\ Complete
       /\ IF Asked.name \in Operators
          THEN Operated(Asked, outcome, reply) /\ params = <<>>
          ELSE /\ outcome = Dispatched(Asked)
               /\ IF Asked.name \in DOMAIN Signature
                  THEN reply # None /\ Len(params) = Len(Signature[Asked.name]) =>
                         reply = Returned(HostBody(Asked.name, params, Asked))
                  ELSE reply = None /\ params = <<>>

AInv == IInv /\ AnswersAsAsked

LEMMA DispatchedKept == decls' = decls => \A r : Dispatched(r)' = Dispatched(r)
  BY DEF Dispatched, FindOverload

LEMMA AnswersStart == CallInit => AInv
  BY InitInv DEF AInv, AnswersAsAsked, CallInit, StdInit

LEMMA AnswersKept == AInv /\ [CallNext]_callVars => AInv'
  <1> SUFFICES ASSUME AInv, [CallNext]_callVars PROVE AnswersAsAsked'
    BY NextInv DEF AInv
  <1>1. IInv /\ AnswersAsAsked
    BY DEF AInv
  <1>2. CASE RegisterNext
    <2>1. ~Complete /\ request' = request /\ outcome' = outcome
      BY <1>2 DEF RegisterNext, Register
    <2> QED BY <1>1, <2>1 DEF AnswersAsAsked
  <1>3. CASE Call
    <2>1. PICK r \in Requests : r.name \notin Operators /\ request' = <<r>> /\ outcome' = Dispatched(r)
      BY <1>3 DEF Call
    <2>2. Complete /\ decls' = decls /\ registered' = registered /\ reply' = reply /\ params' = params /\ request = <<>>
      BY <1>3 DEF Call, Ready
    <2>3. reply = None /\ params = <<>>
      BY <1>1, <2>2 DEF IInv, AsksOnce
    <2>4. Asked' = r /\ request' # <<>> /\ Complete' /\ outcome' = Dispatched(r)'
      BY <2>1, <2>2, DispatchedKept DEF Asked, Complete
    <2> QED BY <2>1, <2>2, <2>3, <2>4 DEF AnswersAsAsked
  <1>4. CASE Operate
    <2>1. PICK r \in Requests :
            LET v == r.args[1]
                w == r.args[Len(r.args)]
            IN /\ r.name \in Operators
               /\ request' = <<r>>
               /\ \/ r.name \in Arithmetic /\ outcome' \in Computed(r.name, v, w) /\ reply' = HostComputed(r.name, v, w)
                  \/ r.name = "compare" /\ outcome' = Compare(v, w) /\ reply' = PartialCmp(v, w)
                  \/ r.name = "equals" /\ outcome' = Ok(BoolVal(ValEquals(v, w))) /\ reply' = Ok(BoolVal(ValueEquals(v, w)))
                  \/ r.name = "negate" /\ outcome' = Negated(v, r.how.checked) /\ UNCHANGED reply
      BY <1>4 DEF Operate
    <2>2. Complete' /\ params' = params /\ request = <<>>
      BY <1>4 DEF Operate, Ready, Complete
    <2>3. reply = None /\ params = <<>>
      BY <1>1, <2>2 DEF IInv, AsksOnce
    <2>4. r.name # "negate" => Len(r.args) = 2
      BY <2>1, RequestsAssumption
    <2>5. Operated(r, outcome', reply')
      <3>1. r.name \in Arithmetic \cup {"compare", "equals"} => r.name # "negate"
        BY DEF Arithmetic
      <3> QED BY <2>1, <2>3, <2>4, <3>1 DEF Operated
    <2>6. Asked' = r /\ request' # <<>>
      BY <2>1 DEF Asked
    <2>7. Operated(Asked, outcome, reply)' <=> Operated(r, outcome', reply')
      BY <2>6 DEF Operated
    <2> QED BY <2>1, <2>2, <2>3, <2>5, <2>6, <2>7 DEF AnswersAsAsked
  <1>5. ASSUME HostIsBusy, UNCHANGED <<decls, answer, registered, request, outcome>>
        PROVE  /\ request' # <<>> /\ Asked' = Asked /\ Complete' /\ outcome' = Dispatched(Asked)'
               /\ Asked.name \in DOMAIN Signature /\ Asked.name \notin Operators
    <2>1. request # <<>> /\ Asked.name \in DOMAIN Signature
      BY <1>5 DEF HostIsBusy
    <2>2. Asked.name \notin Operators
      BY <2>1, SignatureShapes
    <2>3. Complete /\ outcome = Dispatched(Asked)
      BY <1>1, <2>1, <2>2 DEF AnswersAsAsked
    <2>4. Asked' = Asked
      BY <1>5 DEF Asked
    <2>5. Dispatched(Asked)' = Dispatched(Asked)
      BY <1>5, <2>4 DEF Dispatched, FindOverload
    <2> QED BY <1>5, <2>1, <2>2, <2>3, <2>4, <2>5 DEF Complete
  <1>6. CASE Extract
    <2>1. /\ HostIsBusy /\ UNCHANGED <<decls, answer, registered, request, outcome>>
          /\ Len(params) < Len(Signature[Asked.name])
          /\ \/ params' = params
             \/ reply' = reply
      BY <1>6 DEF Extract
    <2>2. /\ request' # <<>> /\ Asked' = Asked /\ Complete' /\ outcome' = Dispatched(Asked)'
          /\ Asked.name \in DOMAIN Signature /\ Asked.name \notin Operators
      BY <1>5, <2>1
    <2>3. Len(params') = Len(Signature[Asked.name]) => reply' = None
      <3>1. CASE params' = params
        <4>1. Len(Signature[Asked.name]) \in Nat
          BY <2>2, SignatureShapes
        <4>2. Len(params) # Len(Signature[Asked.name])
          BY <2>1, <4>1
        <4> QED BY <3>1, <4>2
      <3>2. CASE reply' = reply
        BY <2>1, <3>2 DEF HostIsBusy
      <3> QED BY <2>1, <3>1, <3>2
    <2> QED BY <2>2, <2>3 DEF AnswersAsAsked
  <1>7. CASE Apply
    <2>1. /\ HostIsBusy /\ UNCHANGED <<decls, answer, registered, request, outcome, params>>
          /\ reply' = Returned(HostBody(Asked.name, params, Asked))
      BY <1>7 DEF Apply, Returned
    <2>2. /\ request' # <<>> /\ Asked' = Asked /\ Complete' /\ outcome' = Dispatched(Asked)'
          /\ Asked.name \in DOMAIN Signature /\ Asked.name \notin Operators
      BY <1>5, <2>1
    <2> QED BY <2>1, <2>2 DEF AnswersAsAsked
  <1>8. CASE UNCHANGED callVars
    <2>1. UNCHANGED <<decls, answer, registered, request, outcome, params, reply>> /\ Asked' = Asked /\ (Complete' <=> Complete)
      BY <1>8 DEF callVars, Asked, Complete
    <2>2. Dispatched(Asked)' = Dispatched(Asked)
      BY <2>1 DEF Dispatched, FindOverload
    <2> QED BY <1>1, <2>1, <2>2 DEF AnswersAsAsked
  <1> QED BY <1>2, <1>3, <1>4, <1>6, <1>7, <1>8 DEF CallNext

\* The parameters of a host's function that has all of them.
LEMMA AllParameters ==
  ASSUME IInv, request # <<>>, Asked.name \in DOMAIN Signature
  PROVE  LET sig == Signature[Asked.name]
         IN /\ sig \in Seq(Parameters) /\ Len(sig) \in Nat /\ IsSequence(params) /\ DOMAIN params = 1..Len(params)
            /\ Len(params) \in Nat /\ Len(params) <= Len(sig)
            /\ \A i \in DOMAIN params : /\ OperandFor(sig, i, Asked) # <<>>
                                        /\ params[i] = FromVal(OperandFor(sig, i, Asked)[1])
                                        /\ TypeOf(params[i]) \in sig[i][2]
                                        /\ Received(params[i])
            /\ reply # None /\ Len(params) < Len(sig) =>
                 IF OperandFor(sig, Len(params) + 1, Asked) = <<>>
                 THEN reply = Err(IF sig[Len(params) + 1][1] = "this" THEN "MissingArgumentOrTarget" ELSE "InvalidArgumentCount")
                 ELSE /\ reply = UnexpectedType
                      /\ TypeOf(OperandFor(sig, Len(params) + 1, Asked)[1]) \notin sig[Len(params) + 1][2]
  <1> DEFINE sig == Signature[Asked.name]
             n   == Len(params)
  <1>1. Asked \in Requests /\ sig \in Seq(Parameters)
    BY AskedShapes DEF IInv
  <1>2. IsSequence(params) /\ n <= Len(sig)
    BY DEF IInv, TakesInOrder
  <1>3. n \in Nat /\ DOMAIN params = 1..n /\ Len(sig) \in Nat
    BY <1>1, <1>2, SequenceDomain
  <1>4. /\ \A i \in DOMAIN params : /\ OperandFor(sig, i, Asked) # <<>>
                                    /\ params[i] = FromVal(OperandFor(sig, i, Asked)[1])
                                    /\ TypeOf(params[i]) \in sig[i][2]
        /\ reply # None /\ n + 1 <= Len(sig) =>
             IF OperandFor(sig, n + 1, Asked) = <<>>
             THEN reply = Err(IF sig[n + 1][1] = "this" THEN "MissingArgumentOrTarget" ELSE "InvalidArgumentCount")
             ELSE reply = UnexpectedType /\ TypeOf(OperandFor(sig, n + 1, Asked)[1]) \notin sig[n + 1][2]
    BY DEF IInv, OperandsReachParameters
  <1>5. \A i \in DOMAIN params : i \in 1..Len(sig)
    BY <1>2, <1>3
  <1> HIDE DEF sig, n
  <1>6. \A i \in DOMAIN params : Received(params[i])
    BY <1>1, <1>4, <1>5, ParametersReceived
  <1>7. n < Len(sig) => n + 1 <= Len(sig)
    BY <1>3
  <1> QED BY <1>1, <1>2, <1>3, <1>4, <1>6, <1>7 DEF sig, n

\* What a host's function without a failure among its parameters answers.
LEMMA RepliesPanic ==
  ASSUME AInv, request # <<>>, Asked.name \in DOMAIN Signature, reply # None,
         params # <<>>, Operands(Asked) # <<>>
  PROVE  reply = Panic <=> TooLongToFormat(Asked)
  <1> DEFINE r    == Asked
             name == r.name
             sig  == Signature[name]
             n    == Len(params)
  <1>1. r \in Requests /\ name \notin Operators
    BY AskedShapes, SignatureShapes DEF AInv, IInv
  <1>2. /\ sig \in Seq(Parameters) /\ Len(sig) \in Nat /\ IsSequence(params) /\ DOMAIN params = 1..n
        /\ n \in Nat /\ n <= Len(sig)
        /\ \A i \in DOMAIN params : OperandFor(sig, i, r) # <<>> /\ params[i] = FromVal(OperandFor(sig, i, r)[1]) /\ Received(params[i])
        /\ n < Len(sig) => reply \in {Err("MissingArgumentOrTarget"), Err("InvalidArgumentCount"), UnexpectedType}
    BY AllParameters DEF AInv
  <1>3. n # 0
    <2> DEFINE S == {params[i] : i \in DOMAIN params}
    <2>1. params \in Seq(S)
      BY <1>2 DEF IsSequence
    <2> HIDE DEF S
    <2> QED BY <2>1, EmptySeq
  <1>4. 1 \in DOMAIN params
    BY <1>2, <1>3
  <1>5. name = "string" => sig = <<This>>
    BY DEF Signature, HostSignatures
  <1>6. TooLongToFormat(r) => name = "string"
    BY DEF TooLongToFormat
  <1>7. CASE n < Len(sig)
    <2>1. name # "string"
      <3>1. Len(<<This>>) = 1
        OBVIOUS
      <3>2. \A k \in Nat : n < k => k # 1
        BY <1>2, <1>3
      <3>3. Len(sig) # 1
        BY <1>2, <1>7, <3>2
      <3> QED BY <1>5, <3>1, <3>3
    <2>2. reply # Panic
      BY <1>2, <1>7 DEF Panic, UnexpectedType, Err
    <2> QED BY <1>6, <2>1, <2>2
  <1>8. CASE n = Len(sig)
    <2>1. reply = Returned(HostBody(name, params, r))
      BY <1>1, <1>8 DEF AInv, AnswersAsAsked
    <2>2. CASE name # "string"
      <3>1. name \in {"max", "min"} => TypeOf(params[1]) = "list"
        <4>1. name \in {"max", "min"} => sig = <<Rest>>
          BY DEF Signature, HostSignatures
        <4>2. ASSUME sig = <<Rest>> PROVE OperandFor(sig, 1, r) = <<ListOf(r.args)>>
          <5>1. sig[1] = Rest
            BY <4>2
          <5> QED BY <5>1 DEF OperandFor
        <4>3. TypeOf(FromVal(ListOf(r.args))) = "list"
          <5>1. TypeOf(ListOf(r.args)) = "list"
            BY DEF TypeOf, ListOf
          <5> QED BY <1>1, <5>1, RequestOperands, FromValKeepsType
        <4>4. ASSUME name \in {"max", "min"} PROVE TypeOf(params[1]) = "list"
          <5>1. params[1] = FromVal(OperandFor(sig, 1, r)[1]) /\ OperandFor(sig, 1, r) = <<ListOf(r.args)>>
            BY <1>2, <1>4, <4>1, <4>2, <4>4
          <5>2. params[1] = FromVal(ListOf(r.args))
            BY <5>1
          <5> QED BY <4>3, <5>2
        <4> QED BY <4>4
      <3>2. GivesBack(HostBody(name, params, r))
        <4>1. n = Len(Signature[name]) /\ \A i \in DOMAIN params : Received(params[i])
          BY <1>2, <1>8
        <4> HIDE DEF r, name, n
        <4>2. name \in DOMAIN Signature
          BY DEF r, name
        <4> QED BY <1>2, <2>2, <3>1, <4>1, <4>2, BodiesGive DEF n
      <3> QED BY <1>6, <2>1, <2>2, <3>2, NothingPanics
    <2>3. CASE name = "string"
      <3>1. OperandFor(sig, 1, r) = <<Left(r)>>
        <4>1. Len(sig) >= 1 /\ sig[1] = This /\ This # Rest /\ This[1] = "this"
          BY <1>5, <2>3 DEF This, ThisOf, Rest
        <4>2. OperandFor(sig, 1, r) # <<>>
          BY <1>2, <1>4
        <4> HIDE DEF sig, r
        <4> QED BY <1>1, <1>2, <4>1, <4>2, FirstOperand
      <3>2. params[1] = FromVal(Left(r))
        BY <1>2, <1>4, <3>1
      <3>3. IsNested(Left(r)) /\ IsShaped(Left(r)) /\ r.how.checked \in BOOLEAN
        <4>1. 1 \in DOMAIN Operands(r)
          <5>1. Len(Operands(r)) \in Nat /\ DOMAIN Operands(r) = 1..Len(Operands(r))
            BY <1>1, OperandShapes
          <5>2. Len(Operands(r)) # 0
            <6>1. OperandFor(sig, 1, r) # <<>> /\ sig[1] = This /\ This # Rest /\ This[1] = "this" /\ Len(sig) >= 1
              BY <1>2, <1>4, <1>5, <2>3 DEF This, ThisOf, Rest
            <6> HIDE DEF sig, r
            <6>2. OperandFor(sig, 1, r) = IF Len(Operands(r)) = 0 THEN <<>> ELSE <<Left(r)>>
              BY <1>1, <1>2, <6>1, FirstOperand
            <6> QED BY <6>1, <6>2
          <5> QED BY <5>1, <5>2
        <4> QED BY <1>1, <4>1, RequestOperands DEF Left
      <3>4. HostBody(name, params, r) = HostString(FromVal(Left(r)), r.how)
        BY <2>3, <3>2 DEF HostBody
      <3>5. reply = IF TypeOf(Left(r)) \in {"string", "int", "uint", "double", "bytes", "timestamp", "duration"}
                    THEN String(Left(r), r.how) ELSE FunctionError
        <4> HIDE DEF r
        <4> QED BY <1>1, <2>1, <3>3, <3>4, StringReplies
      <3>6. FunctionError # Panic
        BY DEF FunctionError, Panic, Err
      <3>7. reply = Panic <=> /\ TypeOf(Left(r)) = "duration" /\ r.how.checked /\ ~HasNanos(Left(r)[2])
                              /\ Left(r)[2] < 0 \/ Left(r)[2] - Remainder(Left(r)[2], Second) >= U64
        <4> DEFINE v == Left(r)
        <4> HIDE DEF r, v
        <4>1. CASE TypeOf(v) \in {"string", "int", "uint", "double", "bytes", "timestamp", "duration"}
          BY <3>3, <3>5, <4>1, TextsPanic DEF v
        <4>2. CASE TypeOf(v) \notin {"string", "int", "uint", "double", "bytes", "timestamp", "duration"}
          BY <3>5, <3>6, <4>2 DEF v
        <4> QED BY <4>1, <4>2 DEF v
      <3> QED BY <2>3, <3>7 DEF TooLongToFormat, Left
    <2> QED BY <2>2, <2>3
  <1> QED BY <1>2, <1>7, <1>8

\* The panics of the library and of a host's functions are the known ones.
LEMMA PanicsKnown == AInv /\ IsRegistered => PanicsAreKnown
  <1> SUFFICES ASSUME AInv, IsRegistered PROVE PanicsAreKnown
    OBVIOUS
  <1> DEFINE r == Asked
  <1>1. ASSUME request # <<>> PROVE r \in Requests /\ Complete
    BY <1>1, AskedShapes DEF AInv, IInv, AnswersAsAsked
  <1>2. request = <<>> => outcome = None
    BY DEF AInv, AnswersAsAsked
  <1>3. "string" \notin Operators /\ "value" \notin Operators /\ "or" \notin Operators /\ "orValue" \notin Operators
        /\ "add" \in Operators /\ "sub" \in Operators /\ "negate" \in Operators
    BY DEF Operators, Arithmetic
  <1>4. /\ UnaskedOptional(r) => r.name \in {"value", "or", "orValue"}
        /\ OutsideChrono(r) => r.name \in {"add", "sub"}
        /\ TooLongToFormat(r) => r.name = "string"
    BY DEF UnaskedOptional, OutsideChrono, TooLongToFormat
  <1>5. ASSUME Found
        PROVE  outcome = Panic <=> \/ UnaskedOptional(r) \/ OutsideChrono(r) \/ TooLongToFormat(r)
                                   \/ r.name = "negate" /\ r.args[1] = IntOf(-IntMax - 1) /\ r.how.checked
    <2>1. request # <<>> /\ outcome # Undeclared
      BY <1>2, <1>5 DEF Found
    <2>2. r \in Requests /\ Complete
      BY <1>1, <2>1
    <2>3. CASE r.name \in Operators
      <3>1. Operated(r, outcome, reply)
        BY <2>1, <2>3 DEF AInv, AnswersAsAsked
      <3>2. r.how.checked \in BOOLEAN /\ IsShaped(r.args[1])
        <4>1. r.target = <<>> /\ Len(r.args) \in {1, 2}
          <5> HIDE DEF r
          <5>1. r.name \in Operators => r.target = <<>> /\ Len(r.args) = IF r.name = "negate" THEN 1 ELSE 2
            BY <2>2, RequestsAssumption
          <5> QED BY <2>3, <5>1
        <4> HIDE DEF r
        <4>2. Operands(r) = r.args /\ DOMAIN Operands(r) = 1..Len(r.args)
          BY <2>2, <4>1, OperandShapes
        <4>3. 1 \in DOMAIN Operands(r)
          BY <4>1, <4>2
        <4> QED BY <2>2, <4>2, <4>3, RequestOperands
      <3>3. ~UnaskedOptional(r) /\ ~TooLongToFormat(r)
        BY <1>3, <1>4, <2>3
      <3> DEFINE v == r.args[1]
                 w == r.args[2]
      <3>4. CASE r.name \in Arithmetic
        <4>1. outcome \in Computed(r.name, v, w)
          <5>1. r.name \notin {"compare", "equals", "negate"}
            BY <3>4 DEF Arithmetic
          <5> QED BY <3>1, <5>1 DEF Operated
        <4>2. outcome = Panic <=> /\ r.name \in {"add", "sub"} /\ TypeOf(v) = "timestamp" /\ TypeOf(w) = "duration"
                                  /\ v[2] + Signed(r.name, w[2]) \notin ChronoTimes
          <5> HIDE DEF r, v, w
          <5> QED BY <3>4, <4>1, ComputedPanics
        <4>3. r.name # "negate"
          BY <3>4 DEF Arithmetic
        <4> HIDE DEF r
        <4> QED BY <3>3, <4>2, <4>3 DEF OutsideChrono
      <3>5. CASE r.name = "compare"
        <4>1. outcome = Compare(v, w)
          BY <3>1, <3>5 DEF Operated, Arithmetic
        <4> HIDE DEF r
        <4> QED BY <1>4, <3>2, <3>3, <3>5, <4>1, OthersPanic
      <3>6. CASE r.name = "equals"
        <4>1. outcome = Ok(BoolVal(ValEquals(v, w)))
          BY <3>1, <3>6 DEF Operated, Arithmetic
        <4>2. outcome # Panic
          BY <4>1 DEF Ok, Panic, Err
        <4> QED BY <1>4, <3>3, <3>6, <4>2
      <3>7. CASE r.name = "negate"
        <4>1. outcome = Negated(v, r.how.checked)
          BY <3>1, <3>7 DEF Operated, Arithmetic
        <4> HIDE DEF r
        <4> QED BY <1>4, <3>2, <3>3, <3>7, <4>1, OthersPanic
      <3> QED BY <2>3, <3>4, <3>5, <3>6, <3>7 DEF Operators
    <2>4. CASE r.name \notin Operators
      <3>1. outcome = Dispatched(r)
        BY <2>1, <2>4 DEF AInv, AnswersAsAsked
      <3>2. CallOfData(r) \/ CallOfTimesOrOptionals(r)
        <4> HIDE DEF r
        <4> QED BY <2>1, <2>2, <3>1, Answers
      <3>3. Dispatched(r) = Panic <=> UnaskedOptional(r) \/ TooLongToFormat(r)
        <4> HIDE DEF r
        <4> QED BY <2>2, <3>2, CallPanics
      <3> QED BY <1>3, <1>4, <2>4, <3>1, <3>3
    <2> QED BY <2>3, <2>4
  <1>6. ASSUME reply # None, params # <<>>, Operands(r) # <<>>
        PROVE  reply = Panic <=> TooLongToFormat(r)
    <2>1. request # <<>>
      <3>1. request = <<>> => params = <<>>
        BY DEF AInv, IInv, AsksOnce, TakesInOrder
      <3> QED BY <1>6, <3>1
    <2>2. r.name \in DOMAIN Signature
      BY <1>6, <2>1 DEF AInv, AnswersAsAsked
    <2> QED BY <1>6, <2>1, <2>2, RepliesPanic
  <1> QED BY <1>5, <1>6 DEF PanicsAreKnown

\* In every state the answers are what their operands make of them, besides IInv.
THEOREM AnswersInvariance == CallSpec => []AInv
  <1>1. CallInit => AInv
    BY AnswersStart
  <1>2. AInv /\ [CallNext]_callVars => AInv'
    BY AnswersKept
  <1> QED BY <1>1, <1>2, PTL DEF CallSpec

\* The library panics for four reasons and no other, whatever it is asked, and a host's function
\* for the third of them only: the ops of optionals run on something else, a duration too long to
\* be written, i64::MIN negated, and a timestamp moved beyond chrono's.
THEOREM PanicsAreAllKnown == CallSpec => []PanicsAreKnown
  <1>1. AInv /\ IsRegistered => PanicsAreKnown
    BY PanicsKnown
  <1> QED BY <1>1, AnswersInvariance, EveryRegistrationSucceeds, PTL

-----------------------------------------------------------------------------
(* The two answers. *)

\* Val::equals and the PartialEq of Values are the same for all but structs and optionals.
LEMMA StepsOfEquality ==
  ASSUME NEW same, NEW x, NEW y, IsShaped(x), TypeOf(x) \notin {"struct", "optional"}
  PROVE  ValEqualsUsing(same, x, y) = ValueEqualsUsing(same, x, y)
  <1> DEFINE other == AreNumbers(x, y)
  <1>1. TypeOf(x) \in {"list", "map"} \cup Scalars \cup {"opaque", "int", "uint", "double"}
    BY DEF IsShaped, AnyType, Scalars
  <1>2. CASE AreNumbers(x, y)
    BY <1>2 DEF ValEqualsUsing, ValueEqualsUsing
  <1>3. CASE ~AreNumbers(x, y) /\ TypeOf(x) \in {"list", "map"}
    BY <1>3 DEF ValEqualsUsing, ValueEqualsUsing
  <1>4. CASE ~AreNumbers(x, y) /\ TypeOf(x) \in Scalars \cup {"opaque"}
    BY <1>4 DEF ValEqualsUsing, ValueEqualsUsing, Scalars
  <1>5. CASE ~AreNumbers(x, y) /\ TypeOf(x) \in {"int", "uint", "double"}
    BY <1>5 DEF ValEqualsUsing, ValueEqualsUsing, Scalars
  <1> QED BY <1>1, <1>2, <1>3, <1>4, <1>5

LEMMA EqualitiesAgree ==
  ASSUME NEW v, NEW w, \A x \in AnywhereIn(v) : IsShaped(x) /\ TypeOf(x) \notin {"struct", "optional"}
  PROVE  ValEquals(v, w) = ValueEquals(v, w)
  <1> DEFINE F(f) == [p \in AnywhereIn(v) \X AnywhereIn(w) |-> ValEqualsUsing(f, p[1], p[2])]
             G(f) == [p \in AnywhereIn(v) \X AnywhereIn(w) |-> ValueEqualsUsing(f, p[1], p[2])]
             C == CHOOSE f : f = F(f)
             D == CHOOSE f : f = G(f)
  <1>1. ASSUME NEW f PROVE F(f) = G(f)
    <2>1. \A p \in AnywhereIn(v) \X AnywhereIn(w) : ValEqualsUsing(f, p[1], p[2]) = ValueEqualsUsing(f, p[1], p[2])
      BY StepsOfEquality
    <2> QED BY <2>1
  <1>3. ValEquals(v, w) = C[<<v, w>>]
    BY DEF ValEquals
  <1>4. ValueEquals(v, w) = D[<<v, w>>]
    BY DEF ValueEquals
  <1> HIDE DEF F, G
  <1>2. C = D
    BY <1>1
  <1> HIDE DEF C, D
  <1> QED BY <1>2, <1>3, <1>4

\* Dividing unsigned integers fails for a zero only.
LEMMA UnsignedDivisions ==
  ASSUME NEW a \in Uints, NEW b \in Uints, b # 0
  PROVE  Quotient(a, b) \in Uints /\ Remainder(a, b) \in Uints
  <1>1. a \in Nat /\ b \in Nat \ {0} /\ UintMax \in Nat /\ a <= UintMax
    BY WidthsAssumption DEF Uints
  <1>2. Quotient(a, b) = a \div b
    BY <1>1 DEF Quotient
  <1> DEFINE q == a \div b
  <1>3. q \in Nat /\ b * q <= a /\ b * q \in Nat
    BY <1>1, Divided
  <1>4. q <= b * q
    <2>1. 1 * q <= b * q
      BY <1>1, <1>3, ProductAtLeast
    <2> QED BY <1>3, <2>1
  <1> HIDE DEF q
  <1>5. q \in Uints /\ a - b * q \in Uints
    BY <1>1, <1>3, <1>4 DEF Uints
  <1> QED BY <1>2, <1>5 DEF Remainder, q

LEMMA IntegersAgree ==
  ASSUME NEW op \in Arithmetic, NEW v, NEW w, TypeOf(v) = TypeOf(w), TypeOf(v) \in {"int", "uint"},
         IsShaped(v), IsShaped(w), NEW range, TypeOf(v) = "uint" => range = Uints
  PROVE  Integers(op, v, w, range) = HostIntegers(op, v, w, range)
  <1> DEFINE n == CheckedResult(op, v[2], w[2], range)
  <1>1. CASE TypeOf(v) = "int"
    BY <1>1 DEF Integers, HostIntegers
  <1>2. CASE TypeOf(v) = "uint" /\ op \in {"div", "rem"}
    <2>1. v[2] \in Uints /\ w[2] \in Uints
      BY <1>2 DEF IsShaped
    <2>2. n = <<>> <=> w[2] = 0
      <3>1. w[2] # 0 => Quotient(v[2], w[2]) \in Uints /\ Remainder(v[2], w[2]) \in Uints
        BY <2>1, UnsignedDivisions
      <3> QED BY <1>2, <3>1 DEF CheckedResult
    <2> HIDE DEF n
    <2> QED BY <1>2, <2>2 DEF Integers, HostIntegers, n
  <1>3. CASE TypeOf(v) = "uint" /\ op \notin {"div", "rem"}
    <2>1. op \notin DOMAIN ByZero
      BY <1>3 DEF ByZero
    <2> QED BY <2>1 DEF Integers, HostIntegers
  <1> QED BY <1>1, <1>2, <1>3

\* What holds the items of two lists that are their own copies is its own copy.
LEMMA SumsAgree ==
  ASSUME NEW v, Received(v), NEW w, Received(w), TypeOf(v) = "list", TypeOf(w) = "list",
         Clone(v) = v, Clone(w) = w
  PROVE  Clone(ListOf(v[2] \o w[2])) = ListOf(v[2] \o w[2])
  <1> DEFINE s == v[2] \o w[2]
             l == ListOf(s)
             S == {v[2][i] : i \in DOMAIN v[2]} \cup {w[2][i] : i \in DOMAIN w[2]}
  <1>1. IsSequence(v[2]) /\ IsSequence(w[2]) /\ v = ListOf(v[2]) /\ w = ListOf(w[2])
    BY DEF Received, IsShaped, ListOf
  <1>2. DirectlyIn(v) = {v[2][i] : i \in DOMAIN v[2]} /\ DirectlyIn(w) = {w[2][i] : i \in DOMAIN w[2]}
    BY DEF DirectlyIn
  <1>3. v[2] \in Seq(S) /\ w[2] \in Seq(S)
    <2>1. v[2] \in Seq({v[2][i] : i \in DOMAIN v[2]}) /\ w[2] \in Seq({w[2][i] : i \in DOMAIN w[2]})
      BY <1>1 DEF IsSequence
    <2> QED BY <2>1
  <1> HIDE DEF S
  <1>4. s \in Seq(S)
    BY <1>3
  <1>8. DirectlyIn(l) = {s[i] : i \in DOMAIN s} /\ TypeOf(l) = "list" /\ l[2] = s
    BY DirectlyInKinds DEF ListOf, TypeOf
  <1> HIDE DEF s
  <1>5. \A i \in DOMAIN s : s[i] \in S
    BY <1>4
  <1>6. S = DirectlyIn(v) \cup DirectlyIn(w)
    BY <1>2 DEF S
  <1>7. \A x \in S : IsOperand(x) /\ Clone(x) = x /\ IsNested(x)
    <2>1. ASSUME NEW u, Received(u), Clone(u) = u, TypeOf(u) = "list"
          PROVE  \A x \in DirectlyIn(u) : IsOperand(x) /\ Clone(x) = x /\ IsNested(x)
      <3> DEFINE g == [x \in DirectlyIn(u) |-> Clone(x)]
      <3>1. IsNested(u) /\ IsShaped(u) /\ IsOperand(u)
        BY <2>1 DEF Received
      <3>2. Clone(u) = IF HoldsValue(u) THEN g[u[2][1]] ELSE RebuiltFrom(g, u)
        BY <3>1, ConversionsRebuild
      <3>3. ~HoldsValue(u)
        BY <2>1 DEF HoldsValue
      <3>4. \A x \in DirectlyIn(u) : g[x] = Clone(x)
        OBVIOUS
      <3> HIDE DEF g
      <3>5. \A x \in DirectlyIn(u) : g[x] = x
        BY <2>1, <3>1, <3>2, <3>3, RebuiltAlike
      <3> QED BY <3>1, <3>4, <3>5, OperandParts, InNested
    <2> QED BY <1>6, <2>1
  <1>9. \A x \in DirectlyIn(l) : x \in S
    BY <1>5, <1>8
  <1> HIDE DEF l
  <1>10. IsNested(l)
    <2>1. MaxNesting = 8 /\ MaxNesting - 1 = 7 /\ 7 + 1 = 8 /\ 7 \in Nat /\ 6 \in Nat /\ 6 + 1 = 7
          /\ 7 + 1 <= MaxNesting /\ 6 + 1 <= MaxNesting
      BY DEF MaxNesting
    <2>2. \A x \in S : Ends(x, 7)
      <3>1. ASSUME NEW u, Received(u), NEW x \in DirectlyIn(u) PROVE Ends(x, 7)
        <4>1. Ends(u, 7)
          BY <2>1, <3>1 DEF Received
        <4>2. Ends(x, 6)
          BY <2>1, <4>1, Nested
        <4> QED BY <2>1, <4>2, Nested
      <3> QED BY <1>6, <3>1
    <2>3. Ends(l, 8)
      BY <1>9, <2>1, <2>2, Nested
    <2> QED BY <2>1, <2>3, Nested
  <1>11. IsShaped(l)
    <2>1. s \in Seq({s[i] : i \in DOMAIN s})
      <3> HIDE DEF S
      <3>1. s = [i \in 1..Len(s) |-> s[i]] /\ DOMAIN s = 1..Len(s) /\ Len(s) \in Nat
        BY <1>4
      <3> DEFINE T == {s[i] : i \in DOMAIN s}
      <3>2. \A i \in 1..Len(s) : s[i] \in T
        BY <3>1
      <3> HIDE DEF T
      <3> QED BY <3>1, <3>2 DEF T
    <2>2. l = <<TypeOf(l), l[2]>>
      BY DEF l, ListOf, TypeOf
    <2> QED BY <1>8, <2>1, <2>2 DEF IsShaped, AnyType, IsSequence
  <1> DEFINE g == [x \in DirectlyIn(l) |-> Clone(x)]
  <1>12. Clone(l) = RebuiltFrom(g, l)
    <2>1. ~HoldsValue(l)
      BY <1>8 DEF HoldsValue
    <2> QED BY <1>10, <1>11, <2>1, ConversionsRebuild
  <1>13. \A x \in DirectlyIn(l) : g[x] = x
    BY <1>7, <1>9
  <1> HIDE DEF g
  <1>14. RebuiltFrom(g, l) = l
    BY <1>11, <1>13, RebuiltAlike
  <1> QED BY <1>12, <1>14 DEF l, s

\* What the evaluator and the values make of an arithmetic operator.
LEMMA ComputedAgree ==
  ASSUME NEW op \in Arithmetic, NEW v, Received(v), NEW w, Received(w), NEW o \in Computed(op, v, w), NEW h,
         h = HostComputed(op, v, w)
  PROVE  LET byLibrary == op = "add" /\ (<<TypeOf(v), TypeOf(w)>> = <<"bytes", "bytes">> \/ <<TypeOf(v), TypeOf(w)>> = <<"list", "map">>)
             byHost    == op = "add" /\ <<TypeOf(v), TypeOf(w)>> = <<"duration", "timestamp">>
             outside   == /\ op \in {"add", "sub"} /\ TypeOf(v) = "timestamp" /\ TypeOf(w) = "duration"
                          /\ v[2] + Signed(op, w[2]) \notin ChronoTimes
         IN /\ byLibrary => ~Failed(o) /\ Failed(h)
            /\ byHost => o \in Refusals /\ h \notin Refusals
            /\ \/ byLibrary \/ byHost \/ outside \/ Clone(v) # v \/ Clone(w) # w
               \/ o = h \/ {o, h} \subseteq Refusals
  <1> DEFINE s == TypeOf(v)
             t == TypeOf(w)
             agree == o = h \/ {o, h} \subseteq Refusals
             lists == s = "list" /\ op = "add"
             moved == s = "timestamp" /\ t = "duration" /\ op \in {"add", "sub"}
             late  == s = "duration" /\ t = "timestamp" /\ op = "add"
             bytes == s = "bytes" /\ t = "bytes" /\ op = "add"
  <1>1. IsShaped(v) /\ IsShaped(w)
    BY DEF Received
  <1>2. /\ Unsupported \in Refusals /\ Err(NoSuchOverload) \in Refusals /\ Refused(v) \in Refusals
        /\ Overflow \notin Refusals /\ \A x : Ok(x) \notin Refusals
    BY DEF Unsupported, Refusals, Refused, Overflow, Ok, Err, NoSuchOverload
  <1>3. Failed(Unsupported) /\ \A x : ~Failed(Ok(x))
    BY ResultShapes DEF Unsupported
  <1>4. CASE bytes
    <2>1. o = Ok(<<TypeOf(v), v[2] \o w[2]>>)
      BY <1>4 DEF Computed, OfOne
    <2>2. h = Unsupported
      BY <1>4 DEF HostComputed, OfOne
    <2> QED BY <1>3, <1>4, <2>1, <2>2
  <1>5. CASE lists
    <2>1. o \in ListSums(v, w)
      BY <1>5 DEF Computed, OfOne
    <2>2. CASE t = "map"
      <3>1. h = Unsupported
        BY <1>5, <2>2 DEF HostComputed, OfOne
      <3>2. \E x : o = Ok(x)
        BY <2>1, <2>2 DEF ListSums, IsIterable
      <3> QED BY <1>3, <1>5, <2>2, <3>1, <3>2
    <2>3. CASE t = "list"
      <3>1. h = Ok(<<"list", v[2] \o w[2]>>)
        BY <1>5, <2>3 DEF HostComputed, OfOne
      <3>2. o = Ok(Clone(ListOf(v[2] \o w[2])))
        BY <2>1, <2>3 DEF ListSums, IsIterable, Iterations
      <3>3. Clone(v) = v /\ Clone(w) = w => Clone(ListOf(v[2] \o w[2])) = ListOf(v[2] \o w[2])
        BY <1>5, <2>3, SumsAgree
      <3> QED BY <1>5, <2>3, <3>1, <3>2, <3>3 DEF ListOf
    <2>4. CASE t \notin {"list", "map"}
      <3>1. h = Unsupported
        BY <1>5, <2>4 DEF HostComputed, OfOne
      <3>2. o = Err(NoSuchOverload)
        BY <2>1, <2>4 DEF ListSums, IsIterable
      <3> QED BY <1>2, <1>5, <2>4, <3>1, <3>2
    <2> QED BY <2>2, <2>3, <2>4
  <1>6. CASE moved
    <2>1. o = TimestampMoved(op, v, w)
      BY <1>6 DEF Computed, OfOne
    <2>2. h = HostMoved(v[2] + Signed(op, w[2]), CelTimes)
      BY <1>6 DEF HostComputed, OfOne
    <2>3. v[2] + Signed(op, w[2]) \in ChronoTimes => o = h
      BY <2>1, <2>2 DEF TimestampMoved, HostMoved
    <2> QED BY <1>6, <2>3
  <1>7. CASE late
    <2>1. o = Refused(v)
      BY <1>7 DEF Computed, OfOne
    <2>2. h = HostMoved(v[2] + w[2], ChronoTimes)
      BY <1>7 DEF HostComputed, OfOne
    <2>3. h \notin Refusals
      BY <1>2, <2>2 DEF HostMoved
    <2> QED BY <1>2, <1>7, <2>1, <2>3
  <1>8. CASE ~bytes /\ ~lists /\ ~moved /\ ~late
    <2>1. CASE s = t /\ s \in {"int", "uint"}
      <3>1. s = "int" => o = Integers(op, v, w, Ints) /\ h = HostIntegers(op, v, w, Ints)
        BY <2>1 DEF Computed, HostComputed, OfOne
      <3>2. s = "uint" => o = Integers(op, v, w, Uints) /\ h = HostIntegers(op, v, w, Uints)
        BY <2>1 DEF Computed, HostComputed, OfOne
      <3>3. o = h
        BY <1>1, <2>1, <3>1, <3>2, IntegersAgree
      <3> QED BY <1>8, <2>1, <3>3
    <2>2. CASE s = t /\ s \notin {"int", "uint"}
      <3>1. agree
        BY <1>2, <1>8, <2>2 DEF Computed, HostComputed, OfOne
      <3> QED BY <1>8, <2>2, <3>1
    <2>3. CASE s # t
      <3>1. h = Unsupported
        BY <1>8, <2>3 DEF HostComputed, OfOne
      <3>2. o \in {Refused(v), Err(NoSuchOverload)}
        BY <1>8, <2>3 DEF Computed, OfOne
      <3> QED BY <1>2, <1>8, <2>3, <3>1, <3>2
    <2> QED BY <2>1, <2>2, <2>3
  <1> QED BY <1>4, <1>5, <1>6, <1>7, <1>8

LEMMA ComparedAgree ==
  ASSUME NEW v, NEW w
  PROVE  LET types == <<TypeOf(v), TypeOf(w)>>
             o == Compare(v, w)
             h == PartialCmp(v, w)
         IN /\ types = <<"bytes", "bytes">> => ~Failed(o) /\ Failed(h)
            /\ types = <<"null", "null">> => o \in Refusals /\ h \notin Refusals
            /\ types = <<"bytes", "bytes">> \/ types = <<"null", "null">> \/ o = h \/ {o, h} \subseteq Refusals
  <1> DEFINE s == TypeOf(v)
             t == TypeOf(w)
  <1>1. Err("None") \in Refusals /\ Err(NoSuchOverload) \in Refusals /\ \A x : Ok(x) \notin Refusals
    BY DEF Unsupported, Refusals, Ok, Err, NoSuchOverload
  <1>2. (\A x : ~Failed(Ok(x))) /\ Failed(Err("None"))
    BY ResultShapes
  <1>3. CASE AreNumbers(v, w)
    <2>1. s \in NumberTypes
      BY <1>3 DEF AreNumbers
    <2>2. s # "bytes" /\ s # "null"
      BY <2>1 DEF NumberTypes
    <2>3. Compare(v, w) = PartialCmp(v, w)
      BY <1>3 DEF Compare, PartialCmp
    <2> QED BY <2>2, <2>3
  <1>4. CASE ~AreNumbers(v, w) /\ s = t /\ s \in {"bool", "string", "duration", "timestamp"}
    BY <1>4 DEF Compare, PartialCmp, OfOne
  <1>5. CASE ~AreNumbers(v, w) /\ s = "bytes" /\ t = "bytes"
    <2>1. Compare(v, w) = Ok(Order(Place(v), Place(w))) /\ PartialCmp(v, w) = Err("None")
      BY <1>5 DEF Compare, PartialCmp, OfOne
    <2> QED BY <1>2, <1>5, <2>1
  <1>6. CASE ~AreNumbers(v, w) /\ s = "null" /\ t = "null"
    <2>1. Compare(v, w) = Err(NoSuchOverload) /\ PartialCmp(v, w) = Ok(0)
      BY <1>6 DEF Compare, PartialCmp, OfOne
    <2> QED BY <1>1, <1>6, <2>1
  <1>7. CASE ~AreNumbers(v, w) /\ ~(s = t /\ s \in {"bool", "string", "bytes", "duration", "timestamp", "null"})
    <2>1. Compare(v, w) = Err(NoSuchOverload) /\ PartialCmp(v, w) = Err("None")
      BY <1>7 DEF Compare, PartialCmp, OfOne
    <2> QED BY <1>1, <1>7, <2>1
  <1> QED BY <1>3, <1>4, <1>5, <1>6, <1>7

\* What SidesAgree says of a request.
AgreedOn(r) ==
  /\ OnlyByLibrary(r) => ~Failed(outcome) /\ Failed(reply)
  /\ OnlyByHost(r) => outcome \in Refusals /\ reply \notin Refusals
  /\ OnlyByLibrary(r) \/ OnlyByHost(r) \/ Otherwise(r) \/ outcome = reply \/ {outcome, reply} \subseteq Refusals

\* The operands of an operator with two of them.
LEMMA TwoOperands ==
  ASSUME NEW r \in Requests, r.name \in Operators, r.name # "negate"
  PROVE  /\ Operands(r) = r.args /\ DOMAIN r.args = {1, 2}
         /\ Received(r.args[1]) /\ Received(r.args[2])
         /\ ~Otherwise(r) => Clone(r.args[1]) = r.args[1] /\ Clone(r.args[2]) = r.args[2]
  <1>1. r.target = <<>> /\ Len(r.args) = 2
    BY RequestsAssumption
  <1>2. Operands(r) = r.args /\ DOMAIN r.args = 1..2
    BY <1>1, OperandShapes
  <1>3. 1..2 = {1, 2}
    OBVIOUS
  <1>4. \A i \in DOMAIN Operands(r) : Received(Operands(r)[i])
    BY RequestOperands DEF Received
  <1>5. ~Otherwise(r) => \A i \in DOMAIN Operands(r) : Clone(Operands(r)[i]) = Operands(r)[i]
    BY DEF Otherwise, IsCopied
  <1> QED BY <1>2, <1>3, <1>4, <1>5

LEMMA OperatorsAgree ==
  ASSUME NEW r \in Requests, r.name \in Operators, Operated(r, outcome, reply), reply # None
  PROVE  AgreedOn(r)
  <1> DEFINE v == r.args[1]
             w == r.args[2]
  <1>1. r.name # "negate"
    BY DEF Operated, Arithmetic
  <1>2. Received(v) /\ Received(w) /\ (~Otherwise(r) => Clone(v) = v /\ Clone(w) = w)
    BY <1>1, TwoOperands
  <1>3. /\ OnlyByLibrary(r) <=> \/ r.name = "add" /\ (Types2(r) = <<"bytes", "bytes">> \/ Types2(r) = <<"list", "map">>)
                                \/ r.name = "compare" /\ Types2(r) = <<"bytes", "bytes">>
        /\ OnlyByHost(r) <=> \/ r.name = "add" /\ Types2(r) = <<"duration", "timestamp">>
                             \/ r.name = "compare" /\ Types2(r) = <<"null", "null">>
    BY DEF OnlyByLibrary, OnlyByHost, Operators, Arithmetic
  <1>4. Types2(r) = <<TypeOf(v), TypeOf(w)>>
    BY DEF Types2
  <1>5. OutsideChrono(r) => Otherwise(r)
    BY DEF Otherwise
  <1>6. CASE r.name \in Arithmetic
    <2>1. outcome \in Computed(r.name, v, w) /\ reply = HostComputed(r.name, v, w)
      BY <1>6 DEF Operated, Arithmetic
    <2>2. OutsideChrono(r) <=> /\ r.name \in {"add", "sub"} /\ TypeOf(v) = "timestamp" /\ TypeOf(w) = "duration"
                               /\ v[2] + Signed(r.name, w[2]) \notin ChronoTimes
      BY DEF OutsideChrono
    <2>3. r.name # "compare"
      BY <1>6 DEF Arithmetic
    <2> HIDE DEF v, w
    <2> QED BY <1>2, <1>3, <1>4, <1>5, <1>6, <2>1, <2>2, <2>3, ComputedAgree DEF AgreedOn
  <1>7. CASE r.name = "compare"
    <2>1. outcome = Compare(v, w) /\ reply = PartialCmp(v, w)
      BY <1>7 DEF Operated, Arithmetic
    <2> HIDE DEF v, w
    <2> QED BY <1>3, <1>4, <1>7, <2>1, ComparedAgree DEF AgreedOn
  <1>8. CASE r.name = "equals"
    <2>1. outcome = Ok(BoolVal(ValEquals(v, w))) /\ reply = Ok(BoolVal(ValueEquals(v, w)))
      BY <1>8 DEF Operated, Arithmetic
    <2>2. ASSUME ~Otherwise(r) PROVE \A x \in AnywhereIn(v) : IsShaped(x) /\ TypeOf(x) \notin {"struct", "optional"}
      <3>1. \A x \in AnywhereIn(v) : TypeOf(x) \notin {"struct", "optional"}
        <4>1. 1 \in 1..2
          OBVIOUS
        <4> QED BY <1>8, <2>2, <4>1 DEF Otherwise
      <3>2. \A x \in AnywhereIn(v) : IsShaped(x)
        BY <1>2 DEF Received, IsOperand
      <3> QED BY <3>1, <3>2
    <2>3. ~Otherwise(r) => outcome = reply
      BY <2>1, <2>2, EqualitiesAgree
    <2> QED BY <1>3, <1>8, <2>3 DEF AgreedOn
  <1> QED BY <1>1, <1>6, <1>7, <1>8 DEF Operators

\* A host's function of one parameter that is called with one operand, and of two with two.
LEMMA OneParameter ==
  ASSUME AInv, request # <<>>, Asked.name \in DOMAIN Signature, reply # None,
         NEW p, Signature[Asked.name] = <<p>>, p # Rest, p[1] = "this" \/ Asked.target = <<>>,
         Len(Operands(Asked)) = 1
  PROVE  \/ reply = UnexpectedType /\ TypeOf(Left(Asked)) \notin p[2]
         \/ /\ params[1] = FromVal(Left(Asked)) /\ TypeOf(Left(Asked)) \in p[2]
            /\ reply = Returned(HostBody(Asked.name, params, Asked))
  <1> DEFINE r   == Asked
             sig == Signature[r.name]
             n   == Len(params)
  <1>1. r \in Requests /\ r.name \notin Operators
    BY AskedShapes, SignatureShapes DEF AInv, IInv
  <1>2. Len(sig) = 1 /\ sig[1] = p
    OBVIOUS
  <1>3. /\ sig \in Seq(Parameters) /\ n \in Nat /\ n <= Len(sig) /\ DOMAIN params = 1..n
        /\ \A i \in DOMAIN params : params[i] = FromVal(OperandFor(sig, i, r)[1]) /\ TypeOf(params[i]) \in sig[i][2]
        /\ n < Len(sig) =>
             IF OperandFor(sig, n + 1, r) = <<>>
             THEN reply = Err(IF sig[n + 1][1] = "this" THEN "MissingArgumentOrTarget" ELSE "InvalidArgumentCount")
             ELSE reply = UnexpectedType /\ TypeOf(OperandFor(sig, n + 1, r)[1]) \notin sig[n + 1][2]
    BY AllParameters DEF AInv
  <1>4. n = Len(sig) => reply = Returned(HostBody(r.name, params, r))
    BY <1>1 DEF AInv, AnswersAsAsked
  <1> HIDE DEF r
  <1>5. OperandFor(sig, 1, r) = <<Left(r)>> /\ IsNested(Left(r))
    <2>1. OperandFor(sig, 1, r) = IF Len(Operands(r)) = 0 THEN <<>> ELSE <<Left(r)>>
      <3>1. Len(sig) >= 1 /\ sig[1] # Rest /\ (sig[1][1] = "this" \/ r.target = <<>>)
        BY <1>2 DEF r
      <3> HIDE DEF sig
      <3> QED BY <1>1, <1>3, <3>1, FirstOperand
    <2>2. Len(Operands(r)) = 1
      BY DEF r
    <2>3. 1 \in DOMAIN Operands(r)
      BY <1>1, <2>2, OperandShapes
    <2> QED BY <1>1, <2>1, <2>2, <2>3, RequestOperands DEF Left
  <1>6. TypeOf(FromVal(Left(r))) = TypeOf(Left(r))
    BY <1>5, FromValKeepsType
  <1>7. CASE n = 0
    <2>1. n < Len(sig) /\ n + 1 = 1
      BY <1>2, <1>7
    <2>2. reply = UnexpectedType /\ TypeOf(Left(r)) \notin p[2]
      <3> HIDE DEF sig, n
      <3> QED BY <1>2, <1>3, <1>5, <2>1
    <2> QED BY <2>2 DEF r
  <1>8. CASE n = 1
    <2>1. 1 \in DOMAIN params
      BY <1>3, <1>8
    <2>2. params[1] = FromVal(Left(r)) /\ TypeOf(Left(r)) \in p[2]
      <3> HIDE DEF sig
      <3> QED BY <1>2, <1>3, <1>5, <1>6, <2>1
    <2> QED BY <1>2, <1>4, <1>8, <2>2 DEF r
  <1>9. n = 0 \/ n = 1
    BY <1>2, <1>3
  <1> QED BY <1>7, <1>8, <1>9

LEMMA TwoParameters ==
  ASSUME AInv, request # <<>>, Asked.name \in DOMAIN Signature, reply # None,
         NEW p, NEW q, Signature[Asked.name] = <<p, q>>, p # Rest, p[1] = "this", q # Rest, q[1] = "argument",
         Len(Operands(Asked)) = 2, TypeOf(Left(Asked)) \in p[2], TypeOf(Right(Asked)) \in q[2]
  PROVE  /\ params[1] = FromVal(Left(Asked)) /\ params[2] = FromVal(Right(Asked))
         /\ reply = Returned(HostBody(Asked.name, params, Asked))
  <1> DEFINE r   == Asked
             sig == Signature[r.name]
             n   == Len(params)
  <1>1. r \in Requests /\ r.name \notin Operators
    BY AskedShapes, SignatureShapes DEF AInv, IInv
  <1>2. Len(sig) = 2 /\ sig[1] = p /\ sig[2] = q
    OBVIOUS
  <1>3. /\ sig \in Seq(Parameters) /\ n \in Nat /\ n <= Len(sig) /\ DOMAIN params = 1..n
        /\ \A i \in DOMAIN params : params[i] = FromVal(OperandFor(sig, i, r)[1]) /\ TypeOf(params[i]) \in sig[i][2]
        /\ n < Len(sig) =>
             IF OperandFor(sig, n + 1, r) = <<>>
             THEN reply = Err(IF sig[n + 1][1] = "this" THEN "MissingArgumentOrTarget" ELSE "InvalidArgumentCount")
             ELSE reply = UnexpectedType /\ TypeOf(OperandFor(sig, n + 1, r)[1]) \notin sig[n + 1][2]
    BY AllParameters DEF AInv
  <1>4. n = Len(sig) => reply = Returned(HostBody(r.name, params, r))
    BY <1>1 DEF AInv, AnswersAsAsked
  <1> HIDE DEF r
  <1>5. OperandFor(sig, 1, r) = <<Left(r)>> /\ OperandFor(sig, 2, r) = <<Right(r)>>
    <2>1. Len(Operands(r)) = 2
      BY DEF r
    <2>2. Len(sig) >= 1
      BY <1>2
    <2> HIDE DEF sig
    <2>3. OperandFor(sig, 1, r) = IF Len(Operands(r)) = 0 THEN <<>> ELSE <<Left(r)>>
      BY <1>1, <1>2, <1>3, <2>2, FirstOperand
    <2>4. OperandFor(sig, 2, r) = IF Len(Operands(r)) < 2 THEN <<>> ELSE <<Right(r)>>
      BY <1>1, <1>2, <1>3, SecondOperand
    <2> QED BY <2>1, <2>3, <2>4
  <1>6. TypeOf(Left(r)) \in p[2] /\ TypeOf(Right(r)) \in q[2]
    BY DEF r
  <1>7. n \notin {0, 1}
    <2>1. n = 0 => n < Len(sig) /\ n + 1 = 1
      BY <1>2
    <2>2. n = 1 => n < Len(sig) /\ n + 1 = 2
      BY <1>2
    <2> HIDE DEF sig, n
    <2> QED BY <1>2, <1>3, <1>5, <1>6, <2>1, <2>2
  <1>8. n = 2
    BY <1>2, <1>3, <1>7
  <1>9. 1 \in DOMAIN params /\ 2 \in DOMAIN params
    BY <1>3, <1>8
  <1>10. params[1] = FromVal(Left(r)) /\ params[2] = FromVal(Right(r))
    <2> HIDE DEF sig
    <2> QED BY <1>3, <1>5, <1>9
  <1> QED BY <1>2, <1>4, <1>8, <1>10 DEF r

\* A function of the library that a host has registered too has been answered by both.
BothAnswered == AInv /\ request # <<>> /\ reply # None /\ outcome = Dispatched(Asked)

\* A result that a host gives back as it is.
IsPlain(result) == Failed(result) \/ \E v : result = Ok(v) /\ TypeOf(v) \in PlainTypes

LEMMA PlainReturns ==
  ASSUME NEW result, IsPlain(result)
  PROVE  Returned(result) = result
  BY PlainConverts DEF IsPlain, Returned

LEMMA PlainResults ==
  /\ IsPlain(FunctionError) /\ IsPlain(UnexpectedType)
  /\ \A x : /\ IsPlain(Ok(IntOf(x))) /\ IsPlain(Ok(UintOf(x))) /\ IsPlain(Ok(DoubleOf(x)))
            /\ IsPlain(Ok(BoolVal(x))) /\ IsPlain(Ok(BytesOf(x)))
  /\ \A result : /\ IsPlain(Outcome(IntOf, result)) /\ IsPlain(Outcome(UintOf, result))
                 /\ IsPlain(Outcome(DoubleOf, result)) /\ IsPlain(Outcome(DurationOf, result))
  /\ \A text, pattern : IsPlain(Matching(text, pattern))
  <1>1. IsPlain(FunctionError) /\ IsPlain(UnexpectedType)
    BY ResultShapes DEF IsPlain, FunctionError, UnexpectedType
  <1>2. \A v : TypeOf(v) \in PlainTypes => IsPlain(Ok(v))
    BY DEF IsPlain
  <1>3. \A x : /\ IsPlain(Ok(IntOf(x))) /\ IsPlain(Ok(UintOf(x))) /\ IsPlain(Ok(DoubleOf(x)))
               /\ IsPlain(Ok(BoolVal(x))) /\ IsPlain(Ok(BytesOf(x))) /\ IsPlain(Ok(DurationOf(x)))
    BY <1>2, GivesPlain
  <1>4. \A result : Failed(result) => IsPlain(result)
    BY DEF IsPlain
  <1>5. \A result : /\ IsPlain(Outcome(IntOf, result)) /\ IsPlain(Outcome(UintOf, result))
                    /\ IsPlain(Outcome(DoubleOf, result)) /\ IsPlain(Outcome(DurationOf, result))
    BY <1>3, <1>4 DEF Outcome
  <1>6. \A text, pattern : IsPlain(Matching(text, pattern))
    BY <1>1, <1>3 DEF Matching
  <1> QED BY <1>1, <1>3, <1>5, <1>6

\* The operands of a call.
LEMMA CalledOperands ==
  ASSUME NEW r \in Requests, Len(Operands(r)) \in {1, 2}
  PROVE  /\ Received(Left(r)) /\ TypeOf(Left(r)) \in AnyType
         /\ ~Otherwise(r) => Clone(Left(r)) = Left(r) /\ FromVal(Left(r)) = Left(r)
         /\ r.target # <<>> => r.target[1] = Left(r)
         /\ r.target = <<>> => r.args # <<>> /\ r.args[1] = Left(r)
         /\ Len(Operands(r)) = 2 =>
              /\ Received(Right(r)) /\ TypeOf(Right(r)) \in AnyType
              /\ ~Otherwise(r) => Clone(Right(r)) = Right(r) /\ FromVal(Right(r)) = Right(r)
              /\ r.target # <<>> => r.args[1] = Right(r)
  <1> DEFINE a == Operands(r)
  <1>1. \A i \in DOMAIN a : Received(a[i])
    BY RequestOperands DEF Received
  <1>2. /\ DOMAIN a = 1..Len(a) /\ Len(a) = Len(r.target) + Len(r.args) /\ Len(r.args) \in Nat
        /\ r.target = <<>> => a = r.args
        /\ r.target # <<>> => Len(r.target) = 1 /\ a[1] = r.target[1] /\ \A i \in 1..Len(r.args) : a[i + 1] = r.args[i]
    BY OperandShapes, RequestShapes
  <1>3. ~Otherwise(r) => \A i \in DOMAIN a : Clone(a[i]) = a[i]
    BY DEF Otherwise, IsCopied
  <1>4. \A x : Received(x) => TypeOf(x) \in AnyType /\ (Clone(x) = x => FromVal(x) = x)
    BY OperandsConvert DEF Received, IsShaped
  <1>5. Len(a) \in {1, 2}
    OBVIOUS
  <1> HIDE DEF a
  <1>6. 1 \in DOMAIN a /\ (Len(a) = 2 => 2 \in DOMAIN a)
    <2>1. CASE Len(a) = 1
      <3>1. 1 \in 1..1
        OBVIOUS
      <3> QED BY <1>2, <2>1, <3>1
    <2>2. CASE Len(a) = 2
      <3>1. 1 \in 1..2 /\ 2 \in 1..2
        OBVIOUS
      <3> QED BY <1>2, <2>2, <3>1
    <2> QED BY <1>5, <2>1, <2>2
  <1>7. Left(r) = a[1] /\ Right(r) = a[2]
    BY DEF Left, Right, a
  <1>8. r.target # <<>> /\ Len(a) = 2 => r.args[1] = a[2]
    <2> SUFFICES ASSUME r.target # <<>>, Len(a) = 2 PROVE r.args[1] = a[2]
      OBVIOUS
    <2>1. Len(r.target) = 1
      BY <1>2
    <2>2. \A n \in Nat : 2 = 1 + n => n = 1
      OBVIOUS
    <2>3. Len(r.args) = 1
      BY <1>2, <2>1, <2>2
    <2>4. 1 \in 1..Len(r.args) /\ 1 + 1 = 2
      BY <2>3
    <2>5. \A i \in 1..Len(r.args) : a[i + 1] = r.args[i]
      BY <1>2
    <2> QED BY <2>4, <2>5
  <1>9. r.target = <<>> => r.args # <<>> /\ r.args[1] = a[1]
    <2> SUFFICES ASSUME r.target = <<>> PROVE r.args # <<>> /\ r.args[1] = a[1]
      OBVIOUS
    <2>1. a = r.args
      BY <1>2
    <2>2. a # <<>>
      <3>1. Len(<<>>) = 0 /\ 0 \notin {1, 2}
        OBVIOUS
      <3> QED BY <1>5, <3>1
    <2> QED BY <2>1, <2>2
  <1>10. r.target # <<>> => r.target[1] = a[1]
    BY <1>2
  <1> QED BY <1>1, <1>3, <1>4, <1>6, <1>7, <1>8, <1>9, <1>10, <1>5 DEF a

\* What only the library answers of the functions.
LEMMA ByLibrary ==
  ASSUME NEW r \in Requests, r.name \notin Operators
  PROVE  /\ ~OnlyByHost(r)
         /\ r.name \in {"size", "bytes"} => (OnlyByLibrary(r) <=> TypeOf(Left(r)) = "bytes")
         /\ r.name = "duration" => (OnlyByLibrary(r) <=> IsArg(r, "duration"))
         /\ r.name \in DOMAIN Clocks => (OnlyByLibrary(r) <=> TypeOf(r.target[1]) = "timestamp")
         /\ r.name = "int" => (OnlyByLibrary(r) <=> \/ IsArg(r, "uint") /\ r.args[1][2] > IntMax
                                                    \/ IsArg(r, "double") /\ OutOf(r.args[1][2], -IntMax - 1, IntMax))
         /\ r.name = "uint" => (OnlyByLibrary(r) <=> \/ IsArg(r, "int") /\ r.args[1][2] < 0
                                                     \/ IsArg(r, "double") /\ OutOf(r.args[1][2], 0, UintMax))
         /\ r.name = "or" => (OnlyByLibrary(r) <=> r.target[1] = OptNone /\ ~IsOptional(r.args[1]))
         /\ r.name \in {"string", "double", "contains", "matches", "getDate", "optional.none", "optional.of",
                        "optional.ofNonZeroValue", "value", "hasValue", "orValue"} => ~OnlyByLibrary(r)
  <1>1. r.name \notin {"add", "compare"}
    BY DEF Operators, Arithmetic
  <1>2. DOMAIN Clocks = {"getHours", "getMinutes", "getSeconds", "getMilliseconds"}
    BY DEF Clocks
  <1>3. ~OnlyByHost(r)
    BY <1>1 DEF OnlyByHost
  <1> HIDE DEF Clocks, IsArg, OutOf, IsOptional
  <1>4. /\ r.name \in {"size", "bytes"} => (OnlyByLibrary(r) <=> TypeOf(Left(r)) = "bytes")
        /\ r.name = "duration" => (OnlyByLibrary(r) <=> IsArg(r, "duration"))
    BY <1>1 DEF OnlyByLibrary, Left
  <1>5. r.name \in DOMAIN Clocks => (OnlyByLibrary(r) <=> TypeOf(r.target[1]) = "timestamp")
    BY <1>1, <1>2 DEF OnlyByLibrary
  <1>6. r.name = "int" => (OnlyByLibrary(r) <=> \/ IsArg(r, "uint") /\ r.args[1][2] > IntMax
                                                \/ IsArg(r, "double") /\ OutOf(r.args[1][2], -IntMax - 1, IntMax))
    BY <1>1 DEF OnlyByLibrary
  <1>7. r.name = "uint" => (OnlyByLibrary(r) <=> \/ IsArg(r, "int") /\ r.args[1][2] < 0
                                                 \/ IsArg(r, "double") /\ OutOf(r.args[1][2], 0, UintMax))
    BY <1>1 DEF OnlyByLibrary
  <1>8. r.name = "or" => (OnlyByLibrary(r) <=> r.target[1] = OptNone /\ ~IsOptional(r.args[1]))
    BY <1>1 DEF OnlyByLibrary
  <1>9. r.name \in {"string", "double", "contains", "matches", "getDate", "optional.none", "optional.of",
                    "optional.ofNonZeroValue", "value", "hasValue", "orValue"} => ~OnlyByLibrary(r)
    BY <1>1 DEF OnlyByLibrary
  <1> QED BY <1>3, <1>4, <1>5, <1>6, <1>7, <1>8, <1>9

\* Family by family of the functions.
LEMMA SizesAgree ==
  ASSUME BothAnswered, SizeCall(Asked)
  PROVE  AgreedOn(Asked)
  <1> DEFINE r == Asked
             v == Left(r)
  <1>1. r \in Requests /\ r.name \notin Operators
    <2>1. r \in Requests /\ r.name = "size"
      BY AskedShapes DEF BothAnswered, AInv, IInv, SizeCall
    <2> QED BY <2>1 DEF Operators, Arithmetic
  <1>2. Len(Operands(r)) = 1 /\ TypeOf(v) \in {"bytes", "list", "map", "string"} /\ outcome = Ok(IntOf(SizeOf(v)))
        /\ r.name = "size"
    BY DEF SizeCall, OfOneOf, BothAnswered
  <1>3. r.name \in DOMAIN Signature /\ Signature[r.name] = <<This>> /\ This # Rest /\ This[1] = "this" /\ This[2] = AnyType
    BY <1>2 DEF Signature, HostSignatures, This, ThisOf, Rest
  <1>4. params[1] = FromVal(v) /\ reply = Returned(HostBody(r.name, params, r))
    <2>1. TypeOf(v) \in AnyType
      BY <1>2 DEF AnyType
    <2> QED BY <1>2, <1>3, <2>1, OneParameter DEF BothAnswered
  <1>5. HostBody(r.name, params, r) = HostSize(FromVal(v))
    BY <1>2, <1>4 DEF HostBody
  <1> HIDE DEF r
  <1>6. Received(v) /\ (~Otherwise(r) => FromVal(v) = v)
    BY <1>1, <1>2, CalledOperands
  <1>7. TypeOf(FromVal(v)) = TypeOf(v)
    BY <1>6, FromValKeepsType DEF Received
  <1>8. /\ OnlyByLibrary(r) <=> TypeOf(v) = "bytes"
        /\ ~OnlyByHost(r)
    BY <1>1, <1>2, ByLibrary
  <1>9. CASE TypeOf(v) = "bytes"
    <2>1. reply = FunctionError
      BY <1>4, <1>5, <1>7, <1>9, PlainResults, PlainReturns DEF HostSize
    <2>2. Failed(reply) /\ ~Failed(outcome)
      BY <1>2, <2>1, ResultShapes DEF FunctionError
    <2> QED BY <1>8, <1>9, <2>2 DEF AgreedOn, r
  <1>10. CASE TypeOf(v) # "bytes"
    <2>1. ~Otherwise(r) => reply = outcome
      BY <1>2, <1>4, <1>5, <1>6, <1>10, PlainResults, PlainReturns DEF HostSize
    <2> QED BY <1>8, <1>10, <2>1 DEF AgreedOn, r
  <1> QED BY <1>9, <1>10

LEMMA BytesAgree ==
  ASSUME BothAnswered, BytesCall(Asked)
  PROVE  AgreedOn(Asked)
  <1> DEFINE r == Asked
             v == Left(r)
  <1>1. r \in Requests /\ r.name \notin Operators
    <2>1. r \in Requests /\ r.name = "bytes"
      BY AskedShapes DEF BothAnswered, AInv, IInv, BytesCall
    <2> QED BY <2>1 DEF Operators, Arithmetic
  <1>2. /\ Len(Operands(r)) = 1 /\ r.name = "bytes" /\ r.target = <<>>
        /\ \/ TypeOf(v) = "string" /\ outcome = Ok(BytesOf(v[2]))
           \/ TypeOf(v) = "bytes" /\ outcome = Ok(v)
    BY DEF BytesCall, OfOneOf, BothAnswered
  <1>3. r.name \in DOMAIN Signature /\ Signature[r.name] = <<ArgOf({"string"})>> /\ ArgOf({"string"}) # Rest
        /\ ArgOf({"string"})[2] = {"string"}
    BY <1>2 DEF Signature, HostSignatures, ArgOf, Rest
  <1>4. \/ reply = UnexpectedType /\ TypeOf(v) # "string"
        \/ params[1] = FromVal(v) /\ TypeOf(v) = "string" /\ reply = Returned(HostBody(r.name, params, r))
    BY <1>2, <1>3, OneParameter DEF BothAnswered
  <1>5. HostBody(r.name, params, r) = Ok(BytesOf(params[1][2]))
    BY <1>2 DEF HostBody
  <1> HIDE DEF r
  <1>6. Received(v) /\ (~Otherwise(r) => FromVal(v) = v)
    BY <1>1, <1>2, CalledOperands
  <1>7. /\ OnlyByLibrary(r) <=> TypeOf(v) = "bytes"
        /\ ~OnlyByHost(r)
    BY <1>1, <1>2, ByLibrary
  <1>8. CASE TypeOf(v) = "bytes"
    <2>1. Failed(reply) /\ ~Failed(outcome)
      BY <1>2, <1>4, <1>8, ResultShapes DEF UnexpectedType
    <2> QED BY <1>7, <1>8, <2>1 DEF AgreedOn, r
  <1>9. CASE TypeOf(v) # "bytes"
    <2>1. ~Otherwise(r) => reply = outcome
      BY <1>2, <1>4, <1>5, <1>6, <1>9, PlainResults, PlainReturns
    <2> QED BY <1>7, <1>9, <2>1 DEF AgreedOn, r
  <1> QED BY <1>8, <1>9

LEMMA StringsAgree ==
  ASSUME BothAnswered, StringCall(Asked)
  PROVE  AgreedOn(Asked)
  <1> DEFINE r == Asked
             v == Left(r)
  <1>1. r \in Requests /\ r.name \notin Operators
    <2>1. r \in Requests /\ r.name = "string"
      BY AskedShapes DEF BothAnswered, AInv, IInv, StringCall
    <2> QED BY <2>1 DEF Operators, Arithmetic
  <1>2. Len(Operands(r)) = 1 /\ TypeOf(v) \in {"string", "int", "uint", "double", "bytes", "timestamp", "duration"}
        /\ outcome = String(v, r.how) /\ r.name = "string"
    BY DEF StringCall, OfOneOf, BothAnswered
  <1>3. r.name \in DOMAIN Signature /\ Signature[r.name] = <<This>> /\ This # Rest /\ This[1] = "this" /\ This[2] = AnyType
    BY <1>2 DEF Signature, HostSignatures, This, ThisOf, Rest
  <1>4. params[1] = FromVal(v) /\ reply = Returned(HostBody(r.name, params, r))
    <2>1. TypeOf(v) \in AnyType
      BY <1>2 DEF AnyType
    <2> QED BY <1>2, <1>3, <2>1, OneParameter DEF BothAnswered
  <1>5. HostBody(r.name, params, r) = HostString(FromVal(v), r.how)
    BY <1>2, <1>4 DEF HostBody
  <1> HIDE DEF r
  <1>6. Received(v)
    BY <1>1, <1>2, CalledOperands
  <1>7. reply = outcome
    BY <1>1, <1>2, <1>4, <1>5, <1>6, StringReplies DEF Received
  <1>8. ~OnlyByLibrary(r) /\ ~OnlyByHost(r)
    BY <1>1, <1>2, ByLibrary
  <1> QED BY <1>7, <1>8 DEF AgreedOn, r

\* The casts of whole numbers, and the checks before those of a host.
LEMMA WholesAgree ==
  ASSUME NEW v, IsShaped(v), TypeOf(v) \in {"int", "uint", "double", "string"}
  PROVE  /\ IF (TypeOf(v) = "uint" /\ v[2] > IntMax) \/ (TypeOf(v) = "double" /\ OutOf(v[2], -IntMax - 1, IntMax))
            THEN HostInt(v) = FunctionError /\ ~Failed(IntOp(v))
            ELSE HostInt(v) = IntOp(v)
         /\ IF (TypeOf(v) = "int" /\ v[2] < 0) \/ (TypeOf(v) = "double" /\ OutOf(v[2], 0, UintMax))
            THEN HostUint(v) = FunctionError /\ ~Failed(UintOp(v))
            ELSE HostUint(v) = UintOp(v)
         /\ IsPlain(HostInt(v)) /\ IsPlain(HostUint(v))
  <1> DEFINE n == v[2]
  <1>1. IntMax \in Nat /\ UintMax = 2 * IntMax + 1 /\ UintMax \in Nat
    BY WidthsAssumption
  <1>2. \A x : ~Failed(Ok(x))
    BY ResultShapes
  <1>3. CASE TypeOf(v) = "int"
    <2>1. v = IntOf(n) /\ n \in Ints
      BY <1>3 DEF IsShaped, IntOf
    <2>2. HostInt(v) = IF n \in -IntMax - 1..IntMax THEN Ok(IntOf(n)) ELSE FunctionError
      BY <1>3 DEF HostInt, HostWhole
    <2>3. HostUint(v) = IF n \in 0..UintMax THEN Ok(UintOf(n)) ELSE FunctionError
      BY <1>3 DEF HostUint, HostWhole
    <2>4. IntOp(v) = Ok(v) /\ UintOp(v) = Ok(UintOf(n % (UintMax + 1)))
      BY <1>3 DEF IntOp, UintOp
    <2>5. n \in Int /\ -IntMax - 1 <= n /\ n <= IntMax
      BY <1>1, <2>1 DEF Ints
    <2> HIDE DEF n
    <2>6. n \in -IntMax - 1..IntMax
      BY <1>1, <2>5
    <2>7. n < 0 => n \notin 0..UintMax
      BY <2>5
    <2>8. ~(n < 0) => n \in 0..UintMax /\ n % (UintMax + 1) = n
      <3>1. ASSUME ~(n < 0) PROVE n \in Nat /\ n < UintMax + 1 /\ UintMax + 1 \in Nat /\ n <= UintMax
        BY <1>1, <2>5, <3>1
      <3>2. \A m \in Nat : n \in Nat /\ n < m => n % m = n
        BY WithinModulus
      <3> QED BY <3>1, <3>2
    <2> QED BY <1>2, <1>3, <2>1, <2>2, <2>3, <2>4, <2>6, <2>7, <2>8, PlainResults DEF n
  <1>4. CASE TypeOf(v) = "uint"
    <2>1. v = UintOf(n) /\ n \in Uints
      BY <1>4 DEF IsShaped, UintOf
    <2>2. HostInt(v) = IF n \in -IntMax - 1..IntMax THEN Ok(IntOf(n)) ELSE FunctionError
      BY <1>4 DEF HostInt, HostWhole
    <2>3. HostUint(v) = IF n \in 0..UintMax THEN Ok(UintOf(n)) ELSE FunctionError
      BY <1>4 DEF HostUint, HostWhole
    <2>4. IntOp(v) = Ok(IntOf(IF n > IntMax THEN n - UintMax - 1 ELSE n)) /\ UintOp(v) = Ok(v)
      BY <1>4 DEF IntOp, UintOp
    <2>5. n \in Nat /\ n <= UintMax
      BY <1>1, <2>1 DEF Uints
    <2> HIDE DEF n
    <2>6. n \in 0..UintMax /\ (n > IntMax <=> n \notin -IntMax - 1..IntMax)
      BY <1>1, <2>5
    <2> QED BY <1>2, <1>4, <2>1, <2>2, <2>3, <2>4, <2>6, PlainResults DEF n
  <1>5. CASE TypeOf(v) = "double"
    <2>1. HostInt(v) = IF OutOf(n, -IntMax - 1, IntMax) THEN FunctionError ELSE Ok(IntOf(Cast(n, -IntMax - 1, IntMax)))
      BY <1>5 DEF HostInt, HostWhole
    <2>2. HostUint(v) = IF OutOf(n, 0, UintMax) THEN FunctionError ELSE Ok(UintOf(Cast(n, 0, UintMax)))
      BY <1>5 DEF HostUint, HostWhole
    <2>3. IntOp(v) = Ok(IntOf(Cast(n, -IntMax - 1, IntMax))) /\ UintOp(v) = Ok(UintOf(Cast(n, 0, UintMax)))
      BY <1>5 DEF IntOp, UintOp
    <2> QED BY <1>2, <1>5, <2>1, <2>2, <2>3, PlainResults
  <1>6. CASE TypeOf(v) = "string"
    <2>1. HostInt(v) = Outcome(IntOf, ParseWhole(n, -IntMax - 1, IntMax)) /\ IntOp(v) = HostInt(v)
      BY <1>6 DEF HostInt, HostWhole, IntOp
    <2>2. HostUint(v) = Outcome(UintOf, ParseWhole(n, 0, UintMax)) /\ UintOp(v) = HostUint(v)
      BY <1>6 DEF HostUint, HostWhole, UintOp
    <2> QED BY <1>6, <2>1, <2>2, PlainResults
  <1> QED BY <1>3, <1>4, <1>5, <1>6

LEMMA NumbersAgree ==
  ASSUME BothAnswered, NumberCall(Asked)
  PROVE  AgreedOn(Asked)
  <1> DEFINE r == Asked
             v == Left(r)
  <1>1. r \in Requests /\ r.name \notin Operators /\ r.name \in {"double", "int", "uint"}
    <2>1. r \in Requests /\ r.name \in {"double", "int", "uint"}
      BY AskedShapes DEF BothAnswered, AInv, IInv, NumberCall
    <2> QED BY <2>1 DEF Operators, Arithmetic
  <1>2. /\ Len(Operands(r)) = 1 /\ TypeOf(v) \in {"double", "int", "uint", "string"} /\ r.target = <<>>
        /\ \/ r.name = "double" /\ outcome = Double(v)
           \/ r.name = "int" /\ outcome = IntOp(v)
           \/ r.name = "uint" /\ outcome = UintOp(v)
    BY DEF NumberCall, OfOneOf, BothAnswered
  <1>3. r.name \in DOMAIN Signature /\ Signature[r.name] = <<This>> /\ This # Rest /\ This[1] = "this" /\ This[2] = AnyType
    BY <1>1 DEF Signature, HostSignatures, This, ThisOf, Rest
  <1>4. params[1] = FromVal(v) /\ reply = Returned(HostBody(r.name, params, r))
    <2>1. TypeOf(v) \in AnyType
      BY <1>2 DEF AnyType
    <2> QED BY <1>2, <1>3, <2>1, OneParameter DEF BothAnswered
  <1>5. FromVal(v) = v
    BY <1>2, PlainConverts DEF PlainTypes
  <1>6. /\ r.name = "double" => HostBody(r.name, params, r) = HostDouble(v)
        /\ r.name = "int" => HostBody(r.name, params, r) = HostInt(v)
        /\ r.name = "uint" => HostBody(r.name, params, r) = HostUint(v)
    BY <1>4, <1>5 DEF HostBody
  <1> HIDE DEF r
  <1>7. IsShaped(v) /\ r.args # <<>> /\ r.args[1] = v
    BY <1>1, <1>2, CalledOperands DEF Received
  <1>8. \A type : IsArg(r, type) <=> TypeOf(v) = type
    BY <1>7 DEF IsArg
  <1>9. CASE r.name = "double"
    <2>1. HostDouble(v) = Double(v) /\ IsPlain(Double(v))
      BY <1>2, PlainResults DEF HostDouble, NumberTypes, Double
    <2>2. reply = outcome
      BY <1>2, <1>4, <1>6, <1>9, <2>1, PlainReturns
    <2> QED BY <1>1, <1>9, <2>2, ByLibrary DEF AgreedOn, r
  <1>10. CASE r.name = "int"
    <2>1. reply = HostInt(v) /\ outcome = IntOp(v)
      BY <1>2, <1>4, <1>6, <1>7, <1>10, WholesAgree, PlainReturns
    <2>2. OnlyByLibrary(r) <=> (TypeOf(v) = "uint" /\ v[2] > IntMax) \/ (TypeOf(v) = "double" /\ OutOf(v[2], -IntMax - 1, IntMax))
      BY <1>1, <1>7, <1>8, <1>10, ByLibrary
    <2>3. ~OnlyByHost(r) /\ Failed(FunctionError)
      BY <1>1, ByLibrary, ResultShapes DEF FunctionError
    <2> HIDE DEF v
    <2> QED BY <1>2, <1>7, <2>1, <2>2, <2>3, WholesAgree DEF AgreedOn, r
  <1>11. CASE r.name = "uint"
    <2>1. reply = HostUint(v) /\ outcome = UintOp(v)
      BY <1>2, <1>4, <1>6, <1>7, <1>11, WholesAgree, PlainReturns
    <2>2. OnlyByLibrary(r) <=> (TypeOf(v) = "int" /\ v[2] < 0) \/ (TypeOf(v) = "double" /\ OutOf(v[2], 0, UintMax))
      BY <1>1, <1>7, <1>8, <1>11, ByLibrary
    <2>3. ~OnlyByHost(r) /\ Failed(FunctionError)
      BY <1>1, ByLibrary, ResultShapes DEF FunctionError
    <2> HIDE DEF v
    <2> QED BY <1>2, <1>7, <2>1, <2>2, <2>3, WholesAgree DEF AgreedOn, r
  <1> QED BY <1>1, <1>9, <1>10, <1>11

LEMMA TextsAgree ==
  ASSUME BothAnswered, TextCall(Asked), Asked.name \in DOMAIN HostSignatures
  PROVE  AgreedOn(Asked)
  <1> DEFINE r == Asked
             v == Left(r)
             w == Right(r)
  <1>1. r \in Requests /\ r.name \notin Operators /\ r.name \in {"contains", "matches"}
    <2>1. r \in Requests
      BY AskedShapes DEF BothAnswered, AInv, IInv
    <2>2. r.name \in {"contains", "matches"}
      BY DEF TextCall, HostSignatures
    <2> QED BY <2>1, <2>2 DEF Operators, Arithmetic
  <1>2. /\ Len(Operands(r)) = 2 /\ TypeOf(v) = "string" /\ TypeOf(w) = "string"
        /\ \/ r.name = "contains" /\ outcome = Ok(BoolVal(OccursIn(w[2], v[2])))
           \/ r.name = "matches" /\ outcome = Matching(v[2], w[2])
    BY <1>1 DEF TextCall, OfTexts, BothAnswered
  <1> DEFINE p == IF r.name = "contains" THEN This ELSE ThisOf({"string"})
             q == IF r.name = "contains" THEN Arg ELSE ArgOf({"string"})
  <1>3. /\ r.name \in DOMAIN Signature /\ Signature[r.name] = <<p, q>>
        /\ p # Rest /\ p[1] = "this" /\ "string" \in p[2]
        /\ q # Rest /\ q[1] = "argument" /\ "string" \in q[2]
    BY <1>1 DEF Signature, HostSignatures, This, ThisOf, Arg, ArgOf, Rest, AnyType
  <1> HIDE DEF p, q
  <1>4. params[1] = FromVal(v) /\ params[2] = FromVal(w) /\ reply = Returned(HostBody(r.name, params, r))
    <2>1. TypeOf(v) \in p[2] /\ TypeOf(w) \in q[2]
      BY <1>2, <1>3
    <2> QED BY <1>2, <1>3, <2>1, TwoParameters DEF BothAnswered
  <1>5. FromVal(v) = v /\ FromVal(w) = w
    BY <1>2, PlainConverts DEF PlainTypes
  <1>6. /\ r.name = "contains" => HostBody(r.name, params, r) = HostContains(v, w)
        /\ r.name = "matches" => HostBody(r.name, params, r) = Matching(v[2], w[2])
    BY <1>4, <1>5 DEF HostBody
  <1>7. HostContains(v, w) = Ok(BoolVal(OccursIn(w[2], v[2])))
    <2> HIDE DEF v, w
    <2>1. HostContains(v, w) = Ok(BoolVal(TypeOf(w) = "string" /\ (TypeOf(w) = "string" => OccursIn(w[2], v[2]))))
      BY <1>2 DEF HostContains
    <2>2. (TypeOf(w) = "string" /\ (TypeOf(w) = "string" => OccursIn(w[2], v[2]))) = OccursIn(w[2], v[2])
      BY <1>2 DEF OccursIn
    <2> QED BY <2>1, <2>2
  <1> HIDE DEF r
  <1>8. reply = outcome
    BY <1>1, <1>2, <1>4, <1>6, <1>7, PlainResults, PlainReturns
  <1>9. ~OnlyByLibrary(r) /\ ~OnlyByHost(r)
    BY <1>1, ByLibrary
  <1> QED BY <1>8, <1>9 DEF AgreedOn, r

LEMMA TimesAgree ==
  ASSUME BothAnswered, TimeCall(Asked), Asked.name \in DOMAIN HostSignatures
  PROVE  AgreedOn(Asked)
  <1> DEFINE r == Asked
             v == Left(r)
  <1>1. r \in Requests /\ r.name \notin Operators /\ r.name = "duration" /\ r.target = <<>>
    <2>1. r \in Requests
      BY AskedShapes DEF BothAnswered, AInv, IInv
    <2>2. r.name = "duration" /\ r.target = <<>>
      BY DEF TimeCall, HostSignatures
    <2> QED BY <2>1, <2>2 DEF Operators, Arithmetic
  <1>2. /\ Len(Operands(r)) = 1
        /\ \/ TypeOf(v) = "string" /\ outcome = Outcome(DurationOf, ParseDuration(v[2], r.how.short))
           \/ TypeOf(v) = "duration" /\ outcome = Ok(v)
    BY <1>1 DEF TimeCall, OfOneOf, BothAnswered
  <1> DEFINE p == ArgOf({"string"})
  <1>3. r.name \in DOMAIN Signature /\ Signature[r.name] = <<p>> /\ p # Rest /\ p[2] = {"string"}
    BY <1>1 DEF Signature, HostSignatures, ArgOf, Rest
  <1> HIDE DEF p
  <1>4. \/ reply = UnexpectedType /\ TypeOf(v) # "string"
        \/ params[1] = FromVal(v) /\ TypeOf(v) = "string" /\ reply = Returned(HostBody(r.name, params, r))
    BY <1>1, <1>2, <1>3, OneParameter DEF BothAnswered
  <1>5. FromVal(v) = v
    BY <1>2, PlainConverts DEF PlainTypes
  <1>6. params[1] = FromVal(v) => HostBody(r.name, params, r) = Outcome(DurationOf, ParseDuration(v[2], r.how.short))
    BY <1>1, <1>5 DEF HostBody
  <1> HIDE DEF r
  <1>7. r.args # <<>> /\ r.args[1] = v
    BY <1>1, <1>2, CalledOperands
  <1>8. (OnlyByLibrary(r) <=> TypeOf(v) = "duration") /\ ~OnlyByHost(r)
    BY <1>1, <1>7, ByLibrary DEF IsArg
  <1>9. CASE TypeOf(v) = "string"
    <2>1. reply = outcome
      BY <1>2, <1>4, <1>6, <1>9, PlainResults, PlainReturns
    <2> QED BY <1>8, <1>9, <2>1 DEF AgreedOn, r
  <1>10. CASE TypeOf(v) = "duration"
    <2>1. Failed(reply) /\ ~Failed(outcome)
      BY <1>2, <1>4, <1>10, ResultShapes DEF UnexpectedType
    <2> QED BY <1>8, <1>10, <2>1 DEF AgreedOn, r
  <1> QED BY <1>2, <1>9, <1>10

LEMMA GettersAgree ==
  ASSUME BothAnswered, GetterCall(Asked), Asked.name \in DOMAIN HostSignatures
  PROVE  AgreedOn(Asked)
  <1> DEFINE r == Asked
             v == Left(r)
  <1>1. r \in Requests /\ r.name \notin Operators /\ r.name \in DOMAIN Clocks \cup {"getDate"} /\ r.target # <<>>
    <2>1. r \in Requests
      BY AskedShapes DEF BothAnswered, AInv, IInv
    <2>2. DOMAIN Clocks = {"getHours", "getMinutes", "getSeconds", "getMilliseconds"}
      BY DEF Clocks
    <2>3. r.name \in DOMAIN Clocks \cup {"getDate"} /\ r.target # <<>>
      BY <2>2 DEF GetterCall, HostSignatures
    <2> QED BY <2>1, <2>2, <2>3 DEF Operators, Arithmetic
  <1>2. /\ Len(Operands(r)) = 1
        /\ \/ r.name \in DOMAIN Clocks /\ TypeOf(v) = "duration" /\ outcome = Ok(IntOf(OfDuration(Clocks[r.name], v[2])))
           \/ r.name \in DOMAIN Clocks /\ TypeOf(v) = "timestamp" /\ \E n : outcome = Ok(IntOf(n))
           \/ r.name = "getDate" /\ TypeOf(v) = "timestamp" /\ outcome = Ok(IntOf(Day0(v[2]) + 1))
    <2>1. "getDate" \notin DOMAIN Clocks
      BY DEF Clocks
    <2> HIDE DEF Clocks
    <2> QED BY <1>1, <2>1 DEF GetterCall, OfOneOf, BothAnswered
  <1> DEFINE p == IF r.name = "getDate" THEN ThisOf({"timestamp"}) ELSE This
  <1>3. r.name \in DOMAIN Signature /\ Signature[r.name] = <<p>> /\ p # Rest /\ p[1] = "this" /\ TypeOf(v) \in p[2]
    <2>1. r.name \in DOMAIN Signature /\ Signature[r.name] = <<p>> /\ p # Rest /\ p[1] = "this"
      BY <1>1 DEF Clocks, Signature, HostSignatures, This, ThisOf, Rest
    <2>2. TypeOf(v) \in p[2]
      BY <1>1, <1>2 DEF Clocks, This, ThisOf, AnyType
    <2> QED BY <2>1, <2>2
  <1> HIDE DEF p
  <1>4. params[1] = FromVal(v) /\ reply = Returned(HostBody(r.name, params, r))
    BY <1>2, <1>3, OneParameter DEF BothAnswered
  <1>5. FromVal(v) = v
    BY <1>2, PlainConverts DEF PlainTypes
  <1>6. /\ r.name = "getDate" => HostBody(r.name, params, r) = Ok(IntOf(Day0(v[2]) + 1))
        /\ r.name \in DOMAIN Clocks => HostBody(r.name, params, r) = HostGetter(Clocks[r.name], v)
    BY <1>4, <1>5 DEF HostBody, Clocks
  <1> HIDE DEF r
  <1>7. r.target[1] = v
    BY <1>1, <1>2, CalledOperands
  <1>8. /\ r.name \in DOMAIN Clocks => (OnlyByLibrary(r) <=> TypeOf(v) = "timestamp")
        /\ r.name = "getDate" => ~OnlyByLibrary(r)
        /\ ~OnlyByHost(r)
    BY <1>1, <1>7, ByLibrary
  <1>9. CASE r.name = "getDate"
    <2>1. reply = outcome
      <3>1. r.name \notin DOMAIN Clocks
        BY <1>9 DEF Clocks
      <3> QED BY <1>2, <1>4, <1>6, <1>9, <3>1, PlainResults, PlainReturns
    <2> QED BY <1>8, <1>9, <2>1 DEF AgreedOn, r
  <1>10. CASE r.name \in DOMAIN Clocks /\ TypeOf(v) = "timestamp"
    <2>1. reply = FunctionError
      BY <1>4, <1>6, <1>10, PlainResults, PlainReturns DEF HostGetter
    <2>2. \E n : outcome = Ok(IntOf(n))
      BY <1>2, <1>10
    <2>3. Failed(reply) /\ ~Failed(outcome)
      BY <2>1, <2>2, ResultShapes DEF FunctionError
    <2> QED BY <1>8, <1>10, <2>3 DEF AgreedOn, r
  <1>11. CASE r.name \in DOMAIN Clocks /\ TypeOf(v) = "duration"
    <2> DEFINE n == OfDuration(Clocks[r.name], v[2])
    <2>1. r.name # "getDate"
      BY <1>11 DEF Clocks
    <2>2. outcome = Ok(IntOf(n))
      BY <1>2, <1>11, <2>1
    <2>3. reply = Ok(IntOf(Small(n)))
      BY <1>4, <1>6, <1>11, PlainResults, PlainReturns DEF HostGetter
    <2>4. outcome[2][2] = n
      BY <2>2 DEF Ok, IntOf
    <2>5. Small(n) = n \/ Otherwise(r)
      <3>1. r.name \in {"getHours", "getMinutes", "getSeconds", "getMilliseconds"}
        BY <1>11 DEF Clocks
      <3> HIDE DEF n
      <3> QED BY <2>4, <3>1 DEF Otherwise
    <2>6. ~OnlyByLibrary(r)
      BY <1>8, <1>11
    <2> HIDE DEF n
    <2> QED BY <1>8, <2>2, <2>3, <2>5, <2>6 DEF AgreedOn, r
  <1> QED BY <1>1, <1>2, <1>9, <1>10, <1>11

\* An optional of what is its own copy is given back as it is.
LEMMA ReturnedOptional ==
  ASSUME NEW v, Received(v), Clone(v) = v
  PROVE  Returned(Ok(OptSome(v))) = Ok(OptSome(v))
  <1> DEFINE o == OptSome(v)
             g == [x \in DirectlyIn(o) |-> Within(x)]
  <1>1. DirectlyIn(o) = {v} /\ TypeOf(o) = "optional" /\ o[2] # <<>> /\ o[2][1] = v /\ o = OptSome(v)
    BY DEF DirectlyIn, OptSome, TypeOf
  <1>2. Within(v) = Ok(v)
    <2>1. IsNested(v) /\ IsOperand(v)
      BY DEF Received
    <2>2. IntoVal(v, FALSE) = Ok(v)
      BY <2>1, OperandsConvert
    <2>3. CASE TypeOf(v) = "struct"
      <3>1. Within(v) = Ok(Moved(v, TRUE))
        BY <2>1, <2>3, WithinOfParts DEF IntoUsing
      <3> QED BY <3>1 DEF Moved
    <2>4. CASE TypeOf(v) # "struct"
      BY <2>1, <2>2, <2>4, WithinOfParts
    <2> QED BY <2>3, <2>4
  <1>3. IsNested(o)
    BY ReturnsReceived DEF CanReturn
  <1> HIDE DEF o
  <1>4. Within(o) = IntoUsing(g, o) /\ IntoVal(o, FALSE) = Within(o)
    BY <1>1, <1>3, WithinOfParts
  <1>5. g[v] = Ok(v)
    BY <1>1, <1>2
  <1> HIDE DEF g
  <1>6. IntoUsing(g, o) = Ok(o)
    BY <1>1, <1>5, ResultShapes DEF IntoUsing
  <1> QED BY <1>1, <1>4, <1>6, ResultShapes DEF Returned

LEMMA MakersAgree ==
  ASSUME BothAnswered, MakerCall(Asked)
  PROVE  AgreedOn(Asked)
  <1> DEFINE r == Asked
             v == Left(r)
  <1>1. /\ r \in Requests /\ r.name \notin Operators /\ r.target = <<>>
        /\ r.name \in {"optional.none", "optional.of", "optional.ofNonZeroValue"}
    <2>1. r \in Requests /\ r.target = <<>> /\ r.name \in {"optional.none", "optional.of", "optional.ofNonZeroValue"}
      BY AskedShapes DEF BothAnswered, AInv, IInv, MakerCall
    <2> QED BY <2>1 DEF Operators, Arithmetic
  <1>2. ~OnlyByLibrary(r) /\ ~OnlyByHost(r)
    BY <1>1, ByLibrary
  <1>3. TypeOf(OptNone) = "optional" /\ Returned(Ok(OptNone)) = Ok(OptNone)
    <2>1. DirectlyIn(OptNone) = {} /\ IsShaped(OptNone) /\ TypeOf(OptNone) = "optional" /\ OptNone[2] = <<>>
      BY DEF DirectlyIn, OptNone, TypeOf, IsShaped, AnyType
    <2>2. IsNested(OptNone)
      BY <2>1, EndsAbove
    <2>3. IsOperand(OptNone)
      BY <2>1, <2>2, OperandParts
    <2>4. Clone(OptNone) = OptNone
      BY <2>1, <2>2, CloneOfParts DEF CloneUsing
    <2> QED BY <2>1, <2>2, <2>3, <2>4, ReturnedOperand DEF CanReturn
  <1>4. CASE r.name = "optional.none"
    <2>1. outcome = Ok(OptNone) /\ Len(Operands(r)) = 0
      BY <1>4 DEF MakerCall, BothAnswered
    <2>2. r.args = <<>>
      <3> HIDE DEF r
      <3>1. Operands(r) = r.args
        BY <1>1, OperandShapes
      <3>2. IsSequence(r.args)
        BY <1>1, RequestsAssumption
      <3> QED BY <2>1, <3>1, <3>2
    <2>3. r.name \in DOMAIN Signature /\ Signature[r.name] = <<>>
      BY <1>4 DEF Signature, HostSignatures
    <2>4. reply = Returned(HostBody(r.name, params, r))
      <3>1. Len(params) \in Nat /\ Len(params) <= Len(Signature[r.name])
        BY <1>1, <2>3, AllParameters DEF BothAnswered, AInv
      <3>2. Len(params) = Len(Signature[r.name])
        BY <2>3, <3>1
      <3> QED BY <1>1, <2>3, <3>2 DEF BothAnswered, AInv, AnswersAsAsked
    <2>5. HostBody(r.name, params, r) = Ok(OptNone)
      BY <1>1, <1>4, <2>2 DEF HostBody
    <2> QED BY <1>2, <1>3, <2>1, <2>4, <2>5 DEF AgreedOn
  <1>5. CASE r.name # "optional.none"
    <2>1. /\ Len(Operands(r)) = 1
          /\ \/ r.name = "optional.of" /\ outcome = OfValue(v, r.how)
             \/ r.name = "optional.ofNonZeroValue" /\ outcome = IF ZeroVal(v) THEN Ok(OptNone) ELSE OfValue(v, r.how)
      BY <1>5 DEF MakerCall, BothAnswered
    <2>2. r.name \in DOMAIN Signature /\ Signature[r.name] = <<Arg>> /\ Arg # Rest /\ Arg[2] = AnyType
      BY <2>1 DEF Signature, HostSignatures, Arg, ArgOf, Rest
    <2>3. /\ Received(v) /\ TypeOf(v) \in AnyType /\ r.args[1] = v
          /\ ~Otherwise(r) => Clone(v) = v /\ FromVal(v) = v
      <3> HIDE DEF r
      <3> QED BY <1>1, <2>1, CalledOperands
    <2>4. params[1] = FromVal(v) /\ reply = Returned(HostBody(r.name, params, r))
      BY <1>1, <2>1, <2>2, <2>3, OneParameter DEF BothAnswered
    <2>5. /\ r.name = "optional.of" => HostBody(r.name, params, r) = Ok(OptSome(FromVal(v)))
          /\ r.name = "optional.ofNonZeroValue" =>
               HostBody(r.name, params, r) = IF ZeroValue(FromVal(v)) THEN Ok(OptNone) ELSE Ok(OptSome(FromVal(v)))
      BY <1>1, <2>4 DEF HostBody
    <2> SUFFICES ASSUME ~Otherwise(r) PROVE outcome = reply
      BY <1>2 DEF AgreedOn
    <2>6. Clone(v) = v /\ FromVal(v) = v /\ Returned(Ok(OptSome(v))) = Ok(OptSome(v))
      BY <2>3, ReturnedOptional
    <2>7. OfValue(v, r.how) = Ok(OptSome(v))
      BY <2>6 DEF OfValue
    <2>8. r.name = "optional.ofNonZeroValue" => (ZeroVal(v) <=> ZeroValue(v))
      <3>1. r.name = "optional.ofNonZeroValue" => ~(TypeOf(v) \in {"timestamp", "struct"} /\ ZeroVal(v))
        BY <2>3 DEF Otherwise
      <3> HIDE DEF r, v
      <3> QED BY <2>3, <3>1 DEF ZeroVal, ZeroValue, AnyType
    <2> HIDE DEF r, v
    <2> QED BY <1>3, <2>1, <2>4, <2>5, <2>6, <2>7, <2>8
  <1> QED BY <1>4, <1>5

LEMMA OptionalsAgree ==
  ASSUME BothAnswered, OptionalCall(Asked)
  PROVE  AgreedOn(Asked)
  <1> DEFINE r == Asked
             v == Left(r)
             w == Right(r)
  <1>1. r \in Requests /\ r.name \notin Operators /\ r.name \in {"value", "hasValue", "or", "orValue"} /\ r.target # <<>>
    <2>1. r \in Requests /\ r.target # <<>> /\ r.name \in {"value", "hasValue", "or", "orValue"}
      BY AskedShapes DEF BothAnswered, AInv, IInv, OptionalCall
    <2> QED BY <2>1 DEF Operators, Arithmetic
  <1>2. Len(Operands(r)) = IF r.name \in {"value", "hasValue"} THEN 1 ELSE 2
    BY DEF OptionalCall
  <1>3. ~OnlyByHost(r) /\ (OnlyByLibrary(r) <=> r.name = "or" /\ v = OptNone /\ ~IsOptional(w))
    <2> HIDE DEF r
    <2>1. r.target[1] = v /\ (r.name = "or" => r.args[1] = w)
      BY <1>1, <1>2, CalledOperands
    <2> QED BY <1>1, <2>1, ByLibrary
  <1>4. /\ Received(v) /\ TypeOf(v) \in AnyType
        /\ ~Otherwise(r) => Clone(v) = v /\ FromVal(v) = v
        /\ r.name \in {"or", "orValue"} =>
             /\ Received(w) /\ TypeOf(w) \in AnyType
             /\ ~Otherwise(r) => Clone(w) = w /\ FromVal(w) = w
    <2> HIDE DEF r
    <2> QED BY <1>1, <1>2, CalledOperands
  <1>5. r.name \in {"value", "or", "orValue"} /\ ~Otherwise(r) => IsOptional(v)
    <2>1. r.target[1] = v
      <3> HIDE DEF r
      <3> QED BY <1>1, <1>2, CalledOperands
    <2> QED BY <2>1 DEF Otherwise, UnaskedOptional
  <1>6. ~Otherwise(r) /\ IsOptional(v) => v = OptNone
    <2>1. ~HoldsValue(Clone(v))
      BY <1>4, OperandsConvert DEF Received
    <2>2. IsOptional(v) => v = OptNone \/ v = OptSome(v[2][1])
      BY <1>4 DEF Received, IsShaped, IsOptional
    <2> HIDE DEF r, v
    <2> QED BY <1>4, <2>1, <2>2 DEF HoldsValue, IsOptional, OptNone, OptSome
  <1>7. Failed(FunctionError) /\ Failed(UnexpectedType) /\ Returned(FunctionError) = FunctionError
        /\ Returned(UnexpectedType) = UnexpectedType /\ \A x : Returned(Ok(BoolVal(x))) = Ok(BoolVal(x)) /\ ~Failed(Ok(x))
    <2>1. Failed(FunctionError) /\ Failed(UnexpectedType) /\ \A x : ~Failed(Ok(x))
      BY ResultShapes DEF FunctionError, UnexpectedType
    <2> QED BY <2>1, PlainResults, PlainReturns
  <1>8. CASE r.name \in {"value", "hasValue"}
    <2>1. r.name \in DOMAIN Signature /\ Signature[r.name] = <<This>> /\ This # Rest /\ This[1] = "this" /\ This[2] = AnyType
      BY <1>8 DEF Signature, HostSignatures, This, ThisOf, Rest
    <2>2. params[1] = FromVal(v) /\ reply = Returned(HostBody(r.name, params, r))
      BY <1>2, <1>4, <1>8, <2>1, OneParameter DEF BothAnswered
    <2>3. /\ r.name = "value" => HostBody(r.name, params, r) = HostValueOf(FromVal(v))
          /\ r.name = "hasValue" => HostBody(r.name, params, r) = HostHasValue(FromVal(v))
      BY <1>1, <2>2 DEF HostBody
    <2>4. /\ r.name = "value" => outcome = IF ~IsOptional(v) THEN Panic
                                           ELSE IF v = OptNone THEN FunctionError ELSE Ok(Clone(v[2][1]))
          /\ r.name = "hasValue" => outcome = IF ~IsOptional(v) THEN UnexpectedType ELSE Ok(BoolVal(v # OptNone))
      BY <1>8 DEF OptionalCall, BothAnswered
    <2> HIDE DEF r, v
    <2>5. ~Otherwise(r) => outcome = reply
      BY <1>4, <1>5, <1>6, <1>7, <1>8, <2>2, <2>3, <2>4 DEF HostValueOf, HostHasValue
    <2> QED BY <1>3, <1>8, <2>5 DEF AgreedOn, r, v
  <1>9. CASE r.name \in {"or", "orValue"}
    <2>1. /\ r.name \in DOMAIN Signature /\ Signature[r.name] = <<This, Arg>> /\ This # Rest /\ This[1] = "this"
          /\ This[2] = AnyType /\ Arg # Rest /\ Arg[1] = "argument" /\ Arg[2] = AnyType
      BY <1>9 DEF Signature, HostSignatures, This, ThisOf, Arg, ArgOf, Rest
    <2>2. params[1] = FromVal(v) /\ params[2] = FromVal(w) /\ reply = Returned(HostBody(r.name, params, r))
      BY <1>2, <1>4, <1>9, <2>1, TwoParameters DEF BothAnswered
    <2>3. /\ r.name = "or" => HostBody(r.name, params, r) = HostOr(FromVal(v), FromVal(w))
          /\ r.name = "orValue" => HostBody(r.name, params, r) = HostOrValue(FromVal(v), FromVal(w))
      BY <1>1, <2>2 DEF HostBody
    <2>4. outcome = IF ~IsOptional(v) THEN Panic
                    ELSE Ok(IF v = OptNone THEN w ELSE IF r.name = "or" THEN v ELSE Clone(v[2][1]))
      BY <1>9 DEF OptionalCall, BothAnswered
    <2>5. ~Otherwise(r) => Returned(Ok(w)) = Ok(w)
      BY <1>4, <1>9, ReturnsReceived, ReturnedOperand
    <2>6. v = OptNone => FromVal(v) = OptNone
      <3>1. TypeOf(OptNone) = "optional" /\ OptNone[2] = <<>>
        BY DEF OptNone, TypeOf
      <3> QED BY <1>4, <3>1, FromValOfParts DEF Received, FromUsing
    <2>7. TypeOf(FromVal(w)) = TypeOf(w)
      BY <1>4, <1>9, FromValKeepsType DEF Received
    <2>8. IsOptional(OptNone)
      BY DEF IsOptional, OptNone, TypeOf
    <2>9. OnlyByLibrary(r) => ~Failed(outcome) /\ Failed(reply)
      <3> SUFFICES ASSUME r.name = "or", v = OptNone, ~IsOptional(w) PROVE ~Failed(outcome) /\ Failed(reply)
        BY <1>3
      <3> HIDE DEF r, v, w
      <3>1. outcome = Ok(w)
        BY <2>4, <2>8
      <3>2. ~IsOptional(FromVal(w))
        BY <2>7 DEF IsOptional
      <3>3. reply = UnexpectedType
        BY <1>7, <2>2, <2>3, <2>6, <2>8, <3>2 DEF HostOr
      <3> QED BY <1>7, <3>1, <3>3
    <2> HIDE DEF r, v, w
    <2>10. ~Otherwise(r) /\ ~OnlyByLibrary(r) => outcome = reply
      <3> SUFFICES ASSUME ~Otherwise(r), ~OnlyByLibrary(r) PROVE outcome = reply
        OBVIOUS
      <3>1. v = OptNone /\ FromVal(v) = OptNone /\ FromVal(w) = w /\ outcome = Ok(w)
        BY <1>4, <1>5, <1>6, <1>9, <2>4, <2>6, <2>8
      <3>2. CASE r.name = "or"
        BY <1>3, <2>2, <2>3, <2>5, <2>8, <3>1, <3>2 DEF HostOr
      <3>3. CASE r.name = "orValue"
        BY <2>2, <2>3, <2>5, <2>8, <3>1, <3>3 DEF HostOrValue
      <3> QED BY <1>9, <3>2, <3>3
    <2> QED BY <1>3, <2>9, <2>10 DEF AgreedOn, r
  <1> QED BY <1>1, <1>8, <1>9

LEMMA Agree == AInv /\ IsRegistered => SidesAgree
  <1> SUFFICES ASSUME AInv, IsRegistered, Found, reply # None, Asked.name \in Operators \cup DOMAIN HostSignatures
               PROVE  AgreedOn(Asked)
    BY DEF SidesAgree, AgreedOn
  <1>1. request # <<>> /\ Complete
    BY DEF AInv, AnswersAsAsked, Found
  <1>2. Asked \in Requests
    BY <1>1, AskedShapes DEF AInv, IInv
  <1>3. CASE Asked.name \in Operators
    BY <1>1, <1>2, <1>3, OperatorsAgree DEF AInv, AnswersAsAsked
  <1>4. CASE Asked.name \notin Operators
    <2>1. BothAnswered /\ Asked.name \in DOMAIN HostSignatures /\ Dispatched(Asked) # Undeclared
      BY <1>1, <1>4 DEF BothAnswered, AInv, AnswersAsAsked, Found
    <2>2. CallOfData(Asked) \/ CallOfTimesOrOptionals(Asked)
      BY <1>1, <1>2, <2>1, Answers
    <2> QED BY <2>1, <2>2, SizesAgree, BytesAgree, NumbersAgree, StringsAgree, TextsAgree, TimesAgree,
               GettersAgree, MakersAgree, OptionalsAgree DEF CallOfData, CallOfTimesOrOptionals
  <1> QED BY <1>3, <1>4

\* Whichever answers a call, the library or the function that a host has registered under its
\* name, and an operator on Vals or on Values, the answer is the same, but for the calls that only
\* one of them takes and for the differences listed.
THEOREM TheSidesAgree == CallSpec => []SidesAgree
  <1>1. AInv /\ IsRegistered => SidesAgree
    BY Agree
  <1> QED BY <1>1, AnswersInvariance, EveryRegistrationSucceeds, PTL

-----------------------------------------------------------------------------
(* Powers of ten. *)

TimesTen(input, i, before) == 10 * before
Powers == INSTANCE Recursion WITH Following <- TimesTen

LEMMA TensRecursion ==
  /\ Tens[0] = 1
  /\ \A n \in Nat : Tens[n + 1] = 10 * Tens[n]
  <1>1. PICK f : Powers!IsUnending(f, 0, 1)
    BY Powers!UnendingExists
  <1>2. f = [n \in Nat |-> IF n = 0 THEN 1 ELSE 10 * f[n - 1]]
    BY <1>1 DEF Powers!IsUnending, TimesTen
  <1>3. Tens = [n \in Nat |-> IF n = 0 THEN 1 ELSE 10 * Tens[n - 1]]
    BY <1>2 DEF Tens
  <1>4. \A n \in Nat : Tens[n] = IF n = 0 THEN 1 ELSE 10 * Tens[n - 1]
    BY <1>3
  <1>5. \A n \in Nat : n + 1 # 0 /\ (n + 1) - 1 = n /\ n + 1 \in Nat /\ 0 \in Nat
    OBVIOUS
  <1> QED BY <1>4, <1>5

LEMMA TensArePositive == \A n \in Nat : Tens[n] \in Nat \ {0}
  <1> DEFINE S == {n \in Nat : Tens[n] \in Nat \ {0}}
  <1>1. 0 \in S
    BY TensRecursion
  <1>2. ASSUME NEW n \in Nat, n \in S PROVE n + 1 \in S
    <2>1. \A x \in Nat \ {0} : 10 * x \in Nat \ {0}
      OBVIOUS
    <2> QED BY <1>2, <2>1, TensRecursion
  <1>3. \A n \in Nat : n \in S => n + 1 \in S
    BY <1>2
  <1> HIDE DEF S
  <1>4. \A n \in Nat : n \in S
    BY <1>1, <1>3, Induction
  <1> QED BY <1>4 DEF S

LEMMA TensAdd ==
  ASSUME NEW a \in Nat
  PROVE  \A b \in Nat : Tens[a + b] = Tens[a] * Tens[b]
  <1> DEFINE S == {b \in Nat : Tens[a + b] = Tens[a] * Tens[b]}
  <1>1. 0 \in S
    <2>1. a + 0 = a /\ Tens[a] * 1 = Tens[a]
      BY TensArePositive
    <2> QED BY <2>1, TensRecursion
  <1>2. ASSUME NEW b \in Nat, b \in S PROVE b + 1 \in S
    <2>1. a + b \in Nat /\ a + (b + 1) = (a + b) + 1
      OBVIOUS
    <2>2. Tens[a + (b + 1)] = 10 * (Tens[a] * Tens[b]) /\ Tens[b + 1] = 10 * Tens[b]
      BY <1>2, <2>1, TensRecursion
    <2>3. \A x, y \in Nat : 10 * (x * y) = x * (10 * y)
      OBVIOUS
    <2>4. Tens[a] \in Nat /\ Tens[b] \in Nat
      BY TensArePositive
    <2> QED BY <2>2, <2>3, <2>4
  <1>3. \A b \in Nat : b \in S => b + 1 \in S
    BY <1>2
  <1> HIDE DEF S
  <1>4. \A b \in Nat : b \in S
    BY <1>1, <1>3, Induction
  <1> QED BY <1>4 DEF S

-----------------------------------------------------------------------------
(* Numbers as they are written and read. *)

\* Division has one outcome.
LEMMA DivisionIsUnique ==
  ASSUME NEW a \in Nat, NEW b \in Nat \ {0}, NEW q \in Nat, NEW r \in Nat, r < b, a = b * q + r
  PROVE  a \div b = q /\ a % b = r
  <1> DEFINE d == a \div b
             m == a % b
  <1>1. d \in Nat /\ m \in Nat /\ m < b /\ a = b * d + m
    OBVIOUS
  <1> HIDE DEF d, m
  <1>2. ASSUME NEW x \in Nat, NEW y \in Nat, NEW s \in Nat, NEW t \in Nat, x < y, s < b, b * x + s = b * y + t
        PROVE  FALSE
    <2>1. b * (x + 1) <= b * y /\ b * (x + 1) \in Nat /\ b * y \in Nat
      BY <1>2, ProductAtLeast
    <2>2. b * (x + 1) = b * x + b /\ b * x \in Nat
      BY <1>2
    <2> QED BY <1>2, <2>1, <2>2
  <1>3. b * d + m = b * q + r
    BY <1>1
  <1>4. ~(d < q) /\ ~(q < d)
    BY <1>1, <1>2, <1>3
  <1>5. d = q
    BY <1>1, <1>4
  <1>6. m = r
    BY <1>1, <1>3, <1>5
  <1> QED BY <1>5, <1>6 DEF d, m

LEMMA QuotientOfMultiple ==
  ASSUME NEW a \in Nat, NEW b \in Nat \ {0}
  PROVE  /\ a * b \in Nat
         /\ Quotient(a * b, b) = a /\ (a * b = 0 <=> a = 0)
  <1> DEFINE p == a * b
  <1>1. p \in Nat /\ p = b * a + 0 /\ (p = 0 <=> a = 0)
    OBVIOUS
  <1> HIDE DEF p
  <1>2. p \div b = a
    BY <1>1, DivisionIsUnique
  <1>3. Quotient(p, b) = a
    BY <1>1, <1>2 DEF Quotient
  <1> QED BY <1>1, <1>3 DEF p

\* A number of whole units is read as such, if it is not too large.
LEMMA WholeTerms ==
  ASSUME NEW m \in Nat, NEW unit \in DOMAIN Nanos, Nanos[unit] \in Nat, NEW short \in BOOLEAN
  PROVE  /\ m * Nanos[unit] \in Nat
         /\ ToDuration(m, 0, unit, short) = IF m * Nanos[unit] > NanosMax THEN NanosMax ELSE m * Nanos[unit]
  <1> DEFINE p == m * Nanos[unit]
  <1>1. p \in Nat /\ p * 1 = p
    OBVIOUS
  <1>2. ToDuration(m, 0, unit, short) =
          LET n == Quotient(p, Tens[0])
          IN IF n > NanosMax THEN NanosMax ELSE IF n < -NanosMax - 1 THEN -NanosMax - 1 ELSE n
    BY DEF ToDuration
  <1> HIDE DEF p
  <1>3. Quotient(p, Tens[0]) = p
    BY <1>1, TensRecursion, QuotientOfMultiple
  <1>4. ToDuration(m, 0, unit, short) = IF p > NanosMax THEN NanosMax ELSE p
    BY <1>1, <1>2, <1>3, TimeAssumption
  <1> QED BY <1>1, <1>4 DEF p

\* The set of how many zeros could be left out has a largest member.
LEMMA ZerosExist ==
  ASSUME NEW m \in Nat, NEW d \in Nat
  PROVE  \E z \in 0..d : /\ m % Tens[z] = 0
                         /\ Decimal(m, d) = Number(m \div Tens[z], d - z)
  <1> DEFINE Z == {z \in 0..d : m % Tens[z] = 0}
             P == {z + 1 : z \in Z}
  <1>1. 0 \in Z
    <2>1. m % 1 = 0 /\ 0 \in 0..d
      OBVIOUS
    <2> QED BY <2>1, TensRecursion
  <1>2. PICK i \in P : \A j \in P : j <= i
    <2>1. P \in SUBSET (1..d + 1)
      OBVIOUS
    <2>2. P # {} /\ d + 1 \in Nat
      BY <1>1
    <2> HIDE DEF P
    <2> QED BY <2>1, <2>2, LastPosition
  <1>3. PICK x \in Z : i = x + 1
    BY <1>2
  <1>4. \A y \in Z : x >= y
    <2> SUFFICES ASSUME NEW y \in Z PROVE x >= y
      OBVIOUS
    <2>1. y + 1 \in P /\ x \in Int /\ y \in Int
      OBVIOUS
    <2> HIDE DEF P, Z
    <2> QED BY <1>2, <1>3, <2>1
  <1>5. Max(Z) \in Z
    <2> HIDE DEF Z
    <2> QED BY <1>3, <1>4 DEF Max
  <1>6. Decimal(m, d) = Number(m \div Tens[Max(Z)], d - Max(Z))
    BY DEF Decimal
  <1> QED BY <1>5, <1>6

\* A number written as a fraction of a unit is read as what it was, or as one less.
LEMMA FractionsReadBack ==
  ASSUME NEW m \in Nat, m <= NanosMax, NEW d \in Nat, NEW unit \in DOMAIN Nanos, Nanos[unit] = Tens[d],
         NEW short \in BOOLEAN
  PROVE  \E a \in Nat, b \in Nat :
           /\ Decimal(m, d) = Number(a, b)
           /\ ToDuration(a, b, unit, short) \in IF short /\ m # 0 THEN {m, m - 1} ELSE {m}
  <1>1. PICK z \in 0..d : m % Tens[z] = 0 /\ Decimal(m, d) = Number(m \div Tens[z], d - z)
    BY ZerosExist
  <1> DEFINE a == m \div Tens[z]
             b == d - z
  <1>2. z \in Nat /\ b \in Nat /\ z + b = d
    OBVIOUS
  <1>3. Tens[z] \in Nat \ {0} /\ Tens[b] \in Nat \ {0} /\ Tens[d] = Tens[z] * Tens[b]
    BY <1>2, TensArePositive, TensAdd
  <1>4. a \in Nat /\ m = a * Tens[z]
    BY <1>1, <1>3
  <1>5. Decimal(m, d) = Number(a, b)
    BY <1>1
  <1> HIDE DEF a, b
  <1> DEFINE p == a * Nanos[unit]
  <1>6. p = m * Tens[b]
    <2>1. \A x, y, w \in Nat : x * (y * w) = (x * y) * w
      OBVIOUS
    <2> QED BY <1>3, <1>4, <2>1
  <1>7. Quotient(p, Tens[b]) = m /\ (p = 0 <=> m = 0)
    BY <1>3, <1>6, QuotientOfMultiple
  <1>8. ToDuration(a, b, unit, short) =
          LET n == IF short /\ b > 0 /\ p # 0 /\ p % Tens[b] = 0
                   THEN Quotient(p, Tens[b]) - (IF a < 0 THEN -1 ELSE 1) ELSE Quotient(p, Tens[b])
          IN IF n > NanosMax THEN NanosMax ELSE IF n < -NanosMax - 1 THEN -NanosMax - 1 ELSE n
    BY DEF ToDuration
  <1> HIDE DEF p
  <1>9. ToDuration(a, b, unit, short) \in IF short /\ m # 0 THEN {m, m - 1} ELSE {m}
    <2>1. ~(a < 0) /\ NanosMax \in Nat
      BY <1>4, TimeAssumption
    <2>2. CASE short /\ b > 0 /\ p # 0 /\ p % Tens[b] = 0
      <3>1. m # 0 /\ m - 1 <= NanosMax /\ m - 1 >= -NanosMax - 1
        BY <1>7, <2>1, <2>2
      <3>2. ToDuration(a, b, unit, short) = m - 1
        BY <1>7, <1>8, <2>1, <2>2, <3>1
      <3> QED BY <2>2, <3>1, <3>2
    <2>3. CASE ~(short /\ b > 0 /\ p # 0 /\ p % Tens[b] = 0)
      <3>1. ToDuration(a, b, unit, short) = m
        BY <1>7, <1>8, <2>1, <2>3
      <3> QED BY <3>1
    <2> QED BY <2>2, <2>3
  <1> QED BY <1>2, <1>4, <1>5, <1>9

-----------------------------------------------------------------------------
(* The terms of a text. *)

TermStep(input, i, read) == ReadTerm(input[1], input[2], read)
Terms == INSTANCE Recursion WITH Following <- TermStep

\* A number and a unit that parse_duration knows.
IsTerm(number, unit) == number[1] = "number" /\ unit[1] = "unit" /\ unit[2] \in DOMAIN Nanos

\* A text of so many terms, and what is read of the first of them.
AreTerms(text, k) ==
  /\ Len(text) = 2 * k
  /\ \A j \in Nat : j < k => IsTerm(text[2 * j + 1], text[2 * j + 2])
TermNanos(text, j, short) == ToDuration(text[2 * j + 1][2], text[2 * j + 1][3], text[2 * j + 2][2], short)
AreSums(sums, text, k, short) ==
  sums[0] = 0 /\ \A j \in Nat : j < k => sums[j + 1] = sums[j] + TermNanos(text, j, short)

\* What is read, step by step.
AreReadings(R, text, short) ==
  /\ ReadTerms(text, short) = R[Len(text)]
  /\ R[0] = [at |-> 1, total |-> 0]
  /\ \A i \in Nat : i + 1 <= Len(text) => R[i + 1] = ReadTerm(text, short, R[i])

LEMMA ReadingSteps ==
  ASSUME NEW text, NEW short, Len(text) \in Nat
  PROVE  \E R : AreReadings(R, text, short)
  <1> DEFINE first == [at |-> 1, total |-> 0]
             input == <<text, short>>
             R == Terms!StepsFrom(input, first, Len(text))
  <1>1. ReadTerms(text, short) = R[Len(text)]
    BY DEF ReadTerms, Terms!StepsFrom, TermStep
  <1>2. /\ R[0] = first
        /\ \A i \in Nat : i + 1 <= Len(text) => R[i + 1] = TermStep(input, i + 1, R[i])
    <2> HIDE DEF first, input
    <2> QED BY Terms!StepByStep
  <1>3. \A i : TermStep(input, i + 1, R[i]) = ReadTerm(text, short, R[i])
    BY DEF TermStep
  <1> HIDE DEF R
  <1> QED BY <1>1, <1>2, <1>3 DEF AreReadings

\* A term is read and what it says is added; at the end of the text nothing more is read.
LEMMA TermIsRead ==
  ASSUME NEW text, NEW short, NEW k \in Nat, AreTerms(text, k), NEW total, NEW j \in Nat, j <= k
  PROVE  ReadTerm(text, short, [at |-> 2 * j + 1, total |-> total]) =
           IF j < k THEN [at |-> 2 * (j + 1) + 1, total |-> total + TermNanos(text, j, short)]
           ELSE [at |-> 2 * k + 1, total |-> total]
  <1> DEFINE read == [at |-> 2 * j + 1, total |-> total]
  <1>1. read.at = 2 * j + 1 /\ read.total = total
    OBVIOUS
  <1> HIDE DEF read
  <1>2. Len(text) = 2 * k
    BY DEF AreTerms
  <1>3. CASE j = k
    <2>1. ~(2 * j + 1 <= Len(text)) /\ 2 * j + 1 + 1 > Len(text)
      BY <1>2, <1>3
    <2>2. ReadTerm(text, short, read) = read
      BY <1>1, <2>1 DEF ReadTerm
    <2> QED BY <1>3, <2>2 DEF read
  <1>4. CASE j < k
    <2>1. ~(2 * j + 1 + 1 > Len(text)) /\ 2 * j + 1 + 1 = 2 * j + 2 /\ 2 * (j + 1) + 1 = 2 * j + 1 + 2
      BY <1>2, <1>4
    <2>2. IsTerm(text[2 * j + 1], text[2 * j + 2])
      BY <1>4 DEF AreTerms
    <2>3. text[2 * j + 1] # Minus
      <3>1. Minus[1] = "minus" /\ text[2 * j + 1][1] = "number"
        BY <2>2 DEF Minus, IsTerm
      <3> QED BY <3>1
    <2>4. ReadTerm(text, short, read) = [at |-> 2 * j + 1 + 2, total |-> total + TermNanos(text, j, short)]
      BY <1>1, <2>1, <2>2, <2>3 DEF ReadTerm, IsTerm, TermNanos
    <2> QED BY <1>4, <2>1, <2>4 DEF read
  <1>5. j = k \/ j < k
    OBVIOUS
  <1> QED BY <1>3, <1>4, <1>5

\* All the terms are read.
LEMMA TermsAreRead ==
  ASSUME NEW text, NEW short, NEW k \in Nat, AreTerms(text, k), NEW sums, AreSums(sums, text, k, short)
  PROVE  ReadTerms(text, short) = [at |-> 2 * k + 1, total |-> sums[k]]
  <1>1. Len(text) = 2 * k /\ Len(text) \in Nat
    BY DEF AreTerms
  <1>2. PICK R : AreReadings(R, text, short)
    BY <1>1, ReadingSteps
  <1> DEFINE done(i) == IF i < k THEN i ELSE k
             S == {i \in Nat : i <= 2 * k => R[i] = [at |-> 2 * done(i) + 1, total |-> sums[done(i)]]}
  <1>3. 0 \in S
    <2>1. done(0) = 0 /\ 2 * 0 + 1 = 1
      OBVIOUS
    <2> QED BY <1>2, <2>1 DEF AreSums, AreReadings
  <1>4. ASSUME NEW i \in Nat, i \in S, i + 1 <= 2 * k
        PROVE  R[i + 1] = [at |-> 2 * done(i + 1) + 1, total |-> sums[done(i + 1)]]
    <2>1. R[i] = [at |-> 2 * done(i) + 1, total |-> sums[done(i)]] /\ R[i + 1] = ReadTerm(text, short, R[i])
      BY <1>1, <1>2, <1>4 DEF AreReadings
    <2>2. done(i) \in Nat /\ done(i) <= k
      OBVIOUS
    <2>3. ReadTerm(text, short, R[i]) =
            IF done(i) < k THEN [at |-> 2 * (done(i) + 1) + 1, total |-> sums[done(i)] + TermNanos(text, done(i), short)]
            ELSE [at |-> 2 * k + 1, total |-> sums[done(i)]]
      <3> HIDE DEF done
      <3> QED BY <2>1, <2>2, TermIsRead
    <2>4. CASE i < k
      <3>1. done(i) = i /\ done(i + 1) = i + 1
        BY <2>4
      <3>2. sums[i + 1] = sums[i] + TermNanos(text, i, short)
        BY <2>4 DEF AreSums
      <3> QED BY <2>1, <2>3, <2>4, <3>1, <3>2
    <2>5. CASE ~(i < k)
      <3>1. done(i) = k /\ done(i + 1) = k /\ ~(k < k)
        BY <2>5
      <3> QED BY <2>1, <2>3, <3>1
    <2> QED BY <2>4, <2>5
  <1>5. \A i \in Nat : i \in S => i + 1 \in S
    BY <1>4
  <1> HIDE DEF S
  <1>6. \A i \in Nat : i \in S
    BY <1>3, <1>5, Induction
  <1>7. 2 * k \in Nat /\ ~(2 * k < k) /\ 2 * k <= 2 * k
    OBVIOUS
  <1>8. R[2 * k] = [at |-> 2 * k + 1, total |-> sums[k]]
    BY <1>6, <1>7 DEF S
  <1> QED BY <1>1, <1>2, <1>8 DEF AreReadings

-----------------------------------------------------------------------------
(* Texts that are written. *)

Written == {Number(a, b) : a \in Nat, b \in Nat} \cup {Unit(u) : u \in DOMAIN Nanos}

\* A text of so many terms which together are so many nanoseconds.
ReadsAs(text, k, total, short) ==
  /\ text \in Seq(Written)
  /\ AreTerms(text, k)
  /\ \E sums : AreSums(sums, text, k, short) /\ sums[k] = total

LEMMA NothingReads == \A short : ReadsAs(<<>>, 0, 0, short)
  <1> SUFFICES ASSUME NEW short PROVE ReadsAs(<<>>, 0, 0, short)
    OBVIOUS
  <1> DEFINE text == <<>>
             sums == [i \in {0} |-> 0]
  <1>1. text \in Seq(Written) /\ Len(text) = 2 * 0
    OBVIOUS
  <1>2. sums[0] = 0 /\ \A j \in Nat : ~(j < 0)
    OBVIOUS
  <1> HIDE DEF text, sums
  <1>3. AreTerms(text, 0) /\ AreSums(sums, text, 0, short)
    BY <1>1, <1>2 DEF AreTerms, AreSums
  <1>4. ReadsAs(text, 0, 0, short)
    BY <1>1, <1>2, <1>3 DEF ReadsAs
  <1> QED BY <1>4 DEF text

LEMMA ReadsMore ==
  ASSUME NEW text, NEW k \in Nat, NEW total, NEW short, ReadsAs(text, k, total, short),
         NEW a \in Nat, NEW b \in Nat, NEW unit \in DOMAIN Nanos
  PROVE  ReadsAs(text \o <<Number(a, b), Unit(unit)>>, k + 1, total + ToDuration(a, b, unit, short), short)
  <1> DEFINE term == <<Number(a, b), Unit(unit)>>
             more == text \o term
             n == ToDuration(a, b, unit, short)
  <1>1. text \in Seq(Written) /\ Len(text) = 2 * k
    BY DEF ReadsAs, AreTerms
  <1>2. term \in Seq(Written) /\ Len(term) = 2 /\ term[1] = Number(a, b) /\ term[2] = Unit(unit)
    <2>1. Number(a, b) \in Written /\ Unit(unit) \in Written
      BY DEF Written
    <2> HIDE DEF Written
    <2> QED BY <2>1
  <1>3. PICK sums : AreSums(sums, text, k, short) /\ sums[k] = total
    BY DEF ReadsAs
  <1> DEFINE next == [i \in 0..k + 1 |-> IF i = k + 1 THEN total + n ELSE sums[i]]
  <1>4. next[k + 1] = total + n /\ \A i \in 0..k : next[i] = sums[i]
    OBVIOUS
  <1> HIDE DEF term, next, n, Written
  <1>5. /\ more \in Seq(Written) /\ Len(more) = 2 * (k + 1)
        /\ \A i \in Nat : 1 <= i /\ i <= 2 * k => more[i] = text[i]
        /\ more[2 * k + 1] = Number(a, b) /\ more[2 * k + 2] = Unit(unit)
    <2>1. more \in Seq(Written) /\ Len(more) = Len(text) + Len(term)
          /\ \A i \in 1..Len(text) + Len(term) : more[i] = IF i <= Len(text) THEN text[i] ELSE term[i - Len(text)]
      BY <1>1, <1>2, ConcatProperties
    <2> HIDE DEF more
    <2>2. Len(text) + Len(term) = 2 * k + 2 /\ 2 * (k + 1) = 2 * k + 2
      BY <1>1, <1>2
    <2>3. \A i \in 1..2 * k + 2 : more[i] = IF i <= 2 * k THEN text[i] ELSE term[i - 2 * k]
      BY <1>1, <2>1, <2>2
    <2>4. \A i \in Nat : 1 <= i /\ i <= 2 * k => i \in 1..2 * k + 2
      OBVIOUS
    <2>5. /\ 2 * k + 1 \in 1..2 * k + 2 /\ ~(2 * k + 1 <= 2 * k) /\ (2 * k + 1) - 2 * k = 1
          /\ 2 * k + 2 \in 1..2 * k + 2 /\ ~(2 * k + 2 <= 2 * k) /\ (2 * k + 2) - 2 * k = 2
      OBVIOUS
    <2>6. more[2 * k + 1] = term[1] /\ more[2 * k + 2] = term[2]
      BY <2>3, <2>5
    <2>7. \A i \in Nat : 1 <= i /\ i <= 2 * k => more[i] = text[i]
      BY <2>3, <2>4
    <2> QED BY <1>2, <2>1, <2>2, <2>6, <2>7
  <1> HIDE DEF more
  <1>6. \A j \in Nat : j < k => more[2 * j + 1] = text[2 * j + 1] /\ more[2 * j + 2] = text[2 * j + 2]
    <2> SUFFICES ASSUME NEW j \in Nat, j < k
                 PROVE  more[2 * j + 1] = text[2 * j + 1] /\ more[2 * j + 2] = text[2 * j + 2]
      OBVIOUS
    <2>1. /\ 2 * j + 1 \in Nat /\ 1 <= 2 * j + 1 /\ 2 * j + 1 <= 2 * k
          /\ 2 * j + 2 \in Nat /\ 1 <= 2 * j + 2 /\ 2 * j + 2 <= 2 * k
      OBVIOUS
    <2> QED BY <1>5, <2>1
  <1>7. IsTerm(more[2 * k + 1], more[2 * k + 2]) /\ TermNanos(more, k, short) = n
    <2>1. /\ Number(a, b)[1] = "number" /\ Number(a, b)[2] = a /\ Number(a, b)[3] = b
          /\ Unit(unit)[1] = "unit" /\ Unit(unit)[2] = unit
      BY DEF Number, Unit
    <2> QED BY <1>5, <2>1 DEF IsTerm, TermNanos, n
  <1>8. AreTerms(more, k + 1)
    <2> SUFFICES ASSUME NEW j \in Nat, j < k + 1
                 PROVE  IsTerm(more[2 * j + 1], more[2 * j + 2])
      BY <1>5 DEF AreTerms
    <2>1. CASE j < k
      BY <1>6, <2>1 DEF ReadsAs, AreTerms
    <2>2. CASE j = k
      BY <1>7, <2>2
    <2> QED BY <2>1, <2>2
  <1>9. AreSums(next, more, k + 1, short)
    <2>1. next[0] = 0
      <3>1. 0 \in 0..k
        OBVIOUS
      <3> QED BY <1>3, <1>4, <3>1 DEF AreSums
    <2> SUFFICES ASSUME NEW j \in Nat, j < k + 1
                 PROVE  next[j + 1] = next[j] + TermNanos(more, j, short)
      BY <2>1 DEF AreSums
    <2>2. CASE j < k
      <3>1. j \in 0..k /\ j + 1 \in 0..k
        BY <2>2
      <3>2. TermNanos(more, j, short) = TermNanos(text, j, short)
        BY <1>6, <2>2 DEF TermNanos
      <3>3. sums[j + 1] = sums[j] + TermNanos(text, j, short)
        BY <1>3, <2>2 DEF AreSums
      <3> QED BY <1>4, <3>1, <3>2, <3>3
    <2>3. CASE j = k
      <3>1. k \in 0..k
        OBVIOUS
      <3> QED BY <1>3, <1>4, <1>7, <2>3, <3>1
    <2> QED BY <2>2, <2>3
  <1> QED BY <1>4, <1>5, <1>8, <1>9 DEF ReadsAs, more, n, term

\* Such a text is read as that, and after a minus as its opposite.
ParsesAs(text, total, short) ==
  /\ ParseDuration(text, short) = Ok(total)
  /\ ParseDuration(<<Minus>> \o text, short) = Ok(-total)

LEMMA TermsParse ==
  ASSUME NEW text, NEW k \in Nat \ {0}, NEW total, NEW short, ReadsAs(text, k, total, short)
  PROVE  ParsesAs(text, total, short)
  <1>1. text \in Seq(Written) /\ AreTerms(text, k) /\ Len(text) = 2 * k
    BY DEF ReadsAs, AreTerms
  <1>2. ReadTerms(text, short) = [at |-> 2 * k + 1, total |-> total]
    BY TermsAreRead DEF ReadsAs
  <1>3. text # <<>> /\ text # <<Number(0, 0)>>
    <2>1. Len(<<>>) = 0 /\ Len(<<Number(0, 0)>>) = 1
      OBVIOUS
    <2> QED BY <1>1, <2>1
  <1>4. text[1] # Minus
    <2>1. IsTerm(text[2 * 0 + 1], text[2 * 0 + 2]) /\ 2 * 0 + 1 = 1
      BY <1>1 DEF AreTerms
    <2>2. Minus[1] = "minus" /\ text[1][1] = "number"
      BY <2>1 DEF Minus, IsTerm
    <2> QED BY <2>2
  <1>5. 2 * k + 1 # 1
    OBVIOUS
  <1>6. ParseDuration(text, short) = Ok(total)
    BY <1>2, <1>3, <1>4, <1>5 DEF ParseDuration
  <1> DEFINE m == <<Minus>>
             t == m \o text
             W == Written \cup {Minus}
  <1>7. m \in Seq(W) /\ Len(m) = 1 /\ m[1] = Minus /\ text \in Seq(W)
    <2>1. Minus \in W
      OBVIOUS
    <2>2. text \in Seq(W)
      <3>1. text \in [1..Len(text) -> Written] /\ Len(text) \in Nat /\ Written \subseteq W
        BY <1>1, LenProperties
      <3>2. text \in [1..Len(text) -> W]
        <4> HIDE DEF W, Written
        <4> QED BY <3>1
      <3> HIDE DEF W
      <3> QED BY <3>1, <3>2
    <2> HIDE DEF W
    <2> QED BY <2>1, <2>2
  <1> HIDE DEF W, m
  <1>8. t \in Seq(W) /\ t[1] = Minus /\ t # <<>> /\ Len(t) = Len(text) + 1
        /\ \A i \in 1..Len(text) : t[i + 1] = text[i]
    <2>1. t \in Seq(W) /\ Len(t) = Len(m) + Len(text)
          /\ \A i \in 1..Len(m) + Len(text) : t[i] = IF i <= Len(m) THEN m[i] ELSE text[i - Len(m)]
      BY <1>7, ConcatProperties
    <2> HIDE DEF t
    <2>2. Len(text) \in Nat /\ Len(m) = 1
      BY <1>1, <1>7
    <2>3. 1 \in 1..1 + Len(text)
      BY <2>2
    <2>4. \A i \in 1..Len(text) : i + 1 \in 1..1 + Len(text) /\ ~(i + 1 <= 1) /\ (i + 1) - 1 = i
      BY <2>2
    <2>5. t[1] = Minus /\ \A i \in 1..Len(text) : t[i + 1] = text[i]
      BY <1>7, <2>1, <2>2, <2>3, <2>4
    <2>6. Len(t) = Len(text) + 1
      BY <2>1, <2>2
    <2>7. Len(<<>>) = 0 /\ Len(text) + 1 # 0
      BY <2>2
    <2> QED BY <2>1, <2>5, <2>6, <2>7
  <1> HIDE DEF t
  <1>9. Tail(t) = text
    <2>1. Tail(t) \in Seq(W) /\ Len(Tail(t)) = Len(t) - 1 /\ \A i \in 1..Len(Tail(t)) : Tail(t)[i] = t[i + 1]
      BY <1>8, HeadTailProperties
    <2>2. Len(Tail(t)) = Len(text)
      BY <1>1, <1>8, <2>1
    <2>3. \A i \in 1..Len(text) : Tail(t)[i] = text[i]
      BY <1>8, <2>1, <2>2
    <2> QED BY <1>7, <2>1, <2>2, <2>3, SeqEqual
  <1>10. ParseDuration(t, short) = Ok(-total)
    <2> DEFINE read == ReadTerms(text, short)
    <2>1. (t # <<>> /\ t[1] = Minus) = TRUE
      BY <1>8
    <2>2. ParseDuration(t, short) = IF text = <<Number(0, 0)>> THEN Ok(0)
                                    ELSE IF read.at = 1 THEN Err("FunctionError") ELSE Ok(-read.total)
      BY <1>9, <2>1 DEF ParseDuration
    <2>3. read.at # 1 /\ read.total = total
      BY <1>2, <1>5
    <2> HIDE DEF read
    <2> QED BY <1>3, <2>2, <2>3
  <1> QED BY <1>6, <1>10 DEF ParsesAs, t, m

-----------------------------------------------------------------------------
(* Hours, minutes and seconds. *)

LEMMA UnitsOfTime ==
  /\ DOMAIN Nanos = {"ns", "us", "ms", "s", "m", "h"}
  /\ Second \in Nat \ {0} /\ MinuteSecs \in Nat \ {0} /\ NanosMax \in Nat
  /\ Nanos["ns"] = 1 /\ Nanos["us"] = Microsecond /\ Nanos["ms"] = Millisecond /\ Nanos["s"] = Second
  /\ Nanos["m"] = MinuteSecs * Second /\ Nanos["h"] = MinuteSecs * Nanos["m"]
  /\ Nanos["m"] \in Nat \ {0} /\ Nanos["h"] \in Nat \ {0}
  /\ Second <= Nanos["m"] /\ Nanos["m"] <= Nanos["h"] /\ Nanos["h"] <= NanosMax
  <1>1. /\ DOMAIN Nanos = {"ns", "us", "ms", "s", "m", "h"}
        /\ Nanos["ns"] = 1 /\ Nanos["us"] = Microsecond /\ Nanos["ms"] = Millisecond /\ Nanos["s"] = Second
        /\ Nanos["m"] = MinuteSecs * Second /\ Nanos["h"] = MinuteSecs * MinuteSecs * Second
    BY DEF Nanos
  <1>2. Second \in Nat \ {0} /\ MinuteSecs \in Nat \ {0} /\ NanosMax \in Nat /\ Nanos["h"] <= NanosMax
    BY TimeAssumption, UnitsAssumption
  <1>3. \A x, y \in Nat \ {0} : x * y \in Nat \ {0} /\ y <= x * y /\ x * x * y = x * (x * y)
    <2> SUFFICES ASSUME NEW x \in Nat \ {0}, NEW y \in Nat \ {0}
                 PROVE  x * y \in Nat \ {0} /\ y <= x * y /\ x * x * y = x * (x * y)
      OBVIOUS
    <2>1. y * 1 <= y * x /\ y * x = x * y
      BY ProductAtLeast
    <2> QED BY <2>1
  <1>4. Nanos["m"] \in Nat \ {0} /\ Second <= Nanos["m"]
    BY <1>1, <1>2, <1>3
  <1>5. Nanos["h"] = MinuteSecs * Nanos["m"]
    BY <1>1, <1>2, <1>3
  <1>6. Nanos["h"] \in Nat \ {0} /\ Nanos["m"] <= Nanos["h"]
    BY <1>2, <1>3, <1>4, <1>5
  <1> QED BY <1>1, <1>2, <1>4, <1>5, <1>6

LEMMA DividedWithRest ==
  ASSUME NEW a \in Nat, NEW b \in Nat \ {0}
  PROVE  a \div b \in Nat /\ a % b \in Nat /\ a % b < b /\ a = b * (a \div b) + (a % b)
  OBVIOUS

\* What a number of nanoseconds has of each.
Minutes(u) == (u \div Second) \div MinuteSecs
Hours(u)   == Minutes(u) \div MinuteSecs
MinuteOf(u) == Minutes(u) % MinuteSecs
RestOf(u)  == u % (MinuteSecs * Second)

LEMMA ClockParts ==
  ASSUME NEW u \in Nat
  PROVE  /\ Minutes(u) \in Nat /\ Hours(u) \in Nat /\ MinuteOf(u) \in Nat /\ RestOf(u) \in Nat
         /\ Hours(u) * Nanos["h"] \in Nat /\ MinuteOf(u) * Nanos["m"] \in Nat
         /\ u = Hours(u) * Nanos["h"] + MinuteOf(u) * Nanos["m"] + RestOf(u)
         /\ MinuteOf(u) * Nanos["m"] < Nanos["h"] /\ RestOf(u) < Nanos["m"]
         /\ Minutes(u) = 0 => Hours(u) = 0 /\ MinuteOf(u) = 0
  <1> DEFINE secs == u \div Second
             mins == Minutes(u)
             hrs  == Hours(u)
             m    == MinuteOf(u)
             r    == RestOf(u)
             s    == secs % MinuteSecs
             n    == u % Second
  <1>1. Second \in Nat \ {0} /\ MinuteSecs \in Nat \ {0} /\ Nanos["m"] \in Nat \ {0} /\ Nanos["h"] \in Nat \ {0}
        /\ Nanos["m"] = MinuteSecs * Second /\ Nanos["h"] = MinuteSecs * Nanos["m"]
    BY UnitsOfTime
  <1>2. secs \in Nat /\ n \in Nat /\ n < Second /\ u = Second * secs + n
    BY <1>1
  <1> HIDE DEF secs, n
  <1>3. mins \in Nat /\ s \in Nat /\ s < MinuteSecs /\ secs = MinuteSecs * mins + s
    BY <1>1, <1>2, DividedWithRest DEF Minutes, secs
  <1>4. hrs \in Nat /\ m \in Nat /\ m < MinuteSecs /\ mins = MinuteSecs * hrs + m
    BY <1>1, <1>3, DividedWithRest DEF Hours, MinuteOf
  <1> HIDE DEF mins, hrs, m, s
  <1>5. Second * s + n \in Nat /\ Second * s + n < MinuteSecs * Second
    <2>1. s + 1 <= MinuteSecs
      BY <1>1, <1>3
    <2>2. Second * (s + 1) <= Second * MinuteSecs
      BY <1>1, <1>3, <2>1, ProductAtLeast
    <2>3. Second * (s + 1) = Second * s + Second /\ Second * s \in Nat /\ Second * MinuteSecs = MinuteSecs * Second
      BY <1>1, <1>3
    <2>4. MinuteSecs * Second \in Nat
      BY <1>1
    <2> QED BY <1>1, <1>2, <2>2, <2>3, <2>4
  <1>6. u = (MinuteSecs * Second) * mins + (Second * s + n)
    <2>1. \A a, b, c, d, e \in Nat : a * (b * c + d) + e = (b * a) * c + (a * d + e)
      OBVIOUS
    <2> QED BY <1>1, <1>2, <1>3, <2>1
  <1>7. r = Second * s + n
    <2>1. MinuteSecs * Second \in Nat \ {0}
      BY <1>1
    <2>2. u % (MinuteSecs * Second) = Second * s + n
      <3> DEFINE b == MinuteSecs * Second
                 x == Second * s + n
      <3>1. b \in Nat \ {0} /\ x \in Nat /\ x < b /\ u = b * mins + x
        BY <1>5, <1>6, <2>1
      <3> HIDE DEF b, x
      <3>2. u % b = x
        BY <1>3, <3>1, DivisionIsUnique
      <3> QED BY <3>2 DEF b, x
    <2> QED BY <2>2 DEF RestOf
  <1> HIDE DEF r
  <1>8. r \in Nat /\ r < Nanos["m"] /\ u = Nanos["m"] * mins + r
    BY <1>1, <1>5, <1>6, <1>7
  <1>9. Nanos["m"] * mins = hrs * Nanos["h"] + m * Nanos["m"] /\ hrs * Nanos["h"] \in Nat /\ m * Nanos["m"] \in Nat
    <2>1. \A a, b, c, d \in Nat : a * (b * c + d) = c * (b * a) + d * a /\ c * (b * a) \in Nat /\ d * a \in Nat
      OBVIOUS
    <2> QED BY <1>1, <1>4, <2>1
  <1>10. m * Nanos["m"] < Nanos["h"]
    <2>1. m + 1 <= MinuteSecs
      BY <1>1, <1>4
    <2>2. Nanos["m"] * (m + 1) <= Nanos["m"] * MinuteSecs
      BY <1>1, <1>4, <2>1, ProductAtLeast
    <2>3. \A a, b, c \in Nat : a * (b + 1) = b * a + a /\ a * c = c * a
      OBVIOUS
    <2>4. Nanos["m"] * (m + 1) = m * Nanos["m"] + Nanos["m"] /\ Nanos["m"] * MinuteSecs = Nanos["h"]
      BY <1>1, <1>4, <2>3
    <2> QED BY <1>1, <1>9, <2>2, <2>4
  <1>11. mins = 0 => hrs = 0 /\ m = 0
    <2>1. ASSUME mins = 0, hrs # 0 PROVE FALSE
      <3>1. 1 <= hrs
        BY <1>4, <2>1
      <3>2. MinuteSecs * 1 <= MinuteSecs * hrs /\ MinuteSecs * hrs \in Nat
        BY <1>1, <1>4, <3>1, ProductAtLeast
      <3> QED BY <1>1, <1>4, <2>1, <3>2
    <2>2. MinuteSecs * 0 = 0
      BY <1>1
    <2> QED BY <1>4, <2>1, <2>2
  <1>12. u = hrs * Nanos["h"] + m * Nanos["m"] + r
    BY <1>8, <1>9
  <1> QED BY <1>3, <1>4, <1>8, <1>9, <1>10, <1>11, <1>12 DEF mins, hrs, m, r

\* A term that is written only if there is something to write, and what fits into an i64.
TermIf(wanted, m, unit) == IF wanted THEN <<Number(m, 0), Unit(unit)>> ELSE <<>>
Capped(n) == IF n > NanosMax THEN NanosMax ELSE n

LEMMA ReadsMoreIf ==
  ASSUME NEW text, NEW k \in Nat, NEW total \in Int, NEW short \in BOOLEAN, ReadsAs(text, k, total, short),
         NEW m \in Nat, NEW unit \in DOMAIN Nanos, NEW wanted \in BOOLEAN, ~wanted => m = 0,
         Nanos[unit] \in Nat
  PROVE  \E j \in Nat :
           ReadsAs(text \o TermIf(wanted, m, unit), j, total + Capped(m * Nanos[unit]), short)
  <1> DEFINE n == Capped(m * Nanos[unit])
  <1>1. ToDuration(m, 0, unit, short) = n
    BY WholeTerms DEF Capped
  <1>2. CASE wanted
    <2>1. ReadsAs(text \o <<Number(m, 0), Unit(unit)>>, k + 1, total + ToDuration(m, 0, unit, short), short)
      BY ReadsMore
    <2>2. k + 1 \in Nat
      OBVIOUS
    <2> QED BY <1>1, <1>2, <2>1, <2>2 DEF TermIf
  <1>3. CASE ~wanted
    <2>1. text \o <<>> = text
      BY ConcatEmptySeq DEF ReadsAs
    <2>2. m * Nanos[unit] = 0 /\ ~(0 > NanosMax)
      BY <1>3, TimeAssumption
    <2>3. total + n = total
      BY <2>2 DEF Capped
    <2>4. TermIf(wanted, m, unit) = <<>>
      BY <1>3 DEF TermIf
    <2> HIDE DEF n
    <2> QED BY <2>1, <2>3, <2>4 DEF n
  <1> QED BY <1>2, <1>3

\* What is read of a clock: the hours, cut off, the minutes and the rest, cut short.
HoursRead(u) == Capped(Hours(u) * Nanos["h"])

LEMMA ClockReads ==
  ASSUME NEW u \in Nat, NEW short \in BOOLEAN
  PROVE  \E k \in Nat \ {0} :
           \E d \in IF short /\ RestOf(u) # 0 THEN {RestOf(u), RestOf(u) - 1} ELSE {RestOf(u)} :
             ReadsAs(Clock(u), k, HoursRead(u) + MinuteOf(u) * Nanos["m"] + d, short)
  <1> DEFINE hrs  == IF Hours(u) > 0 THEN <<Number(Hours(u), 0), Unit("h")>> ELSE <<>>
             mins == IF Minutes(u) > 0 THEN <<Number(MinuteOf(u), 0), Unit("m")>> ELSE <<>>
             secs == <<Decimal(RestOf(u), Places), Unit("s")>>
             m    == MinuteOf(u) * Nanos["m"]
  <1>1. Clock(u) = hrs \o mins \o secs
    BY DEF Clock, Hours, Minutes, MinuteOf, RestOf
  <1>2. /\ {"s", "m", "h"} \subseteq DOMAIN Nanos /\ Nanos["m"] \in Nat /\ Nanos["h"] \in Nat
        /\ NanosMax \in Nat /\ Nanos["m"] <= Nanos["h"] /\ Nanos["h"] <= NanosMax
    BY UnitsOfTime
  <1>3. /\ Minutes(u) \in Nat /\ Hours(u) \in Nat /\ MinuteOf(u) \in Nat /\ RestOf(u) \in Nat
        /\ Hours(u) * Nanos["h"] \in Nat /\ m \in Nat /\ m < Nanos["h"] /\ RestOf(u) < Nanos["m"]
        /\ Minutes(u) = 0 => MinuteOf(u) = 0
    BY ClockParts
  <1>4. PICK i \in Nat : ReadsAs(hrs, i, HoursRead(u), short)
    <2> DEFINE nothing == <<>>
               wanted == Hours(u) > 0
    <2>1. ReadsAs(nothing, 0, 0, short) /\ nothing \in Seq(Written)
      BY NothingReads
    <2>2. wanted \in BOOLEAN /\ (~wanted => Hours(u) = 0)
      BY <1>3
    <2> HIDE DEF nothing, wanted
    <2>3. PICK j \in Nat : ReadsAs(nothing \o TermIf(wanted, Hours(u), "h"), j, 0 + Capped(Hours(u) * Nanos["h"]), short)
      BY <1>2, <1>3, <2>1, <2>2, ReadsMoreIf
    <2>4. 0 + Capped(Hours(u) * Nanos["h"]) = HoursRead(u)
      BY <1>2, <1>3 DEF HoursRead, Capped
    <2>5. TermIf(wanted, Hours(u), "h") = hrs
      BY DEF wanted, TermIf
    <2>6. hrs \in Seq(Written)
      <3>1. Number(Hours(u), 0) \in Written /\ Unit("h") \in Written
        BY <1>2, <1>3 DEF Written
      <3> HIDE DEF Written
      <3> QED BY <3>1
    <2> HIDE DEF hrs
    <2>7. nothing \o hrs = hrs
      BY <2>1, <2>6, ConcatEmptySeq DEF nothing
    <2> QED BY <2>3, <2>4, <2>5, <2>7
  <1>5. HoursRead(u) \in Nat
    BY <1>2, <1>3 DEF HoursRead, Capped
  <1> HIDE DEF hrs
  <1>6. PICK j \in Nat : ReadsAs(hrs \o mins, j, HoursRead(u) + m, short)
    <2> DEFINE wanted == Minutes(u) > 0
    <2>1. wanted \in BOOLEAN /\ (~wanted => MinuteOf(u) = 0)
      BY <1>3
    <2> HIDE DEF wanted
    <2>2. PICK j \in Nat : ReadsAs(hrs \o TermIf(wanted, MinuteOf(u), "m"), j,
                                   HoursRead(u) + Capped(MinuteOf(u) * Nanos["m"]), short)
      BY <1>2, <1>3, <1>4, <1>5, <2>1, ReadsMoreIf
    <2>3. Capped(MinuteOf(u) * Nanos["m"]) = m
      BY <1>2, <1>3 DEF Capped
    <2>4. TermIf(wanted, MinuteOf(u), "m") = mins
      BY DEF wanted, TermIf
    <2> QED BY <2>2, <2>3, <2>4
  <1> HIDE DEF mins, m
  <1>7. PICK a \in Nat, b \in Nat :
          /\ Decimal(RestOf(u), Places) = Number(a, b)
          /\ ToDuration(a, b, "s", short) \in IF short /\ RestOf(u) # 0 THEN {RestOf(u), RestOf(u) - 1} ELSE {RestOf(u)}
    <2>1. RestOf(u) <= NanosMax /\ "s" \in DOMAIN Nanos
      BY <1>2, <1>3
    <2>2. Places \in Nat /\ Nanos["s"] = Tens[Places]
      BY UnitsAssumption, UnitsOfTime
    <2> QED BY <1>3, <2>1, <2>2, FractionsReadBack
  <1> DEFINE d == ToDuration(a, b, "s", short)
             t == HoursRead(u) + m
  <1>8. ReadsAs((hrs \o mins) \o secs, j + 1, t + d, short)
    <2>1. ReadsAs((hrs \o mins) \o <<Number(a, b), Unit("s")>>, j + 1, t + d, short)
      <3> DEFINE text == hrs \o mins
      <3>1. ReadsAs(text, j, t, short) /\ "s" \in DOMAIN Nanos
        BY <1>2, <1>6
      <3> HIDE DEF text, t
      <3> QED BY <3>1, ReadsMore DEF text
    <2> QED BY <1>7, <2>1
  <1>9. j + 1 \in Nat \ {0}
    OBVIOUS
  <1>10. ReadsAs(Clock(u), j + 1, HoursRead(u) + m + d, short)
    BY <1>1, <1>8
  <1> QED BY <1>7, <1>9, <1>10 DEF m

-----------------------------------------------------------------------------
(* Durations and their texts. *)

LEMMA OneTerm ==
  ASSUME NEW short, NEW a \in Nat, NEW b \in Nat, NEW unit \in DOMAIN Nanos, ToDuration(a, b, unit, short) \in Int
  PROVE  ParseDuration(<<Number(a, b), Unit(unit)>>, short) = Ok(ToDuration(a, b, unit, short))
  <1> DEFINE nothing == <<>>
             term == <<Number(a, b), Unit(unit)>>
             n == ToDuration(a, b, unit, short)
  <1>1. ReadsAs(nothing, 0, 0, short)
    BY NothingReads
  <1>2. term \in Seq(Written)
    <2>1. Number(a, b) \in Written /\ Unit(unit) \in Written
      BY DEF Written
    <2> HIDE DEF Written
    <2> QED BY <2>1
  <1>3. ReadsAs(nothing \o term, 0 + 1, 0 + n, short)
    <2> HIDE DEF nothing
    <2> QED BY <1>1, ReadsMore
  <1>4. nothing \o term = term
    <2> HIDE DEF term
    <2> QED BY <1>2, ConcatEmptySeq
  <1>5. 0 + n = n /\ 0 + 1 \in Nat \ {0}
    OBVIOUS
  <1> HIDE DEF n, term
  <1>6. ReadsAs(term, 0 + 1, n, short)
    BY <1>3, <1>4, <1>5
  <1>7. ParsesAs(term, n, short)
    BY <1>5, <1>6, TermsParse
  <1> QED BY <1>7 DEF ParsesAs, n, term

\* The units in their order.
LEMMA UnitsInOrder ==
  /\ Places \in Nat /\ Places \div 3 \in Nat /\ 2 * (Places \div 3) \in Nat
  /\ Microsecond \in Nat \ {0} /\ Microsecond <= Millisecond /\ Millisecond <= Second
  /\ Microsecond = Tens[Places \div 3] /\ Millisecond = Tens[2 * (Places \div 3)]
  <1> DEFINE p == Places \div 3
  <1>1. Places \in Nat /\ p \in Nat /\ Places = p + p + p /\ 2 * p = p + p /\ 2 * p \in Nat
    BY UnitsAssumption
  <1> HIDE DEF p
  <1>2. Tens[p] \in Nat \ {0} /\ p + p \in Nat
    BY <1>1, TensArePositive
  <1>3. Tens[p + p] = Tens[p] * Tens[p] /\ Tens[(p + p) + p] = Tens[p + p] * Tens[p] /\ Tens[p + p] \in Nat \ {0}
    BY <1>1, <1>2, TensAdd, TensArePositive
  <1>4. \A x, y \in Nat \ {0} : x <= x * y
    <2> SUFFICES ASSUME NEW x \in Nat \ {0}, NEW y \in Nat \ {0} PROVE x <= x * y
      OBVIOUS
    <2>1. x * 1 <= x * y
      BY ProductAtLeast
    <2> QED BY <2>1
  <1>5. Tens[p] <= Tens[p + p] /\ Tens[p + p] <= Tens[(p + p) + p]
    BY <1>2, <1>3, <1>4
  <1>6. Second = Tens[Places]
    BY UnitsAssumption
  <1> QED BY <1>1, <1>2, <1>5, <1>6 DEF Microsecond, Millisecond, p

\* Only the micro sign is spelt anew.
LEMMA StaysAsSpelt ==
  ASSUME NEW text \in Seq(Written)
  PROVE  Respelled(text) = text
  <1>1. Unit("micro") \notin Written
    <2>1. "micro" \notin DOMAIN Nanos
      BY UnitsOfTime
    <2>2. \A u : Unit("micro") = Unit(u) => u = "micro"
      BY DEF Unit
    <2>3. \A a, b : Unit("micro") # Number(a, b)
      BY DEF Unit, Number
    <2> QED BY <2>1, <2>2, <2>3 DEF Written
  <1>2. \A i \in DOMAIN text : text[i] \in Written
    <2> HIDE DEF Written
    <2> QED OBVIOUS
  <1>3. Respelled(text) = [i \in DOMAIN text |-> text[i]]
    BY <1>1, <1>2 DEF Respelled
  <1>4. text = [i \in DOMAIN text |-> text[i]]
    <2> HIDE DEF Written
    <2> QED OBVIOUS
  <1> QED BY <1>3, <1>4

LEMMA TermsRespelled ==
  \A a, b :
    /\ Respelled(<<Number(a, b), Unit("micro")>>) = <<Number(a, b), Unit("us")>>
    /\ \A u \in DOMAIN Nanos : Respelled(<<Number(a, b), Unit(u)>>) = <<Number(a, b), Unit(u)>>
  <1>1. "micro" \notin DOMAIN Nanos
    BY UnitsOfTime
  <1>2. \A x, y : Respelled(<<x, y>>) = << IF x = Unit("micro") THEN Unit("us") ELSE x,
                                          IF y = Unit("micro") THEN Unit("us") ELSE y >>
    BY DEF Respelled
  <1>3. \A a, b : Number(a, b) # Unit("micro")
    BY DEF Unit, Number
  <1>4. \A u : Unit(u) = Unit("micro") => u = "micro"
    BY DEF Unit
  <1> QED BY <1>1, <1>2, <1>3, <1>4

LEMMA UnsignedReadsBack ==
  ASSUME NEW n \in Nat, n <= NanosMax, NEW short \in BOOLEAN
  PROVE  ParseDuration(Respelled(Unsigned(n)), short) \in IF short THEN {Ok(n), Ok(n - 1)} ELSE {Ok(n)}
  <1>1. /\ {"ns", "s", "ms", "us"} \subseteq DOMAIN Nanos /\ NanosMax \in Nat /\ Second \in Nat \ {0} /\ Second <= NanosMax
        /\ Nanos["ns"] = 1 /\ Nanos["s"] = Second /\ Nanos["ms"] = Millisecond /\ Nanos["us"] = Microsecond
        /\ Nanos["m"] \in Nat /\ Nanos["h"] \in Nat
    BY UnitsOfTime
  <1>2. /\ Microsecond \in Nat \ {0} /\ Microsecond <= Millisecond /\ Millisecond <= Second /\ Millisecond \in Nat
        /\ Places \div 3 \in Nat /\ 2 * (Places \div 3) \in Nat /\ Millisecond = Tens[2 * (Places \div 3)]
        /\ Microsecond = Tens[Places \div 3]
    <2>1. Millisecond \in Nat
      BY UnitsInOrder, TensArePositive
    <2> QED BY <2>1, UnitsInOrder
  <1>3. CASE n >= Second
    <2>1. Unsigned(n) = Clock(n)
      BY <1>3 DEF Unsigned
    <2>2. PICK k \in Nat \ {0},
               d \in IF short /\ RestOf(n) # 0 THEN {RestOf(n), RestOf(n) - 1} ELSE {RestOf(n)} :
                 ReadsAs(Clock(n), k, HoursRead(n) + MinuteOf(n) * Nanos["m"] + d, short)
      BY ClockReads
    <2>3. /\ Hours(n) * Nanos["h"] \in Nat /\ MinuteOf(n) * Nanos["m"] \in Nat /\ RestOf(n) \in Nat
          /\ n = Hours(n) * Nanos["h"] + MinuteOf(n) * Nanos["m"] + RestOf(n)
      BY ClockParts
    <2>4. HoursRead(n) = Hours(n) * Nanos["h"]
      BY <1>1, <2>3 DEF HoursRead, Capped
    <2> DEFINE t == HoursRead(n) + MinuteOf(n) * Nanos["m"] + d
    <2>5. t \in IF short THEN {n, n - 1} ELSE {n}
      <3> DEFINE h == Hours(n) * Nanos["h"]
                 m == MinuteOf(n) * Nanos["m"]
      <3>1. h \in Nat /\ m \in Nat /\ RestOf(n) \in Nat /\ n = h + m + RestOf(n) /\ t = h + m + d
        BY <2>3, <2>4
      <3> HIDE DEF h, m, t
      <3>2. d = RestOf(n) \/ (short /\ d = RestOf(n) - 1)
        BY <2>2
      <3> QED BY <3>1, <3>2
    <2> HIDE DEF t
    <2>6. ReadsAs(Clock(n), k, t, short)
      BY <2>2 DEF t
    <2>7. ParsesAs(Clock(n), t, short)
      BY <2>6, TermsParse
    <2>8. Respelled(Clock(n)) = Clock(n)
      BY <2>6, StaysAsSpelt DEF ReadsAs
    <2>9. ParseDuration(Respelled(Unsigned(n)), short) = Ok(t)
      BY <2>1, <2>7, <2>8 DEF ParsesAs
    <2> QED BY <2>5, <2>9
  <1>4. CASE n = 0
    <2>1. Respelled(Unsigned(n)) = <<Number(0, 0), Unit("s")>>
      <3>1. Unsigned(n) = <<Number(0, 0), Unit("s")>>
        BY <1>1, <1>4 DEF Unsigned
      <3> QED BY <1>1, <3>1, TermsRespelled
    <2>2. ToDuration(0, 0, "s", short) = 0
      <3>1. 0 * Nanos["s"] = 0 /\ ~(0 > NanosMax) /\ Nanos["s"] \in Nat
        BY <1>1
      <3> QED BY <1>1, <3>1, WholeTerms
    <2>3. ParseDuration(<<Number(0, 0), Unit("s")>>, short) = Ok(0)
      BY <1>1, <2>2, OneTerm
    <2> QED BY <1>4, <2>1, <2>3
  <1>5. CASE n < Second /\ n # 0 /\ n < Microsecond
    <2>1. Respelled(Unsigned(n)) = <<Number(n, 0), Unit("ns")>>
      <3>1. Unsigned(n) = <<Number(n, 0), Unit("ns")>>
        BY <1>1, <1>2, <1>5 DEF Unsigned
      <3> QED BY <1>1, <3>1, TermsRespelled
    <2>2. ToDuration(n, 0, "ns", short) = n
      <3>1. n * Nanos["ns"] = n /\ ~(n > NanosMax) /\ Nanos["ns"] \in Nat
        BY <1>1
      <3> QED BY <1>1, <3>1, WholeTerms
    <2>3. ParseDuration(<<Number(n, 0), Unit("ns")>>, short) = Ok(n)
      BY <1>1, <2>2, OneTerm
    <2> QED BY <2>1, <2>3
  <1>6. CASE n < Second /\ n # 0 /\ Microsecond <= n /\ n < Millisecond
    <2>1. Unsigned(n) = <<Decimal(n, Places \div 3), Unit("micro")>>
      BY <1>1, <1>2, <1>6 DEF Unsigned
    <2>2. PICK a \in Nat, b \in Nat :
            /\ Decimal(n, Places \div 3) = Number(a, b)
            /\ ToDuration(a, b, "us", short) \in IF short /\ n # 0 THEN {n, n - 1} ELSE {n}
      <3>1. Places \div 3 \in Nat /\ Nanos["us"] = Tens[Places \div 3] /\ "us" \in DOMAIN Nanos
        BY <1>1, <1>2
      <3> QED BY <3>1, FractionsReadBack
    <2>3. ToDuration(a, b, "us", short) \in Int
      BY <2>2
    <2>4. ParseDuration(<<Number(a, b), Unit("us")>>, short) = Ok(ToDuration(a, b, "us", short))
      BY <1>1, <2>3, OneTerm
    <2>5. Respelled(Unsigned(n)) = <<Number(a, b), Unit("us")>>
      BY <1>1, <2>1, <2>2, TermsRespelled
    <2>6. ParseDuration(Respelled(Unsigned(n)), short) = Ok(ToDuration(a, b, "us", short))
      BY <2>4, <2>5
    <2> QED BY <2>2, <2>6
  <1>7. CASE n < Second /\ n # 0 /\ Millisecond <= n
    <2>1. Unsigned(n) = <<Decimal(n, 2 * (Places \div 3)), Unit("ms")>>
      BY <1>1, <1>2, <1>7 DEF Unsigned
    <2>2. PICK a \in Nat, b \in Nat :
            /\ Decimal(n, 2 * (Places \div 3)) = Number(a, b)
            /\ ToDuration(a, b, "ms", short) \in IF short /\ n # 0 THEN {n, n - 1} ELSE {n}
      <3>1. 2 * (Places \div 3) \in Nat /\ Nanos["ms"] = Tens[2 * (Places \div 3)] /\ "ms" \in DOMAIN Nanos
        BY <1>1, <1>2
      <3> QED BY <3>1, FractionsReadBack
    <2>3. ToDuration(a, b, "ms", short) \in Int
      BY <2>2
    <2>4. ParseDuration(<<Number(a, b), Unit("ms")>>, short) = Ok(ToDuration(a, b, "ms", short))
      BY <1>1, <2>3, OneTerm
    <2>5. Respelled(Unsigned(n)) = <<Number(a, b), Unit("ms")>>
      BY <1>1, <2>1, <2>2, TermsRespelled
    <2>6. ParseDuration(Respelled(Unsigned(n)), short) = Ok(ToDuration(a, b, "ms", short))
      BY <2>4, <2>5
    <2> QED BY <2>2, <2>6
  <1> QED BY <1>1, <1>2, <1>3, <1>4, <1>5, <1>6, <1>7

\* The text that is written of a duration that has a number of nanoseconds.
LEMMA TextsOfDurations ==
  ASSUME NEW n \in Int, HasNanos(n), NEW checked
  PROVE  FormatDuration(n, checked) =
           Ok(IF n < 0 THEN <<Minus>> \o Unsigned(n + U64) ELSE <<>> \o Unsigned(n))
  <1>1. NanosMax \in Nat /\ n <= NanosMax /\ n >= -NanosMax - 1
    BY TimeAssumption DEF HasNanos
  <1>2. U64 = 2 * NanosMax + 2 /\ U64 \in Nat
    BY <1>1 DEF U64
  <1> DEFINE amount == n % U64
  <1>3. amount \in Nat /\ amount = (IF n < 0 THEN n + U64 ELSE n) /\ amount < U64 /\ (n < 0 => amount # 0)
    <2>1. CASE n >= 0
      <3>1. n \in Nat /\ n < U64
        BY <1>1, <1>2, <2>1
      <3> QED BY <1>2, <2>1, <3>1, WithinModulus
    <2>2. CASE n < 0
      <3>1. -n \in Nat /\ -n < U64 /\ -n # 0 /\ -(-n) = n /\ U64 - (-n) = n + U64
        BY <1>1, <1>2, <2>2
      <3>2. (-(-n)) % U64 = U64 - (-n)
        BY <1>2, <3>1, WithinModulus
      <3>3. amount = n + U64
        BY <3>1, <3>2
      <3> QED BY <1>1, <1>2, <2>2, <3>3
    <2> QED BY <2>1, <2>2
  <1>4. amount % U64 = amount
    BY <1>2, <1>3, WithinModulus
  <1>5. FormatDuration(n, checked) =
          IF checked /\ amount >= U64 THEN Err("panic")
          ELSE Ok((IF n < 0 /\ amount % U64 # 0 THEN <<Minus>> ELSE <<>>) \o Unsigned(amount % U64))
    BY DEF FormatDuration
  <1> HIDE DEF amount
  <1>6. FormatDuration(n, checked) = Ok((IF n < 0 THEN <<Minus>> ELSE <<>>) \o Unsigned(amount))
    BY <1>2, <1>3, <1>4, <1>5
  <1> QED BY <1>3, <1>6

\* What is written of a number that is not negative is a text.
LEMMA UnsignedAlone ==
  ASSUME NEW n \in Nat, n <= NanosMax
  PROVE  <<>> \o Unsigned(n) = Unsigned(n)
  <1> DEFINE T == Written \cup {Unit("micro")}
  <1>1. /\ {"ns", "s", "ms"} \subseteq DOMAIN Nanos /\ Places \div 3 \in Nat /\ 2 * (Places \div 3) \in Nat
    BY UnitsOfTime, UnitsInOrder
  <1>2. /\ \A d \in Nat : Decimal(n, d) \in T
        /\ Number(n, 0) \in T /\ Number(0, 0) \in T
        /\ Unit("ns") \in T /\ Unit("s") \in T /\ Unit("ms") \in T /\ Unit("micro") \in T
    <2>1. ASSUME NEW d \in Nat PROVE Decimal(n, d) \in T
      <3>1. PICK z \in 0..d : Decimal(n, d) = Number(n \div Tens[z], d - z)
        BY ZerosExist
      <3>2. Tens[z] \in Nat \ {0} /\ d - z \in Nat
        BY TensArePositive
      <3>3. n \div Tens[z] \in Nat
        BY <3>2, Divided
      <3> QED BY <3>1, <3>2, <3>3 DEF Written
    <2> QED BY <1>1, <2>1 DEF Written
  <1> HIDE DEF T
  <1>3. Unsigned(n) \in Seq(T)
    <2>1. CASE n >= Second
      <3>1. PICK k, total : ReadsAs(Clock(n), k, total, FALSE)
        BY ClockReads
      <3>2. Clock(n) \in Seq(Written)
        BY <3>1 DEF ReadsAs
      <3>3. Written \subseteq T
        BY DEF T
      <3>4. Clock(n) \in [1..Len(Clock(n)) -> Written] /\ Len(Clock(n)) \in Nat
        BY <3>2, LenProperties
      <3>5. Clock(n) \in [1..Len(Clock(n)) -> T]
        BY <3>3, <3>4
      <3>6. Clock(n) \in Seq(T)
        BY <3>4, <3>5
      <3> QED BY <2>1, <3>6 DEF Unsigned
    <2>2. CASE ~(n >= Second)
      <3>1. Unsigned(n) \in {<<Number(0, 0), Unit("s")>>, <<Number(n, 0), Unit("ns")>>,
                             <<Decimal(n, Places \div 3), Unit("micro")>>, <<Decimal(n, 2 * (Places \div 3)), Unit("ms")>>}
        BY <2>2 DEF Unsigned
      <3>2. \A a, b \in T : <<a, b>> \in Seq(T)
        OBVIOUS
      <3> QED BY <1>1, <1>2, <3>1, <3>2
    <2> QED BY <2>1, <2>2
  <1> QED BY <1>3, ConcatEmptySeq

\* What is written of a duration, and what is read of that.
WrittenAndRead(n, checked, short) ==
  \E text :
    /\ FormatDuration(n, checked) = Ok(text)
    /\ ParseDuration(Respelled(text), short) \in IF short THEN {Ok(n), Ok(n - 1)} ELSE {Ok(n)}

LEMMA DurationsAreRead ==
  ASSUME NEW n \in Nat, HasNanos(n), NEW checked, NEW short \in BOOLEAN
  PROVE  WrittenAndRead(n, checked, short)
  <1>1. n <= NanosMax /\ ~(n < 0)
    BY DEF HasNanos
  <1>2. FormatDuration(n, checked) = Ok(IF n < 0 THEN <<Minus>> \o Unsigned(n + U64) ELSE <<>> \o Unsigned(n))
    BY TextsOfDurations
  <1>3. FormatDuration(n, checked) = Ok(Unsigned(n))
    BY <1>1, <1>2, UnsignedAlone
  <1>4. ParseDuration(Respelled(Unsigned(n)), short) \in IF short THEN {Ok(n), Ok(n - 1)} ELSE {Ok(n)}
    BY <1>1, UnsignedReadsBack
  <1> QED BY <1>3, <1>4 DEF WrittenAndRead

LEMMA ReadBack == AInv /\ IsRegistered => DurationsReadBack
  <1> SUFFICES ASSUME AInv, IsRegistered, Found, Asked.name = "string", TypeOf(Asked.args[1]) = "duration",
                      0 <= Asked.args[1][2], HasNanos(Asked.args[1][2]), NEW short \in BOOLEAN
               PROVE  LET n == Asked.args[1][2]
                      IN ParseDuration(Respelled(outcome[2][2]), short) \in IF short THEN {Ok(n), Ok(n - 1)} ELSE {Ok(n)}
    BY DEF DurationsReadBack
  <1> DEFINE r == Asked
             v == Left(r)
             n == v[2]
  <1>1. request # <<>> /\ Complete
    BY DEF AInv, AnswersAsAsked, Found
  <1>2. r \in Requests /\ r.name \notin Operators
    <2>1. r \in Requests
      BY <1>1, AskedShapes DEF AInv, IInv
    <2> QED BY <2>1 DEF Operators, Arithmetic
  <1>3. outcome = Dispatched(r) /\ Dispatched(r) # Undeclared
    BY <1>1, <1>2 DEF AInv, AnswersAsAsked, Found
  <1>4. StringCall(r)
    <2>1. CallOfData(r) \/ CallOfTimesOrOptionals(r)
      BY <1>1, <1>2, <1>3, Answers
    <2>2. ~SizeCall(r) /\ ~BytesCall(r) /\ ~NumberCall(r) /\ ~TextCall(r)
      BY DEF SizeCall, BytesCall, NumberCall, TextCall
    <2>3. ~TimeCall(r) /\ ~GetterCall(r) /\ ~MakerCall(r) /\ ~OptionalCall(r)
      BY DEF TimeCall, GetterCall, MakerCall, OptionalCall, Clocks, TimestampGetters
    <2> QED BY <2>1, <2>2, <2>3 DEF CallOfData, CallOfTimesOrOptionals
  <1>5. r.args[1] = v /\ 1 \in DOMAIN Operands(r)
    <2>1. r.target = <<>> /\ Len(Operands(r)) = 1
      BY <1>4 DEF StringCall, OfOneOf
    <2> HIDE DEF r
    <2>2. Operands(r) = r.args /\ DOMAIN Operands(r) = 1..Len(Operands(r))
      BY <1>2, <2>1, OperandShapes
    <2>3. 1 \in 1..1
      OBVIOUS
    <2> QED BY <2>1, <2>2, <2>3 DEF Left
  <1>6. TypeOf(v) = "duration" /\ HasNanos(n) /\ 0 <= n
    BY <1>5
  <1>7. n \in Nat
    <2>1. IsShaped(v)
      <3> HIDE DEF r
      <3> QED BY <1>2, <1>5, RequestOperands DEF Left
    <2> HIDE DEF v
    <2>2. v[2] \in Lengths
      BY <1>6, <2>1 DEF IsShaped
    <2>3. v[2] \in Int
      BY <2>2, WidthsAssumption DEF Lengths
    <2> QED BY <1>6, <2>3
  <1>8. outcome = Outcome(StrOf, FormatDuration(n, r.how.checked))
    <2> HIDE DEF r
    <2>1. outcome = String(v, r.how)
      BY <1>3, <1>4 DEF StringCall
    <2> HIDE DEF v
    <2> QED BY <1>6, <2>1 DEF String
  <1> DEFINE checked == r.how.checked
  <1> HIDE DEF r, v, n, checked
  <1>9. WrittenAndRead(n, checked, short)
    BY <1>6, <1>7, DurationsAreRead
  <1>10. PICK text :
          /\ FormatDuration(n, checked) = Ok(text)
          /\ ParseDuration(Respelled(text), short) \in IF short THEN {Ok(n), Ok(n - 1)} ELSE {Ok(n)}
    BY <1>9 DEF WrittenAndRead
  <1>11. outcome[2][2] = text
    <2>1. outcome = Outcome(StrOf, Ok(text))
      BY <1>8, <1>10 DEF checked
    <2>2. outcome = Ok(StrOf(text))
      BY <2>1, ResultShapes DEF Outcome, Ok
    <2> QED BY <2>2 DEF Ok, StrOf
  <1>12. Asked.args[1][2] = n
    BY <1>5 DEF r, n
  <1> QED BY <1>10, <1>11, <1>12

\* The text of a duration that is not negative reads back as that duration, or as one nanosecond
\* less where a fraction is cut short, once the micro sign is a u (duration.rs).
THEOREM WrittenDurationsReadBack == CallSpec => []DurationsReadBack
  <1>1. AInv /\ IsRegistered => DurationsReadBack
    BY ReadBack
  <1> QED BY <1>1, AnswersInvariance, EveryRegistrationSucceeds, PTL
=============================================================================
