--------------------------- MODULE StructsProofs ----------------------------
(***************************************************************************)
(* Proofs about struct definitions and their instances, for every set of   *)
(* fields and of types.  What new_struct makes is followed round by round  *)
(* through its second loop (SoFar); that an instance agrees with the       *)
(* definition later on is because a definition in the environment changes  *)
(* no more (IInv).                                                         *)
(***************************************************************************)
EXTENDS Structs, Recursion

N == Len(Fields)

\* The places are those of a sequence.
LEMMA Places == N \in Nat /\ DOMAIN Fields = 1..N
  BY FieldsAssumption DEF N

-----------------------------------------------------------------------------
(* The loop. *)

\* A table of the rounds up to n.
IsTable(g, given, n) ==
  g = [i \in 0..n |-> IF i = 0 THEN WithDefaults(given) ELSE AfterRound(g[i - 1], given, i)]

\* The recursion in Rounds has a solution.
LEMMA TableExists ==
  ASSUME NEW given
  PROVE  \A n \in Nat : \E g : IsTable(g, given, n)
  <1> DEFINE S == {n \in Nat : \E g : IsTable(g, given, n)}
  <1>1. 0 \in S
    <2>1. IsTable([i \in 0..0 |-> WithDefaults(given)], given, 0)
      BY DEF IsTable
    <2> QED BY <2>1
  <1>2. ASSUME NEW n \in Nat, n \in S PROVE n + 1 \in S
    <2>1. PICK g : IsTable(g, given, n)
      BY <1>2
    <2> DEFINE h == [i \in 0..n + 1 |-> IF i = n + 1 THEN AfterRound(g[n], given, n + 1) ELSE g[i]]
    <2>2. \A i \in 0..n : h[i] = g[i]
      OBVIOUS
    <2>3. h[n + 1] = AfterRound(g[n], given, n + 1)
      OBVIOUS
    <2>4. ASSUME NEW i \in 0..n + 1
          PROVE  h[i] = IF i = 0 THEN WithDefaults(given) ELSE AfterRound(h[i - 1], given, i)
      <3>1. CASE i = n + 1
        <4>1. i # 0 /\ i - 1 = n /\ n \in 0..n
          BY <3>1
        <4>2. h[n] = g[n]
          BY <2>2, <4>1
        <4> HIDE DEF h
        <4> QED BY <2>3, <3>1, <4>1, <4>2
      <3>2. CASE i = 0
        <4>1. i \in 0..n
          BY <3>2
        <4>2. g[i] = WithDefaults(given)
          BY <2>1, <3>2, <4>1 DEF IsTable
        <4> QED BY <2>2, <3>2, <4>1, <4>2
      <3>3. CASE i # 0 /\ i # n + 1
        <4>1. i \in 0..n /\ i - 1 \in 0..n
          BY <3>3
        <4>2. g[i] = AfterRound(g[i - 1], given, i)
          BY <2>1, <3>3, <4>1 DEF IsTable
        <4>3. h[i] = g[i] /\ h[i - 1] = g[i - 1]
          BY <2>2, <4>1
        <4> HIDE DEF h
        <4> QED BY <3>3, <4>2, <4>3
      <3> QED BY <3>1, <3>2, <3>3
    <2>5. IsTable(h, given, n + 1)
      <3>1. h = [i \in 0..n + 1 |-> h[i]]
        OBVIOUS
      <3> HIDE DEF h
      <3> QED BY <2>4, <3>1 DEF IsTable
    <2> HIDE DEF h
    <2> QED BY <2>5
  <1>3. \A n \in Nat : n \in S
    <2>1. \A n \in Nat : n \in S => n + 1 \in S
      BY <1>2
    <2> HIDE DEF S
    <2> QED BY <1>1, <2>1, Induction
  <1> QED BY <1>3

\* The rounds are what their definition says of them.
LEMMA RoundsRecursion ==
  ASSUME NEW given
  PROVE  /\ Rounds(given)[0] = WithDefaults(given)
         /\ \A i \in 1..N : Rounds(given)[i] = AfterRound(Rounds(given)[i - 1], given, i)
  <1> DEFINE Round[i \in 0..Len(Fields)] ==
               IF i = 0 THEN WithDefaults(given) ELSE AfterRound(Round[i - 1], given, i)
  <1>1. PICK g : IsTable(g, given, N)
    BY TableExists, Places
  <1>2. g = [i \in 0..Len(Fields) |->
               IF i = 0 THEN WithDefaults(given) ELSE AfterRound(g[i - 1], given, i)]
    BY <1>1 DEF IsTable, N
  <1>3. Round = [i \in 0..Len(Fields) |->
                   IF i = 0 THEN WithDefaults(given) ELSE AfterRound(Round[i - 1], given, i)]
    BY <1>2
  <1>4. Rounds(given) = Round
    BY DEF Rounds
  <1> HIDE DEF Round
  <1>5. Round[0] = WithDefaults(given)
    BY <1>3, Places DEF N
  <1>6. ASSUME NEW i \in 1..N PROVE Round[i] = AfterRound(Round[i - 1], given, i)
    <2>1. i \in 0..Len(Fields) /\ i # 0
      BY Places DEF N
    <2> QED BY <1>3, <2>1
  <1> QED BY <1>4, <1>5, <1>6

\* The first of the first n places at which the loop has to complain.
IsFirstFault(given, n, i) ==
  i \in 1..n /\ Faulty(given, i) /\ \A j \in 1..i - 1 : ~Faulty(given, j)

\* The fields of the instance after n rounds without a complaint.
Held(given, n) == DOMAIN defaults \cup {Fields[i] : i \in {j \in 1..n : Fields[j] \in DOMAIN given}}

IsInstanceSoFar(s, given, n) ==
  /\ s.ok
  /\ DOMAIN s.fields = Held(given, n)
  /\ \A f \in Held(given, n) : s.fields[f] = IF f \in DOMAIN given THEN given[f] ELSE defaults[f]
  /\ Held(given, n) \subseteq DOMAIN defaults \cup DOMAIN fields

\* What the loop has made of the first n places.
SoFar(s, given, n) ==
  \/ IsInstanceSoFar(s, given, n) /\ \A i \in 1..n : ~Faulty(given, i)
  \/ \E i \in 1..n : IsFirstFault(given, n, i) /\ s = Complaint(i)

\* The first loop leaves every default, and what is provided for it over it.
LEMMA FirstLoop ==
  ASSUME NEW given
  PROVE  SoFar(WithDefaults(given), given, 0)
  <1>1. Held(given, 0) = DOMAIN defaults
    <2>1. {j \in 1..0 : Fields[j] \in DOMAIN given} = {}
      OBVIOUS
    <2>2. {Fields[i] : i \in {}} = {}
      OBVIOUS
    <2> QED BY <2>1, <2>2, Zenon DEF Held
  <1>2. IsInstanceSoFar(WithDefaults(given), given, 0)
    BY <1>1 DEF IsInstanceSoFar, WithDefaults, Instance
  <1> QED BY <1>2 DEF SoFar

\* One round of the second loop.
LEMMA OneRound ==
  ASSUME NEW given, NEW n \in 1..N, NEW s, SoFar(s, given, n - 1)
  PROVE  SoFar(AfterRound(s, given, n), given, n)
  <1> USE Places
  <1> DEFINE f == Fields[n]
             t == AfterRound(s, given, n)
  <1>0. /\ n - 1 \in Nat /\ (n - 1) + 1 = n
        /\ 1..n = (1..n - 1) \cup {n} /\ 1..n - 1 \subseteq 1..n
    OBVIOUS
  <1>1. CASE \E i \in 1..n - 1 : IsFirstFault(given, n - 1, i) /\ s = Complaint(i)
    <2>1. PICK i \in 1..n - 1 : IsFirstFault(given, n - 1, i) /\ s = Complaint(i)
      BY <1>1
    <2>2. ~s.ok
      BY <2>1 DEF Complaint, Error
    <2>3. t = s
      BY <2>2 DEF AfterRound
    <2>4. i \in 1..n /\ IsFirstFault(given, n, i)
      BY <1>0, <2>1 DEF IsFirstFault
    <2> QED BY <2>1, <2>3, <2>4 DEF SoFar
  <1>2. CASE IsInstanceSoFar(s, given, n - 1) /\ \A i \in 1..n - 1 : ~Faulty(given, i)
    <2>1. /\ s.ok /\ DOMAIN s.fields = Held(given, n - 1)
          /\ \A g \in Held(given, n - 1) : s.fields[g] = IF g \in DOMAIN given THEN given[g] ELSE defaults[g]
          /\ Held(given, n - 1) \subseteq DOMAIN defaults \cup DOMAIN fields
      BY <1>2 DEF IsInstanceSoFar
    <2>2. CASE ~IsLeft(given, n)
      <3>1. t = s
        BY <2>2 DEF AfterRound
      <3>2. Held(given, n) = Held(given, n - 1)
        <4>1. f \in DOMAIN given => f \in DOMAIN defaults
          BY <2>2 DEF IsLeft
        <4> QED BY <1>0, <4>1 DEF Held
      <3>3. ~Faulty(given, n)
        BY <2>2 DEF Faulty
      <3>4. IsInstanceSoFar(t, given, n)
        BY <2>1, <3>1, <3>2 DEF IsInstanceSoFar
      <3> QED BY <1>0, <1>2, <3>3, <3>4 DEF SoFar
    <2>3. CASE IsLeft(given, n) /\ Faulty(given, n)
      <3>1. t = Complaint(n)
        BY <2>1, <2>3 DEF AfterRound, WithField, Faulty, Complaint
      <3>2. IsFirstFault(given, n, n)
        BY <1>0, <1>2, <2>3 DEF IsFirstFault
      <3> QED BY <3>1, <3>2 DEF SoFar
    <2>4. CASE IsLeft(given, n) /\ ~Faulty(given, n)
      <3>1. f \in DOMAIN given /\ f \notin DOMAIN defaults /\ f \in DOMAIN fields
            /\ given[f].type = fields[f]
        BY <2>4 DEF Faulty, IsLeft
      <3>2. t = Instance(Insert(s.fields, f, given[f]))
        BY <2>1, <2>4, <3>1 DEF AfterRound, WithField
      <3>3. Held(given, n) = Held(given, n - 1) \cup {f}
        BY <1>0, <3>1 DEF Held
      <3>4. t.ok /\ t.fields = [k \in Held(given, n) |-> IF k = f THEN given[f] ELSE s.fields[k]]
        BY <2>1, <3>2, <3>3 DEF Instance, Insert
      <3>5. \A k \in Held(given, n) : t.fields[k] = IF k \in DOMAIN given THEN given[k] ELSE defaults[k]
        BY <2>1, <3>1, <3>3, <3>4
      <3>6. IsInstanceSoFar(t, given, n)
        BY <2>1, <3>1, <3>3, <3>4, <3>5 DEF IsInstanceSoFar
      <3> QED BY <1>0, <1>2, <2>4, <3>6 DEF SoFar
    <2> QED BY <2>2, <2>3, <2>4
  <1> QED BY <1>1, <1>2 DEF SoFar

\* What new_struct makes, whatever the definition and whatever is provided.
LEMMA MadeSoFar ==
  ASSUME NEW given
  PROVE  SoFar(Made(given), given, N)
  <1> DEFINE R == Rounds(given)
             S == {n \in Nat : n <= N => SoFar(R[n], given, n)}
  <1>1. 0 \in S
    BY RoundsRecursion, FirstLoop
  <1>2. ASSUME NEW n \in Nat, n \in S PROVE n + 1 \in S
    <2> SUFFICES ASSUME n + 1 <= N PROVE SoFar(R[n + 1], given, n + 1)
      OBVIOUS
    <2>1. n + 1 \in 1..N /\ (n + 1) - 1 = n /\ n <= N
      BY Places
    <2>2. SoFar(R[n], given, n)
      BY <1>2, <2>1
    <2>3. R[n + 1] = AfterRound(R[n], given, n + 1)
      BY <2>1, RoundsRecursion
    <2> HIDE DEF R
    <2>4. SoFar(AfterRound(R[n], given, n + 1), given, n + 1)
      BY <2>1, <2>2, OneRound
    <2> QED BY <2>3, <2>4
  <1>3. \A n \in Nat : n \in S
    <2>1. \A n \in Nat : n \in S => n + 1 \in S
      BY <1>2
    <2> HIDE DEF S
    <2> QED BY <1>1, <2>1, Induction
  <1>4. SoFar(R[N], given, N)
    BY <1>3, Places
  <1> QED BY <1>4 DEF Made, N
-----------------------------------------------------------------------------
(* The invariant. *)

\* A default belongs to a declared field.
DefaultsAreDeclared == DOMAIN defaults \subseteq DOMAIN fields

\* An expression provides fields the model knows.
ProvidedAreKnown == DOMAIN provided \subseteq NamesOfFields

\* What new_struct answered is what it would answer now.
ResultIsCurrent == result # NoResult => built /\ result = Made(provided)

IInv == DefaultsAreDeclared /\ ProvidedAreKnown /\ ResultIsCurrent

\* Initially nothing is declared.
LEMMA InitInv == Init => IInv
  BY DEF Init, IInv, DefaultsAreDeclared, ProvidedAreKnown, ResultIsCurrent, Empty

\* While the definition is built no expression has been evaluated; then it stays as it is.
LEMMA StepInv == IInv /\ [Next]_vars => IInv'
  <1> SUFFICES ASSUME IInv, [Next]_vars PROVE IInv'
    OBVIOUS
  <1> USE DEF IInv
  <1>1. ASSUME NEW f \in NamesOfFields, NEW t \in Types, AddField(f, t) PROVE IInv'
    <2>1. DefaultsAreDeclared' /\ ProvidedAreKnown'
      BY <1>1 DEF AddField, Insert, DefaultsAreDeclared, ProvidedAreKnown
    <2>2. ResultIsCurrent'
      BY <1>1 DEF AddField, ResultIsCurrent, NoResult
    <2> QED BY <2>1, <2>2
  <1>2. ASSUME NEW f \in NamesOfFields, NEW t \in Types, AddFieldWithDefault(f, Default(t))
        PROVE  IInv'
    <2>1. DefaultsAreDeclared' /\ ProvidedAreKnown'
      BY <1>2 DEF AddFieldWithDefault, Insert, DefaultsAreDeclared, ProvidedAreKnown
    <2>2. ResultIsCurrent'
      BY <1>2 DEF AddFieldWithDefault, ResultIsCurrent, NoResult
    <2> QED BY <2>1, <2>2
  <1>3. CASE AddStruct
    <2>1. DefaultsAreDeclared' /\ ProvidedAreKnown'
      BY <1>3 DEF AddStruct, DefaultsAreDeclared, ProvidedAreKnown
    <2>2. ResultIsCurrent'
      BY <1>3 DEF AddStruct, ResultIsCurrent, NoResult
    <2> QED BY <2>1, <2>2
  <1>4. ASSUME NEW S \in SUBSET NamesOfFields, NEW given \in [S -> {Given(t) : t \in Types}],
               NewStruct(given)
        PROVE  IInv'
    <2>1. DefaultsAreDeclared' /\ ProvidedAreKnown'
      BY <1>4 DEF NewStruct, DefaultsAreDeclared, ProvidedAreKnown, NamesOfFields
    <2>2. Made(given)' = Made(given)
      <3>1. fields' = fields /\ defaults' = defaults
        BY <1>4 DEF NewStruct
      <3> QED BY <3>1 DEF Made, Rounds, WithDefaults, AfterRound, WithField, IsLeft, Insert
    <2>3. ResultIsCurrent'
      BY <1>4, <2>2 DEF NewStruct, ResultIsCurrent
    <2> QED BY <2>1, <2>3
  <1>5. CASE UNCHANGED vars
    BY <1>5 DEF vars, DefaultsAreDeclared, ProvidedAreKnown, ResultIsCurrent, NamesOfFields, Made,
                Rounds, WithDefaults, AfterRound, WithField, IsLeft, Insert
  <1> QED BY <1>1, <1>2, <1>3, <1>4, <1>5 DEF Next

\* The answers of a definition are never outdated (env.rs: a definition has no method that
\* changes it once Env::add_struct has taken it).
THEOREM AnswersStayCurrent == Spec => []IInv
  <1>1. Init => IInv
    BY InitInv
  <1>2. IInv /\ [Next]_vars => IInv'
    BY StepInv
  <1> QED BY <1>1, <1>2, PTL DEF Spec
-----------------------------------------------------------------------------
(* What a host relies on. *)

\* Every field the expression provides has a place the loop comes to.
LEMMA AllHeld ==
  ASSUME NEW given, DOMAIN given \subseteq NamesOfFields
  PROVE  Held(given, N) = DOMAIN given \cup DOMAIN defaults
  <1>1. \A f \in DOMAIN given : \E i \in 1..N : Fields[i] = f
    BY Places DEF NamesOfFields
  <1> QED BY <1>1 DEF Held

\* The state of an answer that is current.
LEMMA Answers ==
  ASSUME IInv, result # NoResult
  PROVE  /\ InstanceIsProvidedOverDefaults
         /\ ErrorsHaveReasons
  <1>1. result = Made(provided) /\ DOMAIN provided \subseteq NamesOfFields
        /\ DOMAIN defaults \subseteq DOMAIN fields
    BY DEF IInv, ResultIsCurrent, ProvidedAreKnown, DefaultsAreDeclared
  <1>2. SoFar(result, provided, N)
    BY <1>1, MadeSoFar
  <1>3. Held(provided, N) = DOMAIN provided \cup DOMAIN defaults
    BY <1>1, AllHeld
  <1>4. CASE IsInstanceSoFar(result, provided, N) /\ \A i \in 1..N : ~Faulty(provided, i)
    <2>1. /\ result.ok /\ DOMAIN result.fields = DOMAIN provided \cup DOMAIN defaults
          /\ \A f \in DOMAIN result.fields :
               result.fields[f] = IF f \in DOMAIN provided THEN provided[f] ELSE defaults[f]
          /\ DOMAIN result.fields \subseteq DOMAIN fields
      BY <1>1, <1>3, <1>4 DEF IsInstanceSoFar
    <2>2. ErrorsHaveReasons
      BY <1>4, <2>1, Places DEF ErrorsHaveReasons, Instantiated
    <2>3. InstanceIsProvidedOverDefaults
      BY <2>1 DEF InstanceIsProvidedOverDefaults
    <2> QED BY <2>2, <2>3
  <1>5. CASE \E i \in 1..N : IsFirstFault(provided, N, i) /\ result = Complaint(i)
    <2>1. PICK i \in 1..N : IsFirstFault(provided, N, i) /\ result = Complaint(i)
      BY <1>5
    <2>2. ~Instantiated
      BY <2>1 DEF Instantiated, Complaint, Error
    <2>3. i \in DOMAIN Fields /\ Faulty(provided, i) /\ \A j \in 1..i - 1 : ~Faulty(provided, j)
      BY <2>1, Places DEF IsFirstFault
    <2>4. ErrorsHaveReasons
      BY <2>1, <2>3 DEF ErrorsHaveReasons
    <2>5. InstanceIsProvidedOverDefaults
      BY <2>2 DEF InstanceIsProvidedOverDefaults
    <2> QED BY <2>4, <2>5
  <1> QED BY <1>2, <1>4, <1>5 DEF SoFar

\* Whatever is declared, in whatever order and however often, an instance holds what the
\* expression provided over the defaults, and nothing else (StructDef::new_struct).
THEOREM InstancesHoldWhatIsProvided == Spec => []InstanceIsProvidedOverDefaults
  <1>1. IInv => InstanceIsProvidedOverDefaults
    <2>1. result = NoResult => InstanceIsProvidedOverDefaults
      BY DEF InstanceIsProvidedOverDefaults, Instantiated, NoResult
    <2> QED BY <2>1, Answers
  <1> QED BY <1>1, AnswersStayCurrent, PTL

\* new_struct complains of the first field without a default that is unknown or of another type
\* than declared, and of nothing else, for every list of fields and every order of declarations.
THEOREM RefusalsAreJustified == Spec => []ErrorsHaveReasons
  <1>1. IInv => ErrorsHaveReasons
    <2>1. result = NoResult => ErrorsHaveReasons
      BY DEF ErrorsHaveReasons
    <2> QED BY <2>1, Answers
  <1> QED BY <1>1, AnswersStayCurrent, PTL
=============================================================================
