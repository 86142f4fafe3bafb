----------------------------- MODULE Recursion ------------------------------
(***************************************************************************)
(* Induction, for the proofs: over natural numbers, over positions in a    *)
(* sequence, over steps, and over data that holds other data.              *)
(*                                                                         *)
(* All the parameters but the last are those of data.  An operator F of    *)
(* the model that is written as a recursive function over all the parts of *)
(* its argument is MadeOf of an instance of this module, in which PartsOf  *)
(* and Make say what F looks at and what it makes of that; Unfolding is    *)
(* then its defining equation, and HoldsOfParts is induction over data.    *)
(***************************************************************************)
EXTENDS Naturals, TLAPS, WellFoundedInduction

CONSTANTS
  PartsOf(_),          \* what something holds directly
  Make(_, _),          \* what is made of it, given what is made of each of its parts
  Holds(_),            \* what is said of it
  Depth,               \* how deep things are held in one another
  Following(_, _, _)   \* what a step over an input makes of what the step before made
-----------------------------------------------------------------------------
(* Natural numbers and positions. *)

\* A set of naturals that is not empty has a least member.
LEMMA LeastNatural ==
  ASSUME NEW T \in SUBSET Nat, T # {}
  PROVE  \E x \in T : \A y \in T : x <= y
  <1> DEFINE less == {ss \in Nat \X Nat : ss[1] < ss[2]}
  <1>1. PICK x \in T : \A y \in T : ~(<<y, x>> \in less)
    <2>1. IsWellFoundedOn(less, Nat)
      BY NatLessThanWellFounded DEF OpToRel
    <2> HIDE DEF less
    <2> QED BY <2>1, WFMin
  <1>2. \A y \in T : x <= y
    <2> SUFFICES ASSUME NEW y \in T, y < x PROVE FALSE
      OBVIOUS
    <2>1. <<y, x>> \in less
      OBVIOUS
    <2> HIDE DEF less
    <2> QED BY <1>1, <2>1
  <1> QED BY <1>2

\* A set that holds 0 and with every natural the next one holds all of them.
LEMMA Induction ==
  ASSUME NEW S, 0 \in S, \A n \in Nat : n \in S => n + 1 \in S
  PROVE  \A n \in Nat : n \in S
  <1> DEFINE T == {n \in Nat : n \notin S}
  <1> SUFFICES ASSUME T # {} PROVE FALSE
    OBVIOUS
  <1>1. PICK x \in T : \A y \in T : x <= y
    <2>1. T \in SUBSET Nat
      OBVIOUS
    <2> HIDE DEF T
    <2> QED BY <2>1, LeastNatural
  <1>2. x # 0 /\ x \in Nat
    OBVIOUS
  <1>3. x - 1 \in Nat /\ ~(x <= x - 1)
    BY <1>2
  <1>4. x - 1 \in S
    BY <1>1, <1>3
  <1>5. (x - 1) + 1 = x
    BY <1>2
  <1>6. x \in S
    BY <1>3, <1>4, <1>5
  <1> QED BY <1>6

\* A set that holds every natural whose predecessors it holds, holds all of them.
LEMMA StrongInduction ==
  ASSUME NEW S, \A n \in Nat : (\A m \in Nat : m < n => m \in S) => n \in S
  PROVE  \A n \in Nat : n \in S
  <1> DEFINE T == {n \in Nat : n \notin S}
  <1> SUFFICES ASSUME T # {} PROVE FALSE
    OBVIOUS
  <1>1. PICK x \in T : \A y \in T : x <= y
    <2>1. T \in SUBSET Nat
      OBVIOUS
    <2> HIDE DEF T
    <2> QED BY <2>1, LeastNatural
  <1>2. \A m \in Nat : m < x => m \in S
    <2> SUFFICES ASSUME NEW m \in Nat, m < x, m \notin S PROVE FALSE
      OBVIOUS
    <2>1. m \in T /\ x \in Nat
      OBVIOUS
    <2> QED BY <1>1, <2>1
  <1> QED BY <1>2

\* A set of positions that is not empty has a first one.
LEMMA FirstPosition ==
  ASSUME NEW m \in Nat, NEW S \in SUBSET (1..m), S # {}
  PROVE  \E i \in S : \A j \in S : i <= j
  <1>1. S \in SUBSET Nat
    OBVIOUS
  <1> QED BY <1>1, LeastNatural

\* A set of positions that is not empty has a last one.
LEMMA LastPosition ==
  ASSUME NEW m \in Nat, NEW S \in SUBSET (1..m), S # {}
  PROVE  \E i \in S : \A j \in S : j <= i
  <1> DEFINE T == {m - i : i \in S}
  <1>1. T \subseteq Nat /\ T # {}
    <2>1. \A i \in S : m - i \in T /\ m - i \in Nat
      OBVIOUS
    <2> QED BY <2>1
  <1>2. PICK x \in T : \A y \in T : x <= y
    <2> HIDE DEF T
    <2> QED BY <1>1, LeastNatural
  <1>3. PICK i \in S : x = m - i
    BY <1>2
  <1>4. \A j \in S : j <= i
    <2> SUFFICES ASSUME NEW j \in S PROVE j <= i
      OBVIOUS
    <2>1. m - j \in T
      OBVIOUS
    <2>2. m - i <= m - j
      BY <1>2, <1>3, <2>1
    <2>3. i \in Nat /\ j \in Nat
      OBVIOUS
    <2> HIDE DEF T
    <2> QED BY <2>2, <2>3
  <1> QED BY <1>4
-----------------------------------------------------------------------------
(* Steps, each of which goes on from the one before. *)

StepsFrom(input, first, n) ==
  LET F[i \in 0..n] == IF i = 0 THEN first ELSE Following(input, i, F[i - 1]) IN F

AreSteps(g, input, first, n) == g = [i \in 0..n |-> IF i = 0 THEN first ELSE Following(input, i, g[i - 1])]

LEMMA StepsExist ==
  ASSUME NEW input, NEW first
  PROVE  \A n \in Nat : \E g : AreSteps(g, input, first, n)
  <1> DEFINE S == {n \in Nat : \E g : AreSteps(g, input, first, n)}
  <1>1. 0 \in S
    <2>1. AreSteps([i \in 0..0 |-> first], input, first, 0)
      BY DEF AreSteps
    <2> QED BY <2>1
  <1>2. ASSUME NEW n \in Nat, n \in S PROVE n + 1 \in S
    <2>1. PICK g : AreSteps(g, input, first, n)
      BY <1>2
    <2> DEFINE h == [i \in 0..n + 1 |-> IF i = n + 1 THEN Following(input, n + 1, g[n]) ELSE g[i]]
    <2>2. (\A i \in 0..n : h[i] = g[i]) /\ h[n + 1] = Following(input, n + 1, g[n])
          /\ h = [i \in 0..n + 1 |-> h[i]]
      OBVIOUS
    <2> HIDE DEF h
    <2>3. \A i \in 0..n : g[i] = IF i = 0 THEN first ELSE Following(input, i, g[i - 1])
      BY <2>1 DEF AreSteps
    <2>4. ASSUME NEW i \in 0..n + 1
          PROVE  h[i] = IF i = 0 THEN first ELSE Following(input, i, h[i - 1])
      <3>1. CASE i = n + 1
        <4>1. i # 0 /\ i - 1 = n /\ n \in 0..n
          BY <3>1
        <4> QED BY <2>2, <3>1, <4>1
      <3>2. CASE i # n + 1
        <4>1. i \in 0..n /\ (i # 0 => i - 1 \in 0..n)
          BY <3>2
        <4> QED BY <2>2, <2>3, <4>1
      <3> QED BY <3>1, <3>2
    <2>5. AreSteps(h, input, first, n + 1)
      BY <2>2, <2>4 DEF AreSteps
    <2> QED BY <2>5
  <1>3. \A n \in Nat : n \in S => n + 1 \in S
    BY <1>2
  <1> HIDE DEF S
  <1>4. \A n \in Nat : n \in S
    BY <1>1, <1>3, Induction
  <1> QED BY <1>4 DEF S

\* The first step, and each next one.
LEMMA StepByStep ==
  ASSUME NEW input, NEW first, NEW n \in Nat
  PROVE  /\ StepsFrom(input, first, n)[0] = first
         /\ \A i \in Nat : i + 1 <= n =>
              StepsFrom(input, first, n)[i + 1] = Following(input, i + 1, StepsFrom(input, first, n)[i])
  <1> DEFINE F[i \in 0..n] == IF i = 0 THEN first ELSE Following(input, i, F[i - 1])
  <1>1. \E g : g = [i \in 0..n |-> IF i = 0 THEN first ELSE Following(input, i, g[i - 1])]
    <2>1. PICK g : AreSteps(g, input, first, n)
      <3> HIDE DEF AreSteps
      <3> QED BY StepsExist
    <2> QED BY <2>1 DEF AreSteps
  <1>2. F = [i \in 0..n |-> IF i = 0 THEN first ELSE Following(input, i, F[i - 1])]
    BY <1>1
  <1>3. StepsFrom(input, first, n) = F
    BY DEF StepsFrom
  <1> HIDE DEF F
  <1>4. \A i \in 0..n : F[i] = IF i = 0 THEN first ELSE Following(input, i, F[i - 1])
    BY <1>2
  <1>5. 0 \in 0..n /\ \A i \in Nat : i + 1 <= n => i + 1 \in 0..n /\ i + 1 # 0 /\ (i + 1) - 1 = i
    OBVIOUS
  <1> QED BY <1>3, <1>4, <1>5

\* However many steps there are, the first of them are the same.
LEMMA StepsTogether ==
  ASSUME NEW input, NEW first, NEW m \in Nat, NEW n \in Nat, m <= n
  PROVE  \A i \in Nat : i <= m => StepsFrom(input, first, m)[i] = StepsFrom(input, first, n)[i]
  <1> DEFINE S == {i \in Nat : i <= m => StepsFrom(input, first, m)[i] = StepsFrom(input, first, n)[i]}
  <1>1. 0 \in S
    BY StepByStep
  <1>2. ASSUME NEW i \in Nat, i \in S, i + 1 <= m
        PROVE  StepsFrom(input, first, m)[i + 1] = StepsFrom(input, first, n)[i + 1]
    <2>1. i <= m /\ i + 1 <= n
      BY <1>2
    <2>2. StepsFrom(input, first, m)[i] = StepsFrom(input, first, n)[i]
      BY <1>2, <2>1
    <2> QED BY <1>2, <2>1, <2>2, StepByStep
  <1>3. \A i \in Nat : i \in S => i + 1 \in S
    BY <1>2
  <1> HIDE DEF S
  <1>4. \A i \in Nat : i \in S
    BY <1>1, <1>3, Induction
  <1> QED BY <1>4 DEF S

\* There is a function on the naturals whose values are made each of the one before.
IsUnending(f, input, first) == f = [n \in Nat |-> IF n = 0 THEN first ELSE Following(input, n, f[n - 1])]

LEMMA UnendingExists ==
  ASSUME NEW input, NEW first
  PROVE  \E f : IsUnending(f, input, first)
  <1> DEFINE f == [n \in Nat |-> StepsFrom(input, first, n)[n]]
  <1>1. \A n \in Nat : f[n] = StepsFrom(input, first, n)[n]
    OBVIOUS
  <1>2. f = [n \in Nat |-> f[n]]
    OBVIOUS
  <1> HIDE DEF f
  <1>3. f[0] = first
    BY <1>1, StepByStep
  <1>4. ASSUME NEW n \in Nat PROVE f[n + 1] = Following(input, n + 1, f[n])
    <2>1. f[n + 1] = StepsFrom(input, first, n + 1)[n + 1]
      BY <1>1
    <2>2. StepsFrom(input, first, n + 1)[n + 1] = Following(input, n + 1, StepsFrom(input, first, n + 1)[n])
      BY StepByStep
    <2>3. StepsFrom(input, first, n)[n] = StepsFrom(input, first, n + 1)[n]
      BY StepsTogether
    <2> QED BY <1>1, <2>1, <2>2, <2>3
  <1>5. ASSUME NEW n \in Nat PROVE f[n] = IF n = 0 THEN first ELSE Following(input, n, f[n - 1])
    <2>1. CASE n # 0
      <3>1. n - 1 \in Nat /\ (n - 1) + 1 = n
        BY <2>1
      <3> QED BY <1>4, <2>1, <3>1
    <2> QED BY <1>3, <2>1
  <1>6. f = [n \in Nat |-> IF n = 0 THEN first ELSE Following(input, n, f[n - 1])]
    BY <1>2, <1>5
  <1> QED BY <1>6 DEF IsUnending
-----------------------------------------------------------------------------
(* Data that holds other data. *)

\* What is so many levels inside something, and all of that together with itself.
PartLevels(v) ==
  LET Level[n \in 0..Depth] == IF n = 0 THEN {v} ELSE UNION {PartsOf(w) : w \in Level[n - 1]}
  IN Level

AllPartsOf(v) == UNION {PartLevels(v)[n] : n \in 0..Depth}

IsBounded(v) == \A w \in PartLevels(v)[Depth] : PartsOf(w) = {}

\* What is made of something depends only on what is made of its parts.
MakesFromParts ==
  \A f, g, w : (\A x \in PartsOf(w) : f[x] = g[x]) => Make(f, w) = Make(g, w)

MadeOf(v) == LET F[w \in AllPartsOf(v)] == Make(F, w) IN F[v]

\* The contents of all members of a set.
ContentsOf(S) == UNION {PartsOf(w) : w \in S}

\* A table of what is inside something, down to a level.
AreLevels(g, v, n) == g = [i \in 0..n |-> IF i = 0 THEN {v} ELSE ContentsOf(g[i - 1])]

LEMMA LevelsExist ==
  ASSUME NEW v
  PROVE  \A n \in Nat : \E g : AreLevels(g, v, n)
  <1> DEFINE S == {n \in Nat : \E g : AreLevels(g, v, n)}
  <1>1. 0 \in S
    <2>1. AreLevels([i \in 0..0 |-> {v}], v, 0)
      BY DEF AreLevels
    <2> QED BY <2>1
  <1>2. ASSUME NEW n \in Nat, n \in S PROVE n + 1 \in S
    <2>1. PICK g : AreLevels(g, v, n)
      BY <1>2
    <2> DEFINE h == [i \in 0..n + 1 |-> IF i = n + 1 THEN ContentsOf(g[n]) ELSE g[i]]
    <2>2. (\A i \in 0..n : h[i] = g[i]) /\ h[n + 1] = ContentsOf(g[n])
          /\ h = [i \in 0..n + 1 |-> h[i]]
      OBVIOUS
    <2> HIDE DEF h
    <2>3. \A i \in 0..n : g[i] = IF i = 0 THEN {v} ELSE ContentsOf(g[i - 1])
      BY <2>1 DEF AreLevels
    <2>4. ASSUME NEW i \in 0..n + 1
          PROVE  h[i] = IF i = 0 THEN {v} ELSE ContentsOf(h[i - 1])
      <3>1. CASE i = n + 1
        <4>1. i # 0 /\ i - 1 = n /\ n \in 0..n
          BY <3>1
        <4> QED BY <2>2, <3>1, <4>1
      <3>2. CASE i # n + 1
        <4>1. i \in 0..n /\ (i # 0 => i - 1 \in 0..n)
          BY <3>2
        <4> QED BY <2>2, <2>3, <4>1
      <3> QED BY <3>1, <3>2
    <2>5. AreLevels(h, v, n + 1)
      BY <2>2, <2>4 DEF AreLevels
    <2> QED BY <2>5
  <1>3. \A n \in Nat : n \in S => n + 1 \in S
    BY <1>2
  <1> HIDE DEF S
  <1>4. \A n \in Nat : n \in S
    BY <1>1, <1>3, Induction
  <1> QED BY <1>4 DEF S

\* At a level is the thing itself or the contents of the level before.
LEMMA LevelByLevel ==
  ASSUME Depth \in Nat, NEW v
  PROVE  /\ PartLevels(v)[0] = {v}
         /\ \A n \in Nat : n + 1 \in 0..Depth => PartLevels(v)[n + 1] = ContentsOf(PartLevels(v)[n])
  <1> DEFINE Level[n \in 0..Depth] == IF n = 0 THEN {v} ELSE UNION {PartsOf(w) : w \in Level[n - 1]}
  <1>1. \E g : g = [n \in 0..Depth |-> IF n = 0 THEN {v} ELSE UNION {PartsOf(w) : w \in g[n - 1]}]
    <2>1. PICK g : AreLevels(g, v, Depth)
      <3> HIDE DEF AreLevels
      <3> QED BY LevelsExist
    <2> QED BY <2>1 DEF AreLevels, ContentsOf
  <1>2. Level = [n \in 0..Depth |-> IF n = 0 THEN {v} ELSE UNION {PartsOf(w) : w \in Level[n - 1]}]
    BY <1>1
  <1>3. PartLevels(v) = Level
    BY DEF PartLevels
  <1> HIDE DEF Level
  <1>4. \A n \in 0..Depth : PartLevels(v)[n] = IF n = 0 THEN {v} ELSE ContentsOf(PartLevels(v)[n - 1])
    BY <1>2, <1>3 DEF ContentsOf
  <1>5. 0 \in 0..Depth /\ \A n \in Nat : n + 1 # 0 /\ (n + 1) - 1 = n
    OBVIOUS
  <1> QED BY <1>4, <1>5

\* What something anywhere inside holds is one level further inside, as long as there is a level.
LEMMA BoundedLevels ==
  ASSUME Depth \in Nat, NEW v, IsBounded(v)
  PROVE  /\ v \in PartLevels(v)[0] /\ v \in AllPartsOf(v)
         /\ \A n \in 0..Depth : \A w \in PartLevels(v)[n] : \A x \in PartsOf(w) :
              n + 1 \in 0..Depth /\ x \in PartLevels(v)[n + 1]
  <1>1. v \in PartLevels(v)[0] /\ 0 \in 0..Depth
    BY LevelByLevel
  <1>2. ASSUME NEW n \in 0..Depth, NEW w \in PartLevels(v)[n], NEW x \in PartsOf(w)
        PROVE  n + 1 \in 0..Depth /\ x \in PartLevels(v)[n + 1]
    <2>1. n # Depth
      BY <1>2 DEF IsBounded
    <2>2. n \in Nat /\ n + 1 \in 0..Depth
      BY <2>1
    <2>3. x \in ContentsOf(PartLevels(v)[n])
      BY <1>2 DEF ContentsOf
    <2> QED BY <2>2, <2>3, LevelByLevel
  <1>3. v \in AllPartsOf(v)
    BY <1>1 DEF AllPartsOf
  <1> QED BY <1>1, <1>2, <1>3

\* The last levels inside something.
Innermost(v, k) == UNION {PartLevels(v)[n] : n \in Depth - k..Depth}

LEMMA InnermostHolds ==
  ASSUME Depth \in Nat, NEW v, IsBounded(v), NEW k \in Nat, k + 1 <= Depth
  PROVE  \A w \in Innermost(v, k + 1) : PartsOf(w) \subseteq Innermost(v, k)
  <1> SUFFICES ASSUME NEW w \in Innermost(v, k + 1), NEW x \in PartsOf(w)
               PROVE  x \in Innermost(v, k)
    OBVIOUS
  <1>1. PICK n \in Depth - (k + 1)..Depth : w \in PartLevels(v)[n]
    BY DEF Innermost
  <1>2. n \in 0..Depth
    OBVIOUS
  <1>3. n + 1 \in 0..Depth /\ x \in PartLevels(v)[n + 1]
    BY <1>1, <1>2, BoundedLevels
  <1>4. n + 1 \in Depth - k..Depth
    BY <1>3
  <1> QED BY <1>3, <1>4 DEF Innermost

LEMMA InnermostEnds ==
  ASSUME Depth \in Nat, NEW v, IsBounded(v)
  PROVE  /\ \A w \in Innermost(v, 0) : PartsOf(w) = {}
         /\ Innermost(v, Depth) = AllPartsOf(v)
  <1>1. Depth - 0..Depth = {Depth} /\ Depth - Depth = 0
    OBVIOUS
  <1> QED BY <1>1 DEF Innermost, IsBounded, AllPartsOf

\* What something holds is bounded too, and all inside that is inside the whole.
LEMMA PartsAreBounded ==
  ASSUME Depth \in Nat, NEW v, IsBounded(v), NEW w \in PartsOf(v)
  PROVE  IsBounded(w) /\ AllPartsOf(w) \subseteq AllPartsOf(v)
  <1> DEFINE S == {n \in Nat : n + 1 <= Depth => PartLevels(w)[n] \subseteq PartLevels(v)[n + 1]}
  <1>0. 0 + 1 \in 0..Depth /\ w \in PartLevels(v)[0 + 1]
    BY BoundedLevels
  <1>1. 0 \in S
    BY <1>0, LevelByLevel
  <1>2. ASSUME NEW n \in Nat, n \in S, (n + 1) + 1 <= Depth
        PROVE  PartLevels(w)[n + 1] \subseteq PartLevels(v)[(n + 1) + 1]
    <2>1. PartLevels(w)[n] \subseteq PartLevels(v)[n + 1]
      BY <1>2
    <2>2. n + 1 \in 0..Depth /\ (n + 1) + 1 \in 0..Depth /\ n + 1 \in Nat
      BY <1>2
    <2>3. PartLevels(w)[n + 1] = ContentsOf(PartLevels(w)[n])
          /\ PartLevels(v)[(n + 1) + 1] = ContentsOf(PartLevels(v)[n + 1])
      BY <2>2, LevelByLevel
    <2> QED BY <2>1, <2>3 DEF ContentsOf
  <1>3. \A n \in Nat : n \in S => n + 1 \in S
    BY <1>2
  <1> HIDE DEF S
  <1>4. \A n \in Nat : n \in S
    BY <1>1, <1>3, Induction
  <1>5. \A n \in Nat : n + 1 <= Depth => PartLevels(w)[n] \subseteq PartLevels(v)[n + 1]
    BY <1>4 DEF S
  <1>6. PartLevels(w)[Depth] = {}
    <2>1. PICK m \in Nat : m + 1 = Depth
      <3>1. Depth - 1 \in Nat /\ (Depth - 1) + 1 = Depth
        BY <1>0
      <3> QED BY <3>1
    <2>2. PartLevels(w)[m] \subseteq PartLevels(v)[Depth] /\ m + 1 \in 0..Depth
      BY <1>5, <2>1
    <2>3. PartLevels(w)[Depth] = ContentsOf(PartLevels(w)[m])
      BY <2>1, <2>2, LevelByLevel
    <2> QED BY <2>2, <2>3 DEF ContentsOf, IsBounded
  <1>7. ASSUME NEW n \in 0..Depth PROVE PartLevels(w)[n] \subseteq AllPartsOf(v)
    <2>1. CASE n = Depth
      BY <1>6, <2>1
    <2>2. CASE n # Depth
      <3>1. n \in Nat /\ n + 1 <= Depth /\ n + 1 \in 0..Depth
        BY <2>2
      <3> QED BY <1>5, <3>1 DEF AllPartsOf
    <2> QED BY <2>1, <2>2
  <1> QED BY <1>6, <1>7 DEF IsBounded, AllPartsOf

\* All that is inside something bounded is bounded, and holds nothing that is not inside the whole.
LEMMA InnermostBounded ==
  ASSUME Depth \in Nat, NEW v, IsBounded(v)
  PROVE  \A w \in AllPartsOf(v) : IsBounded(w) /\ AllPartsOf(w) \subseteq AllPartsOf(v)
  <1> DEFINE Fits(w) == IsBounded(w) /\ AllPartsOf(w) \subseteq AllPartsOf(v)
             S == {n \in Nat : n <= Depth => \A w \in PartLevels(v)[n] : Fits(w)}
  <1>1. 0 \in S
    BY LevelByLevel
  <1>2. ASSUME NEW n \in Nat, n \in S, n + 1 <= Depth, NEW w \in PartLevels(v)[n + 1]
        PROVE  Fits(w)
    <2>1. n + 1 \in 0..Depth /\ n <= Depth
      BY <1>2
    <2>2. PICK u \in PartLevels(v)[n] : w \in PartsOf(u)
      BY <1>2, <2>1, LevelByLevel DEF ContentsOf
    <2>3. Fits(u)
      BY <1>2, <2>1, <2>2
    <2> QED BY <2>2, <2>3, PartsAreBounded
  <1>3. \A n \in Nat : n \in S => n + 1 \in S
    BY <1>2
  <1> HIDE DEF S
  <1>4. \A n \in Nat : n \in S
    BY <1>1, <1>3, Induction
  <1>5. \A n \in 0..Depth : \A w \in PartLevels(v)[n] : Fits(w)
    BY <1>4 DEF S
  <1> QED BY <1>5 DEF AllPartsOf

\* The levels inside something are those inside its parts.
LEMMA LevelsOfParts ==
  ASSUME Depth \in Nat, NEW v
  PROVE  \A n \in Nat : n + 1 <= Depth =>
           PartLevels(v)[n + 1] = UNION {PartLevels(x)[n] : x \in PartsOf(v)}
  <1> DEFINE S == {n \in Nat : n + 1 <= Depth =>
                     PartLevels(v)[n + 1] = UNION {PartLevels(x)[n] : x \in PartsOf(v)}}
  <1>1. 0 \in S
    <2> SUFFICES ASSUME 0 + 1 <= Depth
                 PROVE  PartLevels(v)[0 + 1] = UNION {PartLevels(x)[0] : x \in PartsOf(v)}
      OBVIOUS
    <2>1. 0 + 1 \in 0..Depth
      OBVIOUS
    <2>2. PartLevels(v)[0 + 1] = ContentsOf({v})
      BY <2>1, LevelByLevel
    <2>3. \A x : PartLevels(x)[0] = {x}
      BY LevelByLevel
    <2>4. UNION {PartLevels(x)[0] : x \in PartsOf(v)} = PartsOf(v)
      BY <2>3
    <2> QED BY <2>2, <2>4 DEF ContentsOf
  <1>2. ASSUME NEW n \in Nat, n \in S, (n + 1) + 1 <= Depth
        PROVE  PartLevels(v)[(n + 1) + 1] = UNION {PartLevels(x)[n + 1] : x \in PartsOf(v)}
    <2>1. n + 1 \in Nat /\ n + 1 \in 0..Depth /\ (n + 1) + 1 \in 0..Depth
      BY <1>2
    <2>2. PartLevels(v)[(n + 1) + 1] = ContentsOf(PartLevels(v)[n + 1])
      BY <2>1, LevelByLevel
    <2>3. PartLevels(v)[n + 1] = UNION {PartLevels(x)[n] : x \in PartsOf(v)}
      BY <1>2
    <2>4. \A x : PartLevels(x)[n + 1] = ContentsOf(PartLevels(x)[n])
      BY <2>1, LevelByLevel
    <2> QED BY <2>2, <2>3, <2>4 DEF ContentsOf
  <1>3. \A n \in Nat : n \in S => n + 1 \in S
    BY <1>2
  <1> HIDE DEF S
  <1>4. \A n \in Nat : n \in S
    BY <1>1, <1>3, Induction
  <1> QED BY <1>4 DEF S

\* Something nested no deeper than so many levels.
EndsBy(v, n) == \A w \in PartLevels(v)[n] : PartsOf(w) = {}

LEMMA EndsByParts ==
  ASSUME Depth \in Nat, NEW v
  PROVE  /\ EndsBy(v, 0) <=> PartsOf(v) = {}
         /\ \A n \in Nat : n + 1 <= Depth => (EndsBy(v, n + 1) <=> \A x \in PartsOf(v) : EndsBy(x, n))
         /\ \A n \in Nat : n + 1 <= Depth /\ EndsBy(v, n) => EndsBy(v, n + 1)
         /\ IsBounded(v) <=> EndsBy(v, Depth)
  <1>1. EndsBy(v, 0) <=> PartsOf(v) = {}
    BY LevelByLevel DEF EndsBy
  <1>2. \A n \in Nat : n + 1 <= Depth => (EndsBy(v, n + 1) <=> \A x \in PartsOf(v) : EndsBy(x, n))
    BY LevelsOfParts DEF EndsBy
  <1>3. ASSUME NEW n \in Nat, n + 1 <= Depth, EndsBy(v, n) PROVE EndsBy(v, n + 1)
    <2>1. n + 1 \in 0..Depth
      BY <1>3
    <2>2. PartLevels(v)[n + 1] = ContentsOf(PartLevels(v)[n])
      BY <2>1, LevelByLevel
    <2>3. PartLevels(v)[n + 1] = {}
      BY <1>3, <2>2 DEF EndsBy, ContentsOf
    <2> QED BY <2>3 DEF EndsBy
  <1> QED BY <1>1, <1>2, <1>3 DEF IsBounded, EndsBy

\* What is in something is itself and what is in its parts.
LEMMA AllOfParts ==
  ASSUME Depth \in Nat, NEW v, IsBounded(v)
  PROVE  AllPartsOf(v) = {v} \cup UNION {AllPartsOf(x) : x \in PartsOf(v)}
  <1>1. ASSUME NEW w \in AllPartsOf(v), w # v PROVE \E x \in PartsOf(v) : w \in AllPartsOf(x)
    <2>1. PICK n \in 0..Depth : w \in PartLevels(v)[n]
      BY DEF AllPartsOf
    <2>2. n # 0
      BY <1>1, <2>1, LevelByLevel
    <2>3. PICK m \in Nat : n = m + 1 /\ m \in 0..Depth
      <3>1. n - 1 \in Nat /\ n = (n - 1) + 1 /\ n - 1 \in 0..Depth
        BY <2>2
      <3> QED BY <3>1
    <2>4. m + 1 <= Depth
      BY <2>1, <2>3
    <2>5. w \in UNION {PartLevels(x)[m] : x \in PartsOf(v)}
      BY <2>1, <2>3, <2>4, LevelsOfParts
    <2> QED BY <2>3, <2>5 DEF AllPartsOf
  <1>2. v \in AllPartsOf(v)
    BY BoundedLevels
  <1>3. \A x \in PartsOf(v) : AllPartsOf(x) \subseteq AllPartsOf(v)
    BY PartsAreBounded
  <1> QED BY <1>1, <1>2, <1>3

\* Induction: what holds of everything bounded whose parts it holds of, holds of everything bounded.
LEMMA HoldsOfParts ==
  ASSUME Depth \in Nat,
         \A w : IsBounded(w) /\ (\A x \in PartsOf(w) : Holds(x)) => Holds(w),
         NEW v, IsBounded(v)
  PROVE  Holds(v)
  <1> DEFINE S == {k \in Nat : k <= Depth => \A w \in Innermost(v, k) : Holds(w)}
  <1>0. ASSUME NEW k \in Nat, k <= Depth, NEW w \in Innermost(v, k) PROVE IsBounded(w)
    BY <1>0, InnermostBounded DEF Innermost, AllPartsOf
  <1>1. 0 \in S
    <2> SUFFICES ASSUME NEW w \in Innermost(v, 0) PROVE Holds(w)
      OBVIOUS
    <2>1. PartsOf(w) = {} /\ IsBounded(w)
      BY <1>0, InnermostEnds
    <2> QED BY <2>1
  <1>2. ASSUME NEW k \in Nat, k \in S, k + 1 <= Depth, NEW w \in Innermost(v, k + 1) PROVE Holds(w)
    <2>1. \A x \in PartsOf(w) : x \in Innermost(v, k)
      BY <1>2, InnermostHolds
    <2>2. \A x \in PartsOf(w) : Holds(x)
      BY <1>2, <2>1
    <2>3. IsBounded(w)
      BY <1>0, <1>2
    <2> QED BY <2>2, <2>3
  <1>3. \A k \in Nat : k \in S => k + 1 \in S
    BY <1>2
  <1> HIDE DEF S
  <1>4. Depth \in S
    BY <1>1, <1>3, Induction
  <1> QED BY <1>4, InnermostEnds, BoundedLevels DEF S

\* There is a function that makes everything inside from its parts.
LEMMA SolutionExists ==
  ASSUME Depth \in Nat, MakesFromParts, NEW v, IsBounded(v)
  PROVE  \E f : f = [w \in AllPartsOf(v) |-> Make(f, w)]
  <1> DEFINE Solved(k) == \E f : \A w \in Innermost(v, k) : f[w] = Make(f, w)
             S == {k \in Nat : k <= Depth => Solved(k)}
  <1>1. 0 \in S
    <2> DEFINE f == [w \in Innermost(v, 0) |-> Make(<<>>, w)]
    <2>1. ASSUME NEW w \in Innermost(v, 0) PROVE f[w] = Make(f, w)
      <3>1. f[w] = Make(<<>>, w)
        OBVIOUS
      <3>2. PartsOf(w) = {}
        BY InnermostEnds
      <3> HIDE DEF f
      <3> QED BY <3>1, <3>2 DEF MakesFromParts
    <2> QED BY <2>1
  <1>2. ASSUME NEW k \in Nat, k \in S, k + 1 <= Depth PROVE Solved(k + 1)
    <2>1. PICK f : \A w \in Innermost(v, k) : f[w] = Make(f, w)
      BY <1>2
    <2> DEFINE h == [w \in Innermost(v, k + 1) |-> Make(f, w)]
    <2>2. \A w \in Innermost(v, k + 1) : h[w] = Make(f, w)
      OBVIOUS
    <2> HIDE DEF h
    <2>3. Innermost(v, k) \subseteq Innermost(v, k + 1)
      BY DEF Innermost
    <2>4. ASSUME NEW w \in Innermost(v, k + 1) PROVE h[w] = Make(h, w)
      <3>1. \A x \in PartsOf(w) : x \in Innermost(v, k)
        BY <1>2, InnermostHolds
      <3>2. \A x \in PartsOf(w) : h[x] = f[x]
        BY <2>1, <2>2, <2>3, <3>1
      <3>3. Make(h, w) = Make(f, w)
        BY <3>2 DEF MakesFromParts
      <3> QED BY <2>2, <3>3
    <2> QED BY <2>4
  <1>3. \A k \in Nat : k \in S => k + 1 \in S
    BY <1>2
  <1> HIDE DEF S
  <1>4. Depth \in S
    BY <1>1, <1>3, Induction
  <1>5. PICK f : \A w \in AllPartsOf(v) : f[w] = Make(f, w)
    <2>1. Solved(Depth)
      BY <1>4 DEF S
    <2> QED BY <2>1, InnermostEnds
  <1> DEFINE h == [w \in AllPartsOf(v) |-> f[w]]
  <1>6. \A w \in AllPartsOf(v) : h[w] = f[w]
    OBVIOUS
  <1>7. h = [w \in AllPartsOf(v) |-> h[w]]
    OBVIOUS
  <1> HIDE DEF h
  <1>8. ASSUME NEW w \in AllPartsOf(v) PROVE h[w] = Make(h, w)
    <2>1. \A x \in PartsOf(w) : x \in AllPartsOf(v)
      BY BoundedLevels DEF AllPartsOf
    <2>2. \A x \in PartsOf(w) : h[x] = f[x]
      BY <1>6, <2>1
    <2>3. Make(h, w) = Make(f, w)
      BY <2>2 DEF MakesFromParts
    <2> QED BY <1>5, <1>6, <2>3
  <1> QED BY <1>7, <1>8

\* No two functions make different things.
LEMMA SolutionsAgree ==
  ASSUME Depth \in Nat, MakesFromParts, NEW v, IsBounded(v), NEW f, NEW g,
         \A w \in AllPartsOf(v) : f[w] = Make(f, w) /\ g[w] = Make(g, w)
  PROVE  \A w \in AllPartsOf(v) : f[w] = g[w]
  <1> DEFINE S == {k \in Nat : k <= Depth => \A w \in Innermost(v, k) : f[w] = g[w]}
  <1>1. \A k \in Nat : k <= Depth => Innermost(v, k) \subseteq AllPartsOf(v)
    BY DEF Innermost, AllPartsOf
  <1>2. 0 \in S
    <2> SUFFICES ASSUME NEW w \in Innermost(v, 0) PROVE f[w] = g[w]
      OBVIOUS
    <2>1. PartsOf(w) = {} /\ w \in AllPartsOf(v)
      BY <1>1, InnermostEnds
    <2>2. Make(f, w) = Make(g, w)
      BY <2>1 DEF MakesFromParts
    <2> QED BY <2>1, <2>2
  <1>3. ASSUME NEW k \in Nat, k \in S, k + 1 <= Depth, NEW w \in Innermost(v, k + 1)
        PROVE  f[w] = g[w]
    <2>1. \A x \in PartsOf(w) : x \in Innermost(v, k)
      BY <1>3, InnermostHolds
    <2>2. \A x \in PartsOf(w) : f[x] = g[x]
      BY <1>3, <2>1
    <2>3. Make(f, w) = Make(g, w)
      BY <2>2 DEF MakesFromParts
    <2>4. w \in AllPartsOf(v)
      BY <1>1, <1>3
    <2> QED BY <2>3, <2>4
  <1>4. \A k \in Nat : k \in S => k + 1 \in S
    BY <1>3
  <1> HIDE DEF S
  <1>5. Depth \in S
    BY <1>2, <1>4, Induction
  <1> QED BY <1>5, InnermostEnds DEF S

\* What is chosen as the function is one.
LEMMA MadeBySolution ==
  ASSUME Depth \in Nat, MakesFromParts, NEW v, IsBounded(v)
  PROVE  \E f : f = [w \in AllPartsOf(v) |-> Make(f, w)] /\ MadeOf(v) = f[v]
  <1> DEFINE F[w \in AllPartsOf(v)] == Make(F, w)
  <1>1. \E f : f = [w \in AllPartsOf(v) |-> Make(f, w)]
    BY SolutionExists
  <1>2. F = [w \in AllPartsOf(v) |-> Make(F, w)]
    BY <1>1
  <1>3. MadeOf(v) = F[v]
    BY DEF MadeOf
  <1> HIDE DEF F
  <1> QED BY <1>2, <1>3

\* The equation of the recursion.
LEMMA Unfolding ==
  ASSUME Depth \in Nat, MakesFromParts, NEW v, IsBounded(v)
  PROVE  MadeOf(v) = Make([x \in PartsOf(v) |-> MadeOf(x)], v)
  <1>1. PICK f : f = [w \in AllPartsOf(v) |-> Make(f, w)] /\ MadeOf(v) = f[v]
    BY MadeBySolution
  <1> DEFINE g == [x \in PartsOf(v) |-> MadeOf(x)]
  <1>2. ASSUME NEW x \in PartsOf(v) PROVE f[x] = g[x]
    <2>1. IsBounded(x) /\ AllPartsOf(x) \subseteq AllPartsOf(v)
      BY PartsAreBounded
    <2>2. PICK h : h = [w \in AllPartsOf(x) |-> Make(h, w)] /\ MadeOf(x) = h[x]
      BY <2>1, MadeBySolution
    <2>3. x \in AllPartsOf(x)
      BY <2>1, BoundedLevels
    <2>4. \A w \in AllPartsOf(x) : f[w] = Make(f, w) /\ h[w] = Make(h, w)
      BY <1>1, <2>1, <2>2
    <2>5. f[x] = h[x]
      BY <2>1, <2>3, <2>4, SolutionsAgree
    <2> QED BY <2>2, <2>5
  <1>3. \A x \in PartsOf(v) : f[x] = g[x]
    BY <1>2
  <1> HIDE DEF g
  <1>4. f[v] = Make(f, v)
    BY <1>1, BoundedLevels
  <1>5. Make(f, v) = Make(g, v)
    BY <1>3 DEF MakesFromParts
  <1> QED BY <1>1, <1>4, <1>5 DEF g
=============================================================================
