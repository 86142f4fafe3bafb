------------------------- MODULE InterchangeProofs --------------------------
(***************************************************************************)
(* Theorems about Interchange: what becomes of any data and any value on   *)
(* their way in and out.  The conversions are recursions over values and   *)
(* over data; each of them is an instance of Recursion, whose lemmas give  *)
(* its defining equation and induction over what it is applied to.         *)
(***************************************************************************)
EXTENDS Interchange, Recursion, SequenceTheorems

LEMMA NestingIsNatural == MaxNesting \in Nat
  BY DEF MaxNesting
-----------------------------------------------------------------------------
(* Values that hold values, and copies of them. *)

AllWellFormed(v) == \A w \in AnywhereIn(v) : IsWellFormed(w)

NoFunctions(v) == OfType(v, "function") = {}

\* A value nested no deeper than so many levels, and one no deeper than another.
Ends(v, n) == \A w \in Levels(v)[n] : DirectlyIn(w) = {}
NoDeeper(u, v) == \A n \in 0..MaxNesting : Ends(v, n) => Ends(u, n)

\* What every conversion of a value keeps.
Kept(v, u) ==
  /\ NoDeeper(u, v)
  /\ AllWellFormed(u)
  /\ NoFunctions(v) => NoFunctions(u)

CopiedRight(v) ==
  AllWellFormed(v) =>
    /\ Kept(v, Clone(v))
    /\ ~HoldsOptionals(Clone(v))
    /\ ~HoldsOptionals(v) => Clone(v) = v

Copying == INSTANCE Recursion WITH PartsOf <- DirectlyIn, Make <- CloneUsing, Holds <- CopiedRight, Depth <- MaxNesting

LEMMA Nested ==
  ASSUME NEW v
  PROVE  /\ Copying!IsBounded(v) <=> IsNested(v)
         /\ Copying!AllPartsOf(v) = AnywhereIn(v)
         /\ IsNested(v) <=> Ends(v, MaxNesting)
         /\ Ends(v, 0) <=> DirectlyIn(v) = {}
         /\ \A n \in Nat : n + 1 <= MaxNesting => (Ends(v, n + 1) <=> \A x \in DirectlyIn(v) : Ends(x, n))
         /\ \A n \in Nat : n + 1 <= MaxNesting /\ Ends(v, n) => Ends(v, n + 1)
  <1>1. Copying!PartLevels(v) = Levels(v)
    BY DEF Copying!PartLevels, Levels
  <1>2. (Copying!IsBounded(v) <=> IsNested(v)) /\ Copying!AllPartsOf(v) = AnywhereIn(v)
    BY <1>1 DEF Copying!IsBounded, IsNested, Copying!AllPartsOf, AnywhereIn
  <1>3. \A x, n : Ends(x, n) <=> Copying!EndsBy(x, n)
    <2> SUFFICES ASSUME NEW x, NEW n PROVE Ends(x, n) <=> Copying!EndsBy(x, n)
      OBVIOUS
    <2>1. Copying!PartLevels(x) = Levels(x)
      BY DEF Copying!PartLevels, Levels
    <2> QED BY <2>1 DEF Ends, Copying!EndsBy
  <1>4. /\ Copying!EndsBy(v, 0) <=> DirectlyIn(v) = {}
        /\ \A n \in Nat : n + 1 <= MaxNesting =>
             (Copying!EndsBy(v, n + 1) <=> \A x \in DirectlyIn(v) : Copying!EndsBy(x, n))
        /\ \A n \in Nat : n + 1 <= MaxNesting /\ Copying!EndsBy(v, n) => Copying!EndsBy(v, n + 1)
        /\ Copying!IsBounded(v) <=> Copying!EndsBy(v, MaxNesting)
    BY NestingIsNatural, Copying!EndsByParts
  <1> QED BY <1>2, <1>3, <1>4

LEMMA InNested ==
  ASSUME NEW v, IsNested(v)
  PROVE  /\ AnywhereIn(v) = {v} \cup UNION {AnywhereIn(x) : x \in DirectlyIn(v)}
         /\ \A x \in DirectlyIn(v) : IsNested(x) /\ AnywhereIn(x) \subseteq AnywhereIn(v)
         /\ \A w \in AnywhereIn(v) : IsNested(w) /\ AnywhereIn(w) \subseteq AnywhereIn(v)
         /\ v \in AnywhereIn(v)
  <1>1. Copying!IsBounded(v)
    BY Nested
  <1>2. Copying!AllPartsOf(v) = {v} \cup UNION {Copying!AllPartsOf(x) : x \in DirectlyIn(v)}
    BY <1>1, NestingIsNatural, Copying!AllOfParts
  <1>3. AnywhereIn(v) = {v} \cup UNION {AnywhereIn(x) : x \in DirectlyIn(v)}
    BY <1>2, Nested
  <1>4. \A x \in DirectlyIn(v) : Copying!IsBounded(x) /\ Copying!AllPartsOf(x) \subseteq Copying!AllPartsOf(v)
    BY <1>1, NestingIsNatural, Copying!PartsAreBounded
  <1>5. \A w \in Copying!AllPartsOf(v) :
          Copying!IsBounded(w) /\ Copying!AllPartsOf(w) \subseteq Copying!AllPartsOf(v)
    BY <1>1, NestingIsNatural, Copying!InnermostBounded
  <1> QED BY <1>3, <1>4, <1>5, Nested

\* A value that holds what f makes of the values another holds, each no deeper than it was.
LEMMA Rebuilt ==
  ASSUME NEW v, IsNested(v), NEW u, NEW f,
         DirectlyIn(u) = {f[x] : x \in DirectlyIn(v)},
         \A x \in DirectlyIn(v) : NoDeeper(f[x], x)
  PROVE  /\ NoDeeper(u, v)
         /\ IsNested(u)
         /\ AnywhereIn(u) = {u} \cup UNION {AnywhereIn(f[x]) : x \in DirectlyIn(v)}
  <1>1. ASSUME NEW n \in 0..MaxNesting, Ends(v, n) PROVE Ends(u, n)
    <2>1. CASE n = 0
      BY <1>1, <2>1, Nested
    <2>2. CASE n # 0
      <3>1. PICK m \in Nat : n = m + 1 /\ m \in 0..MaxNesting /\ m + 1 <= MaxNesting
        <4>1. n - 1 \in Nat /\ n = (n - 1) + 1 /\ n - 1 \in 0..MaxNesting
          BY <2>2, NestingIsNatural
        <4> QED BY <4>1, NestingIsNatural
      <3>2. \A x \in DirectlyIn(v) : Ends(x, m)
        BY <1>1, <3>1, Nested
      <3>3. \A y \in DirectlyIn(u) : Ends(y, m)
        BY <3>1, <3>2 DEF NoDeeper
      <3> QED BY <3>1, <3>3, Nested
    <2> QED BY <2>1, <2>2
  <1>2. IsNested(u)
    <2>1. MaxNesting \in 0..MaxNesting
      BY NestingIsNatural
    <2> QED BY <1>1, <2>1, Nested
  <1>3. UNION {AnywhereIn(y) : y \in DirectlyIn(u)} = UNION {AnywhereIn(f[x]) : x \in DirectlyIn(v)}
    OBVIOUS
  <1>4. AnywhereIn(u) = {u} \cup UNION {AnywhereIn(y) : y \in DirectlyIn(u)}
    BY <1>2, InNested
  <1> QED BY <1>1, <1>2, <1>3, <1>4 DEF NoDeeper

\* Each kind of value holds what its kind holds.
LEMMA DirectlyInKinds ==
  /\ \A s : DirectlyIn(ListOf(s)) = {s[i] : i \in DOMAIN s}
  /\ \A f : DirectlyIn(MapOf(f)) = {f[k] : k \in DOMAIN f}
  /\ \A n, f : DirectlyIn(StructOf(n, f)) = {f[x] : x \in DOMAIN f}
  /\ \A x : DirectlyIn(OptSome(x)) = {x}
  /\ DirectlyIn(OptNone) = {}
  /\ \A v : TypeOf(v) \notin {"list", "map", "optional", "struct"} => DirectlyIn(v) = {}
  <1>1. \A s : TypeOf(ListOf(s)) = "list" /\ ListOf(s)[2] = s
    BY DEF TypeOf, ListOf
  <1>2. \A f : TypeOf(MapOf(f)) = "map" /\ MapOf(f)[2] = f
    BY DEF TypeOf, MapOf
  <1>3. \A n, f : TypeOf(StructOf(n, f)) = "struct" /\ StructOf(n, f)[2][2] = f
    BY DEF TypeOf, StructOf
  <1>4. \A x : TypeOf(OptSome(x)) = "optional" /\ OptSome(x)[2] = <<x>>
    BY DEF TypeOf, OptSome
  <1>5. TypeOf(OptNone) = "optional" /\ OptNone[2] = <<>>
    BY DEF TypeOf, OptNone
  <1>6. \A x : <<x>> # <<>> /\ <<x>>[1] = x
    OBVIOUS
  <1> QED BY <1>1, <1>2, <1>3, <1>4, <1>5, <1>6 DEF DirectlyIn

\* The copy asks only for what the value holds.
LEMMA CopyingParts == Copying!MakesFromParts
  <1> SUFFICES ASSUME NEW f, NEW g, NEW w, \A x \in DirectlyIn(w) : f[x] = g[x]
               PROVE  CloneUsing(f, w) = CloneUsing(g, w)
    BY DEF Copying!MakesFromParts
  <1>1. CASE TypeOf(w) \in {"list", "map"}
    <2>1. \A k \in DOMAIN w[2] : f[w[2][k]] = g[w[2][k]]
      BY <1>1 DEF DirectlyIn
    <2>2. [k \in DOMAIN w[2] |-> f[w[2][k]]] = [k \in DOMAIN w[2] |-> g[w[2][k]]]
      BY <2>1
    <2> QED BY <1>1, <2>2 DEF CloneUsing
  <1>2. CASE TypeOf(w) = "optional"
    <2>1. w[2] # <<>> => f[w[2][1]] = g[w[2][1]]
      BY <1>2 DEF DirectlyIn
    <2> QED BY <1>2, <2>1 DEF CloneUsing
  <1>3. CASE TypeOf(w) = "struct"
    <2>1. \A x \in DOMAIN w[2][2] : f[w[2][2][x]] = g[w[2][2][x]]
      BY <1>3 DEF DirectlyIn
    <2>2. [x \in DOMAIN w[2][2] |-> f[w[2][2][x]]] = [x \in DOMAIN w[2][2] |-> g[w[2][2][x]]]
      BY <2>1
    <2> QED BY <1>3, <2>2 DEF CloneUsing
  <1>4. CASE TypeOf(w) \notin {"list", "map", "optional", "struct"}
    BY <1>4 DEF CloneUsing
  <1> QED BY <1>1, <1>2, <1>3, <1>4

LEMMA CloneOfParts ==
  ASSUME NEW v, IsNested(v)
  PROVE  Clone(v) = CloneUsing([x \in DirectlyIn(v) |-> Clone(x)], v)
  <1>1. \A w : Clone(w) = Copying!MadeOf(w)
    <2>1. \A w : Copying!AllPartsOf(w) = AnywhereIn(w)
      BY Nested
    <2> QED BY ONLY <2>1 DEF Clone, Copying!MadeOf
  <1>2. Copying!MadeOf(v) = CloneUsing([x \in DirectlyIn(v) |-> Copying!MadeOf(x)], v)
    BY Nested, NestingIsNatural, CopyingParts, Copying!Unfolding
  <1>3. [x \in DirectlyIn(v) |-> Copying!MadeOf(x)] = [x \in DirectlyIn(v) |-> Clone(x)]
    BY <1>1
  <1> QED BY <1>1, <1>2, <1>3
-----------------------------------------------------------------------------
(* What conversions have in common: a value is rebuilt from what its parts have become. *)

RebuiltFrom(f, v) ==
  CASE TypeOf(v) = "list"   -> ListOf([i \in DOMAIN v[2] |-> f[v[2][i]]])
    [] TypeOf(v) = "map"    -> MapOf([k \in DOMAIN v[2] |-> f[v[2][k]]])
    [] TypeOf(v) = "struct" -> StructOf(v[2][1], [x \in DOMAIN v[2][2] |-> f[v[2][2][x]]])
    [] OTHER                -> IF DirectlyIn(v) = {} THEN v ELSE OptSome(f[v[2][1]])

\* What a value holds anywhere of a type, it is or its parts hold.
LEMMA OfTypeInParts ==
  ASSUME NEW v, IsNested(v)
  PROVE  /\ \A t : OfType(v, t) = {w \in {v} : TypeOf(w) = t} \cup UNION {OfType(x, t) : x \in DirectlyIn(v)}
         /\ NoFunctions(v) <=> TypeOf(v) # "function" /\ \A x \in DirectlyIn(v) : NoFunctions(x)
         /\ HoldsOptionals(v) <=> \/ TypeOf(v) = "optional" /\ v[2] # <<>>
                                  \/ \E x \in DirectlyIn(v) : HoldsOptionals(x)
         /\ AllWellFormed(v) <=> IsWellFormed(v) /\ \A x \in DirectlyIn(v) : AllWellFormed(x)
  <1>1. AnywhereIn(v) = {v} \cup UNION {AnywhereIn(x) : x \in DirectlyIn(v)}
    BY InNested
  <1>2. \A t : OfType(v, t) = {w \in {v} : TypeOf(w) = t} \cup UNION {OfType(x, t) : x \in DirectlyIn(v)}
    BY <1>1 DEF OfType
  <1>3. NoFunctions(v) <=> TypeOf(v) # "function" /\ \A x \in DirectlyIn(v) : NoFunctions(x)
    BY <1>2 DEF NoFunctions
  <1>4. HoldsOptionals(v) <=> \/ TypeOf(v) = "optional" /\ v[2] # <<>>
                              \/ \E x \in DirectlyIn(v) : HoldsOptionals(x)
    BY <1>2 DEF HoldsOptionals
  <1>5. AllWellFormed(v) <=> IsWellFormed(v) /\ \A x \in DirectlyIn(v) : AllWellFormed(x)
    BY <1>1 DEF AllWellFormed
  <1> QED BY <1>2, <1>3, <1>4, <1>5

\* A value that holds something holds it in one of four ways.
LEMMA HoldingKinds ==
  ASSUME NEW v, IsWellFormed(v), DirectlyIn(v) # {}
  PROVE  \/ TypeOf(v) = "list" /\ v = ListOf(v[2]) /\ v[2] = [i \in 1..Len(v[2]) |-> v[2][i]] /\ Len(v[2]) \in Nat
         \/ TypeOf(v) = "map" /\ v = MapOf(v[2]) /\ v[2] = [k \in DOMAIN v[2] |-> v[2][k]]
         \/ TypeOf(v) = "struct" /\ v = StructOf(v[2][1], v[2][2]) /\ v[2][2] = [x \in DOMAIN v[2][2] |-> v[2][2][x]]
         \/ TypeOf(v) = "optional" /\ v = OptSome(v[2][1])
  <1>1. TypeOf(v) \in {"list", "map", "optional", "struct"}
    BY DirectlyInKinds
  <1>2. v = <<TypeOf(v), v[2]>>
    BY DEF IsWellFormed
  <1>3. CASE TypeOf(v) = "list"
    BY <1>2, <1>3 DEF IsWellFormed, IsSequence, ListOf
  <1>4. CASE TypeOf(v) = "map"
    BY <1>2, <1>4 DEF IsWellFormed, IsFunction, MapOf
  <1>5. CASE TypeOf(v) = "struct"
    BY <1>2, <1>5 DEF IsWellFormed, IsFunction, StructOf
  <1>6. CASE TypeOf(v) = "optional"
    <2>1. v[2] # <<>>
      BY <1>6 DEF DirectlyIn
    <2> QED BY <1>2, <1>6, <2>1 DEF IsWellFormed, OptSome
  <1> QED BY <1>1, <1>3, <1>4, <1>5, <1>6

\* What is rebuilt is of the same kind and holds what the parts have become; it is the value itself
\* when the parts are what they were.
LEMMA RebuiltAlike ==
  ASSUME NEW v, IsWellFormed(v), NEW f
  PROVE  /\ TypeOf(RebuiltFrom(f, v)) = TypeOf(v)
         /\ DirectlyIn(RebuiltFrom(f, v)) = {f[x] : x \in DirectlyIn(v)}
         /\ (\A x \in DirectlyIn(v) : f[x] = x) => RebuiltFrom(f, v) = v
  <1> DEFINE R == RebuiltFrom(f, v)
  <1>0. CASE TypeOf(v) = "list"
    <2>1. v = ListOf(v[2]) /\ IsSequence(v[2])
      BY <1>0 DEF IsWellFormed, ListOf
    <2>2. R = ListOf([i \in DOMAIN v[2] |-> f[v[2][i]]])
      BY <1>0 DEF RebuiltFrom
    <2>3. DirectlyIn(v) = {v[2][i] : i \in DOMAIN v[2]}
      BY <1>0 DEF DirectlyIn
    <2>4. DirectlyIn(R) = {f[v[2][i]] : i \in DOMAIN v[2]}
      BY <2>2, DirectlyInKinds
    <2>5. DirectlyIn(R) = {f[x] : x \in DirectlyIn(v)}
      BY <2>3, <2>4
    <2>6. ASSUME \A x \in DirectlyIn(v) : f[x] = x PROVE R = v
      <3>1. v[2] = [i \in DOMAIN v[2] |-> v[2][i]]
        BY <2>1 DEF IsSequence
      <3>2. [i \in DOMAIN v[2] |-> f[v[2][i]]] = [i \in DOMAIN v[2] |-> v[2][i]]
        BY <2>3, <2>6
      <3> QED BY <2>1, <2>2, <3>1, <3>2
    <2>7. TypeOf(R) = "list"
      BY <2>2 DEF ListOf, TypeOf
    <2> QED BY <1>0, <2>5, <2>6, <2>7
  <1>1. CASE TypeOf(v) = "map"
    <2>1. v = MapOf(v[2]) /\ IsFunction(v[2])
      BY <1>1 DEF IsWellFormed, MapOf
    <2>2. R = MapOf([i \in DOMAIN v[2] |-> f[v[2][i]]])
      BY <1>1 DEF RebuiltFrom
    <2>3. DirectlyIn(v) = {v[2][i] : i \in DOMAIN v[2]}
      BY <1>1 DEF DirectlyIn
    <2>4. DirectlyIn(R) = {f[v[2][i]] : i \in DOMAIN v[2]}
      BY <2>2, DirectlyInKinds
    <2>5. DirectlyIn(R) = {f[x] : x \in DirectlyIn(v)}
      BY <2>3, <2>4
    <2>6. ASSUME \A x \in DirectlyIn(v) : f[x] = x PROVE R = v
      <3>1. v[2] = [i \in DOMAIN v[2] |-> v[2][i]]
        BY <2>1 DEF IsFunction
      <3>2. [i \in DOMAIN v[2] |-> f[v[2][i]]] = [i \in DOMAIN v[2] |-> v[2][i]]
        BY <2>3, <2>6
      <3> QED BY <2>1, <2>2, <3>1, <3>2
    <2>7. TypeOf(R) = "map"
      BY <2>2 DEF MapOf, TypeOf
    <2> QED BY <1>1, <2>5, <2>6, <2>7
  <1>2. CASE TypeOf(v) = "struct"
    <2>1. v = StructOf(v[2][1], v[2][2]) /\ IsFunction(v[2][2])
      BY <1>2 DEF IsWellFormed, StructOf
    <2>2. R = StructOf(v[2][1], [i \in DOMAIN v[2][2] |-> f[v[2][2][i]]])
      BY <1>2 DEF RebuiltFrom
    <2>3. DirectlyIn(v) = {v[2][2][i] : i \in DOMAIN v[2][2]}
      BY <1>2 DEF DirectlyIn
    <2>4. DirectlyIn(R) = {f[v[2][2][i]] : i \in DOMAIN v[2][2]}
      BY <2>2, DirectlyInKinds
    <2>5. DirectlyIn(R) = {f[x] : x \in DirectlyIn(v)}
      BY <2>3, <2>4
    <2>6. ASSUME \A x \in DirectlyIn(v) : f[x] = x PROVE R = v
      <3>1. v[2][2] = [i \in DOMAIN v[2][2] |-> v[2][2][i]]
        BY <2>1 DEF IsFunction
      <3>2. [i \in DOMAIN v[2][2] |-> f[v[2][2][i]]] = [i \in DOMAIN v[2][2] |-> v[2][2][i]]
        BY <2>3, <2>6
      <3> QED BY <2>1, <2>2, <3>1, <3>2
    <2>7. TypeOf(R) = "struct"
      BY <2>2 DEF StructOf, TypeOf
    <2> QED BY <1>2, <2>5, <2>6, <2>7
  <1>3. CASE TypeOf(v) \notin {"list", "map", "struct"} /\ DirectlyIn(v) = {}
    BY <1>3 DEF RebuiltFrom
  <1>4. CASE TypeOf(v) \notin {"list", "map", "struct"} /\ DirectlyIn(v) # {}
    <2>1. TypeOf(v) = "optional" /\ v = OptSome(v[2][1])
      BY <1>4, HoldingKinds
    <2>2. R = OptSome(f[v[2][1]])
      BY <1>4 DEF RebuiltFrom
    <2>3. DirectlyIn(v) = {v[2][1]} /\ DirectlyIn(R) = {f[v[2][1]]}
      BY <2>1, <2>2, DirectlyInKinds
    <2>4. TypeOf(R) = "optional"
      BY <2>2 DEF OptSome, TypeOf
    <2> QED BY <2>1, <2>2, <2>3, <2>4
  <1> QED BY <1>0, <1>1, <1>2, <1>3, <1>4

\* What a well-formed value holds is well-formed, and nothing in a struct is a function.
LEMMA PartsAreValues ==
  ASSUME NEW v, IsValue(v)
  PROVE  /\ \A w \in AnywhereIn(v) : IsValue(w)
         /\ \A x \in DirectlyIn(v) : IsValue(x)
         /\ IsWellFormed(v) /\ AllWellFormed(v)
         /\ TypeOf(v) = "struct" => NoFunctions(v)
  <1>1. \A w \in AnywhereIn(v) : IsValue(w)
    BY InNested DEF IsValue
  <1>2. DirectlyIn(v) \subseteq AnywhereIn(v)
    <2>1. \A x \in DirectlyIn(v) : x \in AnywhereIn(x) /\ AnywhereIn(x) \subseteq AnywhereIn(v)
      BY InNested DEF IsValue
    <2> QED BY <2>1
  <1>3. v \in AnywhereIn(v)
    BY InNested DEF IsValue
  <1>4. IsWellFormed(v) /\ AllWellFormed(v)
    BY <1>3 DEF IsValue, AllWellFormed
  <1>5. TypeOf(v) = "struct" => NoFunctions(v)
    BY <1>4 DEF IsWellFormed, NoFunctions, OfType
  <1> QED BY <1>1, <1>2, <1>4, <1>5

LEMMA RebuiltWellFormed ==
  ASSUME NEW v, IsWellFormed(v), NEW f,
         TypeOf(v) = "struct" => \A w \in AnywhereIn(RebuiltFrom(f, v)) : TypeOf(w) # "function"
  PROVE  IsWellFormed(RebuiltFrom(f, v))
  <1> DEFINE R == RebuiltFrom(f, v)
  <1>0. CASE TypeOf(v) = "list"
    <2>1. R = ListOf([i \in DOMAIN v[2] |-> f[v[2][i]]])
      BY <1>0 DEF RebuiltFrom
    <2>2. R = <<"list", [i \in DOMAIN v[2] |-> f[v[2][i]]]>>
      BY <2>1 DEF ListOf
    <2>3. IsSequence([i \in DOMAIN v[2] |-> f[v[2][i]]])
      BY <1>0 DEF IsWellFormed, IsSequence
    <2> QED BY <2>2, <2>3 DEF IsWellFormed, TypeOf, ValueKinds
  <1>1. CASE TypeOf(v) = "map"
    <2>1. R = MapOf([i \in DOMAIN v[2] |-> f[v[2][i]]])
      BY <1>1 DEF RebuiltFrom
    <2>2. R = <<"map", [i \in DOMAIN v[2] |-> f[v[2][i]]]>>
      BY <2>1 DEF MapOf
    <2>3. \A k \in DOMAIN v[2] : IsKey(k)
      BY <1>1 DEF IsWellFormed
    <2> QED BY <2>2, <2>3 DEF IsWellFormed, IsFunction, TypeOf, ValueKinds
  <1>2. CASE TypeOf(v) = "struct"
    <2>1. R = StructOf(v[2][1], [i \in DOMAIN v[2][2] |-> f[v[2][2][i]]])
      BY <1>2 DEF RebuiltFrom
    <2>2. R = <<"struct", <<v[2][1], [i \in DOMAIN v[2][2] |-> f[v[2][2][i]]]>>>>
      BY <2>1 DEF StructOf
    <2>3. \A w \in AnywhereIn(R) : TypeOf(w) # "function"
      BY <1>2
    <2>4. TypeOf(R) = "struct"
      BY <2>2 DEF TypeOf
    <2> HIDE DEF R
    <2>5. R[2] = <<v[2][1], [i \in DOMAIN v[2][2] |-> f[v[2][2][i]]]>>
      BY <2>2
    <2>6. R[2] = <<R[2][1], R[2][2]>> /\ IsFunction(R[2][2]) /\ R = <<"struct", R[2]>>
      <3>1. R[2][2] = [i \in DOMAIN v[2][2] |-> f[v[2][2][i]]]
        BY <2>5
      <3>2. IsFunction(R[2][2])
        BY <3>1 DEF IsFunction
      <3> QED BY <2>2, <2>5, <3>2
    <2>7. R = <<TypeOf(R), R[2]>>
      BY <2>4, <2>6
    <2>8. TypeOf(R) \in ValueKinds
      BY <2>4 DEF ValueKinds
    <2>9. IsWellFormed(R)
      BY <2>3, <2>4, <2>6, <2>7, <2>8 DEF IsWellFormed
    <2> QED BY <2>9 DEF R
  <1>3. CASE TypeOf(v) \notin {"list", "map", "struct"} /\ DirectlyIn(v) = {}
    BY <1>3 DEF RebuiltFrom
  <1>4. CASE TypeOf(v) \notin {"list", "map", "struct"} /\ DirectlyIn(v) # {}
    <2>1. R = <<"optional", <<f[v[2][1]]>>>>
      BY <1>4 DEF RebuiltFrom, OptSome
    <2> QED BY <2>1 DEF IsWellFormed, TypeOf, ValueKinds
  <1> QED BY <1>0, <1>1, <1>2, <1>3, <1>4

LEMMA RebuiltKeeps ==
  ASSUME NEW v, IsValue(v), NEW f, \A x \in DirectlyIn(v) : Kept(x, f[x])
  PROVE  /\ Kept(v, RebuiltFrom(f, v))
         /\ IsNested(RebuiltFrom(f, v))
         /\ \A x \in DirectlyIn(v) : IsNested(f[x])
  <1> DEFINE R == RebuiltFrom(f, v)
  <1>0. IsNested(v) /\ IsWellFormed(v) /\ AllWellFormed(v) /\ (TypeOf(v) = "struct" => NoFunctions(v))
    BY PartsAreValues DEF IsValue
  <1>1. TypeOf(R) = TypeOf(v) /\ DirectlyIn(R) = {f[x] : x \in DirectlyIn(v)}
    BY <1>0, RebuiltAlike
  <1> HIDE DEF R
  <1>2. \A x \in DirectlyIn(v) : NoDeeper(f[x], x) /\ AllWellFormed(f[x]) /\ (NoFunctions(x) => NoFunctions(f[x]))
    BY DEF Kept
  <1>3. /\ NoDeeper(R, v) /\ IsNested(R)
        /\ AnywhereIn(R) = {R} \cup UNION {AnywhereIn(f[x]) : x \in DirectlyIn(v)}
    BY <1>0, <1>1, <1>2, Rebuilt
  <1>4. NoFunctions(v) => NoFunctions(R)
    <2>1. NoFunctions(v) => TypeOf(v) # "function" /\ \A x \in DirectlyIn(v) : NoFunctions(x)
      BY <1>0, OfTypeInParts
    <2>2. TypeOf(R) # "function" /\ (\A y \in DirectlyIn(R) : NoFunctions(y)) => NoFunctions(R)
      BY <1>3, OfTypeInParts
    <2> QED BY <1>1, <1>2, <2>1, <2>2
  <1>5. IsWellFormed(R)
    <2>1. TypeOf(v) = "struct" => \A w \in AnywhereIn(R) : TypeOf(w) # "function"
      BY <1>0, <1>4 DEF NoFunctions, OfType
    <2> QED BY <1>0, <2>1, RebuiltWellFormed DEF R
  <1>6. AllWellFormed(R)
    <2>1. \A y \in DirectlyIn(R) : AllWellFormed(y)
      BY <1>1, <1>2
    <2> QED BY <1>3, <1>5, <2>1, OfTypeInParts
  <1>7. ASSUME NEW x \in DirectlyIn(v) PROVE IsNested(f[x])
    BY <1>1, <1>3, InNested
  <1> QED BY <1>3, <1>4, <1>6, <1>7 DEF Kept, R

\* What a value holds, and what that becomes, is nested no deeper than the value.
LEMMA PartIsNoDeeper ==
  ASSUME NEW v, NEW x \in DirectlyIn(v), NEW u, NoDeeper(u, x)
  PROVE  NoDeeper(u, v)
  <1> SUFFICES ASSUME NEW n \in 0..MaxNesting, Ends(v, n) PROVE Ends(u, n)
    BY DEF NoDeeper
  <1>1. n # 0
    BY Nested
  <1>2. PICK m \in Nat : n = m + 1 /\ m \in 0..MaxNesting /\ m + 1 <= MaxNesting
    <2>1. n - 1 \in Nat /\ n = (n - 1) + 1 /\ n - 1 \in 0..MaxNesting
      BY <1>1, NestingIsNatural
    <2> QED BY <2>1, NestingIsNatural
  <1>3. Ends(x, m)
    BY <1>2, Nested
  <1>4. Ends(u, m)
    BY <1>2, <1>3 DEF NoDeeper
  <1> QED BY <1>2, <1>4, Nested
-----------------------------------------------------------------------------
(* Copies. *)

\* A copy is rebuilt from copies, but for an optional that holds a value, which is left.
LEMMA CopyRebuilds ==
  ASSUME NEW v, IsNested(v), IsWellFormed(v)
  PROVE  LET g == [x \in DirectlyIn(v) |-> Clone(x)]
         IN Clone(v) = IF TypeOf(v) = "optional" /\ DirectlyIn(v) # {} THEN g[v[2][1]] ELSE RebuiltFrom(g, v)
  <1> DEFINE g == [x \in DirectlyIn(v) |-> Clone(x)]
  <1>1. Clone(v) = CloneUsing(g, v)
    BY CloneOfParts
  <1> HIDE DEF g
  <1>2. TypeOf(v) = "optional" => (DirectlyIn(v) = {} <=> v[2] = <<>>)
    BY DEF DirectlyIn
  <1>3. TypeOf(v) \notin {"list", "map", "struct", "optional"} => DirectlyIn(v) = {}
    BY DirectlyInKinds
  <1>4. CloneUsing(g, v) = IF TypeOf(v) = "optional" /\ DirectlyIn(v) # {} THEN g[v[2][1]] ELSE RebuiltFrom(g, v)
    BY <1>2, <1>3 DEF CloneUsing, RebuiltFrom
  <1> QED BY <1>1, <1>4 DEF g

LEMMA CopyOfParts ==
  ASSUME NEW v, IsNested(v), \A x \in DirectlyIn(v) : CopiedRight(x)
  PROVE  CopiedRight(v)
  <1> SUFFICES ASSUME AllWellFormed(v)
               PROVE  /\ Kept(v, Clone(v))
                      /\ ~HoldsOptionals(Clone(v))
                      /\ ~HoldsOptionals(v) => Clone(v) = v
    BY DEF CopiedRight
  <1> DEFINE g == [x \in DirectlyIn(v) |-> Clone(x)]
  <1>1. IsValue(v) /\ IsWellFormed(v) /\ \A x \in DirectlyIn(v) : AllWellFormed(x)
    <2>1. IsValue(v)
      BY DEF IsValue, AllWellFormed
    <2> QED BY <2>1, OfTypeInParts
  <1>2. ASSUME NEW x \in DirectlyIn(v)
        PROVE  /\ Kept(x, g[x]) /\ ~HoldsOptionals(g[x])
               /\ ~HoldsOptionals(x) => g[x] = x
    <2>1. g[x] = Clone(x)
      OBVIOUS
    <2> QED BY <1>1, <1>2, <2>1 DEF CopiedRight
  <1>3. Clone(v) = IF TypeOf(v) = "optional" /\ DirectlyIn(v) # {} THEN g[v[2][1]] ELSE RebuiltFrom(g, v)
    BY <1>1, CopyRebuilds
  <1> HIDE DEF g
  <1>4. CASE TypeOf(v) = "optional" /\ DirectlyIn(v) # {}
    <2> DEFINE x == v[2][1]
    <2>1. v[2] # <<>> /\ DirectlyIn(v) = {x}
      BY <1>4 DEF DirectlyIn
    <2>2. Clone(v) = g[x]
      BY <1>3, <1>4
    <2>3. HoldsOptionals(v)
      BY <1>4, <2>1, OfTypeInParts
    <2>4. Kept(x, g[x]) /\ ~HoldsOptionals(g[x])
      BY <1>2, <2>1
    <2>5. NoFunctions(v) => NoFunctions(x)
      BY <2>1, OfTypeInParts
    <2>6. NoDeeper(g[x], v)
      BY <2>1, <2>4, PartIsNoDeeper DEF Kept
    <2>7. Kept(v, g[x])
      BY <2>4, <2>5, <2>6 DEF Kept
    <2> QED BY <2>2, <2>3, <2>4, <2>7
  <1>5. CASE ~(TypeOf(v) = "optional" /\ DirectlyIn(v) # {})
    <2> DEFINE R == RebuiltFrom(g, v)
    <2>1. Clone(v) = R
      BY <1>3, <1>5
    <2>2. Kept(v, R) /\ IsNested(R)
      BY <1>1, <1>2, RebuiltKeeps
    <2>3. /\ TypeOf(R) = TypeOf(v)
          /\ DirectlyIn(R) = {g[x] : x \in DirectlyIn(v)}
          /\ (\A x \in DirectlyIn(v) : g[x] = x) => R = v
      BY <1>1, RebuiltAlike
    <2> HIDE DEF R
    <2>4. ~HoldsOptionals(R)
      <3>1. ~(TypeOf(R) = "optional" /\ R[2] # <<>>)
        BY <1>5, <2>3 DEF DirectlyIn
      <3>2. \A y \in DirectlyIn(R) : ~HoldsOptionals(y)
        BY <1>2, <2>3
      <3> QED BY <2>2, <3>1, <3>2, OfTypeInParts
    <2>5. ~HoldsOptionals(v) => R = v
      <3>1. ~HoldsOptionals(v) => \A x \in DirectlyIn(v) : ~HoldsOptionals(x)
        BY OfTypeInParts
      <3> QED BY <1>2, <2>3, <3>1
    <2> QED BY <2>1, <2>2, <2>4, <2>5
  <1> QED BY <1>4, <1>5

LEMMA CopiesAreRight ==
  ASSUME NEW v, IsValue(v)
  PROVE  /\ Kept(v, Clone(v)) /\ IsValue(Clone(v))
         /\ ~HoldsOptionals(Clone(v))
         /\ ~HoldsOptionals(v) => Clone(v) = v
  <1>1. \A w : Copying!IsBounded(w) /\ (\A x \in DirectlyIn(w) : CopiedRight(x)) => CopiedRight(w)
    BY CopyOfParts, Nested
  <1>2. Copying!IsBounded(v)
    BY Nested DEF IsValue
  <1>3. CopiedRight(v)
    BY <1>1, <1>2, NestingIsNatural, Copying!HoldsOfParts
  <1>4. Kept(v, Clone(v)) /\ ~HoldsOptionals(Clone(v)) /\ (~HoldsOptionals(v) => Clone(v) = v)
    BY <1>3 DEF CopiedRight, IsValue, AllWellFormed
  <1>5. IsNested(Clone(v))
    <2>1. MaxNesting \in 0..MaxNesting
      BY NestingIsNatural
    <2> QED BY <1>4, <2>1, Nested DEF Kept, NoDeeper, IsValue
  <1> QED BY <1>4, <1>5 DEF IsValue, Kept, AllWellFormed
-----------------------------------------------------------------------------
(* Values as hosts receive them. *)

\* No struct in it holds an optional that holds a value.
StructsArePlain(v) == \A s \in OfType(v, "struct") : ~HoldsOptionals(s)

ReadRight(v) ==
  AllWellFormed(v) =>
    /\ Kept(v, FromVal(v))
    /\ StructsArePlain(FromVal(v))
    /\ StructsArePlain(v) => FromVal(v) = v

Reading == INSTANCE Recursion WITH PartsOf <- DirectlyIn, Make <- FromUsing, Holds <- ReadRight, Depth <- MaxNesting

LEMMA ReadingNested ==
  ASSUME NEW v
  PROVE  (Reading!IsBounded(v) <=> IsNested(v)) /\ Reading!AllPartsOf(v) = AnywhereIn(v)
  <1>1. Reading!PartLevels(v) = Levels(v)
    BY DEF Reading!PartLevels, Levels
  <1> QED BY <1>1 DEF Reading!IsBounded, IsNested, Reading!AllPartsOf, AnywhereIn

LEMMA ReadingParts == Reading!MakesFromParts
  <1> SUFFICES ASSUME NEW f, NEW g, NEW w, \A x \in DirectlyIn(w) : f[x] = g[x]
               PROVE  FromUsing(f, w) = FromUsing(g, w)
    BY DEF Reading!MakesFromParts
  <1>1. CASE TypeOf(w) \in {"list", "map"}
    <2>1. \A k \in DOMAIN w[2] : f[w[2][k]] = g[w[2][k]]
      BY <1>1 DEF DirectlyIn
    <2>2. [k \in DOMAIN w[2] |-> f[w[2][k]]] = [k \in DOMAIN w[2] |-> g[w[2][k]]]
      BY <2>1
    <2> QED BY <1>1, <2>2 DEF FromUsing
  <1>2. CASE TypeOf(w) = "optional"
    <2>1. w[2] # <<>> => f[w[2][1]] = g[w[2][1]]
      BY <1>2 DEF DirectlyIn
    <2> QED BY <1>2, <2>1 DEF FromUsing
  <1>3. CASE TypeOf(w) \notin {"list", "map", "optional"}
    BY <1>3 DEF FromUsing
  <1> QED BY <1>1, <1>2, <1>3

LEMMA FromValOfParts ==
  ASSUME NEW v, IsNested(v)
  PROVE  FromVal(v) = FromUsing([x \in DirectlyIn(v) |-> FromVal(x)], v)
  <1>1. \A w : FromVal(w) = Reading!MadeOf(w)
    <2>1. \A w : Reading!AllPartsOf(w) = AnywhereIn(w)
      BY ReadingNested
    <2> QED BY ONLY <2>1 DEF FromVal, Reading!MadeOf
  <1>2. Reading!MadeOf(v) = FromUsing([x \in DirectlyIn(v) |-> Reading!MadeOf(x)], v)
    BY ReadingNested, NestingIsNatural, ReadingParts, Reading!Unfolding
  <1>3. [x \in DirectlyIn(v) |-> Reading!MadeOf(x)] = [x \in DirectlyIn(v) |-> FromVal(x)]
    BY <1>1
  <1> QED BY <1>1, <1>2, <1>3

LEMMA PlainParts ==
  ASSUME NEW v, IsNested(v)
  PROVE  /\ StructsArePlain(v) <=> /\ TypeOf(v) = "struct" => ~HoldsOptionals(v)
                                   /\ \A x \in DirectlyIn(v) : StructsArePlain(x)
         /\ ~HoldsOptionals(v) => StructsArePlain(v)
  <1>1. OfType(v, "struct") = {w \in {v} : TypeOf(w) = "struct"} \cup UNION {OfType(x, "struct") : x \in DirectlyIn(v)}
    BY OfTypeInParts
  <1>2. StructsArePlain(v) <=> /\ TypeOf(v) = "struct" => ~HoldsOptionals(v)
                               /\ \A x \in DirectlyIn(v) : StructsArePlain(x)
    BY <1>1 DEF StructsArePlain
  <1>3. ASSUME NEW w \in AnywhereIn(v), HoldsOptionals(w) PROVE HoldsOptionals(v)
    <2>1. AnywhereIn(w) \subseteq AnywhereIn(v)
      BY InNested
    <2> QED BY <1>3, <2>1 DEF HoldsOptionals, OfType
  <1> QED BY <1>2, <1>3 DEF StructsArePlain, OfType

\* A value is read rebuilt from its parts as they are read, but a struct is copied.
LEMMA ReadingRebuilds ==
  ASSUME NEW v, IsNested(v), IsWellFormed(v)
  PROVE  LET g == [x \in DirectlyIn(v) |-> FromVal(x)]
         IN FromVal(v) = IF TypeOf(v) = "struct" THEN Clone(v) ELSE RebuiltFrom(g, v)
  <1> DEFINE g == [x \in DirectlyIn(v) |-> FromVal(x)]
  <1>1. FromVal(v) = FromUsing(g, v)
    BY FromValOfParts
  <1> HIDE DEF g
  <1>2. TypeOf(v) = "optional" => (DirectlyIn(v) = {} <=> v[2] = <<>>) /\ (v[2] = <<>> => v = OptNone)
    BY DEF DirectlyIn, IsWellFormed, OptNone
  <1>3. TypeOf(v) \notin {"list", "map", "struct", "optional"} => DirectlyIn(v) = {}
    BY DirectlyInKinds
  <1>4. FromUsing(g, v) = IF TypeOf(v) = "struct" THEN Clone(v) ELSE RebuiltFrom(g, v)
    BY <1>2, <1>3 DEF FromUsing, RebuiltFrom
  <1> QED BY <1>1, <1>4 DEF g

LEMMA ReadOfParts ==
  ASSUME NEW v, IsNested(v), \A x \in DirectlyIn(v) : ReadRight(x)
  PROVE  ReadRight(v)
  <1> SUFFICES ASSUME AllWellFormed(v)
               PROVE  /\ Kept(v, FromVal(v))
                      /\ StructsArePlain(FromVal(v))
                      /\ StructsArePlain(v) => FromVal(v) = v
    BY DEF ReadRight
  <1> DEFINE g == [x \in DirectlyIn(v) |-> FromVal(x)]
  <1>1. IsValue(v) /\ IsWellFormed(v) /\ \A x \in DirectlyIn(v) : AllWellFormed(x)
    <2>1. IsValue(v)
      BY DEF IsValue, AllWellFormed
    <2> QED BY <2>1, OfTypeInParts
  <1>2. ASSUME NEW x \in DirectlyIn(v)
        PROVE  /\ Kept(x, g[x]) /\ StructsArePlain(g[x])
               /\ StructsArePlain(x) => g[x] = x
    <2>1. g[x] = FromVal(x)
      OBVIOUS
    <2> QED BY <1>1, <1>2, <2>1 DEF ReadRight
  <1>3. FromVal(v) = IF TypeOf(v) = "struct" THEN Clone(v) ELSE RebuiltFrom(g, v)
    BY <1>1, ReadingRebuilds
  <1> HIDE DEF g
  <1>4. CASE TypeOf(v) = "struct"
    <2>1. FromVal(v) = Clone(v)
      BY <1>3, <1>4
    <2>2. /\ Kept(v, Clone(v)) /\ IsValue(Clone(v))
          /\ ~HoldsOptionals(Clone(v))
          /\ ~HoldsOptionals(v) => Clone(v) = v
      BY <1>1, CopiesAreRight
    <2>3. StructsArePlain(Clone(v))
      BY <2>2, PlainParts DEF IsValue
    <2>4. StructsArePlain(v) => ~HoldsOptionals(v)
      BY <1>4, PlainParts
    <2> QED BY <2>1, <2>2, <2>3, <2>4
  <1>5. CASE TypeOf(v) # "struct"
    <2> DEFINE R == RebuiltFrom(g, v)
    <2>1. FromVal(v) = R
      BY <1>3, <1>5
    <2>2. Kept(v, R) /\ IsNested(R)
      BY <1>1, <1>2, RebuiltKeeps
    <2>3. /\ TypeOf(R) = TypeOf(v)
          /\ DirectlyIn(R) = {g[x] : x \in DirectlyIn(v)}
          /\ (\A x \in DirectlyIn(v) : g[x] = x) => R = v
      BY <1>1, RebuiltAlike
    <2> HIDE DEF R
    <2>4. StructsArePlain(R)
      <3>1. \A y \in DirectlyIn(R) : StructsArePlain(y)
        BY <1>2, <2>3
      <3> QED BY <1>5, <2>2, <2>3, <3>1, PlainParts
    <2>5. StructsArePlain(v) => R = v
      <3>1. StructsArePlain(v) => \A x \in DirectlyIn(v) : StructsArePlain(x)
        BY PlainParts
      <3> QED BY <1>2, <2>3, <3>1
    <2> QED BY <2>1, <2>2, <2>4, <2>5
  <1> QED BY <1>4, <1>5

LEMMA ReadingsAreRight ==
  ASSUME NEW v, IsValue(v)
  PROVE  /\ IsValue(FromVal(v)) /\ (NoFunctions(v) => NoFunctions(FromVal(v)))
         /\ StructsArePlain(FromVal(v))
         /\ StructsArePlain(v) => FromVal(v) = v
  <1>1. \A w : Reading!IsBounded(w) /\ (\A x \in DirectlyIn(w) : ReadRight(x)) => ReadRight(w)
    BY ReadOfParts, ReadingNested
  <1>2. Reading!IsBounded(v)
    BY ReadingNested DEF IsValue
  <1>3. ReadRight(v)
    BY <1>1, <1>2, NestingIsNatural, Reading!HoldsOfParts
  <1>4. Kept(v, FromVal(v)) /\ StructsArePlain(FromVal(v)) /\ (StructsArePlain(v) => FromVal(v) = v)
    BY <1>3 DEF ReadRight, IsValue, AllWellFormed
  <1>5. IsNested(FromVal(v))
    <2>1. MaxNesting \in 0..MaxNesting
      BY NestingIsNatural
    <2> QED BY <1>4, <2>1, Nested DEF Kept, NoDeeper, IsValue
  <1> QED BY <1>4, <1>5 DEF IsValue, Kept, AllWellFormed
-----------------------------------------------------------------------------
(* Values as contexts hold them. *)

\* Results taken together.
LEMMA TogetherResults ==
  ASSUME NEW n \in Nat, NEW r, DOMAIN r = 1..n
  PROVE  /\ (\A i \in 1..n : ~Failed(r[i])) => Together(r) = Ok([i \in 1..n |-> r[i][2]])
         /\ (\E i \in 1..n : Failed(r[i])) => \E i \in 1..n : Failed(r[i]) /\ Together(r) = r[i]
  <1> DEFINE failing == {i \in DOMAIN r : Failed(r[i])}
  <1>1. ASSUME failing = {} PROVE Together(r) = Ok([i \in 1..n |-> r[i][2]])
    BY <1>1 DEF Together
  <1>2. ASSUME failing # {} PROVE \E i \in failing : Together(r) = r[i]
    <2>1. failing \in SUBSET (1..n)
      OBVIOUS
    <2>2. \E i \in failing : \A j \in failing : i <= j
      BY <1>2, <2>1, FirstPosition
    <2>3. (CHOOSE i \in failing : \A j \in failing : i <= j) \in failing
      BY <2>2
    <2>4. Together(r) = r[CHOOSE i \in failing : \A j \in failing : i <= j]
      BY <1>2 DEF Together
    <2> QED BY <2>3, <2>4
  <1> QED BY <1>1, <1>2

\* What a value is held as within another: Binding!MadeOf is Into of IntoVal.
BoundRight(v) ==
  AllWellFormed(v) =>
    LET Into[w \in AnywhereIn(v)] == IntoUsing(Into, w)
    IN IF NoFunctions(v) THEN Into[v] = Ok(FromVal(v)) ELSE Failed(Into[v])

Binding == INSTANCE Recursion WITH PartsOf <- DirectlyIn, Make <- IntoUsing, Holds <- BoundRight, Depth <- MaxNesting

LEMMA BindingNested ==
  ASSUME NEW v
  PROVE  (Binding!IsBounded(v) <=> IsNested(v)) /\ Binding!AllPartsOf(v) = AnywhereIn(v)
  <1>1. Binding!PartLevels(v) = Levels(v)
    BY DEF Binding!PartLevels, Levels
  <1> QED BY <1>1 DEF Binding!IsBounded, IsNested, Binding!AllPartsOf, AnywhereIn

LEMMA BindingParts == Binding!MakesFromParts
  <1> SUFFICES ASSUME NEW f, NEW g, NEW w, \A x \in DirectlyIn(w) : f[x] = g[x]
               PROVE  IntoUsing(f, w) = IntoUsing(g, w)
    BY DEF Binding!MakesFromParts
  <1>1. CASE TypeOf(w) = "list"
    <2>1. \A k \in DOMAIN w[2] : f[w[2][k]] = g[w[2][k]]
      BY <1>1 DEF DirectlyIn
    <2>2. [k \in DOMAIN w[2] |-> f[w[2][k]]] = [k \in DOMAIN w[2] |-> g[w[2][k]]]
      BY <2>1
    <2> QED BY <1>1, <2>2 DEF IntoUsing
  <1>2. CASE TypeOf(w) = "map"
    <2>1. \A k \in DOMAIN w[2] : f[w[2][k]] = g[w[2][k]]
      BY <1>2 DEF DirectlyIn
    <2>2. [k \in DOMAIN w[2] |-> f[w[2][k]][2]] = [k \in DOMAIN w[2] |-> g[w[2][k]][2]]
      BY <2>1
    <2>3. (\E k \in DOMAIN w[2] : Failed(f[w[2][k]])) <=> (\E k \in DOMAIN w[2] : Failed(g[w[2][k]]))
      BY <2>1
    <2> QED BY <1>2, <2>2, <2>3 DEF IntoUsing
  <1>3. CASE TypeOf(w) = "optional"
    <2>1. w[2] # <<>> => f[w[2][1]] = g[w[2][1]]
      BY <1>3 DEF DirectlyIn
    <2> QED BY <1>3, <2>1 DEF IntoUsing
  <1>4. CASE TypeOf(w) \notin {"list", "map", "optional"}
    BY <1>4 DEF IntoUsing
  <1> QED BY <1>1, <1>2, <1>3, <1>4

LEMMA IntoOfParts ==
  ASSUME NEW v, IsNested(v)
  PROVE  /\ Binding!MadeOf(v) = IntoUsing([x \in DirectlyIn(v) |-> Binding!MadeOf(x)], v)
         /\ BoundRight(v) <=>
              (AllWellFormed(v) =>
                 IF NoFunctions(v) THEN Binding!MadeOf(v) = Ok(FromVal(v)) ELSE Failed(Binding!MadeOf(v)))
         /\ \A shared : IntoVal(v, shared) = IF TypeOf(v) = "struct" THEN Ok(Moved(v, shared)) ELSE Binding!MadeOf(v)
  <1>1. Binding!AllPartsOf(v) = AnywhereIn(v)
    BY BindingNested
  <1>2. \A shared : IntoVal(v, shared) = IF TypeOf(v) = "struct" THEN Ok(Moved(v, shared)) ELSE Binding!MadeOf(v)
    BY ONLY <1>1 DEF IntoVal, Binding!MadeOf
  <1>3. BoundRight(v) <=>
          (AllWellFormed(v) =>
             IF NoFunctions(v) THEN Binding!MadeOf(v) = Ok(FromVal(v)) ELSE Failed(Binding!MadeOf(v)))
    BY ONLY <1>1 DEF BoundRight, Binding!MadeOf
  <1>4. Binding!MadeOf(v) = IntoUsing([x \in DirectlyIn(v) |-> Binding!MadeOf(x)], v)
    BY BindingNested, NestingIsNatural, BindingParts, Binding!Unfolding
  <1> QED BY <1>2, <1>3, <1>4

LEMMA BoundOfParts ==
  ASSUME NEW v, IsNested(v), \A x \in DirectlyIn(v) : BoundRight(x)
  PROVE  BoundRight(v)
  <1> SUFFICES ASSUME AllWellFormed(v)
               PROVE  IF NoFunctions(v) THEN Binding!MadeOf(v) = Ok(FromVal(v)) ELSE Failed(Binding!MadeOf(v))
    BY IntoOfParts
  <1> DEFINE g == [x \in DirectlyIn(v) |-> FromVal(x)]
             h == [x \in DirectlyIn(v) |-> Binding!MadeOf(x)]
  <1>1. IsValue(v) /\ IsWellFormed(v) /\ \A x \in DirectlyIn(v) : IsNested(x) /\ AllWellFormed(x)
    <2>1. IsValue(v)
      BY DEF IsValue, AllWellFormed
    <2> QED BY <2>1, OfTypeInParts, InNested
  <1>2. ASSUME NEW x \in DirectlyIn(v)
        PROVE  IF NoFunctions(x) THEN h[x] = Ok(g[x]) ELSE Failed(h[x])
    <2>1. g[x] = FromVal(x) /\ h[x] = Binding!MadeOf(x)
      OBVIOUS
    <2> QED BY <1>1, <1>2, <2>1, IntoOfParts
  <1>3. Binding!MadeOf(v) = IntoUsing(h, v) /\ FromVal(v) = FromUsing(g, v)
    BY IntoOfParts, FromValOfParts
  <1>4. NoFunctions(v) <=> TypeOf(v) # "function" /\ \A x \in DirectlyIn(v) : NoFunctions(x)
    BY OfTypeInParts
  <1>5. \A x : ~Failed(Ok(x)) /\ Ok(x)[2] = x
    BY DEF Failed, Ok
  <1>6. \A e : Failed(Err(e))
    BY DEF Failed, Err
  <1> HIDE DEF g, h
  <1>7. CASE NoFunctions(v)
    <2>1. \A x \in DirectlyIn(v) : h[x] = Ok(g[x])
      BY <1>2, <1>4, <1>7
    <2>2. CASE TypeOf(v) = "list"
      <3>1. PICK n \in Nat : DOMAIN v[2] = 1..n
        BY <1>1, <2>2 DEF IsWellFormed, IsSequence
      <3>2. \A i \in 1..n : h[v[2][i]] = Ok(g[v[2][i]])
        BY <2>1, <2>2, <3>1 DEF DirectlyIn
      <3> DEFINE r == [i \in 1..n |-> h[v[2][i]]]
      <3>3. \A i \in 1..n : ~Failed(r[i]) /\ r[i][2] = g[v[2][i]]
        BY <1>5, <3>2
      <3>4. DOMAIN r = 1..n
        OBVIOUS
      <3>5. IntoUsing(h, v) = InList(Together(r))
        BY <2>2, <3>1 DEF IntoUsing
      <3> HIDE DEF r
      <3>6. Together(r) = Ok([i \in 1..n |-> r[i][2]])
        BY <3>3, <3>4, TogetherResults
      <3>7. [i \in 1..n |-> r[i][2]] = [i \in 1..n |-> g[v[2][i]]]
        BY <3>3
      <3>8. IntoUsing(h, v) = Ok(ListOf([i \in 1..n |-> g[v[2][i]]]))
        BY <1>5, <3>5, <3>6, <3>7 DEF InList
      <3>9. FromUsing(g, v) = ListOf([i \in 1..n |-> g[v[2][i]]])
        BY <2>2, <3>1 DEF FromUsing
      <3> QED BY <1>3, <1>7, <3>8, <3>9
    <2>3. CASE TypeOf(v) = "map"
      <3>1. \A k \in DOMAIN v[2] : h[v[2][k]] = Ok(g[v[2][k]])
        BY <2>1, <2>3 DEF DirectlyIn
      <3>2. \A k \in DOMAIN v[2] : ~Failed(h[v[2][k]]) /\ h[v[2][k]][2] = g[v[2][k]]
        BY <1>5, <3>1
      <3>3. [k \in DOMAIN v[2] |-> h[v[2][k]][2]] = [k \in DOMAIN v[2] |-> g[v[2][k]]]
        BY <3>2
      <3>4. IntoUsing(h, v) = Ok(MapOf([k \in DOMAIN v[2] |-> g[v[2][k]]]))
        BY <2>3, <3>2, <3>3 DEF IntoUsing
      <3>5. FromUsing(g, v) = MapOf([k \in DOMAIN v[2] |-> g[v[2][k]]])
        BY <2>3 DEF FromUsing
      <3> QED BY <1>3, <1>7, <3>4, <3>5
    <2>4. CASE TypeOf(v) = "optional"
      <3>1. v[2] # <<>> => h[v[2][1]] = Ok(g[v[2][1]])
        BY <2>1, <2>4 DEF DirectlyIn
      <3>2. v[2] # <<>> => ~Failed(h[v[2][1]]) /\ h[v[2][1]][2] = g[v[2][1]]
        BY <1>5, <3>1
      <3>3. IntoUsing(h, v) = Ok(FromUsing(g, v))
        BY <2>4, <3>2 DEF IntoUsing, FromUsing
      <3> QED BY <1>3, <1>7, <3>3
    <2>5. CASE TypeOf(v) \notin {"list", "map", "optional"}
      <3>1. IntoUsing(h, v) = Ok(FromUsing(g, v))
        BY <1>4, <1>7, <2>5 DEF IntoUsing, FromUsing, Moved
      <3> QED BY <1>3, <1>7, <3>1
    <2> QED BY <2>2, <2>3, <2>4, <2>5
  <1>8. CASE ~NoFunctions(v)
    <2>1. CASE TypeOf(v) = "function"
      <3>1. IntoUsing(h, v) = Err("UnsupportedTargetType")
        BY <2>1 DEF IntoUsing
      <3> QED BY <1>3, <1>6, <1>8, <3>1
    <2>2. CASE TypeOf(v) # "function"
      <3>1. PICK x \in DirectlyIn(v) : Failed(h[x])
        BY <1>2, <1>4, <1>8, <2>2
      <3>2. TypeOf(v) # "struct"
        BY <1>1, <1>8, PartsAreValues
      <3>3. CASE TypeOf(v) = "list"
        <4>1. PICK n \in Nat : DOMAIN v[2] = 1..n
          BY <1>1, <3>3 DEF IsWellFormed, IsSequence
        <4>2. PICK i \in 1..n : x = v[2][i]
          BY <3>3, <4>1 DEF DirectlyIn
        <4> DEFINE r == [j \in 1..n |-> h[v[2][j]]]
        <4>3. Failed(r[i]) /\ DOMAIN r = 1..n
          BY <3>1, <4>2
        <4>4. IntoUsing(h, v) = InList(Together(r))
          BY <3>3, <4>1 DEF IntoUsing
        <4> HIDE DEF r
        <4>5. Failed(Together(r))
          BY <4>2, <4>3, TogetherResults
        <4> QED BY <1>3, <1>8, <4>4, <4>5 DEF InList
      <3>4. CASE TypeOf(v) = "map"
        <4>1. PICK k \in DOMAIN v[2] : x = v[2][k]
          BY <3>4 DEF DirectlyIn
        <4>2. IntoUsing(h, v) = Err("UnsupportedTargetType")
          BY <3>1, <3>4, <4>1 DEF IntoUsing
        <4> QED BY <1>3, <1>6, <1>8, <4>2
      <3>5. CASE TypeOf(v) = "optional"
        <4>1. v[2] # <<>> /\ x = v[2][1]
          BY <3>5 DEF DirectlyIn
        <4>2. IntoUsing(h, v) = h[x]
          BY <3>1, <3>5, <4>1 DEF IntoUsing
        <4> QED BY <1>3, <1>8, <3>1, <4>2
      <3> QED BY <3>2, <3>3, <3>4, <3>5, DirectlyInKinds
    <2> QED BY <2>1, <2>2
  <1> QED BY <1>7, <1>8

\* A value is held as it is read, unless it holds a function.  A struct alone is held as it is or copied.
LEMMA BindingsAreRight ==
  ASSUME NEW v, IsValue(v), NEW shared
  PROVE  IF NoFunctions(v)
         THEN IntoVal(v, shared) = IF TypeOf(v) = "struct" THEN Ok(Moved(v, shared)) ELSE Ok(FromVal(v))
         ELSE Failed(IntoVal(v, shared))
  <1>1. \A w : Binding!IsBounded(w) /\ (\A x \in DirectlyIn(w) : BoundRight(x)) => BoundRight(w)
    BY BoundOfParts, BindingNested
  <1>2. Binding!IsBounded(v) /\ IsNested(v)
    BY BindingNested DEF IsValue
  <1>3. BoundRight(v)
    BY <1>1, <1>2, NestingIsNatural, Binding!HoldsOfParts
  <1>4. IF NoFunctions(v) THEN Binding!MadeOf(v) = Ok(FromVal(v)) ELSE Failed(Binding!MadeOf(v))
    BY <1>2, <1>3, IntoOfParts DEF IsValue, AllWellFormed
  <1>5. IntoVal(v, shared) = IF TypeOf(v) = "struct" THEN Ok(Moved(v, shared)) ELSE Binding!MadeOf(v)
    BY <1>2, IntoOfParts
  <1>6. TypeOf(v) = "struct" => NoFunctions(v)
    BY PartsAreValues
  <1> QED BY <1>4, <1>5, <1>6

\* What a variable gives back of what it was given.
LEMMA BoundIsRead ==
  ASSUME NEW v, IsValue(v), NoFunctions(v), NEW shared
  PROVE  LET read == FromVal(IntoVal(v, shared)[2])
         IN /\ ~Failed(IntoVal(v, shared))
            /\ IsValue(read) /\ NoFunctions(read)
            /\ StructsArePlain(read)
            /\ StructsArePlain(v) => read = v
  <1>1. \A x : ~Failed(Ok(x)) /\ Ok(x)[2] = x
    BY DEF Failed, Ok
  <1>2. CASE TypeOf(v) = "struct"
    <2> DEFINE u == Moved(v, shared)
    <2>1. IntoVal(v, shared) = Ok(u)
      BY <1>2, BindingsAreRight
    <2>2. u = v \/ u = Clone(v)
      BY DEF Moved
    <2>3. IsValue(u) /\ NoFunctions(u) /\ (~HoldsOptionals(v) => u = v)
      BY <2>2, CopiesAreRight DEF Kept
    <2>4. StructsArePlain(v) => ~HoldsOptionals(v)
      BY <1>2, PlainParts DEF IsValue
    <2> HIDE DEF u
    <2> QED BY <1>1, <2>1, <2>3, <2>4, ReadingsAreRight
  <1>3. CASE TypeOf(v) # "struct"
    <2>1. IntoVal(v, shared) = Ok(FromVal(v))
      BY <1>3, BindingsAreRight
    <2>2. /\ IsValue(FromVal(v)) /\ NoFunctions(FromVal(v)) /\ StructsArePlain(FromVal(v))
          /\ StructsArePlain(v) => FromVal(v) = v
      BY ReadingsAreRight
    <2>3. FromVal(FromVal(v)) = FromVal(v)
      BY <2>2, ReadingsAreRight
    <2> QED BY <1>1, <2>1, <2>2, <2>3
  <1> QED BY <1>2, <1>3
-----------------------------------------------------------------------------
(* Exports. *)

\* A value of a kind that is not exported.
Refusing(w) == TypeOf(w) = "struct" \/ (TypeOf(w) = "duration" /\ ~HasNanos(w[2]))

ExportRefused(v) == \E w \in Reached(v) : Refusing(w)
ExportCollides(v) == \E m \in Reached(v) : TypeOf(m) = "map" /\ Colliding(m)

ExportedRight(v) ==
  IsValue(v) /\ NoFunctions(v) =>
    /\ Exports(v) # {}
    /\ \A r \in Exports(v) : Failed(r) <=> ExportRefused(v)
    /\ ExportRefused(v) \/ ExportCollides(v) \/ \A r, q \in Exports(v) : r = q

Exporting == INSTANCE Recursion WITH PartsOf <- DirectlyIn, Make <- ExportsUsing, Holds <- ExportedRight, Depth <- MaxNesting
Reaching  == INSTANCE Recursion WITH PartsOf <- DirectlyIn, Make <- ReachedUsing, Holds <- ExportedRight, Depth <- MaxNesting

LEMMA ExportingNested ==
  ASSUME NEW v
  PROVE  /\ Exporting!IsBounded(v) <=> IsNested(v)
         /\ Exporting!AllPartsOf(v) = AnywhereIn(v)
         /\ Reaching!IsBounded(v) <=> IsNested(v)
         /\ Reaching!AllPartsOf(v) = AnywhereIn(v)
  <1>1. Exporting!PartLevels(v) = Levels(v) /\ Reaching!PartLevels(v) = Levels(v)
    BY DEF Exporting!PartLevels, Reaching!PartLevels, Levels
  <1> QED BY <1>1 DEF Exporting!IsBounded, Reaching!IsBounded, IsNested, Exporting!AllPartsOf, Reaching!AllPartsOf, AnywhereIn

LEMMA ExportingParts == Exporting!MakesFromParts
  <1> SUFFICES ASSUME NEW f, NEW g, NEW w, \A x \in DirectlyIn(w) : f[x] = g[x]
               PROVE  ExportsUsing(f, w) = ExportsUsing(g, w)
    BY DEF Exporting!MakesFromParts
  <1>1. CASE TypeOf(w) \in {"list", "map"}
    <2>1. \A k \in DOMAIN w[2] : f[w[2][k]] = g[w[2][k]]
      BY <1>1 DEF DirectlyIn
    <2>2. [k \in DOMAIN w[2] |-> f[w[2][k]]] = [k \in DOMAIN w[2] |-> g[w[2][k]]]
      BY <2>1
    <2> QED BY <1>1, <2>2 DEF ExportsUsing
  <1>2. CASE TypeOf(w) \notin {"list", "map"}
    BY <1>2 DEF ExportsUsing
  <1> QED BY <1>1, <1>2

LEMMA ReachingParts == Reaching!MakesFromParts
  <1> SUFFICES ASSUME NEW f, NEW g, NEW w, \A x \in DirectlyIn(w) : f[x] = g[x]
               PROVE  ReachedUsing(f, w) = ReachedUsing(g, w)
    BY DEF Reaching!MakesFromParts
  <1>1. {f[x] : x \in DirectlyIn(w)} = {g[x] : x \in DirectlyIn(w)}
    OBVIOUS
  <1> QED BY <1>1 DEF ReachedUsing

LEMMA ExportsOfParts ==
  ASSUME NEW v, IsNested(v)
  PROVE  /\ Exports(v) = ExportsUsing([x \in DirectlyIn(v) |-> Exports(x)], v)
         /\ Reached(v) = {v} \cup (IF TypeOf(v) \in {"list", "map"} THEN UNION {Reached(x) : x \in DirectlyIn(v)} ELSE {})
  <1>1. \A w : Exports(w) = Exporting!MadeOf(w)
    <2>1. \A w : Exporting!AllPartsOf(w) = AnywhereIn(w)
      BY ExportingNested
    <2> QED BY ONLY <2>1 DEF Exports, Exporting!MadeOf
  <1>2. \A w : Reached(w) = Reaching!MadeOf(w)
    <2>1. \A w : Reaching!AllPartsOf(w) = AnywhereIn(w)
      BY ExportingNested
    <2> QED BY ONLY <2>1 DEF Reached, Reaching!MadeOf
  <1>3. Exporting!MadeOf(v) = ExportsUsing([x \in DirectlyIn(v) |-> Exporting!MadeOf(x)], v)
    BY ExportingNested, NestingIsNatural, ExportingParts, Exporting!Unfolding
  <1>4. Reaching!MadeOf(v) = ReachedUsing([x \in DirectlyIn(v) |-> Reaching!MadeOf(x)], v)
    BY ExportingNested, NestingIsNatural, ReachingParts, Reaching!Unfolding
  <1>5. [x \in DirectlyIn(v) |-> Exporting!MadeOf(x)] = [x \in DirectlyIn(v) |-> Exports(x)]
    BY <1>1
  <1>6. [x \in DirectlyIn(v) |-> Reaching!MadeOf(x)] = [x \in DirectlyIn(v) |-> Reached(x)]
    BY <1>2
  <1> DEFINE g == [x \in DirectlyIn(v) |-> Reached(x)]
  <1>7. Reached(v) = ReachedUsing(g, v)
    BY <1>2, <1>4, <1>6
  <1>8. {g[x] : x \in DirectlyIn(v)} = {Reached(x) : x \in DirectlyIn(v)}
    OBVIOUS
  <1> HIDE DEF g
  <1>9. Reached(v) = {v} \cup (IF TypeOf(v) \in {"list", "map"} THEN UNION {Reached(x) : x \in DirectlyIn(v)} ELSE {})
    BY <1>7, <1>8 DEF ReachedUsing
  <1> QED BY <1>1, <1>3, <1>5, <1>9

LEMMA SelectionsMade ==
  ASSUME NEW sets
  PROVE  /\ \A s \in Selections(sets) : s = [i \in DOMAIN sets |-> s[i]] /\ \A i \in DOMAIN sets : s[i] \in sets[i]
         /\ (\A i \in DOMAIN sets : sets[i] # {}) => Selections(sets) # {}
  <1>1. ASSUME \A i \in DOMAIN sets : sets[i] # {} PROVE Selections(sets) # {}
    <2> DEFINE s == [i \in DOMAIN sets |-> CHOOSE x : x \in sets[i]]
    <2>1. \A i \in DOMAIN sets : s[i] \in sets[i]
      BY <1>1
    <2>2. s \in [DOMAIN sets -> UNION {sets[i] : i \in DOMAIN sets}]
      BY <2>1
    <2> HIDE DEF s
    <2>3. s \in Selections(sets)
      BY <2>1, <2>2 DEF Selections
    <2> QED BY <2>3
  <1> QED BY <1>1 DEF Selections

\* Only a string, or the same number of the other type, has the text of another key.
LEMMA TextsTell ==
  ASSUME NEW k, NEW l, IsKey(k), IsKey(l), k # l, KeyText(k) = KeyText(l)
  PROVE  ReadAlike(k, l)
  <1>1. TypeOf(k) \in {"bool", "int", "string", "uint"} /\ TypeOf(l) \in {"bool", "int", "string", "uint"}
    BY DEF IsKey, KeyTypes
  <1>2. k = <<TypeOf(k), k[2]>> /\ l = <<TypeOf(l), l[2]>>
    BY DEF IsKey
  <1>3. ASSUME TypeOf(k) \in Numbers, TypeOf(l) \in Numbers PROVE k[2] = l[2]
    <2>1. k[2] \in Ints /\ l[2] \in Ints /\ NumberText(k[2]) = NumberText(l[2])
      BY <1>3 DEF IsKey, Numbers, KeyText
    <2> QED BY <2>1, NumberTextsAssumption
  <1>4. ASSUME TypeOf(k) \in Numbers, TypeOf(l) \notin Numbers PROVE Spells(l, k)
    <2>1. k[2] \in Ints /\ KeyText(k) = NumberText(k[2])
      BY <1>4 DEF IsKey, Numbers, KeyText
    <2>2. NumberText(k[2]) \notin {"true", "false"}
      BY <2>1, NumberTextsAssumption
    <2>3. CASE TypeOf(l) = "string"
      BY <1>4, <2>1, <2>3 DEF KeyText, Spells
    <2>4. CASE TypeOf(l) = "bool"
      BY <2>1, <2>2, <2>4 DEF KeyText
    <2> QED BY <1>1, <1>4, <2>3, <2>4 DEF Numbers
  <1>5. ASSUME TypeOf(l) \in Numbers, TypeOf(k) \notin Numbers PROVE Spells(k, l)
    <2>1. l[2] \in Ints /\ KeyText(l) = NumberText(l[2])
      BY <1>5 DEF IsKey, Numbers, KeyText
    <2>2. NumberText(l[2]) \notin {"true", "false"}
      BY <2>1, NumberTextsAssumption
    <2>3. CASE TypeOf(k) = "string"
      BY <1>5, <2>1, <2>3 DEF KeyText, Spells
    <2>4. CASE TypeOf(k) = "bool"
      BY <2>1, <2>2, <2>4 DEF KeyText
    <2> QED BY <1>1, <1>5, <2>3, <2>4 DEF Numbers
  <1>6. ASSUME TypeOf(k) \notin Numbers, TypeOf(l) \notin Numbers PROVE Spells(k, l) \/ Spells(l, k)
    <2>1. TypeOf(k) \in {"bool", "string"} /\ TypeOf(l) \in {"bool", "string"}
      BY <1>1, <1>6 DEF Numbers
    <2>2. ASSUME TypeOf(k) = "string", TypeOf(l) = "string" PROVE FALSE
      BY <1>2, <2>2 DEF KeyText
    <2>3. ASSUME TypeOf(k) = "bool", TypeOf(l) = "bool" PROVE FALSE
      <3>1. k[2] \in BOOLEAN /\ l[2] \in BOOLEAN
        BY <2>3 DEF IsKey
      <3>2. k = <<"bool", k[2]>> /\ l = <<"bool", l[2]>>
        BY <1>2, <2>3
      <3>3. k[2] # l[2]
        BY <3>2
      <3>4. /\ k[2] = TRUE => KeyText(k) = "true"
            /\ k[2] = FALSE => KeyText(k) = "false"
            /\ l[2] = TRUE => KeyText(l) = "true"
            /\ l[2] = FALSE => KeyText(l) = "false"
        BY <2>3 DEF KeyText
      <3>5. "true" # "false"
        OBVIOUS
      <3> QED BY <3>1, <3>3, <3>4, <3>5
    <2>4. ASSUME TypeOf(k) = "string", TypeOf(l) = "bool" PROVE Spells(k, l)
      BY <2>4 DEF KeyText, Spells
    <2>5. ASSUME TypeOf(k) = "bool", TypeOf(l) = "string" PROVE Spells(l, k)
      BY <2>5 DEF KeyText, Spells
    <2> QED BY <2>1, <2>2, <2>3, <2>4, <2>5
  <1> QED BY <1>3, <1>4, <1>5, <1>6 DEF ReadAlike

\* The objects made of a map: an error of one of its values, or one entry for each text.
LEMMA ObjectsMade ==
  ASSUME NEW results, \A k \in DOMAIN results : results[k] # {}
  PROVE  /\ Objects(results) # {}
         /\ \A r \in Objects(results) :
              IF \E k \in DOMAIN results : \E e \in results[k] : Failed(e)
              THEN Failed(r)
              ELSE \E s : /\ r = Ok(<<"object", [t \in {KeyText(k) : k \in DOMAIN results} |-> s[t][2]]>>)
                          /\ \A t \in {KeyText(k) : k \in DOMAIN results} :
                               \E k \in DOMAIN results : KeyText(k) = t /\ s[t] \in results[k]
  <1> DEFINE texts    == {KeyText(k) : k \in DOMAIN results}
             Under(t) == UNION {results[k] : k \in {key \in DOMAIN results : KeyText(key) = t}}
             errors   == {r \in UNION {results[k] : k \in DOMAIN results} : Failed(r)}
             sets     == [t \in texts |-> Under(t)]
  <1>1. Objects(results) = IF errors # {} THEN errors
                           ELSE {Ok(<<"object", [t \in texts |-> s[t][2]]>>) : s \in Selections(sets)}
    BY DEF Objects
  <1>2. errors # {} <=> \E k \in DOMAIN results : \E e \in results[k] : Failed(e)
    OBVIOUS
  <1>3. \A t \in texts : sets[t] # {}
    OBVIOUS
  <1>4. DOMAIN sets = texts
    OBVIOUS
  <1>5. \A t \in texts : \A x \in sets[t] : \E k \in DOMAIN results : KeyText(k) = t /\ x \in results[k]
    OBVIOUS
  <1>6. \A r \in errors : Failed(r)
    OBVIOUS
  <1> HIDE DEF errors, sets
  <1>7. Selections(sets) # {} /\ \A s \in Selections(sets) : \A t \in texts : s[t] \in sets[t]
    BY <1>3, <1>4, SelectionsMade
  <1>8. ASSUME errors = {}, NEW r \in Objects(results)
        PROVE  \E s : /\ r = Ok(<<"object", [t \in texts |-> s[t][2]]>>)
                      /\ \A t \in texts : \E k \in DOMAIN results : KeyText(k) = t /\ s[t] \in results[k]
    <2>1. PICK s \in Selections(sets) : r = Ok(<<"object", [t \in texts |-> s[t][2]]>>)
      BY <1>1, <1>8
    <2>2. \A t \in texts : \E k \in DOMAIN results : KeyText(k) = t /\ s[t] \in results[k]
      BY <1>5, <1>7
    <2> QED BY <2>1, <2>2
  <1>9. Objects(results) # {}
    BY <1>1, <1>7
  <1> QED BY <1>1, <1>2, <1>6, <1>8, <1>9

LEMMA ExportListRight ==
  ASSUME NEW v, IsValue(v), NoFunctions(v), TypeOf(v) = "list", \A x \in DirectlyIn(v) : ExportedRight(x)
  PROVE  ExportedRight(v)
  <1>1. IsNested(v) /\ IsWellFormed(v) /\ \A x \in DirectlyIn(v) : IsValue(x) /\ NoFunctions(x)
    BY PartsAreValues, OfTypeInParts DEF IsValue
  <1>2. PICK n \in Nat : DOMAIN v[2] = 1..n
    BY <1>1 DEF IsWellFormed, IsSequence
  <1>3. DirectlyIn(v) = {v[2][i] : i \in 1..n}
    BY <1>2 DEF DirectlyIn
  <1> DEFINE g == [x \in DirectlyIn(v) |-> Exports(x)]
             sets == [i \in 1..n |-> g[v[2][i]]]
  <1>4. Exports(v) = {Tagged("array", Together(s)) : s \in Selections(sets)}
    <2>1. Exports(v) = ExportsUsing(g, v)
      BY <1>1, ExportsOfParts
    <2> HIDE DEF g
    <2> QED BY <1>2, <2>1 DEF ExportsUsing
  <1>5. DOMAIN sets = 1..n /\ \A i \in 1..n : v[2][i] \in DirectlyIn(v) /\ sets[i] = Exports(v[2][i])
    BY <1>3
  <1> HIDE DEF g, sets
  <1>6. ASSUME NEW i \in 1..n
        PROVE  /\ sets[i] # {}
               /\ \A r \in sets[i] : Failed(r) <=> ExportRefused(v[2][i])
               /\ ExportRefused(v[2][i]) \/ ExportCollides(v[2][i]) \/ \A r, q \in sets[i] : r = q
    BY <1>1, <1>5 DEF ExportedRight
  <1>7. Selections(sets) # {} /\ \A s \in Selections(sets) : s = [i \in 1..n |-> s[i]] /\ \A i \in 1..n : s[i] \in sets[i]
    <2>1. DOMAIN sets = 1..n
      BY <1>5
    <2>2. \A i \in DOMAIN sets : sets[i] # {}
      BY <1>6, <2>1
    <2>3. /\ \A s \in Selections(sets) : s = [i \in DOMAIN sets |-> s[i]] /\ \A i \in DOMAIN sets : s[i] \in sets[i]
          /\ (\A i \in DOMAIN sets : sets[i] # {}) => Selections(sets) # {}
      BY SelectionsMade
    <2> QED BY ONLY <2>1, <2>2, <2>3
  <1>8. Reached(v) = {v} \cup UNION {Reached(x) : x \in DirectlyIn(v)}
    BY <1>1, ExportsOfParts
  <1>9. /\ ExportRefused(v) <=> \E i \in 1..n : ExportRefused(v[2][i])
        /\ \A i \in 1..n : ExportCollides(v[2][i]) => ExportCollides(v)
    BY <1>3, <1>8 DEF ExportRefused, ExportCollides, Refusing
  <1>10. ASSUME NEW s \in Selections(sets)
         PROVE  IF ExportRefused(v) THEN Failed(Together(s)) ELSE Together(s) = Ok([i \in 1..n |-> s[i][2]])
    <2>1. DOMAIN s = 1..n /\ \A i \in 1..n : Failed(s[i]) <=> ExportRefused(v[2][i])
      BY <1>6, <1>7
    <2>2. (\E i \in 1..n : Failed(s[i])) <=> ExportRefused(v)
      BY <1>9, <2>1
    <2> QED BY <2>1, <2>2, TogetherResults
  <1>11. \A x : ~Failed(Ok(x))
    BY DEF Failed, Ok
  <1>12. \A s \in Selections(sets) : Failed(Tagged("array", Together(s))) <=> ExportRefused(v)
    BY <1>10, <1>11 DEF Tagged
  <1>13. ASSUME ~ExportRefused(v), ~ExportCollides(v), NEW s \in Selections(sets), NEW q \in Selections(sets)
         PROVE  s = q
    <2>1. \A i \in 1..n : s[i] = q[i]
      BY <1>6, <1>7, <1>9, <1>13
    <2> QED BY <1>7, <2>1
  <1> QED BY <1>4, <1>7, <1>12, <1>13 DEF ExportedRight

LEMMA ExportMapRight ==
  ASSUME NEW v, IsValue(v), NoFunctions(v), TypeOf(v) = "map", \A x \in DirectlyIn(v) : ExportedRight(x)
  PROVE  ExportedRight(v)
  <1>1. IsNested(v) /\ IsWellFormed(v) /\ \A x \in DirectlyIn(v) : IsValue(x) /\ NoFunctions(x)
    BY PartsAreValues, OfTypeInParts DEF IsValue
  <1>2. \A k \in DOMAIN v[2] : IsKey(k)
    BY <1>1 DEF IsWellFormed
  <1>3. DirectlyIn(v) = {v[2][k] : k \in DOMAIN v[2]}
    BY DEF DirectlyIn
  <1> DEFINE g == [x \in DirectlyIn(v) |-> Exports(x)]
             results == [k \in DOMAIN v[2] |-> g[v[2][k]]]
             texts == {KeyText(k) : k \in DOMAIN v[2]}
  <1>4. Exports(v) = Objects(results)
    <2>1. Exports(v) = ExportsUsing(g, v)
      BY <1>1, ExportsOfParts
    <2> HIDE DEF g
    <2> QED BY <2>1 DEF ExportsUsing
  <1>5. DOMAIN results = DOMAIN v[2] /\ \A k \in DOMAIN v[2] : v[2][k] \in DirectlyIn(v) /\ results[k] = Exports(v[2][k])
    BY <1>3
  <1> HIDE DEF g, results
  <1>6. ASSUME NEW k \in DOMAIN v[2]
        PROVE  /\ results[k] # {}
               /\ \A r \in results[k] : Failed(r) <=> ExportRefused(v[2][k])
               /\ ExportRefused(v[2][k]) \/ ExportCollides(v[2][k]) \/ \A r, q \in results[k] : r = q
    BY <1>1, <1>5 DEF ExportedRight
  <1>7. Reached(v) = {v} \cup UNION {Reached(x) : x \in DirectlyIn(v)}
    BY <1>1, ExportsOfParts
  <1>8. /\ ExportRefused(v) <=> \E k \in DOMAIN v[2] : ExportRefused(v[2][k])
        /\ \A k \in DOMAIN v[2] : ExportCollides(v[2][k]) => ExportCollides(v)
        /\ Colliding(v) => ExportCollides(v)
    BY <1>3, <1>7 DEF ExportRefused, ExportCollides, Refusing
  <1>9. (\E k \in DOMAIN results : \E e \in results[k] : Failed(e)) <=> ExportRefused(v)
    BY <1>5, <1>6, <1>8
  <1>10. /\ Objects(results) # {}
         /\ \A r \in Objects(results) :
              IF ExportRefused(v) THEN Failed(r)
              ELSE \E s : /\ r = Ok(<<"object", [t \in texts |-> s[t][2]]>>)
                          /\ \A t \in texts : \E k \in DOMAIN v[2] : KeyText(k) = t /\ s[t] \in results[k]
    <2>1. \A k \in DOMAIN results : results[k] # {}
      BY <1>5, <1>6
    <2>2. texts = {KeyText(k) : k \in DOMAIN results}
      BY <1>5
    <2>3. /\ Objects(results) # {}
          /\ \A r \in Objects(results) :
               IF \E k \in DOMAIN results : \E e \in results[k] : Failed(e)
               THEN Failed(r)
               ELSE \E s : /\ r = Ok(<<"object", [t \in {KeyText(k) : k \in DOMAIN results} |-> s[t][2]]>>)
                           /\ \A t \in {KeyText(k) : k \in DOMAIN results} :
                                \E k \in DOMAIN results : KeyText(k) = t /\ s[t] \in results[k]
      BY <2>1, ObjectsMade
    <2>4. DOMAIN results = DOMAIN v[2]
      BY <1>5
    <2> HIDE DEF texts
    <2> QED BY ONLY <1>9, <2>2, <2>3, <2>4
  <1>11. \A x : ~Failed(Ok(x))
    BY DEF Failed, Ok
  <1>12. \A r \in Objects(results) : Failed(r) <=> ExportRefused(v)
    BY <1>10, <1>11
  <1>13. ASSUME ~ExportRefused(v), ~ExportCollides(v), NEW r \in Objects(results), NEW q \in Objects(results)
         PROVE  r = q
    <2>1. PICK s : /\ r = Ok(<<"object", [t \in texts |-> s[t][2]]>>)
                   /\ \A t \in texts : \E k \in DOMAIN v[2] : KeyText(k) = t /\ s[t] \in results[k]
      BY <1>10, <1>13
    <2>2. PICK z : /\ q = Ok(<<"object", [t \in texts |-> z[t][2]]>>)
                   /\ \A t \in texts : \E k \in DOMAIN v[2] : KeyText(k) = t /\ z[t] \in results[k]
      BY <1>10, <1>13
    <2>3. ASSUME NEW t \in texts PROVE s[t] = z[t]
      <3>1. PICK k \in DOMAIN v[2] : KeyText(k) = t /\ s[t] \in results[k]
        BY <2>1
      <3>2. PICK l \in DOMAIN v[2] : KeyText(l) = t /\ z[t] \in results[l]
        BY <2>2
      <3>3. results[k] = results[l]
        <4>1. CASE k = l
          BY <4>1
        <4>2. CASE k # l
          <5>1. ReadAlike(k, l)
            BY <1>2, <3>1, <3>2, <4>2, TextsTell
          <5>2. ~Colliding(v)
            BY <1>8, <1>13
          <5> QED BY <1>5, <4>2, <5>1, <5>2 DEF Colliding
        <4> QED BY <4>1, <4>2
      <3>4. \A x, y \in results[k] : x = y
        BY <1>6, <1>8, <1>13
      <3> QED BY <3>1, <3>2, <3>3, <3>4
    <2>4. [t \in texts |-> s[t][2]] = [t \in texts |-> z[t][2]]
      BY <2>3
    <2> QED BY <2>1, <2>2, <2>4
  <1> QED BY <1>4, <1>10, <1>12, <1>13 DEF ExportedRight

LEMMA ExportAtomRight ==
  ASSUME NEW v, IsValue(v), NoFunctions(v), TypeOf(v) \notin {"list", "map"}
  PROVE  ExportedRight(v)
  <1>1. IsNested(v) /\ IsWellFormed(v)
    BY PartsAreValues DEF IsValue
  <1> DEFINE g == [x \in DirectlyIn(v) |-> Exports(x)]
  <1>2. Exports(v) = ExportsUsing(g, v) /\ Reached(v) = {v}
    BY <1>1, ExportsOfParts
  <1> HIDE DEF g
  <1>3. ExportRefused(v) <=> Refusing(v)
    BY <1>2 DEF ExportRefused
  <1>4. TypeOf(v) \in ValueKinds /\ TypeOf(v) # "function"
    BY <1>1, OfTypeInParts DEF IsWellFormed
  <1>5. (\A x : ~Failed(Ok(x))) /\ (\A e : Failed(Err(e)))
    BY DEF Failed, Ok, Err
  <1>6. \E r : ExportsUsing(g, v) = {r} /\ (Failed(r) <=> Refusing(v))
    <2>1. CASE TypeOf(v) \in {"int", "uint"}
      BY <1>5, <2>1 DEF ExportsUsing, Refusing
    <2>2. CASE TypeOf(v) = "double"
      BY <1>5, <2>2 DEF ExportsUsing, Refusing
    <2>3. CASE TypeOf(v) \in {"string", "bool"}
      BY <1>5, <2>3 DEF ExportsUsing, Refusing
    <2>4. CASE TypeOf(v) \in {"null", "bytes", "timestamp", "optional"}
      BY <1>5, <2>4 DEF ExportsUsing, Refusing
    <2>5. CASE TypeOf(v) = "duration"
      BY <1>5, <2>5 DEF ExportsUsing, Refusing
    <2>6. CASE TypeOf(v) = "opaque"
      BY <1>5, <2>6 DEF ExportsUsing, Refusing
    <2>7. CASE TypeOf(v) = "struct"
      BY <1>5, <2>7 DEF ExportsUsing, Refusing
    <2> QED BY <1>4, <2>1, <2>2, <2>3, <2>4, <2>5, <2>6, <2>7 DEF ValueKinds
  <1> QED BY <1>2, <1>3, <1>6 DEF ExportedRight

LEMMA ExportsAreRight ==
  ASSUME NEW v, IsValue(v), NoFunctions(v)
  PROVE  /\ Exports(v) # {}
         /\ \A r \in Exports(v) : Failed(r) <=> ExportRefused(v)
         /\ ExportRefused(v) \/ ExportCollides(v) \/ \A r, q \in Exports(v) : r = q
  <1>1. ASSUME NEW w, Exporting!IsBounded(w), \A x \in DirectlyIn(w) : ExportedRight(x) PROVE ExportedRight(w)
    <2>1. CASE IsValue(w) /\ NoFunctions(w)
      BY <1>1, <2>1, ExportListRight, ExportMapRight, ExportAtomRight
    <2>2. CASE ~(IsValue(w) /\ NoFunctions(w))
      BY <2>2 DEF ExportedRight
    <2> QED BY <2>1, <2>2
  <1>2. Exporting!IsBounded(v)
    BY ExportingNested DEF IsValue
  <1>3. ExportedRight(v)
    BY <1>1, <1>2, NestingIsNatural, Exporting!HoldsOfParts
  <1> QED BY <1>3 DEF ExportedRight
-----------------------------------------------------------------------------
(* Data that contains data. *)

WellMade(d) == \A p \in Inside(d) : IsWellMade(p)

KeyedRight(d) == KeyOf(d) = IF CanBeKey(d) THEN Ok(KeyMeant(d)) ELSE Err("InvalidKey")

\* What is said of data: what it is serialized as, and that what it means is a value.
SerializedRight(d) ==
  WellMade(d) => Serialized(d) = IF Sound(d) THEN Ok(Meant(d)) ELSE Err("InvalidKey")

IsMade(v) == IsNested(v) => AllWellFormed(v) /\ NoFunctions(v)

MeantRight(d) == WellMade(d) /\ Sound(d) => IsMade(Meant(d))

BareRight(d) == Bare(d) \in Inside(d)

KeySound(d) == CanBeKey(d) => Sound(d)

Keying      == INSTANCE Recursion WITH PartsOf <- Needed, Make <- KeyUsing, Holds <- KeyedRight, Depth <- MaxNesting
Baring      == INSTANCE Recursion WITH PartsOf <- Needed, Make <- BareUsing, Holds <- BareRight, Depth <- MaxNesting
Opening     == INSTANCE Recursion WITH PartsOf <- Needed, Make <- InsideUsing, Holds <- KeySound, Depth <- MaxNesting
Serializing == INSTANCE Recursion WITH PartsOf <- Needed, Make <- SerializedUsing, Holds <- SerializedRight, Depth <- MaxNesting
Meaning     == INSTANCE Recursion WITH PartsOf <- Needed, Make <- MeantUsing, Holds <- MeantRight, Depth <- MaxNesting

LEMMA DataNested ==
  ASSUME NEW d
  PROVE  /\ Keying!IsBounded(d) <=> IsNestedData(d)
         /\ Baring!IsBounded(d) <=> IsNestedData(d)
         /\ Opening!IsBounded(d) <=> IsNestedData(d)
         /\ Serializing!IsBounded(d) <=> IsNestedData(d)
         /\ Meaning!IsBounded(d) <=> IsNestedData(d)
  <1>1. /\ Keying!PartLevels(d) = DataLevels(d)
        /\ Baring!PartLevels(d) = DataLevels(d)
        /\ Opening!PartLevels(d) = DataLevels(d)
        /\ Serializing!PartLevels(d) = DataLevels(d)
        /\ Meaning!PartLevels(d) = DataLevels(d)
    BY DEF Keying!PartLevels, Baring!PartLevels, Opening!PartLevels, Serializing!PartLevels, Meaning!PartLevels, DataLevels
  <1> QED BY <1>1 DEF Keying!IsBounded, Baring!IsBounded, Opening!IsBounded, Serializing!IsBounded, Meaning!IsBounded, IsNestedData

LEMMA AllDataInside ==
  ASSUME NEW d
  PROVE  /\ Keying!AllPartsOf(d) = AnywhereWithin(d)
         /\ Baring!AllPartsOf(d) = AnywhereWithin(d)
         /\ Opening!AllPartsOf(d) = AnywhereWithin(d)
         /\ Serializing!AllPartsOf(d) = AnywhereWithin(d)
         /\ Meaning!AllPartsOf(d) = AnywhereWithin(d)
  <1>1. /\ Keying!PartLevels(d) = DataLevels(d)
        /\ Baring!PartLevels(d) = DataLevels(d)
        /\ Opening!PartLevels(d) = DataLevels(d)
        /\ Serializing!PartLevels(d) = DataLevels(d)
        /\ Meaning!PartLevels(d) = DataLevels(d)
    BY DEF Keying!PartLevels, Baring!PartLevels, Opening!PartLevels, Serializing!PartLevels, Meaning!PartLevels, DataLevels
  <1> QED BY <1>1 DEF Keying!AllPartsOf, Baring!AllPartsOf, Opening!AllPartsOf, Serializing!AllPartsOf, Meaning!AllPartsOf, AnywhereWithin

LEMMA NeededIsNested ==
  ASSUME NEW d, IsNestedData(d), NEW x \in Needed(d)
  PROVE  IsNestedData(x)
  BY DataNested, NestingIsNatural, Keying!PartsAreBounded

LEMMA ContentsAreNeeded ==
  ASSUME NEW d
  PROVE  Contents(d) \subseteq Needed(d)
  BY DEF Needed

LEMMA KeyingParts == Keying!MakesFromParts
  <1> SUFFICES ASSUME NEW f, NEW g, NEW d, \A x \in Needed(d) : f[x] = g[x]
               PROVE  KeyUsing(f, d) = KeyUsing(g, d)
    BY DEF Keying!MakesFromParts
  <1>1. \A x \in Contents(d) : f[x] = g[x]
    BY ContentsAreNeeded
  <1>2. d[1] = "some" => f[d[2]] = g[d[2]]
    BY <1>1 DEF Contents
  <1>3. d[1] = "newtype_struct" => f[d[3]] = g[d[3]]
    BY <1>1 DEF Contents
  <1>4. d[1] \in Wrappers => f[Unwrapped(d)] = g[Unwrapped(d)]
    <2>1. d[1] \in Wrappers => d[1] # "newtype_struct"
      BY DEF Wrappers
    <2>2. d[1] \in Wrappers => Unwrapped(d) \in Needed(d)
      BY <2>1 DEF Needed
    <2> QED BY <2>2
  <1> QED BY <1>2, <1>3, <1>4 DEF KeyUsing

LEMMA BaringParts == Baring!MakesFromParts
  <1> SUFFICES ASSUME NEW f, NEW g, NEW d, \A x \in Needed(d) : f[x] = g[x]
               PROVE  BareUsing(f, d) = BareUsing(g, d)
    BY DEF Baring!MakesFromParts
  <1>1. \A x \in Contents(d) : f[x] = g[x]
    BY ContentsAreNeeded
  <1>2. d[1] = "some" => f[d[2]] = g[d[2]]
    BY <1>1 DEF Contents
  <1>3. d[1] = "newtype_struct" => f[d[3]] = g[d[3]]
    BY <1>1 DEF Contents
  <1> QED BY <1>2, <1>3 DEF BareUsing

LEMMA OpeningParts == Opening!MakesFromParts
  <1> SUFFICES ASSUME NEW f, NEW g, NEW d, \A x \in Needed(d) : f[x] = g[x]
               PROVE  InsideUsing(f, d) = InsideUsing(g, d)
    BY DEF Opening!MakesFromParts
  <1>1. \A x \in Contents(d) : f[x] = g[x]
    BY ContentsAreNeeded
  <1>2. {f[x] : x \in Contents(d)} = {g[x] : x \in Contents(d)}
    BY <1>1
  <1> QED BY <1>2 DEF InsideUsing

\* What is asked for of the contents of data.
AskedAlike(f, g, d) ==
  /\ d[1] = "some" => f[d[2]] = g[d[2]]
  /\ d[1] \in {"newtype_struct", "newtype_variant"} => f[d[3]] = g[d[3]]
  /\ d[1] = "seq" => [i \in DOMAIN d[2] |-> f[d[2][i]]] = [i \in DOMAIN d[2] |-> g[d[2][i]]]
  /\ d[1] = "tuple_variant" => [i \in DOMAIN d[3] |-> f[d[3][i]]] = [i \in DOMAIN d[3] |-> g[d[3][i]]]
  /\ d[1] = "map" => \A i \in DOMAIN d[2] : f[d[2][i][2]] = g[d[2][i][2]]
  /\ d[1] \in {"struct", "struct_variant"} =>
       [i \in DOMAIN d[3] |-> f[d[3][i][2]]] = [i \in DOMAIN d[3] |-> g[d[3][i][2]]]

LEMMA SameOfContents ==
  ASSUME NEW f, NEW g, NEW d, \A x \in Contents(d) : f[x] = g[x]
  PROVE  AskedAlike(f, g, d)
  <1>1. CASE d[1] = "some"
    BY <1>1 DEF Contents, AskedAlike
  <1>2. CASE d[1] \in {"newtype_struct", "newtype_variant"}
    BY <1>2 DEF Contents, AskedAlike
  <1>3. CASE d[1] = "seq"
    <2>1. \A i \in DOMAIN d[2] : f[d[2][i]] = g[d[2][i]]
      BY <1>3 DEF Contents
    <2> QED BY <1>3, <2>1 DEF AskedAlike
  <1>4. CASE d[1] = "tuple_variant"
    <2>1. \A i \in DOMAIN d[3] : f[d[3][i]] = g[d[3][i]]
      BY <1>4 DEF Contents
    <2> QED BY <1>4, <2>1 DEF AskedAlike
  <1>5. CASE d[1] = "map"
    BY <1>5 DEF Contents, AskedAlike
  <1>6. CASE d[1] \in {"struct", "struct_variant"}
    <2>1. \A i \in DOMAIN d[3] : f[d[3][i][2]] = g[d[3][i][2]]
      BY <1>6 DEF Contents
    <2> QED BY <1>6, <2>1 DEF AskedAlike
  <1>7. CASE d[1] \notin {"some", "newtype_struct", "newtype_variant", "seq", "tuple_variant", "map", "struct", "struct_variant"}
    BY <1>7 DEF AskedAlike
  <1> QED BY <1>1, <1>2, <1>3, <1>4, <1>5, <1>6, <1>7

\* What data of each kind means and is serialized as.
Holding == {"some", "newtype_struct", "newtype_variant", "seq", "tuple_variant", "map", "struct", "struct_variant"}

MeantAs(f, d) ==
  LET Listed(items)  == ListOf([i \in DOMAIN items |-> f[items[i]]])
      Fields(fields) == Entered([i \in DOMAIN fields |-> StrOf(fields[i][1])],
                                [i \in DOMAIN fields |-> f[fields[i][2]]])
      Named(name, v) == MapOf([k \in {StrOf(name)} |-> v])
      values == {i \in DOMAIN d[2] : d[2][i][1] # "key"}
  IN /\ d[1] = "some" => MeantUsing(f, d) = f[d[2]]
     /\ d[1] = "newtype_struct" => MeantUsing(f, d) = f[d[3]]
     /\ d[1] = "newtype_variant" => MeantUsing(f, d) = Named(d[2], f[d[3]])
     /\ d[1] = "seq" => MeantUsing(f, d) = Listed(d[2])
     /\ d[1] = "tuple_variant" => MeantUsing(f, d) = Named(d[2], Listed(d[3]))
     /\ d[1] = "map" =>
          MeantUsing(f, d) = Entered([i \in values |-> KeyMeant(d[2][Last(KeyPlaces(d[2], i))][2])],
                                     [i \in values |-> f[d[2][i][2]]])
     /\ d[1] = "struct" => MeantUsing(f, d) = Fields(d[3])
     /\ d[1] = "struct_variant" => MeantUsing(f, d) = Named(d[2], Fields(d[3]))
     /\ d[1] = "timestamp" => MeantUsing(f, d) = TimestampOf(d[2])
     /\ d[1] = "duration" =>
          MeantUsing(f, d) = DurationOf(IF HasNanos(d[2]) THEN d[2] ELSE d[2] - Remainder(d[2], Second))
     /\ d[1] \notin Holding \cup Wrappers => MeantUsing(f, d) = Atom(d)

LEMMA MeantKinds ==
  ASSUME NEW f, NEW d
  PROVE  MeantAs(f, d)
  <1>1. CASE d[1] = "some"
    BY <1>1 DEF MeantAs, MeantUsing, Holding, Wrappers
  <1>2. CASE d[1] = "newtype_struct"
    BY <1>2 DEF MeantAs, MeantUsing, Holding, Wrappers
  <1>3. CASE d[1] = "newtype_variant"
    BY <1>3 DEF MeantAs, MeantUsing, Holding, Wrappers
  <1>4. CASE d[1] = "seq"
    BY <1>4 DEF MeantAs, MeantUsing, Holding, Wrappers
  <1>5. CASE d[1] = "tuple_variant"
    BY <1>5 DEF MeantAs, MeantUsing, Holding, Wrappers
  <1>6. CASE d[1] = "map"
    BY <1>6 DEF MeantAs, MeantUsing, Holding, Wrappers
  <1>7. CASE d[1] = "struct"
    BY <1>7 DEF MeantAs, MeantUsing, Holding, Wrappers
  <1>8. CASE d[1] = "struct_variant"
    BY <1>8 DEF MeantAs, MeantUsing, Holding, Wrappers
  <1>9. CASE d[1] = "timestamp"
    BY <1>9 DEF MeantAs, MeantUsing, Holding, Wrappers
  <1>10. CASE d[1] = "duration"
    BY <1>10 DEF MeantAs, MeantUsing, Holding, Wrappers
  <1>11. CASE d[1] \notin Holding \cup Wrappers
    BY <1>11 DEF MeantAs, MeantUsing, Holding, Wrappers
  <1> QED BY <1>1, <1>2, <1>3, <1>4, <1>5, <1>6, <1>7, <1>8, <1>9, <1>10, <1>11 DEF Holding, Wrappers

SerializedAs(f, d) ==
  LET Items(items)   == InList(Together([i \in DOMAIN items |-> f[items[i]]]))
      Values(fields) == [i \in DOMAIN fields |-> f[fields[i][2]]]
      Fields(fields) == Built([i \in DOMAIN fields |-> <<<<Ok(StrOf(fields[i][1]))>>, <<Values(fields)[i]>>>>])
      Calls(calls)   == Built([i \in DOMAIN calls |->
                                 IF calls[i][1] = "key" THEN <<<<KeyOf(calls[i][2])>>, <<>>>>
                                 ELSE <<<<>>, <<f[calls[i][2]]>>>>])
  IN /\ d[1] = "some" => SerializedUsing(f, d) = f[d[2]]
     /\ d[1] = "newtype_struct" =>
          SerializedUsing(f, d) = IF d[2] \notin {DurationName, TimestampName} THEN f[d[3]]
                                  ELSE IF d[3][1] = "struct" THEN TimeSerialized(d[2], d[3], Values(d[3][3]))
                                  ELSE TimeSerialized(d[2], d[3], <<>>)
     /\ d[1] \in Wrappers => SerializedUsing(f, d) = f[Unwrapped(d)]
     /\ d[1] = "newtype_variant" => SerializedUsing(f, d) = Variant(d[2], f[d[3]])
     /\ d[1] = "seq" => SerializedUsing(f, d) = Items(d[2])
     /\ d[1] = "tuple_variant" => SerializedUsing(f, d) = Variant(d[2], Items(d[3]))
     /\ d[1] = "map" => SerializedUsing(f, d) = Calls(d[2])
     /\ d[1] = "struct" => SerializedUsing(f, d) = Fields(d[3])
     /\ d[1] = "struct_variant" => SerializedUsing(f, d) = Variant(d[2], Fields(d[3]))
     /\ d[1] \notin Holding \cup Wrappers => SerializedUsing(f, d) = Ok(Atom(d))

LEMMA SerializedKinds ==
  ASSUME NEW f, NEW d
  PROVE  SerializedAs(f, d)
  <1>1. CASE d[1] = "some"
    BY <1>1 DEF SerializedAs, SerializedUsing, Holding, Wrappers
  <1>2. CASE d[1] = "newtype_struct"
    BY <1>2 DEF SerializedAs, SerializedUsing, Holding, Wrappers
  <1>3. CASE d[1] = "newtype_variant"
    BY <1>3 DEF SerializedAs, SerializedUsing, Holding, Wrappers
  <1>4. CASE d[1] = "seq"
    BY <1>4 DEF SerializedAs, SerializedUsing, Holding, Wrappers
  <1>5. CASE d[1] = "tuple_variant"
    BY <1>5 DEF SerializedAs, SerializedUsing, Holding, Wrappers
  <1>6. CASE d[1] = "map"
    BY <1>6 DEF SerializedAs, SerializedUsing, Holding, Wrappers
  <1>7. CASE d[1] = "struct"
    BY <1>7 DEF SerializedAs, SerializedUsing, Holding, Wrappers
  <1>8. CASE d[1] = "struct_variant"
    BY <1>8 DEF SerializedAs, SerializedUsing, Holding, Wrappers
  <1>9. CASE d[1] \in Wrappers
    BY <1>9 DEF SerializedAs, SerializedUsing, Holding, Wrappers
  <1>10. CASE d[1] \notin Holding \cup Wrappers
    BY <1>10 DEF SerializedAs, SerializedUsing, Holding, Wrappers
  <1> QED BY <1>1, <1>2, <1>3, <1>4, <1>5, <1>6, <1>7, <1>8, <1>9, <1>10 DEF Holding, Wrappers

LEMMA MeaningParts == Meaning!MakesFromParts
  <1> SUFFICES ASSUME NEW f, NEW g, NEW d, \A x \in Needed(d) : f[x] = g[x]
               PROVE  MeantUsing(f, d) = MeantUsing(g, d)
    BY DEF Meaning!MakesFromParts
  <1>0. AskedAlike(f, g, d)
    BY ContentsAreNeeded, SameOfContents
  <1>k. MeantAs(f, d) /\ MeantAs(g, d)
    BY MeantKinds
  <1>1. CASE d[1] = "map"
    <2> DEFINE values == {i \in DOMAIN d[2] : d[2][i][1] # "key"}
    <2>1. [i \in values |-> f[d[2][i][2]]] = [i \in values |-> g[d[2][i][2]]]
      BY <1>0, <1>1 DEF AskedAlike
    <2> QED BY <1>1, <2>1, <1>k DEF MeantAs
  <1>2. CASE d[1] \in {"struct", "struct_variant"}
    <2>1. [i \in DOMAIN d[3] |-> f[d[3][i][2]]] = [i \in DOMAIN d[3] |-> g[d[3][i][2]]]
      BY <1>0, <1>2 DEF AskedAlike
    <2> QED BY <1>2, <2>1, <1>k DEF MeantAs
  <1>3. CASE d[1] = "seq"
    <2>1. [i \in DOMAIN d[2] |-> f[d[2][i]]] = [i \in DOMAIN d[2] |-> g[d[2][i]]]
      BY <1>0, <1>3 DEF AskedAlike
    <2> QED BY <1>3, <2>1, <1>k DEF MeantAs
  <1>4. CASE d[1] = "tuple_variant"
    <2>1. [i \in DOMAIN d[3] |-> f[d[3][i]]] = [i \in DOMAIN d[3] |-> g[d[3][i]]]
      BY <1>0, <1>4 DEF AskedAlike
    <2> QED BY <1>4, <2>1, <1>k DEF MeantAs
  <1>5. CASE d[1] = "some"
    <2>1. f[d[2]] = g[d[2]]
      BY <1>0, <1>5 DEF AskedAlike
    <2> QED BY <1>5, <2>1, <1>k DEF MeantAs
  <1>6. CASE d[1] \in {"newtype_struct", "newtype_variant"}
    <2>1. f[d[3]] = g[d[3]]
      BY <1>0, <1>6 DEF AskedAlike
    <2> QED BY <1>6, <2>1, <1>k DEF MeantAs
  <1>7. CASE d[1] \in Wrappers
    BY <1>7, <1>k DEF MeantAs, Wrappers
  <1>8. CASE d[1] \notin Holding \cup Wrappers
    BY <1>8, <1>k DEF MeantAs
  <1> QED BY <1>1, <1>2, <1>3, <1>4, <1>5, <1>6, <1>7, <1>8 DEF Holding

LEMMA SerializingParts == Serializing!MakesFromParts
  <1> SUFFICES ASSUME NEW f, NEW g, NEW d, \A x \in Needed(d) : f[x] = g[x]
               PROVE  SerializedUsing(f, d) = SerializedUsing(g, d)
    BY DEF Serializing!MakesFromParts
  <1>0. AskedAlike(f, g, d)
    BY ContentsAreNeeded, SameOfContents
  <1>k. SerializedAs(f, d) /\ SerializedAs(g, d)
    BY SerializedKinds
  <1>1. CASE d[1] = "map"
    <2>1. \A i \in DOMAIN d[2] : f[d[2][i][2]] = g[d[2][i][2]]
      BY <1>0, <1>1 DEF AskedAlike
    <2>2. [i \in DOMAIN d[2] |-> IF d[2][i][1] = "key" THEN <<<<KeyOf(d[2][i][2])>>, <<>>>> ELSE <<<<>>, <<f[d[2][i][2]]>>>>]
          = [i \in DOMAIN d[2] |-> IF d[2][i][1] = "key" THEN <<<<KeyOf(d[2][i][2])>>, <<>>>> ELSE <<<<>>, <<g[d[2][i][2]]>>>>]
      BY <2>1
    <2> QED BY <1>1, <2>2, <1>k DEF SerializedAs
  <1>2. CASE d[1] \in {"struct", "struct_variant"}
    <2> DEFINE F == [i \in DOMAIN d[3] |-> f[d[3][i][2]]]
               G == [i \in DOMAIN d[3] |-> g[d[3][i][2]]]
    <2>1. F = G
      BY <1>0, <1>2 DEF AskedAlike
    <2>2. /\ d[1] = "struct" => SerializedUsing(f, d) = Built([i \in DOMAIN d[3] |-> <<<<Ok(StrOf(d[3][i][1]))>>, <<F[i]>>>>])
          /\ d[1] = "struct_variant" =>
               SerializedUsing(f, d) = Variant(d[2], Built([i \in DOMAIN d[3] |-> <<<<Ok(StrOf(d[3][i][1]))>>, <<F[i]>>>>]))
      BY <1>k DEF SerializedAs
    <2>3. /\ d[1] = "struct" => SerializedUsing(g, d) = Built([i \in DOMAIN d[3] |-> <<<<Ok(StrOf(d[3][i][1]))>>, <<G[i]>>>>])
          /\ d[1] = "struct_variant" =>
               SerializedUsing(g, d) = Variant(d[2], Built([i \in DOMAIN d[3] |-> <<<<Ok(StrOf(d[3][i][1]))>>, <<G[i]>>>>]))
      BY <1>k DEF SerializedAs
    <2> HIDE DEF F, G
    <2> QED BY <1>2, <2>1, <2>2, <2>3
  <1>3. CASE d[1] = "seq"
    <2>1. [i \in DOMAIN d[2] |-> f[d[2][i]]] = [i \in DOMAIN d[2] |-> g[d[2][i]]]
      BY <1>0, <1>3 DEF AskedAlike
    <2> QED BY <1>3, <2>1, <1>k DEF SerializedAs
  <1>4. CASE d[1] = "tuple_variant"
    <2>1. [i \in DOMAIN d[3] |-> f[d[3][i]]] = [i \in DOMAIN d[3] |-> g[d[3][i]]]
      BY <1>0, <1>4 DEF AskedAlike
    <2> QED BY <1>4, <2>1, <1>k DEF SerializedAs
  <1>5. CASE d[1] = "some"
    <2>1. f[d[2]] = g[d[2]]
      BY <1>0, <1>5 DEF AskedAlike
    <2> QED BY <1>5, <2>1, <1>k DEF SerializedAs
  <1>6. CASE d[1] = "newtype_variant"
    <2>1. f[d[3]] = g[d[3]]
      BY <1>0, <1>6 DEF AskedAlike
    <2> QED BY <1>6, <2>1, <1>k DEF SerializedAs
  <1>7. CASE d[1] = "newtype_struct"
    <2>1. f[d[3]] = g[d[3]]
      BY <1>0, <1>7 DEF AskedAlike
    <2>2. Contents(d[3]) \subseteq Needed(d)
      BY <1>7 DEF Needed, Wrappers
    <2>3. AskedAlike(f, g, d[3])
      BY <2>2, SameOfContents
    <2> DEFINE F == [i \in DOMAIN d[3][3] |-> f[d[3][3][i][2]]]
               G == [i \in DOMAIN d[3][3] |-> g[d[3][3][i][2]]]
    <2>4. d[3][1] = "struct" => F = G
      BY <2>3 DEF AskedAlike
    <2>5. SerializedUsing(f, d) = IF d[2] \notin {DurationName, TimestampName} THEN f[d[3]]
                                  ELSE IF d[3][1] = "struct" THEN TimeSerialized(d[2], d[3], F)
                                  ELSE TimeSerialized(d[2], d[3], <<>>)
      BY <1>7, <1>k DEF SerializedAs
    <2>6. SerializedUsing(g, d) = IF d[2] \notin {DurationName, TimestampName} THEN g[d[3]]
                                  ELSE IF d[3][1] = "struct" THEN TimeSerialized(d[2], d[3], G)
                                  ELSE TimeSerialized(d[2], d[3], <<>>)
      BY <1>7, <1>k DEF SerializedAs
    <2> HIDE DEF F, G
    <2> QED BY <2>1, <2>4, <2>5, <2>6
  <1>8. CASE d[1] \in Wrappers
    <2>1. d[1] # "newtype_struct"
      BY <1>8 DEF Wrappers
    <2>2. Unwrapped(d) \in Needed(d)
      BY <1>8, <2>1 DEF Needed
    <2>3. SerializedUsing(f, d) = f[Unwrapped(d)] /\ SerializedUsing(g, d) = g[Unwrapped(d)]
      BY <1>8, <1>k DEF SerializedAs
    <2> QED BY <2>2, <2>3
  <1>9. CASE d[1] \notin Holding \cup Wrappers
    BY <1>9, <1>k DEF SerializedAs
  <1> QED BY <1>1, <1>2, <1>3, <1>4, <1>5, <1>6, <1>7, <1>8, <1>9 DEF Holding

LEMMA DataEquations ==
  ASSUME NEW d, IsNestedData(d)
  PROVE  /\ KeyOf(d) = KeyUsing([x \in Needed(d) |-> KeyOf(x)], d)
         /\ Bare(d) = BareUsing([x \in Needed(d) |-> Bare(x)], d)
         /\ Inside(d) = InsideUsing([x \in Needed(d) |-> Inside(x)], d)
         /\ Serialized(d) = SerializedUsing([x \in Needed(d) |-> Serialized(x)], d)
         /\ Meant(d) = MeantUsing([x \in Needed(d) |-> Meant(x)], d)
  <1>1. \A x : KeyOf(x) = Keying!MadeOf(x)
    <2>1. \A x : Keying!AllPartsOf(x) = AnywhereWithin(x)
      BY AllDataInside
    <2> QED BY ONLY <2>1 DEF KeyOf, Keying!MadeOf
  <1>2. \A x : Bare(x) = Baring!MadeOf(x)
    <2>1. \A x : Baring!AllPartsOf(x) = AnywhereWithin(x)
      BY AllDataInside
    <2> QED BY ONLY <2>1 DEF Bare, Baring!MadeOf
  <1>3. \A x : Inside(x) = Opening!MadeOf(x)
    <2>1. \A x : Opening!AllPartsOf(x) = AnywhereWithin(x)
      BY AllDataInside
    <2> QED BY ONLY <2>1 DEF Inside, Opening!MadeOf
  <1>4. \A x : Serialized(x) = Serializing!MadeOf(x)
    <2>1. \A x : Serializing!AllPartsOf(x) = AnywhereWithin(x)
      BY AllDataInside
    <2> QED BY ONLY <2>1 DEF Serialized, Serializing!MadeOf
  <1>5. \A x : Meant(x) = Meaning!MadeOf(x)
    <2>1. \A x : Meaning!AllPartsOf(x) = AnywhereWithin(x)
      BY AllDataInside
    <2> QED BY ONLY <2>1 DEF Meant, Meaning!MadeOf
  <1>6. KeyOf(d) = KeyUsing([x \in Needed(d) |-> KeyOf(x)], d)
    <2>1. Keying!MadeOf(d) = KeyUsing([x \in Needed(d) |-> Keying!MadeOf(x)], d)
      BY DataNested, NestingIsNatural, KeyingParts, Keying!Unfolding
    <2>2. [x \in Needed(d) |-> Keying!MadeOf(x)] = [x \in Needed(d) |-> KeyOf(x)]
      BY <1>1
    <2> QED BY <1>1, <2>1, <2>2
  <1>7. Bare(d) = BareUsing([x \in Needed(d) |-> Bare(x)], d)
    <2>1. Baring!MadeOf(d) = BareUsing([x \in Needed(d) |-> Baring!MadeOf(x)], d)
      BY DataNested, NestingIsNatural, BaringParts, Baring!Unfolding
    <2>2. [x \in Needed(d) |-> Baring!MadeOf(x)] = [x \in Needed(d) |-> Bare(x)]
      BY <1>2
    <2> QED BY <1>2, <2>1, <2>2
  <1>8. Inside(d) = InsideUsing([x \in Needed(d) |-> Inside(x)], d)
    <2>1. Opening!MadeOf(d) = InsideUsing([x \in Needed(d) |-> Opening!MadeOf(x)], d)
      BY DataNested, NestingIsNatural, OpeningParts, Opening!Unfolding
    <2>2. [x \in Needed(d) |-> Opening!MadeOf(x)] = [x \in Needed(d) |-> Inside(x)]
      BY <1>3
    <2> QED BY <1>3, <2>1, <2>2
  <1>9. Serialized(d) = SerializedUsing([x \in Needed(d) |-> Serialized(x)], d)
    <2>1. Serializing!MadeOf(d) = SerializedUsing([x \in Needed(d) |-> Serializing!MadeOf(x)], d)
      BY DataNested, NestingIsNatural, SerializingParts, Serializing!Unfolding
    <2>2. [x \in Needed(d) |-> Serializing!MadeOf(x)] = [x \in Needed(d) |-> Serialized(x)]
      BY <1>4
    <2> QED BY <1>4, <2>1, <2>2
  <1>10. Meant(d) = MeantUsing([x \in Needed(d) |-> Meant(x)], d)
    <2>1. Meaning!MadeOf(d) = MeantUsing([x \in Needed(d) |-> Meaning!MadeOf(x)], d)
      BY DataNested, NestingIsNatural, MeaningParts, Meaning!Unfolding
    <2>2. [x \in Needed(d) |-> Meaning!MadeOf(x)] = [x \in Needed(d) |-> Meant(x)]
      BY <1>5
    <2> QED BY <1>5, <2>1, <2>2
  <1> QED BY <1>6, <1>7, <1>8, <1>9, <1>10

LEMMA InsideData ==
  ASSUME NEW d, IsNestedData(d)
  PROVE  /\ Inside(d) = {d} \cup UNION {Inside(x) : x \in Contents(d)}
         /\ \A x \in Contents(d) : IsNestedData(x)
         /\ WellMade(d) <=> IsWellMade(d) /\ \A x \in Contents(d) : WellMade(x)
         /\ Sound(d) <=> (d[1] = "map" => IsSoundMap(d[2])) /\ \A x \in Contents(d) : Sound(x)
  <1> DEFINE g == [x \in Needed(d) |-> Inside(x)]
  <1>1. Inside(d) = InsideUsing(g, d)
    BY DataEquations
  <1>2. \A x \in Contents(d) : g[x] = Inside(x)
    BY ContentsAreNeeded
  <1> HIDE DEF g
  <1>3. {g[x] : x \in Contents(d)} = {Inside(x) : x \in Contents(d)}
    BY <1>2
  <1>4. Inside(d) = {d} \cup UNION {Inside(x) : x \in Contents(d)}
    BY <1>1, <1>3 DEF InsideUsing
  <1>5. \A x \in Contents(d) : IsNestedData(x)
    BY ContentsAreNeeded, NeededIsNested
  <1>6. WellMade(d) <=> IsWellMade(d) /\ \A x \in Contents(d) : WellMade(x)
    BY <1>4 DEF WellMade
  <1>7. Sound(d) <=> (d[1] = "map" => IsSoundMap(d[2])) /\ \A x \in Contents(d) : Sound(x)
    BY <1>4 DEF Sound
  <1> QED BY <1>4, <1>5, <1>6, <1>7

LEMMA BareOfParts ==
  ASSUME NEW d, IsNestedData(d)
  PROVE  /\ d[1] = "some" => d[2] \in Contents(d) /\ Bare(d) = Bare(d[2])
         /\ d[1] = "newtype_struct" => d[3] \in Contents(d) /\ Bare(d) = Bare(d[3])
         /\ d[1] \notin {"some", "newtype_struct"} => Bare(d) = d
  <1> DEFINE g == [x \in Needed(d) |-> Bare(x)]
  <1>1. Bare(d) = BareUsing(g, d)
    BY DataEquations
  <1>2. \A x \in Contents(d) : g[x] = Bare(x)
    BY ContentsAreNeeded
  <1> HIDE DEF g
  <1>3. d[1] = "some" => d[2] \in Contents(d)
    BY DEF Contents
  <1>4. d[1] = "newtype_struct" => d[3] \in Contents(d)
    BY DEF Contents
  <1>5. d[1] \notin {"some", "newtype_struct"} => Bare(d) = d
    BY <1>1 DEF BareUsing
  <1>6. d[1] = "some" => Bare(d) = g[d[2]]
    BY <1>1 DEF BareUsing
  <1>7. d[1] = "newtype_struct" => Bare(d) = g[d[3]]
    BY <1>1 DEF BareUsing
  <1> QED BY <1>2, <1>3, <1>4, <1>5, <1>6, <1>7

LEMMA BareIsInside ==
  ASSUME NEW d, IsNestedData(d)
  PROVE  Bare(d) \in Inside(d)
  <1>1. ASSUME NEW x, IsNestedData(x), \A y \in Needed(x) : BareRight(y) PROVE BareRight(x)
    <2>1. \A y \in Contents(x) : Bare(y) \in Inside(y) /\ Inside(y) \subseteq Inside(x)
      BY <1>1, ContentsAreNeeded, InsideData DEF BareRight
    <2>2. x \in Inside(x)
      BY <1>1, InsideData
    <2> QED BY <1>1, <2>1, <2>2, BareOfParts DEF BareRight
  <1>2. \A x : Baring!IsBounded(x) /\ (\A y \in Needed(x) : BareRight(y)) => BareRight(x)
    BY <1>1, DataNested
  <1>3. Baring!IsBounded(d)
    BY DataNested
  <1> QED BY <1>2, <1>3, NestingIsNatural, Baring!HoldsOfParts DEF BareRight

\* The key made of data that is no other data in a wrapping.
LEMMA KeysOfParts ==
  ASSUME NEW d, IsNestedData(d)
  PROVE  /\ d[1] = "some" => KeyOf(d) = KeyOf(d[2])
         /\ d[1] = "newtype_struct" => KeyOf(d) = KeyOf(d[3])
         /\ d[1] \in Wrappers => KeyOf(d) = KeyOf(Unwrapped(d)) /\ IsNestedData(Unwrapped(d))
         /\ d[1] \in {"bool", "i64", "u64", "str", "unit_variant"} => KeyOf(d) = Ok(Atom(d))
         /\ d[1] \notin {"some", "newtype_struct", "bool", "i64", "u64", "str", "unit_variant"} \cup Wrappers =>
              KeyOf(d) = Err("InvalidKey")
  <1> DEFINE g == [x \in Needed(d) |-> KeyOf(x)]
  <1>1. KeyOf(d) = KeyUsing(g, d)
    BY DataEquations
  <1>2. \A x \in Needed(d) : g[x] = KeyOf(x)
    OBVIOUS
  <1> HIDE DEF g
  <1>3. d[1] = "some" => d[2] \in Needed(d)
    BY ContentsAreNeeded DEF Contents
  <1>4. d[1] = "newtype_struct" => d[3] \in Needed(d)
    BY ContentsAreNeeded DEF Contents
  <1>5. d[1] \in Wrappers => Unwrapped(d) \in Needed(d)
    BY DEF Needed, Wrappers
  <1>6. d[1] = "some" => KeyUsing(g, d) = g[d[2]]
    BY DEF KeyUsing, Wrappers
  <1>7. d[1] = "newtype_struct" => KeyUsing(g, d) = g[d[3]]
    BY DEF KeyUsing, Wrappers
  <1>8. d[1] \in Wrappers => KeyUsing(g, d) = g[Unwrapped(d)]
    BY DEF KeyUsing, Wrappers
  <1>9. d[1] \in {"bool", "i64", "u64", "str", "unit_variant"} => KeyUsing(g, d) = Ok(Atom(d))
    BY DEF KeyUsing, Wrappers
  <1>10. d[1] \notin {"some", "newtype_struct", "bool", "i64", "u64", "str", "unit_variant"} \cup Wrappers =>
           KeyUsing(g, d) = Err("InvalidKey")
    BY DEF KeyUsing, Wrappers
  <1> QED BY <1>1, <1>2, <1>3, <1>4, <1>5, <1>6, <1>7, <1>8, <1>9, <1>10, NeededIsNested

LEMMA UnwrappedShapes ==
  ASSUME NEW d
  PROVE  /\ d[1] = "duration" =>
              Unwrapped(d) = <<"newtype_struct", DurationName,
                               <<"struct", "Duration",
                                 <<<<"secs", <<"i64", Quotient(d[2], Second)>>>>,
                                   <<"nanos", <<"i64", IF HasNanos(d[2]) THEN Remainder(d[2], Second) ELSE 0>>>>>>>>>>
         /\ d[1] = "timestamp" => Unwrapped(d) = <<"newtype_struct", TimestampName, <<"str", Rfc3339(d[2])>>>>
  BY DEF Unwrapped, DurationData, TimestampData

LEMMA WrappedKeys ==
  ASSUME NEW d, IsNestedData(d), d[1] \in Wrappers
  PROVE  KeyOf(d) = IF d[1] = "timestamp" THEN Ok(StrOf(Rfc3339(d[2]))) ELSE Err("InvalidKey")
  <1> DEFINE u == Unwrapped(d)
  <1>1. KeyOf(d) = KeyOf(u) /\ IsNestedData(u)
    BY KeysOfParts
  <1>2. CASE d[1] = "timestamp"
    <2>1. u = <<"newtype_struct", TimestampName, <<"str", Rfc3339(d[2])>>>>
      BY <1>2, UnwrappedShapes
    <2>2. u[1] = "newtype_struct" /\ u[3][1] = "str" /\ u[3][2] = Rfc3339(d[2])
      BY <2>1
    <2> HIDE DEF u
    <2>3. KeyOf(u) = KeyOf(u[3]) /\ u[3] \in Contents(u)
      BY <1>1, <2>2, KeysOfParts DEF Contents
    <2>4. IsNestedData(u[3])
      BY <1>1, <2>3, InsideData
    <2>5. KeyOf(u[3]) = Ok(Atom(u[3]))
      BY <2>2, <2>4, KeysOfParts
    <2>6. Atom(u[3]) = StrOf(Rfc3339(d[2]))
      BY <2>2 DEF Atom
    <2> QED BY <1>1, <1>2, <2>3, <2>5, <2>6
  <1>3. CASE d[1] = "duration"
    <2>1. u[1] = "newtype_struct" /\ u[3][1] = "struct"
      BY <1>3, UnwrappedShapes
    <2> HIDE DEF u
    <2>2. KeyOf(u) = KeyOf(u[3]) /\ u[3] \in Contents(u)
      BY <1>1, <2>1, KeysOfParts DEF Contents
    <2>3. IsNestedData(u[3])
      BY <1>1, <2>2, InsideData
    <2>4. KeyOf(u[3]) = Err("InvalidKey")
      BY <2>1, <2>3, KeysOfParts DEF Wrappers
    <2> QED BY <1>1, <1>3, <2>2, <2>4
  <1> QED BY <1>2, <1>3 DEF Wrappers

\* Data is a key if it is one without its wrapping.
LEMMA KeysAreRight ==
  ASSUME NEW d, IsNestedData(d)
  PROVE  KeyOf(d) = IF CanBeKey(d) THEN Ok(KeyMeant(d)) ELSE Err("InvalidKey")
  <1>1. ASSUME NEW x, IsNestedData(x), \A y \in Needed(x) : KeyedRight(y) PROVE KeyedRight(x)
    <2>1. \A y \in Contents(x) : KeyOf(y) = IF CanBeKey(y) THEN Ok(KeyMeant(y)) ELSE Err("InvalidKey")
      BY <1>1, ContentsAreNeeded DEF KeyedRight
    <2>2. CASE x[1] \in {"some", "newtype_struct"}
      <3>1. PICK y \in Contents(x) : KeyOf(x) = KeyOf(y) /\ Bare(x) = Bare(y)
        BY <1>1, <2>2, KeysOfParts, BareOfParts
      <3> QED BY <2>1, <3>1 DEF KeyedRight, CanBeKey, KeyMeant
    <2>3. CASE x[1] \in Wrappers
      <3>1. Bare(x) = x
        BY <1>1, <2>3, BareOfParts DEF Wrappers
      <3>2. KeyOf(x) = IF x[1] = "timestamp" THEN Ok(StrOf(Rfc3339(x[2]))) ELSE Err("InvalidKey")
        BY <1>1, <2>3, WrappedKeys
      <3> QED BY <2>3, <3>1, <3>2 DEF KeyedRight, CanBeKey, KeyMeant, Wrappers
    <2>4. CASE x[1] \notin {"some", "newtype_struct"} \cup Wrappers
      <3>1. Bare(x) = x
        BY <1>1, <2>4, BareOfParts
      <3>2. x[1] # "timestamp"
        BY <2>4 DEF Wrappers
      <3>3. KeyOf(x) = IF x[1] \in {"bool", "i64", "u64", "str", "unit_variant"} THEN Ok(Atom(x)) ELSE Err("InvalidKey")
        BY <1>1, <2>4, KeysOfParts
      <3> QED BY <3>1, <3>2, <3>3 DEF KeyedRight, CanBeKey, KeyMeant
    <2> QED BY <2>2, <2>3, <2>4
  <1>2. \A x : Keying!IsBounded(x) /\ (\A y \in Needed(x) : KeyedRight(y)) => KeyedRight(x)
    BY <1>1, DataNested
  <1>3. Keying!IsBounded(d)
    BY DataNested
  <1> QED BY <1>2, <1>3, NestingIsNatural, Keying!HoldsOfParts DEF KeyedRight
-----------------------------------------------------------------------------
(* Maps, entry by entry. *)

BuildStep(calls, i, r) == IF Failed(r) THEN r ELSE Call(r[2], calls[i][1], calls[i][2])
FieldStep(input, i, r) == IF Failed(r) THEN r ELSE TimeField(r[2], input[1][i][1], input[2][i])

Building == INSTANCE Recursion WITH Following <- BuildStep
Timing   == INSTANCE Recursion WITH Following <- FieldStep

LEMMA BuildersStep ==
  ASSUME NEW calls, NEW n \in Nat, Len(calls) = n
  PROVE  /\ Builders(calls)[0] = Ok(NewBuilder)
         /\ \A i \in Nat : i + 1 <= n => Builders(calls)[i + 1] = BuildStep(calls, i + 1, Builders(calls)[i])
         /\ Built(calls) = LET last == Builders(calls)[n] IN IF Failed(last) THEN last ELSE Ok(MapOf(last[2].map))
  <1>1. Builders(calls) = Building!StepsFrom(calls, Ok(NewBuilder), n)
    BY DEF Builders, Building!StepsFrom, BuildStep
  <1>2. Built(calls) = LET last == Builders(calls)[n] IN IF Failed(last) THEN last ELSE Ok(MapOf(last[2].map))
    BY DEF Built
  <1>3. /\ Building!StepsFrom(calls, Ok(NewBuilder), n)[0] = Ok(NewBuilder)
        /\ \A i \in Nat : i + 1 <= n =>
             Building!StepsFrom(calls, Ok(NewBuilder), n)[i + 1]
               = BuildStep(calls, i + 1, Building!StepsFrom(calls, Ok(NewBuilder), n)[i])
    BY Building!StepByStep
  <1> QED BY <1>1, <1>2, <1>3

LEMMA LastIs ==
  ASSUME NEW S \in SUBSET Int, NEW i \in S, \A j \in S : j <= i
  PROVE  Last(S) = i
  <1>1. \E x \in S : \A j \in S : j <= x
    OBVIOUS
  <1>2. Last(S) \in S /\ \A j \in S : j <= Last(S)
    <2>1. /\ (CHOOSE x \in S : \A j \in S : j <= x) \in S
          /\ \A j \in S : j <= (CHOOSE x \in S : \A y \in S : y <= x)
      BY <1>1
    <2> QED BY <2>1 DEF Last
  <1>3. Last(S) \in Int /\ i \in Int /\ Last(S) <= i /\ i <= Last(S)
    BY <1>2
  <1> QED BY <1>3

\* The entries after so many calls, of which those in K give a key and those in V a value.
KeyTo(K, key, i) == key[Last(K \cap (1..i))][2]

EntriesTo(K, V, key, value, m) ==
  [k \in {KeyTo(K, key, i) : i \in V \cap (1..m)} |->
     value[Last({i \in V \cap (1..m) : KeyTo(K, key, i) = k})][2]]

BuilderTo(K, V, key, value, m) ==
  [map |-> EntriesTo(K, V, key, value, m),
   next_key |-> IF K \cap (1..m) = {} THEN <<>> ELSE <<KeyTo(K, key, m)>>]

\* A call that fails: its key or its value is none, or there is no key yet.
BadCall(K, V, key, value, i) ==
  \/ i \in K /\ Failed(key[i])
  \/ i \in V /\ (Failed(value[i]) \/ K \cap (1..i) = {})

LEMMA EntriesGrow ==
  ASSUME NEW K, NEW V, NEW key, NEW value, NEW m \in Nat
  PROVE  /\ EntriesTo(K, V, key, value, 0) = EmptyMap
         /\ m + 1 \notin V => EntriesTo(K, V, key, value, m + 1) = EntriesTo(K, V, key, value, m)
         /\ m + 1 \in V => EntriesTo(K, V, key, value, m + 1)
                             = With(EntriesTo(K, V, key, value, m), KeyTo(K, key, m + 1), value[m + 1][2])
  <1> DEFINE E(j) == EntriesTo(K, V, key, value, j)
             kk(i) == KeyTo(K, key, i)
             At(j, k) == {i \in V \cap (1..j) : kk(i) = k}
  <1>0. \A j : E(j) = [k \in {kk(i) : i \in V \cap (1..j)} |-> value[Last(At(j, k))][2]]
    BY DEF EntriesTo
  <1>1. E(0) = EmptyMap
    <2>1. {kk(i) : i \in V \cap (1..0)} = {}
      OBVIOUS
    <2>2. E(0) = [k \in {} |-> value[Last(At(0, k))][2]]
      BY <1>0, <2>1
    <2> QED BY <2>2 DEF EmptyMap
  <1>2. ASSUME m + 1 \notin V PROVE E(m + 1) = E(m)
    <2>1. V \cap (1..m + 1) = V \cap (1..m)
      BY <1>2
    <2> QED BY <2>1 DEF EntriesTo
  <1>3. ASSUME m + 1 \in V PROVE E(m + 1) = With(E(m), kk(m + 1), value[m + 1][2])
    <2>1. V \cap (1..m + 1) = (V \cap (1..m)) \cup {m + 1}
      BY <1>3
    <2> DEFINE D == {kk(i) : i \in V \cap (1..m)}
    <2>2. {kk(i) : i \in V \cap (1..m + 1)} = D \cup {kk(m + 1)}
      BY <2>1
    <2>3. DOMAIN E(m) = D
      BY <1>0
    <2>4. With(E(m), kk(m + 1), value[m + 1][2])
            = [x \in D \cup {kk(m + 1)} |-> IF x = kk(m + 1) THEN value[m + 1][2] ELSE E(m)[x]]
      BY <2>3 DEF With
    <2>5. Last(At(m + 1, kk(m + 1))) = m + 1
      <3>1. m + 1 \in At(m + 1, kk(m + 1)) /\ At(m + 1, kk(m + 1)) \in SUBSET Int
        BY <1>3
      <3>2. \A j \in At(m + 1, kk(m + 1)) : j <= m + 1
        OBVIOUS
      <3> HIDE DEF At
      <3> QED BY <3>1, <3>2, LastIs
    <2>6. ASSUME NEW x \in D, x # kk(m + 1) PROVE At(m + 1, x) = At(m, x)
      <3> HIDE DEF kk
      <3>1. \A i : i \in At(m + 1, x) <=> i \in At(m, x)
        BY <2>1, <2>6
      <3> QED BY <3>1
    <2>7. \A x \in D : E(m)[x] = value[Last(At(m, x))][2]
      <3>1. E(m) = [k \in D |-> value[Last(At(m, k))][2]]
        BY <1>0
      <3> HIDE DEF E, At, kk, D
      <3> QED BY <3>1
    <2>8. E(m + 1) = [x \in D \cup {kk(m + 1)} |-> value[Last(At(m + 1, x))][2]]
      BY <1>0, <2>2
    <2> HIDE DEF At, E, D, kk
    <2> QED BY <2>4, <2>5, <2>6, <2>7, <2>8
  <1> QED BY <1>1, <1>2, <1>3

LEMMA KeysGrow ==
  ASSUME NEW K, NEW key, NEW m \in Nat
  PROVE  /\ m + 1 \in K => K \cap (1..m + 1) # {} /\ KeyTo(K, key, m + 1) = key[m + 1][2]
         /\ m + 1 \notin K => K \cap (1..m + 1) = K \cap (1..m) /\ KeyTo(K, key, m + 1) = KeyTo(K, key, m)
  <1>1. ASSUME m + 1 \in K PROVE Last(K \cap (1..m + 1)) = m + 1
    <2>1. m + 1 \in K \cap (1..m + 1) /\ K \cap (1..m + 1) \in SUBSET Int
      BY <1>1
    <2>2. \A j \in K \cap (1..m + 1) : j <= m + 1
      OBVIOUS
    <2> QED BY <2>1, <2>2, LastIs
  <1>2. ASSUME m + 1 \notin K PROVE K \cap (1..m + 1) = K \cap (1..m)
    BY <1>2
  <1>3. m + 1 \in 1..m + 1
    OBVIOUS
  <1> QED BY <1>1, <1>2, <1>3 DEF KeyTo

InvalidKey == Err("InvalidKey")

LEMMA Errors ==
  /\ \A x : ~Failed(Ok(x)) /\ Ok(x)[2] = x /\ (Ok(x) # InvalidKey)
  /\ \A e : Failed(Err(e))
  /\ Failed(InvalidKey)
  BY DEF Failed, Ok, Err, InvalidKey

\* One call more.
LEMMA OneCall ==
  ASSUME NEW n \in Nat, NEW K \in SUBSET (1..n), NEW V \in SUBSET (1..n), NEW key, NEW value,
         NEW m \in Nat, m + 1 <= n,
         m + 1 \in K => key[m + 1] = Ok(key[m + 1][2]) \/ key[m + 1] = InvalidKey,
         m + 1 \in V => value[m + 1] = Ok(value[m + 1][2]) \/ value[m + 1] = InvalidKey
  PROVE  Call(BuilderTo(K, V, key, value, m),
              IF m + 1 \in K THEN <<key[m + 1]>> ELSE <<>>, IF m + 1 \in V THEN <<value[m + 1]>> ELSE <<>>)
           = IF BadCall(K, V, key, value, m + 1) THEN InvalidKey ELSE Ok(BuilderTo(K, V, key, value, m + 1))
  <1> DEFINE b     == BuilderTo(K, V, key, value, m)
             keys  == IF m + 1 \in K THEN <<key[m + 1]>> ELSE <<>>
             vals  == IF m + 1 \in V THEN <<value[m + 1]>> ELSE <<>>
             E(j)  == EntriesTo(K, V, key, value, j)
             nx(j) == IF K \cap (1..j) = {} THEN <<>> ELSE <<KeyTo(K, key, j)>>
             keyed == IF keys = <<>> THEN Ok(b) ELSE SerializeKey(b, keys[1])
             c     == [map |-> E(m), next_key |-> nx(m + 1)]
  <1>1. b = [map |-> E(m), next_key |-> nx(m)]
        /\ BuilderTo(K, V, key, value, m + 1) = [map |-> E(m + 1), next_key |-> nx(m + 1)]
    BY DEF BuilderTo
  <1>2. Call(b, keys, vals) = IF Failed(keyed) \/ vals = <<>> THEN keyed ELSE SerializeValue(keyed[2], vals[1])
    BY DEF Call
  <1>3. /\ m + 1 \in K => K \cap (1..m + 1) # {} /\ KeyTo(K, key, m + 1) = key[m + 1][2]
        /\ m + 1 \notin K => K \cap (1..m + 1) = K \cap (1..m) /\ KeyTo(K, key, m + 1) = KeyTo(K, key, m)
    BY KeysGrow
  <1>4. keys = <<>> <=> m + 1 \notin K
    OBVIOUS
  <1>5. vals = <<>> <=> m + 1 \notin V
    OBVIOUS
  <1>6. (m + 1 \in K => keys[1] = key[m + 1]) /\ (m + 1 \in V => vals[1] = value[m + 1])
    OBVIOUS
  <1> HIDE DEF keys, vals, b, E
  <1>7. keyed = IF m + 1 \in K /\ Failed(key[m + 1]) THEN InvalidKey ELSE Ok(c)
    <2>1. CASE m + 1 \notin K
      <3>1. nx(m + 1) = nx(m)
        BY <1>3, <2>1
      <3> QED BY <1>1, <1>4, <2>1, <3>1
    <2>2. CASE m + 1 \in K /\ Failed(key[m + 1])
      <3>1. key[m + 1] = InvalidKey
        BY <2>2, Errors
      <3> QED BY <1>4, <1>6, <2>2, <3>1 DEF SerializeKey
    <2>3. CASE m + 1 \in K /\ ~Failed(key[m + 1])
      <3>1. keyed = Ok([b EXCEPT !.next_key = <<key[m + 1][2]>>])
        BY <1>4, <1>6, <2>3 DEF SerializeKey
      <3>2. nx(m + 1) = <<key[m + 1][2]>>
        BY <1>3, <2>3
      <3> HIDE DEF nx
      <3>3. [b EXCEPT !.next_key = <<key[m + 1][2]>>] = c
        BY <1>1, <3>2
      <3> QED BY <2>3, <3>1, <3>3
    <2> QED BY <2>1, <2>2, <2>3
  <1> HIDE DEF keyed
  <1>8. CASE m + 1 \in K /\ Failed(key[m + 1])
    <2>1. BadCall(K, V, key, value, m + 1)
      BY <1>8 DEF BadCall
    <2> QED BY <1>2, <1>7, <1>8, <2>1, Errors DEF b, keys, vals
  <1>9. CASE ~(m + 1 \in K /\ Failed(key[m + 1])) /\ m + 1 \notin V
    <2>1. ~BadCall(K, V, key, value, m + 1)
      BY <1>9 DEF BadCall
    <2>2. E(m + 1) = E(m)
      BY <1>9, EntriesGrow DEF E
    <2>3. Call(b, keys, vals) = Ok(c)
      BY <1>2, <1>5, <1>7, <1>9
    <2> QED BY <1>1, <2>1, <2>2, <2>3 DEF b, keys, vals
  <1>10. CASE ~(m + 1 \in K /\ Failed(key[m + 1])) /\ m + 1 \in V
    <2>1. Call(b, keys, vals) = SerializeValue(c, value[m + 1])
      BY <1>2, <1>5, <1>6, <1>7, <1>10, Errors
    <2>2. c.next_key = nx(m + 1) /\ c.map = E(m)
      OBVIOUS
    <2>3. nx(m + 1) = <<>> <=> K \cap (1..m + 1) = {}
      OBVIOUS
    <2>4. CASE K \cap (1..m + 1) = {}
      <3>1. SerializeValue(c, value[m + 1]) = InvalidKey
        BY <2>2, <2>3, <2>4 DEF SerializeValue, InvalidKey
      <3>2. BadCall(K, V, key, value, m + 1)
        BY <1>10, <2>4 DEF BadCall
      <3> QED BY <2>1, <3>1, <3>2 DEF b, keys, vals
    <2>5. CASE K \cap (1..m + 1) # {} /\ Failed(value[m + 1])
      <3>1. SerializeValue(c, value[m + 1]) = value[m + 1] /\ value[m + 1] = InvalidKey
        BY <1>10, <2>2, <2>3, <2>5, Errors DEF SerializeValue
      <3>2. BadCall(K, V, key, value, m + 1)
        BY <1>10, <2>5 DEF BadCall
      <3> QED BY <2>1, <3>1, <3>2 DEF b, keys, vals
    <2>6. CASE K \cap (1..m + 1) # {} /\ ~Failed(value[m + 1])
      <3>1. c.next_key[1] = KeyTo(K, key, m + 1)
        BY <2>2, <2>6
      <3>2. SerializeValue(c, value[m + 1])
              = Ok([c EXCEPT !.map = With(c.map, KeyTo(K, key, m + 1), value[m + 1][2])])
        BY <2>2, <2>3, <2>6, <3>1 DEF SerializeValue
      <3>3. E(m + 1) = With(c.map, KeyTo(K, key, m + 1), value[m + 1][2])
        BY <1>10, <2>2, EntriesGrow DEF E
      <3> HIDE DEF nx
      <3>4. [c EXCEPT !.map = E(m + 1)] = [map |-> E(m + 1), next_key |-> nx(m + 1)]
        OBVIOUS
      <3>5. ~BadCall(K, V, key, value, m + 1)
        BY <1>10, <2>6 DEF BadCall
      <3> HIDE DEF c
      <3> QED BY <1>1, <2>1, <3>2, <3>3, <3>4, <3>5 DEF b, keys, vals, nx
    <2> QED BY <2>4, <2>5, <2>6
  <1> QED BY <1>8, <1>9, <1>10

\* Calls with keys and values at places.
AreCalls(calls, n, K, V, key, value) ==
  /\ n \in Nat /\ Len(calls) = n /\ K \in SUBSET (1..n) /\ V \in SUBSET (1..n)
  /\ \A i \in 1..n : /\ calls[i][1] = IF i \in K THEN <<key[i]>> ELSE <<>>
                     /\ calls[i][2] = IF i \in V THEN <<value[i]>> ELSE <<>>
  /\ \A i \in K : key[i] = Ok(key[i][2]) \/ key[i] = InvalidKey
  /\ \A i \in V : value[i] = Ok(value[i][2]) \/ value[i] = InvalidKey

\* A map is refused for a call that fails; otherwise it has the entries of its calls.
LEMMA BuiltEntries ==
  ASSUME NEW calls, NEW n, NEW K, NEW V, NEW key, NEW value, AreCalls(calls, n, K, V, key, value)
  PROVE  Built(calls) = IF \E i \in 1..n : BadCall(K, V, key, value, i) THEN InvalidKey
                        ELSE Ok(MapOf(EntriesTo(K, V, key, value, n)))
  <1> DEFINE bad(i) == BadCall(K, V, key, value, i)
             after(m) == IF \E i \in 1..m : bad(i) THEN InvalidKey ELSE Ok(BuilderTo(K, V, key, value, m))
             S == {m \in Nat : m <= n => Builders(calls)[m] = after(m)}
  <1> n \in Nat /\ Len(calls) = n /\ K \in SUBSET (1..n) /\ V \in SUBSET (1..n)
    BY DEF AreCalls
  <1>0. /\ \A i \in 1..n : /\ calls[i][1] = IF i \in K THEN <<key[i]>> ELSE <<>>
                           /\ calls[i][2] = IF i \in V THEN <<value[i]>> ELSE <<>>
        /\ \A i \in K : key[i] = Ok(key[i][2]) \/ key[i] = InvalidKey
        /\ \A i \in V : value[i] = Ok(value[i][2]) \/ value[i] = InvalidKey
    BY DEF AreCalls
  <1>1. 0 \in S
    <2>1. BuilderTo(K, V, key, value, 0) = NewBuilder
      BY EntriesGrow DEF BuilderTo, NewBuilder
    <2>2. after(0) = Ok(NewBuilder)
      BY <2>1
    <2> HIDE DEF after
    <2> QED BY <2>2, BuildersStep
  <1>2. ASSUME NEW m \in Nat, m \in S PROVE m + 1 \in S
    <2> SUFFICES ASSUME m + 1 <= n PROVE Builders(calls)[m + 1] = after(m + 1)
      OBVIOUS
    <2>1. Builders(calls)[m + 1] = BuildStep(calls, m + 1, after(m))
      <3> HIDE DEF after
      <3>1. Builders(calls)[m + 1] = BuildStep(calls, m + 1, Builders(calls)[m])
        BY BuildersStep
      <3> QED BY <1>2, <3>1
    <2>2. (\E i \in 1..m + 1 : bad(i)) <=> (\E i \in 1..m : bad(i)) \/ bad(m + 1)
      <3> HIDE DEF bad
      <3>1. 1..m + 1 = (1..m) \cup {m + 1}
        OBVIOUS
      <3> QED BY <3>1
    <2>3. CASE \E i \in 1..m : bad(i)
      <3>1. after(m) = InvalidKey /\ after(m + 1) = InvalidKey
        BY <2>2, <2>3
      <3> QED BY <2>1, <3>1, Errors DEF BuildStep
    <2>4. CASE ~\E i \in 1..m : bad(i)
      <3> DEFINE b == BuilderTo(K, V, key, value, m)
                 d == BuilderTo(K, V, key, value, m + 1)
      <3>1. after(m) = Ok(b) /\ after(m + 1) = IF bad(m + 1) THEN InvalidKey ELSE Ok(d)
        BY <2>2, <2>4
      <3>2. m + 1 \in 1..n
        OBVIOUS
      <3>3. BuildStep(calls, m + 1, Ok(b)) = Call(b, calls[m + 1][1], calls[m + 1][2])
        BY Errors DEF BuildStep
      <3>4. Call(b, calls[m + 1][1], calls[m + 1][2]) = IF bad(m + 1) THEN InvalidKey ELSE Ok(d)
        <4>1. Call(BuilderTo(K, V, key, value, m),
                   IF m + 1 \in K THEN <<key[m + 1]>> ELSE <<>>, IF m + 1 \in V THEN <<value[m + 1]>> ELSE <<>>)
                = IF BadCall(K, V, key, value, m + 1) THEN InvalidKey ELSE Ok(BuilderTo(K, V, key, value, m + 1))
          BY <1>0, OneCall
        <4>2. /\ calls[m + 1][1] = IF m + 1 \in K THEN <<key[m + 1]>> ELSE <<>>
              /\ calls[m + 1][2] = IF m + 1 \in V THEN <<value[m + 1]>> ELSE <<>>
          BY <1>0, <3>2
        <4> QED BY ONLY <4>1, <4>2
      <3> QED BY <2>1, <3>1, <3>3, <3>4
    <2> QED BY <2>3, <2>4
  <1>3. \A m \in Nat : m \in S => m + 1 \in S
    BY <1>2
  <1> HIDE DEF S
  <1>4. \A m \in Nat : m \in S
    BY <1>1, <1>3, Induction
  <1>5. Builders(calls)[n] = after(n)
    BY <1>4 DEF S
  <1>6. Built(calls) = IF Failed(after(n)) THEN after(n) ELSE Ok(MapOf(after(n)[2].map))
    <2> HIDE DEF after
    <2> QED BY <1>5, BuildersStep
  <1>7. BuilderTo(K, V, key, value, n).map = EntriesTo(K, V, key, value, n)
    BY DEF BuilderTo
  <1> QED BY <1>6, <1>7, Errors
-----------------------------------------------------------------------------
(* Durations and timestamps. *)

LEMMA TwoFields ==
  ASSUME NEW fields, NEW values, NEW a \in Int, NEW b \in Int, Len(fields) = 2,
         fields[1][1] = "secs", fields[2][1] = "nanos", values[1] = Ok(IntOf(a)), values[2] = Ok(IntOf(b))
  PROVE  TimeFields(fields, values) = Ok(DurationOf(a * Second + b))
  <1> DEFINE input == <<fields, values>>
             none  == [name \in {"secs", "nanos"} |-> 0]
             After == Timing!StepsFrom(input, Ok(none), 2)
  <1>1. input[1] = fields /\ input[2] = values
    OBVIOUS
  <1>2. TimeFields(fields, values)
          = IF Failed(After[2]) THEN After[2] ELSE Ok(DurationOf(After[2][2]["secs"] * Second + After[2][2]["nanos"]))
    BY <1>1 DEF TimeFields, Timing!StepsFrom, FieldStep
  <1>3. After[0] = Ok(none) /\ \A i \in Nat : i + 1 <= 2 => After[i + 1] = FieldStep(input, i + 1, After[i])
    <2> HIDE DEF input, none
    <2> QED BY Timing!StepByStep
  <1>4. After[1] = FieldStep(input, 1, After[0]) /\ After[2] = FieldStep(input, 2, After[1])
    <2> HIDE DEF After
    <2>1. 0 + 1 = 1 /\ 1 + 1 = 2 /\ 0 \in Nat /\ 1 \in Nat /\ 1 <= 2 /\ 2 <= 2
      OBVIOUS
    <2> QED BY <1>3, <2>1
  <1> HIDE DEF After, input
  <1>5. \A n \in Int : ~Failed(Ok(IntOf(n))) /\ Ok(IntOf(n))[2] = IntOf(n) /\ TypeOf(IntOf(n)) = "int" /\ IntOf(n)[2] = n
    BY DEF Failed, Ok, TypeOf, IntOf
  <1> DEFINE one == [none EXCEPT !["secs"] = a]
             two == [one EXCEPT !["nanos"] = b]
  <1>6. DOMAIN none = {"secs", "nanos"} /\ DOMAIN one = {"secs", "nanos"} /\ two["secs"] = a /\ two["nanos"] = b
    OBVIOUS
  <1> HIDE DEF none
  <1>7. After[1] = Ok(one)
    <2>1. After[1] = TimeField(none, "secs", Ok(IntOf(a)))
      BY <1>1, <1>3, <1>4, Errors DEF FieldStep
    <2> QED BY <1>5, <1>6, <2>1 DEF TimeField
  <1> HIDE DEF one
  <1>8. After[2] = Ok(two)
    <2>1. After[2] = TimeField(one, "nanos", Ok(IntOf(b)))
      BY <1>1, <1>4, <1>7, Errors DEF FieldStep
    <2> QED BY <1>5, <1>6, <2>1 DEF TimeField
  <1> HIDE DEF two
  <1> QED BY <1>2, <1>6, <1>8, Errors

LEMMA QuotientsAreInts ==
  ASSUME NEW n \in Int
  PROVE  /\ Quotient(n, Second) \in Int /\ Remainder(n, Second) \in Int
         /\ Quotient(n, Second) * Second + Remainder(n, Second) = n
         /\ Quotient(n, Second) * Second + 0 = n - Remainder(n, Second)
  <1> DEFINE size == IF n < 0 THEN -n ELSE n
             q == size \div Second
  <1>1. Second \in Nat /\ Second > 0 /\ size \in Nat
    BY TimeAssumption
  <1>2. q \in Int
    BY <1>1
  <1>3. Quotient(n, Second) = IF (n < 0) = FALSE THEN q ELSE -q
    <2>1. ~(Second < 0)
      BY <1>1
    <2> QED BY <2>1 DEF Quotient
  <1> HIDE DEF q
  <1>4. Quotient(n, Second) \in Int
    BY <1>2, <1>3
  <1>5. Remainder(n, Second) = n - Second * Quotient(n, Second)
    BY DEF Remainder
  <1> QED BY <1>1, <1>4, <1>5

\* What data is serialized as and means, of its contents.
LEMMA DataOfContents ==
  ASSUME NEW d, IsNestedData(d)
  PROVE  /\ \E g : SerializedAs(g, d) /\ Serialized(d) = SerializedUsing(g, d) /\ \A x \in Needed(d) : g[x] = Serialized(x)
         /\ \E h : MeantAs(h, d) /\ Meant(d) = MeantUsing(h, d) /\ \A x \in Contents(d) : h[x] = Meant(x)
  <1> DEFINE g == [x \in Needed(d) |-> Serialized(x)]
             h == [x \in Needed(d) |-> Meant(x)]
  <1>1. Serialized(d) = SerializedUsing(g, d) /\ Meant(d) = MeantUsing(h, d)
    BY DataEquations
  <1>2. (\A x \in Needed(d) : g[x] = Serialized(x)) /\ (\A x \in Contents(d) : h[x] = Meant(x))
    BY ContentsAreNeeded
  <1> HIDE DEF g, h
  <1>3. SerializedAs(g, d) /\ MeantAs(h, d)
    BY SerializedKinds, MeantKinds
  <1> QED BY <1>1, <1>2, <1>3

\* The marked struct of a duration and the marked text of a timestamp are read back.
LEMMA DurationsSerialized ==
  ASSUME NEW d, IsNestedData(d), d[1] = "duration", d[2] \in Int
  PROVE  Serialized(d) = Ok(DurationOf(IF HasNanos(d[2]) THEN d[2] ELSE d[2] - Remainder(d[2], Second)))
  <1> DEFINE u      == Unwrapped(d)
             secs   == <<"i64", Quotient(d[2], Second)>>
             nanos  == <<"i64", IF HasNanos(d[2]) THEN Remainder(d[2], Second) ELSE 0>>
             fields == <<<<"secs", secs>>, <<"nanos", nanos>>>>
             inner  == <<"struct", "Duration", fields>>
  <1>1. u = <<"newtype_struct", DurationName, inner>>
    BY UnwrappedShapes
  <1>2. u[1] = "newtype_struct" /\ u[2] = DurationName /\ u[3] = inner
    BY <1>1
  <1>3. inner[1] = "struct" /\ inner[2] = "Duration" /\ inner[3] = fields
    OBVIOUS
  <1>4. Len(fields) = 2 /\ DOMAIN fields = 1..2 /\ fields[1][1] = "secs" /\ fields[2][1] = "nanos"
        /\ fields[1][2] = secs /\ fields[2][2] = nanos
    OBVIOUS
  <1>5. secs[1] = "i64" /\ nanos[1] = "i64" /\ secs[2] = Quotient(d[2], Second)
        /\ nanos[2] = IF HasNanos(d[2]) THEN Remainder(d[2], Second) ELSE 0
    OBVIOUS
  <1> HIDE DEF u, secs, nanos, fields, inner
  <1>6. Serialized(d) = Serialized(u) /\ IsNestedData(u)
    <2>1. PICK g : SerializedAs(g, d) /\ Serialized(d) = SerializedUsing(g, d) /\ \A x \in Needed(d) : g[x] = Serialized(x)
      BY DataOfContents
    <2>2. u \in Needed(d)
      BY DEF Needed, Wrappers, u
    <2>3. SerializedUsing(g, d) = g[u]
      BY <2>1 DEF SerializedAs, Wrappers, u
    <2> QED BY <2>1, <2>2, <2>3, NeededIsNested
  <1>7. PICK g : SerializedAs(g, u) /\ Serialized(u) = SerializedUsing(g, u) /\ \A x \in Needed(u) : g[x] = Serialized(x)
    BY <1>6, DataOfContents
  <1> DEFINE values == [i \in DOMAIN inner[3] |-> g[inner[3][i][2]]]
  <1>8. Serialized(u) = TimeSerialized(DurationName, inner, values)
    BY <1>2, <1>3, <1>7 DEF SerializedAs
  <1>9. secs \in Needed(u) /\ nanos \in Needed(u)
    <2>1. secs \in Contents(inner) /\ nanos \in Contents(inner)
      <3>1. Contents(inner) = {fields[i][2] : i \in DOMAIN fields}
        BY <1>3 DEF Contents
      <3>2. 1 \in DOMAIN fields /\ 2 \in DOMAIN fields
        BY <1>4
      <3> QED BY <1>4, <3>1, <3>2
    <2>2. Contents(u[3]) \subseteq Needed(u)
      BY <1>2 DEF Needed, Wrappers
    <2> QED BY <1>2, <2>1, <2>2
  <1>10. ASSUME NEW x \in Needed(u), x[1] = "i64" PROVE g[x] = Ok(IntOf(x[2]))
    <2>1. IsNestedData(x)
      BY <1>6, NeededIsNested
    <2>2. PICK h : SerializedAs(h, x) /\ Serialized(x) = SerializedUsing(h, x)
      BY <2>1, DataOfContents
    <2>3. Serialized(x) = Ok(Atom(x))
      BY <1>10, <2>2 DEF SerializedAs, Holding, Wrappers
    <2> QED BY <1>7, <1>10, <2>3 DEF Atom
  <1>11. values[1] = Ok(IntOf(secs[2])) /\ values[2] = Ok(IntOf(nanos[2]))
    BY <1>3, <1>4, <1>5, <1>9, <1>10
  <1> HIDE DEF values
  <1>12. TimeSerialized(DurationName, inner, values) = TimeFields(fields, values)
    BY <1>3, <1>4 DEF TimeSerialized
  <1>13. secs[2] \in Int /\ nanos[2] \in Int
    BY <1>5, QuotientsAreInts
  <1>14. TimeFields(fields, values) = Ok(DurationOf(secs[2] * Second + nanos[2]))
    BY <1>4, <1>11, <1>13, TwoFields
  <1>15. secs[2] * Second + nanos[2] = IF HasNanos(d[2]) THEN d[2] ELSE d[2] - Remainder(d[2], Second)
    BY <1>5, QuotientsAreInts
  <1> QED BY <1>6, <1>8, <1>12, <1>14, <1>15

LEMMA TimestampsSerialized ==
  ASSUME NEW d, IsNestedData(d), d[1] = "timestamp", d[2] \in Timestamps
  PROVE  Serialized(d) = Ok(TimestampOf(d[2]))
  <1> DEFINE u    == Unwrapped(d)
             text == <<"str", Rfc3339(d[2])>>
  <1>1. u = <<"newtype_struct", TimestampName, text>>
    BY UnwrappedShapes
  <1>2. u[1] = "newtype_struct" /\ u[2] = TimestampName /\ u[3] = text
    BY <1>1
  <1>3. text[1] = "str" /\ text[2] = Rfc3339(d[2])
    OBVIOUS
  <1> HIDE DEF u, text
  <1>4. Serialized(d) = Serialized(u) /\ IsNestedData(u)
    <2>1. PICK g : SerializedAs(g, d) /\ Serialized(d) = SerializedUsing(g, d) /\ \A x \in Needed(d) : g[x] = Serialized(x)
      BY DataOfContents
    <2>2. u \in Needed(d)
      BY DEF Needed, Wrappers, u
    <2>3. SerializedUsing(g, d) = g[u]
      BY <2>1 DEF SerializedAs, Wrappers, u
    <2> QED BY <2>1, <2>2, <2>3, NeededIsNested
  <1>5. Serialized(u) = TimeSerialized(TimestampName, text, <<>>)
    <2>1. PICK g : SerializedAs(g, u) /\ Serialized(u) = SerializedUsing(g, u)
      BY <1>4, DataOfContents
    <2> QED BY <1>2, <1>3, <2>1 DEF SerializedAs
  <1>6. (CHOOSE t \in Timestamps : Rfc3339(t) = text[2]) = d[2]
    <2>1. \A t \in Timestamps : Rfc3339(t) = text[2] => t = d[2]
      BY <1>3, TextsAssumption
    <2> QED BY <1>3, <2>1
  <1>7. TimeSerialized(TimestampName, text, <<>>) = Ok(TimestampOf(CHOOSE t \in Timestamps : Rfc3339(t) = text[2]))
    BY <1>3 DEF TimeSerialized
  <1> QED BY <1>4, <1>5, <1>6, <1>7
-----------------------------------------------------------------------------
(* What data is serialized as. *)

\* What is serialized right is serialized as something or refused.
Result(sound, v) == IF sound THEN Ok(v) ELSE InvalidKey

LEMMA Results ==
  ASSUME NEW sound \in BOOLEAN, NEW v
  PROVE  /\ Failed(Result(sound, v)) <=> ~sound
         /\ Result(sound, v) = Ok(Result(sound, v)[2]) \/ Result(sound, v) = InvalidKey
         /\ sound => Result(sound, v)[2] = v
         /\ ~sound => Result(sound, v) = InvalidKey
  BY Errors DEF Result

AreResults(n, r, sound, m) ==
  n \in Nat /\ sound \in [1..n -> BOOLEAN] /\ \A i \in 1..n : r[i] = Result(sound[i], m[i])

AllSound(n, sound) == \A i \in 1..n : sound[i]
Items(n, m)        == [i \in 1..n |-> m[i]]

LEMMA ListedResults ==
  ASSUME NEW n, NEW r, DOMAIN r = 1..n, NEW sound, NEW m, AreResults(n, r, sound, m)
  PROVE  InList(Together(r)) = Result(AllSound(n, sound), ListOf(Items(n, m)))
  <1> n \in Nat /\ sound \in [1..n -> BOOLEAN] /\ \A i \in 1..n : r[i] = Result(sound[i], m[i])
    BY DEF AreResults
  <1>1. \A i \in 1..n : /\ Failed(r[i]) <=> ~sound[i]
                        /\ sound[i] => r[i][2] = m[i]
                        /\ ~sound[i] => r[i] = InvalidKey
    BY Results
  <1>2. CASE \A i \in 1..n : sound[i]
    <2>1. Together(r) = Ok([i \in 1..n |-> r[i][2]])
      BY <1>1, <1>2, TogetherResults
    <2>2. [i \in 1..n |-> r[i][2]] = [i \in 1..n |-> m[i]]
      BY <1>1, <1>2
    <2> QED BY <1>2, <2>1, <2>2, Errors DEF InList, Result, AllSound, Items
  <1>3. CASE ~\A i \in 1..n : sound[i]
    <2>1. \E i \in 1..n : Failed(r[i])
      BY <1>1, <1>3
    <2>2. PICK i \in 1..n : Failed(r[i]) /\ Together(r) = r[i]
      BY <2>1, TogetherResults
    <2>3. Together(r) = InvalidKey
      BY <1>1, <2>2
    <2> QED BY <1>3, <2>3, Errors DEF InList, Result, AllSound
  <1> QED BY <1>2, <1>3

LEMMA NamedResults ==
  ASSUME NEW sound \in BOOLEAN, NEW v, NEW name
  PROVE  Variant(name, Result(sound, v)) = Result(sound, MapOf([k \in {StrOf(name)} |-> v]))
  <1>1. With(EmptyMap, StrOf(name), v) = [k \in {StrOf(name)} |-> v]
    BY DEF With, EmptyMap
  <1> QED BY <1>1, Errors DEF Variant, Result

\* Entries by calls are entries at places.
LEMMA EntriesAreEntered ==
  ASSUME NEW n \in Nat, NEW K, NEW V \in SUBSET (1..n), NEW key, NEW value, NEW at, NEW of, DOMAIN at = V,
         \A i \in V : at[i] = KeyTo(K, key, i) /\ of[i] = value[i][2]
  PROVE  MapOf(EntriesTo(K, V, key, value, n)) = Entered(at, of)
  <1> DEFINE kk(i) == KeyTo(K, key, i)
             U(k) == {i \in V : at[i] = k}
  <1>1. V \cap (1..n) = V
    OBVIOUS
  <1>2. EntriesTo(K, V, key, value, n) = [k \in {kk(i) : i \in V} |-> value[Last({i \in V : kk(i) = k})][2]]
    BY <1>1 DEF EntriesTo
  <1>3. Entered(at, of) = MapOf([k \in {at[i] : i \in V} |-> of[Last(U(k))]])
    BY DEF Entered
  <1> HIDE DEF kk
  <1>4. \A i \in V : at[i] = kk(i)
    BY DEF kk
  <1>5. {kk(i) : i \in V} = {at[i] : i \in V}
    BY <1>4
  <1>6. \A k : {i \in V : kk(i) = k} = U(k)
    BY <1>4
  <1>7. ASSUME NEW k \in {at[i] : i \in V} PROVE value[Last(U(k))][2] = of[Last(U(k))]
    <2>1. U(k) # {} /\ U(k) \in SUBSET (1..n)
      BY <1>7
    <2>2. PICK i \in U(k) : \A j \in U(k) : j <= i
      BY <2>1, LastPosition
    <2>3. U(k) \in SUBSET Int
      BY <2>1
    <2>4. Last(U(k)) = i
      BY <2>2, <2>3, LastIs
    <2> QED BY <2>2, <2>4
  <1>8. [k \in {kk(i) : i \in V} |-> value[Last({i \in V : kk(i) = k})][2]] = [k \in {at[i] : i \in V} |-> of[Last(U(k))]]
    BY <1>5, <1>6, <1>7
  <1> QED BY <1>2, <1>3, <1>8

LEMMA Lengths ==
  ASSUME NEW n \in Nat, NEW s, s = [i \in 1..n |-> s[i]]
  PROVE  Len(s) = n
  <1>1. s \in [1..n -> {s[i] : i \in 1..n}]
    BY Zenon
  <1>2. s \in Seq({s[i] : i \in 1..n})
    BY <1>1, SeqDef
  <1>3. Len(s) \in Nat /\ DOMAIN s = 1..Len(s)
    BY <1>2, LenProperties
  <1>4. DOMAIN s = 1..n
    BY <1>1
  <1> QED BY <1>3, <1>4

FieldCalls(fields, r) == [i \in DOMAIN fields |-> <<<<Ok(StrOf(fields[i][1]))>>, <<r[i]>>>>]

FieldsEntered(fields, m) ==
  Entered([i \in DOMAIN fields |-> StrOf(fields[i][1])], [i \in DOMAIN fields |-> m[i]])

\* A struct is a map of its fields.
LEMMA FieldResults ==
  ASSUME NEW n, NEW fields, DOMAIN fields = 1..n, NEW r, NEW sound, NEW m, AreResults(n, r, sound, m)
  PROVE  Built(FieldCalls(fields, r)) = Result(AllSound(n, sound), FieldsEntered(fields, m))
  <1> DEFINE calls == [i \in DOMAIN fields |-> <<<<Ok(StrOf(fields[i][1]))>>, <<r[i]>>>>]
             P     == 1..n
             key   == [i \in P |-> Ok(StrOf(fields[i][1]))]
             at    == [i \in DOMAIN fields |-> StrOf(fields[i][1])]
             of    == [i \in DOMAIN fields |-> m[i]]
  <1> n \in Nat /\ sound \in [1..n -> BOOLEAN] /\ \A i \in 1..n : r[i] = Result(sound[i], m[i])
    BY DEF AreResults
  <1>1. Len(calls) = n
    BY Lengths
  <1>2. \A i \in 1..n : /\ calls[i][1] = IF i \in P THEN <<key[i]>> ELSE <<>>
                        /\ calls[i][2] = IF i \in P THEN <<r[i]>> ELSE <<>>
    OBVIOUS
  <1>3. \A i \in P : key[i] = Ok(key[i][2]) /\ key[i][2] = at[i] /\ ~Failed(key[i])
    BY Errors
  <1>4. \A i \in P : /\ Failed(r[i]) <=> ~sound[i]
                     /\ r[i] = Ok(r[i][2]) \/ r[i] = InvalidKey
                     /\ sound[i] => r[i][2] = m[i]
    BY Results
  <1>5. DOMAIN at = P /\ \A i \in P : of[i] = m[i]
    OBVIOUS
  <1>6. ASSUME NEW i \in P PROVE P \cap (1..i) # {} /\ KeyTo(P, key, i) = at[i]
    <2>1. i \in P \cap (1..i) /\ P \cap (1..i) \in SUBSET Int /\ \A j \in P \cap (1..i) : j <= i
      OBVIOUS
    <2>2. Last(P \cap (1..i)) = i
      BY <2>1, LastIs
    <2> QED BY <1>3, <2>1, <2>2 DEF KeyTo
  <1> HIDE DEF calls, key, at, of
  <1>7. Built(calls) = IF \E i \in 1..n : BadCall(P, P, key, r, i) THEN InvalidKey
                       ELSE Ok(MapOf(EntriesTo(P, P, key, r, n)))
    <2>1. AreCalls(calls, n, P, P, key, r)
      BY <1>1, <1>2, <1>3, <1>4 DEF AreCalls
    <2> HIDE DEF P
    <2> QED BY <2>1, BuiltEntries
  <1>8. \A i \in 1..n : BadCall(P, P, key, r, i) <=> ~sound[i]
    BY <1>3, <1>4, <1>6 DEF BadCall
  <1>9. ASSUME \A i \in 1..n : sound[i] PROVE MapOf(EntriesTo(P, P, key, r, n)) = Entered(at, of)
    <2>1. \A i \in P : at[i] = KeyTo(P, key, i) /\ of[i] = r[i][2]
      BY <1>4, <1>5, <1>6, <1>9
    <2>2. P \in SUBSET (1..n)
      OBVIOUS
    <2> QED BY <1>5, <2>1, <2>2, EntriesAreEntered
  <1> QED BY <1>7, <1>8, <1>9 DEF Result, AllSound, FieldCalls, FieldsEntered, calls, at, of

\* What can be a key has no map in it.
LEMMA KeysAreSound ==
  ASSUME NEW d, IsNestedData(d), CanBeKey(d)
  PROVE  Sound(d)
  <1>1. ASSUME NEW x, IsNestedData(x), \A y \in Needed(x) : KeySound(y), CanBeKey(x) PROVE Sound(x)
    <2>1. CASE x[1] \in {"some", "newtype_struct"}
      <3>1. PICK y \in Contents(x) : Contents(x) = {y} /\ Bare(x) = Bare(y)
        BY <1>1, <2>1, BareOfParts DEF Contents
      <3>2. Sound(y)
        BY <1>1, <3>1, ContentsAreNeeded DEF KeySound, CanBeKey
      <3> QED BY <1>1, <2>1, <3>1, <3>2, InsideData
    <2>2. CASE x[1] \notin {"some", "newtype_struct"}
      <3>1. Bare(x) = x
        BY <1>1, <2>2, BareOfParts
      <3>2. Contents(x) = {} /\ x[1] # "map"
        BY <1>1, <3>1 DEF CanBeKey, Contents
      <3> QED BY <1>1, <3>2, InsideData
    <2> QED BY <2>1, <2>2
  <1>2. \A x : Opening!IsBounded(x) /\ (\A y \in Needed(x) : KeySound(y)) => KeySound(x)
    BY <1>1, DataNested DEF KeySound
  <1>3. Opening!IsBounded(d)
    BY DataNested
  <1>4. KeySound(d)
    BY <1>2, <1>3, NestingIsNatural, Opening!HoldsOfParts
  <1> QED BY <1>4 DEF KeySound

LEMMA SequenceDomain ==
  ASSUME NEW s, IsSequence(s)
  PROVE  Len(s) \in Nat /\ DOMAIN s = 1..Len(s)
  <1> DEFINE S == {s[i] : i \in DOMAIN s}
  <1>1. s \in Seq(S)
    BY DEF IsSequence
  <1> HIDE DEF S
  <1> QED BY <1>1, LenProperties

\* Items and fields that are serialized right, together.
ItemsRight(items, g, h) ==
  InList(Together([i \in DOMAIN items |-> g[items[i]]]))
    = Result(\A i \in DOMAIN items : Sound(items[i]), ListOf([i \in DOMAIN items |-> h[items[i]]]))

LEMMA ItemsSerialized ==
  ASSUME NEW items, IsSequence(items), NEW g, NEW h,
         \A i \in DOMAIN items : g[items[i]] = Result(Sound(items[i]), h[items[i]])
  PROVE  ItemsRight(items, g, h)
  <1> DEFINE n  == Len(items)
             r  == [i \in 1..n |-> g[items[i]]]
             ss == [i \in 1..n |-> Sound(items[i])]
             mm == [i \in 1..n |-> h[items[i]]]
  <1>1. n \in Nat /\ DOMAIN items = 1..n
    BY SequenceDomain
  <1> HIDE DEF n
  <1>0. \A x : Sound(x) \in BOOLEAN
    BY DEF Sound
  <1>2. DOMAIN r = 1..n /\ AreResults(n, r, ss, mm) /\ \A i \in 1..n : ss[i] = Sound(items[i])
    <2>1. ss \in [1..n -> BOOLEAN] /\ \A i \in 1..n : ss[i] = Sound(items[i])
      BY <1>0, Zenon
    <2> HIDE DEF ss
    <2>2. \A i \in 1..n : r[i] = g[items[i]] /\ mm[i] = h[items[i]]
      OBVIOUS
    <2>3. DOMAIN r = 1..n
      OBVIOUS
    <2> HIDE DEF r, mm
    <2>4. \A i \in 1..n : r[i] = Result(ss[i], mm[i])
      BY <1>1, <2>1, <2>2 DEF Result
    <2> QED BY <1>1, <2>1, <2>3, <2>4 DEF AreResults
  <1>3. [i \in 1..n |-> mm[i]] = mm /\ r = [i \in DOMAIN items |-> g[items[i]]] /\ mm = [i \in DOMAIN items |-> h[items[i]]]
    BY <1>1
  <1> HIDE DEF r, ss, mm
  <1>4. InList(Together(r)) = Result(AllSound(n, ss), ListOf(Items(n, mm)))
    BY <1>2, ListedResults
  <1>5. AllSound(n, ss) <=> (\A i \in DOMAIN items : Sound(items[i]))
    BY <1>1, <1>2 DEF AllSound
  <1>6. Items(n, mm) = [i \in DOMAIN items |-> h[items[i]]]
    BY <1>3 DEF Items
  <1> QED BY <1>3, <1>4, <1>5, <1>6 DEF Result, ItemsRight

FieldsRight(fields, g, h) ==
  LET values == [i \in DOMAIN fields |-> g[fields[i][2]]]
  IN Built([i \in DOMAIN fields |-> <<<<Ok(StrOf(fields[i][1]))>>, <<values[i]>>>>])
    = Result(\A i \in DOMAIN fields : Sound(fields[i][2]),
             Entered([i \in DOMAIN fields |-> StrOf(fields[i][1])], [i \in DOMAIN fields |-> h[fields[i][2]]]))

LEMMA FieldsSerialized ==
  ASSUME NEW fields, IsSequence(fields), NEW g, NEW h,
         \A i \in DOMAIN fields : g[fields[i][2]] = Result(Sound(fields[i][2]), h[fields[i][2]])
  PROVE  FieldsRight(fields, g, h)
  <1> DEFINE n  == Len(fields)
             r  == [i \in DOMAIN fields |-> g[fields[i][2]]]
             ss == [i \in 1..n |-> Sound(fields[i][2])]
             mm == [i \in DOMAIN fields |-> h[fields[i][2]]]
  <1>1. n \in Nat /\ DOMAIN fields = 1..n
    BY SequenceDomain
  <1> HIDE DEF n
  <1>0. \A x : Sound(x) \in BOOLEAN
    BY DEF Sound
  <1>2. AreResults(n, r, ss, mm) /\ \A i \in 1..n : ss[i] = Sound(fields[i][2])
    <2>1. ss \in [1..n -> BOOLEAN] /\ \A i \in 1..n : ss[i] = Sound(fields[i][2])
      BY <1>0, Zenon
    <2> HIDE DEF ss
    <2>2. \A i \in 1..n : r[i] = g[fields[i][2]] /\ mm[i] = h[fields[i][2]]
      BY <1>1
    <2> HIDE DEF r, mm
    <2>4. \A i \in 1..n : r[i] = Result(ss[i], mm[i])
      BY <1>1, <2>1, <2>2 DEF Result
    <2> QED BY <1>1, <2>1, <2>4 DEF AreResults
  <1>3. [i \in DOMAIN fields |-> mm[i]] = mm
    OBVIOUS
  <1> HIDE DEF r, ss, mm
  <1>4. Built(FieldCalls(fields, r)) = Result(AllSound(n, ss), FieldsEntered(fields, mm))
    BY <1>1, <1>2, FieldResults
  <1>5. AllSound(n, ss) <=> (\A i \in DOMAIN fields : Sound(fields[i][2]))
    BY <1>1, <1>2 DEF AllSound
  <1>6. FieldsEntered(fields, mm) = Entered([i \in DOMAIN fields |-> StrOf(fields[i][1])], mm)
    BY <1>3 DEF FieldsEntered
  <1>7. FieldCalls(fields, r) = [i \in DOMAIN fields |-> <<<<Ok(StrOf(fields[i][1]))>>, <<r[i]>>>>]
    BY DEF FieldCalls
  <1> QED BY <1>4, <1>5, <1>6, <1>7 DEF Result, r, mm, FieldsRight

\* A map has the values of its calls, each under the last key before it.
CallsRight(calls, g, h) ==
  LET values == {i \in DOMAIN calls : calls[i][1] # "key"}
  IN Built([i \in DOMAIN calls |-> IF calls[i][1] = "key" THEN <<<<KeyOf(calls[i][2])>>, <<>>>>
                                   ELSE <<<<>>, <<g[calls[i][2]]>>>>])
       = Result(IsSoundMap(calls) /\ \A i \in DOMAIN calls : Sound(calls[i][2]),
                Entered([i \in values |-> KeyMeant(calls[Last(KeyPlaces(calls, i))][2])],
                        [i \in values |-> h[calls[i][2]]]))

LEMMA CallsSerialized ==
  ASSUME NEW calls, IsSequence(calls), NEW g, NEW h,
         \A i \in DOMAIN calls : g[calls[i][2]] = Result(Sound(calls[i][2]), h[calls[i][2]]),
         \A i \in DOMAIN calls : IsNestedData(calls[i][2])
  PROVE  CallsRight(calls, g, h)
  <1> DEFINE n      == Len(calls)
             r      == [i \in 1..n |-> g[calls[i][2]]]
             values == {i \in DOMAIN calls : calls[i][1] # "key"}
             made   == [i \in DOMAIN calls |-> IF calls[i][1] = "key" THEN <<<<KeyOf(calls[i][2])>>, <<>>>>
                                               ELSE <<<<>>, <<g[calls[i][2]]>>>>]
             K      == {i \in 1..n : calls[i][1] = "key"}
             V      == {i \in 1..n : calls[i][1] # "key"}
             key    == [i \in K |-> KeyOf(calls[i][2])]
             at     == [i \in values |-> KeyMeant(calls[Last(KeyPlaces(calls, i))][2])]
             of     == [i \in values |-> h[calls[i][2]]]
             sounds == \A i \in V : Sound(calls[i][2])
             whole  == MapOf(EntriesTo(K, V, key, r, n))
  <1>0. n \in Nat /\ DOMAIN calls = 1..n
    BY SequenceDomain
  <1> HIDE DEF n
  <1>1. values = V /\ K \in SUBSET (1..n) /\ V \in SUBSET (1..n)
    BY <1>0
  <1>2. Len(made) = n
    BY <1>0, Lengths
  <1>3. \A i \in 1..n : /\ made[i][1] = IF i \in K THEN <<key[i]>> ELSE <<>>
                        /\ made[i][2] = IF i \in V THEN <<r[i]>> ELSE <<>>
    BY <1>0
  <1>4. \A i \in K : /\ key[i] = IF CanBeKey(calls[i][2]) THEN Ok(KeyMeant(calls[i][2])) ELSE InvalidKey
                     /\ Failed(key[i]) <=> ~CanBeKey(calls[i][2])
                     /\ CanBeKey(calls[i][2]) => key[i][2] = KeyMeant(calls[i][2])
                     /\ key[i] = Ok(key[i][2]) \/ key[i] = InvalidKey
    BY <1>0, KeysAreRight, Errors DEF InvalidKey
  <1>5. \A i \in V : /\ Failed(r[i]) <=> ~Sound(calls[i][2])
                     /\ r[i] = Ok(r[i][2]) \/ r[i] = InvalidKey
                     /\ Sound(calls[i][2]) => r[i][2] = h[calls[i][2]]
    <2>1. \A x : Sound(x) \in BOOLEAN
      BY DEF Sound
    <2>2. \A i \in V : r[i] = Result(Sound(calls[i][2]), h[calls[i][2]])
      BY <1>0
    <2> HIDE DEF r, V
    <2> QED BY <2>1, <2>2, Errors DEF Result
  <1>6. \A i \in 1..n : KeyPlaces(calls, i) = K \cap (1..i)
    BY <1>0 DEF KeyPlaces
  <1>7. IsSoundMap(calls) <=> (\A i \in K : CanBeKey(calls[i][2])) /\ \A i \in V : K \cap (1..i) # {}
    BY <1>0, <1>6 DEF IsSoundMap
  <1>8. \A i \in V : at[i] = KeyMeant(calls[Last(K \cap (1..i))][2]) /\ of[i] = h[calls[i][2]]
    BY <1>1, <1>6
  <1>9. DOMAIN at = V
    BY <1>1
  <1> HIDE DEF made, key, at, of, K, V, r
  <1>10. AreCalls(made, n, K, V, key, r)
    BY <1>0, <1>1, <1>2, <1>3, <1>4, <1>5 DEF AreCalls
  <1>11. Built(made) = IF \E i \in 1..n : BadCall(K, V, key, r, i) THEN InvalidKey ELSE Ok(whole)
    BY <1>10, BuiltEntries
  <1>12. (\E i \in 1..n : BadCall(K, V, key, r, i)) <=> ~(IsSoundMap(calls) /\ sounds)
    BY <1>1, <1>4, <1>5, <1>7 DEF BadCall
  <1>13. ASSUME IsSoundMap(calls), sounds PROVE whole = Entered(at, of)
    <2>1. ASSUME NEW i \in V PROVE at[i] = KeyTo(K, key, i)
      <3>1. K \cap (1..i) # {} /\ K \cap (1..i) \in SUBSET (1..n) /\ K \cap (1..i) \in SUBSET Int
        BY <1>1, <1>7, <1>13
      <3>2. PICK j \in K \cap (1..i) : \A k \in K \cap (1..i) : k <= j
        BY <1>0, <3>1, LastPosition
      <3>3. Last(K \cap (1..i)) = j
        BY <3>1, <3>2, LastIs
      <3>4. key[j][2] = KeyMeant(calls[j][2])
        BY <1>4, <1>7, <1>13
      <3> QED BY <1>8, <3>3, <3>4 DEF KeyTo
    <2>2. \A i \in V : at[i] = KeyTo(K, key, i) /\ of[i] = r[i][2]
      BY <1>5, <1>8, <1>13, <2>1
    <2> QED BY <1>0, <1>1, <1>9, <2>2, EntriesAreEntered
  <1>14. Built(made) = Result(IsSoundMap(calls) /\ sounds, Entered(at, of))
    BY <1>11, <1>12, <1>13 DEF Result
  <1>15. IsSoundMap(calls) /\ sounds <=> IsSoundMap(calls) /\ \A i \in DOMAIN calls : Sound(calls[i][2])
    <2>1. ASSUME IsSoundMap(calls), NEW i \in K PROVE Sound(calls[i][2])
      <3>1. CanBeKey(calls[i][2]) /\ IsNestedData(calls[i][2])
        BY <1>0, <1>1, <1>7, <2>1
      <3> QED BY <3>1, KeysAreSound
    <2>2. DOMAIN calls = K \cup V
      BY <1>0 DEF K, V
    <2> QED BY <2>1, <2>2
  <1> QED BY <1>14, <1>15 DEF Result, made, at, of, CallsRight

\* Data is serialized right when all it contains is.
LEMMA SerializedOfParts ==
  ASSUME NEW d, IsNestedData(d), WellMade(d), \A x \in Needed(d) : SerializedRight(x)
  PROVE  Serialized(d) = Result(Sound(d), Meant(d))
  <1>1. /\ IsWellMade(d)
        /\ \A x \in Contents(d) : WellMade(x) /\ IsNestedData(x)
        /\ Sound(d) <=> (d[1] = "map" => IsSoundMap(d[2])) /\ \A x \in Contents(d) : Sound(x)
    BY InsideData
  <1>2. PICK g : SerializedAs(g, d) /\ Serialized(d) = SerializedUsing(g, d) /\ \A x \in Needed(d) : g[x] = Serialized(x)
    BY DataOfContents
  <1>3. PICK h : MeantAs(h, d) /\ Meant(d) = MeantUsing(h, d) /\ \A x \in Contents(d) : h[x] = Meant(x)
    BY DataOfContents
  <1>4. \A x \in Contents(d) : g[x] = Result(Sound(x), h[x])
    BY <1>1, <1>2, <1>3, ContentsAreNeeded DEF SerializedRight, Result, InvalidKey
  <1>5. CASE d[1] = "some"
    <2>1. Contents(d) = {d[2]}
      BY <1>5 DEF Contents
    <2>2. Serialized(d) = g[d[2]] /\ Meant(d) = h[d[2]]
      BY <1>2, <1>3, <1>5 DEF SerializedAs, MeantAs
    <2>3. Sound(d) <=> Sound(d[2])
      BY <1>1, <1>5, <2>1
    <2> QED BY <1>4, <2>1, <2>2, <2>3 DEF Result
  <1>6. CASE d[1] = "newtype_struct"
    <2>1. Contents(d) = {d[3]}
      BY <1>6 DEF Contents
    <2>2. Serialized(d) = g[d[3]] /\ Meant(d) = h[d[3]]
      BY <1>1, <1>2, <1>3, <1>6 DEF SerializedAs, MeantAs, IsWellMade
    <2>3. Sound(d) <=> Sound(d[3])
      BY <1>1, <1>6, <2>1
    <2> QED BY <1>4, <2>1, <2>2, <2>3 DEF Result
  <1>7. CASE d[1] = "newtype_variant"
    <2>1. Contents(d) = {d[3]}
      BY <1>7 DEF Contents
    <2>2. Serialized(d) = Variant(d[2], g[d[3]]) /\ Meant(d) = MapOf([k \in {StrOf(d[2])} |-> h[d[3]]])
      BY <1>2, <1>3, <1>7 DEF SerializedAs, MeantAs
    <2>3. (Sound(d) <=> Sound(d[3])) /\ Sound(d[3]) \in BOOLEAN
      BY <1>1, <1>7, <2>1 DEF Sound
    <2>4. g[d[3]] = Result(Sound(d[3]), h[d[3]])
      BY <1>4, <2>1
    <2>5. Variant(d[2], Result(Sound(d[3]), h[d[3]])) = Result(Sound(d[3]), MapOf([k \in {StrOf(d[2])} |-> h[d[3]]]))
      BY <2>3, NamedResults
    <2> QED BY <2>2, <2>3, <2>4, <2>5 DEF Result
  <1>8. CASE d[1] \in {"seq", "tuple_variant"}
    <2> DEFINE items == IF d[1] = "seq" THEN d[2] ELSE d[3]
               list  == ListOf([i \in DOMAIN items |-> h[items[i]]])
               good  == \A i \in DOMAIN items : Sound(items[i])
    <2>1. Contents(d) = {items[i] : i \in DOMAIN items} /\ IsSequence(items)
      BY <1>1, <1>8 DEF Contents, IsWellMade
    <2>2. Sound(d) <=> good
      BY <1>1, <1>8, <2>1
    <2>3. \A i \in DOMAIN items : g[items[i]] = Result(Sound(items[i]), h[items[i]])
      BY <1>4, <2>1
    <2>4. d[1] = "seq" =>
            /\ Serialized(d) = InList(Together([i \in DOMAIN items |-> g[items[i]]]))
            /\ Meant(d) = list
      BY <1>2, <1>3 DEF SerializedAs, MeantAs
    <2>5. d[1] = "tuple_variant" =>
            /\ Serialized(d) = Variant(d[2], InList(Together([i \in DOMAIN items |-> g[items[i]]])))
            /\ Meant(d) = MapOf([k \in {StrOf(d[2])} |-> list])
      BY <1>2, <1>3 DEF SerializedAs, MeantAs
    <2> HIDE DEF items
    <2>6. InList(Together([i \in DOMAIN items |-> g[items[i]]])) = Result(good, list)
      <3>1. ItemsRight(items, g, h)
        BY <2>1, <2>3, ItemsSerialized
      <3> QED BY <3>1 DEF ItemsRight
    <2>7. good \in BOOLEAN
      OBVIOUS
    <2> HIDE DEF list, good
    <2>8. Variant(d[2], Result(good, list)) = Result(good, MapOf([k \in {StrOf(d[2])} |-> list]))
      BY <2>7, NamedResults
    <2> QED BY <1>8, <2>2, <2>4, <2>5, <2>6, <2>8 DEF Result
  <1>9. CASE d[1] \in {"struct", "struct_variant"}
    <2> DEFINE fields == d[3]
               values == [i \in DOMAIN fields |-> g[fields[i][2]]]
               built  == Built([i \in DOMAIN fields |-> <<<<Ok(StrOf(fields[i][1]))>>, <<values[i]>>>>])
               whole  == Entered([i \in DOMAIN fields |-> StrOf(fields[i][1])], [i \in DOMAIN fields |-> h[fields[i][2]]])
               good   == \A i \in DOMAIN fields : Sound(fields[i][2])
    <2>1. Contents(d) = {fields[i][2] : i \in DOMAIN fields} /\ IsSequence(fields)
      BY <1>1, <1>9 DEF Contents, IsWellMade
    <2>2. Sound(d) <=> good
      BY <1>1, <1>9, <2>1
    <2>3. \A i \in DOMAIN fields : g[fields[i][2]] = Result(Sound(fields[i][2]), h[fields[i][2]])
      BY <1>4, <2>1
    <2>4. d[1] = "struct" => Serialized(d) = built /\ Meant(d) = whole
      BY <1>2, <1>3 DEF SerializedAs, MeantAs
    <2>5. d[1] = "struct_variant" =>
            Serialized(d) = Variant(d[2], built) /\ Meant(d) = MapOf([k \in {StrOf(d[2])} |-> whole])
      BY <1>2, <1>3 DEF SerializedAs, MeantAs
    <2> HIDE DEF fields
    <2>6. built = Result(good, whole)
      <3>1. FieldsRight(fields, g, h)
        BY <2>1, <2>3, FieldsSerialized
      <3> QED BY <3>1 DEF FieldsRight
    <2>7. good \in BOOLEAN
      OBVIOUS
    <2> HIDE DEF built, whole, good
    <2>8. Variant(d[2], Result(good, whole)) = Result(good, MapOf([k \in {StrOf(d[2])} |-> whole]))
      BY <2>7, NamedResults
    <2> QED BY <1>9, <2>2, <2>4, <2>5, <2>6, <2>8 DEF Result
  <1>10. CASE d[1] = "map"
    <2> DEFINE calls == d[2]
               values == {i \in DOMAIN calls : calls[i][1] # "key"}
               built  == Built([i \in DOMAIN calls |-> IF calls[i][1] = "key" THEN <<<<KeyOf(calls[i][2])>>, <<>>>>
                                                       ELSE <<<<>>, <<g[calls[i][2]]>>>>])
               whole  == Entered([i \in values |-> KeyMeant(calls[Last(KeyPlaces(calls, i))][2])],
                                 [i \in values |-> h[calls[i][2]]])
    <2>1. Contents(d) = {calls[i][2] : i \in DOMAIN calls} /\ IsSequence(calls)
      BY <1>1, <1>10 DEF Contents, IsWellMade
    <2>2. Sound(d) <=> IsSoundMap(calls) /\ \A i \in DOMAIN calls : Sound(calls[i][2])
      BY <1>1, <1>10, <2>1
    <2>3. \A i \in DOMAIN calls : g[calls[i][2]] = Result(Sound(calls[i][2]), h[calls[i][2]]) /\ IsNestedData(calls[i][2])
      BY <1>1, <1>4, <2>1
    <2>4. Serialized(d) = built /\ Meant(d) = whole
      BY <1>2, <1>3, <1>10 DEF SerializedAs, MeantAs
    <2> HIDE DEF calls
    <2>5. built = Result(IsSoundMap(calls) /\ \A i \in DOMAIN calls : Sound(calls[i][2]), whole)
      <3>1. CallsRight(calls, g, h)
        BY <2>1, <2>3, CallsSerialized
      <3> QED BY <3>1 DEF CallsRight
    <2> HIDE DEF built, whole
    <2> QED BY <2>2, <2>4, <2>5 DEF Result
  <1>11. CASE d[1] \in Wrappers
    <2>1. Contents(d) = {}
      BY <1>11 DEF Contents, Wrappers
    <2>2. Sound(d)
      BY <1>1, <1>11, <2>1 DEF Wrappers
    <2>3. Serialized(d) = Ok(Meant(d))
      BY <1>1, <1>3, <1>11, DurationsSerialized, TimestampsSerialized DEF Wrappers, MeantAs, IsWellMade
    <2> QED BY <2>2, <2>3 DEF Result
  <1>12. CASE d[1] \notin Holding \cup Wrappers
    <2>1. Contents(d) = {}
      BY <1>12 DEF Contents, Holding
    <2>2. Sound(d)
      BY <1>1, <1>12, <2>1 DEF Holding
    <2>3. Serialized(d) = Ok(Atom(d)) /\ Meant(d) = Atom(d)
      BY <1>2, <1>3, <1>12 DEF SerializedAs, MeantAs
    <2> QED BY <2>2, <2>3 DEF Result
  <1> QED BY <1>5, <1>6, <1>7, <1>8, <1>9, <1>10, <1>11, <1>12 DEF Holding

LEMMA SerializationsAreRight ==
  ASSUME NEW d, IsNestedData(d), WellMade(d)
  PROVE  Serialized(d) = IF Sound(d) THEN Ok(Meant(d)) ELSE Err("InvalidKey")
  <1>1. ASSUME NEW x, IsNestedData(x), \A y \in Needed(x) : SerializedRight(y) PROVE SerializedRight(x)
    BY <1>1, SerializedOfParts DEF SerializedRight, Result, InvalidKey
  <1>2. \A x : Serializing!IsBounded(x) /\ (\A y \in Needed(x) : SerializedRight(y)) => SerializedRight(x)
    BY <1>1, DataNested
  <1>3. Serializing!IsBounded(d)
    BY DataNested
  <1>4. SerializedRight(d)
    BY <1>2, <1>3, NestingIsNatural, Serializing!HoldsOfParts
  <1> QED BY <1>4 DEF SerializedRight
-----------------------------------------------------------------------------
(* What data means is a value. *)

LEMMA WholesAreMade ==
  ASSUME NEW v, IsWellFormed(v), TypeOf(v) # "function", \A x \in DirectlyIn(v) : IsMade(x)
  PROVE  IsMade(v)
  <1> SUFFICES ASSUME IsNested(v) PROVE AllWellFormed(v) /\ NoFunctions(v)
    BY DEF IsMade
  <1>1. \A x \in DirectlyIn(v) : IsNested(x)
    BY InNested
  <1>2. \A x \in DirectlyIn(v) : AllWellFormed(x) /\ NoFunctions(x)
    BY <1>1 DEF IsMade
  <1> QED BY <1>2, OfTypeInParts

LEMMA AtomsAreMade ==
  ASSUME NEW type \in {"bool", "int", "uint", "double", "string", "bytes", "null", "timestamp", "duration"}, NEW x,
         type = "bool" => x \in BOOLEAN
  PROVE  IsMade(<<type, x>>)
  <1> DEFINE v == <<type, x>>
  <1>1. TypeOf(v) = type /\ v[2] = x /\ v = <<TypeOf(v), v[2]>>
    BY DEF TypeOf
  <1> HIDE DEF v
  <1>2. IsWellFormed(v)
    BY <1>1 DEF IsWellFormed, ValueKinds
  <1>3. DirectlyIn(v) = {}
    BY <1>1, DirectlyInKinds
  <1>4. IsMade(v)
    BY <1>1, <1>2, <1>3, WholesAreMade
  <1> QED BY <1>4 DEF v

LEMMA ListsAreMade ==
  ASSUME NEW s, IsSequence(s), \A i \in DOMAIN s : IsMade(s[i])
  PROVE  IsMade(ListOf(s))
  <1>1. ListOf(s)[2] = s /\ TypeOf(ListOf(s)) = "list" /\ ListOf(s) = <<"list", s>>
    BY DEF TypeOf, ListOf
  <1>2. IsWellFormed(ListOf(s))
    BY <1>1 DEF IsWellFormed, ValueKinds
  <1>3. DirectlyIn(ListOf(s)) = {s[i] : i \in DOMAIN s}
    BY DirectlyInKinds
  <1> QED BY <1>1, <1>2, <1>3, WholesAreMade

LEMMA MapsAreMade ==
  ASSUME NEW f, IsFunction(f), \A k \in DOMAIN f : IsKey(k) /\ IsMade(f[k])
  PROVE  IsMade(MapOf(f))
  <1>1. MapOf(f)[2] = f /\ TypeOf(MapOf(f)) = "map" /\ MapOf(f) = <<"map", f>>
    BY DEF TypeOf, MapOf
  <1>2. IsWellFormed(MapOf(f))
    BY <1>1 DEF IsWellFormed, ValueKinds
  <1>3. DirectlyIn(MapOf(f)) = {f[k] : k \in DOMAIN f}
    BY DirectlyInKinds
  <1> QED BY <1>1, <1>2, <1>3, WholesAreMade

LEMMA NamesAreKeys ==
  ASSUME NEW name
  PROVE  IsKey(StrOf(name))
  <1>1. StrOf(name) = <<"string", name>> /\ TypeOf(StrOf(name)) = "string" /\ StrOf(name)[2] = name
    BY DEF StrOf, TypeOf
  <1> QED BY <1>1 DEF IsKey, KeyTypes

LEMMA NamedAreMade ==
  ASSUME NEW name, NEW v, IsMade(v)
  PROVE  IsMade(MapOf([k \in {StrOf(name)} |-> v]))
  <1> DEFINE f == [k \in {StrOf(name)} |-> v]
  <1>1. IsFunction(f) /\ \A k \in DOMAIN f : k = StrOf(name) /\ f[k] = v
    BY DEF IsFunction
  <1> HIDE DEF f
  <1>2. IsMade(MapOf(f))
    BY <1>1, NamesAreKeys, MapsAreMade
  <1> QED BY <1>2 DEF f

LEMMA EnteredAreMade ==
  ASSUME NEW n \in Nat, NEW V \in SUBSET (1..n), NEW at, NEW of, DOMAIN at = V,
         \A i \in V : IsKey(at[i]) /\ IsMade(of[i])
  PROVE  IsMade(Entered(at, of))
  <1> DEFINE U(k) == {i \in V : at[i] = k}
             f    == [k \in {at[i] : i \in V} |-> of[Last(U(k))]]
  <1>1. Entered(at, of) = MapOf(f)
    BY DEF Entered
  <1>2. IsFunction(f) /\ DOMAIN f = {at[i] : i \in V} /\ \A k \in DOMAIN f : f[k] = of[Last(U(k))]
    BY DEF IsFunction
  <1> HIDE DEF f
  <1>3. ASSUME NEW k \in DOMAIN f PROVE IsKey(k) /\ IsMade(f[k])
    <2>1. U(k) # {} /\ U(k) \in SUBSET (1..n)
      BY <1>2, <1>3
    <2>2. PICK i \in U(k) : \A j \in U(k) : j <= i
      BY <2>1, LastPosition
    <2>3. U(k) \in SUBSET Int
      BY <2>1
    <2>4. Last(U(k)) = i
      BY <2>2, <2>3, LastIs
    <2> QED BY <1>2, <2>2, <2>4
  <1> QED BY <1>1, <1>2, <1>3, MapsAreMade

LEMMA DataAtomsAreMade ==
  ASSUME NEW d, IsWellMade(d), d[1] \notin Holding \cup Wrappers
  PROVE  IsMade(Atom(d))
  <1>1. d[1] \in {"bool", "i64", "u64", "f64", "str", "unit_variant", "bytes", "none", "unit"}
    BY DEF IsWellMade, DataKinds, Holding, Wrappers
  <1>2. d[1] = "bool" => d[2] \in BOOLEAN
    BY DEF IsWellMade
  <1>3. CASE d[1] = "bool"
    BY <1>2, <1>3, AtomsAreMade DEF Atom, BoolVal
  <1>4. CASE d[1] \in {"i64", "u64"}
    BY <1>4, AtomsAreMade DEF Atom, IntOf, UintOf
  <1>5. CASE d[1] \in {"f64", "bytes"}
    BY <1>5, AtomsAreMade DEF Atom, DoubleOf, BytesOf
  <1>6. CASE d[1] \in {"str", "unit_variant"}
    BY <1>6, AtomsAreMade DEF Atom, StrOf
  <1>7. CASE d[1] \in {"none", "unit"}
    BY <1>7, AtomsAreMade DEF Atom, Null
  <1> QED BY <1>1, <1>3, <1>4, <1>5, <1>6, <1>7

\* The keys of a map are keys.
LEMMA KeysAreMade ==
  ASSUME NEW d, IsNestedData(d), WellMade(d), CanBeKey(d)
  PROVE  IsKey(KeyMeant(d))
  <1> DEFINE b == Bare(d)
  <1>1. IsWellMade(b)
    BY BareIsInside DEF WellMade
  <1>2. b[1] \in {"bool", "i64", "u64", "str", "unit_variant", "timestamp"}
    BY DEF CanBeKey
  <1>3. KeyMeant(d) = IF b[1] = "timestamp" THEN StrOf(Rfc3339(b[2])) ELSE Atom(b)
    BY DEF KeyMeant
  <1> HIDE DEF b
  <1>4. CASE b[1] = "timestamp"
    BY <1>3, <1>4, NamesAreKeys
  <1>5. CASE b[1] \in {"str", "unit_variant"}
    <2>1. Atom(b) = StrOf(b[2])
      BY <1>5 DEF Atom
    <2> QED BY <1>3, <1>5, <2>1, NamesAreKeys
  <1>6. CASE b[1] = "bool"
    <2>1. Atom(b) = <<"bool", b[2]>> /\ b[2] \in BOOLEAN
      BY <1>1, <1>6 DEF Atom, BoolVal, IsWellMade
    <2> QED BY <1>3, <1>6, <2>1 DEF IsKey, TypeOf, KeyTypes
  <1>7. CASE b[1] \in {"i64", "u64"}
    <2>1. Atom(b) = <<IF b[1] = "i64" THEN "int" ELSE "uint", b[2]>> /\ b[2] \in Ints
      BY <1>1, <1>7 DEF Atom, IntOf, UintOf, IsWellMade
    <2> QED BY <1>3, <1>7, <2>1 DEF IsKey, TypeOf, KeyTypes
  <1> QED BY <1>2, <1>4, <1>5, <1>6, <1>7

\* What fields and calls are entered as.
LEMMA FieldsAreMade ==
  ASSUME NEW fields, IsSequence(fields), NEW h, \A i \in DOMAIN fields : IsMade(h[fields[i][2]])
  PROVE  IsMade(Entered([i \in DOMAIN fields |-> StrOf(fields[i][1])], [i \in DOMAIN fields |-> h[fields[i][2]]]))
  <1> DEFINE n  == Len(fields)
             at == [i \in DOMAIN fields |-> StrOf(fields[i][1])]
             of == [i \in DOMAIN fields |-> h[fields[i][2]]]
  <1>1. n \in Nat /\ DOMAIN fields = 1..n
    BY SequenceDomain
  <1> HIDE DEF n
  <1>2. DOMAIN at = 1..n /\ \A i \in 1..n : at[i] = StrOf(fields[i][1]) /\ of[i] = h[fields[i][2]]
    BY <1>1
  <1> HIDE DEF at, of
  <1>3. \A i \in 1..n : IsKey(at[i]) /\ IsMade(of[i])
    BY <1>1, <1>2, NamesAreKeys
  <1>4. IsMade(Entered(at, of))
    <2>1. 1..n \in SUBSET (1..n)
      OBVIOUS
    <2> QED BY <1>1, <1>2, <1>3, <2>1, EnteredAreMade
  <1> QED BY <1>4 DEF at, of

LEMMA CallsAreMade ==
  ASSUME NEW calls, IsSequence(calls), NEW h, IsSoundMap(calls),
         \A i \in DOMAIN calls : IsMade(h[calls[i][2]]) /\ IsNestedData(calls[i][2]) /\ WellMade(calls[i][2])
  PROVE  LET values == {i \in DOMAIN calls : calls[i][1] # "key"}
         IN IsMade(Entered([i \in values |-> KeyMeant(calls[Last(KeyPlaces(calls, i))][2])],
                           [i \in values |-> h[calls[i][2]]]))
  <1> DEFINE n      == Len(calls)
             values == {i \in DOMAIN calls : calls[i][1] # "key"}
             at     == [i \in values |-> KeyMeant(calls[Last(KeyPlaces(calls, i))][2])]
             of     == [i \in values |-> h[calls[i][2]]]
  <1>1. n \in Nat /\ DOMAIN calls = 1..n
    BY SequenceDomain
  <1> HIDE DEF n
  <1>2. /\ DOMAIN at = values
        /\ \A i \in values : /\ at[i] = KeyMeant(calls[Last(KeyPlaces(calls, i))][2])
                             /\ of[i] = h[calls[i][2]]
                             /\ i \in 1..n /\ calls[i][1] # "key"
        /\ values \in SUBSET (1..n)
    BY <1>1
  <1> HIDE DEF at, of, values
  <1>3. ASSUME NEW i \in values PROVE IsKey(at[i]) /\ IsMade(of[i])
    <2> DEFINE P == KeyPlaces(calls, i)
    <2>1. P # {}
      BY <1>1, <1>2 DEF IsSoundMap
    <2>2. P \in SUBSET (1..n) /\ \A j \in P : j \in 1..n /\ calls[j][1] = "key"
      BY <1>1, <1>2 DEF KeyPlaces
    <2> HIDE DEF P
    <2>3. PICK j \in P : \A k \in P : k <= j
      BY <1>1, <2>1, <2>2, LastPosition
    <2>4. P \in SUBSET Int
      BY <2>2
    <2>5. Last(P) = j
      BY <2>3, <2>4, LastIs
    <2>6. CanBeKey(calls[j][2])
      BY <1>1, <2>2 DEF IsSoundMap
    <2>7. IsKey(KeyMeant(calls[j][2]))
      BY <1>1, <2>2, <2>6, KeysAreMade
    <2>8. at[i] = KeyMeant(calls[j][2])
      BY <1>2, <2>5 DEF P
    <2> QED BY <1>1, <1>2, <2>7, <2>8
  <1>4. IsMade(Entered(at, of))
    BY <1>1, <1>2, <1>3, EnteredAreMade
  <1> QED BY <1>4 DEF at, of, values

\* What data means is a value when what its contents mean is.
LEMMA MeantOfParts ==
  ASSUME NEW d, IsNestedData(d), WellMade(d), Sound(d), \A x \in Contents(d) : MeantRight(x)
  PROVE  IsMade(Meant(d))
  <1>1. /\ IsWellMade(d)
        /\ \A x \in Contents(d) : WellMade(x) /\ IsNestedData(x) /\ Sound(x)
        /\ d[1] = "map" => IsSoundMap(d[2])
    BY InsideData
  <1>2. PICK h : MeantAs(h, d) /\ Meant(d) = MeantUsing(h, d) /\ \A x \in Contents(d) : h[x] = Meant(x)
    BY DataOfContents
  <1>3. \A x \in Contents(d) : IsMade(h[x])
    BY <1>1, <1>2 DEF MeantRight
  <1>4. CASE d[1] = "some"
    <2>1. d[2] \in Contents(d)
      BY <1>4 DEF Contents
    <2> QED BY <1>2, <1>3, <1>4, <2>1 DEF MeantAs
  <1>5. CASE d[1] = "newtype_struct"
    <2>1. d[3] \in Contents(d)
      BY <1>5 DEF Contents
    <2> QED BY <1>2, <1>3, <1>5, <2>1 DEF MeantAs
  <1>6. CASE d[1] = "newtype_variant"
    <2>1. d[3] \in Contents(d)
      BY <1>6 DEF Contents
    <2>2. Meant(d) = MapOf([k \in {StrOf(d[2])} |-> h[d[3]]])
      BY <1>2, <1>6 DEF MeantAs
    <2> QED BY <1>3, <2>1, <2>2, NamedAreMade
  <1>7. CASE d[1] \in {"seq", "tuple_variant"}
    <2> DEFINE items == IF d[1] = "seq" THEN d[2] ELSE d[3]
               s     == [i \in DOMAIN items |-> h[items[i]]]
    <2>1. Contents(d) = {items[i] : i \in DOMAIN items} /\ IsSequence(items)
      BY <1>1, <1>7 DEF Contents, IsWellMade
    <2>2. d[1] = "seq" => Meant(d) = ListOf(s)
      BY <1>2 DEF MeantAs
    <2>3. d[1] = "tuple_variant" => Meant(d) = MapOf([k \in {StrOf(d[2])} |-> ListOf(s)])
      BY <1>2 DEF MeantAs
    <2> HIDE DEF items
    <2>4. \A i \in DOMAIN s : IsMade(s[i])
      BY <1>3, <2>1
    <2>5. IsSequence(s)
      BY <2>1 DEF IsSequence
    <2> HIDE DEF s
    <2>6. IsMade(ListOf(s))
      BY <2>4, <2>5, ListsAreMade
    <2> QED BY <1>7, <2>2, <2>3, <2>6, NamedAreMade
  <1>8. CASE d[1] \in {"struct", "struct_variant"}
    <2> DEFINE fields == d[3]
               whole  == Entered([i \in DOMAIN fields |-> StrOf(fields[i][1])], [i \in DOMAIN fields |-> h[fields[i][2]]])
    <2>1. Contents(d) = {fields[i][2] : i \in DOMAIN fields} /\ IsSequence(fields)
      BY <1>1, <1>8 DEF Contents, IsWellMade
    <2>2. d[1] = "struct" => Meant(d) = whole
      BY <1>2 DEF MeantAs
    <2>3. d[1] = "struct_variant" => Meant(d) = MapOf([k \in {StrOf(d[2])} |-> whole])
      BY <1>2 DEF MeantAs
    <2> HIDE DEF fields
    <2>4. \A i \in DOMAIN fields : IsMade(h[fields[i][2]])
      BY <1>3, <2>1
    <2>5. IsMade(whole)
      BY <2>1, <2>4, FieldsAreMade
    <2> HIDE DEF whole
    <2> QED BY <1>8, <2>2, <2>3, <2>5, NamedAreMade
  <1>9. CASE d[1] = "map"
    <2> DEFINE calls  == d[2]
               values == {i \in DOMAIN calls : calls[i][1] # "key"}
               whole  == Entered([i \in values |-> KeyMeant(calls[Last(KeyPlaces(calls, i))][2])],
                                 [i \in values |-> h[calls[i][2]]])
    <2>1. Contents(d) = {calls[i][2] : i \in DOMAIN calls} /\ IsSequence(calls)
      BY <1>1, <1>9 DEF Contents, IsWellMade
    <2>2. Meant(d) = whole
      BY <1>2, <1>9 DEF MeantAs
    <2>3. IsSoundMap(calls)
      BY <1>1, <1>9
    <2> HIDE DEF calls
    <2>4. \A i \in DOMAIN calls : IsMade(h[calls[i][2]]) /\ IsNestedData(calls[i][2]) /\ WellMade(calls[i][2])
      BY <1>1, <1>3, <2>1
    <2> QED BY <2>1, <2>2, <2>3, <2>4, CallsAreMade
  <1>10. CASE d[1] \in Wrappers
    <2>1. Meant(d) = TimestampOf(d[2]) \/ \E n : Meant(d) = DurationOf(n)
      BY <1>2, <1>10 DEF MeantAs, Wrappers
    <2> QED BY <2>1, AtomsAreMade DEF TimestampOf, DurationOf
  <1>11. CASE d[1] \notin Holding \cup Wrappers
    <2>1. Meant(d) = Atom(d)
      BY <1>2, <1>11 DEF MeantAs
    <2> QED BY <1>1, <1>11, <2>1, DataAtomsAreMade
  <1> QED BY <1>4, <1>5, <1>6, <1>7, <1>8, <1>9, <1>10, <1>11 DEF Holding

\* What sound data means is a value that holds no function.
LEMMA MeaningsAreRight ==
  ASSUME NEW d, IsNestedData(d), WellMade(d), Sound(d), IsNested(Meant(d))
  PROVE  IsValue(Meant(d)) /\ NoFunctions(Meant(d))
  <1>1. ASSUME NEW x, IsNestedData(x), \A y \in Needed(x) : MeantRight(y) PROVE MeantRight(x)
    BY <1>1, MeantOfParts, ContentsAreNeeded DEF MeantRight
  <1>2. \A x : Meaning!IsBounded(x) /\ (\A y \in Needed(x) : MeantRight(y)) => MeantRight(x)
    BY <1>1, DataNested
  <1>3. Meaning!IsBounded(d)
    BY DataNested
  <1>4. MeantRight(d)
    BY <1>2, <1>3, NestingIsNatural, Meaning!HoldsOfParts
  <1> QED BY <1>4 DEF MeantRight, IsMade, IsValue, AllWellFormed
-----------------------------------------------------------------------------
(* The way of a value. *)

\* The value that is meant to be bound.
Given == IF source[1] = "value" THEN source[2] ELSE Meant(source[2])

Bound == IntoVal(Given, isShared)

\* Where what is held has come from: without it, nothing is known of what a step converts.
SourceInv ==
  /\ source \in {<<"data", d>> : d \in Data} \cup {<<"value", v>> : v \in HostValues}
  /\ stage \notin {"source", "refused"} => IsValue(Given) /\ (source[1] = "data" => Sound(source[2]) /\ NoFunctions(Given))

HeldInv ==
  /\ stage \in {"source", "refused", "value", "val", "panicked", "resolved", "exported"}
  /\ stage = "refused" => source[1] = "data" /\ ~Sound(source[2]) /\ held = Err("InvalidKey")
  /\ stage = "value" => held = Ok(Given)
  /\ stage = "panicked" => Failed(Bound)
  /\ stage = "val" => held = Bound /\ ~Failed(Bound)
  /\ stage \in {"resolved", "exported"} => held = Ok(FromVal(Bound[2])) /\ ~Failed(Bound)
  /\ stage = "exported" => json \in Exports(held[2])

IInv == SourceInv /\ HeldInv

LEMMA SourcesAreSources ==
  ASSUME SourceInv
  PROVE  /\ source[1] \in {"data", "value"}
         /\ source[1] = "data" => /\ source[2] \in Data /\ IsNestedData(source[2]) /\ WellMade(source[2])
                                  /\ Sound(source[2]) => IsValue(Meant(source[2])) /\ NoFunctions(Meant(source[2]))
         /\ source[1] = "value" => source[2] \in HostValues /\ IsValue(source[2])
  <1>1. \A x : <<"data", x>>[1] = "data" /\ <<"data", x>>[2] = x /\ <<"value", x>>[1] = "value" /\ <<"value", x>>[2] = x
    OBVIOUS
  <1>2. /\ source[1] \in {"data", "value"}
        /\ source[1] = "data" => source[2] \in Data
        /\ source[1] = "value" => source[2] \in HostValues
    BY <1>1 DEF SourceInv
  <1>3. \A d \in Data : IsNestedData(d) /\ WellMade(d) /\ (Sound(d) => IsNested(Meant(d)))
    BY DataAssumption DEF WellMade
  <1> QED BY <1>2, <1>3, MeaningsAreRight, ValuesAssumption

LEMMA InitHolds == Init => IInv
  BY DEF Init, IInv, SourceInv, HeldInv

LEMMA TryIntoValueKeeps == IInv /\ TryIntoValue => IInv'
  <1> SUFFICES ASSUME IInv, TryIntoValue PROVE IInv'
    OBVIOUS
  <1> USE DEF Given, Bound
  <1>1. /\ stage = "source" /\ source' = source /\ isShared' = isShared
        /\ held' = IF source[1] = "data" THEN Serialized(source[2]) ELSE Ok(source[2])
        /\ stage' = IF Failed(held') THEN "refused" ELSE "value"
    BY DEF TryIntoValue
  <1>2. CASE source[1] = "data"
    <2>1. Serialized(source[2]) = IF Sound(source[2]) THEN Ok(Meant(source[2])) ELSE Err("InvalidKey")
      BY <1>2, SourcesAreSources, SerializationsAreRight DEF IInv
    <2>2. CASE Sound(source[2])
      <3>1. held' = Ok(Meant(source[2])) /\ stage' = "value"
        BY <1>1, <1>2, <2>1, <2>2, Errors
      <3> QED BY <1>1, <1>2, <2>2, <3>1, SourcesAreSources DEF IInv, SourceInv, HeldInv
    <2>3. CASE ~Sound(source[2])
      <3>1. held' = Err("InvalidKey") /\ stage' = "refused"
        BY <1>1, <1>2, <2>1, <2>3, Errors
      <3> QED BY <1>1, <1>2, <2>3, <3>1 DEF IInv, SourceInv, HeldInv
    <2> QED BY <2>2, <2>3
  <1>3. CASE source[1] = "value"
    <2>1. held' = Ok(source[2]) /\ stage' = "value"
      BY <1>1, <1>3, Errors
    <2> QED BY <1>1, <1>3, <2>1, SourcesAreSources DEF IInv, SourceInv, HeldInv
  <1> QED BY <1>2, <1>3, SourcesAreSources DEF IInv

LEMMA StepsKeep == IInv /\ [Next]_vars => IInv'
  <1> SUFFICES ASSUME IInv, [Next]_vars PROVE IInv'
    OBVIOUS
  <1>1. CASE TryIntoValue
    BY <1>1, TryIntoValueKeeps
  <1>2. CASE AddVariable
    <2>1. /\ stage = "value" /\ source' = source /\ isShared' = isShared
          /\ held' = IntoVal(held[2], isShared) /\ stage' = IF Failed(held') THEN "panicked" ELSE "val"
      BY <1>2 DEF AddVariable
    <2>2. held[2] = Given
      BY <2>1, Errors DEF IInv, HeldInv
    <2>3. Given' = Given /\ Bound' = Bound /\ held' = Bound
      BY <2>1, <2>2 DEF Given, Bound
    <2> QED BY <2>1, <2>3 DEF IInv, SourceInv, HeldInv
  <1>3. CASE Resolve
    <2>1. stage = "val" /\ source' = source /\ isShared' = isShared /\ held' = Ok(FromVal(held[2])) /\ stage' = "resolved"
      BY <1>3 DEF Resolve
    <2>2. Given' = Given /\ Bound' = Bound
      BY <2>1 DEF Given, Bound
    <2> QED BY <2>1, <2>2 DEF IInv, SourceInv, HeldInv
  <1>4. CASE Export
    <2>1. stage = "resolved" /\ source' = source /\ isShared' = isShared /\ held' = held
          /\ json' \in Exports(held[2]) /\ stage' = "exported"
      BY <1>4 DEF Export
    <2>2. Given' = Given /\ Bound' = Bound
      BY <2>1 DEF Given, Bound
    <2> QED BY <2>1, <2>2 DEF IInv, SourceInv, HeldInv
  <1>5. CASE UNCHANGED vars
    <2>1. Given' = Given /\ Bound' = Bound
      BY <1>5 DEF vars, Given, Bound
    <2> QED BY <1>5, <2>1 DEF vars, IInv, SourceInv, HeldInv
  <1> QED BY <1>1, <1>2, <1>3, <1>4, <1>5 DEF Next, Done

\* At every stage what is held is what the conversions so far make of the value that is meant
\* (ser.rs, objects.rs, context.rs).
THEOREM HeldIsTraced == Spec => []IInv
  <1> QED BY InitHolds, StepsKeep, PTL DEF Spec

\* Whatever data a host has, it arrives as what it means, entry by entry, and is refused only for
\* a key that is none or a value before any key; the marked structs of durations and timestamps
\* never reach a method that is not meant for them (ser.rs).
THEOREM DataArrives == Spec => []ArrivesAsMeant
  <1>1. IInv => ArrivesAsMeant
    BY DEF IInv, SourceInv, HeldInv, ArrivesAsMeant, Given
  <1> QED BY <1>1, HeldIsTraced, PTL

LEMMA BoundAndRead ==
  ASSUME SourceInv, stage \notin {"source", "refused"}
  PROVE  /\ Failed(Bound) <=> ~NoFunctions(Given)
         /\ LET read == FromVal(Bound[2])
            IN NoFunctions(Given) => /\ IsValue(read) /\ NoFunctions(read) /\ StructsArePlain(read)
                                     /\ StructsArePlain(Given) => read = Given
  <1>1. IsValue(Given)
    BY DEF SourceInv
  <1> QED BY <1>1, BindingsAreRight, BoundIsRead DEF Bound

\* A variable gives back the value it was given, whatever that is, but for optionals within
\* structs; binding panics for a value that holds a function and for no other (objects.rs, context.rs).
THEOREM VariablesReadBack == Spec => []ReadsBack
  <1>1. IInv => ReadsBack
    <2> SUFFICES ASSUME IInv PROVE ReadsBack
      OBVIOUS
    <2>1. CASE stage = "panicked"
      BY <2>1, BoundAndRead DEF IInv, HeldInv, ReadsBack, Given, NoFunctions
    <2>2. CASE stage = "resolved"
      <3>1. held = Ok(FromVal(Bound[2])) /\ NoFunctions(Given)
        BY <2>2, BoundAndRead DEF IInv, HeldInv
      <3>2. held[2] = FromVal(Bound[2])
        BY <3>1, Errors
      <3>3. StructsArePlain(held[2]) /\ (StructsArePlain(Given) => held = Ok(Given))
        BY <2>2, <3>1, <3>2, BoundAndRead DEF IInv
      <3> QED BY <2>2, <3>1, <3>3 DEF ReadsBack, StructsArePlain, NoFunctions, Given
    <2>3. CASE stage \notin {"panicked", "resolved"}
      BY <2>3 DEF ReadsBack
    <2> QED BY <2>1, <2>2, <2>3
  <1> QED BY <1>1, HeldIsTraced, PTL

LEMMA ExportedOnce ==
  ASSUME IInv, stage = "exported"
  PROVE  json \in Exports(held[2]) /\ IsValue(held[2]) /\ NoFunctions(held[2])
  <1>1. held[2] = FromVal(Bound[2]) /\ NoFunctions(Given)
    BY BoundAndRead, Errors DEF IInv, HeldInv
  <1> QED BY <1>1, BoundAndRead DEF IInv, HeldInv

\* The JSON of any value that a variable gives back does not depend on the order of a hash map,
\* unless keys of two types have one text and different values (json.rs).
THEOREM ExportsAgree == Spec => []ExportIsOrderFree
  <1>1. IInv => ExportIsOrderFree
    BY ExportedOnce, ExportsAreRight DEF ExportIsOrderFree, ExportCollides
  <1> QED BY <1>1, HeldIsTraced, PTL

\* Any such value is exported, unless it holds a struct or a duration without a number of
\* nanoseconds where an export looks (json.rs).
THEOREM ExportsAreMade == Spec => []ExportedOrRefused
  <1>1. IInv => ExportedOrRefused
    BY ExportedOnce, ExportsAreRight DEF ExportedOrRefused, ExportRefused, Refusing
  <1> QED BY <1>1, HeldIsTraced, PTL
=============================================================================
