---------------------------- MODULE ScopeProofs -----------------------------
(* Theorems about Scope, for trees of contexts of any depth and width and any names, *)
(* values and resolvers.                                                             *)
EXTENDS Scope, Recursion, TLAPS, SequenceTheorems

-----------------------------------------------------------------------------
(* Lookup in a chain. *)

\* The innermost context of a chain is asked first; the contexts above it answer for
\* what it does not know.
LEMMA InnermostFirst ==
  ASSUME NEW m \in Nat, NEW above, NEW chain, NEW n,
         DOMAIN above = 1..m, DOMAIN chain = 1..(m + 1),
         \A i \in 1..m : chain[i] = above[i]
  PROVE  GetVariable(chain, n) =
           IF Known(chain[m + 1])[n] # Absent THEN Known(chain[m + 1])[n]
           ELSE GetVariable(above, n)
  <1> DEFINE found == {i \in DOMAIN chain : Known(chain[i])[n] # Absent}
             foundAbove == {i \in DOMAIN above : Known(above[i])[n] # Absent}
  <1>1. GetVariable(chain, n) = IF found = {} THEN Absent
                                ELSE Known(chain[CHOOSE i \in found : \A j \in found : j <= i])[n]
    BY DEF GetVariable
  <1>2. GetVariable(above, n) =
          IF foundAbove = {} THEN Absent
          ELSE Known(above[CHOOSE i \in foundAbove : \A j \in foundAbove : j <= i])[n]
    BY DEF GetVariable
  <1>3. CASE Known(chain[m + 1])[n] # Absent
    <2>1. m + 1 \in found /\ \A j \in found : j <= m + 1 /\ j \in Nat
      BY <1>3
    <2> DEFINE last == CHOOSE i \in found : \A j \in found : j <= i
    <2>2. last \in found /\ \A j \in found : j <= last
      <3> HIDE DEF found
      <3> QED BY <2>1
    <2>3. last = m + 1
      <3> HIDE DEF found, last
      <3> QED BY <2>1, <2>2
    <2> QED BY <1>1, <2>1, <2>3, <1>3
  <1>4. CASE Known(chain[m + 1])[n] = Absent
    <2>1. found = foundAbove
      BY <1>4
    <2>2. CASE found = {}
      BY <1>1, <1>2, <1>4, <2>1, <2>2
    <2>3. CASE found # {}
      <3> DEFINE last == CHOOSE i \in foundAbove : \A j \in foundAbove : j <= i
      <3>1. foundAbove \in SUBSET (1..m) /\ foundAbove # {}
        BY <2>1, <2>3
      <3>2. last \in foundAbove
        <4> HIDE DEF foundAbove
        <4>1. \E i \in foundAbove : \A j \in foundAbove : j <= i
          BY <3>1, LastPosition
        <4> QED BY <4>1
      <3>3. chain[last] = above[last]
        <4> HIDE DEF last
        <4> QED BY <3>1, <3>2
      <3>4. GetVariable(chain, n) = Known(chain[last])[n]
        <4> HIDE DEF found, foundAbove
        <4> QED BY <1>1, <2>1, <2>3
      <3>5. GetVariable(above, n) = Known(above[last])[n]
        <4> HIDE DEF foundAbove
        <4> QED BY <1>2, <3>1
      <3> QED BY <3>3, <3>4, <3>5, <1>4
    <2> QED BY <2>2, <2>3
  <1> QED BY <1>3, <1>4

-----------------------------------------------------------------------------
(* Paths. *)

\* The beginnings of a path.
LEMMA Prefixes ==
  ASSUME NEW p \in Paths, NEW d \in 0..Len(p)
  PROVE  /\ Len(p) \in Nat
         /\ SubSeq(p, 1, d) \in Paths
         /\ Len(SubSeq(p, 1, d)) = d
         /\ \A e \in 0..d : SubSeq(SubSeq(p, 1, d), 1, e) = SubSeq(p, 1, e)
         /\ d < Len(p) => /\ p[d + 1] \in 1..MaxChildren
                          /\ SubSeq(p, 1, d + 1) = Append(SubSeq(p, 1, d), p[d + 1])
  <1> DEFINE S == 1..MaxChildren
             q == SubSeq(p, 1, d)
  <1>0. p \in Seq(S)
    BY DEF Paths
  <1>1. Len(p) \in Nat /\ \A i \in 1..Len(p) : p[i] \in S
    BY <1>0, LenProperties, ElementOfSeq
  <1>2. d \in Int /\ \A i \in 1..d : p[i] \in S
    BY <1>1
  <1>3. /\ q \in Seq(S)
        /\ Len(q) = d
        /\ \A i \in 1..d : q[i] = p[i]
    <2>1. /\ q \in Seq(S)
          /\ Len(q) = IF 1 <= d THEN d - 1 + 1 ELSE 0
          /\ \A i \in 1..(d - 1 + 1) : q[i] = p[1 + i - 1]
      BY <1>2, SubSeqProperties
    <2>2. d - 1 + 1 = d /\ \A i \in 1..d : 1 + i - 1 = i
      BY <1>2
    <2>3. (IF 1 <= d THEN d - 1 + 1 ELSE 0) = d
      BY <1>1
    <2> HIDE DEF q, S
    <2> QED BY <2>1, <2>2, <2>3
  <1>4. ASSUME NEW e \in 0..d PROVE SubSeq(q, 1, e) = SubSeq(p, 1, e)
    <2>1. e \in Int /\ 1 \in Int /\ \A i \in 1..e : q[i] = p[i] /\ p[i] \in S /\ 1 + i - 1 = i
      BY <1>1, <1>3
    <2>2. \A i \in 1..e : q[i] \in S
      BY <2>1
    <2>3. /\ SubSeq(q, 1, e) \in Seq(S)
          /\ Len(SubSeq(q, 1, e)) = IF 1 <= e THEN e - 1 + 1 ELSE 0
          /\ \A i \in 1..(e - 1 + 1) : SubSeq(q, 1, e)[i] = q[1 + i - 1]
      <3> HIDE DEF q, S
      <3> QED BY <2>1, <2>2, SubSeqProperties
    <2>4. /\ SubSeq(p, 1, e) \in Seq(S)
          /\ Len(SubSeq(p, 1, e)) = IF 1 <= e THEN e - 1 + 1 ELSE 0
          /\ \A i \in 1..(e - 1 + 1) : SubSeq(p, 1, e)[i] = p[1 + i - 1]
      <3> HIDE DEF q, S
      <3> QED BY <2>1, SubSeqProperties
    <2>5. e - 1 + 1 = e /\ (IF 1 <= e THEN e - 1 + 1 ELSE 0) = e
      BY <1>1
    <2>6. \A i \in 1..Len(SubSeq(q, 1, e)) : SubSeq(q, 1, e)[i] = SubSeq(p, 1, e)[i]
      <3> HIDE DEF q, S
      <3> QED BY <2>1, <2>3, <2>4, <2>5
    <2> HIDE DEF q, S
    <2> QED BY <2>3, <2>4, <2>6, SeqEqual
  <1>5. ASSUME d < Len(p) PROVE p[d + 1] \in S /\ SubSeq(p, 1, d + 1) = Append(q, p[d + 1])
    <2>1. d + 1 \in 1..Len(p) /\ 1 \in 1..Len(p) /\ d + 1 - 1 = d
      BY <1>1, <1>5
    <2>2. p[d + 1] \in S
      BY <1>1, <2>1
    <2>3. SubSeq(p, 1, d + 1) = q \o <<p[d + 1]>>
      <3>1. SubSeq(p, 1, d + 1) = SubSeq(p, 1, d + 1 - 1) \o <<p[d + 1]>>
        <4> HIDE DEF S
        <4> QED BY <1>0, <2>1, SubSeqRecursiveSecond
      <3> QED BY <3>1, <2>1
    <2>4. Append(q, p[d + 1]) = q \o <<p[d + 1]>>
      <3> HIDE DEF q, S
      <3> QED BY <1>3, <2>2, AppendIsConcat
    <2> QED BY <2>2, <2>3, <2>4
  <1> QED BY <1>1, <1>3, <1>4, <1>5 DEF Paths

\* The whole of a path, and none of it.
LEMMA WholePath ==
  ASSUME NEW p \in Paths
  PROVE  SubSeq(p, 1, Len(p)) = p /\ SubSeq(p, 1, 0) = Root
  BY SubSeqFull, SubSeqEmpty DEF Paths, Root

\* The path of a scope opened on p.
LEMMA ChildPath ==
  ASSUME NEW p \in Paths, NEW k \in 1..MaxChildren
  PROVE  /\ Append(p, k) \in Paths
         /\ Append(p, k) # Root
         /\ Len(Append(p, k)) = Len(p) + 1
         /\ \A d \in 0..Len(p) : SubSeq(Append(p, k), 1, d) = SubSeq(p, 1, d)
  <1> DEFINE child == Append(p, k)
  <1>1. /\ child \in Paths
        /\ child # Root
        /\ Len(child) = Len(p) + 1
        /\ \A i \in 1..Len(p) : child[i] = p[i]
    BY AppendProperties DEF Paths, Root
  <1>2. Len(p) \in Nat
    BY LenProperties DEF Paths
  <1>3. SubSeq(child, 1, Len(p)) = p
    <2>1. Len(p) \in 0..Len(child)
      BY <1>1, <1>2
    <2>2. \A i \in 1..Len(p) : p[i] \in 1..MaxChildren /\ child[i] \in 1..MaxChildren
      BY <1>1, ElementOfSeq DEF Paths
    <2>3. Len(p) \in Int /\ 1 \in Int
      BY <1>2
    <2>4. /\ SubSeq(child, 1, Len(p)) \in Seq(1..MaxChildren)
          /\ \A i \in 1..(Len(p) - 1 + 1) : SubSeq(child, 1, Len(p))[i] = child[1 + i - 1]
      <3> HIDE DEF child
      <3> QED BY <2>2, <2>3, SubSeqProperties
    <2>5. Len(SubSeq(child, 1, Len(p))) = Len(p)
      <3> HIDE DEF child
      <3> QED BY <1>1, <2>1, Prefixes
    <2>6. \A i \in 1..Len(SubSeq(child, 1, Len(p))) : SubSeq(child, 1, Len(p))[i] = p[i]
      <3>1. Len(p) - 1 + 1 = Len(p) /\ \A i \in 1..Len(p) : 1 + i - 1 = i
        BY <1>2
      <3> HIDE DEF child
      <3> QED BY <1>1, <2>4, <2>5, <3>1
    <2> HIDE DEF child
    <2> QED BY <2>4, <2>5, <2>6, SeqEqual DEF Paths
  <1>4. \A d \in 0..Len(p) : SubSeq(SubSeq(child, 1, Len(p)), 1, d) = SubSeq(child, 1, d)
    <2>1. Len(p) \in 0..Len(child)
      BY <1>1, <1>2
    <2> HIDE DEF child
    <2> QED BY <1>1, <2>1, Prefixes
  <1> QED BY <1>1, <1>3, <1>4

-----------------------------------------------------------------------------
(* The type invariant. *)

\* A context without bindings, and what setters make of a context.
LEMMA LevelTypes ==
  /\ EmptyLevel(Names) \in Levels
  /\ \A l \in Levels, n \in Names, v \in Values : [l EXCEPT !.variables[n] = v] \in Levels
  /\ \A l \in Levels, r \in Resolvers : [l EXCEPT !.resolver = r] \in Levels
  BY ResolversAssumption DEF EmptyLevel, NoBindings, Levels

\* What setters do to the tree: the contexts stay, and all but one keep what they hold.
LEMMA SetterEffect ==
  ASSUME TypeOK, NEW p \in Live,
         \/ \E n \in Names, v \in Values : AddVariable(p, n, v)
         \/ \E r \in Resolvers : SetVariableResolver(p, r)
         \/ \E f \in Functions, body \in Bodies : AddFunction(p, f, body)
  PROVE  /\ level' \in [Live -> Levels]
         /\ \A q \in Live \ {p} : level'[q] = level[q]
  <1>1. level \in [Live -> Levels]
    BY DEF TypeOK
  <1>2. ASSUME NEW n \in Names, NEW v \in Values, AddVariable(p, n, v)
        PROVE  level' \in [Live -> Levels] /\ \A q \in Live \ {p} : level'[q] = level[q]
    <2>1. level' = [level EXCEPT ![p] = [level[p] EXCEPT !.variables[n] = v]]
      BY <1>2 DEF AddVariable
    <2>2. [level[p] EXCEPT !.variables[n] = v] \in Levels
      BY <1>1, LevelTypes
    <2> QED BY <1>1, <2>1, <2>2
  <1>3. ASSUME NEW r \in Resolvers, SetVariableResolver(p, r)
        PROVE  level' \in [Live -> Levels] /\ \A q \in Live \ {p} : level'[q] = level[q]
    <2>1. level' = [level EXCEPT ![p] = [level[p] EXCEPT !.resolver = r]]
      BY <1>3 DEF SetVariableResolver
    <2>2. [level[p] EXCEPT !.resolver = r] \in Levels
      BY <1>1, LevelTypes
    <2> QED BY <1>1, <2>1, <2>2
  <1>4. ASSUME NEW f \in Functions, NEW body \in Bodies, AddFunction(p, f, body)
        PROVE  level' \in [Live -> Levels] /\ \A q \in Live \ {p} : level'[q] = level[q]
    BY <1>1, <1>4 DEF AddFunction
  <1> QED BY <1>2, <1>3, <1>4

\* What opening a scope does to the tree.
LEMMA OpenEffect ==
  ASSUME TypeOK, NEW p \in Live, NEW k \in 1..MaxChildren, NewInnerScope(p, k)
  PROVE  /\ Append(p, k) \notin Live
         /\ Live' = Live \cup {Append(p, k)}
         /\ level' \in [Live' -> Levels]
         /\ level'[Append(p, k)] = EmptyLevel(Names)
         /\ \A q \in Live : level'[q] = level[q]
  BY LevelTypes DEF NewInnerScope, TypeOK, Live

\* What dropping a scope does to the tree.
LEMMA DropEffect ==
  ASSUME TypeOK, NEW p \in Live, Drop(p)
  PROVE  /\ p # Root /\ ~Shared(p)
         /\ Live' = Live \ {p}
         /\ level' \in [Live' -> Levels]
         /\ \A q \in Live \ {p} : level'[q] = level[q]
  BY DEF Drop, TypeOK, Live

\* No live context lies below one that no scope borrows.
LEMMA Unborrowed ==
  ASSUME TypeOK, NEW p \in Live, ~Shared(p),
         NEW q \in Live, NEW d \in 0..Len(q), SubSeq(q, 1, d) = p
  PROVE  q = p
  <1>1. q \in Paths /\ Len(q) \in Nat
    BY Prefixes DEF TypeOK
  <1>2. CASE d < Len(q)
    <2>1. q[d + 1] \in 1..MaxChildren /\ SubSeq(q, 1, d + 1) = Append(p, q[d + 1])
      BY <1>1, <1>2, Prefixes
    <2>2. SubSeq(q, 1, d + 1) \in Live
      <3>1. d + 1 \in 0..Len(q)
        BY <1>1, <1>2
      <3> QED BY <3>1 DEF TypeOK
    <2> QED BY <2>1, <2>2 DEF Shared
  <1>3. CASE d = Len(q)
    BY <1>1, <1>3, WholePath
  <1> QED BY <1>1, <1>2, <1>3

\* No step breaks the type invariant.
LEMMA TypeOKStep == TypeOK /\ [Next]_vars => TypeOK'
  <1> SUFFICES ASSUME TypeOK, [Next]_vars PROVE TypeOK'
    OBVIOUS
  <1>1. CASE UNCHANGED vars
    BY <1>1 DEF TypeOK, vars, Live
  <1>2. ASSUME NEW p \in Live,
               \/ \E n \in Names, v \in Values : AddVariable(p, n, v)
               \/ \E r \in Resolvers : SetVariableResolver(p, r)
               \/ \E f \in Functions, body \in Bodies : AddFunction(p, f, body)
        PROVE  TypeOK'
    <2>1. level' \in [Live -> Levels]
      BY <1>2, SetterEffect
    <2>2. functions' \in [Functions -> Bodies \cup {NoFunction}]
      BY <1>2 DEF AddVariable, SetVariableResolver, AddFunction, TypeOK
    <2>3. Live' = Live
      BY <2>1 DEF Live
    <2> QED BY <2>1, <2>2, <2>3 DEF TypeOK
  <1>3. ASSUME NEW p \in Live, NEW k \in 1..MaxChildren, NewInnerScope(p, k)
        PROVE  TypeOK'
    <2> DEFINE child == Append(p, k)
    <2>1. /\ Live' = Live \cup {child}
          /\ level' \in [Live' -> Levels]
      BY <1>3, OpenEffect
    <2>2. p \in Paths
      BY DEF TypeOK
    <2>3. child \in Paths /\ Len(child) = Len(p) + 1 /\ Len(p) \in Nat
      BY <2>2, ChildPath, LenProperties DEF Paths
    <2>4. ASSUME NEW d \in 0..Len(child) PROVE SubSeq(child, 1, d) \in Live'
      <3>1. CASE d = Len(child)
        <4>1. SubSeq(child, 1, d) = child
          <5> HIDE DEF child
          <5> QED BY <2>3, <3>1, WholePath
        <4> QED BY <2>1, <4>1
      <3>2. CASE d \in 0..Len(p)
        BY <2>1, <2>2, <3>2, ChildPath DEF TypeOK
      <3> HIDE DEF child
      <3> QED BY <2>3, <3>1, <3>2
    <2>5. functions' = functions
      BY <1>3 DEF NewInnerScope
    <2>6. \A q \in Live' : \A d \in 0..Len(q) : SubSeq(q, 1, d) \in Live'
      <3> HIDE DEF child
      <3> QED BY <2>1, <2>4 DEF TypeOK
    <2>7. Live' \subseteq Paths
      <3> HIDE DEF child
      <3> QED BY <2>1, <2>3 DEF TypeOK
    <2> QED BY <2>1, <2>5, <2>6, <2>7 DEF TypeOK
  <1>4. ASSUME NEW p \in Live, Drop(p) PROVE TypeOK'
    <2>1. /\ ~Shared(p)
          /\ Live' = Live \ {p}
          /\ level' \in [Live' -> Levels]
      BY <1>4, DropEffect
    <2>2. functions' = functions
      BY <1>4 DEF Drop
    <2>3. ASSUME NEW q \in Live', NEW d \in 0..Len(q) PROVE SubSeq(q, 1, d) \in Live'
      <3>1. q \in Live /\ q # p
        BY <2>1
      <3>2. SubSeq(q, 1, d) \in Live
        BY <3>1 DEF TypeOK
      <3>3. SubSeq(q, 1, d) # p
        BY <2>1, <3>1, Unborrowed
      <3> QED BY <2>1, <3>2, <3>3
    <2> QED BY <2>1, <2>2, <2>3 DEF TypeOK
  <1> QED BY <1>1, <1>2, <1>3, <1>4 DEF Next

\* At the start there is the root alone.
LEMMA TypeOKInit == Init => TypeOK
  <1> SUFFICES ASSUME Init PROVE TypeOK
    OBVIOUS
  <1>1. Live = {Root} /\ level \in [Live -> Levels]
    BY LevelTypes DEF Init, Live
  <1>2. Root \in Paths /\ Len(Root) = 0
    BY EmptySeq DEF Root, Paths
  <1>3. \A d \in 0..Len(Root) : SubSeq(Root, 1, d) = Root
    BY <1>2, WholePath
  <1>4. functions \in [Functions -> Bodies \cup {NoFunction}]
    BY DEF Init
  <1> QED BY <1>1, <1>2, <1>3, <1>4 DEF TypeOK

\* Every live context is well formed and below live contexts only: no scope outlives the
\* context it was opened on, for any tree of scopes.
THEOREM TypeCorrect == Spec => []TypeOK
  <1> QED BY TypeOKInit, TypeOKStep, PTL DEF Spec

-----------------------------------------------------------------------------
(* Who sees a step. *)

\* A context sees what its chain holds.
LEMMA SameChainSameView ==
  ASSUME TypeOK, NEW q \in Live,
         \A d \in 0..Len(q) : level'[SubSeq(q, 1, d)] = level[SubSeq(q, 1, d)]
  PROVE  View(q)' = View(q)
  <1>1. Len(q) \in Nat
    BY Prefixes, LenProperties DEF TypeOK, Paths
  <1>2. \A i \in 1..(Len(q) + 1) : i - 1 \in 0..Len(q)
    BY <1>1
  <1>3. Chain(q)' = Chain(q)
    BY <1>2 DEF Chain
  <1> QED BY <1>3 DEF View

\* A change to a context that no scope borrows is seen by no other context.
LEMMA OthersUntouched ==
  ASSUME TypeOK, NEW p \in Live, ~Shared(p),
         \A r \in Live \ {p} : level'[r] = level[r],
         NEW q \in Live, q # p
  PROVE  View(q)' = View(q)
  <1>1. ASSUME NEW d \in 0..Len(q) PROVE level'[SubSeq(q, 1, d)] = level[SubSeq(q, 1, d)]
    <2>1. SubSeq(q, 1, d) \in Live
      BY DEF TypeOK
    <2>2. SubSeq(q, 1, d) # p
      BY Unborrowed
    <2> QED BY <2>1, <2>2
  <1> QED BY <1>1, SameChainSameView

\* A step is seen by at most one context.
LEMMA StepIsSeenByOne ==
  ASSUME TypeOK, Next
  PROVE  \E p \in Live : \A q \in Live \cap Live' : q # p => View(q)' = View(q)
  <1>1. ASSUME NEW p \in Live,
               \/ \E n \in Names, v \in Values : AddVariable(p, n, v)
               \/ \E r \in Resolvers : SetVariableResolver(p, r)
               \/ \E f \in Functions, body \in Bodies : AddFunction(p, f, body)
        PROVE  \A q \in Live \cap Live' : q # p => View(q)' = View(q)
    <2>1. ~Shared(p)
      BY <1>1 DEF AddVariable, SetVariableResolver, AddFunction
    <2>2. \A r \in Live \ {p} : level'[r] = level[r]
      BY <1>1, SetterEffect
    <2>3. ASSUME NEW q \in Live, q # p PROVE View(q)' = View(q)
      BY <2>1, <2>2, <2>3, OthersUntouched
    <2> QED BY <2>1, <2>3
  <1>2. ASSUME NEW p \in Live, NEW k \in 1..MaxChildren, NewInnerScope(p, k)
        PROVE  \A q \in Live : View(q)' = View(q)
    <2> SUFFICES ASSUME NEW q \in Live PROVE View(q)' = View(q)
      OBVIOUS
    <2>1. \A d \in 0..Len(q) : SubSeq(q, 1, d) \in Live
      BY DEF TypeOK
    <2>2. \A d \in 0..Len(q) : level'[SubSeq(q, 1, d)] = level[SubSeq(q, 1, d)]
      BY <1>2, <2>1, OpenEffect
    <2> QED BY <2>2, SameChainSameView
  <1>3. ASSUME NEW p \in Live, Drop(p)
        PROVE  \A q \in Live \cap Live' : q # p => View(q)' = View(q)
    <2>1. ~Shared(p) /\ \A r \in Live \ {p} : level'[r] = level[r]
      BY <1>3, DropEffect
    <2>2. ASSUME NEW q \in Live, q # p PROVE View(q)' = View(q)
      BY <2>1, <2>2, OthersUntouched
    <2> QED BY <2>1, <2>2
  <1> QED BY <1>1, <1>2, <1>3 DEF Next

\* Nothing that happens in one evaluation is seen by another, however many scopes are open
\* below the root they share.
THEOREM Isolated == Spec => Isolation
  <1>1. TypeOK /\ [Next]_vars =>
          [LET changed == {p \in Live \cap DOMAIN level' : View(p)' # View(p)}
           IN \A p, q \in changed : p = q]_vars
    <2> SUFFICES ASSUME TypeOK, Next
                 PROVE  LET changed == {p \in Live \cap DOMAIN level' : View(p)' # View(p)}
                        IN \A p, q \in changed : p = q
      OBVIOUS
    <2>1. PICK p \in Live : \A q \in Live \cap Live' : q # p => View(q)' = View(q)
      BY StepIsSeenByOne
    <2> QED BY <2>1 DEF Live
  <1> QED BY <1>1, TypeCorrect, PTL DEF Spec, Isolation

-----------------------------------------------------------------------------
(* Chains of contexts implement contexts that hold all they see. *)

\* What a context sees, told from what its parent sees.
LEMMA ViewFromParent ==
  ASSUME TypeOK, NEW p \in Live
  PROVE  View(p) = [n \in Names |-> IF level[p].resolver[n] # Absent THEN level[p].resolver[n]
                                    ELSE Unveiled(p)[n]]
  <1>1. /\ level[p].variables \in [Names -> Values \cup {Absent}]
        /\ level[p].resolver \in [Names -> Resolved \cup {Absent}]
    BY DEF TypeOK, Levels
  <1>2. p \in Paths /\ Len(p) \in Nat
    BY LenProperties DEF TypeOK, Paths
  <1>3. \A n \in Names : Known(level[p])[n] = IF level[p].resolver[n] # Absent THEN level[p].resolver[n]
                                              ELSE level[p].variables[n]
    BY <1>1 DEF Known, Over
  <1>4. /\ DOMAIN Chain(p) = 1..(Len(p) + 1)
        /\ Chain(p)[Len(p) + 1] = level[p]
    <2>1. Chain(p)[Len(p) + 1] = level[SubSeq(p, 1, Len(p) + 1 - 1)]
      BY <1>2 DEF Chain
    <2>2. Len(p) + 1 - 1 = Len(p)
      BY <1>2
    <2> QED BY <1>2, <2>1, <2>2, WholePath DEF Chain
  <1>5. \A n \in Names : View(p)[n] = GetVariable(Chain(p), n)
    BY DEF View
  <1>6. ASSUME NEW n \in Names
        PROVE  View(p)[n] = IF level[p].resolver[n] # Absent THEN level[p].resolver[n]
                            ELSE Unveiled(p)[n]
    <2>1. CASE p = Root
      <3> DEFINE above == <<>>
      <3>1. DOMAIN above = 1..Len(p) /\ \A i \in 1..Len(p) : Chain(p)[i] = above[i]
        BY <2>1 DEF Root
      <3>2. GetVariable(Chain(p), n) =
              IF Known(Chain(p)[Len(p) + 1])[n] # Absent THEN Known(Chain(p)[Len(p) + 1])[n]
              ELSE GetVariable(above, n)
        <4> HIDE DEF above
        <4> QED BY <1>2, <1>4, <3>1, InnermostFirst
      <3>3. GetVariable(above, n) = Absent
        BY DEF GetVariable
      <3>4. Unveiled(p)[n] = level[p].variables[n]
        BY <2>1 DEF Unveiled
      <3> HIDE DEF above
      <3> QED BY <1>3, <1>4, <1>5, <3>2, <3>3, <3>4
    <2>2. CASE p # Root
      <3> DEFINE parent == SubSeq(p, 1, Len(p) - 1)
      <3>1. Len(p) - 1 \in 0..Len(p)
        BY <1>2, <2>2, EmptySeq DEF Paths, Root
      <3>2. /\ Len(parent) = Len(p) - 1
            /\ \A d \in 0..(Len(p) - 1) : SubSeq(parent, 1, d) = SubSeq(p, 1, d)
        BY <1>2, <3>1, Prefixes
      <3>3. DOMAIN Chain(parent) = 1..Len(p)
        <4>1. Len(p) - 1 + 1 = Len(p)
          BY <1>2
        <4> HIDE DEF parent
        <4> QED BY <3>2, <4>1 DEF Chain
      <3>4. ASSUME NEW i \in 1..Len(p) PROVE Chain(p)[i] = Chain(parent)[i]
        <4>1. i - 1 \in 0..(Len(p) - 1) /\ i \in 1..(Len(p) + 1)
          BY <1>2
        <4>2. i \in 1..(Len(parent) + 1)
          BY <1>2, <3>2
        <4>3. Chain(p)[i] = level[SubSeq(p, 1, i - 1)]
          BY <4>1 DEF Chain
        <4>4. Chain(parent)[i] = level[SubSeq(parent, 1, i - 1)]
          <5> HIDE DEF parent
          <5> QED BY <4>2 DEF Chain
        <4> QED BY <3>2, <4>1, <4>3, <4>4
      <3>5. GetVariable(Chain(p), n) =
              IF Known(Chain(p)[Len(p) + 1])[n] # Absent THEN Known(Chain(p)[Len(p) + 1])[n]
              ELSE GetVariable(Chain(parent), n)
        <4> HIDE DEF parent
        <4> QED BY <1>2, <1>4, <3>3, <3>4, InnermostFirst
      <3>6. View(parent)[n] = GetVariable(Chain(parent), n)
        BY DEF View
      <3>7. Unveiled(p)[n] = IF level[p].variables[n] # Absent THEN level[p].variables[n]
                             ELSE View(parent)[n]
        BY <1>1, <2>2 DEF Unveiled, Over
      <3> HIDE DEF parent
      <3> QED BY <1>3, <1>4, <1>5, <3>5, <3>6, <3>7
    <2> QED BY <2>1, <2>2
  <1>7. View(p) = [n \in Names |-> View(p)[n]]
    BY DEF View
  <1> QED BY <1>6, <1>7

\* The parent of a context that is not the root.
LEMMA ParentPath ==
  ASSUME TypeOK, NEW q \in Live, q # Root
  PROVE  /\ SubSeq(q, 1, Len(q) - 1) \in Live
         /\ SubSeq(q, 1, Len(q) - 1) # q
         /\ Len(q) - 1 \in 0..Len(q)
  <1>1. q \in Paths /\ Len(q) \in Nat
    BY LenProperties DEF TypeOK, Paths
  <1>2. Len(q) - 1 \in 0..Len(q)
    BY <1>1, EmptySeq DEF Paths, Root
  <1>3. Len(SubSeq(q, 1, Len(q) - 1)) = Len(q) - 1
    BY <1>1, <1>2, Prefixes
  <1>4. Len(q) - 1 # Len(q)
    BY <1>1
  <1> QED BY <1>2, <1>3, <1>4 DEF TypeOK

\* A context that keeps its variables sees the same below its resolver, whatever happens
\* to a context that no scope borrows.
LEMMA UnveiledStays ==
  ASSUME TypeOK, NEW p \in Live, ~Shared(p),
         \A r \in Live \ {p} : level'[r] = level[r],
         NEW q \in Live, level'[q].variables = level[q].variables
  PROVE  Unveiled(q)' = Unveiled(q)
  <1>1. CASE q = Root
    BY <1>1 DEF Unveiled
  <1>2. CASE q # Root
    <2> DEFINE parent == SubSeq(q, 1, Len(q) - 1)
    <2>1. parent \in Live /\ parent # q /\ Len(q) - 1 \in 0..Len(q)
      BY <1>2, ParentPath
    <2>2. parent # p
      BY <2>1, Unborrowed
    <2>3. View(parent)' = View(parent)
      <3> HIDE DEF parent
      <3> QED BY <2>1, <2>2, OthersUntouched
    <2> QED BY <1>2, <2>3 DEF Unveiled
  <1> QED BY <1>1, <1>2

\* The state of Environment that a state of Scope stands for.
Sees  == [p \in Live |-> Unveiled(p)]
Veils == [p \in Live |-> level[p].resolver]
Calls == [p \in Live |-> [f \in Functions |-> GetFunction(p, f)]]

\* What Environment's context sees is what get_variable answers.
LEMMA SameViews ==
  ASSUME TypeOK, NEW p \in Live
  PROVE  View(p) = [n \in Names |-> IF Veils[p][n] # Absent THEN Veils[p][n] ELSE Sees[p][n]]
  <1>1. Veils[p] = level[p].resolver /\ Sees[p] = Unveiled(p)
    BY DEF Veils, Sees
  <1> QED BY <1>1, ViewFromParent

\* A new tree stands for a new environment.
LEMMA InitImplements == Init => Env!Init
  <1> SUFFICES ASSUME Init PROVE Env!Init
    OBVIOUS
  <1>1. Live = {Root} /\ level[Root] = EmptyLevel(Names)
    BY DEF Init, Live
  <1>2. Unveiled(Root) = [n \in Names |-> <<"absent">>]
    BY <1>1 DEF Unveiled, EmptyLevel, NoBindings, Absent
  <1>3. level[Root].resolver = [n \in Names |-> <<"absent">>]
    BY <1>1 DEF EmptyLevel, NoBindings, Absent
  <1>4. functions = [f \in Functions |-> <<"no function">>]
    BY DEF Init, NoFunction
  <1> QED BY <1>1, <1>2, <1>3, <1>4
          DEF Env!Init, Env!Nothing, Env!Absent, Env!NoFunction, Root, GetFunction

\* add_variable binds the name in one context's copy.
LEMMA AddVariableImplements ==
  ASSUME TypeOK, NEW p \in Live, NEW n \in Names, NEW v \in Values, AddVariable(p, n, v)
  PROVE  /\ Live' = Live
         /\ Sees' = [Sees EXCEPT ![p][n] = v]
         /\ Veils' = Veils
  <1>1. /\ level' \in [Live -> Levels] /\ level \in [Live -> Levels]
        /\ \A q \in Live \ {p} : level'[q] = level[q]
    BY SetterEffect DEF TypeOK
  <1>2. ~Shared(p) /\ level' = [level EXCEPT ![p].variables[n] = v]
    BY DEF AddVariable
  <1>3. Live' = Live
    BY <1>1 DEF Live
  <1>4. /\ level[p].variables \in [Names -> Values \cup {Absent}]
        /\ level'[p].variables = [level[p].variables EXCEPT ![n] = v]
        /\ level'[p].resolver = level[p].resolver
    BY <1>1, <1>2 DEF Levels
  <1>5. Veils' = Veils
    BY <1>1, <1>3, <1>4 DEF Veils
  <1>6. \A q \in Live \ {p} : Unveiled(q)' = Unveiled(q)
    BY <1>1, <1>2, UnveiledStays
  <1>7. Unveiled(p)' = [Unveiled(p) EXCEPT ![n] = v]
    <2>1. v # Absent
      BY ValuesAssumption
    <2>2. CASE p = Root
      BY <1>4, <2>2 DEF Unveiled
    <2>3. CASE p # Root
      <3> DEFINE parent == SubSeq(p, 1, Len(p) - 1)
      <3>1. parent \in Live /\ parent # p
        BY <2>3, ParentPath
      <3>2. View(parent)' = View(parent)
        <4> HIDE DEF parent
        <4> QED BY <1>1, <1>2, <3>1, OthersUntouched
      <3>3. Unveiled(p) = Over(level[p].variables, View(parent))
        BY <2>3 DEF Unveiled
      <3>4. Unveiled(p)' = Over(level'[p].variables, View(parent))
        BY <2>3, <3>2 DEF Unveiled
      <3> HIDE DEF parent
      <3> QED BY <1>4, <2>1, <3>3, <3>4 DEF Over
    <2> QED BY <2>2, <2>3
  <1>8. Sees' = [q \in Live |-> Unveiled(q)']
    BY <1>3 DEF Sees
  <1>9. Sees' = [Sees EXCEPT ![p][n] = v]
    BY <1>6, <1>7, <1>8 DEF Sees
  <1> QED BY <1>3, <1>5, <1>9

\* set_variable_resolver veils one context.
LEMMA ResolverImplements ==
  ASSUME TypeOK, NEW p \in Live, NEW r \in Resolvers, SetVariableResolver(p, r)
  PROVE  /\ Live' = Live
         /\ Veils' = [Veils EXCEPT ![p] = r]
         /\ Sees' = Sees
  <1>1. /\ level' \in [Live -> Levels] /\ level \in [Live -> Levels]
        /\ \A q \in Live \ {p} : level'[q] = level[q]
    BY SetterEffect DEF TypeOK
  <1>2. ~Shared(p) /\ level' = [level EXCEPT ![p].resolver = r]
    BY DEF SetVariableResolver
  <1>3. Live' = Live
    BY <1>1 DEF Live
  <1>4. level'[p].variables = level[p].variables /\ level'[p].resolver = r
    BY <1>1, <1>2 DEF Levels
  <1>5. \A q \in Live : Unveiled(q)' = Unveiled(q)
    BY <1>1, <1>2, <1>4, UnveiledStays
  <1>6. Sees' = Sees
    BY <1>3, <1>5 DEF Sees
  <1>7. Veils' = [Veils EXCEPT ![p] = r]
    BY <1>1, <1>3, <1>4 DEF Veils
  <1> QED BY <1>3, <1>6, <1>7

\* new_inner_scope copies what the outer context sees.
LEMMA OpenImplements ==
  ASSUME TypeOK, NEW p \in Live, NEW k \in 1..MaxChildren, NewInnerScope(p, k)
  PROVE  /\ Append(p, k) \notin Live
         /\ Sees' = [q \in Live \cup {Append(p, k)} |-> IF q = Append(p, k) THEN View(p) ELSE Sees[q]]
         /\ Veils' = [q \in Live \cup {Append(p, k)} |->
                        IF q = Append(p, k) THEN NoBindings(Names) ELSE Veils[q]]
  <1> DEFINE child == Append(p, k)
  <1>1. /\ child \notin Live
        /\ Live' = Live \cup {child}
        /\ level'[child] = EmptyLevel(Names)
        /\ \A q \in Live : level'[q] = level[q]
    BY OpenEffect
  <1>2. ASSUME NEW q \in Live PROVE View(q)' = View(q)
    <2>1. \A d \in 0..Len(q) : SubSeq(q, 1, d) \in Live
      BY DEF TypeOK
    <2> HIDE DEF child
    <2> QED BY <1>1, <2>1, SameChainSameView
  <1>3. ASSUME NEW q \in Live PROVE Unveiled(q)' = Unveiled(q)
    <2>1. CASE q = Root
      BY <1>1, <2>1 DEF Unveiled
    <2>2. CASE q # Root
      <3>1. SubSeq(q, 1, Len(q) - 1) \in Live
        BY <2>2, ParentPath
      <3>2. View(SubSeq(q, 1, Len(q) - 1))' = View(SubSeq(q, 1, Len(q) - 1))
        BY <1>2, <3>1
      <3> QED BY <1>1, <2>2, <3>2 DEF Unveiled
    <2> QED BY <2>1, <2>2
  <1>4. Unveiled(child)' = View(p)
    <2>1. p \in Paths /\ Len(p) \in Nat
      BY LenProperties DEF TypeOK, Paths
    <2>2. child # Root /\ Len(child) - 1 = Len(p) /\ SubSeq(child, 1, Len(p)) = p
      <3>1. Len(p) \in 0..Len(p)
        BY <2>1
      <3>2. child # Root /\ Len(child) = Len(p) + 1 /\ SubSeq(child, 1, Len(p)) = SubSeq(p, 1, Len(p))
        BY <2>1, <3>1, ChildPath
      <3> HIDE DEF child
      <3> QED BY <2>1, <3>2, WholePath
    <2>3. Unveiled(child)' = Over(NoBindings(Names), View(p)')
      <3> HIDE DEF child
      <3>1. Unveiled(child)' = Over(level'[child].variables, View(SubSeq(child, 1, Len(child) - 1))')
        BY <2>2 DEF Unveiled
      <3>2. level'[child].variables = NoBindings(Names)
        BY <1>1 DEF EmptyLevel
      <3> QED BY <2>2, <3>1, <3>2
    <2>4. View(p) = [n \in Names |-> View(p)[n]]
      BY DEF View
    <2>5. Over(NoBindings(Names), View(p)) = [n \in Names |-> View(p)[n]]
      BY DEF Over, NoBindings
    <2> HIDE DEF child
    <2> QED BY <1>2, <2>3, <2>4, <2>5
  <1>5. level'[child].resolver = NoBindings(Names)
    BY <1>1 DEF EmptyLevel
  <1> HIDE DEF child
  <1>6. Sees' = [q \in Live \cup {child} |-> IF q = child THEN View(p) ELSE Sees[q]]
    <2>1. Sees' = [q \in Live \cup {child} |-> Unveiled(q)']
      BY <1>1 DEF Sees
    <2>2. \A q \in Live : Sees[q] = Unveiled(q)
      BY DEF Sees
    <2> QED BY <1>1, <1>3, <1>4, <2>1, <2>2
  <1>7. Veils' = [q \in Live \cup {child} |-> IF q = child THEN NoBindings(Names) ELSE Veils[q]]
    BY <1>1, <1>5 DEF Veils
  <1> QED BY <1>1, <1>6, <1>7 DEF child

\* Dropping a scope closes it.
LEMMA DropImplements ==
  ASSUME TypeOK, NEW p \in Live, Drop(p)
  PROVE  /\ p # Root
         /\ Sees' = [q \in Live \ {p} |-> Sees[q]]
         /\ Veils' = [q \in Live \ {p} |-> Veils[q]]
  <1>1. /\ p # Root /\ ~Shared(p)
        /\ Live' = Live \ {p}
        /\ \A q \in Live \ {p} : level'[q] = level[q]
    BY DropEffect
  <1>2. \A q \in Live \ {p} : Unveiled(q)' = Unveiled(q)
    BY <1>1, UnveiledStays
  <1>3. Sees' = [q \in Live \ {p} |-> Sees[q]]
    BY <1>1, <1>2 DEF Sees
  <1>4. Veils' = [q \in Live \ {p} |-> Veils[q]]
    BY <1>1 DEF Veils
  <1> QED BY <1>1, <1>3, <1>4

\* While the functions stay, the contexts that live on call what they called, and a new one
\* what its parent calls.
LEMMA CallsStay ==
  ASSUME functions' = functions
  PROVE  /\ Live' = Live => Calls' = Calls
         /\ \A p \in Live : \A child : Live' = Live \cup {child} =>
              Calls' = [q \in Live \cup {child} |-> IF q = child THEN Calls[p] ELSE Calls[q]]
         /\ \A p : Live' = Live \ {p} => Calls' = [q \in Live \ {p} |-> Calls[q]]
  <1>1. Calls = [p \in Live |-> [f \in Functions |-> functions[f]]]
    BY DEF Calls, GetFunction
  <1>2. Calls' = [p \in Live' |-> [f \in Functions |-> functions[f]]]
    BY DEF Calls, GetFunction
  <1> QED BY <1>1, <1>2

\* add_function gives the function to the root while no scope is open, or does nothing.
LEMMA AddFunctionImplements ==
  ASSUME TypeOK, NEW p \in Live, NEW f \in Functions, NEW body \in Bodies, AddFunction(p, f, body)
  PROVE  \/ Calls' = [Calls EXCEPT ![<<>>][f] = body]
         \/ Calls' = Calls
  <1>1. Live' = Live /\ ~Shared(p)
    BY DEF AddFunction, Live
  <1>2. CASE p # Root
    <2>1. functions' = functions
      BY <1>2 DEF AddFunction
    <2> QED BY <1>1, <2>1, CallsStay
  <1>3. CASE p = Root
    <2>1. ASSUME NEW q \in Live PROVE q = Root
      <3>1. q \in Paths /\ 0 \in 0..Len(q)
        BY LenProperties DEF TypeOK, Paths
      <3>2. SubSeq(q, 1, 0) = Root
        BY <3>1, WholePath
      <3> QED BY <1>1, <1>3, <3>1, <3>2, Unborrowed
    <2>2. Live = {Root}
      BY <1>3, <2>1
    <2>3. functions' = [functions EXCEPT ![f] = body] /\ functions \in [Functions -> Bodies \cup {NoFunction}]
      BY <1>3 DEF AddFunction, TypeOK
    <2>4. Calls = [q \in {Root} |-> functions] /\ Calls' = [q \in {Root} |-> functions']
      <3>1. Calls = [q \in {Root} |-> [g \in Functions |-> functions[g]]]
        BY <2>2 DEF Calls, GetFunction
      <3>2. Calls' = [q \in {Root} |-> [g \in Functions |-> functions'[g]]]
        BY <1>1, <2>2 DEF Calls, GetFunction
      <3> QED BY <2>3, <3>1, <3>2
    <2> QED BY <2>3, <2>4 DEF Root
  <1> QED BY <1>2, <1>3

\* Steps that leave the tree alone leave what the contexts see alone.
LEMMA NothingImplements ==
  ASSUME level' = level
  PROVE  Live' = Live /\ Sees' = Sees /\ Veils' = Veils
  <1>1. Live' = Live
    BY DEF Live
  <1>2. \A p : Chain(p)' = Chain(p)
    BY DEF Chain
  <1>3. \A p : View(p)' = View(p)
    BY <1>2 DEF View
  <1>4. \A p : Unveiled(p)' = Unveiled(p)
    BY <1>3 DEF Unveiled
  <1> QED BY <1>1, <1>4 DEF Sees, Veils

\* Every step on the tree of contexts is a step on the environment, or none.
LEMMA StepImplements == TypeOK /\ [Next]_vars => [Env!Next]_(Env!vars)
  <1> SUFFICES ASSUME TypeOK, [Next]_vars PROVE Env!Next \/ UNCHANGED Env!vars
    OBVIOUS
  <1> USE DEF Sees, Veils, Calls
  <1>1. CASE UNCHANGED vars
    BY <1>1, NothingImplements, CallsStay DEF Env!vars, vars
  <1>2. DOMAIN Sees = Live
    OBVIOUS
  <1>3. ASSUME NEW p \in Live, NEW n \in Names, NEW v \in Values, AddVariable(p, n, v)
        PROVE  Env!Next
    <2>1. functions' = functions
      BY <1>3 DEF AddVariable
    <2>2. Env!Bind(p, n, v)
      BY <1>3, <2>1, AddVariableImplements, CallsStay DEF Env!Bind
    <2> QED BY <1>2, <2>2 DEF Env!Next
  <1>4. ASSUME NEW p \in Live, NEW r \in Resolvers, SetVariableResolver(p, r)
        PROVE  Env!Next
    <2>1. functions' = functions
      BY <1>4 DEF SetVariableResolver
    <2>2. Env!Veil(p, r)
      BY <1>4, <2>1, ResolverImplements, CallsStay DEF Env!Veil
    <2> QED BY <1>2, <2>2 DEF Env!Next
  <1>5. ASSUME NEW p \in Live, NEW k \in 1..MaxChildren, NewInnerScope(p, k)
        PROVE  Env!Next
    <2>1. View(p) = Env!View(p)
      BY SameViews DEF Env!View, Env!Absent, Absent
    <2>2. NoBindings(Names) = Env!Nothing
      BY DEF NoBindings, Absent, Env!Nothing, Env!Absent
    <2>3. /\ Append(p, k) \notin DOMAIN Sees
          /\ Sees' = [q \in DOMAIN Sees \cup {Append(p, k)} |->
                       IF q = Append(p, k) THEN Env!View(p) ELSE Sees[q]]
          /\ Veils' = [q \in DOMAIN Sees \cup {Append(p, k)} |->
                        IF q = Append(p, k) THEN Env!Nothing ELSE Veils[q]]
          /\ Calls' = [q \in DOMAIN Sees \cup {Append(p, k)} |->
                        IF q = Append(p, k) THEN Calls[p] ELSE Calls[q]]
      <3> HIDE DEF Sees, Veils, Calls
      <3>1. /\ Append(p, k) \notin Live
            /\ Sees' = [q \in Live \cup {Append(p, k)} |->
                         IF q = Append(p, k) THEN View(p) ELSE Sees[q]]
            /\ Veils' = [q \in Live \cup {Append(p, k)} |->
                          IF q = Append(p, k) THEN NoBindings(Names) ELSE Veils[q]]
        BY <1>5, OpenImplements
      <3>2. Calls' = [q \in Live \cup {Append(p, k)} |->
                       IF q = Append(p, k) THEN Calls[p] ELSE Calls[q]]
        BY <1>5, OpenEffect, CallsStay DEF NewInnerScope
      <3> QED BY <1>2, <2>1, <2>2, <3>1, <3>2
    <2>4. Env!OpenScope(p, k)
      BY <2>3, Zenon DEF Env!OpenScope
    <2> QED BY <1>2, <2>4 DEF Env!Next
  <1>6. ASSUME NEW p \in Live, Drop(p) PROVE Env!Next
    <2>1. Calls' = [q \in Live \ {p} |-> Calls[q]]
      <3> HIDE DEF Calls
      <3> QED BY <1>6, DropEffect, CallsStay DEF Drop
    <2>2. Env!CloseScope(p)
      BY <1>2, <1>6, <2>1, DropImplements DEF Env!CloseScope, Root
    <2> QED BY <1>2, <2>2 DEF Env!Next
  <1>7. ASSUME NEW p \in Live, NEW f \in Functions, NEW body \in Bodies, AddFunction(p, f, body)
        PROVE  Env!Next \/ UNCHANGED Env!vars
    <2>1. Sees' = Sees /\ Veils' = Veils
      BY <1>7, NothingImplements DEF AddFunction
    <2>2. Env!Define(f, body) \/ Calls' = Calls
      BY <1>7, <2>1, AddFunctionImplements DEF Env!Define
    <2> QED BY <2>1, <2>2 DEF Env!Next, Env!vars
  <1>8. CASE Next
    BY <1>3, <1>4, <1>5, <1>6, <1>7, <1>8 DEF Next
  <1> QED BY <1>1, <1>8

\* Looking a name or a function up along the chain of borrowed parents answers as if every
\* scope had been given a copy of all its parent saw and called when it was opened.
THEOREM ChainsImplementCopies == Spec => ImplementsEnvironment
  <1> QED BY InitImplements, StepImplements, TypeCorrect, PTL DEF Spec, ImplementsEnvironment, Env!Spec
=============================================================================
