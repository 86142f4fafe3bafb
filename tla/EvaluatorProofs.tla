-------------------------- MODULE EvaluatorProofs ---------------------------
(***************************************************************************)
(* Proofs about the evaluator, for all programs, root contexts and host    *)
(* functions: first of the stack and of what is looked up, then, from The  *)
(* environment of a frame on, of the results that are come to.             *)
(***************************************************************************)
EXTENDS Evaluator, Recursion, SequenceTheorems

-----------------------------------------------------------------------------
(* Sequences of anything. *)

LEMMA SequenceDomain ==
  ASSUME NEW s, IsSequence(s)
  PROVE  Len(s) \in Nat /\ DOMAIN s = 1..Len(s) /\ (s = <<>> <=> Len(s) = 0)
  <1> DEFINE S == {s[i] : i \in DOMAIN s}
  <1>1. s \in Seq(S)
    BY DEF IsSequence
  <1> HIDE DEF S
  <1> QED BY <1>1

LEMMA EmptySequence == IsSequence(<<>>) /\ Len(<<>>) = 0
  BY DEF IsSequence

\* One element more at the end.
LEMMA Appended ==
  ASSUME NEW s, IsSequence(s), NEW x
  PROVE  /\ IsSequence(Append(s, x))
         /\ Len(Append(s, x)) = Len(s) + 1
         /\ \A i \in 1..Len(s) : Append(s, x)[i] = s[i]
         /\ Append(s, x)[Len(s) + 1] = x
         /\ Append(s, x) # <<>>
  <1> DEFINE S == {s[i] : i \in DOMAIN s} \cup {x}
             t == Append(s, x)
  <1>1. s \in Seq(S)
    <2>1. s \in Seq({s[i] : i \in DOMAIN s})
      BY DEF IsSequence
    <2> QED BY <2>1
  <1> HIDE DEF S
  <1>2. x \in S
    BY DEF S
  <1>3. t \in Seq(S) /\ Len(t) = Len(s) + 1 /\ DOMAIN t = 1..Len(t) /\ Len(s) \in Nat
        /\ t[Len(s) + 1] = x /\ (\A i \in 1..Len(s) : t[i] = s[i])
    BY <1>1, <1>2
  <1>4. t \in Seq({t[i] : i \in DOMAIN t})
    <2> HIDE DEF t
    <2> QED BY <1>3
  <1> QED BY <1>3, <1>4 DEF IsSequence

\* All but the last element.
LEMMA Fronted ==
  ASSUME NEW s, IsSequence(s), s # <<>>
  PROVE  /\ IsSequence(Front(s))
         /\ Len(Front(s)) = Len(s) - 1
         /\ \A i \in 1..Len(s) - 1 : Front(s)[i] = s[i]
  <1> DEFINE S == {s[i] : i \in DOMAIN s}
             t == SubSeq(s, 1, Len(s) - 1)
  <1>1. s \in Seq(S) /\ Len(s) \in Nat /\ Len(s) >= 1
    BY SequenceDomain DEF IsSequence
  <1> HIDE DEF S
  <1>2. t \in Seq(S) /\ Len(t) = Len(s) - 1 /\ DOMAIN t = 1..Len(t)
        /\ (\A i \in 1..Len(s) - 1 : t[i] = s[i])
    <2> DEFINE n == Len(s) - 1
    <2>1. n \in Int /\ n >= 0 /\ \A i \in 1..n : s[i] \in S
      BY <1>1
    <2> HIDE DEF n
    <2>2. /\ SubSeq(s, 1, n) \in Seq(S)
          /\ Len(SubSeq(s, 1, n)) = IF 1 <= n THEN n - 1 + 1 ELSE 0
          /\ \A i \in 1..n - 1 + 1 : SubSeq(s, 1, n)[i] = s[1 + i - 1]
      BY <2>1, SubSeqProperties
    <2>3. Len(SubSeq(s, 1, n)) = n /\ \A i \in 1..n : SubSeq(s, 1, n)[i] = s[i]
      BY <2>1, <2>2
    <2> QED BY <2>2, <2>3 DEF n
  <1>3. t \in Seq({t[i] : i \in DOMAIN t})
    <2> HIDE DEF t
    <2> QED BY <1>2
  <1> QED BY <1>2, <1>3 DEF IsSequence, Front

\* Another element at one place.
LEMMA Changed ==
  ASSUME NEW s, IsSequence(s), NEW k \in 1..Len(s), NEW x
  PROVE  /\ IsSequence([s EXCEPT ![k] = x])
         /\ Len([s EXCEPT ![k] = x]) = Len(s)
         /\ \A i \in 1..Len(s) : [s EXCEPT ![k] = x][i] = IF i = k THEN x ELSE s[i]
  <1> DEFINE S == {s[i] : i \in DOMAIN s} \cup {x}
             t == [s EXCEPT ![k] = x]
  <1>1. s \in Seq(S) /\ Len(s) \in Nat /\ DOMAIN s = 1..Len(s)
    <2>1. s \in Seq({s[i] : i \in DOMAIN s})
      BY DEF IsSequence
    <2> QED BY <2>1
  <1> HIDE DEF S
  <1>2. x \in S
    BY DEF S
  <1>3. t \in Seq(S) /\ Len(t) = Len(s) /\ DOMAIN t = 1..Len(t)
        /\ (\A i \in 1..Len(s) : t[i] = IF i = k THEN x ELSE s[i])
    BY <1>1, <1>2
  <1>4. t \in Seq({t[i] : i \in DOMAIN t})
    <2> HIDE DEF t
    <2> QED BY <1>3
  <1> QED BY <1>3, <1>4 DEF IsSequence

\* One element more, as the model writes it elsewhere.
LEMMA Extended ==
  ASSUME NEW s, IsSequence(s), NEW x
  PROVE  s \o <<x>> = Append(s, x)
  <1> DEFINE S == {s[i] : i \in DOMAIN s} \cup {x}
  <1>1. s \in Seq(S)
    <2>1. s \in Seq({s[i] : i \in DOMAIN s})
      BY DEF IsSequence
    <2> QED BY <2>1
  <1>2. x \in S
    OBVIOUS
  <1> HIDE DEF S
  <1> QED BY <1>1, <1>2, AppendIsConcat

\* Another last element.
LEMMA OnTop ==
  ASSUME NEW s, IsSequence(s), s # <<>>, NEW f
  PROVE  LET t == Append(Front(s), f)
         IN /\ IsSequence(t) /\ Len(t) = Len(s) /\ t # <<>> /\ t[Len(s)] = f
            /\ \A i \in 1..Len(s) - 1 : t[i] = s[i]
  <1> DEFINE t == Append(Front(s), f)
             n == Len(s)
  <1>1. n \in Nat /\ (n - 1) + 1 = n
    BY SequenceDomain
  <1>2. /\ IsSequence(Front(s)) /\ Len(Front(s)) = n - 1
        /\ \A i \in 1..n - 1 : Front(s)[i] = s[i]
    BY Fronted
  <1>3. /\ IsSequence(t) /\ Len(t) = Len(Front(s)) + 1 /\ t # <<>> /\ t[Len(Front(s)) + 1] = f
        /\ \A i \in 1..Len(Front(s)) : t[i] = Front(s)[i]
    BY <1>2, Appended
  <1> HIDE DEF t, n
  <1> QED BY <1>1, <1>2, <1>3 DEF t, n
-----------------------------------------------------------------------------
(* The stack. *)

\* The phases in which a comprehension's scope is open.
OpenPhases == {"next", "cond", "step", "result"}

IsOpen(f) == f.fold.phase \in OpenPhases

\* A scope binds names of the model, and the accumulator as soon as it is open.
IsFold(g) ==
  /\ DOMAIN g = {"phase", "level", "accu", "items", "taken"}
  /\ g.phase \in {"init", "range"} \cup OpenPhases
  /\ DOMAIN g.level = {"variables", "resolver"}
  /\ DOMAIN g.level.variables = Names
  /\ g.level.resolver = NoBindings(Names)
  /\ g.phase \in OpenPhases => "@result" \in Names /\ g.level.variables["@result"] # Absent

IsFrame(f) ==
  /\ DOMAIN f = {"e", "done", "fold"}
  /\ IsSequence(f.done)
  /\ \A j \in 1..Len(f.done) : f.done[j] # NoResult
  /\ IsFold(f.fold)

\* The path from the program down.
IsPath(s, p) ==
  /\ s # <<>> => s[1].e = p
  /\ \A i \in 1..Len(s) : s[i].e \in Subexpressions(p) /\ (i > 1 => s[i].e \in Operands(s[i - 1].e))

\* The results in the frames, and the one a frame that is not on top waits for.
HasRoom(s) ==
  \A i \in 1..Len(s) :
    /\ Len(s[i].done) <= Room(s[i].e)
    /\ i < Len(s) => Len(s[i].done) < Room(s[i].e)

\* What is evaluated with no scope open around it is outside the program's comprehensions.
IsScoped(s, p) ==
  \A i \in 1..Len(s) : s[i].e \in Outside(p) \/ \E j \in 1..i - 1 : IsOpen(s[j])

IsStack(s, p) ==
  /\ IsSequence(s)
  /\ \A i \in 1..Len(s) : IsFrame(s[i])
  /\ IsPath(s, p)
  /\ HasRoom(s)
  /\ IsScoped(s, p)

\* A frame that is new has no results, and opens no scope.
LEMMA NewFrame ==
  ASSUME NEW c
  PROVE  /\ IsFrame(Frame(c)) /\ Frame(c).e = c /\ Frame(c).done = <<>> /\ Len(Frame(c).done) = 0
         /\ ~IsOpen(Frame(c))
  <1>1. Frame(c).e = c /\ Frame(c).done = <<>> /\ Frame(c).fold = Closed
        /\ DOMAIN Frame(c) = {"e", "done", "fold"}
    BY DEF Frame
  <1>2. IsFold(Closed) /\ Closed.phase = "init"
    BY DEF IsFold, Closed, EmptyLevel, NoBindings, OpenPhases
  <1>3. IsFrame(Frame(c))
    BY <1>1, <1>2, EmptySequence DEF IsFrame
  <1>4. ~IsOpen(Frame(c))
    BY <1>1, <1>2 DEF IsOpen, OpenPhases
  <1> QED BY <1>1, <1>3, <1>4, EmptySequence

\* The facts about programs that the stack relies on.
LEMMA ProgramFacts ==
  ASSUME NEW p \in Programs, NEW e \in Subexpressions(p)
  PROVE  /\ IsExpression(e)
         /\ Operands(e) \subseteq Subexpressions(p)
         /\ e.op = "ident" => e.name \in Names
         /\ e.op = "fold" => e.iter_var \in Names /\ e.accu_var \in Names /\ e.accu_var = "@result"
  <1>1. IsProgram(p) /\ Identifiers(Subexpressions(p)) \subseteq Names
        /\ \A x \in Subexpressions(p) : x.op = "fold" => {x.iter_var, x.accu_var} \subseteq Names
    BY ProgramsAssumption
  <1>2. IsExpression(e) /\ Operands(e) \subseteq Subexpressions(p)
    BY <1>1 DEF IsProgram
  <1>3. e.op = "ident" => e.name \in Names
    BY <1>1 DEF Identifiers
  <1>4. e.op = "fold" => e.iter_var \in Names /\ e.accu_var \in Names /\ e.accu_var = "@result"
    BY <1>1, <1>2 DEF IsExpression
  <1> QED BY <1>2, <1>3, <1>4

\* There is room for a number of results.
LEMMA RoomIsNatural ==
  ASSUME NEW e, IsExpression(e)
  PROVE  Room(e) \in Nat
  <1>1. e.op \in {"call", "member"} => Len(e.args) \in Nat
    BY SequenceDomain DEF IsExpression
  <1>2. e.op = "list" => Len(e.elements) \in Nat
    BY SequenceDomain DEF IsExpression
  <1>3. e.op \in {"map", "struct"} => Len(e.entries) \in Nat
    BY SequenceDomain DEF IsExpression
  <1>4. e.op \in {"lit", "ident", "call", "member", "select", "list", "map", "struct", "fold"}
    BY DEF IsExpression
  <1> QED BY <1>1, <1>2, <1>3, <1>4 DEF Room

\* What is outside all scopes has operands outside them, and mentions no accumulator.
LEMMA OutsideFacts ==
  ASSUME NEW p \in Programs, NEW e \in Outside(p)
  PROVE  /\ OuterOperands(e) \subseteq Outside(p)
         /\ e.op = "ident" => e.name \notin Internal
  <1>1. IsProgram(p)
    BY ProgramsAssumption
  <1>2. OuterOperands(e) \subseteq Outside(p) /\ Identifiers(Outside(p)) \cap Internal = {}
    BY <1>1 DEF IsProgram
  <1>3. e.op = "ident" => e.name \notin Internal
    BY <1>2 DEF Identifiers
  <1> QED BY <1>2, <1>3

\* An operand is started above the frame that waits for it.
LEMMA Pushed ==
  ASSUME NEW p \in Programs, NEW s, IsStack(s, p), s # <<>>,
         NEW c \in Operands(s[Len(s)].e),
         Len(s[Len(s)].done) < Room(s[Len(s)].e),
         IsOpen(s[Len(s)]) \/ c \in OuterOperands(s[Len(s)].e)
  PROVE  IsStack(Append(s, Frame(c)), p)
  <1> DEFINE t == Append(s, Frame(c))
             n == Len(s)
  <1>1. n \in Nat /\ n >= 1 /\ n \in 1..n
    BY SequenceDomain DEF IsStack
  <1>2. /\ IsSequence(t) /\ Len(t) = n + 1 /\ t # <<>> /\ t[n + 1] = Frame(c)
        /\ \A i \in 1..n : t[i] = s[i]
    BY Appended DEF IsStack
  <1>3. /\ IsFrame(Frame(c)) /\ Frame(c).e = c /\ Len(Frame(c).done) = 0
    BY NewFrame
  <1>4. s[n].e \in Subexpressions(p) /\ c \in Subexpressions(p)
    BY <1>1, ProgramFacts DEF IsStack, IsPath
  <1> HIDE DEF t, n
  <1>5. 1..n + 1 = (1..n) \cup {n + 1} /\ n + 1 > 1 /\ (n + 1) - 1 = n /\ ~(n + 1 < n + 1)
        /\ \A i \in 1..n : i < n + 1 /\ i # n + 1 /\ i \in Nat /\ (i > 1 => i - 1 \in 1..n)
    BY <1>1
  <1>6. \A i \in 1..n + 1 : IsFrame(t[i])
    BY <1>2, <1>3, <1>5 DEF IsStack, n
  <1>7. IsPath(t, p)
    <2>1. t[1].e = p
      BY <1>1, <1>2 DEF IsStack, IsPath, n
    <2>2. ASSUME NEW i \in 1..n + 1
          PROVE  t[i].e \in Subexpressions(p) /\ (i > 1 => t[i].e \in Operands(t[i - 1].e))
      <3>1. CASE i = n + 1
        BY <3>1, <1>1, <1>2, <1>3, <1>4, <1>5 DEF n
      <3>2. CASE i \in 1..n
        <4>1. s[i].e \in Subexpressions(p) /\ (i > 1 => s[i].e \in Operands(s[i - 1].e))
          BY <3>2 DEF IsStack, IsPath, n
        <4> QED BY <4>1, <3>2, <1>2, <1>5
      <3> QED BY <3>1, <3>2, <1>5
    <2> QED BY <2>1, <2>2, <1>2 DEF IsPath
  <1>8. HasRoom(t)
    <2>1. Room(c) \in Nat
      BY <1>4, ProgramFacts, RoomIsNatural
    <2>2. ASSUME NEW i \in 1..n + 1
          PROVE  Len(t[i].done) <= Room(t[i].e) /\ (i < n + 1 => Len(t[i].done) < Room(t[i].e))
      <3>1. CASE i = n + 1
        BY <3>1, <1>2, <1>3, <1>5, <2>1
      <3>2. CASE i = n
        BY <3>2, <1>1, <1>2 DEF IsStack, HasRoom, n
      <3>3. CASE i \in 1..n /\ i # n
        <4>1. i < n
          BY <3>3, <1>1
        <4>2. Len(s[i].done) <= Room(s[i].e) /\ Len(s[i].done) < Room(s[i].e)
          BY <3>3, <4>1 DEF IsStack, HasRoom, n
        <4> QED BY <4>2, <3>3, <1>2
      <3> QED BY <3>1, <3>2, <3>3, <1>5
    <2> QED BY <2>2, <1>2 DEF HasRoom
  <1>9. IsScoped(t, p)
    <2>1. ASSUME NEW i \in 1..n + 1
          PROVE  t[i].e \in Outside(p) \/ \E j \in 1..i - 1 : IsOpen(t[j])
      <3>1. CASE i \in 1..n
        <4>1. s[i].e \in Outside(p) \/ \E j \in 1..i - 1 : IsOpen(s[j])
          BY <3>1 DEF IsStack, IsScoped, n
        <4>2. \A j \in 1..i - 1 : j \in 1..n
          BY <3>1, <1>1
        <4> QED BY <4>1, <4>2, <3>1, <1>2
      <3>2. CASE i = n + 1 /\ IsOpen(s[n])
        BY <3>2, <1>1, <1>2, <1>5
      <3>3. CASE i = n + 1 /\ c \in OuterOperands(s[n].e)
        <4>1. CASE s[n].e \in Outside(p)
          BY <4>1, <3>3, OutsideFacts, <1>2, <1>3
        <4>2. CASE \E j \in 1..n - 1 : IsOpen(s[j])
          <5>1. \A j \in 1..n - 1 : j \in 1..n
            BY <1>1
          <5> QED BY <4>2, <5>1, <3>3, <1>2, <1>5
        <4> QED BY <4>1, <4>2, <1>1 DEF IsStack, IsScoped, n
      <3> QED BY <3>1, <3>2, <3>3, <1>5 DEF n
    <2> QED BY <2>1, <1>2 DEF IsScoped
  <1> QED BY <1>2, <1>6, <1>7, <1>8, <1>9 DEF IsStack, t

\* The frame on top turns into another one of the same expression.
LEMMA Replaced ==
  ASSUME NEW p, NEW s, IsStack(s, p), s # <<>>,
         NEW f, IsFrame(f), f.e = s[Len(s)].e, Len(f.done) <= Room(f.e)
  PROVE  /\ IsStack(Append(Front(s), f), p)
         /\ Append(Front(s), f) # <<>>
         /\ Len(Append(Front(s), f)) = Len(s)
         /\ Append(Front(s), f)[Len(s)] = f
  <1> DEFINE t == Append(Front(s), f)
             n == Len(s)
  <1>1. n \in Nat /\ n >= 1 /\ n \in 1..n /\ (n - 1) + 1 = n
    BY SequenceDomain DEF IsStack
  <1>2. /\ IsSequence(Front(s)) /\ Len(Front(s)) = n - 1
        /\ \A i \in 1..n - 1 : Front(s)[i] = s[i]
    BY Fronted DEF IsStack
  <1>3. /\ IsSequence(t) /\ Len(t) = n /\ t # <<>> /\ t[n] = f
        /\ \A i \in 1..n - 1 : t[i] = s[i]
    <2>1. /\ IsSequence(t) /\ Len(t) = Len(Front(s)) + 1 /\ t # <<>> /\ t[Len(Front(s)) + 1] = f
          /\ \A i \in 1..Len(Front(s)) : t[i] = Front(s)[i]
      BY <1>2, Appended
    <2> HIDE DEF t, n
    <2> QED BY <1>1, <1>2, <2>1
  <1> HIDE DEF t, n
  <1>4. \A i \in 1..n : i = n \/ i \in 1..n - 1
    BY <1>1
  <1>5. \A i \in 1..n : t[i].e = s[i].e
    BY <1>3, <1>4 DEF n
  <1>6. \A i \in 1..n : i > 1 => i - 1 \in 1..n /\ i - 1 # n
    BY <1>1
  <1>7. \A i \in 1..n : IsFrame(t[i])
    BY <1>1, <1>3, <1>4 DEF IsStack, n
  <1>8. IsPath(t, p)
    <2>1. s[1].e = p /\ \A i \in 1..n : /\ s[i].e \in Subexpressions(p)
                                       /\ i > 1 => s[i].e \in Operands(s[i - 1].e)
      BY DEF IsStack, IsPath, n
    <2>2. t[1].e = p
      BY <1>1, <1>5, <2>1
    <2>3. ASSUME NEW i \in 1..n
          PROVE  t[i].e \in Subexpressions(p) /\ (i > 1 => t[i].e \in Operands(t[i - 1].e))
      <3>1. i \in 1..n /\ t[i].e = s[i].e
        BY <1>5, <1>6
      <3>2. s[i].e \in Subexpressions(p) /\ (i > 1 => s[i].e \in Operands(s[i - 1].e))
        BY <3>1 DEF IsStack, IsPath, n
      <3>3. i > 1 => t[i - 1].e = s[i - 1].e
        BY <1>5, <1>6
      <3> QED BY <3>1, <3>2, <3>3
    <2> QED BY <1>3, <2>2, <2>3 DEF IsPath
  <1>9. HasRoom(t)
    <2>1. \A i \in 1..n - 1 : /\ Len(s[i].done) <= Room(s[i].e)
                              /\ i < n => Len(s[i].done) < Room(s[i].e)
      BY <1>1 DEF IsStack, HasRoom, n
    <2>2. \A i \in 1..n : /\ Len(t[i].done) <= Room(t[i].e)
                          /\ i < n => Len(t[i].done) < Room(t[i].e)
      BY <1>1, <1>3, <1>4, <2>1
    <2> QED BY <1>3, <2>2 DEF HasRoom
  <1>10. IsScoped(t, p)
    <2>1. ASSUME NEW i \in 1..n
          PROVE  t[i].e \in Outside(p) \/ \E j \in 1..i - 1 : IsOpen(t[j])
      <3>1. s[i].e \in Outside(p) \/ \E j \in 1..i - 1 : IsOpen(s[j])
        BY DEF IsStack, IsScoped, n
      <3>2. \A j \in 1..i - 1 : t[j] = s[j]
        BY <1>1, <1>3
      <3> QED BY <3>1, <3>2, <1>5
    <2> QED BY <1>3, <2>1 DEF IsScoped
  <1> QED BY <1>3, <1>7, <1>8, <1>9, <1>10 DEF IsStack, t, n

\* A frame's result goes to the frame below it.
LEMMA Returned ==
  ASSUME NEW p \in Programs, NEW s, IsStack(s, p), s # <<>>, Len(s) # 1, NEW r, r # NoResult
  PROVE  /\ IsStack([Front(s) EXCEPT ![Len(Front(s))].done = Append(@, r)], p)
         /\ [Front(s) EXCEPT ![Len(Front(s))].done = Append(@, r)] # <<>>
  <1> DEFINE b == Front(s)
             n == Len(s)
             m == n - 1
             f == [b[m] EXCEPT !.done = Append(@, r)]
             t == [b EXCEPT ![m] = f]
  <1>1. n \in Nat /\ n >= 1 /\ n # 1
    BY SequenceDomain DEF IsStack
  <1> HIDE DEF n
  <1>2. m \in Nat /\ m >= 1 /\ m \in 1..m /\ m < n /\ m \in 1..n
        /\ \A i \in 1..m : i \in 1..n /\ i < n /\ (i > 1 => i - 1 \in 1..m) /\ i - 1 <= m
    BY <1>1
  <1>3. IsSequence(b) /\ Len(b) = m /\ \A i \in 1..m : b[i] = s[i]
    BY Fronted DEF IsStack, n
  <1>4. [Front(s) EXCEPT ![Len(Front(s))].done = Append(@, r)] = t
    BY <1>3
  <1> HIDE DEF b, m
  <1>5. IsFrame(b[m]) /\ Len(b[m].done) < Room(b[m].e)
    BY <1>2, <1>3 DEF IsStack, HasRoom, n
  <1>6. f.e = b[m].e /\ f.done = Append(b[m].done, r) /\ f.fold = b[m].fold
        /\ DOMAIN f = {"e", "done", "fold"}
    BY <1>5 DEF IsFrame
  <1> HIDE DEF f
  <1>7. Len(f.done) = Len(b[m].done) + 1 /\ IsSequence(f.done) /\ Len(b[m].done) \in Nat
        /\ \A j \in 1..Len(f.done) : f.done[j] # NoResult
    <2>1. IsSequence(b[m].done)
      BY <1>5 DEF IsFrame
    <2>2. Len(b[m].done) \in Nat
      BY <2>1, SequenceDomain
    <2>3. /\ Len(f.done) = Len(b[m].done) + 1 /\ IsSequence(f.done)
          /\ f.done[Len(b[m].done) + 1] = r
          /\ \A j \in 1..Len(b[m].done) : f.done[j] = b[m].done[j]
      BY <1>6, <2>1, Appended
    <2>4. \A j \in 1..Len(f.done) : j = Len(b[m].done) + 1 \/ j \in 1..Len(b[m].done)
      BY <2>2, <2>3
    <2> QED BY <1>5, <2>2, <2>3, <2>4 DEF IsFrame
  <1>8. IsFrame(f) /\ IsOpen(f) = IsOpen(b[m])
    BY <1>5, <1>6, <1>7 DEF IsFrame, IsOpen
  <1>9. /\ IsSequence(t) /\ Len(t) = m
        /\ \A i \in 1..m : t[i] = IF i = m THEN f ELSE b[i]
    <2>1. IsSequence(b) /\ m \in 1..Len(b)
      BY <1>2, <1>3
    <2>2. /\ IsSequence([b EXCEPT ![m] = f])
          /\ Len([b EXCEPT ![m] = f]) = Len(b)
          /\ \A i \in 1..Len(b) : [b EXCEPT ![m] = f][i] = IF i = m THEN f ELSE b[i]
      BY <2>1, Changed
    <2> QED BY <1>3, <2>2
  <1>10. t # <<>>
    BY <1>2, <1>9, EmptySequence
  <1> HIDE DEF t
  <1>11. \A i \in 1..m : t[i].e = s[i].e /\ IsOpen(t[i]) = IsOpen(s[i])
    BY <1>3, <1>6, <1>8, <1>9
  <1>12. \A i \in 1..m : IsFrame(t[i])
    BY <1>2, <1>3, <1>8, <1>9 DEF IsStack, n
  <1>13. IsPath(t, p)
    <2>1. s[1].e = p /\ \A i \in 1..n : /\ s[i].e \in Subexpressions(p)
                                       /\ i > 1 => s[i].e \in Operands(s[i - 1].e)
      BY DEF IsStack, IsPath, n
    <2>2. t[1].e = p
      BY <1>2, <1>11, <2>1
    <2>3. ASSUME NEW i \in 1..m
          PROVE  t[i].e \in Subexpressions(p) /\ (i > 1 => t[i].e \in Operands(t[i - 1].e))
      <3>1. i \in 1..n /\ t[i].e = s[i].e
        BY <1>2, <1>11
      <3>2. s[i].e \in Subexpressions(p) /\ (i > 1 => s[i].e \in Operands(s[i - 1].e))
        BY <3>1 DEF IsStack, IsPath, n
      <3>3. i > 1 => t[i - 1].e = s[i - 1].e
        BY <1>2, <1>11
      <3> QED BY <3>1, <3>2, <3>3
    <2> QED BY <1>9, <2>2, <2>3 DEF IsPath
  <1>14. HasRoom(t)
    <2>1. \A i \in 1..m : Len(s[i].done) <= Room(s[i].e) /\ Len(s[i].done) < Room(s[i].e)
      BY <1>2 DEF IsStack, HasRoom, n
    <2>2. Len(f.done) <= Room(f.e)
      <3>1. Room(f.e) \in Nat
        <4>1. b[m].e \in Subexpressions(p)
          BY <1>2, <1>3 DEF IsStack, IsPath, n
        <4> QED BY <4>1, <1>6, ProgramFacts, RoomIsNatural
      <3> QED BY <1>5, <1>6, <1>7, <3>1
    <2>3. \A i \in 1..m : i < m \/ i = m
      BY <1>2
    <2> QED BY <1>2, <1>3, <1>9, <2>1, <2>2, <2>3 DEF HasRoom
  <1>15. IsScoped(t, p)
    <2>1. ASSUME NEW i \in 1..m
          PROVE  t[i].e \in Outside(p) \/ \E j \in 1..i - 1 : IsOpen(t[j])
      <3>1. s[i].e \in Outside(p) \/ \E j \in 1..i - 1 : IsOpen(s[j])
        BY <1>2 DEF IsStack, IsScoped, n
      <3>2. \A j \in 1..i - 1 : j \in 1..m
        BY <1>2
      <3> QED BY <3>1, <3>2, <1>11
    <2> QED BY <1>9, <2>1 DEF IsScoped
  <1> QED BY <1>4, <1>9, <1>10, <1>12, <1>13, <1>14, <1>15 DEF IsStack, t

\* The frame on top turns into another one and starts an operand.
LEMMA StartedAbove ==
  ASSUME NEW p \in Programs, NEW s, IsStack(s, p), s # <<>>,
         NEW f, IsFrame(f), f.e = s[Len(s)].e, Len(f.done) = 0,
         NEW c \in Operands(f.e), Room(f.e) > 0, Room(f.e) \in Nat,
         IsOpen(f) \/ c \in OuterOperands(f.e)
  PROVE  /\ IsStack(Append(Front(s), f) \o <<Frame(c)>>, p)
         /\ Append(Front(s), f) \o <<Frame(c)>> # <<>>
  <1> DEFINE t == Append(Front(s), f)
  <1>1. IsStack(t, p) /\ t # <<>> /\ Len(t) = Len(s) /\ t[Len(s)] = f
    BY Replaced
  <1> HIDE DEF t
  <1>2. IsStack(Append(t, Frame(c)), p)
    BY <1>1, Pushed
  <1>3. IsSequence(t)
    BY <1>1 DEF IsStack
  <1>4. t \o <<Frame(c)>> = Append(t, Frame(c)) /\ Append(t, Frame(c)) # <<>>
    BY <1>3, Extended, Appended
  <1> QED BY <1>2, <1>4 DEF t
-----------------------------------------------------------------------------
(* The invariant. *)

IInv ==
  /\ program \in Programs
  /\ root \in Roots
  /\ asked \subseteq Names
  /\ IsStack(stack, program)
  /\ Active <=> out = NoResult
  /\ AsksOnlyReferences

\* What a step makes of the stack.
Kept ==
  /\ IsStack(stack', program)
  /\ stack' # <<>> <=> out' = NoResult

\* What is known of the frame on top.
LEMMA TopFacts ==
  ASSUME IInv, Active
  PROVE  /\ program \in Programs /\ IsStack(stack, program) /\ out = NoResult
         /\ Len(stack) \in Nat /\ Len(stack) >= 1
         /\ E \in Subexpressions(program) /\ IsExpression(E) /\ Room(E) \in Nat
         /\ IsFrame(Top) /\ IsSequence(Done) /\ Len(Done) \in Nat /\ DOMAIN Done = 1..Len(Done)
         /\ Done = <<>> <=> Len(Done) = 0
         /\ Len(Done) <= Room(E)
         /\ \A j \in 1..Len(Done) : Done[j] # NoResult
  <1>1. program \in Programs /\ IsStack(stack, program) /\ out = NoResult /\ IsSequence(stack)
        /\ stack # <<>>
    BY DEF IInv, Active, IsStack
  <1>2. Len(stack) \in Nat /\ Len(stack) >= 1 /\ Len(stack) \in 1..Len(stack)
    BY <1>1, SequenceDomain
  <1>3. IsFrame(Top) /\ E \in Subexpressions(program) /\ Len(Done) <= Room(E)
    BY <1>1, <1>2 DEF IsStack, IsPath, HasRoom, Top, E, Done
  <1>4. IsExpression(E) /\ Room(E) \in Nat
    BY <1>1, <1>3, ProgramFacts, RoomIsNatural
  <1>5. IsSequence(Done) /\ \A j \in 1..Len(Done) : Done[j] # NoResult
    BY <1>3 DEF IsFrame, Done
  <1>6. Len(Done) \in Nat /\ DOMAIN Done = 1..Len(Done) /\ (Done = <<>> <=> Len(Done) = 0)
    BY <1>5, SequenceDomain
  <1> QED BY <1>1, <1>2, <1>3, <1>4, <1>5, <1>6

\* Starting an operand.
LEMMA StartKeeps ==
  ASSUME IInv, Active, NEW c \in Operands(E), Len(Done) < Room(E),
         IsOpen(Top) \/ c \in OuterOperands(E), Start(c)
  PROVE  Kept
  <1>1. stack' = Append(stack, Frame(c)) /\ out' = out
    BY DEF Start
  <1>2. IsStack(Append(stack, Frame(c)), program) /\ Append(stack, Frame(c)) # <<>>
    <2>1. program \in Programs /\ IsStack(stack, program) /\ stack # <<>> /\ IsSequence(stack)
      BY DEF IInv, Active, IsStack
    <2>2. IsStack(Append(stack, Frame(c)), program)
      BY <2>1, Pushed DEF Top, E, Done
    <2> QED BY <2>1, <2>2, Appended
  <1> QED BY <1>1, <1>2, TopFacts DEF Kept

\* Starting an operand of what is no comprehension.
LEMMA StartOperand ==
  ASSUME IInv, Active, E.op # "fold", NEW c \in Operands(E), Len(Done) < Room(E), Start(c)
  PROVE  Kept
  BY StartKeeps DEF OuterOperands

\* Nothing is evaluated any more.
LEMMA NoStack == \A p : IsStack(<<>>, p)
  BY EmptySequence DEF IsStack, IsPath, HasRoom, IsScoped

\* Returning a result.
LEMMA ReturnKeeps ==
  ASSUME IInv, Active, NEW r, r # NoResult, Return(r)
  PROVE  Kept
  <1>1. CASE r = Panic \/ Len(stack) = 1
    BY <1>1, NoStack DEF Return, Kept
  <1>2. CASE ~(r = Panic \/ Len(stack) = 1)
    <2>1. /\ stack' = [Front(stack) EXCEPT ![Len(Front(stack))].done = Append(@, r)]
          /\ out' = out
      BY <1>2 DEF Return
    <2>2. program \in Programs /\ IsStack(stack, program) /\ stack # <<>> /\ Len(stack) # 1
      BY <1>2 DEF IInv, Active
    <2>3. /\ IsStack([Front(stack) EXCEPT ![Len(Front(stack))].done = Append(@, r)], program)
          /\ [Front(stack) EXCEPT ![Len(Front(stack))].done = Append(@, r)] # <<>>
      BY <2>2, Returned
    <2> QED BY <2>1, <2>3, TopFacts DEF Kept
  <1> QED BY <1>1, <1>2

\* The ways results are made make results.
LEMMA ProperResults ==
  /\ \A v : Own(v) # NoResult /\ Lent(v) # NoResult /\ Err(v) # NoResult
  /\ \A r : Mine(r) # NoResult /\ (Failed(r) => r # NoResult)
  /\ Panic # NoResult
  <1>1. NoResult[1] = "none"
    BY DEF NoResult
  <1>2. ASSUME NEW v PROVE Own(v) # NoResult /\ Lent(v) # NoResult /\ Err(v) # NoResult
    <2>1. Own(v)[1] = "ok" /\ Lent(v)[1] = "ok" /\ Err(v)[1] = "err"
      BY DEF Own, Lent, Err
    <2>2. "ok" # "none" /\ "err" # "none"
      OBVIOUS
    <2> QED BY <1>1, <2>1, <2>2
  <1>3. ASSUME NEW r PROVE Failed(r) => r # NoResult
    <2>1. "err" # "none"
      OBVIOUS
    <2> QED BY <1>1, <2>1 DEF Failed
  <1>4. ASSUME NEW r PROVE Mine(r) # NoResult
    BY <1>2, <1>3 DEF Mine
  <1>5. Panic # NoResult
    <2>1. Panic[1] = "panic" /\ "panic" # "none"
      BY DEF Panic
    <2> QED BY <1>1, <2>1
  <1> QED BY <1>2, <1>3, <1>4, <1>5

\* The operand that returned last has a result.
LEMMA LatestIsResult ==
  ASSUME IInv, Active
  PROVE  Broken => Latest # NoResult
  <1>1. Done # <<>> => Len(Done) \in 1..Len(Done)
    BY TopFacts
  <1> QED BY <1>1, TopFacts DEF Broken, Latest

\* The operands of a call are its arguments.
LEMMA CallFacts ==
  ASSUME IInv, Active, E.op = "call"
  PROVE  /\ Room(E) = Len(E.args) /\ Len(E.args) \in Nat /\ E.op # "fold"
         /\ \A i \in 1..Len(E.args) : E.args[i] \in Operands(E)
  <1>1. IsSequence(E.args)
    BY TopFacts DEF IsExpression
  <1>2. Len(E.args) \in Nat /\ DOMAIN E.args = 1..Len(E.args)
    BY <1>1, SequenceDomain
  <1> QED BY <1>2 DEF Room, Operands

\* A call starts one of its arguments.
LEMMA StartArgument ==
  ASSUME IInv, Active, E.op = "call", Len(Done) < Len(E.args),
         NEW i \in 1..Len(E.args), Start(E.args[i])
  PROVE  Kept
  <1>1. E.args[i] \in Operands(E) /\ Room(E) = Len(E.args) /\ E.op # "fold"
    BY CallFacts
  <1> QED BY <1>1, StartOperand
-----------------------------------------------------------------------------
(* Operators, one by one. *)

LEMMA LiteralKeeps == ASSUME IInv, Literal PROVE Kept
  <1>1. Active /\ Return(IF E.value = Null THEN Own(Null) ELSE Lent(E.value))
    BY DEF Literal
  <1>2. (IF E.value = Null THEN Own(Null) ELSE Lent(E.value)) # NoResult
    BY ProperResults
  <1> QED BY <1>1, <1>2, ReturnKeeps

LEMMA IdentKeeps == ASSUME IInv, Ident PROVE Kept
  <1> DEFINE inner == GetVariable(Inner, E.name)
             v     == IF inner # Absent THEN inner ELSE GetVariable(<<root>>, E.name)
             r     == IF v = Absent THEN Err(UndeclaredReference)
                      ELSE IF v = Panic THEN Panic
                      ELSE IF inner = Absent /\ root.resolver[E.name] # Absent THEN Own(v[2])
                      ELSE Lent(v[2])
  <1>1. Active /\ Return(r)
    BY DEF Ident
  <1>2. r # NoResult
    <2> HIDE DEF v, inner
    <2> QED BY ProperResults
  <1> HIDE DEF r
  <1> QED BY <1>1, <1>2, ReturnKeeps

LEMMA TernaryKeeps == ASSUME IInv, Ternary PROVE Kept
  <1>1. Active /\ E.op = "call" /\ Len(E.args) = 3
    BY DEF Ternary, IsCall
  <1>2. CASE Len(Done) = 0
    <2>1. Start(E.args[1])
      BY <1>2 DEF Ternary
    <2> QED BY <1>1, <1>2, <2>1, StartArgument
  <1>3. CASE Len(Done) = 1
    <2> DEFINE c == TryBool(Plain(Done[1]))
    <2>1. IF Failed(c) THEN Return(c) ELSE Start(IF c = OkTrue THEN E.args[2] ELSE E.args[3])
      BY <1>3 DEF Ternary
    <2> HIDE DEF c
    <2>2. CASE Failed(c)
      BY <1>1, <2>1, <2>2, ProperResults, ReturnKeeps
    <2>3. CASE ~Failed(c) /\ c = OkTrue
      <3>1. Start(E.args[2])
        BY <2>1, <2>3
      <3> QED BY <1>1, <1>3, <3>1, StartArgument
    <2>4. CASE ~Failed(c) /\ c # OkTrue
      <3>1. Start(E.args[3])
        BY <2>1, <2>4
      <3> QED BY <1>1, <1>3, <3>1, StartArgument
    <2> QED BY <2>2, <2>3, <2>4
  <1>4. CASE Len(Done) # 0 /\ Len(Done) # 1
    <2>1. Return(Done[2])
      BY <1>4 DEF Ternary
    <2>2. Done[2] # NoResult
      BY <1>1, <1>4, TopFacts
    <2> QED BY <1>1, <2>1, <2>2, ReturnKeeps
  <1> QED BY <1>2, <1>3, <1>4

LEMMA ConnectiveKeeps == ASSUME IInv, Connective PROVE Kept
  <1>1. Active /\ E.op = "call" /\ Len(E.args) = 2
    BY DEF Connective, IsCall
  <1>2. CASE Len(Done) = 0
    <2>1. Start(E.args[1])
      BY <1>2 DEF Connective
    <2> QED BY <1>1, <1>2, <2>1, StartArgument
  <1>3. CASE Len(Done) = 1
    <2> DEFINE d == IF E.func = "_||_" THEN OkTrue ELSE OkFalse
    <2>1. IF TryBool(Plain(Done[1])) = d THEN Return(Mine(d)) ELSE Start(E.args[2])
      BY <1>3 DEF Connective
    <2> HIDE DEF d
    <2>2. Mine(d) # NoResult
      BY ProperResults
    <2>3. CASE TryBool(Plain(Done[1])) = d
      BY <1>1, <2>1, <2>2, <2>3, ReturnKeeps
    <2>4. CASE TryBool(Plain(Done[1])) # d
      <3>1. Start(E.args[2])
        BY <2>1, <2>4
      <3> QED BY <1>1, <1>3, <3>1, StartArgument
    <2> QED BY <2>3, <2>4
  <1>4. CASE Len(Done) # 0 /\ Len(Done) # 1
    <2> DEFINE r == IF E.func = "_||_" THEN LogicalOr(Plain(Done[1]), Plain(Done[2]))
                    ELSE LogicalAnd(Plain(Done[1]), Plain(Done[2]))
    <2>1. Return(Mine(r))
      BY <1>4 DEF Connective
    <2> HIDE DEF r
    <2>2. Mine(r) # NoResult
      BY ProperResults
    <2> QED BY <1>1, <2>1, <2>2, ReturnKeeps
  <1> QED BY <1>2, <1>3, <1>4

LEMMA NotStrictlyKeeps == ASSUME IInv, NotStrictly PROVE Kept
  <1>1. Active /\ E.op = "call" /\ Len(E.args) = 1
    BY DEF NotStrictly, IsCall
  <1>2. CASE Done = <<>>
    <2>1. Start(E.args[1])
      BY <1>2 DEF NotStrictly
    <2>2. Len(Done) = 0
      BY <1>1, <1>2, TopFacts
    <2> QED BY <1>1, <2>1, <2>2, StartArgument
  <1>3. CASE Done # <<>>
    <2> DEFINE r == NotStrictlyFalse(Plain(Done[1]))
    <2>1. Return(Mine(r))
      BY <1>3 DEF NotStrictly
    <2> HIDE DEF r
    <2>2. Mine(r) # NoResult
      BY ProperResults
    <2> QED BY <1>1, <2>1, <2>2, ReturnKeeps
  <1> QED BY <1>2, <1>3

LEMMA OperatorKeeps == ASSUME IInv, Operator PROVE Kept
  <1>1. Active /\ E.op = "call" /\ Len(E.args) = 2
    BY DEF Operator, IsCall
  <1>2. CASE Broken
    BY <1>1, <1>2, LatestIsResult, ReturnKeeps DEF Operator
  <1>3. CASE ~Broken /\ Len(Done) < 2
    <2>1. Start(E.args[Len(Done) + 1])
      BY <1>3 DEF Operator
    <2>2. Len(Done) + 1 \in 1..Len(E.args)
      BY <1>1, <1>3, TopFacts
    <2> QED BY <1>1, <1>3, <2>1, <2>2, StartArgument
  <1>4. CASE ~Broken /\ ~(Len(Done) < 2)
    <2>1. PICK r \in Binary(E.func, Done[1][2], Done[2][2]) : Return(Mine(r))
      BY <1>4 DEF Operator
    <2>2. Mine(r) # NoResult
      BY ProperResults
    <2> QED BY <1>1, <2>1, <2>2, ReturnKeeps
  <1> QED BY <1>2, <1>3, <1>4

LEMMA UnaryKeeps == ASSUME IInv, Unary PROVE Kept
  <1>1. Active /\ E.op = "call" /\ Len(E.args) = 1
    BY DEF Unary, IsCall
  <1>2. CASE Done = <<>>
    <2>1. Start(E.args[1])
      BY <1>2 DEF Unary
    <2>2. Len(Done) = 0
      BY <1>1, <1>2, TopFacts
    <2> QED BY <1>1, <2>1, <2>2, StartArgument
  <1>3. CASE Done # <<>> /\ Broken
    BY <1>1, <1>3, LatestIsResult, ReturnKeeps DEF Unary
  <1>4. CASE Done # <<>> /\ ~Broken
    <2> DEFINE r == IF E.func = "!_" THEN LogicalNot(Plain(Done[1])) ELSE Negated(Done[1][2])
    <2>1. Return(Mine(r))
      BY <1>4 DEF Unary
    <2> HIDE DEF r
    <2>2. Mine(r) # NoResult
      BY ProperResults
    <2> QED BY <1>1, <2>1, <2>2, ReturnKeeps
  <1> QED BY <1>2, <1>3, <1>4
-----------------------------------------------------------------------------
(* Containers. *)

\* Elements are lent or given away, or missing.
LEMMA Accesses == \A v, i : Get(v, i) # NoResult /\ Steal(v, i) # NoResult
  <1> SUFFICES ASSUME NEW v, NEW i PROVE Get(v, i) # NoResult /\ Steal(v, i) # NoResult
    OBVIOUS
  <1>1. Get(v, i) # NoResult
    <2> DEFINE r == IF TypeOf(v) = "list" THEN ListAt(v, i)
                    ELSE IF TypeOf(v) = "struct" THEN FieldAt(v, i)
                    ELSE IF TypeOf(i) \notin KeyTypes THEN Err(NoSuchOverload)
                    ELSE MapAt(v, i)
    <2>1. Get(v, i) = IF Failed(r) THEN r ELSE Lent(r[2])
      BY DEF Get
    <2> HIDE DEF r
    <2> QED BY <2>1, ProperResults
  <1>2. Steal(v, i) # NoResult
    BY ProperResults DEF Steal
  <1> QED BY <1>1, <1>2

LEMMA IndexKeeps == ASSUME IInv, Index PROVE Kept
  <1>1. Active /\ E.op = "call" /\ Len(E.args) = 2
    BY DEF Index, IsCall
  <1>2. CASE Done = <<>>
    <2>1. Start(E.args[1])
      BY <1>2 DEF Index
    <2>2. Len(Done) = 0
      BY <1>1, <1>2, TopFacts
    <2> QED BY <1>1, <2>1, <2>2, StartArgument
  <1>3. CASE Done # <<>> /\ Broken
    BY <1>1, <1>3, LatestIsResult, ReturnKeeps DEF Index
  <1>4. CASE Done # <<>> /\ ~Broken /\ Len(Done) = 1
    <2>1. IF Done[1][2] = OptNone THEN Return(Own(OptNone))
          ELSE IF ~IsIndexer(Container(Done[1])[2]) THEN Return(Err(NoSuchOverload))
          ELSE Start(E.args[2])
      BY <1>4 DEF Index
    <2>2. Own(OptNone) # NoResult /\ Err(NoSuchOverload) # NoResult
      BY ProperResults
    <2>3. CASE Start(E.args[2])
      BY <1>1, <1>4, <2>3, StartArgument
    <2>4. CASE Return(Own(OptNone)) \/ Return(Err(NoSuchOverload))
      BY <1>1, <2>2, <2>4, ReturnKeeps
    <2> QED BY <2>1, <2>3, <2>4
  <1>5. CASE Done # <<>> /\ ~Broken /\ Len(Done) # 1
    <2> DEFINE c == Container(Done[1])
               r == IF c[3] THEN Steal(c[2], Done[2][2]) ELSE Get(c[2], Done[2][2])
    <2>1. IF E.func = "_[_]" /\ TypeOf(Done[1][2]) # "optional" THEN Return(r)
          ELSE IF Failed(r) THEN Return(Own(OptNone))
          ELSE Return(Own(OptSome(Clone(r[2]))))
      BY <1>5 DEF Index
    <2>2. r # NoResult
      <3> HIDE DEF c
      <3> QED BY Accesses
    <2> HIDE DEF c, r
    <2>3. Own(OptNone) # NoResult /\ Own(OptSome(Clone(r[2]))) # NoResult
      BY ProperResults
    <2>4. CASE Return(r)
      BY <1>1, <2>2, <2>4, ReturnKeeps
    <2>5. CASE Return(Own(OptNone)) \/ Return(Own(OptSome(Clone(r[2]))))
      BY <1>1, <2>3, <2>5, ReturnKeeps
    <2> QED BY <2>1, <2>4, <2>5
  <1> QED BY <1>2, <1>3, <1>4, <1>5

LEMMA OptSelectKeeps == ASSUME IInv, OptSelect PROVE Kept
  <1>1. Active /\ E.op = "call" /\ Len(E.args) = 2
    BY DEF OptSelect, IsCall
  <1>2. CASE Broken
    BY <1>1, <1>2, LatestIsResult, ReturnKeeps DEF OptSelect
  <1>3. CASE ~Broken /\ Len(Done) < 2
    <2>1. Start(E.args[Len(Done) + 1])
      BY <1>3 DEF OptSelect
    <2>2. Len(Done) + 1 \in 1..Len(E.args)
      BY <1>1, <1>3, TopFacts
    <2> QED BY <1>1, <1>3, <2>1, <2>2, StartArgument
  <1>4. CASE ~Broken /\ ~(Len(Done) < 2)
    <2>1. Return(Err("FunctionError")) \/ Return(OptSelected(Done[1][2], Done[2][2]))
      BY <1>4 DEF OptSelect
    <2>2. \A v, f : OptSelected(v, f) # NoResult
      BY ProperResults, Accesses DEF OptSelected
    <2> QED BY <1>1, <2>1, <2>2, ProperResults, ReturnKeeps
  <1> QED BY <1>2, <1>3, <1>4

LEMMA SelectKeeps == ASSUME IInv, Select PROVE Kept
  <1>1. Active /\ E.op = "select"
    BY DEF Select
  <1>2. CASE Done = <<>>
    <2>1. Start(E.operand)
      BY <1>2 DEF Select
    <2>2. E.operand \in Operands(E) /\ Room(E) = 1 /\ E.op # "fold"
      BY <1>1 DEF Operands, Room
    <2>3. Len(Done) < Room(E)
      BY <1>1, <1>2, <2>2, TopFacts
    <2> QED BY <1>1, <2>1, <2>2, <2>3, StartOperand
  <1>3. CASE Done # <<>> /\ Broken
    BY <1>1, <1>3, LatestIsResult, ReturnKeeps DEF Select
  <1>4. CASE Done # <<>> /\ ~Broken
    <2>1. Return(Has(Done[1][2], StrOf(E.field))) \/ Return(Selected(Done[1][2], StrOf(E.field)))
      BY <1>4 DEF Select
    <2>2. \A v, k : Has(v, k) # NoResult
      BY ProperResults, Accesses DEF Has
    <2>3. \A v, k : Selected(v, k) # NoResult
      BY ProperResults, Accesses DEF Selected
    <2> QED BY <1>1, <2>1, <2>2, <2>3, ReturnKeeps
  <1> QED BY <1>2, <1>3, <1>4

LEMMA ListLiteralKeeps == ASSUME IInv, ListLiteral PROVE Kept
  <1>1. Active /\ E.op = "list"
    BY DEF ListLiteral
  <1>2. CASE Broken
    BY <1>1, <1>2, LatestIsResult, ReturnKeeps DEF ListLiteral
  <1>3. CASE ~Broken /\ Len(Done) < Len(E.elements)
    <2>1. Start(E.elements[Len(Done) + 1])
      BY <1>3 DEF ListLiteral
    <2>2. IsSequence(E.elements)
      BY <1>1, TopFacts DEF IsExpression
    <2>3. Len(E.elements) \in Nat /\ DOMAIN E.elements = 1..Len(E.elements)
      BY <2>2, SequenceDomain
    <2>4. Len(Done) + 1 \in DOMAIN E.elements
      BY <1>1, <1>3, <2>3, TopFacts
    <2>5. E.elements[Len(Done) + 1] \in Operands(E) /\ Room(E) = Len(E.elements) /\ E.op # "fold"
      BY <1>1, <2>4 DEF Operands, Room
    <2> QED BY <1>1, <1>3, <2>1, <2>5, StartOperand
  <1>4. CASE ~Broken /\ ~(Len(Done) < Len(E.elements))
    <2> DEFINE l == ListOf(FlattenSeq([i \in DOMAIN Done |-> Contributed(Done[i], i \in E.optional)]))
    <2>1. Return(Own(l))
      BY <1>4 DEF ListLiteral
    <2> HIDE DEF l
    <2> QED BY <1>1, <2>1, ProperResults, ReturnKeeps
  <1> QED BY <1>2, <1>3, <1>4

\* A map and a struct start their entries.
LEMMA StartEntry ==
  ASSUME IInv, Active, E.op \in {"map", "struct"}, Len(Done) < Len(E.entries),
         Start(E.entries[Len(Done) + 1])
  PROVE  Kept
  <1>1. IsSequence(E.entries)
    BY TopFacts DEF IsExpression
  <1>2. Len(E.entries) \in Nat /\ DOMAIN E.entries = 1..Len(E.entries)
    BY <1>1, SequenceDomain
  <1>3. Len(Done) + 1 \in DOMAIN E.entries
    BY <1>2, TopFacts
  <1>4. E.entries[Len(Done) + 1] \in Operands(E) /\ Room(E) = Len(E.entries) /\ E.op # "fold"
    BY <1>3 DEF Operands, Room
  <1> QED BY <1>4, StartOperand

LEMMA MapLiteralKeeps == ASSUME IInv, MapLiteral PROVE Kept
  <1>1. Active /\ E.op = "map"
    BY DEF MapLiteral
  <1>2. CASE Broken
    BY <1>1, <1>2, LatestIsResult, ReturnKeeps DEF MapLiteral
  <1>3. CASE ~Broken
    <2>1. \/ Return(Err("UnsupportedKeyType"))
          \/ Len(Done) < Len(E.entries) /\ Start(E.entries[Len(Done) + 1])
          \/ Return(Own(MapOf(Entries(Done, E.optional))))
      BY <1>3 DEF MapLiteral
    <2>2. Err("UnsupportedKeyType") # NoResult /\ Own(MapOf(Entries(Done, E.optional))) # NoResult
      BY ProperResults
    <2>3. CASE Return(Err("UnsupportedKeyType")) \/ Return(Own(MapOf(Entries(Done, E.optional))))
      BY <1>1, <2>2, <2>3, ReturnKeeps
    <2>4. CASE Len(Done) < Len(E.entries) /\ Start(E.entries[Len(Done) + 1])
      BY <1>1, <2>4, StartEntry
    <2> QED BY <2>1, <2>3, <2>4
  <1> QED BY <1>2, <1>3

\* new_struct answers with an error or an instance.
LEMMA NewStructs == \A name, given : NewStruct(name, given) # NoResult
  BY ProperResults DEF NewStruct

LEMMA StructLiteralKeeps == ASSUME IInv, StructLiteral PROVE Kept
  <1>1. Active /\ E.op = "struct"
    BY DEF StructLiteral
  <1>2. \/ Return(Err("UnexpectedType"))
        \/ Broken /\ Return(Latest)
        \/ Len(Done) < Len(E.entries) /\ Start(E.entries[Len(Done) + 1])
        \/ Return(NewStruct(E.name, Provided(E.fields, Done)))
    BY DEF StructLiteral
  <1>3. CASE Return(Err("UnexpectedType"))
    BY <1>1, <1>3, ProperResults, ReturnKeeps
  <1>4. CASE Broken /\ Return(Latest)
    BY <1>1, <1>4, LatestIsResult, ReturnKeeps
  <1>5. CASE Len(Done) < Len(E.entries) /\ Start(E.entries[Len(Done) + 1])
    BY <1>1, <1>5, StartEntry
  <1>6. CASE Return(NewStruct(E.name, Provided(E.fields, Done)))
    BY <1>1, <1>6, NewStructs, ReturnKeeps
  <1> QED BY <1>2, <1>3, <1>4, <1>5, <1>6
-----------------------------------------------------------------------------
(* Calls that are no operator. *)

IsResults(a) == IsSequence(a) /\ \A j \in 1..Len(a) : a[j] # NoResult

\* What dispatch finds is declared with as many arguments as it is called with.
LEMMA FoundTakes ==
  ASSUME NEW name, NEW member, NEW args, IsSequence(args),
         FindOverload(name, member, args) # Env!NoOverload
  PROVE  /\ FindOverload(name, member, args).id \in DOMAIN Arity
         /\ Len(args) = Arity[FindOverload(name, member, args).id]
  <1> DEFINE types == [i \in DOMAIN args |-> TypeOf(args[i][2])]
             os    == Decls[name]
             M     == {i \in DOMAIN os : Env!Matches(os[i], member, types)}
  <1>1. name \in DOMAIN Decls /\ FindOverload(name, member, args) = Env!FindOverload(name, member, types)
    BY DEF FindOverload
  <1>2. Len(os) \in Nat /\ DOMAIN os = 1..Len(os)
    BY <1>1, DeclsAssumption, SequenceDomain
  <1>3. Len(args) \in Nat /\ DOMAIN args = 1..Len(args)
    BY SequenceDomain
  <1>4. Len(types) = Len(args)
    BY <1>3
  <1> HIDE DEF types
  <1>5. M # {} /\ Env!FindOverload(name, member, types) = os[CHOOSE i \in M : \A j \in M : i <= j]
    BY <1>1 DEF Env!FindOverload
  <1>6. PICK i \in M : Env!FindOverload(name, member, types) = os[i]
    <2>1. M \in SUBSET (1..Len(os))
      BY <1>2
    <2> HIDE DEF M
    <2>2. \E i \in M : \A j \in M : i <= j
      BY <1>2, <1>5, <2>1, FirstPosition
    <2> QED BY <1>5, <2>2
  <1>7. i \in DOMAIN os /\ Len(os[i].args) = Len(args)
    BY <1>4 DEF Env!Matches
  <1>8. os[i].id \in DOMAIN Arity /\ Len(os[i].args) = Arity[os[i].id]
    BY <1>1, <1>7, DeclsAssumption
  <1> QED BY <1>1, <1>6, <1>7, <1>8

\* The library's functions answer with a result, if they are given as many.
LEMMA RunOps ==
  ASSUME NEW id \in DOMAIN Arity, NEW a, IsResults(a), Len(a) = Arity[id]
  PROVE  RunOp(id, a) # NoResult
  <1>1. id \in {"optional_none", "optional_of", "optional_ofNonZeroValue", "optional_value",
                "optional_has_value", "optional_or_optional", "optional_or_value", "size_list",
                "list_size"}
    BY DEF Arity
  <1>2. CASE id = "optional_or_optional"
    <2>1. Arity[id] = 2
      BY <1>2 DEF Arity
    <2>2. a[1] # NoResult /\ a[2] # NoResult
      BY <2>1 DEF IsResults
    <2> QED BY <1>2, <2>2, ProperResults DEF RunOp
  <1>3. CASE id = "optional_or_value"
    <2>1. Arity[id] = 2
      BY <1>3 DEF Arity
    <2>2. a[2] # NoResult
      BY <2>1 DEF IsResults
    <2> QED BY <1>3, <2>2, ProperResults DEF RunOp
  <1>4. CASE id \in {"optional_none", "optional_of", "optional_ofNonZeroValue"}
    BY <1>4, ProperResults DEF RunOp
  <1>5. CASE id \in {"optional_value", "optional_has_value", "size_list", "list_size"}
    BY <1>5, ProperResults DEF RunOp
  <1> QED BY <1>1, <1>2, <1>3, <1>4, <1>5

\* So does whoever is called.
LEMMA Dispatches ==
  ASSUME NEW name, NEW member, NEW target, NEW args, IsResults(target \o args)
  PROVE  Dispatch(name, member, target, args) # NoResult
  <1> DEFINE a == target \o args
             o == FindOverload(name, member, a)
  <1>1. CASE o # Env!NoOverload
    <2>1. IsSequence(a)
      BY DEF IsResults
    <2>2. o.id \in DOMAIN Arity /\ Len(a) = Arity[o.id]
      BY <1>1, <2>1, FoundTakes
    <2>3. RunOp(o.id, a) # NoResult
      <3> HIDE DEF o, a
      <3>1. IsResults(a)
        BY DEF a
      <3> QED BY <2>2, <3>1, RunOps
    <2> QED BY <1>1, <2>3 DEF Dispatch
  <1>2. CASE o = Env!NoOverload
    <2>1. \/ Dispatch(name, member, target, args) = Mine(RunFunction(name, target, args))
          \/ Dispatch(name, member, target, args) = Err(UndeclaredReference)
      BY <1>2 DEF Dispatch
    <2> QED BY <2>1, ProperResults
  <1> QED BY <1>1, <1>2

\* The operands of a frame that has them all are results.
LEMMA DoneIsResults ==
  ASSUME IInv, Active
  PROVE  /\ IsResults(Done) /\ <<>> \o Done = Done
         /\ \A n \in Nat : Len(Done) = n + 1 => IsResults(<<Done[n + 1]>> \o SubSeq(Done, 1, n))
  <1> DEFINE S == {Done[i] : i \in DOMAIN Done}
  <1>1. /\ Done \in Seq(S) /\ IsSequence(Done) /\ Len(Done) \in Nat /\ DOMAIN Done = 1..Len(Done)
        /\ \A j \in 1..Len(Done) : Done[j] # NoResult
    BY TopFacts DEF IsSequence
  <1>2. \A x \in S : x # NoResult
    BY <1>1
  <1>3. \A i \in 1..Len(Done) : Done[i] \in S
    BY <1>1
  <1> HIDE DEF S
  <1>4. IsResults(Done)
    BY <1>1 DEF IsResults
  <1>5. <<>> \o Done = Done
    BY <1>1
  <1>6. ASSUME NEW t \in Seq(S) PROVE IsResults(t)
    <2>1. Len(t) \in Nat /\ DOMAIN t = 1..Len(t) /\ \A j \in 1..Len(t) : t[j] \in S
      OBVIOUS
    <2>2. t \in Seq({t[i] : i \in DOMAIN t})
      BY <2>1
    <2> QED BY <1>2, <2>1, <2>2 DEF IsResults, IsSequence
  <1>7. ASSUME NEW n \in Nat, Len(Done) = n + 1
        PROVE  IsResults(<<Done[n + 1]>> \o SubSeq(Done, 1, n))
    <2>1. SubSeq(Done, 1, n) \in Seq(S)
      <3>1. \A i \in 1..n : Done[i] \in S
        BY <1>3, <1>7
      <3> QED BY <3>1, SubSeqProperties
    <2>2. <<Done[n + 1]>> \in Seq(S)
      <3>1. Done[n + 1] \in S
        BY <1>3, <1>7
      <3> QED BY <3>1
    <2>3. <<Done[n + 1]>> \o SubSeq(Done, 1, n) \in Seq(S)
      BY <2>1, <2>2, ConcatProperties
    <2> QED BY <1>6, <2>3
  <1> QED BY <1>4, <1>5, <1>7

LEMMA CallKeeps == ASSUME IInv, Call PROVE Kept
  <1>1. Active /\ E.op = "call"
    BY DEF Call
  <1>2. CASE Broken
    BY <1>1, <1>2, LatestIsResult, ReturnKeeps DEF Call
  <1>3. CASE ~Broken /\ Len(Done) < Len(E.args)
    <2>1. Start(E.args[Len(Done) + 1])
      BY <1>3 DEF Call
    <2>2. Len(Done) + 1 \in 1..Len(E.args)
      BY <1>1, <1>3, TopFacts, CallFacts
    <2> QED BY <1>1, <1>3, <2>1, <2>2, StartArgument
  <1>4. CASE ~Broken /\ ~(Len(Done) < Len(E.args))
    <2>1. Return(Dispatch(E.func, FALSE, <<>>, Done))
      BY <1>4 DEF Call, Invoke
    <2>2. Dispatch(E.func, FALSE, <<>>, Done) # NoResult
      BY <1>1, DoneIsResults, Dispatches
    <2> QED BY <1>1, <2>1, <2>2, ReturnKeeps
  <1> QED BY <1>2, <1>3, <1>4

LEMMA MemberCallKeeps == ASSUME IInv, MemberCall PROVE Kept
  <1> DEFINE n == Len(E.args)
             q == IF E.target.op = "ident" THEN E.target.name \o "." \o E.func ELSE ""
             fewer     == Len(Done) < n
             all       == Len(Done) = n
             qualified == q # "" /\ Found(q, FALSE, Done)
             byName    == Dispatch(q, FALSE, <<>>, Done)
             onTarget  == Dispatch(E.func, TRUE, <<Done[n + 1]>>, SubSeq(Done, 1, n))
  <1>1. Active /\ E.op = "member"
    BY DEF MemberCall
  <1>2. IsSequence(E.args) /\ n \in Nat /\ DOMAIN E.args = 1..n
    BY <1>1, TopFacts, SequenceDomain DEF IsExpression
  <1>3. /\ Room(E) = n + 1 /\ E.op # "fold" /\ E.target \in Operands(E)
        /\ \A i \in 1..n : E.args[i] \in Operands(E)
    BY <1>1, <1>2 DEF Room, Operands
  <1>4. Len(Done) \in Nat /\ Len(Done) <= n + 1
    BY <1>1, <1>3, TopFacts
  <1>5. IF Broken THEN Return(Latest)
        ELSE IF fewer THEN Start(E.args[Len(Done) + 1])
        ELSE IF all /\ qualified THEN Return(byName)
        ELSE IF all THEN Start(E.target)
        ELSE Return(onTarget)
    BY DEF MemberCall, Invoke
  <1>6. fewer => Len(Done) + 1 \in 1..n /\ Len(Done) < n + 1
    BY <1>2, <1>4
  <1>7. all => ~fewer /\ Len(Done) < n + 1
    BY <1>2, <1>4
  <1>8. ~fewer /\ ~all => Len(Done) = n + 1
    BY <1>2, <1>4
  <1>9. byName # NoResult
    BY <1>1, DoneIsResults, Dispatches
  <1>10. Len(Done) = n + 1 => onTarget # NoResult
    BY <1>1, <1>2, DoneIsResults, Dispatches
  <1> HIDE DEF n, q, fewer, all, qualified, byName, onTarget
  <1>11. CASE Broken
    BY <1>1, <1>5, <1>11, LatestIsResult, ReturnKeeps
  <1>12. CASE ~Broken /\ fewer
    <2>1. Start(E.args[Len(Done) + 1])
      BY <1>5, <1>12
    <2> QED BY <1>1, <1>3, <1>6, <1>12, <2>1, StartOperand
  <1>13. CASE ~Broken /\ all /\ qualified
    <2>1. Return(byName)
      BY <1>5, <1>7, <1>13
    <2> QED BY <1>1, <1>9, <2>1, ReturnKeeps
  <1>14. CASE ~Broken /\ all /\ ~qualified
    <2>1. Start(E.target)
      BY <1>5, <1>7, <1>14
    <2> QED BY <1>1, <1>3, <1>7, <1>14, <2>1, StartOperand
  <1>15. CASE ~Broken /\ ~fewer /\ ~all
    <2>1. Return(onTarget)
      BY <1>5, <1>15
    <2> QED BY <1>1, <1>8, <1>10, <1>15, <2>1, ReturnKeeps
  <1> QED BY <1>11, <1>12, <1>13, <1>14, <1>15
-----------------------------------------------------------------------------
(* Comprehensions. *)

\* The fields of a comprehension's state.
HasScope(g) ==
  /\ DOMAIN g = {"phase", "level", "accu", "items", "taken"}
  /\ g.phase \in {"init", "range"} \cup OpenPhases
  /\ DOMAIN g.level = {"variables", "resolver"}
  /\ DOMAIN g.level.variables = Names
  /\ g.level.resolver = NoBindings(Names)

HasAccumulator(g) == "@result" \in Names /\ g.level.variables["@result"] # Absent

LEMMA FoldParts == \A g : IsFold(g) <=> HasScope(g) /\ (g.phase \in OpenPhases => HasAccumulator(g))
  BY DEF IsFold, HasScope, HasAccumulator

LEMMA SomeIsBound == \A v : Some(v) # Absent
  <1>1. ASSUME NEW v PROVE Some(v)[1] # Absent[1]
    <2>1. Some(v)[1] = "some" /\ Absent[1] = "absent" /\ "some" # "absent"
      BY DEF Some, Absent
    <2> QED BY <2>1
  <1> QED BY <1>1

\* Binding the accumulator, or a variable beside it, leaves a scope that binds the accumulator.
LEMMA BoundFold ==
  ASSUME NEW g, HasScope(g), NEW x \in Names, NEW v, x = "@result" \/ HasAccumulator(g)
  PROVE  /\ HasScope(Bound(g, x, v)) /\ HasAccumulator(Bound(g, x, v))
         /\ Bound(g, x, v).phase = g.phase
  <1> DEFINE vs == [g.level.variables EXCEPT ![x] = Some(v)]
             l  == [g.level EXCEPT !.variables = vs]
             b  == [g EXCEPT !.level = l]
  <1>1. Bound(g, x, v) = b
    BY DEF Bound
  <1>2. DOMAIN b = DOMAIN g /\ b.phase = g.phase /\ b.level = l
    BY DEF HasScope
  <1> HIDE DEF b
  <1>3. DOMAIN b.level = DOMAIN g.level /\ b.level.resolver = g.level.resolver
        /\ b.level.variables = [g.level.variables EXCEPT ![x] = Some(v)]
    BY <1>2 DEF HasScope
  <1>4. /\ DOMAIN b.level.variables = Names
        /\ \A y \in Names : b.level.variables[y] = IF y = x THEN Some(v) ELSE g.level.variables[y]
    BY <1>3 DEF HasScope
  <1>5. HasAccumulator(b)
    BY <1>4, SomeIsBound DEF HasAccumulator
  <1>6. HasScope(b)
    BY <1>2, <1>3, <1>4 DEF HasScope
  <1> QED BY <1>1, <1>2, <1>5, <1>6

\* A comprehension's frame has room for one result, and knows its operands.
LEMMA FoldFacts ==
  ASSUME IInv, Active, E.op = "fold"
  PROVE  /\ Room(E) = 1
         /\ Operands(E) = {E.iter_range, E.accu_init, E.loop_cond, E.loop_step, E.result}
         /\ OuterOperands(E) = {E.accu_init, E.iter_range}
         /\ E.iter_var \in Names /\ E.accu_var \in Names /\ E.accu_var = "@result"
         /\ IsFold(Fold) /\ DOMAIN Top = {"e", "done", "fold"}
         /\ Done # <<>> => Done[1] # NoResult
  <1>1. Room(E) = 1 /\ OuterOperands(E) = {E.accu_init, E.iter_range}
        /\ Operands(E) = {E.iter_range, E.accu_init, E.loop_cond, E.loop_step, E.result}
    BY DEF Room, Operands, OuterOperands
  <1>2. E.iter_var \in Names /\ E.accu_var \in Names /\ E.accu_var = "@result"
    BY TopFacts, ProgramFacts
  <1>3. IsFold(Fold) /\ DOMAIN Top = {"e", "done", "fold"}
    BY TopFacts DEF IsFrame, Fold
  <1>4. Done # <<>> => 1 \in 1..Len(Done)
    BY TopFacts
  <1>5. Done # <<>> => Done[1] # NoResult
    BY <1>4, TopFacts
  <1> QED BY <1>1, <1>2, <1>3, <1>5

\* A comprehension's frame with its state replaced and its operands' results consumed.
LEMMA FoldFrame ==
  ASSUME IInv, Active, E.op = "fold", NEW f, DOMAIN f = {"e", "done", "fold"}, f.e = E,
         f.done = <<>>, HasScope(f.fold), f.fold.phase \in OpenPhases => HasAccumulator(f.fold)
  PROVE  IsFrame(f) /\ Len(f.done) = 0
  BY FoldParts, EmptySequence DEF IsFrame

LEMMA FoldStartsAbove ==
  ASSUME IInv, Active, E.op = "fold", NEW f, DOMAIN f = {"e", "done", "fold"}, f.e = E,
         HasScope(f.fold), f.fold.phase \in OpenPhases => HasAccumulator(f.fold),
         NEW c \in Operands(E), f.fold.phase \in OpenPhases \/ c \in OuterOperands(E),
         StartAbove(f, c)
  PROVE  Kept
  <1> DEFINE h == [f EXCEPT !.done = <<>>]
  <1>1. DOMAIN h = {"e", "done", "fold"} /\ h.e = E /\ h.done = <<>> /\ h.fold = f.fold
    OBVIOUS
  <1>2. stack' = Append(Front(stack), h) \o <<Frame(c)>> /\ out' = out
    BY DEF StartAbove
  <1> HIDE DEF h
  <1>3. IsFrame(h) /\ Len(h.done) = 0
    BY <1>1, FoldFrame
  <1>4. IsOpen(h) \/ c \in OuterOperands(h.e)
    BY <1>1 DEF IsOpen
  <1>5. /\ IsStack(Append(Front(stack), h) \o <<Frame(c)>>, program)
        /\ Append(Front(stack), h) \o <<Frame(c)>> # <<>>
    <2>1. program \in Programs /\ IsStack(stack, program) /\ stack # <<>>
          /\ h.e = stack[Len(stack)].e
      BY <1>1 DEF IInv, Active, Top, E
    <2>2. Room(h.e) = 1 /\ c \in Operands(h.e)
      BY <1>1, FoldFacts
    <2>3. Room(h.e) \in Nat /\ Room(h.e) > 0
      BY <2>2
    <2> QED BY <1>3, <1>4, <2>1, <2>2, <2>3, StartedAbove
  <1> QED BY <1>2, <1>5, TopFacts DEF Kept

LEMMA FoldGoesOn ==
  ASSUME IInv, Active, E.op = "fold", NEW f, DOMAIN f = {"e", "done", "fold"}, f.e = E,
         f.done = <<>>, HasScope(f.fold), HasAccumulator(f.fold),
         stack' = Append(Front(stack), f), out' = out
  PROVE  Kept
  <1>1. IsFrame(f) /\ Len(f.done) = 0
    BY FoldFrame
  <1>2. program \in Programs /\ IsStack(stack, program) /\ stack # <<>> /\ f.e = stack[Len(stack)].e
    BY DEF IInv, Active, Top, E
  <1>3. Len(f.done) <= Room(f.e)
    BY <1>1, FoldFacts
  <1>4. IsStack(Append(Front(stack), f), program) /\ Append(Front(stack), f) # <<>>
    BY <1>1, <1>2, <1>3, Replaced
  <1> QED BY <1>4, TopFacts DEF Kept
LEMMA FoldInitKeeps == ASSUME IInv, FoldInit PROVE Kept
  <1> DEFINE f == [Top EXCEPT !.fold = [Fold EXCEPT !.phase = "range", !.accu = Done[1]]]
  <1>1. Active /\ E.op = "fold" /\ Fold.phase = "init"
    BY DEF FoldInit, InFold
  <1>2. CASE Done = <<>>
    <2>1. Start(E.accu_init)
      BY <1>2 DEF FoldInit
    <2>2. Len(Done) < Room(E) /\ E.accu_init \in Operands(E) /\ E.accu_init \in OuterOperands(E)
      BY <1>1, <1>2, TopFacts, FoldFacts
    <2> QED BY <1>1, <2>1, <2>2, StartKeeps
  <1>3. CASE Done # <<>> /\ Broken
    BY <1>1, <1>3, LatestIsResult, ReturnKeeps DEF FoldInit
  <1>4. CASE Done # <<>> /\ ~Broken
    <2>1. StartAbove(f, E.iter_range)
      BY <1>4 DEF FoldInit, Fold
    <2>2. HasScope(Fold) /\ DOMAIN Top = {"e", "done", "fold"}
      BY <1>1, FoldFacts, FoldParts
    <2>3. DOMAIN f = {"e", "done", "fold"} /\ f.e = E /\ HasScope(f.fold) /\ f.fold.phase = "range"
      BY <2>2 DEF HasScope, E
    <2>4. E.iter_range \in Operands(E) /\ E.iter_range \in OuterOperands(E)
      BY <1>1, FoldFacts
    <2>5. f.fold.phase \notin OpenPhases
      BY <2>3 DEF OpenPhases
    <2> HIDE DEF f
    <2> QED BY <1>1, <2>1, <2>3, <2>4, <2>5, FoldStartsAbove
  <1> QED BY <1>2, <1>3, <1>4

LEMMA FoldOpenKeeps == ASSUME IInv, FoldOpen PROVE Kept
  <1>1. Active /\ E.op = "fold" /\ Fold.phase = "range" /\ Done # <<>>
    BY DEF FoldOpen, InFold
  <1>2. CASE Broken
    BY <1>1, <1>2, LatestIsResult, ReturnKeeps DEF FoldOpen
  <1>3. CASE ~Broken /\ ~IsIterable(Done[1][2])
    BY <1>1, <1>3, ProperResults, ReturnKeeps DEF FoldOpen
  <1>4. CASE ~Broken /\ IsIterable(Done[1][2])
    <2>1. PICK items \in Iterations(Done[1][2]) :
            /\ stack' = Append(Front(stack), [Top EXCEPT
                 !.done = <<>>,
                 !.fold = Bound([Fold EXCEPT !.phase = "next", !.items = items],
                                E.accu_var, Clone(Fold.accu[2]))])
            /\ UNCHANGED out
      BY <1>4 DEF FoldOpen
    <2> DEFINE g == [Fold EXCEPT !.phase = "next", !.items = items]
               b == Bound(g, E.accu_var, Clone(Fold.accu[2]))
               f == [Top EXCEPT !.done = <<>>, !.fold = b]
    <2>2. HasScope(Fold) /\ DOMAIN Top = {"e", "done", "fold"}
          /\ E.accu_var \in Names /\ E.accu_var = "@result"
      BY <1>1, FoldFacts, FoldParts
    <2>3. HasScope(g)
      BY <2>2 DEF HasScope, OpenPhases
    <2>4. HasScope(b) /\ HasAccumulator(b)
      <3> HIDE DEF g
      <3> QED BY <2>2, <2>3, BoundFold
    <2>5. stack' = Append(Front(stack), f) /\ out' = out
      BY <2>1
    <2> HIDE DEF b
    <2>6. DOMAIN f = {"e", "done", "fold"} /\ f.e = E /\ f.done = <<>> /\ f.fold = b
      BY <2>2 DEF E
    <2> HIDE DEF f
    <2> QED BY <1>1, <2>4, <2>5, <2>6, FoldGoesOn
  <1> QED BY <1>2, <1>3, <1>4

LEMMA FoldNextKeeps == ASSUME IInv, FoldNext PROVE Kept
  <1>1. Active /\ E.op = "fold" /\ Fold.phase = "next"
    BY DEF FoldNext, InFold
  <1>2. HasScope(Fold) /\ HasAccumulator(Fold) /\ DOMAIN Top = {"e", "done", "fold"}
    BY <1>1, FoldFacts, FoldParts DEF OpenPhases
  <1>3. E.result \in Operands(E) /\ E.loop_cond \in Operands(E)
    BY <1>1, FoldFacts
  <1>4. CASE Fold.taken = Len(Fold.items)
    <2> DEFINE f == [Top EXCEPT !.fold = [Fold EXCEPT !.phase = "result"]]
    <2>1. StartAbove(f, E.result)
      BY <1>4 DEF FoldNext, Fold
    <2>2. DOMAIN f = {"e", "done", "fold"} /\ f.e = E /\ HasScope(f.fold) /\ HasAccumulator(f.fold)
          /\ f.fold.phase \in OpenPhases
      BY <1>2 DEF E, HasScope, HasAccumulator, OpenPhases
    <2> HIDE DEF f
    <2> QED BY <1>1, <1>3, <2>1, <2>2, FoldStartsAbove
  <1>5. CASE Fold.taken # Len(Fold.items)
    <2> DEFINE f == [Top EXCEPT !.fold = [Fold EXCEPT !.phase = "cond", !.taken = @ + 1]]
    <2>1. StartAbove(f, E.loop_cond)
      BY <1>5 DEF FoldNext, Fold
    <2>2. DOMAIN f = {"e", "done", "fold"} /\ f.e = E /\ HasScope(f.fold) /\ HasAccumulator(f.fold)
          /\ f.fold.phase \in OpenPhases
      BY <1>2 DEF E, HasScope, HasAccumulator, OpenPhases
    <2> HIDE DEF f
    <2> QED BY <1>1, <1>3, <2>1, <2>2, FoldStartsAbove
  <1> QED BY <1>4, <1>5

LEMMA FoldCondKeeps == ASSUME IInv, FoldCond PROVE Kept
  <1> DEFINE c == TryBool(Plain(Done[1]))
             f == [Top EXCEPT !.fold = [Fold EXCEPT !.phase = "result"]]
             g == [Fold EXCEPT !.phase = "step"]
             b == Bound(g, E.iter_var, Clone(Fold.items[Fold.taken]))
             h == [Top EXCEPT !.fold = b]
  <1>1. Active /\ E.op = "fold" /\ Fold.phase = "cond" /\ Done # <<>>
    BY DEF FoldCond, InFold
  <1>2. HasScope(Fold) /\ HasAccumulator(Fold) /\ DOMAIN Top = {"e", "done", "fold"}
    BY <1>1, FoldFacts, FoldParts DEF OpenPhases
  <1>3. E.result \in Operands(E) /\ E.loop_step \in Operands(E) /\ E.iter_var \in Names
    BY <1>1, FoldFacts
  <1>4. IF Failed(c) THEN Return(c)
        ELSE IF c = OkFalse THEN StartAbove(f, E.result)
        ELSE StartAbove(h, E.loop_step)
    BY DEF FoldCond, Fold
  <1>5. DOMAIN f = {"e", "done", "fold"} /\ f.e = E /\ HasScope(f.fold) /\ HasAccumulator(f.fold)
        /\ f.fold.phase \in OpenPhases
    BY <1>2 DEF E, HasScope, HasAccumulator, OpenPhases
  <1>6. HasScope(g) /\ HasAccumulator(g) /\ g.phase \in OpenPhases
    BY <1>2 DEF HasScope, HasAccumulator, OpenPhases
  <1> HIDE DEF g
  <1>7. HasScope(b) /\ HasAccumulator(b) /\ b.phase \in OpenPhases
    BY <1>3, <1>6, BoundFold
  <1> HIDE DEF b
  <1>8. DOMAIN h = {"e", "done", "fold"} /\ h.e = E /\ h.fold = b
    BY <1>2 DEF E
  <1> HIDE DEF c, f, h
  <1>9. CASE Failed(c)
    BY <1>1, <1>4, <1>9, ProperResults, ReturnKeeps
  <1>10. CASE ~Failed(c) /\ c = OkFalse
    <2>1. StartAbove(f, E.result)
      BY <1>4, <1>10
    <2> QED BY <1>1, <1>3, <1>5, <2>1, FoldStartsAbove
  <1>11. CASE ~Failed(c) /\ c # OkFalse
    <2>1. StartAbove(h, E.loop_step)
      BY <1>4, <1>11
    <2> QED BY <1>1, <1>3, <1>7, <1>8, <2>1, FoldStartsAbove
  <1> QED BY <1>9, <1>10, <1>11

LEMMA FoldStepKeeps == ASSUME IInv, FoldStep PROVE Kept
  <1>1. Active /\ E.op = "fold" /\ Fold.phase = "step" /\ Done # <<>>
    BY DEF FoldStep, InFold
  <1>2. CASE Broken
    BY <1>1, <1>2, LatestIsResult, ReturnKeeps DEF FoldStep
  <1>3. CASE ~Broken
    <2> DEFINE g == [Fold EXCEPT !.phase = "next"]
               b == Bound(g, E.accu_var, Clone(Done[1][2]))
               f == [Top EXCEPT !.done = <<>>, !.fold = b]
    <2>1. stack' = Append(Front(stack), f) /\ out' = out
      BY <1>3 DEF FoldStep
    <2>2. HasScope(Fold) /\ DOMAIN Top = {"e", "done", "fold"}
          /\ E.accu_var \in Names /\ E.accu_var = "@result"
      BY <1>1, FoldFacts, FoldParts
    <2>3. HasScope(g)
      BY <2>2 DEF HasScope, OpenPhases
    <2>4. HasScope(b) /\ HasAccumulator(b)
      <3> HIDE DEF g
      <3> QED BY <2>2, <2>3, BoundFold
    <2> HIDE DEF b
    <2>5. DOMAIN f = {"e", "done", "fold"} /\ f.e = E /\ f.done = <<>> /\ f.fold = b
      BY <2>2 DEF E
    <2> HIDE DEF f
    <2> QED BY <1>1, <2>1, <2>4, <2>5, FoldGoesOn
  <1> QED BY <1>2, <1>3

LEMMA FoldResultKeeps == ASSUME IInv, FoldResult PROVE Kept
  <1>1. Active /\ E.op = "fold"
    BY DEF FoldResult, InFold
  <1>2. CASE Broken
    BY <1>1, <1>2, LatestIsResult, ReturnKeeps DEF FoldResult
  <1>3. CASE ~Broken
    BY <1>1, <1>3, ProperResults, ReturnKeeps DEF FoldResult
  <1> QED BY <1>2, <1>3
-----------------------------------------------------------------------------
(* What is asked of the root context. *)

\* A frame whose scope is open knows the accumulator.
LEMMA OpenKnows ==
  ASSUME NEW f, IsFrame(f), IsOpen(f)
  PROVE  Known(f.fold.level)["@result"] # Absent
  <1> DEFINE l == f.fold.level
  <1>1. HasScope(f.fold) /\ HasAccumulator(f.fold)
    BY FoldParts DEF IsFrame, IsOpen
  <1>2. l.resolver = [n \in Names |-> Absent] /\ "@result" \in Names
        /\ l.variables["@result"] # Absent
    BY <1>1 DEF HasScope, HasAccumulator, NoBindings
  <1> QED BY <1>2 DEF Known, Over

\* A lookup that the scopes around it cannot answer is for no accumulator.
LEMMA ScopesFind ==
  ASSUME IInv, Active, E.op = "ident", GetVariable(Inner, E.name) = Absent
  PROVE  E.name \notin Internal
  <1> DEFINE n == Len(stack)
             found == {i \in DOMAIN Inner : Known(Inner[i])[E.name] # Absent}
  <1>1. /\ program \in Programs /\ n \in Nat /\ n >= 1 /\ n \in 1..n /\ DOMAIN stack = 1..n
        /\ \A i \in 1..n : IsFrame(stack[i])
        /\ E = stack[n].e
    BY TopFacts, SequenceDomain DEF IsStack, Top, E
  <1>2. \A i \in 1..n : Inner[i] = stack[i].fold.level
    BY <1>1 DEF Inner
  <1>3. DOMAIN Inner = 1..n
    BY <1>1 DEF Inner
  <1>4. found = {}
    <2>1. SUFFICES ASSUME found # {} PROVE FALSE
      OBVIOUS
    <2>2. \E k \in found : \A i \in found : i <= k
      <3>1. found \subseteq 1..n
        BY <1>3
      <3> HIDE DEF found
      <3> QED BY <1>1, <2>1, <3>1, LastPosition
    <2> DEFINE k == CHOOSE i \in found : \A j \in found : j <= i
    <2>3. k \in found
      <3> HIDE DEF found
      <3> QED BY <2>2
    <2>4. Known(Inner[k])[E.name] # Absent
      <3> HIDE DEF k
      <3> QED BY <2>3
    <2>5. GetVariable(Inner, E.name) = Known(Inner[k])[E.name]
      BY <2>1 DEF GetVariable
    <2> QED BY <2>4, <2>5
  <1>5. \A i \in 1..n : Known(stack[i].fold.level)[E.name] = Absent
    BY <1>2, <1>3, <1>4
  <1>6. CASE E \in Outside(program)
    BY <1>1, <1>6, OutsideFacts
  <1>7. CASE \E j \in 1..n - 1 : IsOpen(stack[j])
    <2>1. PICK j \in 1..n - 1 : IsOpen(stack[j])
      BY <1>7
    <2>2. j \in 1..n
      BY <1>1
    <2>3. Known(stack[j].fold.level)["@result"] # Absent
      BY <1>1, <2>1, <2>2, OpenKnows
    <2>4. E.name # "@result"
      BY <1>5, <2>2, <2>3
    <2> QED BY <2>4 DEF Internal
  <1> QED BY <1>1, <1>6, <1>7, TopFacts DEF IsStack, IsScoped
\* What the expression on top names is among what references() finds.
LEMMA NamesAreReferences ==
  ASSUME IInv, Active
  PROVE  /\ E.op = "ident" /\ E.name \notin Internal =>
              E.name \in References(program).variables /\ E.name \in Names
         /\ E.op \in {"call", "member"} => E.func \in References(program).functions
         /\ E.op = "member" /\ E.target.op = "ident" =>
              E.target.name \in References(program).variables
  <1> DEFINE S == Subexpressions(program)
  <1>1. References(program).variables = Identifiers(S) \ Internal
        /\ References(program).functions = Called(S)
    BY DEF References
  <1>2. program \in Programs /\ E \in S /\ IsExpression(E) /\ Operands(E) \subseteq S
    BY TopFacts, ProgramFacts
  <1> HIDE DEF S
  <1>3. \A e \in S : /\ e.op = "ident" => e.name \in Identifiers(S)
                     /\ e.op \in {"call", "member"} => e.func \in Called(S)
    BY DEF Identifiers, Called
  <1>4. E.op = "ident" => E.name \in Names
    BY <1>2, ProgramFacts DEF S
  <1>5. ASSUME E.op = "member", E.target.op = "ident"
        PROVE  E.target.name \in Identifiers(S) \ Internal
    <2>1. E.target \in S
      BY <1>2, <1>5 DEF Operands
    <2>2. E.target.name \in Identifiers({E.target})
      BY <1>5 DEF Identifiers
    <2>3. Identifiers({E.target}) \cap Internal = {}
      BY <1>2, <1>5 DEF IsExpression
    <2> QED BY <1>3, <1>5, <2>1, <2>2, <2>3
  <1> QED BY <1>1, <1>2, <1>3, <1>4, <1>5

\* A name that may be dispatched to.
IsNamed(f) ==
  LET names == References(program)
  IN \/ f \in names.functions
     \/ \E v \in names.variables, g \in names.functions : f = v \o "." \o g

\* A step that keeps the stack, and asks for and invokes only what is named.
LEMMA StepKeeps ==
  ASSUME IInv, Kept, Fixed,
         \A x \in asked' : x \in asked \/ (x \in Names /\ x \in References(program).variables),
         \A f \in invoked' : f \in invoked \/ IsNamed(f)
  PROVE  IInv'
  <1>1. program' = program /\ root' = root
    BY DEF Fixed
  <1>2. asked' \subseteq References(program).variables /\ asked' \subseteq Names
    BY DEF IInv, AsksOnlyReferences
  <1>3. \A f \in invoked' : IsNamed(f)
    BY DEF IInv, AsksOnlyReferences, IsNamed
  <1>4. AsksOnlyReferences'
    BY <1>1, <1>2, <1>3 DEF AsksOnlyReferences, IsNamed
  <1> QED BY <1>1, <1>2, <1>4 DEF IInv, Kept, Active

\* A step that looks nothing up and calls nothing.
LEMMA QuietStep ==
  ASSUME IInv, Kept, Quiet
  PROVE  IInv'
  BY StepKeeps DEF Quiet

LEMMA IdentStep == ASSUME IInv, Ident PROVE IInv'
  <1>1. Active /\ E.op = "ident" /\ Fixed /\ invoked' = invoked
        /\ asked' = IF GetVariable(Inner, E.name) = Absent THEN asked \cup {E.name} ELSE asked
    BY DEF Ident
  <1>2. GetVariable(Inner, E.name) = Absent =>
          E.name \in Names /\ E.name \in References(program).variables
    BY <1>1, ScopesFind, NamesAreReferences
  <1> QED BY <1>1, <1>2, IdentKeeps, StepKeeps

LEMMA CallStep == ASSUME IInv, Call PROVE IInv'
  <1>1. Active /\ E.op = "call" /\ Fixed /\ asked' = asked
    BY DEF Call
  <1>2. IsNamed(E.func)
    BY <1>1, NamesAreReferences DEF IsNamed
  <1>3. \A f \in invoked' : f \in invoked \/ f = E.func
    BY DEF Call, Invoke
  <1> QED BY <1>1, <1>2, <1>3, CallKeeps, StepKeeps

LEMMA MemberCallStep == ASSUME IInv, MemberCall PROVE IInv'
  <1> DEFINE q == IF E.target.op = "ident" THEN E.target.name \o "." \o E.func ELSE ""
  <1>1. Active /\ E.op = "member" /\ Fixed /\ asked' = asked
    BY DEF MemberCall
  <1>2. IsNamed(E.func)
    BY <1>1, NamesAreReferences DEF IsNamed
  <1>3. q # "" => IsNamed(q)
    <2>1. CASE E.target.op = "ident"
      BY <1>1, <2>1, NamesAreReferences DEF IsNamed
    <2>2. CASE E.target.op # "ident"
      BY <2>2
    <2> QED BY <2>1, <2>2
  <1>4. \A f \in invoked' : f \in invoked \/ f = E.func \/ (f = q /\ q # "")
    BY DEF MemberCall, Invoke
  <1> HIDE DEF q
  <1> QED BY <1>1, <1>2, <1>3, <1>4, MemberCallKeeps, StepKeeps
-----------------------------------------------------------------------------
(* The initial stack. *)

\* One round of collecting what an expression is made of.
Grown(S, outside) ==
  S \cup UNION {IF outside THEN OuterOperands(x) ELSE Operands(x) : x \in S}

IsGrowth(g, e, outside, n) ==
  g = [i \in 0..n |-> IF i = 0 THEN {e} ELSE Grown(g[i - 1], outside)]

LEMMA GrowthExists ==
  ASSUME NEW e, NEW outside
  PROVE  \A n \in Nat : \E g : IsGrowth(g, e, outside, n)
  <1> DEFINE S == {n \in Nat : \E g : IsGrowth(g, e, outside, n)}
  <1>1. 0 \in S
    <2>1. IsGrowth([i \in 0..0 |-> {e}], e, outside, 0)
      BY DEF IsGrowth
    <2> QED BY <2>1
  <1>2. ASSUME NEW n \in Nat, n \in S PROVE n + 1 \in S
    <2>1. PICK g : IsGrowth(g, e, outside, n)
      BY <1>2
    <2> DEFINE h == [i \in 0..n + 1 |-> IF i = n + 1 THEN Grown(g[n], outside) ELSE g[i]]
    <2>2. (\A i \in 0..n : h[i] = g[i]) /\ h[n + 1] = Grown(g[n], outside)
          /\ h = [i \in 0..n + 1 |-> h[i]]
      OBVIOUS
    <2> HIDE DEF h
    <2>3. \A i \in 0..n : g[i] = IF i = 0 THEN {e} ELSE Grown(g[i - 1], outside)
      BY <2>1 DEF IsGrowth
    <2>4. ASSUME NEW i \in 0..n + 1
          PROVE  h[i] = IF i = 0 THEN {e} ELSE Grown(h[i - 1], outside)
      <3>1. CASE i = n + 1
        <4>1. i # 0 /\ i - 1 = n /\ n \in 0..n
          BY <3>1
        <4> QED BY <2>2, <3>1, <4>1
      <3>2. CASE i # n + 1
        <4>1. i \in 0..n /\ (i # 0 => i - 1 \in 0..n)
          BY <3>2
        <4> QED BY <2>2, <2>3, <4>1
      <3> QED BY <3>1, <3>2
    <2>5. IsGrowth(h, e, outside, n + 1)
      BY <2>2, <2>4 DEF IsGrowth
    <2> QED BY <2>5
  <1>3. \A n \in Nat : n \in S => n + 1 \in S
    BY <1>2
  <1> HIDE DEF S
  <1>4. \A n \in Nat : n \in S
    BY <1>1, <1>3, Induction
  <1> QED BY <1>4 DEF S

LEMMA GrowthKeeps ==
  ASSUME NEW e, NEW outside, NEW n \in Nat, NEW g, IsGrowth(g, e, outside, n)
  PROVE  e \in g[n]
  <1> DEFINE S == {i \in Nat : i \in 0..n => e \in g[i]}
  <1>1. \A i \in 0..n : g[i] = IF i = 0 THEN {e} ELSE Grown(g[i - 1], outside)
    BY DEF IsGrowth
  <1>2. 0 \in S
    BY <1>1
  <1>3. ASSUME NEW i \in Nat, i \in S PROVE i + 1 \in S
    <2>1. CASE i + 1 \in 0..n
      <3>1. i \in 0..n /\ i + 1 # 0 /\ (i + 1) - 1 = i
        BY <2>1
      <3>2. g[i + 1] = Grown(g[i], outside)
        BY <1>1, <2>1, <3>1
      <3> QED BY <1>3, <3>1, <3>2 DEF Grown
    <2> QED BY <2>1
  <1>4. \A i \in Nat : i \in S => i + 1 \in S
    BY <1>3
  <1> HIDE DEF S
  <1>5. n \in S
    BY <1>2, <1>4, Induction
  <1> QED BY <1>5 DEF S

\* An expression is among what it is made of.
LEMMA ProgramIsReached ==
  ASSUME NEW e
  PROVE  e \in Subexpressions(e) /\ e \in Outside(e)
  <1>1. MaxDepth \in Nat
    BY DEF MaxDepth
  <1>2. e \in Subexpressions(e)
    <2> DEFINE Up[n \in 0..MaxDepth] ==
                 IF n = 0 THEN {e} ELSE LET S == Up[n - 1] IN S \cup UNION {Operands(x) : x \in S}
    <2>1. Subexpressions(e) = Up[MaxDepth]
      BY DEF Subexpressions, Reached
    <2>2. IsGrowth(Up, e, FALSE, MaxDepth)
      <3>1. PICK g : IsGrowth(g, e, FALSE, MaxDepth)
        BY <1>1, GrowthExists
      <3>2. g = [n \in 0..MaxDepth |->
                   IF n = 0 THEN {e} ELSE LET S == g[n - 1] IN S \cup UNION {Operands(x) : x \in S}]
        BY <3>1 DEF IsGrowth, Grown
      <3>3. Up = [n \in 0..MaxDepth |->
                   IF n = 0 THEN {e} ELSE LET S == Up[n - 1] IN S \cup UNION {Operands(x) : x \in S}]
        BY <3>2
      <3> HIDE DEF Up
      <3> QED BY <3>3 DEF IsGrowth, Grown
    <2> HIDE DEF Up
    <2> QED BY <1>1, <2>1, <2>2, GrowthKeeps
  <1>3. e \in Outside(e)
    <2> DEFINE Up[n \in 0..MaxDepth] ==
                 IF n = 0 THEN {e}
                 ELSE LET S == Up[n - 1] IN S \cup UNION {OuterOperands(x) : x \in S}
    <2>1. Outside(e) = Up[MaxDepth]
      BY DEF Outside, Reached
    <2>2. IsGrowth(Up, e, TRUE, MaxDepth)
      <3>1. PICK g : IsGrowth(g, e, TRUE, MaxDepth)
        BY <1>1, GrowthExists
      <3>2. g = [n \in 0..MaxDepth |->
                   IF n = 0 THEN {e}
                   ELSE LET S == g[n - 1] IN S \cup UNION {OuterOperands(x) : x \in S}]
        BY <3>1 DEF IsGrowth, Grown
      <3>3. Up = [n \in 0..MaxDepth |->
                   IF n = 0 THEN {e}
                   ELSE LET S == Up[n - 1] IN S \cup UNION {OuterOperands(x) : x \in S}]
        BY <3>2
      <3> HIDE DEF Up
      <3> QED BY <3>3 DEF IsGrowth, Grown
    <2> HIDE DEF Up
    <2> QED BY <1>1, <2>1, <2>2, GrowthKeeps
  <1> QED BY <1>2, <1>3

LEMMA InitInv == Init => IInv
  <1> SUFFICES ASSUME Init PROVE IInv
    OBVIOUS
  <1> DEFINE s == <<Frame(program)>>
  <1>1. program \in Programs /\ root \in Roots /\ stack = s /\ out = NoResult
        /\ asked = {} /\ invoked = {}
    BY DEF Init
  <1>2. s = Append(<<>>, Frame(program))
    BY EmptySequence, Extended
  <1>3. IsSequence(s) /\ Len(s) = 1 /\ s[1] = Frame(program) /\ s # <<>>
    <2>1. /\ IsSequence(Append(<<>>, Frame(program)))
          /\ Len(Append(<<>>, Frame(program))) = 0 + 1
          /\ Append(<<>>, Frame(program))[0 + 1] = Frame(program)
          /\ Append(<<>>, Frame(program)) # <<>>
      BY EmptySequence, Appended
    <2> QED BY <1>2, <2>1
  <1>4. IsFrame(Frame(program)) /\ Frame(program).e = program /\ Len(Frame(program).done) = 0
    BY NewFrame
  <1>5. program \in Subexpressions(program) /\ program \in Outside(program)
    BY ProgramIsReached
  <1>6. Room(program) \in Nat
    BY <1>1, <1>5, ProgramFacts, RoomIsNatural
  <1> HIDE DEF s
  <1>7. \A i \in 1..Len(s) : i = 1 /\ ~(i > 1) /\ ~(i < Len(s))
    BY <1>3
  <1>8. \A i \in 1..Len(s) : IsFrame(s[i])
    BY <1>3, <1>4, <1>7
  <1>9. IsPath(s, program)
    BY <1>3, <1>4, <1>5, <1>7 DEF IsPath
  <1>10. HasRoom(s)
    BY <1>3, <1>4, <1>6, <1>7 DEF HasRoom
  <1>11. IsScoped(s, program)
    BY <1>3, <1>4, <1>5, <1>7 DEF IsScoped
  <1>12. IsStack(s, program)
    BY <1>3, <1>8, <1>9, <1>10, <1>11 DEF IsStack
  <1> QED BY <1>1, <1>3, <1>12 DEF IInv, Active, AsksOnlyReferences
-----------------------------------------------------------------------------
(* The theorems. *)

\* Every step of the evaluator keeps the stack a path with room, whatever it evaluates.
LEMMA NextInv == IInv /\ [Next]_vars => IInv'
  <1> SUFFICES ASSUME IInv, [Next]_vars PROVE IInv'
    OBVIOUS
  <1>1. CASE Literal
    BY <1>1, LiteralKeeps, QuietStep DEF Literal
  <1>2. CASE Ident
    BY <1>2, IdentStep
  <1>3. CASE Ternary
    BY <1>3, TernaryKeeps, QuietStep DEF Ternary
  <1>4. CASE Connective
    BY <1>4, ConnectiveKeeps, QuietStep DEF Connective
  <1>5. CASE NotStrictly
    BY <1>5, NotStrictlyKeeps, QuietStep DEF NotStrictly
  <1>6. CASE Operator
    BY <1>6, OperatorKeeps, QuietStep DEF Operator
  <1>7. CASE Unary
    BY <1>7, UnaryKeeps, QuietStep DEF Unary
  <1>8. CASE Index
    BY <1>8, IndexKeeps, QuietStep DEF Index
  <1>9. CASE OptSelect
    BY <1>9, OptSelectKeeps, QuietStep DEF OptSelect
  <1>10. CASE Select
    BY <1>10, SelectKeeps, QuietStep DEF Select
  <1>11. CASE ListLiteral
    BY <1>11, ListLiteralKeeps, QuietStep DEF ListLiteral
  <1>12. CASE MapLiteral
    BY <1>12, MapLiteralKeeps, QuietStep DEF MapLiteral
  <1>13. CASE StructLiteral
    BY <1>13, StructLiteralKeeps, QuietStep DEF StructLiteral
  <1>14. CASE Call
    BY <1>14, CallStep
  <1>15. CASE MemberCall
    BY <1>15, MemberCallStep
  <1>16. CASE FoldInit
    BY <1>16, FoldInitKeeps, QuietStep DEF FoldInit
  <1>17. CASE FoldOpen
    BY <1>17, FoldOpenKeeps, QuietStep DEF FoldOpen
  <1>18. CASE FoldNext
    BY <1>18, FoldNextKeeps, QuietStep DEF FoldNext
  <1>19. CASE FoldCond
    BY <1>19, FoldCondKeeps, QuietStep DEF FoldCond
  <1>20. CASE FoldStep
    BY <1>20, FoldStepKeeps, QuietStep DEF FoldStep
  <1>21. CASE FoldResult
    BY <1>21, FoldResultKeeps, QuietStep DEF FoldResult
  <1>22. CASE UNCHANGED vars
    <2>1. program' = program /\ root' = root /\ stack' = stack /\ out' = out /\ asked' = asked
          /\ invoked' = invoked
      BY <1>22 DEF vars
    <2>2. Quiet
      BY <2>1 DEF Quiet, Fixed
    <2>3. Kept
      BY <2>1 DEF IInv, Kept, Active
    <2> QED BY <2>2, <2>3, QuietStep
  <1> QED BY <1>1, <1>2, <1>3, <1>4, <1>5, <1>6, <1>7, <1>8, <1>9, <1>10, <1>11, <1>12, <1>13,
             <1>14, <1>15, <1>16, <1>17, <1>18, <1>19, <1>20, <1>21, <1>22 DEF Next

\* Whatever the programs, root contexts, functions and structs: the stack is a path of the
\* program, its frames have room for their operands' results, a scope that is open binds the
\* accumulator, and what is evaluated with no scope open around it mentions none
\* (Value::resolve_val and its match on the comprehension, objects.rs).
THEOREM Invariance == Spec => []IInv
  <1> QED BY InitInv, NextInv, PTL DEF Spec

\* Every call resolve_val makes of itself is for an operand of the expression it evaluates,
\* no expression has an operand evaluated that it has no use for, and a result comes out
\* exactly when all of the calls have returned.
THEOREM TypeCorrect == Spec => []TypeOK
  <1>1. IInv => TypeOK
    <2> SUFFICES ASSUME IInv PROVE TypeOK
      OBVIOUS
    <2>1. IsSequence(stack) /\ IsPath(stack, program) /\ HasRoom(stack)
      BY DEF IInv, IsStack
    <2>2. DOMAIN stack = 1..Len(stack)
      BY <2>1, SequenceDomain
    <2>3. Active => stack[1].e = program
      BY <2>1 DEF IsPath, Active
    <2>4. \A i \in DOMAIN stack :
            /\ i > 1 => stack[i].e \in Operands(stack[i - 1].e)
            /\ Len(stack[i].done) <= Room(stack[i].e)
            /\ i < Len(stack) => Len(stack[i].done) < Room(stack[i].e)
      BY <2>1, <2>2 DEF IsPath, HasRoom
    <2> QED BY <2>3, <2>4 DEF IInv, TypeOK
  <1> QED BY <1>1, Invariance, PTL

\* Evaluation asks the root context only for variables that ExpressionReferences::variables()
\* names, and dispatches only to functions it names (references.rs): a comprehension's own
\* variables and its accumulator are always found in its scope.
THEOREM LookupsAreReferences == Spec => []AsksOnlyReferences
  <1>1. IInv => AsksOnlyReferences
    BY DEF IInv
  <1> QED BY <1>1, Invariance, PTL
-----------------------------------------------------------------------------
(* The environment of a frame. *)

\* What the scopes of the frames up to i, and the root context r around them, know.
EnvAt(r, s, i) ==
  [n \in Names |->
     LET inner == GetVariable([j \in 1..i |-> s[j].fold.level], n)
     IN IF inner # Absent THEN inner ELSE Known(r)[n]]

LEMMA SameEnv ==
  ASSUME NEW r, NEW s, NEW t, NEW i, \A j \in 1..i : s[j].fold.level = t[j].fold.level
  PROVE  EnvAt(r, s, i) = EnvAt(r, t, i)
  <1>1. [j \in 1..i |-> s[j].fold.level] = [j \in 1..i |-> t[j].fold.level]
    OBVIOUS
  <1> QED BY <1>1 DEF EnvAt

LEMMA RootEnv ==
  ASSUME NEW r, NEW s
  PROVE  EnvAt(r, s, 0) = [n \in Names |-> Known(r)[n]]
  <1> DEFINE chain == [j \in 1..0 |-> s[j].fold.level]
  <1>1. DOMAIN chain = {}
    OBVIOUS
  <1> HIDE DEF chain
  <1>2. ASSUME NEW n PROVE GetVariable(chain, n) = Absent
    <2> DEFINE found == {i \in DOMAIN chain : Known(chain[i])[n] # Absent}
    <2>1. found = {}
      BY <1>1
    <2> QED BY <2>1 DEF GetVariable
  <1> QED BY <1>2 DEF EnvAt, chain

\* A scope hides what is around it.
LEMMA NextEnv ==
  ASSUME NEW r, NEW s, NEW i \in Nat, NEW n \in Names
  PROVE  EnvAt(r, s, i + 1)[n] =
           LET k == Known(s[i + 1].fold.level)[n]
           IN IF k # Absent THEN k ELSE EnvAt(r, s, i)[n]
  <1> DEFINE lv(j)  == s[j].fold.level
             a      == [j \in 1..i |-> lv(j)]
             b      == [j \in 1..i + 1 |-> lv(j)]
             A      == {j \in DOMAIN a : Known(a[j])[n] # Absent}
             B      == {j \in DOMAIN b : Known(b[j])[n] # Absent}
             k      == Known(lv(i + 1))[n]
             last(S) == CHOOSE x \in S : \A y \in S : y <= x
  <1>1. GetVariable(a, n) = IF A = {} THEN Absent ELSE Known(a[last(A)])[n]
    BY DEF GetVariable
  <1>2. GetVariable(b, n) = IF B = {} THEN Absent ELSE Known(b[last(B)])[n]
    BY DEF GetVariable
  <1>3. 1..i + 1 = (1..i) \cup {i + 1} /\ i + 1 \notin 1..i /\ \A y \in 1..i : y <= i + 1
    OBVIOUS
  <1>0. /\ A = {j \in 1..i : Known(lv(j))[n] # Absent}
        /\ B = {j \in 1..i + 1 : Known(lv(j))[n] # Absent}
    <2>1. DOMAIN a = 1..i /\ DOMAIN b = 1..i + 1 /\ (\A j \in 1..i : a[j] = lv(j))
          /\ \A j \in 1..i + 1 : b[j] = lv(j)
      OBVIOUS
    <2> HIDE DEF a, b, lv
    <2> QED BY <2>1
  <1>4. EnvAt(r, s, i)[n] = IF GetVariable(a, n) # Absent THEN GetVariable(a, n) ELSE Known(r)[n]
    BY DEF EnvAt
  <1>5. EnvAt(r, s, i + 1)[n] = IF GetVariable(b, n) # Absent THEN GetVariable(b, n) ELSE Known(r)[n]
    BY DEF EnvAt
  <1>6. CASE k # Absent
    <2>1. i + 1 \in B /\ \A y \in B : y <= i + 1 /\ y \in Int
      <3> HIDE DEF B
      <3> QED BY <1>0, <1>3, <1>6
    <2>2. last(B) = i + 1
      <3>1. last(B) \in B /\ \A y \in B : y <= last(B)
        <4> HIDE DEF B
        <4> QED BY <2>1
      <3>2. last(B) <= i + 1 /\ i + 1 <= last(B) /\ last(B) \in Int
        BY <2>1, <3>1
      <3> HIDE DEF last
      <3> QED BY <3>2
    <2>3. b[last(B)] = lv(i + 1)
      BY <1>3, <2>2
    <2>4. GetVariable(b, n) = k
      <3> HIDE DEF lv, B, b, last
      <3> QED BY <1>2, <2>1, <2>3
    <2> QED BY <1>5, <1>6, <2>4
  <1>7. CASE k = Absent
    <2>1. A = B
      <3> HIDE DEF A, B
      <3> QED BY <1>0, <1>3, <1>7
    <2>2. A # {} => last(A) \in 1..i
      <3>1. A \in SUBSET (1..i)
        <4> HIDE DEF A
        <4> QED BY <1>0
      <3>2. A # {} => \E x \in A : \A y \in A : y <= x
        <4> HIDE DEF A
        <4> QED BY <3>1, LastPosition
      <3>3. A # {} => last(A) \in A
        <4> HIDE DEF A
        <4> QED BY <3>2
      <3> HIDE DEF last
      <3> QED BY <3>1, <3>3
    <2>3. A # {} => a[last(A)] = b[last(A)]
      <3> HIDE DEF last, A
      <3> QED BY <1>3, <2>2
    <2>4. GetVariable(a, n) = GetVariable(b, n)
      <3> HIDE DEF A, B, a, b, last
      <3> QED BY <1>1, <1>2, <2>1, <2>3
    <2> QED BY <1>4, <1>5, <1>7, <2>4
  <1> QED BY <1>6, <1>7

\* What a scope of the evaluator knows is what it binds.
LEMMA ScopeKnows ==
  ASSUME NEW g, IsFold(g), NEW n \in Names
  PROVE  Known(g.level)[n] = g.level.variables[n]
  BY DEF IsFold, Known, Over, NoBindings

\* One that is empty changes nothing.
LEMMA EmptyScope ==
  ASSUME NEW r, NEW s, NEW i \in Nat, s[i + 1].fold.level = EmptyLevel(Names)
  PROVE  EnvAt(r, s, i + 1) = EnvAt(r, s, i)
  <1>1. \A n \in Names : Known(s[i + 1].fold.level)[n] = Absent
    BY DEF EmptyLevel, Known, Over, NoBindings
  <1>2. \A n \in Names : EnvAt(r, s, i + 1)[n] = EnvAt(r, s, i)[n]
    BY <1>1, NextEnv
  <1>3. EnvAt(r, s, i + 1) = [n \in Names |-> EnvAt(r, s, i + 1)[n]]
        /\ EnvAt(r, s, i) = [n \in Names |-> EnvAt(r, s, i)[n]]
    BY DEF EnvAt
  <1> QED BY <1>2, <1>3, Zenon

\* A variable bound in the innermost scope is bound in the environment.
LEMMA BoundEnv ==
  ASSUME NEW r, NEW s, NEW t, NEW i \in Nat, NEW x \in Names, NEW v,
         \A j \in 1..i : s[j].fold.level = t[j].fold.level,
         IsFold(s[i + 1].fold), t[i + 1].fold.level = Bound(s[i + 1].fold, x, v).level
  PROVE  EnvAt(r, t, i + 1) = [EnvAt(r, s, i + 1) EXCEPT ![x] = Some(v)]
  <1> DEFINE g == s[i + 1].fold
             h == Bound(g, x, v)
  <1>1. /\ DOMAIN g.level.variables = Names
        /\ h.level.variables = [g.level.variables EXCEPT ![x] = Some(v)]
        /\ h.level.resolver = g.level.resolver /\ g.level.resolver = NoBindings(Names)
    BY DEF IsFold, Bound
  <1> HIDE DEF h
  <1>2. \A n \in Names : Known(h.level)[n] = IF n = x THEN Some(v) ELSE g.level.variables[n]
    BY <1>1 DEF Known, Over, NoBindings
  <1>3. EnvAt(r, s, i) = EnvAt(r, t, i)
    BY SameEnv
  <1>4. ASSUME NEW n \in Names
        PROVE  EnvAt(r, t, i + 1)[n] = IF n = x THEN Some(v) ELSE EnvAt(r, s, i + 1)[n]
    <2>1. Known(g.level)[n] = g.level.variables[n]
      BY ScopeKnows
    <2>2. t[i + 1].fold.level = h.level
      BY DEF h
    <2>3. EnvAt(r, t, i + 1)[n] = LET k == Known(h.level)[n]
                                  IN IF k # Absent THEN k ELSE EnvAt(r, t, i)[n]
      <3>1. EnvAt(r, t, i + 1)[n] = LET k == Known(t[i + 1].fold.level)[n]
                                    IN IF k # Absent THEN k ELSE EnvAt(r, t, i)[n]
        BY NextEnv
      <3> QED BY <2>2, <3>1
    <2>4. EnvAt(r, s, i + 1)[n] = LET k == Known(g.level)[n]
                                  IN IF k # Absent THEN k ELSE EnvAt(r, s, i)[n]
      BY NextEnv
    <2>5. Known(h.level)[n] = IF n = x THEN Some(v) ELSE g.level.variables[n]
      BY <1>2
    <2>6. Some(v) # Absent
      BY SomeIsBound
    <2> HIDE DEF g
    <2>7. CASE n = x
      BY <2>3, <2>5, <2>6, <2>7
    <2>8. CASE n # x
      BY <1>3, <2>1, <2>3, <2>4, <2>5, <2>8
    <2> QED BY <2>7, <2>8
  <1>5. DOMAIN EnvAt(r, t, i + 1) = Names /\ DOMAIN EnvAt(r, s, i + 1) = Names
        /\ EnvAt(r, t, i + 1) = [n \in Names |-> EnvAt(r, t, i + 1)[n]]
    BY DEF EnvAt
  <1> DEFINE a == EnvAt(r, t, i + 1)
             c == EnvAt(r, s, i + 1)
  <1> HIDE DEF a, c
  <1>6. a = [n \in Names |-> IF n = x THEN Some(v) ELSE c[n]]
    <2>1. \A n \in Names : a[n] = IF n = x THEN Some(v) ELSE c[n]
      BY <1>4 DEF a, c
    <2>2. a = [n \in Names |-> a[n]]
      BY <1>5 DEF a
    <2> QED BY <2>1, <2>2
  <1>7. [c EXCEPT ![x] = Some(v)] = [n \in Names |-> IF n = x THEN Some(v) ELSE c[n]]
    BY <1>5 DEF c
  <1> QED BY <1>6, <1>7 DEF a, c
-----------------------------------------------------------------------------
(* Results, as they are passed on. *)

IsResult(d) == Failed(d) \/ d = Own(d[2]) \/ d = Lent(d[2])

\* d is among the results R, and so is the copy it may be turned into.
Came(d, R) ==
  /\ IsResult(d)
  /\ IF Failed(d) THEN d \in R ELSE Ok(d[2]) \in R /\ Ok(IntoOwned(d)) \in R

LEMMA ResultShapes ==
  /\ \A v : /\ ~Failed(Ok(v)) /\ ~Failed(Own(v)) /\ ~Failed(Lent(v)) /\ Failed(Err(v))
            /\ Ok(v)[2] = v /\ Own(v)[2] = v /\ Lent(v)[2] = v
            /\ Own(v)[3] = TRUE /\ Lent(v)[3] = FALSE
            /\ IntoOwned(Own(v)) = v /\ IntoOwned(Lent(v)) = Clone(v)
            /\ Own(v) # Panic /\ Lent(v) # Panic /\ Err(v) # Panic
            /\ Plain(Ok(v)) = Ok(v) /\ Plain(Own(v)) = Ok(v) /\ Plain(Lent(v)) = Ok(v)
  /\ \A d : Failed(d) => Plain(d) = d /\ Mine(d) = d
  /\ \A d : ~Failed(d) => Plain(d) = Ok(d[2]) /\ Mine(d) = Own(d[2])
  /\ ~Failed(OkTrue) /\ ~Failed(OkFalse) /\ OkTrue = Ok(OkTrue[2]) /\ OkFalse = Ok(OkFalse[2])
  <1>1. "ok" # "err" /\ "ok" # "panic" /\ "err" # "panic"
    OBVIOUS
  <1>2. Panic[1] = "panic"
    BY DEF Panic
  <1>3. \A v : /\ Ok(v)[1] = "ok" /\ Own(v)[1] = "ok" /\ Lent(v)[1] = "ok" /\ Err(v)[1] = "err"
               /\ Ok(v)[2] = v /\ Own(v)[2] = v /\ Lent(v)[2] = v
               /\ Own(v)[3] = TRUE /\ Lent(v)[3] = FALSE
    BY DEF Ok, Own, Lent, Err
  <1>4. \A v : ~Failed(Ok(v)) /\ ~Failed(Own(v)) /\ ~Failed(Lent(v)) /\ Failed(Err(v))
    BY <1>1, <1>3 DEF Failed
  <1>5. \A v : Own(v) # Panic /\ Lent(v) # Panic /\ Err(v) # Panic
    BY <1>1, <1>2, <1>3
  <1>6. \A v : IntoOwned(Own(v)) = v /\ IntoOwned(Lent(v)) = Clone(v)
    BY <1>3 DEF IntoOwned
  <1>7. \A d : (Failed(d) => Plain(d) = d /\ Mine(d) = d)
               /\ (~Failed(d) => Plain(d) = Ok(d[2]) /\ Mine(d) = Own(d[2]))
    BY DEF Plain, Mine
  <1>8. OkTrue = Ok(BoolVal(TRUE)) /\ OkFalse = Ok(BoolVal(FALSE))
    BY DEF OkTrue, OkFalse
  <1>9. \A v : Plain(Ok(v)) = Ok(v) /\ Plain(Own(v)) = Ok(v) /\ Plain(Lent(v)) = Ok(v)
    BY <1>3, <1>4 DEF Plain
  <1>10. ~Failed(OkTrue) /\ ~Failed(OkFalse) /\ OkTrue = Ok(OkTrue[2]) /\ OkFalse = Ok(OkFalse[2])
    BY <1>3, <1>4, <1>8
  <1> QED BY <1>3, <1>4, <1>5, <1>6, <1>7, <1>9, <1>10

LEMMA CameOwn ==
  ASSUME NEW v, NEW R, Ok(v) \in R
  PROVE  Came(Own(v), R)
  BY ResultShapes DEF Came, IsResult

LEMMA CameLent ==
  ASSUME NEW v, NEW R, Ok(v) \in R, Ok(Clone(v)) \in R
  PROVE  Came(Lent(v), R)
  BY ResultShapes DEF Came, IsResult

LEMMA CameFailed ==
  ASSUME NEW d, Failed(d), NEW R, d \in R
  PROVE  Came(d, R)
  BY DEF Came, IsResult

LEMMA CameMine ==
  ASSUME NEW x, NEW R, x \in R, Failed(x) \/ x = Ok(x[2])
  PROVE  Came(Mine(x), R)
  <1>1. CASE Failed(x)
    BY <1>1, CameFailed, ResultShapes
  <1>2. CASE ~Failed(x)
    <2>1. Ok(x[2]) \in R /\ Mine(x) = Own(x[2])
      BY <1>2, ResultShapes
    <2> QED BY <2>1, CameOwn
  <1> QED BY <1>1, <1>2

LEMMA CamePassed ==
  ASSUME NEW d, IsResult(d), NEW R, Passed(d) \subseteq R
  PROVE  Came(d, R)
  <1>1. CASE Failed(d)
    <2>1. d \in Passed(d)
      BY <1>1 DEF Passed
    <2> QED BY <1>1, <2>1, CameFailed
  <1>2. CASE ~Failed(d)
    <2>1. Passed(d) = {Ok(w) : w \in IF d = Lent(d[2]) THEN {d[2], Clone(d[2])} ELSE {d[2]}}
      BY <1>2 DEF Passed, OkAny, Copies
    <2>2. Ok(d[2]) \in R /\ (d = Lent(d[2]) => Ok(Clone(d[2])) \in R)
      BY <2>1
    <2>3. CASE d = Lent(d[2])
      <3>1. Came(Lent(d[2]), R)
        BY <2>2, <2>3, CameLent
      <3> QED BY <2>3, <3>1
    <2>4. CASE d = Own(d[2])
      <3>1. Came(Own(d[2]), R)
        BY <2>2, CameOwn
      <3> QED BY <2>4, <3>1
    <2> QED BY <1>2, <2>3, <2>4 DEF IsResult
  <1> QED BY <1>1, <1>2

\* What a result that came tells.
LEMMA CameError ==
  ASSUME NEW d, NEW R, Came(d, R), Failed(d)
  PROVE  d \in R /\ d \in Errors(R) /\ Plain(d) = d
  BY ResultShapes DEF Came, Errors

LEMMA CameValue ==
  ASSUME NEW d, NEW R, Came(d, R), ~Failed(d)
  PROVE  /\ Ok(d[2]) \in R /\ d[2] \in ValuesIn(R) /\ Plain(d) = Ok(d[2])
         /\ Ok(IntoOwned(d)) \in R /\ IntoOwned(d) \in ValuesIn(R)
         /\ d \in Handed(R)
         /\ d = Own(d[2]) \/ d = Lent(d[2])
  <1>1. Ok(d[2]) \in R /\ Ok(IntoOwned(d)) \in R /\ (d = Own(d[2]) \/ d = Lent(d[2]))
    BY DEF Came, IsResult
  <1>2. \A v : Ok(v) \in R => v \in ValuesIn(R)
    <2>1. ASSUME NEW v, Ok(v) \in R PROVE v \in ValuesIn(R)
      <3>1. ~Failed(Ok(v)) /\ Ok(v)[2] = v
        BY ResultShapes
      <3> DEFINE o == Ok(v)
      <3> HIDE DEF o
      <3>2. o \in R /\ ~Failed(o) /\ o[2] = v
        BY <2>1, <3>1 DEF o
      <3> QED BY <3>2 DEF ValuesIn
    <2> QED BY <2>1
  <1>3. d \in Handed(R)
    BY <1>1, <1>2 DEF Handed
  <1> QED BY <1>1, <1>2, <1>3, ResultShapes

LEMMA CamePlain ==
  ASSUME NEW d, NEW R, Came(d, R)
  PROVE  Plain(d) \in R /\ (Failed(Plain(d)) <=> Failed(d)) /\ d # Panic
  <1>1. CASE Failed(d)
    <2>1. d # Panic
      <3>1. Panic[1] = "panic" /\ "err" # "panic"
        BY DEF Panic
      <3> QED BY <1>1, <3>1 DEF Failed
    <2> QED BY <1>1, <2>1, CameError
  <1>2. CASE ~Failed(d)
    BY <1>2, CameValue, ResultShapes
  <1> QED BY <1>1, <1>2

\* One choice for each of several sets.
LEMMA Selects ==
  ASSUME NEW sets, NEW f, f = [i \in DOMAIN sets |-> f[i]],
         \A i \in DOMAIN sets : f[i] \in sets[i]
  PROVE  f \in Selections(sets)
  <1>1. \A i \in DOMAIN sets : f[i] \in UNION {sets[j] : j \in DOMAIN sets}
    OBVIOUS
  <1>2. f \in [DOMAIN sets -> UNION {sets[j] : j \in DOMAIN sets}]
    BY <1>1
  <1> QED BY <1>2 DEF Selections
-----------------------------------------------------------------------------
(* The stack, as far as it has come. *)

FoldOperand(e, phase) ==
  CASE phase = "init"   -> e.accu_init
    [] phase = "range"  -> e.iter_range
    [] phase = "cond"   -> e.loop_cond
    [] phase = "step"   -> e.loop_step
    [] phase = "result" -> e.result

\* The operand of f's expression whose result is the j-th.
OperandAt(f, j) ==
  CASE f.e.op = "call" ->
         IF f.e.func = "_?_:_" /\ j > 1
         THEN IF TryBool(Plain(f.done[1])) = OkTrue THEN f.e.args[2] ELSE f.e.args[3]
         ELSE f.e.args[j]
    [] f.e.op = "member" -> IF j > Len(f.e.args) THEN f.e.target ELSE f.e.args[j]
    [] f.e.op = "select" -> f.e.operand
    [] f.e.op = "list"   -> f.e.elements[j]
    [] f.e.op \in {"map", "struct"} -> f.e.entries[j]
    [] f.e.op = "fold"   -> FoldOperand(f.e, f.fold.phase)

\* The functions that go on after an error.
Lenient == {"_?_:_", "_||_", "_&&_", "@not_strictly_false"}

\* With j results, f goes on to another operand.
WentPast(e, j, d) ==
  /\ ~(e.op = "call" /\ e.func \in Lenient) => ~Failed(d)
  /\ e.op = "call" /\ e.func = "_?_:_" /\ j = 1 => ~Failed(TryBool(Plain(d)))
  /\ e.op = "call" /\ e.func \in {"_[_]", "_[?_]"} /\ j = 1 =>
       d[2] # OptNone /\ IsIndexer(Container(d)[2])
  /\ e.op = "map" /\ j % 2 = 1 => TypeOf(IntoOwned(d)) \in KeyTypes

Went(f, j) ==
  /\ j > 0 => WentPast(f.e, j, f.done[j])
  /\ f.e.op = "member" /\ j = Len(f.e.args) =>
       ~(QualifiedName(f.e) # "" /\ Found(QualifiedName(f.e), FALSE, [i \in 1..j |-> f.done[i]]))
  /\ f.e.op = "struct" => f.e.name \in DOMAIN StructDefs

\* What is left to do of a comprehension comes to one of its results.
FoldMeant(e, g, outer, inner) ==
  /\ g.taken \in Nat
  /\ g.phase \notin OpenPhases => g.taken = 0 /\ g.level = EmptyLevel(Names)
  /\ g.phase = "range"  => ~Failed(g.accu) /\ Came(g.accu, Results(e.accu_init, outer))
  /\ g.phase = "next"   => Passes(e, inner, g.items, g.taken) \subseteq Results(e, outer)
  /\ g.phase = "cond"   => /\ g.taken > 0 /\ g.taken - 1 # Len(g.items)
                           /\ Passes(e, inner, g.items, g.taken - 1) \subseteq Results(e, outer)
  /\ g.phase = "step"   => Stepped(e, inner, g.items, g.taken) \subseteq Results(e, outer)
  /\ g.phase = "result" => Results(e.result, inner) \subseteq Results(e, outer)

Meant(f, outer, inner) ==
  /\ \A j \in 1..Len(f.done) : Came(f.done[j], Results(OperandAt(f, j), inner))
  /\ \A j \in 0..Len(f.done) - 1 : Went(f, j)
  /\ f.e.op # "fold" => f.fold = Closed
  /\ f.e.op = "fold" => FoldMeant(f.e, f.fold, outer, inner)

IsMeant(r, s) ==
  \A i \in 1..Len(s) :
    /\ Meant(s[i], EnvAt(r, s, i - 1), EnvAt(r, s, i))
    /\ i < Len(s) => /\ Went(s[i], Len(s[i].done))
                     /\ s[i + 1].e = OperandAt(s[i], Len(s[i].done) + 1)

\* A new frame has come nowhere.
LEMMA NewMeant ==
  ASSUME NEW c, NEW outer, NEW inner
  PROVE  Meant(Frame(c), outer, inner)
  <1>1. Frame(c).done = <<>> /\ Len(Frame(c).done) = 0 /\ Frame(c).fold = Closed
    BY NewFrame DEF Frame
  <1>2. Closed.phase = "init" /\ Closed.taken = 0 /\ Closed.level = EmptyLevel(Names)
    BY DEF Closed
  <1>3. FoldMeant(Frame(c).e, Closed, outer, inner)
    BY <1>2 DEF FoldMeant, OpenPhases
  <1>4. 1..0 = {} /\ 0..0-1 = {}
    OBVIOUS
  <1> QED BY <1>1, <1>3, <1>4 DEF Meant

\* The frame on top goes on to the operand c.
LEMMA MeantPushed ==
  ASSUME NEW p, NEW r, NEW s, IsStack(s, p), s # <<>>, IsMeant(r, s), NEW c,
         c = OperandAt(s[Len(s)], Len(s[Len(s)].done) + 1), Went(s[Len(s)], Len(s[Len(s)].done))
  PROVE  IsMeant(r, Append(s, Frame(c)))
  <1> DEFINE t == Append(s, Frame(c))
             n == Len(s)
  <1>1. n \in Nat /\ n >= 1 /\ n \in 1..n
    BY SequenceDomain DEF IsStack
  <1>2. /\ IsSequence(t) /\ Len(t) = n + 1 /\ t[n + 1] = Frame(c)
        /\ \A i \in 1..n : t[i] = s[i]
    BY Appended DEF IsStack
  <1> HIDE DEF t, n
  <1>3. ASSUME NEW i \in 0..n PROVE EnvAt(r, t, i) = EnvAt(r, s, i)
    <2>1. \A j \in 1..i : t[j].fold.level = s[j].fold.level
      BY <1>1, <1>2
    <2> QED BY <2>1, SameEnv
  <1>4. ASSUME NEW i \in 1..n + 1
        PROVE  /\ Meant(t[i], EnvAt(r, t, i - 1), EnvAt(r, t, i))
               /\ i < n + 1 => /\ Went(t[i], Len(t[i].done))
                               /\ t[i + 1].e = OperandAt(t[i], Len(t[i].done) + 1)
    <2>1. CASE i = n + 1
      BY <2>1, <1>1, <1>2, NewMeant
    <2>2. CASE i \in 1..n
      <3>1. i \in 0..n /\ i - 1 \in 0..n /\ i \in 1..n
        BY <2>2, <1>1
      <3>2. Meant(t[i], EnvAt(r, t, i - 1), EnvAt(r, t, i))
        BY <3>1, <1>2, <1>3 DEF IsMeant, n
      <3>3. CASE i = n
        BY <3>1, <3>2, <3>3, <1>1, <1>2, NewFrame DEF n
      <3>4. CASE i < n
        <4>1. i + 1 \in 1..n
          BY <3>1, <3>4, <1>1
        <4> QED BY <3>1, <3>2, <3>4, <4>1, <1>2 DEF IsMeant, n
      <3> QED BY <3>1, <3>3, <3>4, <1>1
    <2> QED BY <2>1, <2>2, <1>1
  <1> QED BY <1>2, <1>4 DEF IsMeant, t

\* The frame on top turns into one that has come as far.
LEMMA MeantReplaced ==
  ASSUME NEW p, NEW r, NEW s, IsStack(s, p), s # <<>>, IsMeant(r, s), NEW f, f.e = s[Len(s)].e,
         Meant(f, EnvAt(r, s, Len(s) - 1), EnvAt(r, Append(Front(s), f), Len(s)))
  PROVE  IsMeant(r, Append(Front(s), f))
  <1> DEFINE t == Append(Front(s), f)
             n == Len(s)
  <1>1. n \in Nat /\ n >= 1 /\ (n - 1) + 1 = n
    BY SequenceDomain DEF IsStack
  <1>3. /\ IsSequence(t) /\ Len(t) = n /\ t[n] = f
        /\ \A i \in 1..n - 1 : t[i] = s[i]
    BY OnTop DEF IsStack
  <1>4. Meant(f, EnvAt(r, s, n - 1), EnvAt(r, t, n))
    OBVIOUS
  <1> HIDE DEF t, n
  <1>5. ASSUME NEW i \in 0..n - 1 PROVE EnvAt(r, t, i) = EnvAt(r, s, i)
    <2>1. \A j \in 1..i : t[j].fold.level = s[j].fold.level
      BY <1>1, <1>3
    <2> QED BY <2>1, SameEnv
  <1>6. ASSUME NEW i \in 1..n
        PROVE  /\ Meant(t[i], EnvAt(r, t, i - 1), EnvAt(r, t, i))
               /\ i < n => /\ Went(t[i], Len(t[i].done))
                           /\ t[i + 1].e = OperandAt(t[i], Len(t[i].done) + 1)
    <2>1. CASE i = n
      BY <2>1, <1>1, <1>3, <1>4, <1>5
    <2>2. CASE i \in 1..n - 1
      <3>1. i \in 0..n - 1 /\ i - 1 \in 0..n - 1 /\ i \in 1..n /\ i < n
            /\ (i + 1 = n \/ i + 1 \in 1..n - 1)
        BY <2>2, <1>1
      <3>2. t[i] = s[i] /\ t[i + 1].e = s[i + 1].e
        BY <2>2, <3>1, <1>3 DEF n
      <3> QED BY <3>1, <3>2, <1>5 DEF IsMeant, n
    <2> QED BY <2>1, <2>2, <1>1
  <1> QED BY <1>3, <1>6 DEF IsMeant, t

\* g has the result d more than f.
IsFurther(f, g, d) ==
  /\ \A j \in 1..Len(f.done) + 1 : OperandAt(g, j) = OperandAt(f, j)
  /\ \A j \in 0..Len(f.done) : Went(g, j) = Went(f, j)
  /\ Len(g.done) = Len(f.done) + 1 /\ Len(f.done) \in Nat
  /\ g.done[Len(f.done) + 1] = d /\ \A j \in 1..Len(f.done) : g.done[j] = f.done[j]

\* One result more says nothing else of those before it.
LEMMA Further ==
  ASSUME NEW f, NEW g, NEW d, IsSequence(f.done),
         g.e = f.e, g.fold = f.fold, g.done = Append(f.done, d)
  PROVE  IsFurther(f, g, d)
  <1> DEFINE n == Len(f.done)
  <1>1. n \in Nat
    BY SequenceDomain
  <1>2. Len(g.done) = n + 1 /\ g.done[n + 1] = d /\ \A j \in 1..n : g.done[j] = f.done[j]
    BY Appended
  <1> HIDE DEF n
  <1>3. ASSUME NEW j \in 1..n + 1 PROVE OperandAt(g, j) = OperandAt(f, j)
    <2>1. j > 1 => g.done[1] = f.done[1]
      BY <1>1, <1>2
    <2> QED BY <2>1 DEF OperandAt
  <1>4. ASSUME NEW j \in 0..n PROVE Went(g, j) = Went(f, j)
    <2>1. j > 0 => g.done[j] = f.done[j]
      BY <1>1, <1>2
    <2>2. [i \in 1..j |-> g.done[i]] = [i \in 1..j |-> f.done[i]]
      <3>1. \A i \in 1..j : g.done[i] = f.done[i]
        BY <1>1, <1>2
      <3> QED BY <3>1
    <2> QED BY <2>1, <2>2 DEF Went
  <1> QED BY <1>1, <1>2, <1>3, <1>4 DEF n, IsFurther

\* A frame's result is what the frame below it waits for.
LEMMA MeantReturned ==
  ASSUME NEW p, NEW r, NEW s, IsStack(s, p), s # <<>>, Len(s) # 1, IsMeant(r, s),
         NEW d, Came(d, Results(s[Len(s)].e, EnvAt(r, s, Len(s) - 1)))
  PROVE  IsMeant(r, [Front(s) EXCEPT ![Len(Front(s))].done = Append(@, d)])
  <1> DEFINE b == Front(s)
             n == Len(s)
             m == n - 1
             f == [b[m] EXCEPT !.done = Append(@, d)]
             t == [b EXCEPT ![m] = f]
  <1>1. n \in Nat /\ n >= 1 /\ n # 1
    BY SequenceDomain DEF IsStack
  <1>0. Came(d, Results(s[n].e, EnvAt(r, s, m)))
    OBVIOUS
  <1> HIDE DEF n
  <1>2. m \in Nat /\ m >= 1 /\ m \in 1..m /\ m < n /\ m \in 1..n /\ m + 1 = n
        /\ \A i \in 1..m : i \in 1..n /\ i < n
    BY <1>1
  <1>3. IsSequence(b) /\ Len(b) = m /\ \A i \in 1..m : b[i] = s[i]
    BY Fronted DEF IsStack, n
  <1>4. [Front(s) EXCEPT ![Len(Front(s))].done = Append(@, d)] = t
    BY <1>3
  <1> HIDE DEF b, m
  <1>5. IsFrame(b[m])
    BY <1>2, <1>3 DEF IsStack, n
  <1>6. f.e = b[m].e /\ f.done = Append(b[m].done, d) /\ f.fold = b[m].fold
    BY <1>5 DEF IsFrame
  <1> HIDE DEF f
  <1>7. /\ IsSequence(t) /\ Len(t) = m
        /\ \A i \in 1..m : t[i] = IF i = m THEN f ELSE b[i]
    <2>1. IsSequence(b) /\ m \in 1..Len(b)
      BY <1>2, <1>3
    <2>2. /\ IsSequence([b EXCEPT ![m] = f])
          /\ Len([b EXCEPT ![m] = f]) = Len(b)
          /\ \A i \in 1..Len(b) : [b EXCEPT ![m] = f][i] = IF i = m THEN f ELSE b[i]
      BY <2>1, Changed
    <2> QED BY <1>3, <2>2
  <1> HIDE DEF t
  <1>8. \A i \in 1..m : t[i].fold = s[i].fold /\ t[i].e = s[i].e
    BY <1>3, <1>6, <1>7
  <1>9. ASSUME NEW i \in 0..m PROVE EnvAt(r, t, i) = EnvAt(r, s, i)
    <2>1. \A j \in 1..i : t[j].fold.level = s[j].fold.level
      BY <1>2, <1>8
    <2> QED BY <2>1, SameEnv
  <1>10. \A i \in 1..m : i \in 0..m /\ i - 1 \in 0..m
    BY <1>2
  <1>11. ASSUME NEW i \in 1..m
         PROVE  /\ Meant(t[i], EnvAt(r, t, i - 1), EnvAt(r, t, i))
                /\ i < m => /\ Went(t[i], Len(t[i].done))
                            /\ t[i + 1].e = OperandAt(t[i], Len(t[i].done) + 1)
    <2>1. Meant(s[i], EnvAt(r, t, i - 1), EnvAt(r, t, i))
          /\ Went(s[i], Len(s[i].done)) /\ s[i + 1].e = OperandAt(s[i], Len(s[i].done) + 1)
      <3>1. i \in 1..n /\ i < n
        BY <1>2
      <3>2. /\ Meant(s[i], EnvAt(r, s, i - 1), EnvAt(r, s, i))
            /\ Went(s[i], Len(s[i].done)) /\ s[i + 1].e = OperandAt(s[i], Len(s[i].done) + 1)
        BY <3>1 DEF IsMeant, n
      <3> QED BY <3>2, <1>9, <1>10
    <2>2. CASE i # m
      <3>1. t[i] = s[i] /\ i + 1 \in 1..m
        BY <2>2, <1>2, <1>3, <1>7
      <3> QED BY <2>1, <3>1, <1>8
    <2>3. CASE i = m
      <3> DEFINE g == s[m]
                 k == Len(g.done)
                 inner == EnvAt(r, s, m)
      <3>0. i = m /\ t[i] = f /\ g = b[m] /\ IsSequence(g.done) /\ s[n].e = OperandAt(g, k + 1)
            /\ Went(g, k) /\ EnvAt(r, t, i) = inner /\ ~(i < m)
        BY <2>1, <2>3, <1>2, <1>3, <1>5, <1>7, <1>9, <1>10 DEF IsFrame
      <3>1. /\ \A j \in 1..k + 1 : OperandAt(f, j) = OperandAt(g, j)
            /\ \A j \in 0..k : Went(f, j) = Went(g, j)
            /\ Len(f.done) = k + 1 /\ k \in Nat
            /\ f.done[k + 1] = d /\ \A j \in 1..k : f.done[j] = g.done[j]
        <4>1. f.e = g.e /\ f.fold = g.fold /\ f.done = Append(g.done, d) /\ IsSequence(g.done)
          BY <3>0, <1>6
        <4> HIDE DEF g
        <4>2. IsFurther(g, f, d)
          BY <4>1, Further
        <4> QED BY <4>2 DEF IsFurther
      <3>2. /\ \A j \in 1..k : Came(g.done[j], Results(OperandAt(g, j), inner))
            /\ \A j \in 0..k - 1 : Went(g, j)
            /\ g.e.op # "fold" => g.fold = Closed
            /\ g.e.op = "fold" => FoldMeant(g.e, g.fold, EnvAt(r, t, i - 1), inner)
        BY <2>1, <3>0 DEF Meant
      <3>3. Came(d, Results(OperandAt(g, k + 1), inner))
        BY <1>0, <3>0
      <3>4. f.e = g.e /\ f.fold = g.fold
        BY <3>0, <1>6
      <3> HIDE DEF g, k, inner
      <3>5. \A j \in 1..k + 1 : j \in 1..k \/ j = k + 1
        BY <3>1
      <3>6. \A j \in 0..(k + 1) - 1 : j \in 0..k /\ (j \in 0..k - 1 \/ j = k)
        BY <3>1
      <3>7. \A j \in 1..k + 1 : Came(f.done[j], Results(OperandAt(f, j), inner))
        BY <3>1, <3>2, <3>3, <3>5
      <3>8. \A j \in 0..(k + 1) - 1 : Went(f, j)
        BY <3>0, <3>1, <3>2, <3>6
      <3>9. Meant(f, EnvAt(r, t, i - 1), inner)
        BY <3>1, <3>2, <3>4, <3>7, <3>8 DEF Meant
      <3> QED BY <3>0, <3>9
    <2> QED BY <2>2, <2>3
  <1> QED BY <1>4, <1>7, <1>11 DEF IsMeant
-----------------------------------------------------------------------------
(* The steps, as far as they come. *)

\* Results and Passes are the meaning of the programs.
Means == \A p \in Programs : IsMeaning(Subexpressions(p))

\* What is known to the expression on top, and to its operands.
Outer == EnvAt(root, stack, Len(stack) - 1)
Around == EnvAt(root, stack, Len(stack))

AtRoot == [n \in Names |-> Known(root)[n]]

HasCome(s, o) == IsMeant(root, s) /\ (o \notin Outcomes => Came(o, Results(program, AtRoot)))

MInv == IInv /\ HasCome(stack, out)

\* What a step makes of the results.
MKept == HasCome(stack', out')

LEMMA MeantFacts ==
  ASSUME MInv, Means, Active
  PROVE  /\ IInv /\ Meant(Top, Outer, Around)
         /\ Results(E, Outer) = ResultsOf(E, Outer)
         /\ \A env, items : \A taken \in Nat :
              Passes(E, env, items, taken) = PassesOf(E, env, items, taken)
         /\ Top.fold.level = EmptyLevel(Names) => Around = Outer
         /\ E.op # "fold" => Around = Outer
  <1>1. IInv /\ IsMeant(root, stack)
    BY DEF MInv, HasCome
  <1>2. Len(stack) \in Nat /\ Len(stack) >= 1 /\ E \in Subexpressions(program) /\ program \in Programs
    BY <1>1, TopFacts
  <1>3. Len(stack) \in 1..Len(stack) /\ Len(stack) - 1 \in Nat /\ (Len(stack) - 1) + 1 = Len(stack)
    BY <1>2
  <1>4. Meant(Top, Outer, Around)
    BY <1>1, <1>3 DEF IsMeant, Top, Outer, Around
  <1>5. Top.fold.level = EmptyLevel(Names) => Around = Outer
    BY <1>3, EmptyScope DEF Top, Outer, Around
  <1>6. E.op # "fold" => Top.fold.level = EmptyLevel(Names)
    BY <1>4 DEF Meant, E, Closed
  <1>7. IsMeaning(Subexpressions(program))
    BY <1>2 DEF Means
  <1>8. Results(E, Outer) = ResultsOf(E, Outer)
        /\ \A env, items : \A taken \in Nat :
             Passes(E, env, items, taken) = PassesOf(E, env, items, taken)
    BY <1>2, <1>7 DEF IsMeaning
  <1> QED BY <1>1, <1>4, <1>5, <1>6, <1>8

\* The operands that have come to results, of what is no comprehension.
LEMMA Operated ==
  ASSUME MInv, Means, Active, E.op # "fold"
  PROVE  /\ \A j \in 1..Len(Done) : Came(Done[j], Results(OperandAt(Top, j), Outer))
         /\ \A j \in 0..Len(Done) - 1 : Went(Top, j)
  BY MeantFacts DEF Meant, E, Done

LEMMA StartMeant ==
  ASSUME MInv, Active, NEW c, c = OperandAt(Top, Len(Done) + 1), Went(Top, Len(Done)), Start(c)
  PROVE  MKept
  <1>1. stack' = Append(stack, Frame(c)) /\ out' = out
    BY DEF Start
  <1>2. IsStack(stack, program) /\ stack # <<>> /\ IsMeant(root, stack) /\ out = NoResult
    BY TopFacts DEF MInv, HasCome, Active
  <1>3. IsMeant(root, Append(stack, Frame(c)))
    BY <1>2, MeantPushed DEF Top, Done
  <1> QED BY <1>1, <1>2, <1>3 DEF MKept, HasCome, Outcomes

LEMMA ReturnMeant ==
  ASSUME MInv, Active, NEW d, d = Panic \/ Came(d, Results(E, Outer)), Return(d)
  PROVE  MKept
  <1>1. IsStack(stack, program) /\ stack # <<>> /\ IsMeant(root, stack) /\ out = NoResult
        /\ stack[1].e = program
    BY TopFacts DEF MInv, HasCome, Active, IsStack, IsPath
  <1>2. CASE d = Panic \/ Len(stack) = 1
    <2>1. stack' = <<>> /\ out' = d
      BY <1>2 DEF Return
    <2>2. IsMeant(root, <<>>)
      BY EmptySequence DEF IsMeant
    <2>3. d # Panic => Came(d, Results(program, AtRoot))
      BY <1>1, <1>2, RootEnv DEF E, Top, Outer, AtRoot
    <2> QED BY <2>1, <2>2, <2>3 DEF MKept, HasCome, Outcomes
  <1>3. CASE ~(d = Panic \/ Len(stack) = 1)
    <2>1. /\ stack' = [Front(stack) EXCEPT ![Len(Front(stack))].done = Append(@, d)]
          /\ out' = out
      BY <1>3 DEF Return
    <2>2. IsMeant(root, [Front(stack) EXCEPT ![Len(Front(stack))].done = Append(@, d)])
      BY <1>1, <1>3, MeantReturned DEF E, Top, Outer
    <2> QED BY <1>1, <2>1, <2>2 DEF MKept, HasCome, Outcomes
  <1> QED BY <1>2, <1>3
-----------------------------------------------------------------------------
(* Names, and what needs only some of its operands. *)

LEMMA LiteralMeant == ASSUME MInv, Means, Literal PROVE MKept
  <1> DEFINE d == IF E.value = Null THEN Own(Null) ELSE Lent(E.value)
             R == Results(E, Outer)
  <1>1. Active /\ E.op = "lit" /\ Return(d)
    BY DEF Literal
  <1>2. Ok(E.value) \in R /\ Ok(Clone(E.value)) \in R
    <2>1. R = OkAny(Copies(E.value))
      BY <1>1, MeantFacts DEF ResultsOf
    <2> QED BY <2>1 DEF OkAny, Copies
  <1>3. Came(d, R)
    BY <1>2, CameOwn, CameLent
  <1> QED BY <1>1, <1>3, ReturnMeant

\* The root context by itself.
LEMMA RootKnows ==
  ASSUME NEW r, NEW n
  PROVE  GetVariable(<<r>>, n) = Known(r)[n]
  <1> DEFINE found == {i \in DOMAIN <<r>> : Known(<<r>>[i])[n] # Absent}
  <1>1. GetVariable(<<r>>, n) =
        IF found = {} THEN Absent ELSE Known(<<r>>[CHOOSE i \in found : \A j \in found : j <= i])[n]
    BY DEF GetVariable
  <1>2. DOMAIN <<r>> = {1} /\ <<r>>[1] = r
    OBVIOUS
  <1>3. CASE Known(r)[n] # Absent
    <2>1. found = {1}
      BY <1>2, <1>3
    <2> HIDE DEF found
    <2>2. (CHOOSE i \in found : \A j \in found : j <= i) = 1
      BY <2>1
    <2> QED BY <1>1, <1>2, <2>1, <2>2
  <1>4. CASE Known(r)[n] = Absent
    <2>1. found = {}
      BY <1>2, <1>4
    <2> HIDE DEF found
    <2> QED BY <1>1, <1>4, <2>1
  <1> QED BY <1>3, <1>4

LEMMA IdentMeant == ASSUME MInv, Means, Ident PROVE MKept
  <1> DEFINE inner == GetVariable(Inner, E.name)
             v == IF inner # Absent THEN inner ELSE GetVariable(<<root>>, E.name)
             d == IF v = Absent THEN Err(UndeclaredReference)
                  ELSE IF v = Panic THEN Panic
                  ELSE IF inner = Absent /\ root.resolver[E.name] # Absent THEN Own(v[2])
                  ELSE Lent(v[2])
             R == Results(E, Outer)
  <1>1. Active /\ E.op = "ident" /\ Return(d)
    BY DEF Ident
  <1>2. E.name \in Names
    BY <1>1, TopFacts, ProgramFacts DEF MInv
  <1>3. Around[E.name] = v
    <2>1. Inner = [j \in 1..Len(stack) |-> stack[j].fold.level]
      <3>1. DOMAIN stack = 1..Len(stack)
        BY <1>1, TopFacts, SequenceDomain DEF MInv, IsStack
      <3> QED BY <3>1 DEF Inner
    <2>2. GetVariable(<<root>>, E.name) = Known(root)[E.name]
      BY RootKnows
    <2> QED BY <1>2, <2>1, <2>2 DEF Around, EnvAt
  <1>4. R = OfIdent(v)
    BY <1>1, <1>3, MeantFacts DEF ResultsOf
  <1> HIDE DEF v, inner
  <1>5. d = Panic \/ Came(d, R)
    <2>1. CASE v = Absent
      <3>1. d \in R /\ Failed(d)
        BY <1>4, <2>1, ResultShapes DEF OfIdent
      <3> QED BY <3>1, CameFailed
    <2>2. CASE v # Absent /\ v # Panic
      <3>1. Ok(v[2]) \in R /\ Ok(Clone(v[2])) \in R
        BY <1>4, <2>2 DEF OfIdent, OkAny, Copies
      <3> QED BY <2>2, <3>1, CameOwn, CameLent
    <2>3. CASE v # Absent /\ v = Panic
      BY <2>3
    <2> QED BY <2>1, <2>2, <2>3
  <1> QED BY <1>1, <1>5, ReturnMeant

\* An operator, and its operands.
LEMMA OperatorMeans ==
  ASSUME MInv, Means, Active, E.op = "call", E.func \in Operators
  PROVE  /\ Results(E, Outer) = OfOperator(E.func, E.args, Outer)
         /\ \A j \in 1..Len(Done) : Came(Done[j], Results(OperandAt(Top, j), Outer))
         /\ \A j \in 1..Len(Done) - 1 : WentPast(E, j, Done[j])
         /\ \A j : E.func # "_?_:_" \/ j = 1 => OperandAt(Top, j) = E.args[j]
         /\ Len(Done) \in Nat /\ Len(Done) <= Len(E.args) /\ (Done = <<>> <=> Len(Done) = 0)
  <1>2. IInv /\ Room(E) = Len(E.args)
    BY CallFacts DEF MInv
  <1>3. Results(E, Outer) = OfOperator(E.func, E.args, Outer)
    BY MeantFacts DEF ResultsOf
  <1>4. Len(Done) \in Nat /\ Len(Done) <= Len(E.args) /\ (Done = <<>> <=> Len(Done) = 0)
    BY <1>2, TopFacts
  <1>5. \A j : E.func # "_?_:_" \/ j = 1 => OperandAt(Top, j) = E.args[j]
    BY DEF OperandAt, E
  <1>6. \A j \in 1..Len(Done) - 1 : WentPast(E, j, Done[j])
    BY <1>4, Operated DEF Went, E, Done
  <1> QED BY <1>2, <1>3, <1>4, <1>5, <1>6, Operated

\* The operators that are no binary ones, one by one.
LEMMA OperatorsMean ==
  ASSUME NEW args, NEW env
  PROVE  LET A(i) == Results(args[i], env) IN
         /\ OfOperator("_?_:_", args, env) = OfTernary(A(1), A(2), A(3))
         /\ OfOperator("_||_", args, env) = OfConnective(OkTrue, A(1), A(2))
         /\ OfOperator("_&&_", args, env) = OfConnective(OkFalse, A(1), A(2))
         /\ OfOperator("@not_strictly_false", args, env) = {NotStrictlyFalse(r) : r \in A(1)}
         /\ \A op \in {"!_", "-_"} : OfOperator(op, args, env) = OfUnary(op, A(1))
         /\ \A op \in {"_[_]", "_[?_]"} : OfOperator(op, args, env) = OfIndex(op = "_[?_]", A(1), A(2))
         /\ OfOperator("_?._", args, env) = OfOptSelect(A(1), A(2))
  <1> DEFINE A(i) == Results(args[i], env)
  <1>1. OfOperator("_?_:_", args, env) = OfTernary(A(1), A(2), A(3))
    BY DEF OfOperator, BinaryOps, ArithmeticOps
  <1>2. OfOperator("_||_", args, env) = OfConnective(OkTrue, A(1), A(2))
    BY DEF OfOperator, BinaryOps, ArithmeticOps
  <1>3. OfOperator("_&&_", args, env) = OfConnective(OkFalse, A(1), A(2))
    BY DEF OfOperator, BinaryOps, ArithmeticOps
  <1>4. OfOperator("@not_strictly_false", args, env) = {NotStrictlyFalse(r) : r \in A(1)}
    BY DEF OfOperator, BinaryOps, ArithmeticOps
  <1>5. \A op \in {"!_", "-_"} : OfOperator(op, args, env) = OfUnary(op, A(1))
    BY DEF OfOperator, BinaryOps, ArithmeticOps
  <1>6. \A op \in {"_[_]", "_[?_]"} : OfOperator(op, args, env) = OfIndex(op = "_[?_]", A(1), A(2))
    BY DEF OfOperator, BinaryOps, ArithmeticOps
  <1>7. OfOperator("_?._", args, env) = OfOptSelect(A(1), A(2))
    BY DEF OfOperator, BinaryOps, ArithmeticOps
  <1> QED BY <1>1, <1>2, <1>3, <1>4, <1>5, <1>6, <1>7

LEMMA BinaryMeans ==
  ASSUME NEW args, NEW env, NEW op \in BinaryOps
  PROVE  OfOperator(op, args, env) = OfBinary(op, Results(args[1], env), Results(args[2], env))
  BY DEF OfOperator, BinaryOps, ArithmeticOps

\* Its next operand.
LEMMA StartNext ==
  ASSUME MInv, Active, E.op = "call", NEW c, c = OperandAt(Top, Len(Done) + 1), Start(c),
         Len(Done) > 0 => WentPast(E, Len(Done), Done[Len(Done)])
  PROVE  MKept
  <1>1. Went(Top, Len(Done))
    BY DEF Went, E, Done
  <1> QED BY <1>1, StartMeant

LEMMA TernaryMeant == ASSUME MInv, Means, Ternary PROVE MKept
  <1> DEFINE k == Len(Done)
             c == TryBool(Plain(Done[1]))
             next == IF c = OkTrue THEN E.args[2] ELSE E.args[3]
             A(i) == Results(E.args[i], Outer)
             R == Results(E, Outer)
  <1>0. Active /\ E.op = "call" /\ E.func = "_?_:_" /\ Len(E.args) = 3 /\ E.func \in Operators
    BY DEF Ternary, IsCall, Operators
  <1>1. /\ R = OfOperator(E.func, E.args, Outer)
        /\ \A j \in 1..k : Came(Done[j], Results(OperandAt(Top, j), Outer))
        /\ \A j \in 1..k - 1 : WentPast(E, j, Done[j])
        /\ OperandAt(Top, 1) = E.args[1]
        /\ k \in Nat /\ k <= 3
    BY <1>0, OperatorMeans
  <1>2. R = OfTernary(A(1), A(2), A(3))
    BY <1>0, <1>1, OperatorsMean
  <1>3. \A j : j > 1 => OperandAt(Top, j) = next
    BY <1>0 DEF OperandAt, E, Done
  <1>4. k > 0 => Came(Done[1], A(1)) /\ Plain(Done[1]) \in A(1)
    <2>1. k > 0 => Came(Done[1], A(1))
      BY <1>1
    <2> QED BY <2>1, CamePlain
  <1>5. k > 0 => IF Failed(c) THEN c \in R ELSE IF c = OkTrue THEN A(2) \subseteq R ELSE A(3) \subseteq R
    <2> SUFFICES ASSUME k > 0
                 PROVE  IF Failed(c) THEN c \in R
                        ELSE IF c = OkTrue THEN A(2) \subseteq R ELSE A(3) \subseteq R
      OBVIOUS
    <2> DEFINE x == Plain(Done[1])
    <2>1. x \in A(1) /\ c = TryBool(x)
      BY <1>4
    <2> HIDE DEF x, A, R, c
    <2>2. (IF Failed(TryBool(x)) THEN {TryBool(x)} ELSE IF x = OkTrue THEN A(2) ELSE A(3)) \subseteq R
      BY <1>2, <2>1 DEF OfTernary
    <2>3. ~Failed(c) => c = x
      BY <2>1, ResultShapes DEF TryBool
    <2> QED BY <2>1, <2>2, <2>3
  <1>6. /\ Len(Done) = 0 => Start(E.args[1])
        /\ Len(Done) = 1 => IF Failed(c) THEN Return(c) ELSE Start(next)
        /\ Len(Done) # 0 /\ Len(Done) # 1 => Return(Done[2])
    BY DEF Ternary
  <1> HIDE DEF k
  <1>7. CASE k = 0
    BY <1>0, <1>1, <1>6, <1>7, StartNext DEF k
  <1>8. CASE k = 1 /\ Failed(c)
    <2>1. Came(c, R)
      BY <1>5, <1>8, CameFailed
    <2> QED BY <1>0, <1>1, <1>6, <1>8, <2>1, ReturnMeant DEF k
  <1>9. CASE k = 1 /\ ~Failed(c)
    <2>1. WentPast(E, 1, Done[1])
      BY <1>0, <1>9 DEF WentPast, Lenient
    <2> QED BY <1>0, <1>1, <1>3, <1>6, <1>9, <2>1, StartNext DEF k
  <1>10. CASE k # 0 /\ k # 1
    <2>1. Came(Done[2], Results(next, Outer))
      BY <1>1, <1>3, <1>10
    <2>2. ~Failed(c)
      BY <1>0, <1>1, <1>10 DEF WentPast
    <2>3. Results(next, Outer) \subseteq R
      BY <1>1, <1>5, <1>10, <2>2
    <2>4. Came(Done[2], R)
      BY <2>1, <2>3 DEF Came
    <2> QED BY <1>0, <1>1, <1>6, <1>10, <2>4, ReturnMeant DEF k
  <1> QED BY <1>7, <1>8, <1>9, <1>10

IsPlain(x) == Failed(x) \/ x = Ok(x[2])

LEMMA PlainIsPlain == \A d : IsPlain(Plain(d))
  BY ResultShapes DEF IsPlain

\* The bools as results.
LEMMA BoolResults ==
  /\ OkTrue # OkFalse
  /\ \A x : IsPlain(x) => /\ IsPlain(TryBool(x)) /\ (~Failed(TryBool(x)) => TryBool(x) = x)
                          /\ Failed(x) => TryBool(x) = x
                          /\ ~Failed(TryBool(x)) <=> x \in {OkTrue, OkFalse}
                          /\ ~Failed(x) => (IsBool(x[2]) <=> x \in {OkTrue, OkFalse})
                          /\ Failed(TryBool(x)) /\ ~Failed(x) => TryBool(x) = Err(NoSuchOverload)
  /\ IsPlain(OkTrue) /\ IsPlain(OkFalse)
  <1>1. OkTrue = Ok(BoolVal(TRUE)) /\ OkFalse = Ok(BoolVal(FALSE)) /\ BoolVal(TRUE) # BoolVal(FALSE)
    BY DEF OkTrue, OkFalse, BoolVal
  <1>2. \A v, w : Ok(v) = Ok(w) <=> v = w
    BY DEF Ok
  <1>3. OkTrue # OkFalse
    BY <1>1, <1>2
  <1>4. ASSUME NEW x, IsPlain(x), ~Failed(x)
        PROVE  x = Ok(x[2]) /\ (IsBool(x[2]) <=> x \in {OkTrue, OkFalse})
    BY <1>1, <1>2, <1>4 DEF IsPlain, IsBool
  <1>5. ASSUME NEW x, IsPlain(x)
        PROVE  /\ IsPlain(TryBool(x)) /\ (~Failed(TryBool(x)) => TryBool(x) = x)
               /\ Failed(x) => TryBool(x) = x
               /\ ~Failed(TryBool(x)) <=> x \in {OkTrue, OkFalse}
               /\ Failed(TryBool(x)) /\ ~Failed(x) => TryBool(x) = Err(NoSuchOverload)
    BY <1>4, <1>5, ResultShapes DEF TryBool, IsPlain
  <1>6. IsPlain(OkTrue) /\ IsPlain(OkFalse)
    BY ResultShapes DEF IsPlain
  <1> QED BY <1>3, <1>4, <1>5, <1>6

\* The connectives, in the order of their operands, come to what they mean.
LEMMA ConnectivesMean ==
  ASSUME NEW l, IsPlain(l), NEW r, IsPlain(r)
  PROVE  /\ LogicalOr(l, r) \in ({OkTrue} \cap {l, r}) \cup Connected(OkTrue, l, r)
         /\ LogicalAnd(l, r) \in ({OkFalse} \cap {l, r}) \cup Connected(OkFalse, l, r)
         /\ IsPlain(LogicalOr(l, r)) /\ IsPlain(LogicalAnd(l, r))
  <1>1. /\ IsPlain(TryBool(l)) /\ IsPlain(TryBool(r)) /\ OkTrue # OkFalse
        /\ IsPlain(OkTrue) /\ IsPlain(OkFalse) /\ IsPlain(Err(NoSuchOverload))
        /\ ~Failed(TryBool(l)) => TryBool(l) = l
        /\ ~Failed(TryBool(r)) => TryBool(r) = r
        /\ Failed(l) => TryBool(l) = l
        /\ Failed(r) => TryBool(r) = r
        /\ ~Failed(TryBool(l)) <=> l \in {OkTrue, OkFalse}
        /\ ~Failed(TryBool(r)) <=> r \in {OkTrue, OkFalse}
        /\ ~Failed(r) => (IsBool(r[2]) <=> r \in {OkTrue, OkFalse})
        /\ Failed(TryBool(r)) /\ ~Failed(r) => TryBool(r) = Err(NoSuchOverload)
    BY BoolResults, ResultShapes DEF IsPlain
  <1>2. \A b : (Failed(TryBool(l)) /\ l # b /\ r # b => TryBool(l) \in Connected(b, l, r))
               /\ (Failed(TryBool(r)) /\ l # b /\ r # b => TryBool(r) \in Connected(b, l, r))
               /\ (~Failed(TryBool(r)) /\ ~Failed(TryBool(l)) /\ l # b /\ r # b
                     => r \in Connected(b, l, r))
    BY DEF Connected
  <1>3. LogicalOr(l, r) \in ({OkTrue} \cap {l, r}) \cup Connected(OkTrue, l, r)
    BY <1>1, <1>2 DEF LogicalOr
  <1>4. LogicalAnd(l, r) \in ({OkFalse} \cap {l, r}) \cup Connected(OkFalse, l, r)
    BY <1>1, <1>2 DEF LogicalAnd
  <1>5. IsPlain(LogicalOr(l, r)) /\ IsPlain(LogicalAnd(l, r))
    BY <1>1 DEF LogicalOr, LogicalAnd
  <1> QED BY <1>3, <1>4, <1>5

LEMMA ConnectiveMeant == ASSUME MInv, Means, Connective PROVE MKept
  <1> DEFINE k == Len(Done)
             decisive == IF E.func = "_||_" THEN OkTrue ELSE OkFalse
             x == Plain(Done[1])
             y == Plain(Done[2])
             z == IF E.func = "_||_" THEN LogicalOr(x, y) ELSE LogicalAnd(x, y)
             A(i) == Results(E.args[i], Outer)
             R == Results(E, Outer)
  <1>0. Active /\ E.op = "call" /\ E.func \in {"_||_", "_&&_"} /\ Len(E.args) = 2
        /\ E.func \in Operators
    BY DEF Connective, IsCall, Operators
  <1>1. /\ R = OfOperator(E.func, E.args, Outer)
        /\ \A j \in 1..k : Came(Done[j], Results(OperandAt(Top, j), Outer))
        /\ \A j : OperandAt(Top, j) = E.args[j]
        /\ k \in Nat /\ k <= 2
    BY <1>0, OperatorMeans
  <1>2. R = OfConnective(decisive, A(1), A(2))
    BY <1>0, <1>1, OperatorsMean
  <1>3. /\ Len(Done) = 0 => Start(E.args[1])
        /\ Len(Done) = 1 => IF TryBool(x) = decisive THEN Return(Mine(decisive)) ELSE Start(E.args[2])
        /\ Len(Done) # 0 /\ Len(Done) # 1 => Return(Mine(z))
    BY DEF Connective
  <1>4. (k > 0 => x \in A(1)) /\ (k > 1 => y \in A(2))
    BY <1>1, CamePlain
  <1>5. IsPlain(x) /\ IsPlain(y)
    BY PlainIsPlain
  <1>6. k > 0 /\ TryBool(x) = decisive => Came(Mine(decisive), R)
    <2>1. TryBool(x) = decisive => x = decisive
      BY <1>5, BoolResults, ResultShapes
    <2>2. k > 0 /\ x = decisive => decisive \in R
      <3> HIDE DEF x, A, R, decisive
      <3> QED BY <1>2, <1>4 DEF OfConnective
    <2> QED BY <2>1, <2>2, CameMine, ResultShapes
  <1>7. k > 1 => Came(Mine(z), R)
    <2>1. z \in ({decisive} \cap {x, y}) \cup Connected(decisive, x, y) /\ IsPlain(z)
      BY <1>5, ConnectivesMean
    <2>2. k > 1 => z \in R
      <3> HIDE DEF x, y, z, A, R, decisive
      <3> QED BY <1>1, <1>2, <1>4, <2>1 DEF OfConnective
    <2> HIDE DEF z, R
    <2> QED BY <2>1, <2>2, CameMine DEF IsPlain
  <1> HIDE DEF k, z, decisive
  <1>8. CASE k = 0
    BY <1>0, <1>1, <1>3, <1>8, StartNext DEF k
  <1>9. CASE k = 1 /\ TryBool(x) = decisive
    BY <1>0, <1>3, <1>6, <1>9, ReturnMeant DEF k
  <1>10. CASE k = 1 /\ TryBool(x) # decisive
    <2>1. WentPast(E, 1, Done[1])
      BY <1>0 DEF WentPast, Lenient
    <2> QED BY <1>0, <1>1, <1>3, <1>10, <2>1, StartNext DEF k
  <1>11. CASE k # 0 /\ k # 1
    <2>1. Return(Mine(z)) /\ Came(Mine(z), R)
      BY <1>1, <1>3, <1>7, <1>11 DEF k
    <2> QED BY <1>0, <2>1, ReturnMeant
  <1> QED BY <1>8, <1>9, <1>10, <1>11

LEMMA NotStrictlyMeant == ASSUME MInv, Means, NotStrictly PROVE MKept
  <1> DEFINE x == Plain(Done[1])
             A == Results(E.args[1], Outer)
             R == Results(E, Outer)
  <1>0. Active /\ E.op = "call" /\ E.func = "@not_strictly_false" /\ E.func \in Operators
    BY DEF NotStrictly, IsCall, Operators
  <1>1. /\ R = OfOperator(E.func, E.args, Outer)
        /\ \A j \in 1..Len(Done) : Came(Done[j], Results(OperandAt(Top, j), Outer))
        /\ \A j : OperandAt(Top, j) = E.args[j]
        /\ Len(Done) \in Nat /\ (Done = <<>> <=> Len(Done) = 0)
    BY <1>0, OperatorMeans
  <1>2. R = {NotStrictlyFalse(r) : r \in A}
    BY <1>0, <1>1, OperatorsMean
  <1>3. CASE Done = <<>>
    BY <1>0, <1>1, <1>3, StartNext DEF NotStrictly
  <1>4. CASE Done # <<>>
    <2>1. Came(Done[1], A)
      BY <1>1, <1>4
    <2>2. x \in A /\ IsPlain(x)
      BY <2>1, CamePlain, PlainIsPlain
    <2>3. NotStrictlyFalse(x) \in R
      <3> HIDE DEF x, A, R
      <3> QED BY <1>2, <2>2
    <2>4. IsPlain(NotStrictlyFalse(x))
      BY <2>2, BoolResults DEF NotStrictlyFalse
    <2>5. Came(Mine(NotStrictlyFalse(x)), R)
      BY <2>3, <2>4, CameMine DEF IsPlain
    <2>6. Return(Mine(NotStrictlyFalse(x)))
      BY <1>4 DEF NotStrictly
    <2> QED BY <1>0, <2>5, <2>6, ReturnMeant
  <1> QED BY <1>3, <1>4
-----------------------------------------------------------------------------
(* What needs all of its operands. *)

\* The first error of a strict operator's operands.
LEMMA FirstError ==
  ASSUME MInv, Means, Active, E.op # "fold", Broken
  PROVE  /\ Len(Done) \in 1..Len(Done) /\ Failed(Latest)
         /\ Came(Latest, Results(OperandAt(Top, Len(Done)), Outer))
         /\ Latest \in Errors(Results(OperandAt(Top, Len(Done)), Outer))
  <1>1. Len(Done) \in 1..Len(Done)
    BY TopFacts DEF Broken, MInv
  <1>2. Came(Latest, Results(OperandAt(Top, Len(Done)), Outer)) /\ Failed(Latest)
    BY <1>1, Operated DEF Latest, Broken
  <1> QED BY <1>1, <1>2, CameError

\* Those that are no error.
LEMMA AllCame ==
  ASSUME MInv, Means, Active, E.op # "fold", ~(E.op = "call" /\ E.func \in Lenient), ~Broken
  PROVE  \A j \in 1..Len(Done) : ~Failed(Done[j])
  <1>1. Len(Done) \in Nat /\ (Done = <<>> <=> Len(Done) = 0)
    BY TopFacts DEF MInv
  <1>2. ASSUME NEW j \in 1..Len(Done) PROVE ~Failed(Done[j])
    <2>1. CASE j = Len(Done)
      BY <1>1, <2>1 DEF Broken, Latest
    <2>2. CASE j # Len(Done)
      <3>1. j \in 0..Len(Done) - 1 /\ j > 0
        BY <1>1, <2>2
      <3>2. WentPast(E, j, Done[j])
        BY <3>1, Operated DEF Went, E, Done
      <3> QED BY <3>2 DEF WentPast
    <2> QED BY <2>1, <2>2
  <1> QED BY <1>2

LEMMA BinaryIsPlain ==
  ASSUME NEW op \in BinaryOps, NEW l, NEW r, NEW x \in Binary(op, l, r)
  PROVE  IsPlain(x)
  <1>1. \A v : IsPlain(Ok(v)) /\ IsPlain(Err(v))
    BY ResultShapes DEF IsPlain
  <1>2. CASE op \in {"_==_", "_!=_"}
    BY <1>1, <1>2 DEF Binary, ArithmeticOps
  <1>3. CASE op = "_+_"
    <2>1. x \in Sums(l, r)
      BY <1>3 DEF Binary, ArithmeticOps
    <2> QED BY <1>1, <2>1 DEF Sums
  <1>4. CASE op \in ArithmeticOps
    <2>1. x = IntArithmetic(op, l, r)
      BY <1>4 DEF Binary, ArithmeticOps
    <2> QED BY <1>1, <2>1 DEF IntArithmetic
  <1>5. CASE op = "@in"
    <2>1. x = ContainsVal(r, l)
      BY <1>5 DEF Binary, ArithmeticOps
    <2> QED BY <1>1, <2>1 DEF ContainsVal
  <1>6. CASE op \in {"_<_", "_<=_", "_>_", "_>=_"}
    BY <1>1, <1>6 DEF Binary, ArithmeticOps, Compared
  <1> QED BY <1>2, <1>3, <1>4, <1>5, <1>6 DEF BinaryOps

LEMMA OperatorMeant == ASSUME MInv, Means, Operator PROVE MKept
  <1> DEFINE k == Len(Done)
             A(i) == Results(E.args[i], Outer)
             R == Results(E, Outer)
  <1>0. /\ Active /\ E.op = "call" /\ E.func \in BinaryOps /\ Len(E.args) = 2
        /\ E.func \in Operators /\ E.func \notin Lenient /\ E.func # "_?_:_"
        /\ E.func \notin {"_[_]", "_[?_]"}
    BY DEF Operator, IsCall, Operators, Lenient, BinaryOps, ArithmeticOps
  <1>1. /\ R = OfOperator(E.func, E.args, Outer)
        /\ \A j \in 1..k : Came(Done[j], Results(OperandAt(Top, j), Outer))
        /\ \A j : OperandAt(Top, j) = E.args[j]
        /\ k \in Nat /\ k <= 2 /\ (Done = <<>> <=> k = 0)
    BY <1>0, OperatorMeans
  <1>2. R = OfBinary(E.func, A(1), A(2))
    BY <1>0, <1>1, BinaryMeans
  <1>3. IF Broken THEN Return(Latest)
        ELSE IF k < 2 THEN Start(E.args[k + 1])
        ELSE \E r \in Binary(E.func, Done[1][2], Done[2][2]) : Return(Mine(r))
    BY DEF Operator
  <1>4. CASE Broken
    <2>0. k \in 1..k /\ Failed(Latest) /\ Latest \in Errors(Results(OperandAt(Top, k), Outer))
      BY <1>0, <1>4, FirstError
    <2>1. (Latest \in Errors(A(1)) \/ Latest \in Errors(A(2))) /\ Failed(Latest)
      <3>1. k = 1 \/ k = 2
        <4>1. k \in Nat /\ k <= 2 /\ k \in 1..k
          BY <1>1, <2>0
        <4> HIDE DEF k
        <4> QED BY <4>1
      <3> QED BY <1>1, <2>0, <3>1
    <2>2. Latest \in R
      <3> HIDE DEF A, R
      <3> QED BY <1>2, <2>1 DEF OfBinary
    <2> QED BY <1>0, <1>3, <1>4, <2>1, <2>2, CameFailed, ReturnMeant
  <1>5. CASE ~Broken /\ k < 2
    <2>1. k > 0 => WentPast(E, k, Done[k])
      BY <1>0, <1>1, <1>5, AllCame DEF WentPast
    <2> QED BY <1>0, <1>1, <1>3, <1>5, <2>1, StartNext
  <1>6. CASE ~Broken /\ ~(k < 2)
    <2>1. PICK r \in Binary(E.func, Done[1][2], Done[2][2]) : Return(Mine(r))
      BY <1>3, <1>6
    <2>2. 1 \in 1..k /\ 2 \in 1..k
      BY <1>1, <1>6
    <2>3. Done[1][2] \in ValuesIn(A(1)) /\ Done[2][2] \in ValuesIn(A(2))
      BY <1>0, <1>1, <1>6, <2>2, AllCame, CameValue
    <2>4. r \in R
      <3> HIDE DEF A, R
      <3> QED BY <1>2, <2>1, <2>3 DEF OfBinary
    <2>5. Came(Mine(r), R)
      BY <1>0, <2>1, <2>4, BinaryIsPlain, CameMine DEF IsPlain
    <2> QED BY <1>0, <2>1, <2>5, ReturnMeant
  <1> QED BY <1>4, <1>5, <1>6

LEMMA UnaryMeant == ASSUME MInv, Means, Unary PROVE MKept
  <1> DEFINE A == Results(E.args[1], Outer)
             R == Results(E, Outer)
             x == IF E.func = "!_" THEN LogicalNot(Plain(Done[1])) ELSE Negated(Done[1][2])
  <1>0. /\ Active /\ E.op = "call" /\ E.func \in {"!_", "-_"} /\ Len(E.args) = 1
        /\ E.func \in Operators /\ E.func \notin Lenient /\ E.func # "_?_:_"
    BY DEF Unary, IsCall, Operators, Lenient
  <1>1. /\ R = OfOperator(E.func, E.args, Outer)
        /\ \A j \in 1..Len(Done) : Came(Done[j], Results(OperandAt(Top, j), Outer))
        /\ \A j : OperandAt(Top, j) = E.args[j]
        /\ Len(Done) \in Nat /\ Len(Done) <= 1 /\ (Done = <<>> <=> Len(Done) = 0)
    BY <1>0, OperatorMeans
  <1>2. R = OfUnary(E.func, A)
    BY <1>0, <1>1, OperatorsMean
  <1>3. CASE Done = <<>>
    BY <1>0, <1>1, <1>3, StartNext DEF Unary
  <1>4. CASE Done # <<>> /\ Broken
    <2>1. Latest \in Errors(A) /\ Failed(Latest)
      BY <1>0, <1>1, <1>4, FirstError
    <2>2. Latest \in R /\ Return(Latest)
      <3> HIDE DEF A, R
      <3> QED BY <1>2, <1>4, <2>1 DEF OfUnary, Unary
    <2> QED BY <1>0, <2>1, <2>2, CameFailed, ReturnMeant
  <1>5. CASE Done # <<>> /\ ~Broken
    <2>1. Done[1][2] \in ValuesIn(A) /\ Plain(Done[1]) = Ok(Done[1][2])
      BY <1>0, <1>1, <1>5, AllCame, CameValue
    <2>2. x \in R
      <3> HIDE DEF A, R
      <3> QED BY <1>2, <2>1 DEF OfUnary
    <2>3. IsPlain(x)
      <3>1. \A v : IsPlain(Ok(v)) /\ IsPlain(Err(v))
        BY ResultShapes DEF IsPlain
      <3>2. IsPlain(LogicalNot(Plain(Done[1])))
        BY <3>1, PlainIsPlain DEF LogicalNot, IsPlain
      <3>3. IsPlain(Negated(Done[1][2]))
        BY <3>1 DEF Negated
      <3> QED BY <3>2, <3>3
    <2>4. Return(Mine(x))
      BY <1>5 DEF Unary
    <2>5. Came(Mine(x), R)
      BY <2>2, <2>3, CameMine DEF IsPlain
    <2> QED BY <1>0, <2>4, <2>5, ReturnMeant
  <1> QED BY <1>3, <1>4, <1>5
-----------------------------------------------------------------------------
(* Elements and fields. *)

\* What is lent comes to itself or a copy.
LEMMA CameElement ==
  ASSUME NEW r, IsPlain(r), NEW R, Element(r) \subseteq R
  PROVE  /\ Came(IF Failed(r) THEN r ELSE Lent(r[2]), R)
         /\ Came(Mine(r), R)
         /\ Came(IF Failed(r) THEN r ELSE Own(Clone(r[2])), R)
         /\ r \in R
  <1>1. CASE Failed(r)
    <2>1. r \in R
      BY <1>1 DEF Element
    <2> QED BY <1>1, <2>1, CameFailed, ResultShapes
  <1>2. CASE ~Failed(r)
    <2>1. Ok(r[2]) \in R /\ Ok(Clone(r[2])) \in R /\ r = Ok(r[2])
      BY <1>2 DEF Element, OkAny, Copies, IsPlain
    <2>2. Came(Own(r[2]), R) /\ Came(Lent(r[2]), R) /\ Came(Own(Clone(r[2])), R)
      BY <2>1, CameOwn, CameLent
    <2> QED BY <1>2, <2>1, <2>2, ResultShapes
  <1> QED BY <1>1, <1>2

LEMMA AccessesArePlain ==
  \A c, i : IsPlain(ListAt(c, i)) /\ IsPlain(MapAt(c, i)) /\ IsPlain(FieldAt(c, i))
  <1>1. \A v : IsPlain(Ok(v)) /\ IsPlain(Err(v))
    BY ResultShapes DEF IsPlain
  <1> QED BY <1>1 DEF ListAt, MapAt, FieldAt

LEMMA GetMeans ==
  ASSUME NEW c, IsIndexer(c), NEW i
  PROVE  Came(Get(c, i), Elements(c, i))
  <1> DEFINE R == Elements(c, i)
  <1>1. ElementsAt(c, i) \subseteq R
    BY DEF Elements, Copies
  <1>2. IsPlain(ListAt(c, i)) /\ IsPlain(MapAt(c, i)) /\ IsPlain(FieldAt(c, i))
    BY AccessesArePlain
  <1> SUFFICES Came(Get(c, i), R)
    OBVIOUS
  <1> HIDE DEF R
  <1>3. CASE TypeOf(c) = "list"
    <2>1. Element(ListAt(c, i)) \subseteq R
      BY <1>1, <1>3 DEF ElementsAt
    <2>2. Get(c, i) = IF Failed(ListAt(c, i)) THEN ListAt(c, i) ELSE Lent(ListAt(c, i)[2])
      BY <1>3 DEF Get
    <2> QED BY <1>2, <2>1, <2>2, CameElement
  <1>4. CASE TypeOf(c) = "struct"
    <2>1. Element(FieldAt(c, i)) \subseteq R
      BY <1>1, <1>4 DEF ElementsAt
    <2>2. Get(c, i) = IF Failed(FieldAt(c, i)) THEN FieldAt(c, i) ELSE Lent(FieldAt(c, i)[2])
      BY <1>4 DEF Get
    <2> QED BY <1>2, <2>1, <2>2, CameElement
  <1>5. CASE TypeOf(c) = "map" /\ TypeOf(i) \in KeyTypes
    <2>1. Element(MapAt(c, i)) \subseteq R
      BY <1>1, <1>5 DEF ElementsAt
    <2>2. Get(c, i) = IF Failed(MapAt(c, i)) THEN MapAt(c, i) ELSE Lent(MapAt(c, i)[2])
      BY <1>5 DEF Get
    <2> QED BY <1>2, <2>1, <2>2, CameElement
  <1>6. CASE TypeOf(c) = "map" /\ TypeOf(i) \notin KeyTypes
    <2>1. Err(NoSuchOverload) \in R
      BY <1>1, <1>6 DEF ElementsAt
    <2>2. Get(c, i) = Err(NoSuchOverload)
      BY <1>6, ResultShapes DEF Get
    <2> QED BY <2>1, <2>2, CameFailed, ResultShapes
  <1> QED BY <1>3, <1>4, <1>5, <1>6 DEF IsIndexer

LEMMA StealMeans ==
  ASSUME NEW c, IsIndexer(c), NEW i
  PROVE  Came(Steal(c, i), Elements(c, i))
  <1> DEFINE R == Elements(c, i)
             k == Clone(i)
  <1>1. ElementsAt(c, i) \subseteq R /\ ElementsAt(c, k) \subseteq R
    BY DEF Elements, Copies
  <1>2. IsPlain(ListAt(c, i)) /\ IsPlain(MapAt(c, k)) /\ IsPlain(FieldAt(c, i))
    BY AccessesArePlain
  <1> SUFFICES Came(Steal(c, i), R)
    OBVIOUS
  <1> HIDE DEF R
  <1>3. CASE TypeOf(c) = "list"
    <2>1. Element(ListAt(c, i)) \subseteq R
      BY <1>1, <1>3 DEF ElementsAt
    <2>2. Steal(c, i) = Mine(ListAt(c, i))
      BY <1>3 DEF Steal
    <2> QED BY <1>2, <2>1, <2>2, CameElement
  <1>4. CASE TypeOf(c) = "struct"
    <2>1. Element(FieldAt(c, i)) \subseteq R
      BY <1>1, <1>4 DEF ElementsAt
    <2>2. Steal(c, i) = IF Failed(FieldAt(c, i)) THEN FieldAt(c, i) ELSE Own(Clone(FieldAt(c, i)[2]))
      BY <1>4 DEF Steal
    <2> QED BY <1>2, <2>1, <2>2, CameElement
  <1>5. CASE TypeOf(c) = "map" /\ TypeOf(k) \in KeyTypes
    <2>1. Element(MapAt(c, k)) \subseteq R
      BY <1>1, <1>5 DEF ElementsAt
    <2>2. Steal(c, i) = Mine(MapAt(c, k))
      BY <1>5 DEF Steal
    <2> QED BY <1>2, <2>1, <2>2, CameElement
  <1>6. CASE TypeOf(c) = "map" /\ TypeOf(k) \notin KeyTypes
    <2>1. Err("UnsupportedKeyType") \in R
      BY <1>1, <1>6 DEF ElementsAt
    <2>2. Steal(c, i) = Err("UnsupportedKeyType")
      BY <1>6 DEF Steal
    <2> QED BY <2>1, <2>2, CameFailed, ResultShapes
  <1> QED BY <1>3, <1>4, <1>5, <1>6 DEF IsIndexer

\* An element that came, in an optional of its own or none.
LEMMA InOptionalMeans ==
  ASSUME NEW d, NEW S, Came(d, S)
  PROVE  Ok(IF Failed(d) THEN OptNone ELSE OptSome(Clone(d[2]))) \in InOptional(S)
  <1>1. CASE Failed(d)
    <2>1. d \in S
      BY <1>1, CameError
    <2> QED BY <1>1, <2>1 DEF InOptional
  <1>2. CASE ~Failed(d)
    <2> DEFINE o == Ok(d[2])
               w == Clone(d[2])
    <2>1. o \in S /\ ~Failed(o) /\ w \in Copies(o[2])
      BY <1>2, CameValue, ResultShapes DEF Copies
    <2> HIDE DEF o, w
    <2>2. Ok(OptSome(w)) \in InOptional(S)
      BY <2>1 DEF InOptional
    <2> QED BY <1>2, <2>2 DEF w
  <1> QED BY <1>1, <1>2

LEMMA IndexMeant == ASSUME MInv, Means, Index PROVE MKept
  <1> DEFINE k == Len(Done)
             opt == E.func = "_[?_]"
             A(i) == Results(E.args[i], Outer)
             R == Results(E, Outer)
             v == Done[1][2]
             c == Container(Done[1])
             i == Done[2][2]
             r == IF c[3] THEN Steal(c[2], i) ELSE Get(c[2], i)
  <1>0. /\ Active /\ E.op = "call" /\ E.func \in {"_[_]", "_[?_]"} /\ Len(E.args) = 2
        /\ E.func \in Operators /\ E.func \notin Lenient /\ E.func # "_?_:_"
    BY DEF Index, IsCall, Operators, Lenient
  <1>1. /\ R = OfOperator(E.func, E.args, Outer)
        /\ \A j \in 1..k : Came(Done[j], Results(OperandAt(Top, j), Outer))
        /\ \A j \in 1..k - 1 : WentPast(E, j, Done[j])
        /\ \A j : OperandAt(Top, j) = E.args[j]
        /\ k \in Nat /\ k <= 2 /\ (Done = <<>> <=> k = 0)
    BY <1>0, OperatorMeans
  <1>2. R = OfIndex(opt, A(1), A(2))
    BY <1>0, <1>1, OperatorsMean
  <1>3. IF Done = <<>> THEN Start(E.args[1])
        ELSE IF Broken THEN Return(Latest)
        ELSE IF k = 1
        THEN IF v = OptNone THEN Return(Own(OptNone))
             ELSE IF ~IsIndexer(c[2]) THEN Return(Err(NoSuchOverload))
             ELSE Start(E.args[2])
        ELSE IF E.func = "_[_]" /\ TypeOf(v) # "optional" THEN Return(r)
        ELSE IF Failed(r) THEN Return(Own(OptNone))
        ELSE Return(Own(OptSome(Clone(r[2]))))
    BY DEF Index
  <1>4. c[2] = IF TypeOf(v) = "optional" THEN Clone(v) ELSE v
    BY ResultShapes DEF Container
  <1>5. /\ \A x \in Errors(A(1)) : x \in R
        /\ v \in ValuesIn(A(1)) =>
             /\ v = OptNone => Ok(OptNone) \in R
             /\ v # OptNone /\ ~IsIndexer(c[2]) => Err(NoSuchOverload) \in R
             /\ v # OptNone /\ IsIndexer(c[2]) => Errors(A(2)) \subseteq R
                                                  /\ \A x \in ValuesIn(A(2)) : Indexed(opt, v, x) \subseteq R
    <2> HIDE DEF A, R, v, c, opt
    <2> QED BY <1>2, <1>4 DEF OfIndex
  <1>6. k = 2 => v # OptNone /\ IsIndexer(c[2]) /\ ~Failed(Done[1])
    <2>1. k = 2 => 1 \in 1..k - 1
      BY <1>1
    <2> QED BY <2>1, <1>0, <1>1 DEF WentPast
  <1>7. k >= 1 /\ ~Failed(Done[1]) => v \in ValuesIn(A(1)) /\ Came(Done[1], A(1))
    BY <1>1, CameValue
  <1>8. CASE Done = <<>>
    BY <1>0, <1>1, <1>3, <1>8, StartNext
  <1>9. CASE Done # <<>> /\ Broken
    <2>1. k \in 1..k /\ Failed(Latest) /\ Latest \in Errors(Results(OperandAt(Top, k), Outer))
      BY <1>0, <1>9, FirstError
    <2>2. k \in Nat /\ k <= 2 /\ k \in 1..k /\ Latest \in Errors(A(k)) /\ OperandAt(Top, k) = E.args[k]
      BY <1>1, <2>1
    <2>3. Latest \in R
      <3>1. k = 1 \/ k = 2
        <4> HIDE DEF k
        <4> QED BY <2>2
      <3>2. CASE k = 1
        BY <1>5, <2>2, <3>2
      <3>3. CASE k = 2
        BY <1>5, <1>6, <1>7, <2>2, <3>3
      <3> QED BY <3>1, <3>2, <3>3
    <2> QED BY <1>0, <1>3, <1>9, <2>1, <2>3, CameFailed, ReturnMeant
  <1>10. CASE Done # <<>> /\ ~Broken
    <2>1. k >= 1 /\ ~Failed(Done[1]) /\ v \in ValuesIn(A(1))
      BY <1>0, <1>1, <1>7, <1>10, AllCame
    <2>2. CASE k = 1
      <3>1. CASE v = OptNone
        BY <1>0, <1>3, <1>5, <1>10, <2>1, <2>2, <3>1, CameOwn, ReturnMeant
      <3>2. CASE v # OptNone /\ ~IsIndexer(c[2])
        <4>1. Return(Err(NoSuchOverload)) /\ Err(NoSuchOverload) \in R
          BY <1>3, <1>5, <1>10, <2>1, <2>2, <3>2
        <4> QED BY <1>0, <4>1, CameFailed, ResultShapes, ReturnMeant
      <3>3. CASE v # OptNone /\ IsIndexer(c[2])
        <4>1. WentPast(E, k, Done[k])
          BY <1>0, <2>1, <2>2, <3>3 DEF WentPast
        <4>2. Start(E.args[2]) /\ k + 1 = 2
          BY <1>3, <1>10, <2>2, <3>3
        <4> QED BY <1>0, <1>1, <2>2, <4>1, <4>2, StartNext
      <3> QED BY <3>1, <3>2, <3>3
    <2>3. CASE k # 1
      <3>1. k = 2
        <4>1. k \in Nat /\ k <= 2 /\ k >= 1
          BY <1>1, <2>1
        <4> HIDE DEF k
        <4> QED BY <2>3, <4>1
      <3>2. i \in ValuesIn(A(2))
        BY <1>0, <1>1, <1>10, <3>1, AllCame, CameValue
      <3>3. IsIndexer(c[2]) /\ Indexed(opt, v, i) \subseteq R
        BY <1>5, <1>6, <2>1, <3>1, <3>2
      <3>4. Came(r, Elements(c[2], i))
        BY <3>3, GetMeans, StealMeans
      <3>5. CASE E.func = "_[_]" /\ TypeOf(v) # "optional"
        <4>1. Elements(c[2], i) \subseteq R
          BY <1>4, <3>3, <3>5 DEF Indexed
        <4>2. Came(r, R) /\ Return(r)
          BY <1>3, <1>10, <2>3, <3>4, <3>5, <4>1 DEF Came
        <4> QED BY <1>0, <4>2, ReturnMeant
      <3>6. CASE ~(E.func = "_[_]" /\ TypeOf(v) # "optional")
        <4> DEFINE o == IF Failed(r) THEN OptNone ELSE OptSome(Clone(r[2]))
        <4>1. InOptional(Elements(c[2], i)) \subseteq R
          BY <1>0, <1>4, <3>3, <3>6 DEF Indexed
        <4>2. Ok(o) \in InOptional(Elements(c[2], i))
          <5> HIDE DEF r
          <5> QED BY <3>4, InOptionalMeans
        <4>3. Return(Own(o))
          BY <1>3, <1>10, <2>3, <3>6
        <4> HIDE DEF o
        <4> QED BY <1>0, <4>1, <4>2, <4>3, CameOwn, ReturnMeant
      <3> QED BY <3>5, <3>6
    <2> QED BY <2>2, <2>3
  <1> QED BY <1>8, <1>9, <1>10

LEMMA GetLends ==
  \A c, i : ~Failed(Get(c, i)) => Get(c, i) = Lent(Get(c, i)[2])
  <1> SUFFICES ASSUME NEW c, NEW i, ~Failed(Get(c, i)) PROVE Get(c, i) = Lent(Get(c, i)[2])
    OBVIOUS
  <1>1. PICK r : Get(c, i) = IF Failed(r) THEN r ELSE Lent(r[2])
    BY DEF Get
  <1> QED BY <1>1, ResultShapes

\* A copy of an element comes to the element's copy.
LEMMA CopyMeans ==
  ASSUME NEW c, IsIndexer(c), NEW i
  PROVE  LET r == Get(c, i) IN
         /\ Failed(r) => r \in Elements(c, i)
         /\ ~Failed(r) => Ok(Clone(r[2])) \in Elements(c, i)
  <1> DEFINE r == Get(c, i)
  <1>1. Came(r, Elements(c, i)) /\ (~Failed(r) => r = Lent(r[2]))
    BY GetMeans, GetLends
  <1> HIDE DEF r
  <1>2. ~Failed(r) => IntoOwned(r) = Clone(r[2])
    BY <1>1, ResultShapes
  <1> QED BY <1>1, <1>2, CameError, CameValue DEF r

LEMMA NoElements ==
  ASSUME NEW c, ~IsIndexer(c), NEW i
  PROVE  Err(NoSuchOverload) \in Elements(c, i)
  <1>1. Err(NoSuchOverload) \in ElementsAt(c, i)
    BY DEF ElementsAt, IsIndexer
  <1> QED BY <1>1 DEF Elements, Copies

LEMMA OptSelectedMeans ==
  ASSUME NEW c, NEW i, TypeOf(i) = "string"
  PROVE  Came(OptSelected(c, i), FieldOf(c, i))
  <1> DEFINE R == FieldOf(c, i)
  <1>1. CASE TypeOf(c) # "optional"
    <2>0. c # OptNone
      BY <1>1 DEF TypeOf, OptNone
    <2>1. R = {IF Failed(r) THEN r ELSE Ok(OptSome(r[2])) : r \in Elements(c, i)}
      BY <1>1, <2>0 DEF FieldOf
    <2>2. CASE ~IsIndexer(c)
      <3> DEFINE x == Err(NoSuchOverload)
      <3>1. Failed(x) /\ x \in Elements(c, i)
        BY <2>2, NoElements, ResultShapes
      <3> HIDE DEF x, R
      <3>2. x \in R
        BY <2>1, <3>1
      <3>3. Came(x, R)
        BY <3>1, <3>2, CameFailed
      <3> QED BY <1>1, <2>2, <3>3 DEF OptSelected, R, x
    <2>3. CASE IsIndexer(c)
      <3> DEFINE r == Get(c, i)
                 x == Ok(Clone(r[2]))
      <3>1. /\ Failed(r) => r \in Elements(c, i)
            /\ ~Failed(r) => x \in Elements(c, i) /\ ~Failed(x) /\ x[2] = Clone(r[2])
        BY <2>3, CopyMeans, ResultShapes
      <3>2. OptSelected(c, i) = IF Failed(r) THEN r ELSE Own(OptSome(Clone(r[2])))
        BY <1>1, <2>3 DEF OptSelected
      <3> SUFFICES Came(OptSelected(c, i), R)
        OBVIOUS
      <3> HIDE DEF r, R, x
      <3>3. (Failed(r) => r \in R) /\ (~Failed(r) => Ok(OptSome(Clone(r[2]))) \in R)
        BY <2>1, <3>1
      <3> QED BY <3>2, <3>3, CameFailed, CameOwn
    <2> QED BY <2>2, <2>3
  <1>2. CASE c = OptNone
    <2>1. TypeOf(c) = "optional"
      BY <1>2 DEF TypeOf, OptNone
    <2>2. OptSelected(c, i) = Own(OptNone) /\ Ok(OptNone) \in R
      BY <1>2, <2>1 DEF OptSelected, FieldOf
    <2> QED BY <2>2, CameOwn
  <1>3. CASE TypeOf(c) = "optional" /\ c # OptNone
    <2> DEFINE b == c[2][1]
               r == Get(b, i)
               x == Ok(Clone(r[2]))
    <2>1. R = {IF Failed(y) THEN Ok(OptSome(OptNone)) ELSE Ok(OptSome(y[2])) : y \in Elements(b, i)}
      BY <1>3 DEF FieldOf
    <2>2. OptSelected(c, i) = IF ~IsIndexer(b) \/ Failed(r) THEN Own(OptSome(OptNone))
                              ELSE Own(OptSome(Clone(r[2])))
      BY <1>3 DEF OptSelected
    <2>3. CASE ~IsIndexer(b) \/ Failed(r)
      <3>1. PICK y \in Elements(b, i) : Failed(y)
        BY <2>3, NoElements, CopyMeans, ResultShapes
      <3>2. Ok(OptSome(OptNone)) \in R
        BY <2>1, <3>1
      <3> QED BY <2>2, <2>3, <3>2, CameOwn
    <2>4. CASE ~(~IsIndexer(b) \/ Failed(r))
      <3>1. x \in Elements(b, i) /\ ~Failed(x) /\ x[2] = Clone(r[2])
        BY <2>4, CopyMeans, ResultShapes
      <3> SUFFICES Came(OptSelected(c, i), R)
        OBVIOUS
      <3> HIDE DEF r, R, x
      <3>2. Ok(OptSome(Clone(r[2]))) \in R
        BY <2>1, <3>1
      <3> QED BY <2>2, <2>4, <3>2, CameOwn
    <2> QED BY <2>3, <2>4
  <1> QED BY <1>1, <1>2, <1>3

LEMMA OptSelectMeant == ASSUME MInv, Means, OptSelect PROVE MKept
  <1> DEFINE k == Len(Done)
             A(i) == Results(E.args[i], Outer)
             R == Results(E, Outer)
             v == Done[1][2]
             i == Done[2][2]
  <1>0. /\ Active /\ E.op = "call" /\ E.func = "_?._" /\ Len(E.args) = 2
        /\ E.func \in Operators /\ E.func \notin Lenient /\ E.func # "_?_:_"
        /\ E.func \notin {"_[_]", "_[?_]"}
    BY DEF OptSelect, IsCall, Operators, Lenient
  <1>1. /\ R = OfOperator(E.func, E.args, Outer)
        /\ \A j \in 1..k : Came(Done[j], Results(OperandAt(Top, j), Outer))
        /\ \A j : OperandAt(Top, j) = E.args[j]
        /\ k \in Nat /\ k <= 2 /\ (Done = <<>> <=> k = 0)
    BY <1>0, OperatorMeans
  <1>2. R = OfOptSelect(A(1), A(2))
    BY <1>0, <1>1, OperatorsMean
  <1>3. IF Broken THEN Return(Latest)
        ELSE IF k < 2 THEN Start(E.args[k + 1])
        ELSE IF TypeOf(i) # "string" THEN Return(Err("FunctionError"))
        ELSE Return(OptSelected(v, i))
    BY DEF OptSelect
  <1>4. CASE Broken
    <2>1. k \in 1..k /\ Failed(Latest) /\ Latest \in Errors(Results(OperandAt(Top, k), Outer))
      BY <1>0, <1>4, FirstError
    <2>2. k \in Nat /\ k <= 2 /\ k \in 1..k /\ Latest \in Errors(A(k))
      BY <1>1, <2>1
    <2>3. k = 1 \/ k = 2
      <3> HIDE DEF k
      <3> QED BY <2>2
    <2>4. Latest \in Errors(A(1)) \/ Latest \in Errors(A(2))
      BY <2>2, <2>3
    <2>5. Latest \in R
      <3> HIDE DEF A, R
      <3> QED BY <1>2, <2>4 DEF OfOptSelect
    <2> QED BY <1>0, <1>3, <1>4, <2>1, <2>5, CameFailed, ReturnMeant
  <1>5. CASE ~Broken /\ k < 2
    <2>1. k > 0 => WentPast(E, k, Done[k])
      BY <1>0, <1>1, <1>5, AllCame DEF WentPast
    <2> QED BY <1>0, <1>1, <1>3, <1>5, <2>1, StartNext
  <1>6. CASE ~Broken /\ ~(k < 2)
    <2>1. 1 \in 1..k /\ 2 \in 1..k
      BY <1>1, <1>6
    <2>2. v \in ValuesIn(A(1)) /\ i \in ValuesIn(A(2))
      BY <1>0, <1>1, <1>6, <2>1, AllCame, CameValue
    <2>3. FieldOf(v, i) \subseteq R
      <3> HIDE DEF A, R, v, i
      <3> QED BY <1>2, <2>2 DEF OfOptSelect
    <2>4. CASE TypeOf(i) # "string"
      <3>1. Err("FunctionError") \in R /\ Return(Err("FunctionError"))
        BY <1>3, <1>6, <2>3, <2>4 DEF FieldOf
      <3> QED BY <1>0, <3>1, CameFailed, ResultShapes, ReturnMeant
    <2>5. CASE TypeOf(i) = "string"
      <3>1. Came(OptSelected(v, i), FieldOf(v, i))
        BY <2>5, OptSelectedMeans
      <3>2. Came(OptSelected(v, i), R) /\ Return(OptSelected(v, i))
        BY <1>3, <1>6, <2>3, <2>5, <3>1 DEF Came
      <3> QED BY <1>0, <3>2, ReturnMeant
    <2> QED BY <2>4, <2>5
  <1> QED BY <1>4, <1>5, <1>6

LEMMA SelectedMeans ==
  ASSUME NEW c, NEW i
  PROVE  Came(Selected(c, i), IF IsIndexer(c) THEN Elements(c, i) ELSE {Err(NoSuchOverload)})
  <1>1. CASE ~IsIndexer(c)
    BY <1>1, CameFailed, ResultShapes DEF Selected
  <1>2. CASE IsIndexer(c)
    <2> DEFINE r == Get(c, i)
               S == Elements(c, i)
    <2>1. (Failed(r) => r \in S) /\ (~Failed(r) => Ok(Clone(r[2])) \in S)
      BY <1>2, CopyMeans
    <2>2. Selected(c, i) = IF Failed(r) THEN r ELSE Own(Clone(r[2]))
      BY <1>2 DEF Selected
    <2> SUFFICES Came(Selected(c, i), S)
      BY <1>2
    <2> HIDE DEF r, S
    <2> QED BY <2>1, <2>2, CameFailed, CameOwn
  <1> QED BY <1>1, <1>2

LEMMA FieldMeans ==
  ASSUME NEW test, NEW c, NEW field
  PROVE  Came(IF test THEN Has(c, StrOf(field)) ELSE Selected(c, StrOf(field)), Field(test, c, field))
  <1> DEFINE key == StrOf(field)
             R == Field(test, c, field)
  <1>1. CASE test /\ TypeOf(c) = "map"
    <2>1. ContainsVal(c, key) \in R /\ Has(c, key) = Mine(ContainsVal(c, key))
      BY <1>1 DEF Field, Has
    <2>2. IsPlain(ContainsVal(c, key))
      BY ResultShapes DEF ContainsVal, IsPlain
    <2> QED BY <1>1, <2>1, <2>2, CameMine DEF IsPlain
  <1>2. CASE test /\ TypeOf(c) = "struct"
    <2>1. TypeOf(key) = "string" /\ key[2] = field
      BY DEF StrOf, TypeOf
    <2>2. Failed(Get(c, key)) <=> field \notin DOMAIN c[2][2]
      <3>1. Get(c, key) = IF Failed(FieldAt(c, key)) THEN FieldAt(c, key) ELSE Lent(FieldAt(c, key)[2])
        BY <1>2 DEF Get
      <3>2. FieldAt(c, key) = IF field \in DOMAIN c[2][2] THEN Ok(c[2][2][field]) ELSE Err("NoSuchKey")
        BY <2>1 DEF FieldAt
      <3> QED BY <3>1, <3>2, ResultShapes
    <2>3. R = {Ok(BoolVal(field \in DOMAIN c[2][2]))} /\ Has(c, key) = Own(BoolVal(~Failed(Get(c, key))))
      BY <1>2 DEF Field, Has
    <2>4. (~Failed(Get(c, key))) = (field \in DOMAIN c[2][2])
      BY <2>2
    <2>5. Has(c, key) = Own(BoolVal(field \in DOMAIN c[2][2]))
      BY <2>3, <2>4
    <2> QED BY <1>2, <2>3, <2>5, CameOwn
  <1>3. CASE ~(test /\ TypeOf(c) \in {"map", "struct"})
    <2>1. (IF test THEN Has(c, key) ELSE Selected(c, key)) = Selected(c, key)
      BY <1>3 DEF Has, Selected
    <2>2. R = IF IsIndexer(c) THEN Elements(c, key) ELSE {Err(NoSuchOverload)}
      BY <1>3 DEF Field
    <2> QED BY <2>1, <2>2, SelectedMeans
  <1> QED BY <1>1, <1>2, <1>3

LEMMA SelectMeant == ASSUME MInv, Means, Select PROVE MKept
  <1> DEFINE A == Results(E.operand, Outer)
             R == Results(E, Outer)
             v == Done[1][2]
             d == IF E.test THEN Has(v, StrOf(E.field)) ELSE Selected(v, StrOf(E.field))
  <1>0. Active /\ E.op = "select"
    BY DEF Select
  <1>1. /\ \A j \in 1..Len(Done) : Came(Done[j], Results(OperandAt(Top, j), Outer))
        /\ \A j : OperandAt(Top, j) = E.operand
        /\ Len(Done) \in Nat /\ Len(Done) <= 1 /\ (Done = <<>> <=> Len(Done) = 0)
    <2>1. Room(E) = 1
      BY <1>0 DEF Room
    <2>2. \A j : OperandAt(Top, j) = E.operand
      BY <1>0 DEF OperandAt, E
    <2> QED BY <1>0, <2>1, <2>2, Operated, TopFacts DEF MInv
  <1>2. R = OfSelect(E.test, A, E.field)
    BY <1>0, MeantFacts DEF ResultsOf
  <1>3. CASE Done = <<>>
    <2>1. Start(E.operand) /\ Went(Top, Len(Done))
      BY <1>0, <1>1, <1>3 DEF Select, Went, E
    <2> QED BY <1>0, <1>1, <2>1, StartMeant
  <1>4. CASE Done # <<>> /\ Broken
    <2>1. Latest \in Errors(A) /\ Failed(Latest)
      BY <1>0, <1>1, <1>4, FirstError
    <2>2. Latest \in R /\ Return(Latest)
      <3> HIDE DEF A, R
      <3> QED BY <1>2, <1>4, <2>1 DEF OfSelect, Select
    <2> QED BY <1>0, <2>1, <2>2, CameFailed, ReturnMeant
  <1>5. CASE Done # <<>> /\ ~Broken
    <2>1. v \in ValuesIn(A)
      BY <1>0, <1>1, <1>5, AllCame, CameValue
    <2>2. Field(E.test, v, E.field) \subseteq R
      <3> HIDE DEF A, R, v
      <3> QED BY <1>2, <2>1 DEF OfSelect
    <2>3. Came(d, Field(E.test, v, E.field))
      BY FieldMeans
    <2>4. Came(d, R) /\ Return(d)
      BY <1>5, <2>2, <2>3 DEF Came, Select
    <2> QED BY <1>0, <2>4, ReturnMeant
  <1> QED BY <1>3, <1>4, <1>5
-----------------------------------------------------------------------------
(* Literals. *)

LEMMA ContributedMeans ==
  ASSUME NEW d, NEW o
  PROVE  Contributed(d, o) \in Contributions(d[2], o)
  <1>1. IntoOwned(d) \in Copies(d[2])
    BY DEF IntoOwned, Copies
  <1> QED BY <1>1 DEF Contributed, Contributions

\* What has its operands in a sequence.
LEMMA EachMeans ==
  ASSUME MInv, Means, Active, E.op # "fold", ~(E.op = "call" /\ E.func \in Lenient),
         NEW es, IsSequence(es), Len(Done) <= Len(es),
         \A j \in 1..Len(es) : OperandAt(Top, j) = es[j]
  PROVE  LET L == Each(es, Outer) IN
         /\ Len(es) \in Nat /\ DOMAIN L = 1..Len(es) /\ DOMAIN Done = 1..Len(Done)
         /\ Len(Done) \in Nat /\ (Done = <<>> <=> Len(Done) = 0)
         /\ \A j \in 1..Len(Done) : j \in 1..Len(es) /\ Came(Done[j], L[j])
         /\ Broken => Latest \in Faults(L) /\ Failed(Latest) /\ Len(Done) \in 1..Len(Done)
         /\ ~Broken => \A j \in 1..Len(Done) : ~Failed(Done[j])
  <1> DEFINE L == Each(es, Outer)
             k == Len(Done)
             m == Len(es)
  <1>1. /\ m \in Nat /\ DOMAIN L = 1..m /\ \A j \in 1..m : L[j] = Results(es[j], Outer)
    BY SequenceDomain DEF Each
  <1>2. k \in Nat /\ DOMAIN Done = 1..k /\ (Done = <<>> <=> k = 0)
    BY TopFacts DEF MInv
  <1>3. ASSUME NEW j \in 1..k PROVE j \in 1..m /\ Came(Done[j], L[j])
    <2>1. j \in 1..m
      BY <1>1, <1>2
    <2>2. Came(Done[j], Results(OperandAt(Top, j), Outer))
      BY Operated
    <2> QED BY <1>1, <2>1, <2>2
  <1>4. Broken => Latest \in Faults(L) /\ Failed(Latest) /\ k \in 1..k
    <2> SUFFICES ASSUME Broken PROVE Latest \in Faults(L) /\ Failed(Latest) /\ k \in 1..k
      OBVIOUS
    <2>1. k \in 1..k /\ Failed(Latest)
      BY FirstError
    <2>2. k \in DOMAIN L /\ Latest \in L[k]
      BY <1>1, <1>3, <2>1, CameError DEF Latest
    <2> HIDE DEF L, k
    <2> QED BY <2>1, <2>2 DEF Faults, Errors
  <1>5. ~Broken => \A j \in 1..k : ~Failed(Done[j])
    BY AllCame
  <1> QED BY <1>1, <1>2, <1>3, <1>4, <1>5

\* Results that came, as arguments.
LEMMA ArgumentsMean ==
  ASSUME NEW L, NEW g, g = [i \in DOMAIN L |-> g[i]],
         \A i \in DOMAIN L : Came(g[i], L[i]) /\ ~Failed(g[i])
  PROVE  g \in Arguments(L)
  <1> DEFINE S == [i \in DOMAIN L |-> Handed(L[i])]
  <1>1. DOMAIN S = DOMAIN L /\ \A i \in DOMAIN L : g[i] \in S[i]
    BY CameValue
  <1> HIDE DEF S
  <1>2. g \in Selections(S)
    BY <1>1, Selects
  <1> QED BY <1>2 DEF Arguments, S

LEMMA ListLiteralMeant == ASSUME MInv, Means, ListLiteral PROVE MKept
  <1> DEFINE k == Len(Done)
             m == Len(E.elements)
             L == Each(E.elements, Outer)
             R == Results(E, Outer)
             v == [i \in 1..k |-> Done[i][2]]
             C(i) == Contributions(v[i], i \in E.optional)
             f == [i \in 1..k |-> Contributed(Done[i], i \in E.optional)]
  <1>0. Active /\ E.op = "list" /\ IsSequence(E.elements) /\ k <= m
    <2>1. Active /\ E.op = "list"
      BY DEF ListLiteral
    <2>2. Room(E) = m
      BY <2>1 DEF Room
    <2> QED BY <2>1, <2>2, TopFacts DEF MInv, IsExpression
  <1>1. \A j : OperandAt(Top, j) = E.elements[j]
    BY <1>0 DEF OperandAt, E
  <1>2. /\ m \in Nat /\ k \in Nat /\ DOMAIN L = 1..m /\ DOMAIN Done = 1..k
        /\ \A j \in 1..k : j \in 1..m /\ Came(Done[j], L[j])
        /\ Broken => Latest \in Faults(L) /\ Failed(Latest)
        /\ ~Broken => \A j \in 1..k : ~Failed(Done[j])
    BY <1>0, <1>1, EachMeans
  <1>3. R = OfList(L, E.optional)
    BY <1>0, MeantFacts DEF ResultsOf
  <1>4. CASE Broken
    <2>1. Latest \in R /\ Return(Latest)
      <3> HIDE DEF L, R
      <3> QED BY <1>2, <1>3, <1>4 DEF OfList, ListLiteral
    <2> QED BY <1>0, <1>2, <1>4, <2>1, CameFailed, ReturnMeant
  <1>5. CASE ~Broken /\ k < m
    <2>1. Went(Top, k)
      <3>1. k > 0 => WentPast(E, k, Done[k])
        BY <1>0, <1>2, <1>5 DEF WentPast
      <3> QED BY <1>0, <3>1 DEF Went, E, Done
    <2>2. Start(E.elements[k + 1])
      BY <1>5 DEF ListLiteral
    <2> QED BY <1>0, <1>1, <2>1, <2>2, StartMeant
  <1>6. CASE ~Broken /\ ~(k < m)
    <2>1. k = m
      <3>1. k \in Nat /\ m \in Nat /\ k <= m
        BY <1>0, <1>2
      <3> HIDE DEF k, m
      <3> QED BY <1>6, <3>1
    <2>2. v \in OperandValues(L)
      <3> DEFINE S == [i \in DOMAIN L |-> ValuesIn(L[i])]
      <3>1. DOMAIN S = 1..k /\ \A i \in 1..k : v[i] \in S[i]
        <4>1. \A i \in 1..k : v[i] = Done[i][2] /\ S[i] = ValuesIn(L[i])
          BY <1>2, <2>1
        <4>2. \A i \in 1..k : Done[i][2] \in ValuesIn(L[i])
          BY <1>2, <1>6, CameValue
        <4> QED BY <1>2, <2>1, <4>1, <4>2
      <3>2. v = [i \in 1..k |-> v[i]]
        OBVIOUS
      <3> HIDE DEF v, S
      <3>3. v \in Selections(S)
        BY <3>1, <3>2, Selects
      <3> QED BY <3>3 DEF OperandValues, S
    <2>3. f \in Selections([i \in DOMAIN v |-> Contributions(v[i], i \in E.optional)])
      <3> DEFINE S == [i \in DOMAIN v |-> Contributions(v[i], i \in E.optional)]
      <3>1. DOMAIN S = 1..k /\ \A i \in 1..k : f[i] \in S[i]
        <4>1. \A i \in 1..k : S[i] = Contributions(Done[i][2], i \in E.optional)
                              /\ f[i] = Contributed(Done[i], i \in E.optional)
          OBVIOUS
        <4>2. \A i \in 1..k : f[i] \in S[i]
          BY <4>1, ContributedMeans
        <4> QED BY <4>2
      <3>2. f = [i \in 1..k |-> f[i]]
        OBVIOUS
      <3> HIDE DEF f, S
      <3>3. f \in Selections(S)
        BY <3>1, <3>2, Selects
      <3> QED BY <3>3 DEF S
    <2>4. Ok(ListOf(FlattenSeq(f))) \in R
      <3> HIDE DEF f, v, L, R
      <3> QED BY <1>3, <2>2, <2>3 DEF OfList
    <2>5. Return(Own(ListOf(FlattenSeq(f))))
      BY <1>2, <1>6 DEF ListLiteral
    <2> QED BY <1>0, <2>4, <2>5, CameOwn, ReturnMeant
  <1> QED BY <1>4, <1>5, <1>6

LEMMA MapMeans ==
  ASSUME NEW entries, NEW optional, NEW v \in OperandValues(Keyed(entries)), NEW n,
         n = Len(v) \div 2,
         NEW f \in Selections([i \in 1..n |-> Contributions(v[2 * i], i \in optional)])
  PROVE  Ok(MapOf(Collected([i \in 1..n |-> v[2 * i - 1]], f))) \in OfMap(entries, optional)
  <1> DEFINE S == [i \in 1..n |-> Contributions(v[2 * i], i \in optional)]
             keys == [i \in 1..n |-> v[2 * i - 1]]
  <1>1. MapsOf(v, optional) = {Ok(MapOf(Collected(keys, g))) : g \in Selections(S)}
    BY DEF MapsOf
  <1>2. f \in Selections(S)
    OBVIOUS
  <1> HIDE DEF S, keys
  <1>3. Ok(MapOf(Collected(keys, f))) \in MapsOf(v, optional)
    BY <1>1, <1>2
  <1> QED BY <1>3 DEF OfMap, keys

LEMMA MapLiteralMeant == ASSUME MInv, Means, MapLiteral PROVE MKept
  <1> DEFINE k == Len(Done)
             m == Len(E.entries)
             n == k \div 2
             L == Each(E.entries, Outer)
             K == Keyed(L)
             R == Results(E, Outer)
             Val(i) == IntoOwned(Done[i])
             v == [i \in 1..k |-> Val(i)]
             f == [i \in 1..n |-> Contributed(Own(Val(2 * i)), i \in E.optional)]
  <1>0. Active /\ E.op = "map" /\ IsSequence(E.entries) /\ k <= m
    <2>1. Active /\ E.op = "map"
      BY DEF MapLiteral
    <2>2. Room(E) = m
      BY <2>1 DEF Room
    <2> QED BY <2>1, <2>2, TopFacts DEF MInv, IsExpression
  <1>1. \A j : OperandAt(Top, j) = E.entries[j]
    BY <1>0 DEF OperandAt, E
  <1>2. /\ m \in Nat /\ k \in Nat /\ DOMAIN L = 1..m /\ DOMAIN Done = 1..k
        /\ \A j \in 1..k : j \in 1..m /\ Came(Done[j], L[j])
        /\ Broken => Latest \in Faults(L) /\ Failed(Latest) /\ k \in 1..k
        /\ ~Broken => \A j \in 1..k : ~Failed(Done[j])
    BY <1>0, <1>1, EachMeans
  <1>3. R = OfMap(L, E.optional)
    BY <1>0, MeantFacts DEF ResultsOf
  <1>4. DOMAIN K = 1..m /\ \A j \in 1..m : K[j] = IF j % 2 = 1 THEN {AsKey(r) : r \in L[j]} ELSE L[j]
    BY <1>2 DEF Keyed
  <1>5. \A j \in 1..m : \A x \in K[j] : Failed(x) => x \in R
    <2>1. \A j \in 1..m : \A x \in K[j] : Failed(x) => x \in Faults(K)
      BY <1>4 DEF Faults, Errors
    <2>2. Faults(K) \subseteq R
      BY <1>3 DEF OfMap
    <2> QED BY <2>1, <2>2
  <1>6. IF Broken THEN Return(Latest)
        ELSE IF k % 2 = 1 /\ TypeOf(IntoOwned(Latest)) \notin KeyTypes
             THEN Return(Err("UnsupportedKeyType"))
        ELSE IF k < m THEN Start(E.entries[k + 1])
        ELSE Return(Own(MapOf(Entries(Done, E.optional))))
    BY DEF MapLiteral
  <1>7. CASE Broken
    <2>1. Came(Latest, L[k]) /\ Failed(Latest) /\ k \in 1..m
      BY <1>2, <1>7 DEF Latest
    <2>2. Latest \in K[k]
      <3>1. Latest \in L[k] /\ AsKey(Latest) = Latest
        BY <2>1, CameError DEF AsKey
      <3> HIDE DEF L, k, m, K
      <3> QED BY <1>4, <2>1, <3>1
    <2>3. Latest \in R
      BY <1>5, <2>1, <2>2
    <2> QED BY <1>0, <1>6, <1>7, <2>1, <2>3, CameFailed, ReturnMeant
  <1>8. CASE ~Broken /\ k % 2 = 1 /\ TypeOf(IntoOwned(Latest)) \notin KeyTypes
    <2> DEFINE r == Ok(IntoOwned(Latest))
               x == Err("UnsupportedKeyType")
    <2>1. k \in 1..k
      <3>1. k \in Nat /\ k # 0
        BY <1>2, <1>8
      <3> HIDE DEF k
      <3> QED BY <3>1
    <2>2. Came(Latest, L[k]) /\ ~Failed(Latest) /\ k \in 1..m
      BY <1>2, <1>8, <2>1 DEF Latest
    <2>3. r \in L[k] /\ AsKey(r) = x /\ Failed(x)
      BY <1>8, <2>2, CameValue, ResultShapes DEF AsKey
    <2>4. x \in K[k]
      <3> HIDE DEF L, k, m, K, r, x
      <3> QED BY <1>4, <1>8, <2>2, <2>3
    <2>5. x \in R
      BY <1>5, <2>2, <2>3, <2>4
    <2> QED BY <1>0, <1>6, <1>8, <2>3, <2>5, CameFailed, ReturnMeant
  <1>9. CASE ~Broken /\ ~(k % 2 = 1 /\ TypeOf(IntoOwned(Latest)) \notin KeyTypes) /\ k < m
    <2>1. Went(Top, k)
      <3>1. k > 0 => WentPast(E, k, Done[k])
        BY <1>0, <1>2, <1>9 DEF WentPast, Latest
      <3> QED BY <1>0, <3>1 DEF Went, E, Done
    <2> QED BY <1>0, <1>1, <1>6, <1>9, <2>1, StartMeant
  <1>10. CASE ~Broken /\ ~(k % 2 = 1 /\ TypeOf(IntoOwned(Latest)) \notin KeyTypes) /\ ~(k < m)
    <2>1. k = m
      <3>1. k \in Nat /\ m \in Nat /\ k <= m
        BY <1>0, <1>2
      <3> HIDE DEF k, m
      <3> QED BY <1>10, <3>1
    <2>2. ASSUME NEW j \in 1..k, j % 2 = 1 PROVE TypeOf(Val(j)) \in KeyTypes
      <3>1. CASE j = k
        BY <1>10, <2>2, <3>1 DEF Latest
      <3>2. CASE j # k
        <4>1. j \in 0..k - 1 /\ j > 0
          <5>1. k \in Nat
            BY <1>2
          <5> HIDE DEF k
          <5> QED BY <2>2, <3>2, <5>1
        <4>2. WentPast(E, j, Done[j])
          BY <1>0, <4>1, Operated DEF Went, E, Done
        <4> QED BY <1>0, <2>2, <4>2 DEF WentPast
      <3> QED BY <3>1, <3>2
    <2>3. ASSUME NEW j \in 1..k PROVE Val(j) \in ValuesIn(K[j])
      <3> DEFINE r == Ok(Val(j))
      <3>1. r \in L[j] /\ ~Failed(r) /\ r[2] = Val(j)
        BY <1>2, <1>10, CameValue, ResultShapes
      <3>2. j % 2 = 1 => AsKey(r) = r
        BY <2>2, <3>1 DEF AsKey
      <3>3. r \in K[j]
        <4>1. j \in 1..m
          BY <2>1
        <4> HIDE DEF r, K, L, m
        <4> QED BY <1>4, <3>1, <3>2, <4>1
      <3> HIDE DEF r, K
      <3> QED BY <3>1, <3>3 DEF ValuesIn
    <2>4. v \in OperandValues(K)
      <3> DEFINE S == [i \in DOMAIN K |-> ValuesIn(K[i])]
      <3>1. DOMAIN S = 1..k /\ \A i \in 1..k : v[i] \in S[i]
        <4>1. \A i \in 1..k : v[i] = Val(i) /\ S[i] = ValuesIn(K[i])
          BY <1>4, <2>1
        <4> QED BY <1>4, <2>1, <2>3, <4>1
      <3>2. v = [i \in 1..k |-> v[i]]
        OBVIOUS
      <3> HIDE DEF v, S
      <3>3. v \in Selections(S)
        BY <3>1, <3>2, Selects
      <3> QED BY <3>3 DEF OperandValues, S
    <2>5. Len(v) = k /\ n \in Nat /\ \A i \in 1..n : 2 * i \in 1..k /\ 2 * i - 1 \in 1..k
      <3>1. k \in Nat
        BY <1>2
      <3> HIDE DEF k, Val
      <3> QED BY <3>1
    <2> DEFINE S == [i \in 1..n |-> Contributions(v[2 * i], i \in E.optional)]
               keys == [i \in 1..n |-> v[2 * i - 1]]
    <2>6. f \in Selections(S)
      <3>1. DOMAIN S = 1..n /\ \A i \in 1..n : f[i] \in S[i]
        <4>1. \A i \in 1..n : v[2 * i] = Val(2 * i) /\ Own(Val(2 * i))[2] = Val(2 * i)
          <5> HIDE DEF n, k, Val
          <5> QED BY <2>5, ResultShapes
        <4>2. \A i \in 1..n : S[i] = Contributions(Own(Val(2 * i))[2], i \in E.optional)
                              /\ f[i] = Contributed(Own(Val(2 * i)), i \in E.optional)
          <5> HIDE DEF v, n, Val
          <5> QED BY <4>1
        <4>3. \A i \in 1..n : f[i] \in S[i]
          <5> HIDE DEF f, S
          <5> QED BY <4>2, ContributedMeans
        <4> QED BY <4>3
      <3>2. f = [i \in 1..n |-> f[i]]
        OBVIOUS
      <3> HIDE DEF f, S, n
      <3> QED BY <3>1, <3>2, Selects
    <2>7. Ok(MapOf(Collected(keys, f))) \in R
      <3>1. v \in OperandValues(Keyed(L)) /\ n = Len(v) \div 2
        BY <2>4, <2>5
      <3>2. f \in Selections([i \in 1..n |-> Contributions(v[2 * i], i \in E.optional)])
        BY <2>6
      <3> HIDE DEF f, v, n, L
      <3>3. Ok(MapOf(Collected([i \in 1..n |-> v[2 * i - 1]], f))) \in OfMap(L, E.optional)
        BY <3>1, <3>2, MapMeans
      <3> QED BY <1>3, <3>3
    <2>8. Entries(Done, E.optional) = Collected(keys, f)
      <3>1. keys = [i \in 1..n |-> IntoOwned(Done[2 * i - 1])]
        <4>1. \A i \in 1..n : v[2 * i - 1] = Val(2 * i - 1)
          <5> HIDE DEF n, k, Val
          <5> QED BY <2>5
        <4> HIDE DEF v, n
        <4> QED BY <4>1
      <3> HIDE DEF keys
      <3> QED BY <3>1 DEF Entries
    <2>9. Return(Own(MapOf(Entries(Done, E.optional))))
      BY <1>6, <1>10
    <2> HIDE DEF keys, f, R
    <2>10. Came(Own(MapOf(Collected(keys, f))), R)
      BY <2>7, CameOwn
    <2> QED BY <1>0, <2>8, <2>9, <2>10, ReturnMeant DEF R
  <1> QED BY <1>7, <1>8, <1>9, <1>10

\* Of the values for a field, the last.
LEMMA ProvidedMeans ==
  ASSUME NEW names, NEW g, NEW k \in Nat, DOMAIN g = 1..k, Len(g) = k
  PROVE  Provided(names, g) \in Provisions(names, g)
  <1> DEFINE F == {names[i] : i \in DOMAIN g}
             p == Provided(names, g)
             LastFor(i, f) == names[i] = f /\ \A j \in i + 1..Len(g) : names[j] # f
             At(f) == CHOOSE i \in DOMAIN g : LastFor(i, f)
  <1>1. DOMAIN p = F /\ p = [f \in F |-> g[At(f)]] /\ \A f \in F : p[f] = g[At(f)]
    BY DEF Provided
  <1>2. ASSUME NEW f \in F PROVE At(f) \in DOMAIN g /\ LastFor(At(f), f)
    <2> DEFINE S == {i \in 1..k : names[i] = f}
    <2>1. S \in SUBSET (1..k) /\ S # {}
      OBVIOUS
    <2>2. PICK i \in S : \A j \in S : j <= i
      <3> HIDE DEF S
      <3> QED BY <2>1, LastPosition
    <2>3. i \in 1..k /\ names[i] = f
      BY <2>2
    <2>4. \A j \in i + 1..k : names[j] # f
      <3> SUFFICES ASSUME NEW j \in i + 1..k, names[j] = f PROVE FALSE
        OBVIOUS
      <3>1. j \in 1..k /\ ~(j <= i)
        BY <2>3
      <3> QED BY <2>2, <3>1
    <2> QED BY <2>3, <2>4
  <1>3. ASSUME NEW i \in DOMAIN g, \A j \in DOMAIN g : j > i => names[j] # names[i]
        PROVE  names[i] \in F /\ At(names[i]) = i
    <2> DEFINE f == names[i]
               n == At(f)
    <2>1. f \in F
      OBVIOUS
    <2>2. n \in DOMAIN g /\ names[n] = f /\ \A j \in n + 1..k : names[j] # f
      BY <1>2, <2>1
    <2> HIDE DEF n
    <2>3. ~(n > i)
      BY <1>3, <2>2
    <2>4. ~(i > n)
      BY <2>2
    <2>5. n = i
      BY <2>2, <2>3, <2>4
    <2> QED BY <2>1, <2>5 DEF n
  <1> HIDE DEF At, p, F, LastFor
  <1>4. p \in [F -> {g[i] : i \in DOMAIN g}]
    BY <1>1, <1>2
  <1>5. \A i \in DOMAIN g :
          (\A j \in DOMAIN g : j > i => names[j] # names[i]) => p[names[i]] = g[i]
    BY <1>1, <1>3
  <1> QED BY <1>4, <1>5 DEF Provisions, p, F

LEMMA StructMeans ==
  ASSUME NEW name, name \in DOMAIN StructDefs, NEW fields, NEW entries,
         NEW g \in Arguments(entries), NEW p \in Provisions(fields, g)
  PROVE  Plain(NewStruct(name, p)) \in OfStruct(name, fields, entries)
  <1> DEFINE S == {Plain(NewStruct(name, q)) : q \in Provisions(fields, g)}
  <1>1. Plain(NewStruct(name, p)) \in S
    OBVIOUS
  <1>2. S \subseteq OfStruct(name, fields, entries)
    BY DEF OfStruct
  <1> QED BY <1>1, <1>2

LEMMA StructLiteralMeant == ASSUME MInv, Means, StructLiteral PROVE MKept
  <1> DEFINE k == Len(Done)
             m == Len(E.entries)
             L == Each(E.entries, Outer)
             R == Results(E, Outer)
             d == NewStruct(E.name, Provided(E.fields, Done))
  <1>0. Active /\ E.op = "struct" /\ IsSequence(E.entries) /\ k <= m
    <2>1. Active /\ E.op = "struct"
      BY DEF StructLiteral
    <2>2. Room(E) = m
      BY <2>1 DEF Room
    <2> QED BY <2>1, <2>2, TopFacts DEF MInv, IsExpression
  <1>1. \A j : OperandAt(Top, j) = E.entries[j]
    BY <1>0 DEF OperandAt, E
  <1>2. /\ m \in Nat /\ k \in Nat /\ DOMAIN L = 1..m /\ DOMAIN Done = 1..k
        /\ \A j \in 1..k : j \in 1..m /\ Came(Done[j], L[j])
        /\ Broken => Latest \in Faults(L) /\ Failed(Latest) /\ k \in 1..k
        /\ ~Broken => \A j \in 1..k : ~Failed(Done[j])
    BY <1>0, <1>1, EachMeans
  <1>3. R = OfStruct(E.name, E.fields, L)
    BY <1>0, MeantFacts DEF ResultsOf
  <1>4. CASE E.name \notin DOMAIN StructDefs
    <2>1. Err("UnexpectedType") \in R /\ Return(Err("UnexpectedType"))
      <3> HIDE DEF R, L
      <3> QED BY <1>3, <1>4 DEF OfStruct, StructLiteral
    <2> QED BY <1>0, <2>1, CameFailed, ResultShapes, ReturnMeant
  <1>5. CASE E.name \in DOMAIN StructDefs /\ Broken
    <2>1. Latest \in R /\ Return(Latest)
      <3> HIDE DEF L, R
      <3> QED BY <1>2, <1>3, <1>5 DEF OfStruct, StructLiteral
    <2> QED BY <1>0, <1>2, <1>5, <2>1, CameFailed, ReturnMeant
  <1>6. CASE E.name \in DOMAIN StructDefs /\ ~Broken /\ k < m
    <2>1. Went(Top, k)
      <3>1. k > 0 => WentPast(E, k, Done[k])
        BY <1>0, <1>2, <1>6 DEF WentPast
      <3> QED BY <1>0, <1>6, <3>1 DEF Went, E, Done
    <2>2. Start(E.entries[k + 1])
      BY <1>6 DEF StructLiteral
    <2> QED BY <1>0, <1>1, <2>1, <2>2, StartMeant
  <1>7. CASE E.name \in DOMAIN StructDefs /\ ~Broken /\ ~(k < m)
    <2>1. k = m
      <3>1. k \in Nat /\ m \in Nat /\ k <= m
        BY <1>0, <1>2
      <3> HIDE DEF k, m
      <3> QED BY <1>7, <3>1
    <2>2. Done \in Arguments(L)
      <3>1. \A i \in 1..k : Came(Done[i], L[i]) /\ ~Failed(Done[i])
        BY <1>2, <1>7
      <3>2. Done = [i \in 1..k |-> Done[i]]
        <4>1. IsSequence(Done)
          BY <1>0, TopFacts DEF MInv
        <4> QED BY <1>2, <4>1 DEF IsSequence
      <3>3. DOMAIN L = 1..k
        BY <1>2, <2>1
      <3> HIDE DEF L, k
      <3> QED BY <3>1, <3>2, <3>3, ArgumentsMean
    <2>3. Provided(E.fields, Done) \in Provisions(E.fields, Done)
      BY <1>2, ProvidedMeans
    <2>4. Plain(d) \in R
      BY <1>3, <1>7, <2>2, <2>3, StructMeans
    <2>5. Failed(d) \/ d = Own(d[2])
      <3>1. \A name, given : LET x == NewStruct(name, given) IN Failed(x) \/ x = Own(x[2])
        BY ResultShapes DEF NewStruct
      <3> QED BY <3>1
    <2>6. Came(d, R)
      <3> HIDE DEF d, R
      <3>1. Failed(d) => Plain(d) = d
        BY ResultShapes
      <3>2. ~Failed(d) => Plain(d) = Ok(d[2])
        BY ResultShapes
      <3>3. CASE Failed(d)
        BY <2>4, <3>1, <3>3, CameFailed
      <3>4. CASE ~Failed(d)
        <4>1. Came(Own(d[2]), R)
          BY <2>4, <3>2, <3>4, CameOwn
        <4> QED BY <2>5, <3>4, <4>1
      <3> QED BY <3>3, <3>4
    <2>7. Return(d)
      BY <1>7 DEF StructLiteral
    <2> QED BY <1>0, <2>6, <2>7, ReturnMeant
  <1> QED BY <1>4, <1>5, <1>6, <1>7
-----------------------------------------------------------------------------
(* Calls that are no operator. *)

IsHanded(d) == d = Own(d[2]) \/ d = Lent(d[2])

LEMMA RunOpsMean ==
  ASSUME NEW id \in DOMAIN Arity, NEW a, Len(a) = Arity[id], \A j \in 1..Len(a) : IsHanded(a[j])
  PROVE  RunOp(id, a) = Panic \/ IsResult(RunOp(id, a))
  <1>1. id \in {"optional_none", "optional_of", "optional_ofNonZeroValue", "optional_value",
                "optional_has_value", "optional_or_optional", "optional_or_value", "size_list",
                "list_size"}
    BY DEF Arity
  <1>0. \A v : IsResult(Own(v)) /\ IsResult(Lent(v)) /\ IsResult(Err(v))
    BY ResultShapes DEF IsResult
  <1>2. CASE id = "optional_or_optional"
    <2>1. Arity[id] = 2
      BY <1>2 DEF Arity
    <2>2. IsResult(a[1]) /\ IsResult(a[2])
      BY <2>1 DEF IsHanded, IsResult
    <2> QED BY <1>0, <1>2, <2>2 DEF RunOp
  <1>3. CASE id = "optional_or_value"
    <2>1. Arity[id] = 2
      BY <1>3 DEF Arity
    <2>2. IsResult(a[2])
      BY <2>1 DEF IsHanded, IsResult
    <2> QED BY <1>0, <1>3, <2>2 DEF RunOp
  <1>4. CASE id \in {"optional_none", "optional_of", "optional_ofNonZeroValue"}
    BY <1>0, <1>4 DEF RunOp
  <1>5. CASE id \in {"optional_value", "optional_has_value", "size_list", "list_size"}
    BY <1>0, <1>5 DEF RunOp
  <1> QED BY <1>1, <1>2, <1>3, <1>4, <1>5

LEMMA DispatchMeans ==
  ASSUME NEW name, NEW member, NEW target, NEW args,
         IsSequence(target \o args), \A j \in 1..Len(target \o args) : IsHanded((target \o args)[j]),
         NEW R, Answers(name, member, target, args) \subseteq R
  PROVE  LET d == Dispatch(name, member, target, args) IN d = Panic \/ Came(d, R)
  <1> DEFINE a == target \o args
             o == FindOverload(name, member, a)
             d == Dispatch(name, member, target, args)
  <1>1. d = Panic \/ IsResult(d)
    <2>1. CASE o # Env!NoOverload
      <3>1. o.id \in DOMAIN Arity /\ Len(a) = Arity[o.id]
        BY <2>1, FoundTakes
      <3>2. d = RunOp(o.id, a)
        BY <2>1 DEF Dispatch
      <3>3. \A j \in 1..Len(a) : IsHanded(a[j])
        OBVIOUS
      <3> HIDE DEF o, a, d
      <3> QED BY <3>1, <3>2, <3>3, RunOpsMean
    <2>2. CASE o = Env!NoOverload
      <3>1. d = Mine(RunFunction(name, target, args)) \/ d = Err(UndeclaredReference)
        BY <2>2 DEF Dispatch
      <3>2. \A x : IsResult(Mine(x)) /\ IsResult(Err(x))
        BY ResultShapes DEF IsResult
      <3> QED BY <3>1, <3>2
    <2> QED BY <2>1, <2>2
  <1>2. d # Panic => Passed(d) \subseteq R
    BY DEF Answers
  <1> HIDE DEF d
  <1> QED BY <1>1, <1>2, CamePassed DEF d

LEMMA CallMeant == ASSUME MInv, Means, Call PROVE MKept
  <1> DEFINE k == Len(Done)
             m == Len(E.args)
             L == Each(E.args, Outer)
             R == Results(E, Outer)
             d == Dispatch(E.func, FALSE, <<>>, Done)
  <1>0. /\ Active /\ E.op = "call" /\ E.func \notin Operators /\ IsSequence(E.args) /\ k <= m
        /\ E.func \notin Lenient /\ E.func # "_?_:_" /\ E.func \notin {"_[_]", "_[?_]"}
    <2>1. Active /\ E.op = "call" /\ E.func \notin Operators
      BY DEF Call
    <2>2. Room(E) = m
      BY <2>1 DEF Room
    <2> QED BY <2>1, <2>2, TopFacts DEF MInv, IsExpression, Operators, Lenient
  <1>1. \A j : OperandAt(Top, j) = E.args[j]
    BY <1>0 DEF OperandAt, E
  <1>2. /\ m \in Nat /\ k \in Nat /\ DOMAIN L = 1..m /\ DOMAIN Done = 1..k
        /\ \A j \in 1..k : j \in 1..m /\ Came(Done[j], L[j])
        /\ Broken => Latest \in Faults(L) /\ Failed(Latest)
        /\ ~Broken => \A j \in 1..k : ~Failed(Done[j])
    BY <1>0, <1>1, EachMeans
  <1>3. R = OfCall(E.func, L)
    BY <1>0, MeantFacts DEF ResultsOf
  <1>4. CASE Broken
    <2>1. Latest \in R /\ Return(Latest)
      <3> HIDE DEF L, R
      <3> QED BY <1>2, <1>3, <1>4 DEF OfCall, Call
    <2> QED BY <1>0, <1>2, <1>4, <2>1, CameFailed, ReturnMeant
  <1>5. CASE ~Broken /\ k < m
    <2>1. k > 0 => WentPast(E, k, Done[k])
      BY <1>0, <1>2, <1>5 DEF WentPast
    <2>2. Start(E.args[k + 1])
      BY <1>5 DEF Call
    <2> QED BY <1>0, <1>1, <2>1, <2>2, StartNext
  <1>6. CASE ~Broken /\ ~(k < m)
    <2>1. k = m
      <3>1. k \in Nat /\ m \in Nat /\ k <= m
        BY <1>0, <1>2
      <3> HIDE DEF k, m
      <3> QED BY <1>6, <3>1
    <2>0. IsSequence(Done) /\ <<>> \o Done = Done
      BY <1>0, TopFacts, DoneIsResults DEF MInv
    <2>2. Done \in Arguments(L)
      <3>1. \A i \in 1..k : Came(Done[i], L[i]) /\ ~Failed(Done[i])
        BY <1>2, <1>6
      <3>2. Done = [i \in 1..k |-> Done[i]]
        <4>1. IsSequence(Done)
          BY <1>0, TopFacts DEF MInv
        <4> QED BY <1>2, <4>1 DEF IsSequence
      <3>3. DOMAIN L = 1..k
        BY <1>2, <2>1
      <3> HIDE DEF L, k
      <3> QED BY <3>1, <3>2, <3>3, ArgumentsMean
    <2>3. Answers(E.func, FALSE, <<>>, Done) \subseteq R
      <3> HIDE DEF L, R
      <3> QED BY <1>3, <2>2 DEF OfCall
    <2>4. \A j \in 1..k : IsHanded(Done[j])
      BY <1>2, <1>6, CameValue DEF IsHanded
    <2>5. d = Panic \/ Came(d, R)
      <3> HIDE DEF R
      <3> QED BY <2>0, <2>3, <2>4, DispatchMeans
    <2>6. Return(d)
      BY <1>6 DEF Call, Invoke
    <2> QED BY <1>0, <2>5, <2>6, ReturnMeant
  <1> QED BY <1>4, <1>5, <1>6

LEMMA MemberMeans ==
  ASSUME NEW name, NEW q, NEW T, NEW L
  PROVE  /\ Faults(L) \subseteq OfMember(name, q, T, L)
         /\ \A g \in Arguments(L) :
              IF q # "" /\ Found(q, FALSE, g)
              THEN Answers(q, FALSE, <<>>, g) \subseteq OfMember(name, q, T, L)
              ELSE /\ Errors(T) \subseteq OfMember(name, q, T, L)
                   /\ \A t \in Handed(T) :
                        Answers(name, TRUE, <<t>>, g) \subseteq OfMember(name, q, T, L)
  <1> DEFINE onTarget(g) == UNION {Answers(name, TRUE, <<t>>, g) : t \in Handed(T)}
             M(g) == IF q # "" /\ Found(q, FALSE, g) THEN Answers(q, FALSE, <<>>, g)
                     ELSE Errors(T) \cup onTarget(g)
  <1>1. OfMember(name, q, T, L) = Faults(L) \cup UNION {M(g) : g \in Arguments(L)}
    BY DEF OfMember
  <1> DEFINE O == OfMember(name, q, T, L)
  <1>2. ASSUME NEW g \in Arguments(L) PROVE M(g) \subseteq O
    <2> HIDE DEF M
    <2> QED BY <1>1
  <1>3. Faults(L) \subseteq O
    <2> HIDE DEF M
    <2> QED BY <1>1
  <1> HIDE DEF O
  <1>4. ASSUME NEW g \in Arguments(L), ~(q # "" /\ Found(q, FALSE, g))
        PROVE  Errors(T) \subseteq O
               /\ \A t \in Handed(T) : Answers(name, TRUE, <<t>>, g) \subseteq O
    <2>1. M(g) = Errors(T) \cup onTarget(g)
      BY <1>4
    <2>2. M(g) \subseteq O
      BY <1>2
    <2> HIDE DEF M
    <2>3. \A t \in Handed(T) : Answers(name, TRUE, <<t>>, g) \subseteq onTarget(g)
      OBVIOUS
    <2> HIDE DEF onTarget
    <2> QED BY <2>1, <2>2, <2>3
  <1>5. ASSUME NEW g \in Arguments(L), q # "" /\ Found(q, FALSE, g)
        PROVE  Answers(q, FALSE, <<>>, g) \subseteq O
    BY <1>2, <1>5
  <1> HIDE DEF M, onTarget
  <1> QED BY <1>3, <1>4, <1>5 DEF O

LEMMA MemberCallMeant == ASSUME MInv, Means, MemberCall PROVE MKept
  <1> DEFINE k == Len(Done)
             n == Len(E.args)
             q == QualifiedName(E)
             L == Each(E.args, Outer)
             T == Results(E.target, Outer)
             R == Results(E, Outer)
             h == [i \in 1..n |-> Done[i]]
             byName   == Dispatch(q, FALSE, <<>>, Done)
             onTarget == Dispatch(E.func, TRUE, <<Done[n + 1]>>, SubSeq(Done, 1, n))
             named(g) == q # "" /\ Found(q, FALSE, g)
  <1>0. Active /\ E.op = "member" /\ IsSequence(E.args) /\ k <= n + 1 /\ n \in Nat
    <2>1. Active /\ E.op = "member"
      BY DEF MemberCall
    <2>2. Room(E) = n + 1
      BY <2>1 DEF Room
    <2> QED BY <2>1, <2>2, TopFacts, SequenceDomain DEF MInv, IsExpression
  <1>1. \A j : OperandAt(Top, j) = IF j > n THEN E.target ELSE E.args[j]
    BY <1>0 DEF OperandAt, E
  <1>2. /\ k \in Nat /\ DOMAIN Done = 1..k /\ IsSequence(Done)
        /\ DOMAIN L = 1..n /\ \A j \in 1..n : L[j] = Results(E.args[j], Outer)
    BY <1>0, TopFacts, SequenceDomain DEF MInv, Each
  <1>3. \A j \in 1..k : Came(Done[j], IF j > n THEN T ELSE L[j])
    <2> SUFFICES ASSUME NEW j \in 1..k PROVE Came(Done[j], IF j > n THEN T ELSE L[j])
      OBVIOUS
    <2>1. Came(Done[j], Results(OperandAt(Top, j), Outer))
      BY <1>0, Operated
    <2>2. j > n \/ j \in 1..n
      BY <1>0
    <2> QED BY <1>1, <1>2, <2>1, <2>2
  <1>4. R = OfMember(E.func, q, T, L)
    BY <1>0, MeantFacts DEF ResultsOf
  <1>5. IF Broken THEN Return(Latest)
        ELSE IF k < n THEN Start(E.args[k + 1])
        ELSE IF k = n /\ named(Done) THEN Return(byName)
        ELSE IF k = n THEN Start(E.target)
        ELSE Return(onTarget)
    BY DEF MemberCall, Invoke, QualifiedName
  <1>6. /\ Faults(L) \subseteq R
        /\ h \in Arguments(L) =>
             IF named(h) THEN Answers(q, FALSE, <<>>, h) \subseteq R
             ELSE /\ Errors(T) \subseteq R
                  /\ \A t \in Handed(T) : Answers(E.func, TRUE, <<t>>, h) \subseteq R
    <2> HIDE DEF h, L, T, R, q
    <2> QED BY <1>4, MemberMeans
  <1>7. (k = n \/ k = n + 1) /\ (\A j \in 1..n : ~Failed(Done[j])) => h \in Arguments(L)
    <2> SUFFICES ASSUME k = n \/ k = n + 1, \A j \in 1..n : ~Failed(Done[j])
                 PROVE  h \in Arguments(L)
      OBVIOUS
    <2>1. \A j \in 1..n : j \in 1..k /\ ~(j > n)
      BY <1>0
    <2>2. \A j \in 1..n : Came(Done[j], L[j])
      BY <1>3, <2>1
    <2>3. DOMAIN L = 1..n
      BY <1>2
    <2>4. \A j \in 1..n : h[j] = Done[j]
      OBVIOUS
    <2>5. h = [i \in 1..n |-> h[i]]
      OBVIOUS
    <2> HIDE DEF h, L, n
    <2>6. h = [i \in DOMAIN L |-> h[i]]
      BY <2>3, <2>5
    <2>7. \A i \in DOMAIN L : Came(h[i], L[i]) /\ ~Failed(h[i])
      BY <2>2, <2>3, <2>4
    <2> QED BY <2>6, <2>7, ArgumentsMean
  <1>8. k = n => h = Done
    BY <1>2 DEF IsSequence
  <1>9. k = n + 1 => ~named(h) /\ \A j \in 1..n : ~Failed(Done[j])
    <2> SUFFICES ASSUME k = n + 1 PROVE ~named(h) /\ \A j \in 1..n : ~Failed(Done[j])
      OBVIOUS
    <2>1. n \in 0..k - 1 /\ \A j \in 1..n : j \in 0..k - 1 /\ j > 0
      BY <1>0
    <2>2. \A j \in 0..k - 1 : Went(Top, j)
      BY <1>0, Operated
    <2>3. Went(Top, n)
      BY <2>1, <2>2
    <2>4. ~named(h)
      BY <1>0, <2>3 DEF Went, E, Done
    <2>5. ASSUME NEW j \in 1..n PROVE ~Failed(Done[j])
      <3>1. Went(Top, j) /\ j > 0
        BY <2>1, <2>2
      <3>2. WentPast(E, j, Done[j])
        BY <3>1 DEF Went, E, Done
      <3> QED BY <1>0, <3>2 DEF WentPast
    <2> QED BY <2>4, <2>5
  <1>10. CASE Broken
    <2>1. k \in 1..k /\ Failed(Latest)
      BY <1>0, <1>10, FirstError
    <2>2. Came(Latest, IF k > n THEN T ELSE L[k])
      BY <1>3, <2>1 DEF Latest
    <2>3. Latest \in R
      <3>1. CASE k > n
        <4>1. k = n + 1
          <5>1. k \in Nat /\ n \in Nat /\ k <= n + 1
            BY <1>0, <1>2
          <5> HIDE DEF k, n
          <5> QED BY <3>1, <5>1
        <4>2. Latest \in Errors(T)
          BY <2>1, <2>2, <3>1, CameError
        <4> QED BY <1>6, <1>7, <1>9, <4>1, <4>2
      <3>2. CASE ~(k > n)
        <4>1. k \in DOMAIN L /\ Latest \in Errors(L[k])
          <5>1. k \in 1..n
            BY <1>0, <2>1, <3>2
          <5> QED BY <1>2, <2>1, <2>2, <3>2, <5>1, CameError
        <4> QED BY <1>6, <4>1 DEF Faults
      <3> QED BY <3>1, <3>2
    <2> QED BY <1>0, <1>5, <1>10, <2>1, <2>3, CameFailed, ReturnMeant
  <1>11. ~Broken => \A j \in 1..k : ~Failed(Done[j])
    BY <1>0, AllCame
  <1>12. ~Broken /\ k > 0 => WentPast(E, k, Done[k])
    BY <1>0, <1>2, <1>11 DEF WentPast
  <1>17. k = n => ~(k < n) /\ k + 1 > n
    BY <1>0
  <1>13. CASE ~Broken /\ k < n
    <2>1. Went(Top, k)
      <3>1. k # n
        <4>1. k \in Nat /\ n \in Nat
          BY <1>0, <1>2
        <4> HIDE DEF k, n
        <4> QED BY <1>13, <4>1
      <3> QED BY <1>0, <1>12, <1>13, <3>1 DEF Went, E, Done
    <2>2. Start(E.args[k + 1]) /\ OperandAt(Top, k + 1) = E.args[k + 1]
      BY <1>0, <1>1, <1>2, <1>5, <1>13
    <2> QED BY <1>0, <2>1, <2>2, StartMeant
  <1>14. CASE ~Broken /\ k = n /\ named(Done)
    <2>1. h \in Arguments(L) /\ Answers(q, FALSE, <<>>, Done) \subseteq R
      BY <1>6, <1>7, <1>8, <1>11, <1>14
    <2>2. <<>> \o Done = Done /\ \A j \in 1..k : IsHanded(Done[j])
      BY <1>0, <1>3, <1>11, <1>14, DoneIsResults, CameValue DEF MInv, IsHanded
    <2>3. byName = Panic \/ Came(byName, R)
      <3> HIDE DEF R, q
      <3> QED BY <1>2, <2>1, <2>2, DispatchMeans
    <2>4. Return(byName)
      <3> HIDE DEF k, byName, named
      <3> QED BY <1>5, <1>14, <1>17
    <2> QED BY <1>0, <2>3, <2>4, ReturnMeant
  <1>15. CASE ~Broken /\ k = n /\ ~named(Done)
    <2>1. Went(Top, k)
      <3>1. [i \in 1..k |-> Done[i]] = Done
        BY <1>8, <1>15
      <3> QED BY <1>0, <1>12, <1>15, <3>1 DEF Went, E, Done
    <2>2. Start(E.target) /\ OperandAt(Top, k + 1) = E.target
      <3> HIDE DEF k, byName, named, n
      <3> QED BY <1>1, <1>5, <1>15, <1>17
    <2> QED BY <1>0, <2>1, <2>2, StartMeant
  <1>16. CASE ~Broken /\ ~(k < n) /\ k # n
    <2>1. k = n + 1
      <3>1. k \in Nat /\ n \in Nat /\ k <= n + 1
        BY <1>0, <1>2
      <3> HIDE DEF k, n
      <3> QED BY <1>16, <3>1
    <2> DEFINE t == Done[n + 1]
               a == <<t>> \o SubSeq(Done, 1, n)
    <2>2. n + 1 \in 1..k /\ n + 1 > n
      BY <1>0, <2>1
    <2>3. Came(t, T) /\ ~Failed(t)
      BY <1>3, <1>11, <1>16, <2>2
    <2>4. SubSeq(Done, 1, n) = h
      <3>1. Done \in Seq({Done[i] : i \in DOMAIN Done})
        BY <1>2 DEF IsSequence
      <3> QED BY <1>0, <1>2, <2>1, <3>1
    <2>5. Answers(E.func, TRUE, <<t>>, h) \subseteq R
      <3>1. t \in Handed(T)
        BY <2>3, CameValue
      <3> QED BY <1>6, <1>7, <1>9, <2>1, <3>1
    <2>6. IsSequence(a) /\ \A j \in 1..Len(a) : IsHanded(a[j])
      <3> DEFINE S == {Done[i] : i \in DOMAIN Done}
      <3>1. \A i \in 1..k : IsHanded(Done[i])
        BY <1>3, <1>11, <1>16, CameValue DEF IsHanded
      <3>2. (\A x \in S : IsHanded(x)) /\ (\A i \in 1..k : Done[i] \in S)
        BY <1>2, <3>1
      <3> HIDE DEF S
      <3>3. SubSeq(Done, 1, n) \in Seq(S)
        <4>1. \A i \in 1..n : Done[i] \in S
          BY <1>0, <2>1, <3>2
        <4>2. Done \in Seq(S)
          BY <1>2 DEF IsSequence, S
        <4> QED BY <1>0, <2>1, <4>1, <4>2, SubSeqProperties
      <3>4. <<t>> \in Seq(S)
        <4>1. t \in S
          BY <2>2, <3>2
        <4> QED BY <4>1
      <3>5. a \in Seq(S)
        <4> HIDE DEF t, n
        <4> QED BY <3>3, <3>4, ConcatProperties
      <3> HIDE DEF a
      <3>6. \A j \in 1..Len(a) : a[j] \in S
        BY <3>5
      <3>7. a \in Seq({a[i] : i \in DOMAIN a})
        BY <3>5
      <3> QED BY <3>2, <3>6, <3>7 DEF IsSequence
    <2>7. onTarget = Panic \/ Came(onTarget, R)
      <3> HIDE DEF R, t, n
      <3>1. Answers(E.func, TRUE, <<t>>, SubSeq(Done, 1, n)) \subseteq R
        BY <2>4, <2>5
      <3> QED BY <2>6, <3>1, DispatchMeans DEF t
    <2>8. Return(onTarget)
      BY <1>5, <1>16
    <2> QED BY <1>0, <2>7, <2>8, ReturnMeant
  <1> QED BY <1>10, <1>13, <1>14, <1>15, <1>16
-----------------------------------------------------------------------------
(* Comprehensions. *)

\* The operand of a comprehension that came to a result, and what is left to do.
LEMMA FoldComes ==
  ASSUME MInv, Means, Active, E.op = "fold"
  PROVE  /\ FoldMeant(E, Fold, Outer, Around)
         /\ Results(E, Outer) = OfFold(E, Outer)
         /\ \A env, items : \A taken \in Nat :
              Passes(E, env, items, taken) = PassesOf(E, env, items, taken)
         /\ Fold.phase \notin OpenPhases => Around = Outer
         /\ Done # <<>> => /\ Len(Done) = 1 /\ Latest = Done[1]
                           /\ Came(Done[1], Results(FoldOperand(E, Fold.phase), Around))
  <1>1. IInv /\ Meant(Top, Outer, Around)
        /\ (Top.fold.level = EmptyLevel(Names) => Around = Outer)
        /\ Results(E, Outer) = ResultsOf(E, Outer)
        /\ \A env, items : \A taken \in Nat :
             Passes(E, env, items, taken) = PassesOf(E, env, items, taken)
    BY MeantFacts
  <1>2. FoldMeant(E, Fold, Outer, Around)
    BY <1>1 DEF Meant, E, Fold
  <1>3. Results(E, Outer) = OfFold(E, Outer)
    BY <1>1 DEF ResultsOf
  <1>4. Fold.phase \notin OpenPhases => Around = Outer
    BY <1>1, <1>2 DEF FoldMeant, Fold
  <1>5. Done # <<>> => Len(Done) = 1 /\ 1 \in 1..Len(Done)
    BY <1>1, TopFacts, FoldFacts
  <1>6. OperandAt(Top, 1) = FoldOperand(E, Fold.phase)
    BY DEF OperandAt, E, Fold
  <1>7. Done # <<>> => Came(Done[1], Results(OperandAt(Top, 1), Around))
    BY <1>1, <1>5 DEF Meant, Done
  <1> QED BY <1>1, <1>2, <1>3, <1>4, <1>5, <1>6, <1>7 DEF Latest

\* The environment, when a comprehension's frame is replaced.
LEMMA LevelKept ==
  ASSUME IInv, Active, NEW f, f.fold.level = Fold.level
  PROVE  EnvAt(root, Append(Front(stack), f), Len(stack)) = Around
  <1> DEFINE t == Append(Front(stack), f)
             n == Len(stack)
  <1>1. IsSequence(stack) /\ stack # <<>> /\ n \in Nat
    BY TopFacts DEF IsStack, Active
  <1>2. t[n] = f /\ \A i \in 1..n - 1 : t[i] = stack[i]
    BY <1>1, OnTop
  <1> HIDE DEF t
  <1>3. \A j \in 1..n : t[j].fold.level = stack[j].fold.level
    <2>1. \A j \in 1..n : j = n \/ j \in 1..n - 1
      BY <1>1
    <2>2. stack[n].fold.level = Fold.level
      BY DEF Fold, Top
    <2> QED BY <1>2, <2>1, <2>2
  <1>4. EnvAt(root, t, n) = EnvAt(root, stack, n)
    BY <1>3, SameEnv
  <1> QED BY <1>4 DEF t, Around

\* The environment env with a variable bound.
With(env, x, v) == [env EXCEPT ![x] = Some(v)]

LEMMA LevelBound ==
  ASSUME IInv, Active, NEW f, NEW g, NEW x \in Names, NEW v,
         HasScope(g), g.level = Fold.level, f.fold = Bound(g, x, v)
  PROVE  EnvAt(root, Append(Front(stack), f), Len(stack)) = With(Around, x, v)
  <1> DEFINE t == Append(Front(stack), f)
             n == Len(stack)
             m == n - 1
  <1>1. IsSequence(stack) /\ stack # <<>> /\ m \in Nat /\ m + 1 = n /\ IsFold(Fold)
    BY TopFacts DEF IsStack, Active, IsFrame, Fold
  <1>2. t[n] = f /\ \A i \in 1..m : t[i] = stack[i]
    BY <1>1, OnTop
  <1>3. Fold = stack[m + 1].fold
    BY <1>1 DEF Fold, Top
  <1>4. f.fold.level = Bound(Fold, x, v).level
    <2>1. "level" \in DOMAIN g /\ "level" \in DOMAIN Fold
      BY <1>1 DEF HasScope, IsFold
    <2>2. /\ Bound(g, x, v).level = [g.level EXCEPT !.variables = [@ EXCEPT ![x] = Some(v)]]
          /\ Bound(Fold, x, v).level = [Fold.level EXCEPT !.variables = [@ EXCEPT ![x] = Some(v)]]
      BY <2>1 DEF Bound
    <2> QED BY <2>2
  <1> HIDE DEF t, m, n
  <1>5. EnvAt(root, t, m + 1) = [EnvAt(root, stack, m + 1) EXCEPT ![x] = Some(v)]
    <2>1. t[m + 1].fold.level = Bound(stack[m + 1].fold, x, v).level
      BY <1>1, <1>2, <1>3, <1>4
    <2>2. \A j \in 1..m : stack[j].fold.level = t[j].fold.level
      BY <1>2
    <2>3. IsFold(stack[m + 1].fold)
      BY <1>1, <1>3
    <2> QED BY <1>1, <2>1, <2>2, <2>3, BoundEnv
  <1> QED BY <1>1, <1>5 DEF t, n, Around, With

\* The frame goes on, its operands' results consumed.
LEMMA FoldOnMeant ==
  ASSUME MInv, Active, E.op = "fold", NEW f, f.e = E, f.done = <<>>, NEW inner,
         EnvAt(root, Append(Front(stack), f), Len(stack)) = inner,
         FoldMeant(E, f.fold, Outer, inner)
  PROVE  IsMeant(root, Append(Front(stack), f))
  <1>1. IsStack(stack, program) /\ stack # <<>> /\ IsMeant(root, stack) /\ f.e = stack[Len(stack)].e
    BY TopFacts DEF MInv, HasCome, Active, E, Top
  <1>2. Meant(f, Outer, inner)
    <2>1. 1..Len(f.done) = {} /\ 0..Len(f.done) - 1 = {}
      BY EmptySequence
    <2> QED BY <2>1 DEF Meant
  <1>3. Meant(f, EnvAt(root, stack, Len(stack) - 1), EnvAt(root, Append(Front(stack), f), Len(stack)))
    BY <1>2 DEF Outer
  <1> QED BY <1>1, <1>3, MeantReplaced

LEMMA FoldGoesOnMeant ==
  ASSUME MInv, Active, E.op = "fold", NEW f, f.e = E, f.done = <<>>, NEW inner,
         EnvAt(root, Append(Front(stack), f), Len(stack)) = inner,
         FoldMeant(E, f.fold, Outer, inner),
         stack' = Append(Front(stack), f), out' = out
  PROVE  MKept
  <1>1. IsMeant(root, stack')
    BY FoldOnMeant
  <1>2. out = NoResult
    BY TopFacts DEF MInv
  <1> QED BY <1>1, <1>2 DEF MKept, HasCome, Outcomes

\* It goes on to an operand.
LEMMA FoldAboveMeant ==
  ASSUME MInv, Active, E.op = "fold", NEW f, DOMAIN f = {"e", "done", "fold"}, f.e = E,
         HasScope(f.fold), f.fold.phase \in OpenPhases => HasAccumulator(f.fold), NEW inner,
         EnvAt(root, Append(Front(stack), [f EXCEPT !.done = <<>>]), Len(stack)) = inner,
         FoldMeant(E, f.fold, Outer, inner),
         NEW c, c = FoldOperand(E, f.fold.phase), StartAbove(f, c)
  PROVE  MKept
  <1> DEFINE h == [f EXCEPT !.done = <<>>]
             t == Append(Front(stack), h)
  <1>1. DOMAIN h = {"e", "done", "fold"} /\ h.e = E /\ h.done = <<>> /\ h.fold = f.fold
    OBVIOUS
  <1>2. stack' = t \o <<Frame(c)>> /\ out' = out /\ IInv /\ out = NoResult
    BY TopFacts DEF StartAbove, MInv
  <1>0. EnvAt(root, t, Len(stack)) = inner
    OBVIOUS
  <1> HIDE DEF h
  <1>3. IsMeant(root, t)
    BY <1>0, <1>1, FoldOnMeant
  <1>4. IsStack(t, program) /\ IsSequence(t) /\ t # <<>> /\ t[Len(t)] = h
    <2>1. IsFrame(h) /\ Len(h.done) = 0
      BY <1>1, <1>2, FoldFrame
    <2>2. program \in Programs /\ IsStack(stack, program) /\ stack # <<>>
          /\ h.e = stack[Len(stack)].e /\ IsSequence(stack)
      BY <1>1, <1>2 DEF IInv, Active, Top, E, IsStack
    <2>3. Len(h.done) <= Room(h.e)
      BY <1>1, <1>2, <2>1, FoldFacts
    <2>4. IsStack(t, program)
      BY <2>1, <2>2, <2>3, Replaced
    <2>5. t # <<>> /\ t[Len(t)] = h
      <3>1. Len(t) = Len(stack) /\ t # <<>> /\ t[Len(stack)] = h
        BY <2>2, OnTop
      <3> HIDE DEF t
      <3> QED BY <3>1
    <2> QED BY <2>4, <2>5 DEF IsStack
  <1>5. c = OperandAt(h, Len(h.done) + 1) /\ Went(h, Len(h.done))
    <2>1. Len(h.done) = 0 /\ h.e.op = "fold" /\ h.e = E
      BY <1>1, EmptySequence
    <2>2. OperandAt(h, 1) = FoldOperand(h.e, h.fold.phase)
      BY <2>1 DEF OperandAt
    <2>3. Went(h, 0)
      BY <2>1 DEF Went
    <2> QED BY <1>1, <2>1, <2>2, <2>3
  <1> HIDE DEF t
  <1>6. IsMeant(root, Append(t, Frame(c)))
    BY <1>3, <1>4, <1>5, MeantPushed
  <1>7. stack' = Append(t, Frame(c))
    BY <1>2, <1>4, Extended
  <1> QED BY <1>2, <1>6, <1>7 DEF MKept, HasCome, Outcomes

LEMMA FoldInitMeant == ASSUME MInv, Means, FoldInit PROVE MKept
  <1> DEFINE f == [Top EXCEPT !.fold = [Fold EXCEPT !.phase = "range", !.accu = Done[1]]]
             I == Results(E.accu_init, Outer)
  <1>1. Active /\ E.op = "fold" /\ Fold.phase = "init" /\ Fold.phase \notin OpenPhases /\ IInv
    BY DEF FoldInit, InFold, OpenPhases, MInv
  <1>2. /\ Around = Outer /\ Results(E, Outer) = OfFold(E, Outer)
        /\ Fold.taken \in Nat /\ Fold.taken = 0 /\ Fold.level = EmptyLevel(Names)
        /\ Done # <<>> => Len(Done) = 1 /\ Latest = Done[1] /\ Came(Done[1], I)
    BY <1>1, FoldComes DEF FoldMeant, FoldOperand
  <1>3. CASE Done = <<>>
    <2>1. Start(E.accu_init)
      BY <1>3 DEF FoldInit
    <2>2. E.accu_init = OperandAt(Top, Len(Done) + 1) /\ Went(Top, Len(Done))
      BY <1>1, <1>3, EmptySequence DEF OperandAt, FoldOperand, Went, E, Fold
    <2> QED BY <1>1, <2>1, <2>2, StartMeant
  <1>4. CASE Done # <<>> /\ Broken
    <2>1. Latest \in Errors(I) /\ Failed(Latest)
      BY <1>2, <1>4, CameError DEF Broken
    <2>2. Latest \in Results(E, Outer)
      <3> HIDE DEF I
      <3>1. Errors(I) \subseteq OfFold(E, Outer)
        BY DEF OfFold, I
      <3> QED BY <1>2, <2>1, <3>1
    <2>3. Return(Latest)
      BY <1>4 DEF FoldInit
    <2> QED BY <1>1, <2>1, <2>2, <2>3, CameFailed, ReturnMeant
  <1>5. CASE Done # <<>> /\ ~Broken
    <2>1. StartAbove(f, E.iter_range)
      BY <1>5 DEF FoldInit, Fold
    <2>2. HasScope(Fold) /\ DOMAIN Top = {"e", "done", "fold"}
      BY <1>1, FoldFacts, FoldParts
    <2>3. /\ DOMAIN f = {"e", "done", "fold"} /\ f.e = E /\ HasScope(f.fold)
          /\ f.fold.phase = "range" /\ f.fold.accu = Done[1] /\ f.fold.taken = 0
          /\ f.fold.level = Fold.level
      BY <1>2, <2>2 DEF HasScope, E
    <2> HIDE DEF f
    <2>4. E.iter_range = FoldOperand(E, f.fold.phase) /\ f.fold.phase \notin OpenPhases
      BY <2>3 DEF FoldOperand, OpenPhases
    <2>5. FoldMeant(E, f.fold, Outer, Outer)
      <3>1. ~Failed(Done[1])
        BY <1>2, <1>5 DEF Broken
      <3> QED BY <1>2, <1>5, <2>3, <3>1 DEF FoldMeant, OpenPhases
    <2>6. EnvAt(root, Append(Front(stack), [f EXCEPT !.done = <<>>]), Len(stack)) = Outer
      <3> DEFINE h == [f EXCEPT !.done = <<>>]
      <3>1. h.fold.level = Fold.level
        BY <2>3
      <3> HIDE DEF h
      <3> QED BY <1>1, <1>2, <3>1, LevelKept DEF h
    <2> QED BY <1>1, <2>1, <2>3, <2>4, <2>5, <2>6, FoldAboveMeant
  <1> QED BY <1>3, <1>4, <1>5

LEMMA FoldOpenMeant == ASSUME MInv, Means, FoldOpen PROVE MKept
  <1> DEFINE I == Results(E.accu_init, Outer)
             G == Results(E.iter_range, Outer)
             R == Results(E, Outer)
             a == Fold.accu[2]
             v == Done[1][2]
  <1>1. Active /\ E.op = "fold" /\ Fold.phase = "range" /\ Fold.phase \notin OpenPhases /\ IInv
        /\ Done # <<>>
    BY DEF FoldOpen, InFold, OpenPhases, MInv
  <1>2. /\ Around = Outer /\ R = OfFold(E, Outer) /\ Fold.taken = 0
        /\ Came(Fold.accu, I) /\ ~Failed(Fold.accu)
        /\ Latest = Done[1] /\ Came(Done[1], G)
        /\ \A env, items : \A taken \in Nat :
             Passes(E, env, items, taken) = PassesOf(E, env, items, taken)
    BY <1>1, FoldComes DEF FoldMeant, FoldOperand
  <1>3. R = Errors(I) \cup Errors(G)
              \cup UNION {Folded(E, Outer, x, y) : x \in ValuesIn(I), y \in ValuesIn(G)}
    BY <1>2 DEF OfFold
  <1>4. CASE Broken
    <2>1. Latest \in Errors(G) /\ Failed(Latest)
      BY <1>2, <1>4, CameError DEF Broken
    <2>2. Latest \in R
      <3> HIDE DEF I, G, R
      <3> QED BY <1>3, <2>1
    <2> QED BY <1>1, <1>4, <2>1, <2>2, CameFailed, ReturnMeant DEF FoldOpen
  <1>5. ~Broken => Folded(E, Outer, a, v) \subseteq R
    <2> SUFFICES ASSUME ~Broken PROVE Folded(E, Outer, a, v) \subseteq R
      OBVIOUS
    <2>1. a \in ValuesIn(I) /\ v \in ValuesIn(G)
      BY <1>1, <1>2, CameValue DEF Broken
    <2> HIDE DEF a, v, I, G, R
    <2> QED BY <1>3, <2>1
  <1>6. CASE ~Broken /\ ~IsIterable(v)
    <2>1. Err(NoSuchOverload) \in R /\ Failed(Err(NoSuchOverload))
      <3>1. Err(NoSuchOverload) \in Folded(E, Outer, a, v)
        BY <1>6 DEF Folded
      <3> HIDE DEF R
      <3> QED BY <1>5, <1>6, <3>1, ResultShapes
    <2> QED BY <1>1, <1>6, <2>1, CameFailed, ReturnMeant DEF FoldOpen
  <1>7. CASE ~Broken /\ IsIterable(v)
    <2>1. PICK items \in Iterations(Done[1][2]) :
            /\ stack' = Append(Front(stack), [Top EXCEPT
                 !.done = <<>>,
                 !.fold = Bound([Fold EXCEPT !.phase = "next", !.items = items],
                                E.accu_var, Clone(Fold.accu[2]))])
            /\ UNCHANGED out
      BY <1>7 DEF FoldOpen
    <2> DEFINE g == [Fold EXCEPT !.phase = "next", !.items = items]
               b == Bound(g, E.accu_var, Clone(Fold.accu[2]))
               f == [Top EXCEPT !.done = <<>>, !.fold = b]
               inner == [Outer EXCEPT ![E.accu_var] = Some(Clone(a))]
    <2>2. HasScope(Fold) /\ DOMAIN Top = {"e", "done", "fold"} /\ E.accu_var \in Names
      BY <1>1, FoldFacts, FoldParts
    <2>3. /\ HasScope(g) /\ g.level = Fold.level /\ g.phase = "next" /\ g.items = items
          /\ g.taken = Fold.taken
      BY <2>2 DEF HasScope, OpenPhases
    <2>4. b.phase = "next" /\ b.items = items /\ b.taken = 0
      <3>1. b.phase = g.phase /\ b.items = g.items /\ b.taken = g.taken
        BY <2>3 DEF Bound, HasScope
      <3> QED BY <1>2, <2>3, <3>1
    <2>5. stack' = Append(Front(stack), f) /\ out' = out
      BY <2>1
    <2> HIDE DEF g
    <2>6. f.e = E /\ f.done = <<>> /\ f.fold = b
      BY <2>2 DEF E
    <2> HIDE DEF f
    <2>7. EnvAt(root, Append(Front(stack), f), Len(stack)) = inner
      <3> DEFINE x == E.accu_var
                 w == Clone(a)
      <3>1. f.fold = Bound(g, x, w) /\ x \in Names /\ HasScope(g) /\ g.level = Fold.level
        BY <2>2, <2>3, <2>6
      <3> HIDE DEF x, w
      <3>2. EnvAt(root, Append(Front(stack), f), Len(stack)) = With(Around, x, w)
        BY <1>1, <3>1, LevelBound
      <3> QED BY <1>2, <3>2 DEF x, w, With
    <2>8. Passes(E, inner, items, 0) \subseteq R
      <3>1. Passes(E, inner, items, 0) \subseteq Folded(E, Outer, a, v)
        <4>1. Folded(E, Outer, a, v) = UNION {Passes(E, inner, k, 0) : k \in Iterations(v)}
          BY <1>7 DEF Folded
        <4> HIDE DEF inner, a, v
        <4>2. items \in Iterations(v)
          BY DEF v
        <4> QED BY <4>1, <4>2
      <3> HIDE DEF R
      <3> QED BY <1>5, <1>7, <3>1
    <2> HIDE DEF inner, b
    <2>9. FoldMeant(E, f.fold, Outer, inner)
      BY <2>4, <2>6, <2>8 DEF FoldMeant, OpenPhases
    <2> QED BY <1>1, <2>5, <2>6, <2>7, <2>9, FoldGoesOnMeant
  <1> QED BY <1>4, <1>6, <1>7

LEMMA FoldNextMeant == ASSUME MInv, Means, FoldNext PROVE MKept
  <1> DEFINE n == Len(Fold.items)
             k == Fold.taken
             R == Results(E, Outer)
             A(f) == EnvAt(root, Append(Front(stack), [f EXCEPT !.done = <<>>]), Len(stack))
  <1>1. Active /\ E.op = "fold" /\ Fold.phase = "next" /\ IInv
    BY DEF FoldNext, InFold, MInv
  <1>2. /\ k \in Nat /\ Passes(E, Around, Fold.items, k) \subseteq R
        /\ Passes(E, Around, Fold.items, k) = PassesOf(E, Around, Fold.items, k)
    BY <1>1, FoldComes DEF FoldMeant
  <1>3. HasScope(Fold) /\ HasAccumulator(Fold) /\ DOMAIN Top = {"e", "done", "fold"}
    BY <1>1, FoldFacts, FoldParts DEF OpenPhases
  <1>4. ASSUME NEW f, f.fold.level = Fold.level, DOMAIN f = {"e", "done", "fold"}
        PROVE  A(f) = Around
    <2> DEFINE h == [f EXCEPT !.done = <<>>]
    <2>1. h.fold.level = Fold.level
      BY <1>4
    <2> HIDE DEF h
    <2>2. EnvAt(root, Append(Front(stack), h), Len(stack)) = Around
      BY <1>1, <2>1, LevelKept
    <2> QED BY <2>2 DEF h
  <1>5. CASE k = n
    <2> DEFINE f == [Top EXCEPT !.fold = [Fold EXCEPT !.phase = "result"]]
    <2>1. StartAbove(f, E.result)
      BY <1>5 DEF FoldNext, Fold
    <2>2. /\ DOMAIN f = {"e", "done", "fold"} /\ f.e = E /\ HasScope(f.fold) /\ HasAccumulator(f.fold)
          /\ f.fold.phase = "result" /\ f.fold.level = Fold.level /\ f.fold.taken = k
      BY <1>3 DEF E, HasScope, HasAccumulator, OpenPhases
    <2>3. Results(E.result, Around) \subseteq R
      BY <1>2, <1>5 DEF PassesOf
    <2> HIDE DEF f, k, R, n
    <2>4. FoldMeant(E, f.fold, Outer, Around)
      BY <1>2, <2>2, <2>3 DEF FoldMeant, OpenPhases, R
    <2>5. A(f) = Around
      BY <1>4, <2>2
    <2>6. E.result = FoldOperand(E, f.fold.phase)
      BY <2>2 DEF FoldOperand
    <2> QED BY <1>1, <2>1, <2>2, <2>4, <2>5, <2>6, FoldAboveMeant
  <1>6. CASE k # n
    <2> DEFINE f == [Top EXCEPT !.fold = [Fold EXCEPT !.phase = "cond", !.taken = @ + 1]]
    <2>1. StartAbove(f, E.loop_cond)
      BY <1>6 DEF FoldNext, Fold
    <2>2. /\ DOMAIN f = {"e", "done", "fold"} /\ f.e = E /\ HasScope(f.fold) /\ HasAccumulator(f.fold)
          /\ f.fold.phase = "cond" /\ f.fold.level = Fold.level /\ f.fold.taken = k + 1
          /\ f.fold.items = Fold.items
      BY <1>3 DEF E, HasScope, HasAccumulator, OpenPhases
    <2> HIDE DEF f, k, R
    <2>3. k + 1 \in Nat /\ k + 1 > 0 /\ (k + 1) - 1 = k
      BY <1>2
    <2>4. FoldMeant(E, f.fold, Outer, Around)
      BY <1>2, <1>6, <2>2, <2>3 DEF FoldMeant, OpenPhases, R
    <2>5. A(f) = Around
      BY <1>4, <2>2
    <2>6. E.loop_cond = FoldOperand(E, f.fold.phase)
      BY <2>2 DEF FoldOperand
    <2> QED BY <1>1, <2>1, <2>2, <2>4, <2>5, <2>6, FoldAboveMeant
  <1> QED BY <1>5, <1>6

LEMMA FoldCondMeant == ASSUME MInv, Means, FoldCond PROVE MKept
  <1> DEFINE x == Plain(Done[1])
             c == TryBool(x)
             C == Results(E.loop_cond, Around)
             R == Results(E, Outer)
             k == Fold.taken
             f == [Top EXCEPT !.fold = [Fold EXCEPT !.phase = "result"]]
             g == [Fold EXCEPT !.phase = "step"]
             item == Clone(Fold.items[k])
             b == Bound(g, E.iter_var, item)
             h == [Top EXCEPT !.fold = b]
             inner == [Around EXCEPT ![E.iter_var] = Some(item)]
  <1>1. Active /\ E.op = "fold" /\ Fold.phase = "cond" /\ Done # <<>> /\ IInv
    BY DEF FoldCond, InFold, MInv
  <1>2. /\ k \in Nat /\ k > 0 /\ k - 1 # Len(Fold.items)
        /\ PassesOf(E, Around, Fold.items, k - 1) \subseteq R
        /\ x \in C
    BY <1>1, FoldComes, CamePlain DEF FoldMeant, FoldOperand
  <1>3. HasScope(Fold) /\ HasAccumulator(Fold) /\ DOMAIN Top = {"e", "done", "fold"}
        /\ E.iter_var \in Names
    BY <1>1, FoldFacts, FoldParts DEF OpenPhases
  <1>4. IF Failed(c) THEN Return(c)
        ELSE IF c = OkFalse THEN StartAbove(f, E.result)
        ELSE StartAbove(h, E.loop_step)
    BY DEF FoldCond, Fold
  <1>5. IF Failed(c) THEN c \in R
        ELSE IF c = OkFalse THEN Results(E.result, Around) \subseteq R
        ELSE Stepped(E, inner, Fold.items, k) \subseteq R
    <2> DEFINE S(y) == IF Failed(TryBool(y)) THEN {TryBool(y)}
                       ELSE IF y = OkFalse THEN Results(E.result, Around)
                       ELSE Stepped(E, inner, Fold.items, k)
    <2>1. (k - 1) + 1 = k
      BY <1>2
    <2>2. PassesOf(E, Around, Fold.items, k - 1) = UNION {S(y) : y \in C}
      <3> HIDE DEF k
      <3>1. item = Clone(Fold.items[(k - 1) + 1])
        BY <2>1
      <3> HIDE DEF item
      <3> QED BY <1>2, <2>1, <3>1 DEF PassesOf
    <2>3. S(x) \subseteq R
      <3> HIDE DEF S, C, R, x, k
      <3> QED BY <1>2, <2>2
    <2>4. ~Failed(c) => c = x
      <3>1. Failed(Err(NoSuchOverload))
        BY ResultShapes
      <3> HIDE DEF x
      <3> QED BY <3>1 DEF TryBool
    <2>5. IF Failed(c) THEN {c} \subseteq R
          ELSE IF x = OkFalse THEN Results(E.result, Around) \subseteq R
          ELSE Stepped(E, inner, Fold.items, k) \subseteq R
      <3> HIDE DEF R, inner, x, k
      <3> QED BY <2>3
    <2> HIDE DEF R, inner, x, k, c
    <2>6. CASE Failed(c)
      BY <2>5, <2>6
    <2>7. CASE ~Failed(c)
      <3>1. c = x
        BY <2>4, <2>7
      <3>2. c = OkFalse => Results(E.result, Around) \subseteq R
        BY <2>5, <2>7, <3>1
      <3>3. c # OkFalse => Stepped(E, inner, Fold.items, k) \subseteq R
        BY <2>5, <2>7, <3>1
      <3> QED BY <2>7, <3>2, <3>3
    <2> QED BY <2>6, <2>7
  <1>6. /\ DOMAIN f = {"e", "done", "fold"} /\ f.e = E /\ HasScope(f.fold) /\ HasAccumulator(f.fold)
        /\ f.fold.phase = "result" /\ f.fold.level = Fold.level /\ f.fold.taken = k
    BY <1>3 DEF E, HasScope, HasAccumulator, OpenPhases
  <1>7. /\ HasScope(g) /\ HasAccumulator(g) /\ g.phase = "step" /\ g.level = Fold.level
        /\ g.items = Fold.items /\ g.taken = k
    BY <1>3 DEF HasScope, HasAccumulator, OpenPhases
  <1>8. /\ HasScope(b) /\ HasAccumulator(b) /\ b.phase = "step" /\ b.items = Fold.items
        /\ b.taken = k
    <2> HIDE DEF g, item
    <2>1. HasScope(b) /\ HasAccumulator(b) /\ b.phase = g.phase
      BY <1>3, <1>7, BoundFold
    <2>2. b.items = g.items /\ b.taken = g.taken
      BY <1>7 DEF Bound, HasScope
    <2> QED BY <1>7, <2>1, <2>2
  <1>9. h.fold = b /\ h.e = E /\ DOMAIN h = {"e", "done", "fold"}
    <2> HIDE DEF b
    <2> QED BY <1>3 DEF E
  <1>10. CASE Failed(c)
    <2>1. Return(c) /\ c \in R
      BY <1>4, <1>5, <1>10
    <2> HIDE DEF c
    <2> QED BY <1>1, <1>10, <2>1, CameFailed, ReturnMeant
  <1>11. CASE ~Failed(c) /\ c = OkFalse
    <2>1. StartAbove(f, E.result) /\ Results(E.result, Around) \subseteq R
      BY <1>4, <1>5, <1>11
    <2> HIDE DEF f, k, R
    <2>2. FoldMeant(E, f.fold, Outer, Around)
      BY <1>2, <1>6, <2>1 DEF FoldMeant, OpenPhases, R
    <2>3. E.result = FoldOperand(E, f.fold.phase)
      BY <1>6 DEF FoldOperand
    <2>4. EnvAt(root, Append(Front(stack), [f EXCEPT !.done = <<>>]), Len(stack)) = Around
      <3> DEFINE o == [f EXCEPT !.done = <<>>]
      <3>1. o.fold.level = Fold.level
        BY <1>6
      <3> HIDE DEF o
      <3>2. EnvAt(root, Append(Front(stack), o), Len(stack)) = Around
        BY <1>1, <3>1, LevelKept
      <3> QED BY <3>2 DEF o
    <2> QED BY <1>1, <1>6, <2>1, <2>2, <2>3, <2>4, FoldAboveMeant
  <1>12. CASE ~Failed(c) /\ c # OkFalse
    <2>1. StartAbove(h, E.loop_step) /\ Stepped(E, inner, Fold.items, k) \subseteq R
      BY <1>4, <1>5, <1>12
    <2>2. EnvAt(root, Append(Front(stack), [h EXCEPT !.done = <<>>]), Len(stack)) = inner
      <3> DEFINE o == [h EXCEPT !.done = <<>>]
                 y == E.iter_var
      <3> HIDE DEF h, item, g
      <3>1. o.fold = Bound(g, y, item) /\ y \in Names
        BY <1>3, <1>9
      <3> HIDE DEF o, y
      <3>2. EnvAt(root, Append(Front(stack), o), Len(stack)) = With(Around, y, item)
        BY <1>1, <1>7, <3>1, LevelBound
      <3> QED BY <3>2 DEF o, y, With
    <2> HIDE DEF h, b, inner, k, R
    <2>3. FoldMeant(E, h.fold, Outer, inner)
      BY <1>2, <1>8, <1>9, <2>1 DEF FoldMeant, OpenPhases, R
    <2>4. E.loop_step = FoldOperand(E, h.fold.phase)
      BY <1>8, <1>9 DEF FoldOperand
    <2>5. HasScope(h.fold) /\ HasAccumulator(h.fold)
      BY <1>8, <1>9
    <2> QED BY <1>1, <1>9, <2>1, <2>2, <2>3, <2>4, <2>5, FoldAboveMeant
  <1> QED BY <1>10, <1>11, <1>12

LEMMA FoldStepMeant == ASSUME MInv, Means, FoldStep PROVE MKept
  <1> DEFINE S == Results(E.loop_step, Around)
             R == Results(E, Outer)
             k == Fold.taken
             v == Done[1][2]
             after(d) == IF Failed(d) THEN {d}
                         ELSE Passes(E, [Around EXCEPT ![E.accu_var] = Some(Clone(d[2]))],
                                     Fold.items, k)
  <1>1. Active /\ E.op = "fold" /\ Fold.phase = "step" /\ Done # <<>> /\ IInv
    BY DEF FoldStep, InFold, MInv
  <1>2. /\ k \in Nat /\ Stepped(E, Around, Fold.items, k) \subseteq R
        /\ Latest = Done[1] /\ Came(Done[1], S)
    BY <1>1, FoldComes DEF FoldMeant, FoldOperand
  <1>3. ASSUME NEW d \in S PROVE after(d) \subseteq R
    <2>1. Stepped(E, Around, Fold.items, k) = UNION {after(y) : y \in S}
      BY DEF Stepped
    <2> HIDE DEF after, S, R, k
    <2> QED BY <1>2, <2>1
  <1>4. CASE Broken
    <2>1. Latest \in S /\ Failed(Latest)
      BY <1>2, <1>4, CameError DEF Broken
    <2>2. Latest \in R
      <3>1. Latest \in after(Latest)
        BY <2>1
      <3> HIDE DEF after, S, R
      <3> QED BY <1>3, <2>1, <3>1
    <2> QED BY <1>1, <1>4, <2>1, <2>2, CameFailed, ReturnMeant DEF FoldStep
  <1>5. CASE ~Broken
    <2> DEFINE g == [Fold EXCEPT !.phase = "next"]
               w == Clone(v)
               b == Bound(g, E.accu_var, w)
               f == [Top EXCEPT !.done = <<>>, !.fold = b]
               inner == [Around EXCEPT ![E.accu_var] = Some(w)]
    <2>1. stack' = Append(Front(stack), f) /\ out' = out
      BY <1>5 DEF FoldStep
    <2>2. HasScope(Fold) /\ DOMAIN Top = {"e", "done", "fold"} /\ E.accu_var \in Names
      BY <1>1, FoldFacts, FoldParts
    <2>3. /\ HasScope(g) /\ g.level = Fold.level /\ g.phase = "next" /\ g.items = Fold.items
          /\ g.taken = k
      BY <2>2 DEF HasScope, OpenPhases
    <2>4. b.phase = "next" /\ b.items = Fold.items /\ b.taken = k
      <3>1. b.phase = g.phase /\ b.items = g.items /\ b.taken = g.taken
        BY <2>3 DEF Bound, HasScope
      <3> QED BY <2>3, <3>1
    <2>5. Passes(E, inner, Fold.items, k) \subseteq R
      <3>1. Ok(v) \in S /\ ~Failed(Ok(v)) /\ Ok(v)[2] = v
        BY <1>1, <1>2, <1>5, CameValue, ResultShapes DEF Broken
      <3> HIDE DEF S, R, k, v
      <3>2. after(Ok(v)) \subseteq R
        BY <1>3, <3>1
      <3>3. after(Ok(v)) = Passes(E, inner, Fold.items, k)
        BY <3>1
      <3> HIDE DEF after, inner
      <3> QED BY <3>2, <3>3
    <2> HIDE DEF g
    <2>6. f.e = E /\ f.done = <<>> /\ f.fold = b
      BY <2>2 DEF E
    <2> HIDE DEF f
    <2>7. EnvAt(root, Append(Front(stack), f), Len(stack)) = inner
      <3> DEFINE x == E.accu_var
      <3> HIDE DEF x, w
      <3>1. f.fold = Bound(g, x, w) /\ x \in Names /\ HasScope(g) /\ g.level = Fold.level
        BY <2>2, <2>3, <2>6 DEF x
      <3>2. EnvAt(root, Append(Front(stack), f), Len(stack)) = With(Around, x, w)
        BY <1>1, <3>1, LevelBound
      <3> QED BY <3>2 DEF x, w, With
    <2> HIDE DEF inner, b, k
    <2>8. FoldMeant(E, f.fold, Outer, inner)
      BY <1>2, <2>4, <2>5, <2>6 DEF FoldMeant, OpenPhases
    <2> QED BY <1>1, <2>1, <2>6, <2>7, <2>8, FoldGoesOnMeant
  <1> QED BY <1>4, <1>5

LEMMA FoldResultMeant == ASSUME MInv, Means, FoldResult PROVE MKept
  <1> DEFINE R == Results(E, Outer)
             d == Done[1]
  <1>1. Active /\ E.op = "fold" /\ Fold.phase = "result" /\ Done # <<>>
    BY DEF FoldResult, InFold
  <1>2. Results(E.result, Around) \subseteq R /\ Latest = d /\ Came(d, Results(E.result, Around))
    BY <1>1, FoldComes DEF FoldMeant, FoldOperand
  <1>3. CASE Broken
    <2>1. Latest \in R /\ Failed(Latest)
      BY <1>2, <1>3, CameError DEF Broken
    <2> QED BY <1>1, <1>3, <2>1, CameFailed, ReturnMeant DEF FoldResult
  <1>4. CASE ~Broken
    <2>1. Ok(IntoOwned(d)) \in R
      BY <1>1, <1>2, <1>4, CameValue DEF Broken
    <2>2. Return(Own(IntoOwned(d)))
      BY <1>4 DEF FoldResult
    <2> QED BY <1>1, <2>1, <2>2, CameOwn, ReturnMeant
  <1> QED BY <1>3, <1>4
-----------------------------------------------------------------------------
(* Every step of the evaluation. *)

LEMMA InitMeant == Init => HasCome(stack, out)
  <1> SUFFICES ASSUME Init PROVE HasCome(stack, out)
    OBVIOUS
  <1>1. stack = <<Frame(program)>> /\ out = NoResult
    BY DEF Init
  <1>2. Len(stack) = 1 /\ stack[1] = Frame(program)
    BY <1>1
  <1>3. \A i \in 1..Len(stack) : i = 1 /\ ~(i < Len(stack))
    BY <1>2
  <1>4. Meant(stack[1], EnvAt(root, stack, 1 - 1), EnvAt(root, stack, 1))
    BY <1>2, NewMeant
  <1> QED BY <1>1, <1>3, <1>4 DEF HasCome, IsMeant, Outcomes

LEMMA NextMeant == ASSUME MInv, Means, [Next]_vars PROVE MInv'
  <1>1. IInv'
    BY NextInv DEF MInv
  <1>2. CASE Next
    <2>1. MKept
      <3>1. CASE Literal \/ Ident \/ Ternary \/ Connective \/ NotStrictly \/ Operator \/ Unary
        BY <3>1, LiteralMeant, IdentMeant, TernaryMeant, ConnectiveMeant, NotStrictlyMeant,
           OperatorMeant, UnaryMeant
      <3>2. CASE Index \/ OptSelect \/ Select \/ ListLiteral \/ MapLiteral \/ StructLiteral
        BY <3>2, IndexMeant, OptSelectMeant, SelectMeant, ListLiteralMeant, MapLiteralMeant,
           StructLiteralMeant
      <3>3. CASE Call \/ MemberCall
        BY <3>3, CallMeant, MemberCallMeant
      <3>4. CASE FoldInit \/ FoldOpen \/ FoldNext \/ FoldCond \/ FoldStep \/ FoldResult
        BY <3>4, FoldInitMeant, FoldOpenMeant, FoldNextMeant, FoldCondMeant, FoldStepMeant,
           FoldResultMeant
      <3> QED BY <1>2, <3>1, <3>2, <3>3, <3>4 DEF Next
    <2>2. program' = program /\ root' = root
      <3>1. CASE Ident
        BY <3>1 DEF Ident, Fixed
      <3>2. CASE Call
        BY <3>2 DEF Call, Fixed
      <3>3. CASE MemberCall
        BY <3>3 DEF MemberCall, Fixed
      <3>4. CASE Literal \/ Ternary \/ Connective \/ NotStrictly \/ Operator \/ Unary
        BY <3>4 DEF Literal, Ternary, Connective, NotStrictly, Operator, Unary, Quiet, Fixed
      <3>5. CASE Index \/ OptSelect \/ Select \/ ListLiteral \/ MapLiteral \/ StructLiteral
        BY <3>5 DEF Index, OptSelect, Select, ListLiteral, MapLiteral, StructLiteral, Quiet, Fixed
      <3>6. CASE FoldInit \/ FoldOpen \/ FoldNext \/ FoldCond \/ FoldStep \/ FoldResult
        BY <3>6 DEF FoldInit, FoldOpen, FoldNext, FoldCond, FoldStep, FoldResult, Quiet, Fixed
      <3> QED BY <1>2, <3>1, <3>2, <3>3, <3>4, <3>5, <3>6 DEF Next
    <2>3. HasCome(stack, out)'
      BY <2>1, <2>2 DEF MKept, HasCome, AtRoot
    <2> QED BY <1>1, <2>3 DEF MInv
  <1>3. CASE UNCHANGED vars
    <2>1. program' = program /\ root' = root /\ stack' = stack /\ out' = out
      BY <1>3 DEF vars
    <2> QED BY <1>1, <2>1 DEF MInv, HasCome, AtRoot
  <1> QED BY <1>2, <1>3

\* Whatever the programs, root contexts, functions and structs: where Results is what its
\* equations say, resolve_val (objects.rs) comes to one of the results the expression has in the
\* environment made of what the root context knows.
THEOREM EvaluationMeans == Means /\ Spec => []ImplementsMeaning
  <1>1. Init => MInv
    BY InitInv, InitMeant DEF MInv
  <1>2. ASSUME Means PROVE MInv /\ [Next]_vars => MInv'
    BY <1>2, NextMeant
  <1>3. MInv => ImplementsMeaning
    <2>1. ASSUME MInv, out \notin Outcomes PROVE Plain(out) \in Results(program, AtRoot)
      BY <2>1, CamePlain DEF MInv, HasCome
    <2> QED BY <2>1 DEF ImplementsMeaning, AtRoot
  <1>4. ASSUME Means PROVE Spec => []ImplementsMeaning
    BY <1>1, <1>2, <1>3, <1>4, PTL DEF Spec
  <1> QED BY <1>4
=============================================================================
