------------------------ MODULE ComprehensionProofs ------------------------
(* Theorems about Comprehension, for ranges of any length and any outcomes of the
   predicate and the transform. *)
EXTENDS Comprehension, TLAPS, FiniteSetTheorems, SequenceTheorems

-----------------------------------------------------------------------------
(* Results and connectives. *)

\* Ok and Err build distinct results and can be taken apart again.
LEMMA ResultShapes ==
  /\ \A v : ~Failed(Ok(v)) /\ Ok(v)[1] = "ok" /\ Ok(v)[2] = v
  /\ \A e : Failed(Err(e)) /\ Err(e)[1] = "err"
  /\ \A v, w : Ok(v) = Ok(w) => v = w
  /\ \A v, e : Ok(v) # Err(e)
  BY DEF Ok, Err, Failed

\* The two truth values are bools, and they differ.
LEMMA TruthShapes ==
  /\ OkTrue # OkFalse
  /\ ~Failed(OkTrue) /\ ~Failed(OkFalse)
  /\ IsBool(OkTrue[2]) /\ IsBool(OkFalse[2])
  /\ TryBool(OkTrue) = OkTrue /\ TryBool(OkFalse) = OkFalse
  BY DEF OkTrue, OkFalse, Ok, Failed, BoolVal, IsBool, TryBool

\* A predicate is true, false, or fails to be a bool.
LEMMA PredicateCases ==
  ASSUME NEW p \in Predicate
  PROVE  \/ p = OkTrue /\ ~Failed(TryBool(p))
         \/ p = OkFalse /\ ~Failed(TryBool(p))
         \/ Failed(TryBool(p)) /\ p # OkTrue /\ p # OkFalse
  <1>1. CASE p \in {OkTrue, OkFalse}
    BY <1>1, TruthShapes
  <1>2. ASSUME NEW v \in NonBools, p = Ok(v) PROVE Failed(TryBool(p)) /\ p # OkTrue /\ p # OkFalse
    <2>1. ~IsBool(v) BY NonBoolAssumption
    <2>2. ~Failed(p) /\ p[2] = v BY <1>2, ResultShapes
    <2>3. TryBool(p) = Err(NoSuchOverload) BY <2>1, <2>2 DEF TryBool
    <2> QED BY <2>3, ResultShapes, TruthShapes
  <1>3. ASSUME NEW e \in EvalErrors, p = Err(e) PROVE Failed(TryBool(p)) /\ p # OkTrue /\ p # OkFalse
    <2>1. TryBool(p) = p BY <1>3, ResultShapes DEF TryBool
    <2> QED BY <2>1, <1>3, ResultShapes, TruthShapes
  <1> QED BY <1>1, <1>2, <1>3 DEF Predicate, Failures

\* One turn of `all` on an accumulator that is still true, and one of `exists` on one
\* that is still false: the predicate's own verdict.
LEMMA ConnectiveStep ==
  ASSUME NEW p \in Predicate
  PROVE  LogicalAnd(OkTrue, p) = TryBool(p) /\ LogicalOr(OkFalse, p) = TryBool(p)
  <1>1. CASE Failed(p)
    BY <1>1, TruthShapes DEF LogicalAnd, LogicalOr, TryBool
  <1>2. CASE ~Failed(p) /\ IsBool(p[2])
    BY <1>2, TruthShapes DEF LogicalAnd, LogicalOr, TryBool
  <1>3. CASE ~Failed(p) /\ ~IsBool(p[2])
    BY <1>3, TruthShapes DEF LogicalAnd, LogicalOr, TryBool
  <1> QED BY <1>1, <1>2, <1>3

\* The conditional with a predicate for its condition.
LEMMA ConditionalStep ==
  ASSUME NEW p \in Predicate, NEW t, NEW e
  PROVE  Conditional(p, t, e) = IF Failed(TryBool(p)) THEN TryBool(p)
                                ELSE IF p = OkTrue THEN t ELSE e
  BY PredicateCases, TruthShapes DEF Conditional

-----------------------------------------------------------------------------
(* The promise, read in this module's own terms. *)

\* MacroPromise reads results the way Comprehension does.
LEMMA SameLogic ==
  /\ \A r : Promise!Failed(r) <=> Failed(r)
  /\ \A r : Promise!TryBool(r) = TryBool(r)
  /\ \A v : Promise!Ok(v) = Ok(v)
  /\ \A e : Promise!Err(e) = Err(e)
  /\ \A b : Promise!BoolVal(b) = BoolVal(b)
  /\ Promise!OkTrue = OkTrue /\ Promise!OkFalse = OkFalse
  /\ Promise!NoSuchOverload = NoSuchOverload
  BY DEF Promise!Failed, Failed, Promise!TryBool, TryBool, Promise!Ok, Ok, Promise!Err, Err,
         Promise!BoolVal, BoolVal, Promise!IsBool, IsBool, Promise!OkTrue, OkTrue,
         Promise!OkFalse, OkFalse, Promise!NoSuchOverload, NoSuchOverload

\* When an item fails a macro, with which failure, and when it decides it.
LEMMA PromiseTerms ==
  ASSUME NEW m, NEW item
  PROVE  /\ Promise!Fails(m, item) <=>
              \/ m # "map" /\ Failed(TryBool(item.pred))
              \/ m = "map" /\ Failed(item.func)
              \/ m = "map_filter" /\ item.pred = OkTrue /\ Failed(item.func)
         /\ Promise!FailureOf(m, item) =
              IF m # "map" /\ Failed(TryBool(item.pred)) THEN TryBool(item.pred) ELSE item.func
         /\ Promise!Decides(m, item) <=>
              \/ m = "all" /\ item.pred = OkFalse
              \/ m = "exists" /\ item.pred = OkTrue
         /\ Promise!Settles(m, item) <=> Promise!Decides(m, item) \/ Promise!Fails(m, item)
  BY SameLogic DEF Promise!Fails, Promise!FailureOf, Promise!Decides, Promise!Settles,
                   Promise!Undecided

-----------------------------------------------------------------------------
(* The loop. *)

\* One turn of the loop on an item, with an accumulator that does not decide the macro
\* yet: it fails exactly when the item fails the macro, with that item's failure, and
\* otherwise adds the item to the accumulator.
LEMMA StepOutcome ==
  ASSUME NEW m \in Macros, NEW item \in Item, NEW i, NEW a,
         m = "all" => a = BoolVal(TRUE),
         m = "exists" => a = BoolVal(FALSE)
  PROVE  LET r     == LoopStep(m, a, item, i)
             holds == m = "map" \/ item.pred = OkTrue
         IN /\ Failed(r) <=> Promise!Fails(m, item)
            /\ Failed(r) => r = Promise!FailureOf(m, item)
            /\ ~Failed(r) =>
                 /\ m \in {"all", "exists"} => r[2] = IF holds THEN BoolVal(TRUE) ELSE BoolVal(FALSE)
                 /\ m = "exists_one" => r[2] = IF holds THEN IntVal(a[2] + 1) ELSE a
                 /\ m \in ListMacros => r[2] = IF holds THEN ListVal(Append(a[2], i)) ELSE a
  <1> DEFINE p == item.pred
             f == item.func
             r == LoopStep(m, a, item, i)
             pushed == Ok(ListVal(Append(a[2], i)))
  <1>1. p \in Predicate
    BY DEF Item
  <1>2. \A t : Failed(TryBool(t)) \/ TryBool(t) = t
    BY ResultShapes DEF TryBool
  <1>3. CASE m \in {"all", "exists"}
    <2>1. r = TryBool(p)
      BY <1>1, <1>3, ConnectiveStep DEF LoopStep, OkTrue, OkFalse
    <2>2. OkTrue[2] = BoolVal(TRUE) /\ OkFalse[2] = BoolVal(FALSE)
      BY ResultShapes DEF OkTrue, OkFalse
    <2>3. ~Failed(r) => r[2] = IF p = OkTrue THEN BoolVal(TRUE) ELSE BoolVal(FALSE)
      BY <1>1, <2>1, <2>2, PredicateCases, TruthShapes
    <2> QED BY <1>3, <2>1, <2>3, PromiseTerms DEF ListMacros
  <1>4. CASE m = "exists_one"
    <2>1. r = IF Failed(TryBool(p)) THEN TryBool(p)
              ELSE IF p = OkTrue THEN Ok(IntVal(a[2] + 1)) ELSE Ok(a)
      BY <1>1, <1>4, ConditionalStep DEF LoopStep
    <2> QED BY <1>4, <2>1, PromiseTerms, ResultShapes DEF ListMacros
  <1>5. CASE m = "map"
    <2>1. r = IF Failed(f) THEN f ELSE pushed
      BY <1>5 DEF LoopStep, Pushed
    <2> QED BY <1>5, <2>1, PromiseTerms, ResultShapes DEF ListMacros
  <1>6. CASE m = "map_filter"
    <2>1. r = IF Failed(TryBool(p)) THEN TryBool(p)
              ELSE IF p = OkTrue THEN (IF Failed(f) THEN f ELSE pushed) ELSE Ok(a)
      BY <1>1, <1>6, ConditionalStep DEF LoopStep, Pushed
    <2>2. Failed(TryBool(p)) => p # OkTrue
      BY TruthShapes
    <2> QED BY <1>6, <2>1, <2>2, PromiseTerms, ResultShapes DEF ListMacros
  <1>7. CASE m = "filter"
    <2>1. r = IF Failed(TryBool(p)) THEN TryBool(p)
              ELSE IF p = OkTrue THEN pushed ELSE Ok(a)
      BY <1>1, <1>7, ConditionalStep, ResultShapes DEF LoopStep, Pushed
    <2> QED BY <1>7, <2>1, PromiseTerms, ResultShapes DEF ListMacros
  <1> QED BY <1>3, <1>4, <1>5, <1>6, <1>7 DEF Macros, ListMacros

\* Appending the next position to an enumeration enumerates one position more.
LEMMA PushEnumerates ==
  ASSUME NEW n \in Nat, NEW s \in Seq(1..n), NEW S \in SUBSET (1..n),
         Promise!Enumerates(s, S)
  PROVE  /\ Append(s, n + 1) \in Seq(1..(n + 1))
         /\ Promise!Enumerates(Append(s, n + 1), S \cup {n + 1})
  <1> DEFINE t == Append(s, n + 1)
  <1>1. s \in Seq(1..(n + 1))
    BY SeqMonotonic, 1..n \subseteq 1..(n + 1)
  <1>2. t \in Seq(1..(n + 1)) /\ Len(t) = Len(s) + 1
    BY <1>1
  <1>3. DOMAIN s = 1..Len(s) /\ DOMAIN t = 1..(Len(s) + 1) /\ Len(s) \in Nat
    BY <1>1, <1>2
  <1>4. \A i \in 1..Len(s) : t[i] = s[i] /\ s[i] \in 1..n
    BY <1>1
  <1>5. t[Len(s) + 1] = n + 1
    BY <1>1
  <1>6. \A i \in DOMAIN t : t[i] \in S \cup {n + 1}
    BY <1>3, <1>4, <1>5 DEF Promise!Enumerates
  <1>7. ASSUME NEW x \in S \cup {n + 1} PROVE \E i \in DOMAIN t : t[i] = x
    <2>1. CASE x = n + 1
      <3>1. Len(s) + 1 \in DOMAIN t BY <1>3
      <3> QED BY <2>1, <3>1, <1>5
    <2>2. CASE x \in S
      <3>1. PICK i \in DOMAIN s : s[i] = x BY <2>2 DEF Promise!Enumerates
      <3>2. i \in DOMAIN t /\ t[i] = x BY <3>1, <1>3, <1>4
      <3> QED BY <3>2
    <2> QED BY <2>1, <2>2
  <1>8. ASSUME NEW i \in DOMAIN t, NEW j \in DOMAIN t, i < j PROVE t[i] < t[j]
    <2>1. CASE j = Len(s) + 1
      BY <2>1, <1>3, <1>4, <1>5, <1>8
    <2>2. CASE j # Len(s) + 1
      BY <2>2, <1>3, <1>4, <1>8 DEF Promise!Enumerates
    <2> QED BY <2>1, <2>2
  <1> QED BY <1>2, <1>6, <1>7, <1>8 DEF Promise!Enumerates

\* A set of positions is finite and no larger than the last of them.
LEMMA PositionsAreFinite ==
  ASSUME NEW n \in Nat, NEW S \in SUBSET (1..n)
  PROVE  IsFiniteSet(S) /\ Cardinality(S) \in Nat /\ Cardinality(S) <= n
  <1>1. IsFiniteSet(1..n) /\ Cardinality(1..n) = n
    BY FS_Interval
  <1>2. IsFiniteSet(S) /\ Cardinality(S) <= n
    BY <1>1, FS_Subset
  <1> QED BY <1>2, FS_CardinalityType

\* While the loop runs, the item taken is the one iter_var is bound to.  The loop condition
\* that ends it before the end of the range costs one item more.
Lookahead ==
  pc # "done" => taken = IF pc = "result" /\ idx < Len(range) THEN idx + 1 ELSE idx

\* The conjunction that is inductive: the accumulator sums up the items stepped over.
Inv == TypeOK /\ AccuSumsUp /\ Lookahead

\* Every range is a sequence of items.
LEMMA RangeItems ==
  ASSUME NEW r \in Ranges
  PROVE  r \in Seq(Item) /\ Len(r) \in Nat /\ DOMAIN r = 1..Len(r)
  <1>1. PICK n \in 0..MaxLen : r \in [1..n -> Item]
    BY DEF Ranges
  <1>2. n \in Nat
    BY MaxLenAssumption
  <1> QED BY <1>1, <1>2, SeqDef

LEMMA InitInv == Init => Inv
  <1> SUFFICES ASSUME Init PROVE TypeOK /\ AccuSumsUp /\ Lookahead
    BY DEF Inv
  <1>1. AccuInit(macro) = <<AccuInit(macro)[1], AccuInit(macro)[2]>>
    BY DEF Init, AccuInit, BoolVal, IntVal, ListVal, Macros, ListMacros
  <1>2. /\ macro \in {"all", "exists"} => accu[2] \in BOOLEAN
        /\ macro = "exists_one" => accu[2] = 0
        /\ macro \in ListMacros => accu[2] = <<>>
    BY DEF Init, AccuInit, BoolVal, IntVal, ListVal, Macros, ListMacros
  <1>3. macro = "exists_one" => accu[2] \in 0..idx
    BY <1>2 DEF Init
  <1>4. macro \in ListMacros => accu[2] \in Seq(1..idx)
    BY <1>2, EmptySeq
  <1>5. taken \in 0..Len(range) /\ idx \in 0..taken
    BY RangeItems DEF Init
  <1>6. accu = <<AccuInit(macro)[1], accu[2]>>
    BY <1>1 DEF Init
  <1>7. TypeOK
    BY <1>2, <1>3, <1>4, <1>5, <1>6 DEF Init, TypeOK
  <1>8. Stepped = 0 /\ 1..0 = {} /\ Holding = {}
    BY DEF Init, Stepped, Holding
  <1>9. macro \in {"all", "exists"} =>
          accu = IF macro = "all" THEN BoolVal(TRUE) ELSE BoolVal(FALSE)
    BY DEF Init, AccuInit
  <1>10. macro = "exists_one" => accu[2] = Cardinality(Holding)
    BY <1>2, <1>8, FS_EmptySet
  <1>11. macro \in ListMacros => Promise!Enumerates(accu[2], Holding)
    BY <1>2, <1>8, EmptySeq DEF Promise!Enumerates
  <1>12. AccuSumsUp
    BY <1>8, <1>9, <1>10, <1>11 DEF Init, AccuSumsUp
  <1>13. Lookahead
    BY DEF Init, Lookahead
  <1> QED BY <1>7, <1>12, <1>13

\* The number of items stepped over is all that the summary looks at, besides pc.
LEMMA StepsKeepInv ==
  /\ Inv /\ Open => Inv'
  /\ Inv /\ Exhausted => Inv'
  /\ Inv /\ Finish => Inv'
  <1> SUFFICES ASSUME Inv, Open \/ Exhausted \/ Finish PROVE Inv'
    OBVIOUS
  <1> USE DEF Inv
  <1>1. /\ UNCHANGED <<macro, source, range, taken, idx, accu>>
        /\ Stepped' = Stepped /\ Holding' = Holding
    BY DEF Open, Exhausted, Finish, Return, Stepped, Holding, TypeOK
  <1>2. /\ pc \in {"start", "loop", "result"}
        /\ pc' \in {"loop", "result", "done"}
        /\ pc' # "done" => out' = out /\ source = Iterable
        /\ pc' = "result" => idx = Len(range) /\ taken = idx
        /\ pc' = "loop" => taken = idx
    BY DEF Open, Exhausted, Finish, Return, AccuSumsUp, Lookahead
  <1>3. TypeOK'
    BY <1>1, <1>2 DEF TypeOK
  <1>4. AccuSumsUp'
    <2> SUFFICES ASSUME pc' # "done" PROVE AccuSumsUp'
      BY DEF AccuSumsUp
    <2> QED BY <1>1, <1>2 DEF AccuSumsUp, Settled, Stepped
  <1>5. Lookahead'
    BY <1>1, <1>2, RangeItems DEF Lookahead, TypeOK
  <1> QED BY <1>3, <1>4, <1>5

\* The condition that all and exists put on the loop: the accumulator is undecided.
LEMMA LoopCondMeaning ==
  ASSUME NEW m \in Macros, NEW a,
         m \in {"all", "exists"} => a \in {BoolVal(TRUE), BoolVal(FALSE)}
  PROVE  /\ ~Failed(TryBool(LoopCond(m, a)))
         /\ TryBool(LoopCond(m, a)) = OkTrue <=>
              (m = "all" => a = BoolVal(TRUE)) /\ (m = "exists" => a = BoolVal(FALSE))
  <1>1. LogicalNot(OkTrue) = OkFalse /\ LogicalNot(OkFalse) = OkTrue
    BY DEF LogicalNot, OkTrue, OkFalse, Ok, Failed, IsBool, BoolVal
  <1>2. NotStrictlyFalse(OkTrue) = OkTrue /\ NotStrictlyFalse(OkFalse) = OkFalse
    BY TruthShapes DEF NotStrictlyFalse
  <1>3. BoolVal(TRUE) # BoolVal(FALSE)
    BY DEF BoolVal
  <1>4. CASE m = "all"
    <2>1. LoopCond(m, a) = IF a = BoolVal(TRUE) THEN OkTrue ELSE OkFalse
      BY <1>2, <1>4 DEF LoopCond, OkTrue, OkFalse
    <2> QED BY <2>1, <1>4, TruthShapes
  <1>5. CASE m = "exists"
    <2>1. LoopCond(m, a) = IF a = BoolVal(FALSE) THEN OkTrue ELSE OkFalse
      BY <1>1, <1>2, <1>3, <1>5 DEF LoopCond, OkTrue, OkFalse
    <2> QED BY <2>1, <1>5, TruthShapes
  <1>6. CASE m \notin {"all", "exists"}
    BY <1>6, TruthShapes DEF LoopCond
  <1> QED BY <1>4, <1>5, <1>6

\* The loop condition never fails, and holds exactly while no item has settled the macro.
LEMMA TakeCondition ==
  ASSUME Inv, Take
  PROVE  LET c == TryBool(LoopCond(macro, accu)) IN
         ~Failed(c) /\ (c = OkTrue <=> \A i \in 1..Stepped : ~Settled(i))
  <1> USE DEF Inv
  <1> DEFINE c == TryBool(LoopCond(macro, accu))
             undecided == \A i \in 1..Stepped : ~Settled(i)
  <1>1. pc = "loop" /\ macro \in Macros
    BY DEF Take, TypeOK
  <1>2. macro \in {"all", "exists"} =>
          accu = IF (macro = "all") <=> undecided THEN BoolVal(TRUE) ELSE BoolVal(FALSE)
    BY <1>1 DEF AccuSumsUp
  <1>3. macro \in Macros \ {"all", "exists"} => undecided
    <2>1. \A i \in 1..Stepped : ~Promise!Fails(macro, range[i])
      BY <1>1 DEF AccuSumsUp
    <2> QED BY <2>1, PromiseTerms DEF Settled
  <1>4. ~Failed(c) /\ (c = OkTrue <=> undecided)
    <2>1. BoolVal(TRUE) # BoolVal(FALSE)
      BY DEF BoolVal
    <2>2. macro \in {"all", "exists"} => accu \in {BoolVal(TRUE), BoolVal(FALSE)}
      BY <1>2
    <2>3. ~Failed(c) /\ (c = OkTrue <=> (macro = "all" => accu = BoolVal(TRUE))
                                       /\ (macro = "exists" => accu = BoolVal(FALSE)))
      BY <1>1, <2>2, LoopCondMeaning
    <2>4. CASE macro = "all"
      BY <1>2, <2>1, <2>3, <2>4
    <2>5. CASE macro = "exists"
      BY <1>2, <2>1, <2>3, <2>5
    <2>6. CASE macro \in Macros \ {"all", "exists"}
      BY <1>3, <2>3, <2>6
    <2> QED BY <1>1, <2>4, <2>5, <2>6
  <1> QED BY <1>4

\* Taking the next item, or leaving the loop because the macro is decided.
LEMMA TakeInv == Inv /\ Take => Inv'
  <1> SUFFICES ASSUME Inv, Take PROVE Inv'
    OBVIOUS
  <1> USE DEF Inv
  <1> DEFINE c == TryBool(LoopCond(macro, accu))
             undecided == \A i \in 1..Stepped : ~Settled(i)
  <1>1. /\ pc = "loop" /\ idx < Len(range) /\ UNCHANGED <<macro, source, range, accu>>
        /\ taken = idx /\ taken' = idx + 1
    BY DEF Take, Lookahead
  <1>2. macro \in Macros /\ range \in Ranges /\ idx \in Nat /\ Len(range) \in Nat /\ Stepped = idx
    BY <1>1, RangeItems DEF TypeOK, Stepped
  <1>3. ~Failed(c) /\ (c = OkTrue <=> undecided)
    BY TakeCondition
  <1>4. CASE undecided
    <2>1. pc' = "step" /\ idx' = idx + 1 /\ out' = out
      BY <1>1, <1>3, <1>4 DEF Take
    <2>2. Stepped' = Stepped /\ Holding' = Holding
      BY <1>1, <1>2, <2>1 DEF Stepped, Holding
    <2>3. TypeOK'
      <3>1. taken' \in 0..Len(range') /\ idx' \in 0..taken' /\ idx' > 0
        BY <1>1, <1>2, <2>1
      <3>2. macro' = "exists_one" => accu'[2] \in 0..idx'
        BY <1>1, <1>2, <2>1 DEF TypeOK
      <3>3. macro' \in ListMacros => accu'[2] \in Seq(1..idx')
        <4>1. 1..idx \subseteq 1..(idx + 1) BY <1>2
        <4> QED BY <1>1, <2>1, <4>1, SeqMonotonic DEF TypeOK
      <3> QED BY <1>1, <2>1, <3>1, <3>2, <3>3 DEF TypeOK
    <2>4. AccuSumsUp'
      BY <1>1, <1>4, <2>1, <2>2 DEF AccuSumsUp, Settled
    <2>5. Lookahead'
      BY <1>1, <2>1 DEF Lookahead
    <2> QED BY <2>3, <2>4, <2>5
  <1>5. CASE ~undecided
    <2>1. pc' = "result" /\ idx' = idx /\ out' = out
      BY <1>3, <1>5 DEF Take
    <2>2. Stepped' = Stepped /\ Holding' = Holding
      BY <1>1, <1>2, <2>1 DEF Stepped, Holding
    <2>3. TypeOK'
      <3>1. taken' \in 0..Len(range') /\ idx' \in 0..taken'
        BY <1>1, <1>2, <2>1
      <3> QED BY <1>1, <2>1, <3>1 DEF TypeOK
    <2>4. AccuSumsUp'
      BY <1>1, <1>5, <2>1, <2>2 DEF AccuSumsUp, Settled
    <2>5. Lookahead'
      BY <1>1, <2>1 DEF Lookahead
    <2> QED BY <2>3, <2>4, <2>5
  <1> QED BY <1>4, <1>5

\* Stepping over an item: it fails and ends the loop, or it joins the summary.
LEMMA StepInv == Inv /\ Step => Inv'
  <1> SUFFICES ASSUME Inv, Step PROVE Inv'
    OBVIOUS
  <1> USE DEF Inv
  <1> DEFINE item  == range[idx]
             r     == LoopStep(macro, accu, item, idx)
             holds == macro = "map" \/ item.pred = OkTrue
  <1>1. pc = "step" /\ taken = idx /\ UNCHANGED <<macro, source, range, taken, idx>>
    BY DEF Step, Lookahead
  <1>2. /\ macro \in Macros /\ range \in Seq(Item) /\ Len(range) \in Nat
        /\ idx \in 1..Len(range) /\ item \in Item
        /\ Stepped = idx - 1 /\ Stepped \in Nat
    BY <1>1, RangeItems DEF TypeOK, Stepped
  <1>3. /\ macro = "all" => accu = BoolVal(TRUE)
        /\ macro = "exists" => accu = BoolVal(FALSE)
        /\ \A i \in 1..Stepped : ~Settled(i)
    BY <1>1 DEF AccuSumsUp
  <1>4. /\ Failed(r) <=> Promise!Fails(macro, item)
        /\ ~Failed(r) =>
             /\ macro \in {"all", "exists"} =>
                  r[2] = IF holds THEN BoolVal(TRUE) ELSE BoolVal(FALSE)
             /\ macro = "exists_one" => r[2] = IF holds THEN IntVal(accu[2] + 1) ELSE accu
             /\ macro \in ListMacros => r[2] = IF holds THEN ListVal(Append(accu[2], idx)) ELSE accu
    BY <1>2, <1>3, StepOutcome
  <1>5. CASE Failed(r)
    <2>1. pc' = "done" /\ accu' = accu
      BY <1>5 DEF Step, Return
    <2> QED BY <1>1, <2>1 DEF TypeOK, AccuSumsUp, Lookahead
  <1>6. CASE ~Failed(r)
    <2>1. pc' = "loop" /\ accu' = r[2] /\ out' = out
      BY <1>6 DEF Step
    <2>2. Stepped' = idx /\ 1..idx = 1..Stepped \cup {idx}
      BY <1>1, <1>2, <2>1 DEF Stepped
    <2>3. Holding' = IF holds THEN Holding \cup {idx} ELSE Holding
      BY <1>1, <2>2 DEF Holding
    <2>4. Holding \in SUBSET (1..Stepped) /\ idx = Stepped + 1
      BY <1>2 DEF Holding
    <2>5. IsFiniteSet(Holding) /\ idx \notin Holding
      BY <1>2, <2>4, PositionsAreFinite
    <2>6. \A i \in 1..idx : Settled(i)' <=> Settled(i)
      BY <1>1 DEF Settled
    <2>7. Settled(idx) <=> Promise!Decides(macro, item)
      BY <1>4, <1>6, PromiseTerms DEF Settled
    <2>8. macro \in {"all", "exists"} =>
            accu' = IF (macro = "all") <=> ~Settled(idx) THEN BoolVal(TRUE) ELSE BoolVal(FALSE)
      <3>1. CASE macro = "all"
        <4>1. holds <=> ~Settled(idx)
          <5>1. item.pred \in Predicate
            BY <1>2 DEF Item
          <5>2. item.pred = OkTrue \/ item.pred = OkFalse
            BY <1>4, <1>6, <3>1, <5>1, PredicateCases, PromiseTerms
          <5> QED BY <2>7, <3>1, <5>2, TruthShapes, PromiseTerms
        <4> QED BY <1>4, <1>6, <2>1, <4>1, <3>1
      <3>2. CASE macro = "exists"
        <4>1. holds <=> Settled(idx)
          BY <2>7, <3>2, PromiseTerms
        <4> QED BY <1>4, <1>6, <2>1, <4>1, <3>2
      <3> QED BY <3>1, <3>2
    <2>9. macro = "exists_one" =>
            /\ accu' = <<"int", accu'[2]>>
            /\ accu'[2] \in 0..idx
            /\ accu'[2] = Cardinality(Holding')
      <3> SUFFICES ASSUME macro = "exists_one" PROVE
            /\ accu' = <<"int", accu'[2]>>
            /\ accu'[2] \in 0..idx
            /\ accu'[2] = Cardinality(Holding')
        OBVIOUS
      <3>1. accu[2] = Cardinality(Holding) /\ accu[2] \in 0..idx /\ accu = <<"int", accu[2]>>
        BY <1>1 DEF AccuSumsUp, TypeOK, AccuInit, IntVal
      <3>2. Cardinality(Holding) <= Stepped
        BY <1>2, <2>4, PositionsAreFinite
      <3>3. Cardinality(Holding \cup {idx}) = Cardinality(Holding) + 1
        BY <2>5, FS_AddElement
      <3>4. accu' = IF holds THEN IntVal(accu[2] + 1) ELSE accu
        BY <1>4, <1>6, <2>1
      <3> QED BY <1>2, <2>3, <3>1, <3>2, <3>3, <3>4 DEF IntVal
    <2>10. macro \in ListMacros =>
            /\ accu' = <<"list", accu'[2]>>
            /\ accu'[2] \in Seq(1..idx)
            /\ Promise!Enumerates(accu'[2], Holding')
      <3> SUFFICES ASSUME macro \in ListMacros PROVE
            /\ accu' = <<"list", accu'[2]>>
            /\ accu'[2] \in Seq(1..idx)
            /\ Promise!Enumerates(accu'[2], Holding')
        OBVIOUS
      <3>1. /\ accu = <<"list", accu[2]>>
            /\ accu[2] \in Seq(1..idx)
            /\ Promise!Enumerates(accu[2], Holding)
        BY <1>1 DEF AccuSumsUp, TypeOK, AccuInit, ListVal, ListMacros
      <3>2. accu[2] \in Seq(1..Stepped)
        <4>1. \A i \in 1..Len(accu[2]) : accu[2][i] \in 1..Stepped
          BY <2>4, <3>1 DEF Promise!Enumerates
        <4>2. Len(accu[2]) \in Nat /\ accu[2] \in [1..Len(accu[2]) -> 1..idx]
          BY <3>1, LenProperties
        <4>3. accu[2] \in [1..Len(accu[2]) -> 1..Stepped]
          BY <4>1, <4>2
        <4> QED BY <4>2, <4>3, SeqDef
      <3>3. accu' = IF holds THEN <<"list", Append(accu[2], idx)>> ELSE accu
        BY <1>4, <1>6, <2>1 DEF ListVal
      <3>4. /\ Append(accu[2], Stepped + 1) \in Seq(1..(Stepped + 1))
            /\ Promise!Enumerates(Append(accu[2], Stepped + 1), Holding \cup {Stepped + 1})
        BY <1>2, <2>4, <3>1, <3>2, PushEnumerates
      <3> QED BY <2>3, <2>4, <3>1, <3>3, <3>4
    <2>11. TypeOK'
      <3>1. macro \in {"all", "exists"} => accu' = <<"bool", accu'[2]>> /\ accu'[2] \in BOOLEAN
        <4>1. macro \in {"all", "exists"} => accu' = BoolVal(TRUE) \/ accu' = BoolVal(FALSE)
          BY <2>8
        <4>2. /\ BoolVal(TRUE) = <<"bool", TRUE>> /\ BoolVal(TRUE)[2] \in BOOLEAN
              /\ BoolVal(FALSE) = <<"bool", FALSE>> /\ BoolVal(FALSE)[2] \in BOOLEAN
          BY DEF BoolVal
        <4>3. /\ BoolVal(TRUE) = <<"bool", BoolVal(TRUE)[2]>>
              /\ BoolVal(FALSE) = <<"bool", BoolVal(FALSE)[2]>>
          BY DEF BoolVal
        <4> QED BY <4>1, <4>2, <4>3
      <3>2. accu' = <<AccuInit(macro)[1], accu'[2]>>
        BY <1>2, <2>9, <2>10, <3>1 DEF AccuInit, BoolVal, IntVal, ListVal, Macros, ListMacros
      <3> QED BY <1>1, <2>1, <2>9, <2>10, <3>1, <3>2 DEF TypeOK
    <2>12. AccuSumsUp'
      <3>1. \A i \in 1..idx : ~Promise!Fails(macro, range[i])
        BY <1>1, <1>4, <1>6, <2>2 DEF AccuSumsUp
      <3>2. \A i \in 1..idx : Settled(i) => i = idx
        BY <1>3, <2>2
      <3>3. macro \in {"all", "exists"} =>
              accu' = IF (macro = "all") <=> \A i \in 1..idx : ~Settled(i)
                      THEN BoolVal(TRUE) ELSE BoolVal(FALSE)
        <4>1. (\A i \in 1..idx : ~Settled(i)) <=> ~Settled(idx)
          BY <1>2, <3>2
        <4> QED BY <2>8, <4>1
      <3>4. out = NoResult /\ source = Iterable
        BY <1>1 DEF AccuSumsUp
      <3> QED BY <1>1, <2>1, <2>2, <2>6, <2>9, <2>10, <3>1, <3>2, <3>3, <3>4 DEF AccuSumsUp
    <2>13. Lookahead'
      BY <1>1, <2>1 DEF Lookahead
    <2> QED BY <2>11, <2>12, <2>13
  <1> QED BY <1>5, <1>6

\* A stuttering step changes nothing the invariant looks at.
LEMMA StutterInv == Inv /\ UNCHANGED vars => Inv'
  <1> SUFFICES ASSUME Inv, UNCHANGED vars PROVE Inv'
    OBVIOUS
  <1>1. TypeOK'
    BY DEF Inv, TypeOK, vars
  <1>2. AccuSumsUp'
    BY DEF Inv, AccuSumsUp, Stepped, Holding, Settled, vars
  <1>3. Lookahead'
    BY DEF Inv, Lookahead, vars
  <1> QED BY <1>1, <1>2, <1>3 DEF Inv

\* The inductive invariant holds of every reachable state.
THEOREM Invariance == Spec => []Inv
  <1>1. Inv /\ [Next]_vars => Inv'
    BY StepsKeepInv, TakeInv, StepInv, StutterInv DEF Next
  <1> QED BY InitInv, <1>1, PTL DEF Spec

\* Type correctness of the loop: the accumulator stays a bool, a count no larger than the
\* items taken, or a list of positions already taken.
THEOREM TypeCorrect == Spec => []TypeOK
  <1>1. Inv => TypeOK
    BY DEF Inv
  <1> QED BY Invariance, <1>1, PTL

\* Whatever the range, the accumulator amounts to the items stepped over.
THEOREM SummaryCorrect == Spec => []AccuSumsUp
  <1>1. Inv => AccuSumsUp
    BY DEF Inv
  <1> QED BY Invariance, <1>1, PTL

-----------------------------------------------------------------------------
(* The loop stops in time. *)

\* Only the item looked at last can have settled the macro.
LastMaySettle == pc # "done" => \A i \in 1..(idx - 1) : ~Settled(i)

LEMMA SettledIsLast ==
  ASSUME Inv, pc # "done"
  PROVE  \A i \in 1..(idx - 1) : ~Settled(i)
  <1>1. idx \in Nat
    BY RangeItems DEF Inv, TypeOK
  <1>2. CASE pc = "step"
    BY <1>2 DEF Inv, AccuSumsUp, Stepped
  <1>3. CASE pc # "step"
    <2>1. Stepped = idx /\ \A i \in 1..Stepped : Settled(i) => i = Stepped
      BY <1>3 DEF Inv, AccuSumsUp, Stepped
    <2> QED BY <1>1, <2>1
  <1> QED BY <1>2, <1>3

\* Leaving the loop: on an item that fails, on one that decided it, or at the end.
LEMMA LeavesSettled ==
  ASSUME Inv, Next, pc' = "done", source = Iterable
  PROVE  /\ idx < Len(range) => idx > 0 /\ Settled(idx)
         /\ taken = IF idx < Len(range) /\ ~Promise!Fails(macro, range[idx]) THEN idx + 1 ELSE idx
  <1>1. idx \in Nat /\ Len(range) \in Nat /\ macro \in Macros
    BY RangeItems DEF Inv, TypeOK
  <1>2. CASE Open
    BY <1>2, ResultShapes DEF Open, Iterable
  <1>3. CASE Take
    BY <1>3, TakeCondition DEF Take
  <1>4. CASE Exhausted
    BY <1>4 DEF Exhausted
  <1>5. CASE Step
    <2> DEFINE item == range[idx]
               r    == LoopStep(macro, accu, item, idx)
    <2>1. pc = "step" /\ Failed(r)
      BY <1>5 DEF Step
    <2>2. taken = idx /\ idx > 0 /\ item \in Item
      BY <2>1, RangeItems DEF Inv, Lookahead, TypeOK
    <2>3. /\ macro = "all" => accu = BoolVal(TRUE)
          /\ macro = "exists" => accu = BoolVal(FALSE)
      BY <2>1 DEF Inv, AccuSumsUp
    <2>4. Promise!Fails(macro, item)
      <3> HIDE DEF item
      <3> QED BY <1>1, <2>1, <2>2, <2>3, StepOutcome
    <2> QED BY <2>2, <2>4, PromiseTerms DEF Settled
  <1>6. CASE Finish
    <2>1. pc = "result" /\ Stepped = idx
      BY <1>6 DEF Finish, Stepped
    <2>2. /\ taken = IF idx < Len(range) THEN idx + 1 ELSE idx
          /\ \A i \in 1..idx : ~Promise!Fails(macro, range[i])
          /\ \A i \in 1..idx : Settled(i) => i = idx
          /\ idx = Len(range) \/ \E i \in 1..idx : Settled(i)
      BY <2>1 DEF Inv, Lookahead, AccuSumsUp
    <2>3. CASE idx < Len(range)
      <3>1. idx \in 1..idx /\ Settled(idx)
        BY <1>1, <2>2, <2>3
      <3> QED BY <1>1, <2>2, <2>3, <3>1
    <2> QED BY <2>2, <2>3
  <1> QED BY <1>2, <1>3, <1>4, <1>5, <1>6 DEF Next

\* For every range the predicate is evaluated on the items up to the first that settles the
\* macro and on no other; behind a deciding item one more is taken from the iterator, and
\* lost.
THEOREM StopsEarly == Spec => []StopsWhenSettled
  <1>1. Init => StopsWhenSettled
    BY DEF Init, StopsWhenSettled
  <1>2. Inv => LastMaySettle
    BY SettledIsLast DEF LastMaySettle
  <1>3. Inv /\ LastMaySettle' /\ StopsWhenSettled /\ [Next]_vars => StopsWhenSettled'
    <2> SUFFICES ASSUME Inv, LastMaySettle', StopsWhenSettled, [Next]_vars PROVE StopsWhenSettled'
      OBVIOUS
    <2>1. CASE Next /\ pc' # "done"
      BY <2>1 DEF StopsWhenSettled, LastMaySettle
    <2>2. CASE Next /\ pc' = "done"
      <3>1. UNCHANGED <<macro, source, range, taken, idx>> /\ pc # "done"
        <4>1. CASE Take
          BY <2>2, <4>1, TakeCondition DEF Take
        <4> QED BY <2>2, <4>1 DEF Next, Open, Exhausted, Step, Finish
      <3>2. \A i \in 1..(idx - 1) : ~Settled(i)
        BY <3>1, SettledIsLast
      <3>3. source = Iterable =>
              /\ idx < Len(range) => idx > 0 /\ Settled(idx)
              /\ taken = IF idx < Len(range) /\ ~Promise!Fails(macro, range[idx])
                         THEN idx + 1 ELSE idx
        BY <2>2, LeavesSettled
      <3> QED BY <3>1, <3>2, <3>3 DEF StopsWhenSettled, Settled
    <2>3. CASE UNCHANGED vars
      BY <2>3 DEF vars, StopsWhenSettled, Settled
    <2> QED BY <2>1, <2>2, <2>3
  <1> QED BY Invariance, <1>1, <1>2, <1>3, PTL DEF Spec

-----------------------------------------------------------------------------
(* The loop implements the promise. *)

\* The two modules enumerate the same inputs.
LEMMA SameInputs ==
  /\ Promise!Macros = Macros
  /\ Promise!Failures = Failures
  /\ Promise!Item = Item
  /\ Promise!NoAnswer = NoResult
  BY SameLogic DEF Promise!Macros, Macros, ListMacros, Promise!Failures, Failures, Promise!Item,
                   Item, Promise!Predicate, Predicate, Transform, ItemVal, Promise!NoAnswer, NoResult

\* A result is never mistaken for the lack of one.
LEMMA ResultsAreAnswers ==
  /\ \A v : Ok(v) # NoResult
  /\ \A e : Err(e) # NoResult
  BY DEF Ok, Err, NoResult

\* A failed result is an error of the evaluation or NoSuchOverload.
LEMMA FailedIsAnswer ==
  ASSUME NEW m, NEW item \in Item, Promise!Fails(m, item)
  PROVE  /\ Failed(Promise!FailureOf(m, item))
         /\ Promise!FailureOf(m, item) # NoResult
  <1>1. ASSUME NEW t \in Failures \cup {Err(NoSuchOverload)} PROVE Failed(t) /\ t # NoResult
    BY ResultShapes, ResultsAreAnswers DEF Failures
  <1>2. Failed(TryBool(item.pred)) => TryBool(item.pred) \in Failures \cup {Err(NoSuchOverload)}
    BY TruthShapes, ResultShapes DEF TryBool, Item, Predicate
  <1>3. Failed(item.func) => item.func \in Failures
    BY ResultShapes DEF Item, Transform
  <1> QED BY <1>1, <1>2, <1>3, PromiseTerms

\* The failure a step returns is the promised answer.
LEMMA StepKeepsPromise ==
  ASSUME Inv, Step, pc' = "done"
  PROVE  Promise!Promised(macro, source, range, out') /\ out' # NoResult
  <1> DEFINE item == range[idx]
             r    == LoopStep(macro, accu, item, idx)
  <1>1. pc = "step"
    BY DEF Step
  <1>2. /\ macro \in Macros /\ DOMAIN range = 1..Len(range) /\ Len(range) \in Nat
        /\ idx \in 1..Len(range) /\ item \in Item /\ Stepped = idx - 1
    BY <1>1, RangeItems DEF Inv, TypeOK, Stepped
  <1>3. /\ macro = "all" => accu = BoolVal(TRUE)
        /\ macro = "exists" => accu = BoolVal(FALSE)
        /\ \A i \in 1..(idx - 1) : ~Settled(i)
        /\ source = Iterable
    BY <1>1, <1>2 DEF Inv, AccuSumsUp
  <1>4. Failed(r) /\ out' = r
    BY DEF Step, Return
  <1>5. Promise!Fails(macro, item) /\ out' = Promise!FailureOf(macro, item)
    <2>1. (Failed(r) <=> Promise!Fails(macro, item)) /\ (Failed(r) => r = Promise!FailureOf(macro, item))
      <3> HIDE DEF item
      <3> QED BY <1>2, <1>3, StepOutcome
    <2> QED BY <1>4, <2>1
  <1>6. ~Promise!Failed(source) /\ source = Promise!Ok(<<"list">>)
    BY <1>3, SameLogic, ResultShapes DEF Iterable
  <1>7. Promise!Settles(macro, range[idx])
    BY <1>5, PromiseTerms
  <1>8. \A j \in DOMAIN range : j < idx => ~Promise!Settles(macro, range[j])
    BY <1>2, <1>3 DEF Settled
  <1>9. Promise!Promised(macro, source, range, out')
    BY <1>2, <1>5, <1>6, <1>7, <1>8 DEF Promise!Promised
  <1> QED BY <1>2, <1>5, <1>9, FailedIsAnswer

\* So is the value read from the accumulator when the loop is left.
LEMMA FinishKeepsPromise ==
  ASSUME Inv, Finish
  PROVE  Promise!Promised(macro, source, range, out') /\ out' # NoResult
  <1>1. pc = "result" /\ out' = Result(macro, accu)
    BY DEF Finish, Return
  <1>2. /\ macro \in Macros /\ DOMAIN range = 1..Len(range) /\ Len(range) \in Nat
        /\ idx \in 0..Len(range) /\ Stepped = idx
    BY <1>1, RangeItems DEF Inv, TypeOK, Stepped
  <1>3. /\ source = Iterable
        /\ \A i \in 1..idx : ~Promise!Fails(macro, range[i])
        /\ \A i \in 1..idx : Settled(i) => i = idx
        /\ macro \in {"all", "exists"} =>
             accu = IF (macro = "all") <=> \A i \in 1..idx : ~Settled(i)
                    THEN BoolVal(TRUE) ELSE BoolVal(FALSE)
        /\ macro = "exists_one" => accu[2] = Cardinality(Holding)
        /\ macro \in ListMacros => Promise!Enumerates(accu[2], Holding)
        /\ idx = Len(range) \/ \E i \in 1..idx : Settled(i)
    BY <1>1, <1>2 DEF Inv, AccuSumsUp
  <1>4. ~Promise!Failed(source) /\ source = Promise!Ok(<<"list">>)
    BY <1>3, SameLogic, ResultShapes DEF Iterable
  <1>5. out' # NoResult
    BY <1>1, ResultsAreAnswers DEF Result
  <1>6. CASE \E i \in 1..idx : Settled(i)
    <2>1. Settled(idx) /\ idx \in 1..Len(range)
      <3>1. PICK i \in 1..idx : Settled(i)
        BY <1>6
      <3>2. i = idx
        BY <1>3, <3>1
      <3> QED BY <1>2, <3>1, <3>2
    <2>2. Promise!Decides(macro, range[idx]) /\ ~Promise!Fails(macro, range[idx])
      BY <1>2, <1>3, <2>1, PromiseTerms DEF Settled
    <2>3. macro \in {"all", "exists"}
      BY <2>2, PromiseTerms
    <2>4. accu = IF macro = "exists" THEN BoolVal(TRUE) ELSE BoolVal(FALSE)
      BY <1>2, <1>3, <2>1, <2>3
    <2>5. out' = IF macro = "exists" THEN OkTrue ELSE OkFalse
      BY <1>1, <2>3, <2>4 DEF Result, OkTrue, OkFalse
    <2>6. \A j \in DOMAIN range : j < idx => ~Promise!Settles(macro, range[j])
      <3>1. \A j \in 1..Len(range) : j < idx => j \in 1..idx /\ j # idx
        BY <1>2
      <3>2. \A j \in 1..Len(range) : j < idx => ~Settled(j)
        BY <1>3, <3>1
      <3> QED BY <1>2, <3>2 DEF Settled
    <2>7. Promise!Promised(macro, source, range, out')
      BY <1>2, <1>4, <2>1, <2>2, <2>5, <2>6, SameLogic DEF Promise!Promised, Settled
    <2> QED BY <1>5, <2>7
  <1>7. CASE ~ \E i \in 1..idx : Settled(i)
    <2>1. idx = Len(range) /\ \A i \in DOMAIN range : ~Promise!Settles(macro, range[i])
      BY <1>2, <1>3, <1>7 DEF Settled
    <2>2. Holding = Promise!Kept(macro, range)
      BY <1>2, <2>1, SameLogic DEF Holding, Promise!Kept
    <2>3. Promise!OpenAnswer(macro, range, out')
      <3>1. CASE macro = "all"
        BY <1>1, <1>3, <1>7, <3>1, SameLogic DEF Result, Promise!OpenAnswer, OkTrue
      <3>2. CASE macro = "exists"
        BY <1>1, <1>3, <1>7, <3>2, SameLogic DEF Result, Promise!OpenAnswer, OkFalse
      <3>3. CASE macro = "exists_one"
        <4> DEFINE kept == Promise!Kept(macro, range)
        <4>1. out' = Ok(BoolVal(accu[2] = 1)) /\ accu[2] = Cardinality(kept)
          BY <1>1, <1>3, <2>2, <3>3 DEF Result
        <4>2. kept \in SUBSET (1..Len(range))
          BY <1>2 DEF Promise!Kept
        <4>3. IsFiniteSet(kept)
          BY <1>2, <4>2, PositionsAreFinite
        <4>4. Cardinality(kept) = 1 <=> \E i \in DOMAIN range : kept = {i}
          BY <1>2, <4>2, <4>3, FS_Singleton
        <4>5. out' = IF \E i \in DOMAIN range : kept = {i} THEN OkTrue ELSE OkFalse
          <5>1. CASE accu[2] = 1
            BY <4>1, <4>4, <5>1 DEF OkTrue
          <5>2. CASE accu[2] # 1
            <6>1. (accu[2] = 1) = FALSE BY <5>2
            <6>2. out' = Ok(BoolVal(FALSE)) BY <4>1, <6>1, Zenon
            <6> QED BY <4>1, <4>4, <5>2, <6>2 DEF OkFalse
          <5> QED BY <5>1, <5>2
        <4> QED BY <3>3, <4>5, SameLogic DEF Promise!OpenAnswer
      <3>4. CASE macro \in ListMacros
        <4>1. out' = Ok(accu) /\ accu = <<"list", accu[2]>> /\ accu[2] \in Seq(1..idx)
          BY <1>1, <3>4 DEF Result, Inv, TypeOK, AccuInit, ListVal, ListMacros
        <4>2. out'[2] = accu /\ accu[2] \in Seq(Nat)
          BY <4>1, ResultShapes, SeqMonotonic, 1..idx \subseteq Nat
        <4>3. Promise!Enumerates(accu[2], Promise!Kept(macro, range))
          BY <1>3, <2>2, <3>4
        <4> QED BY <3>4, <4>1, <4>2, <4>3, SameLogic DEF Promise!OpenAnswer, ListMacros
      <3> QED BY <1>2, <3>1, <3>2, <3>3, <3>4 DEF Macros
    <2>4. Promise!Promised(macro, source, range, out')
      BY <1>4, <2>1, <2>3 DEF Promise!Promised
    <2> QED BY <1>5, <2>4
  <1> QED BY <1>6, <1>7

\* Opening a range that is no list, or that fails, answers at once.
LEMMA OpenKeepsPromise ==
  ASSUME Inv, Open, pc' = "done"
  PROVE  Promise!Promised(macro, source, range, out') /\ out' # NoResult
  <1>1. Failed(source) \/ source # Iterable
    BY DEF Open
  <1>2. CASE Failed(source)
    <2>1. out' = source
      BY <1>2 DEF Open, Return
    <2>2. source \in Failures
      BY <1>2, ResultShapes DEF Inv, TypeOK, Iterable, Scalar
    <2> QED BY <1>2, <2>1, <2>2, SameLogic, ResultsAreAnswers DEF Promise!Promised, Failures
  <1>3. CASE ~Failed(source)
    <2>1. out' = Err(NoSuchOverload) /\ source # Ok(<<"list">>)
      BY <1>1, <1>3 DEF Open, Return, Iterable
    <2> QED BY <1>3, <2>1, SameLogic, ResultsAreAnswers DEF Promise!Promised
  <1> QED BY <1>2, <1>3

\* Each step either answers, and then as promised, or leaves the answer open.
LEMMA StepAnswersOrNot ==
  ASSUME Inv, Next
  PROVE  /\ UNCHANGED <<macro, source, range>>
         /\ out = NoResult
         /\ \/ out' = out /\ pc' # "done"
            \/ Promise!Promised(macro, source, range, out') /\ out' # NoResult /\ pc' = "done"
  <1>1. UNCHANGED <<macro, source, range>>
    BY DEF Next, Open, Take, Exhausted, Step, Finish
  <1>2. out = NoResult
    BY DEF Inv, AccuSumsUp, Next, Open, Take, Exhausted, Step, Finish
  <1>3. CASE Open
    BY <1>1, <1>2, <1>3, OpenKeepsPromise DEF Open, Return
  <1>4. CASE Take
    <2>1. ~Failed(TryBool(LoopCond(macro, accu)))
      BY <1>4, TakeCondition
    <2> QED BY <1>1, <1>2, <1>4, <2>1 DEF Take
  <1>5. CASE Exhausted
    BY <1>1, <1>2, <1>5 DEF Exhausted
  <1>6. CASE Step
    BY <1>1, <1>2, <1>6, StepKeepsPromise DEF Step, Return
  <1>7. CASE Finish
    BY <1>1, <1>2, <1>7, FinishKeepsPromise DEF Finish, Return
  <1> QED BY <1>3, <1>4, <1>5, <1>6, <1>7 DEF Next

\* The comprehension loop implements the promise of its macro: the answer it comes to is
\* the one the items settle, read from the left, and it is given once.
THEOREM Implements == Spec => ImplementsPromise
  <1>1. Init => Promise!Init
    BY SameInputs, SameLogic, RangeItems DEF Init, Promise!Init, Iterable, Scalar
  <1>2. Inv /\ [Next]_vars => [Promise!Answer]_(Promise!vars)
    <2> SUFFICES ASSUME Inv, [Next]_vars PROVE [Promise!Answer]_(Promise!vars)
      OBVIOUS
    <2>1. CASE Next
      BY <2>1, StepAnswersOrNot, SameInputs DEF Promise!Answer, Promise!vars
    <2>2. CASE UNCHANGED vars
      BY <2>2 DEF vars, Promise!vars
    <2> QED BY <2>1, <2>2
  <1> QED BY Invariance, <1>1, <1>2, PTL DEF Spec, ImplementsPromise, Promise!Spec

-----------------------------------------------------------------------------
(* The order of the items. *)

\* An increasing enumeration of a set is as long as the set is large.
LEMMA EnumerationLength ==
  ASSUME NEW s \in Seq(Nat), NEW S, IsFiniteSet(S), Promise!Enumerates(s, S)
  PROVE  Len(s) = Cardinality(S)
  <1>1. DOMAIN s = 1..Len(s) /\ Len(s) \in Nat /\ s \in [1..Len(s) -> S]
    BY LenProperties DEF Promise!Enumerates
  <1>2. s \in Surjection(1..Len(s), S)
    BY <1>1 DEF Promise!Enumerates, Surjection
  <1>3. ASSUME NEW i \in 1..Len(s), NEW j \in 1..Len(s), s[i] = s[j] PROVE i = j
    <2>1. s[i] \in Nat /\ s[j] \in Nat
      BY <1>1, ElementOfSeq
    <2> QED BY <1>1, <1>3, <2>1 DEF Promise!Enumerates
  <1>4. s \in Injection(1..Len(s), S)
    BY <1>1, <1>3 DEF Injection, IsInjective
  <1>5. ExistsBijection(1..Len(s), S)
    BY <1>2, <1>4 DEF ExistsBijection, Bijection
  <1>6. IsFiniteSet(1..Len(s)) /\ Cardinality(1..Len(s)) = Len(s)
    BY <1>1, FS_Interval
  <1> QED BY <1>5, <1>6, FS_Bijection

\* A finished comprehension has given the promised answer.
Answered == pc = "done" => Promise!Promised(macro, source, range, out)

\* With the items i and 1 in each other's place, a settling item i comes first and its
\* verdict is the answer.
LEMMA MovedToFront ==
  ASSUME TypeOK, source = Iterable, NEW i \in DOMAIN range, Settled(i)
  PROVE  Promise!Promised(macro, source, Swapped(1, i), Verdict(range[i]))
  <1> DEFINE items == Swapped(1, i)
  <1>1. range \in Seq(Item) /\ DOMAIN range = 1..Len(range) /\ Len(range) \in Nat
    BY RangeItems DEF TypeOK
  <1>2. DOMAIN items = 1..Len(range) /\ 1 \in DOMAIN items /\ items[1] = range[i]
    BY <1>1 DEF Swapped
  <1>3. \A j \in DOMAIN items : ~(j < 1)
    BY <1>2
  <1>4. ~Promise!Failed(source) /\ source = Promise!Ok(<<"list">>)
    BY SameLogic, ResultShapes DEF Iterable
  <1>5. /\ Promise!Settles(macro, items[1])
        /\ Verdict(range[i]) = IF Promise!Fails(macro, items[1]) THEN Promise!FailureOf(macro, items[1])
                               ELSE IF macro = "exists" THEN Promise!OkTrue ELSE Promise!OkFalse
    BY <1>2, SameLogic DEF Settled, Verdict
  <1> HIDE DEF items
  <1>6. Promise!Promised(macro, source, items, Verdict(range[i]))
    BY <1>2, <1>3, <1>4, <1>5 DEF Promise!Promised
  <1> QED BY <1>6 DEF items

\* When no item settles the macro, the answer is a function of how many items the predicate
\* holds for.
LEMMA OpenAnswerCounts ==
  ASSUME TypeOK, Promise!OpenAnswer(macro, range, out)
  PROVE  LET holds == Cardinality({i \in DOMAIN range : range[i].pred = OkTrue})
             n     == Len(range)
         IN /\ macro = "all" => out = OkTrue
            /\ macro = "exists" => out = OkFalse
            /\ macro = "exists_one" => out = IF holds = 1 THEN OkTrue ELSE OkFalse
            /\ macro \in ListMacros => Len(out[2][2]) = IF macro = "map" THEN n ELSE holds
  <1> DEFINE H     == {i \in DOMAIN range : range[i].pred = OkTrue}
             holds == Cardinality(H)
             n     == Len(range)
  <1>1. DOMAIN range = 1..n /\ n \in Nat
    <2>1. range \in Ranges
      BY DEF TypeOK
    <2> QED BY <2>1, RangeItems
  <1>2. H \in SUBSET (1..n) /\ IsFiniteSet(H) /\ IsFiniteSet(1..n) /\ Cardinality(1..n) = n
    <2>1. IsFiniteSet(1..n) /\ Cardinality(1..n) = n
      <3>1. n \in Nat
        BY <1>1
      <3> HIDE DEF n
      <3> QED BY <3>1, FS_Interval
    <2>2. H \in SUBSET (1..n)
      BY <1>1
    <2>3. IsFiniteSet(H)
      BY <2>1, <2>2, FS_Subset
    <2> QED BY <2>1, <2>2, <2>3
  <1>3. (macro = "all" => out = OkTrue) /\ (macro = "exists" => out = OkFalse)
    BY SameLogic DEF Promise!OpenAnswer
  <1>4. Promise!Kept(macro, range) = IF macro = "map" THEN 1..n ELSE H
    BY <1>1, SameLogic DEF Promise!Kept
  <1>5. macro = "exists_one" => out = IF holds = 1 THEN OkTrue ELSE OkFalse
    <2>1. holds = 1 <=> \E i \in DOMAIN range : H = {i}
      BY <1>1, <1>2, FS_Singleton
    <2> HIDE DEF H
    <2> QED BY <1>4, <2>1, SameLogic DEF Promise!OpenAnswer
  <1>6. ASSUME macro \in ListMacros PROVE Len(out[2][2]) = IF macro = "map" THEN n ELSE holds
    <2>1. out[2][2] \in Seq(Nat) /\ Promise!Enumerates(out[2][2], Promise!Kept(macro, range))
      BY <1>6 DEF Promise!OpenAnswer, ListMacros
    <2>2. IsFiniteSet(Promise!Kept(macro, range))
      BY <1>2, <1>4
    <2>3. Len(out[2][2]) = Cardinality(Promise!Kept(macro, range))
      BY <2>1, <2>2, EnumerationLength
    <2> QED BY <1>2, <1>4, <2>3
  <1> QED BY <1>3, <1>5, <1>6

\* The promise leaves to the order no more than the choice among the verdicts.
LEMMA PromisePicksVerdict ==
  ASSUME TypeOK, Answered
  PROVE  OrderPicksVerdict
  <1> SUFFICES ASSUME pc = "done", source = Iterable PROVE OrderPicksVerdict
    BY DEF OrderPicksVerdict
  <1>1. \/ /\ \A i \in DOMAIN range : ~Settled(i)
           /\ Promise!OpenAnswer(macro, range, out)
        \/ \E i \in DOMAIN range : Settled(i) /\ out = Verdict(range[i])
    <2>1. ~Promise!Failed(source) /\ source = Promise!Ok(<<"list">>)
      BY SameLogic, ResultShapes DEF Iterable
    <2> QED BY <2>1, SameLogic DEF Answered, Promise!Promised, Settled, Verdict
  <1>2. CASE \E i \in DOMAIN range : Settled(i)
    <2>1. Verdicts # {} /\ out \in Verdicts
      BY <1>1, <1>2 DEF Verdicts
    <2>2. \A i \in DOMAIN range : Settled(i) =>
            Promise!Promised(macro, source, Swapped(1, i), Verdict(range[i]))
      BY MovedToFront
    <2> QED BY <2>1, <2>2 DEF OrderPicksVerdict
  <1>3. CASE ~ \E i \in DOMAIN range : Settled(i)
    <2>1. Verdicts = {} /\ Promise!OpenAnswer(macro, range, out)
      BY <1>1, <1>3 DEF Verdicts
    <2> QED BY <2>1, OpenAnswerCounts DEF OrderPicksVerdict
  <1> QED BY <1>2, <1>3

\* For every range the answer is the verdict of an item that settles the macro, and any
\* such verdict is the answer of some order; the order decides nothing else.
THEOREM OrderOnlyPicks == Spec => []OrderPicksVerdict
  <1>1. Init => Answered
    BY DEF Init, Answered
  <1>2. Inv /\ Answered /\ [Next]_vars => Answered'
    <2> SUFFICES ASSUME Inv, Answered, [Next]_vars, pc' = "done"
                 PROVE  Promise!Promised(macro, source, range, out)'
      BY DEF Answered
    <2>1. CASE Next
      BY <2>1, StepAnswersOrNot DEF Promise!Promised, Promise!OpenAnswer
    <2>2. CASE UNCHANGED vars
      BY <2>2 DEF vars, Answered
    <2> QED BY <2>1, <2>2
  <1>3. TypeOK /\ Answered => OrderPicksVerdict
    BY PromisePicksVerdict
  <1> QED BY Invariance, TypeCorrect, <1>1, <1>2, <1>3, PTL DEF Spec
=============================================================================
