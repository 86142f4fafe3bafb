---------------------------- MODULE LogicManager ----------------------------
(***************************************************************************)
(* How the parser groups a chain of || or of && (LogicManager,             *)
(* cel/src/parser/parser.rs): visit_conditionalOr and visit_conditionalAnd *)
(* hand it the terms one by one, and it makes a balanced tree of them,     *)
(* where the grammar's reading of the chain would be one that leans left.  *)
(* A term is given by what it evaluates to.                                *)
(***************************************************************************)
EXTENDS Logic, BalancedTree

CONSTANTS
  Terms,     \* results a term may evaluate to
  MaxTerms   \* bound on the terms of a chain

ASSUME MaxTermsAssumption == MaxTerms \in Nat \ {0}

\* Of the values only the bools matter.
ASSUME TermsAssumption ==
  \A t \in Terms :
    \/ t \in {OkTrue, OkFalse}
    \/ t = Ok(t[2]) /\ ~IsBool(t[2])
    \/ t = Err(t[2])

VARIABLES
  function,  \* "_||_" or "_&&_"
  terms,     \* the terms
  ops,       \* the id of the operator after each term but the last
  nextId,    \* the parser's next_id
  tree       \* what expr() made: <<>> or <<tree>>

vars == <<function, terms, ops, nextId, tree>>
-----------------------------------------------------------------------------
Init ==
  /\ function \in {"_||_", "_&&_"}
  /\ \E t \in Terms : terms = <<t>>
  /\ ops = <<>>
  /\ nextId = 2
  /\ tree = <<>>

\* Faulty: an operator shares its id with the term after it.
AddTermIdShared(t) ==
  /\ tree = <<>>
  /\ Len(terms) < MaxTerms
  /\ terms' = Append(terms, t)
  /\ ops' = Append(ops, nextId)
  /\ nextId' = nextId + 1
  /\ UNCHANGED <<function, tree>>

\* The term is visited, and takes an id, before its operator takes one.
AddTerm(t) ==
  /\ tree = <<>>
  /\ Len(terms) < MaxTerms
  /\ terms' = Append(terms, t)
  /\ ops' = Append(ops, nextId + 1)
  /\ nextId' = nextId + 2
  /\ UNCHANGED <<function, tree>>

Expr ==
  /\ tree = <<>>
  /\ tree' = <<IF Len(terms) = 1 THEN Leaf(1) ELSE Balanced(ops)>>
  /\ UNCHANGED <<function, terms, ops, nextId>>

Next == Expr \/ \E t \in Terms : AddTerm(t)

Spec == Init /\ [][Next]_vars
-----------------------------------------------------------------------------
(* Evaluating the tree, as the || and && arms of resolve_val do. *)

Decisive == IF function = "_||_" THEN OkTrue ELSE OkFalse
Neutral  == IF function = "_||_" THEN OkFalse ELSE OkTrue
Connect(l, r) == IF function = "_||_" THEN LogicalOr(l, r) ELSE LogicalAnd(l, r)

\* The trees of a height up to h.
Trees[h \in 0..Len(ops)] ==
  IF h = 0 THEN [leaf : Nat]
  ELSE [leaf : Nat] \cup [id : Nat, left : Trees[h - 1], right : Trees[h - 1]]

TreesHere == Trees[Len(ops)]

Value[t \in TreesHere] ==
  IF IsLeaf(t) THEN terms[t.leaf] ELSE Connect(Value[t.left], Value[t.right])

\* the terms evaluated; the right side is not when the left one decides
Evaluated[t \in TreesHere] ==
  IF IsLeaf(t) THEN {t.leaf}
  ELSE Evaluated[t.left] \cup (IF Value[t.left] = Decisive THEN {} ELSE Evaluated[t.right])

InOrder[t \in TreesHere] ==
  IF IsLeaf(t) THEN <<<<"term", t.leaf>>>>
  ELSE InOrder[t.left] \o <<<<"op", t.id>>>> \o InOrder[t.right]

Height[t \in TreesHere] ==
  IF IsLeaf(t) THEN 0
  ELSE 1 + (IF Height[t.left] < Height[t.right] THEN Height[t.right] ELSE Height[t.left])

\* As many terms as a tree of height h has room for.
Room[h \in 0..Len(ops)] == IF h = 0 THEN 1 ELSE 2 * Room[h - 1]
-----------------------------------------------------------------------------
(* Properties. *)

\* The type invariant; ids ascend and each is taken once.
TypeOK ==
  /\ function \in {"_||_", "_&&_"}
  /\ terms \in Seq(Terms)
  /\ ops \in Seq(Nat)
  /\ Len(terms) = Len(ops) + 1
  /\ nextId = 2 * Len(terms)
  /\ \A i, j \in DOMAIN ops : i < j => ops[i] < ops[j]
  /\ \A i \in DOMAIN ops : ops[i] < nextId

Grouped == tree # <<>>

\* The tree holds every term once, in the order they were written in, with the operators
\* between the terms they were written between: taking the terms out of the vector leaves
\* none behind and takes none twice.
ReadsAsWritten ==
  Grouped =>
    InOrder[tree[1]] =
      [i \in 1..2 * Len(terms) - 1 |->
         IF i % 2 = 1 THEN <<"term", (i + 1) \div 2>> ELSE <<"op", ops[i \div 2]>>]

\* A chain of n terms nests no deeper than it must: evaluation's recursion is logarithmic in
\* the length of the chain.
IsBalanced ==
  Grouped =>
    LET h == Height[tree[1]]
    IN h > 0 => Len(terms) > Room[h - 1]

\* Regrouping changes no answer.  One decisive term decides the chain, whatever errors stand
\* beside it; without one and without errors the chain is neutral; otherwise it fails with
\* the error of one of its terms.  A lone term is left as it is.
RegroupingKeepsAnswers ==
  Grouped /\ Len(terms) > 1 =>
    LET answer == Value[tree[1]]
        bools  == {TryBool(terms[i]) : i \in DOMAIN terms}
    IN /\ (answer = Decisive) <=> Decisive \in bools
       /\ (answer = Neutral) <=> bools = {Neutral}
       /\ answer \in bools

\* Nor does it change what is evaluated: the terms up to the first decisive one.
EvaluatesUpToDecision ==
  Grouped =>
    Evaluated[tree[1]] =
      {i \in DOMAIN terms : \A j \in 1..i - 1 : terms[j] # Decisive}
=============================================================================
