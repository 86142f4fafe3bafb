---------------------------- MODULE BalancedTree ----------------------------
(***************************************************************************)
(* The tree that the parser makes of a chain of one operator               *)
(* (LogicManager::balanced_tree, cel/src/parser/parser.rs), from the ids   *)
(* of the operators.  A tree is a leaf, with the position of its term, or  *)
(* an operator's id between two trees.                                     *)
(***************************************************************************)
EXTENDS Naturals, Sequences

Leaf(i)              == [leaf |-> i]
Node(id, left, right) == [id |-> id, left |-> left, right |-> right]
IsLeaf(t)            == DOMAIN t = {"leaf"}
-----------------------------------------------------------------------------
\* The operators lo..hi, counted from 0, with the terms around them; an operator's left term
\* has its number.
Bounds(ops) == {r \in (0..Len(ops)) \X (0..Len(ops)) : r[1] <= r[2]}

Half(n) == (n + 1) \div 2

\* Faulty: every operator goes on top of the ones before it.
BalancedLeaning(ops) == LET
    Of[i \in 0..Len(ops)] == IF i = 0 THEN Leaf(1) ELSE Node(ops[i], Of[i - 1], Leaf(i + 1))
  IN Of[Len(ops)]

\* Faulty: an operator takes the term on its left for both of its sides.
BalancedOffByOne(ops) == LET
    Of[r \in Bounds(ops)] ==
      LET lo  == r[1]
          hi  == r[2]
          mid == Half(lo + hi)
      IN Node(ops[mid + 1],
              IF mid = lo THEN Leaf(mid + 1) ELSE Of[<<lo, mid - 1>>],
              IF mid = hi THEN Leaf(mid + 1) ELSE Of[<<mid + 1, hi>>])
  IN Of[<<0, Len(ops) - 1>>]

\* Faulty: the two sides of an operator are swapped.
BalancedSwapped(ops) == LET
    Of[r \in Bounds(ops)] ==
      LET lo  == r[1]
          hi  == r[2]
          mid == Half(lo + hi)
      IN Node(ops[mid + 1],
              IF mid = hi THEN Leaf(mid + 2) ELSE Of[<<mid + 1, hi>>],
              IF mid = lo THEN Leaf(mid + 1) ELSE Of[<<lo, mid - 1>>])
  IN Of[<<0, Len(ops) - 1>>]

\* LogicManager::balanced_tree
Balanced(ops) == LET
    Of[r \in Bounds(ops)] ==
      LET lo  == r[1]
          hi  == r[2]
          mid == Half(lo + hi)
      IN Node(ops[mid + 1],
              IF mid = lo THEN Leaf(mid + 1) ELSE Of[<<lo, mid - 1>>],
              IF mid = hi THEN Leaf(mid + 2) ELSE Of[<<mid + 1, hi>>])
  IN Of[<<0, Len(ops) - 1>>]
=============================================================================
