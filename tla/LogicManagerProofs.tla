------------------------- MODULE LogicManagerProofs -------------------------
(* Theorems about LogicManager, for chains of any length and terms of any kind. *)
EXTENDS LogicManager, Recursion, TLAPS, SequenceTheorems

-----------------------------------------------------------------------------
(* Trees. *)

\* A leaf is no node.
LEMMA Shapes ==
  /\ \A i : IsLeaf(Leaf(i)) /\ Leaf(i).leaf = i
  /\ \A id, l, r : LET t == Node(id, l, r) IN ~IsLeaf(t) /\ t.id = id /\ t.left = l /\ t.right = r
  <1>1. \A i : DOMAIN Leaf(i) = {"leaf"} /\ Leaf(i).leaf = i
    BY DEF Leaf
  <1>2. ASSUME NEW id, NEW l, NEW r
        PROVE  LET t == Node(id, l, r) IN ~IsLeaf(t) /\ t.id = id /\ t.left = l /\ t.right = r
    <2> DEFINE t == Node(id, l, r)
    <2>1. "id" \in DOMAIN t /\ t.id = id /\ t.left = l /\ t.right = r
      BY DEF Node
    <2>2. "id" \notin {"leaf"}
      OBVIOUS
    <2> HIDE DEF t
    <2>3. ~IsLeaf(t)
      BY <2>1, <2>2 DEF IsLeaf
    <2> QED BY <2>1, <2>3 DEF t
  <1> QED BY <1>1, <1>2 DEF IsLeaf

\* The recursion in Trees has a solution.
LEMMA TreesRecursion ==
  ASSUME Len(ops) \in Nat
  PROVE  Trees = [h \in 0..Len(ops) |->
                    IF h = 0 THEN [leaf : Nat]
                    ELSE [leaf : Nat] \cup [id : Nat, left : Trees[h - 1], right : Trees[h - 1]]]
  <1> DEFINE Solves(f, n) ==
               f = [h \in 0..n |->
                      IF h = 0 THEN [leaf : Nat]
                      ELSE [leaf : Nat] \cup [id : Nat, left : f[h - 1], right : f[h - 1]]]
             S == {n \in Nat : \E f : Solves(f, n)}
  <1>1. 0 \in S
    <2>1. Solves([h \in 0..0 |-> [leaf : Nat]], 0)
      OBVIOUS
    <2> QED BY <2>1
  <1>2. ASSUME NEW n \in Nat, n \in S PROVE n + 1 \in S
    <2>1. PICK f : Solves(f, n)
      BY <1>2
    <2> DEFINE g == [h \in 0..n + 1 |->
                       IF h <= n THEN f[h]
                       ELSE [leaf : Nat] \cup [id : Nat, left : f[n], right : f[n]]]
    <2>2. ASSUME NEW h \in 0..n + 1
          PROVE  g[h] = IF h = 0 THEN [leaf : Nat]
                        ELSE [leaf : Nat] \cup [id : Nat, left : g[h - 1], right : g[h - 1]]
      <3>1. CASE h = 0
        <4>1. 0 \in 0..n /\ 0 \in 0..n + 1 /\ 0 <= n
          OBVIOUS
        <4>2. f[0] = [leaf : Nat]
          <5> HIDE DEF g
          <5> QED BY <4>1, <2>1
        <4>3. g[0] = f[0]
          BY <4>1
        <4> HIDE DEF g, Solves
        <4> QED BY <4>2, <4>3, <3>1
      <3>2. CASE h # 0 /\ h <= n
        <4>1. h \in 0..n /\ h - 1 \in 0..n /\ h - 1 \in 0..n + 1 /\ h - 1 <= n
          BY <3>2
        <4>2. g[h - 1] = f[h - 1] /\ g[h] = f[h]
          BY <4>1, <3>2
        <4> HIDE DEF g
        <4> QED BY <4>1, <4>2, <3>2, <2>1
      <3>3. CASE h = n + 1
        <4>1. h - 1 = n /\ n \in 0..n + 1 /\ ~(h <= n) /\ h # 0
          BY <3>3
        <4>2. g[h - 1] = f[n]
          BY <4>1
        <4>3. g[h] = [leaf : Nat] \cup [id : Nat, left : f[n], right : f[n]]
          BY <4>1
        <4> HIDE DEF g
        <4> QED BY <4>1, <4>2, <4>3
      <3> QED BY <3>1, <3>2, <3>3
    <2>3. Solves(g, n + 1)
      <3>1. g = [h \in 0..n + 1 |-> g[h]]
        OBVIOUS
      <3> HIDE DEF g
      <3> QED BY <2>2, <3>1
    <2> HIDE DEF g, Solves
    <2> QED BY <2>3
  <1>3. \A n \in Nat : n \in S
    <2> HIDE DEF S
    <2> QED BY <1>1, <1>2, Induction
  <1>4. PICK f : Solves(f, Len(ops))
    BY <1>3
  <1> QED BY <1>4 DEF Trees

\* Every leaf is a tree; the sides of a tree of height h + 1 are trees of height h.
LEMMA TreesOfHeight ==
  ASSUME Len(ops) \in Nat
  PROVE  /\ Trees[0] = [leaf : Nat]
         /\ \A h \in 0..Len(ops) - 1 :
              Trees[h + 1] = [leaf : Nat] \cup [id : Nat, left : Trees[h], right : Trees[h]]
  <1>1. Trees[0] = [leaf : Nat]
    <2>1. 0 \in 0..Len(ops)
      OBVIOUS
    <2> QED BY <2>1, TreesRecursion
  <1>2. ASSUME NEW h \in 0..Len(ops) - 1
        PROVE  Trees[h + 1] = [leaf : Nat] \cup [id : Nat, left : Trees[h], right : Trees[h]]
    <2>1. h + 1 \in 0..Len(ops) /\ h + 1 # 0 /\ (h + 1) - 1 = h
      OBVIOUS
    <2> QED BY <2>1, TreesRecursion
  <1> QED BY <1>1, <1>2

\* A tree is a leaf or a node, and the sides of a node are trees of less height.
LEMMA TreeParts ==
  ASSUME Len(ops) \in Nat, NEW h \in 0..Len(ops), NEW t \in Trees[h]
  PROVE  \/ IsLeaf(t) /\ t.leaf \in Nat
         \/ /\ h > 0
            /\ ~IsLeaf(t)
            /\ t.left \in Trees[h - 1]
            /\ t.right \in Trees[h - 1]
            /\ t.id \in Nat
  <1>1. CASE t \in [leaf : Nat]
    BY <1>1 DEF IsLeaf
  <1>2. CASE t \notin [leaf : Nat]
    <2>1. h # 0
      BY <1>2, TreesOfHeight
    <2>2. h - 1 \in 0..Len(ops) - 1 /\ (h - 1) + 1 = h
      BY <2>1
    <2>3. t \in [id : Nat, left : Trees[h - 1], right : Trees[h - 1]]
      BY <1>2, <2>2, TreesOfHeight
    <2>4. t.left \in Trees[h - 1] /\ t.right \in Trees[h - 1] /\ t.id \in Nat
      BY <2>3
    <2>5. "id" \in DOMAIN t /\ "id" \notin {"leaf"}
      BY <2>3
    <2>6. ~IsLeaf(t)
      BY <2>5 DEF IsLeaf
    <2> QED BY <2>1, <2>4, <2>6
  <1> QED BY <1>1, <1>2

\* Trees of a height are trees of every greater one.
LEMMA TreesGrow ==
  ASSUME Len(ops) \in Nat
  PROVE  \A h, k \in 0..Len(ops) : h <= k => Trees[h] \subseteq Trees[k]
  <1> DEFINE N == Len(ops)
             S == {h \in Nat : h < N => Trees[h] \subseteq Trees[h + 1]}
  <1>1. 0 \in S
    <2> SUFFICES ASSUME 0 < N PROVE Trees[0] \subseteq Trees[0 + 1]
      OBVIOUS
    <2>1. 0 \in 0..N - 1
      OBVIOUS
    <2> QED BY <2>1, TreesOfHeight
  <1>2. ASSUME NEW h \in Nat, h \in S PROVE h + 1 \in S
    <2> SUFFICES ASSUME h + 1 < N PROVE Trees[h + 1] \subseteq Trees[(h + 1) + 1]
      OBVIOUS
    <2>1. Trees[h] \subseteq Trees[h + 1]
      BY <1>2
    <2>2. h \in 0..N - 1 /\ h + 1 \in 0..N - 1
      OBVIOUS
    <2>3. /\ Trees[h + 1] = [leaf : Nat] \cup [id : Nat, left : Trees[h], right : Trees[h]]
          /\ Trees[(h + 1) + 1] =
               [leaf : Nat] \cup [id : Nat, left : Trees[h + 1], right : Trees[h + 1]]
      BY <2>2, TreesOfHeight
    <2> QED BY <2>1, <2>3
  <1>3. \A h \in Nat : h < N => Trees[h] \subseteq Trees[h + 1]
    <2> HIDE DEF S
    <2>1. \A h \in Nat : h \in S
      BY <1>1, <1>2, Induction
    <2> QED BY <2>1 DEF S
  <1>4. ASSUME NEW h \in 0..N PROVE \A k \in 0..N : h <= k => Trees[h] \subseteq Trees[k]
    <2> DEFINE R == {j \in Nat : h + j <= N => Trees[h] \subseteq Trees[h + j]}
    <2>1. 0 \in R
      OBVIOUS
    <2>2. ASSUME NEW j \in Nat, j \in R PROVE j + 1 \in R
      <3> SUFFICES ASSUME h + (j + 1) <= N PROVE Trees[h] \subseteq Trees[h + (j + 1)]
        OBVIOUS
      <3>1. h + j <= N /\ h + j < N /\ h + j \in Nat /\ (h + j) + 1 = h + (j + 1)
        OBVIOUS
      <3>2. Trees[h] \subseteq Trees[h + j]
        BY <2>2, <3>1
      <3>3. Trees[h + j] \subseteq Trees[h + (j + 1)]
        BY <1>3, <3>1
      <3> QED BY <3>2, <3>3
    <2>3. \A j \in Nat : j \in R
      <3> HIDE DEF R
      <3> QED BY <2>1, <2>2, Induction
    <2>4. ASSUME NEW k \in 0..N, h <= k PROVE Trees[h] \subseteq Trees[k]
      <3>1. k - h \in Nat /\ h + (k - h) = k /\ k <= N
        BY <2>4
      <3> QED BY <2>3, <3>1
    <2> QED BY <2>4
  <1> QED BY <1>4

\* The parts of a tree of the chain's height have that height as well.
LEMMA PartsAreTrees ==
  ASSUME Len(ops) \in Nat, NEW t \in TreesHere
  PROVE  \/ IsLeaf(t) /\ t.leaf \in Nat
         \/ ~IsLeaf(t) /\ t.left \in TreesHere /\ t.right \in TreesHere /\ t.id \in Nat
  <1>1. Len(ops) \in 0..Len(ops)
    OBVIOUS
  <1>2. CASE Len(ops) > 0
    <2>1. Len(ops) - 1 \in 0..Len(ops) /\ Len(ops) - 1 <= Len(ops)
      BY <1>2
    <2>2. Trees[Len(ops) - 1] \subseteq TreesHere
      BY <1>1, <2>1, TreesGrow DEF TreesHere
    <2> QED BY <1>1, <2>2, TreeParts DEF TreesHere
  <1>3. CASE ~(Len(ops) > 0)
    BY <1>1, <1>3, TreeParts DEF TreesHere
  <1> QED BY <1>2, <1>3

\* What makes a result of a node out of the results of its sides.
Combine(A) == [TreesHere -> [A -> [A -> A]]]

\* A recursion over trees has a solution, whatever it makes of a leaf and of a node with the
\* results of its sides.
LEMMA TreeRecursion ==
  ASSUME Len(ops) \in Nat, NEW A, NEW leafs \in [Nat -> A],
         NEW nodes \in Combine(A)
  PROVE  \E g \in [TreesHere -> A] :
           \A t \in TreesHere :
             g[t] = IF IsLeaf(t) THEN leafs[t.leaf] ELSE nodes[t][g[t.left]][g[t.right]]
  <1> DEFINE N == Len(ops)
             Solves(g, h) ==
               \A t \in Trees[h] :
                 g[t] = IF IsLeaf(t) THEN leafs[t.leaf] ELSE nodes[t][g[t.left]][g[t.right]]
             S == {h \in Nat : h <= N => \E g \in [Trees[h] -> A] : Solves(g, h)}
  <1>1. 0 \in S
    <2>1. \A t \in Trees[0] : IsLeaf(t) /\ t.leaf \in Nat
      <3>1. 0 \in 0..N /\ ~(0 > 0)
        OBVIOUS
      <3> QED BY <3>1, TreeParts
    <2>2. [t \in Trees[0] |-> leafs[t.leaf]] \in [Trees[0] -> A]
      BY <2>1
    <2>3. Solves([t \in Trees[0] |-> leafs[t.leaf]], 0)
      BY <2>1
    <2> QED BY <2>2, <2>3
  <1>2. ASSUME NEW h \in Nat, h \in S PROVE h + 1 \in S
    <2> SUFFICES ASSUME h + 1 <= N
                 PROVE  \E g \in [Trees[h + 1] -> A] : Solves(g, h + 1)
      OBVIOUS
    <2>0. h <= N /\ h \in 0..N /\ h + 1 \in 0..N /\ N \in 0..N /\ (h + 1) - 1 = h
      OBVIOUS
    <2>1. PICK f \in [Trees[h] -> A] : Solves(f, h)
      BY <1>2, <2>0
    <2>2. Trees[h] \subseteq Trees[h + 1] /\ Trees[h + 1] \subseteq TreesHere
      BY <2>0, TreesGrow DEF TreesHere
    <2>3. ASSUME NEW t \in Trees[h + 1], ~IsLeaf(t)
          PROVE  t.left \in Trees[h] /\ t.right \in Trees[h]
      BY <2>0, <2>3, TreeParts
    <2>4. ASSUME NEW t \in Trees[h + 1], IsLeaf(t) PROVE t.leaf \in Nat
      BY <2>0, <2>4, TreeParts
    <2> DEFINE g == [t \in Trees[h + 1] |->
                       IF IsLeaf(t) THEN leafs[t.leaf] ELSE nodes[t][f[t.left]][f[t.right]]]
    <2>5. g \in [Trees[h + 1] -> A]
      <3>1. ASSUME NEW t \in Trees[h + 1]
            PROVE  (IF IsLeaf(t) THEN leafs[t.leaf] ELSE nodes[t][f[t.left]][f[t.right]]) \in A
        <4>1. CASE IsLeaf(t)
          BY <4>1, <2>4
        <4>2. CASE ~IsLeaf(t)
          <5>1. f[t.left] \in A /\ f[t.right] \in A /\ t \in TreesHere
            BY <4>2, <2>2, <2>3
          <5>2. nodes[t][f[t.left]][f[t.right]] \in A
            BY <5>1 DEF Combine
          <5> QED BY <4>2, <5>2
        <4> QED BY <4>1, <4>2
      <3> QED BY <3>1
    <2>6. \A t \in Trees[h] : g[t] = f[t]
      BY <2>1, <2>2
    <2>7. Solves(g, h + 1)
      <3> SUFFICES ASSUME NEW t \in Trees[h + 1]
                   PROVE  g[t] = IF IsLeaf(t) THEN leafs[t.leaf]
                                 ELSE nodes[t][g[t.left]][g[t.right]]
        OBVIOUS
      <3>1. CASE IsLeaf(t)
        BY <3>1
      <3>2. CASE ~IsLeaf(t)
        <4>1. g[t] = nodes[t][f[t.left]][f[t.right]]
          BY <3>2
        <4>2. g[t.left] = f[t.left] /\ g[t.right] = f[t.right]
          BY <2>3, <2>6, <3>2
        <4> HIDE DEF g
        <4> QED BY <3>2, <4>1, <4>2
      <3> QED BY <3>1, <3>2
    <2> HIDE DEF g, Solves
    <2> QED BY <2>5, <2>7
  <1>3. \A h \in Nat : h \in S
    <2> HIDE DEF S
    <2> QED BY <1>1, <1>2, Induction
  <1>4. \E g \in [Trees[N] -> A] : Solves(g, N)
    BY <1>3
  <1> QED BY <1>4 DEF TreesHere

-----------------------------------------------------------------------------
(* The balanced tree. *)

\* The operator on top lies between the bounds.
LEMMA HalfBetween ==
  ASSUME NEW lo \in Nat, NEW hi \in Nat, lo <= hi
  PROVE  Half(lo + hi) \in Nat /\ lo <= Half(lo + hi) /\ Half(lo + hi) <= hi
  BY DEF Half

\* What balanced_tree makes of the operators r[1]..r[2], if f has the trees of fewer.
Between(f, r) ==
  LET mid == Half(r[1] + r[2])
  IN Node(ops[mid + 1],
          IF mid = r[1] THEN Leaf(mid + 1) ELSE f[<<r[1], mid - 1>>],
          IF mid = r[2] THEN Leaf(mid + 2) ELSE f[<<mid + 1, r[2]>>])

\* The recursion of balanced_tree has a solution, of which expr takes the value for the whole
\* chain.
LEMMA BalancedRecursion ==
  ASSUME Len(ops) \in Nat
  PROVE  \E f : /\ \A r \in Bounds(ops) : f[r] = Between(f, r)
                /\ Balanced(ops) = f[<<0, Len(ops) - 1>>]
  <1> DEFINE Narrow(w) == {r \in Bounds(ops) : r[2] - r[1] <= w}
             Solves(f, w) == \A r \in Narrow(w) : f[r] = Between(f, r)
             S == {w \in Nat : \E f : Solves(f, w)}
  <1>0. ASSUME NEW r \in Bounds(ops)
        PROVE  LET lo == r[1]
                   hi == r[2]
                   mid == Half(lo + hi)
               IN /\ lo \in Nat /\ hi \in Nat /\ lo <= hi /\ mid \in Nat /\ lo <= mid /\ mid <= hi
                  /\ r = <<lo, hi>>
                  /\ mid # lo => /\ <<lo, mid - 1>> \in Bounds(ops)
                                 /\ (mid - 1) - lo < hi - lo
                  /\ mid # hi => /\ <<mid + 1, hi>> \in Bounds(ops)
                                 /\ hi - (mid + 1) < hi - lo
    <2>1. r[1] \in 0..Len(ops) /\ r[2] \in 0..Len(ops) /\ r[1] <= r[2] /\ r = <<r[1], r[2]>>
      BY DEF Bounds
    <2>2. PICK mid : mid = Half(r[1] + r[2])
      OBVIOUS
    <2>3. mid \in Nat /\ r[1] <= mid /\ mid <= r[2]
      BY <2>1, <2>2, HalfBetween
    <2>4. mid # r[1] => /\ <<r[1], mid - 1>> \in Bounds(ops)
                        /\ (mid - 1) - r[1] < r[2] - r[1]
      BY <2>1, <2>3 DEF Bounds
    <2>5. mid # r[2] => /\ <<mid + 1, r[2]>> \in Bounds(ops)
                        /\ r[2] - (mid + 1) < r[2] - r[1]
      BY <2>1, <2>3 DEF Bounds
    <2> QED BY <2>1, <2>2, <2>3, <2>4, <2>5
  <1>1. 0 \in S
    <2> DEFINE f == [r \in Bounds(ops) |->
                       Node(ops[Half(r[1] + r[2]) + 1], Leaf(Half(r[1] + r[2]) + 1),
                            Leaf(Half(r[1] + r[2]) + 2))]
    <2> SUFFICES ASSUME NEW r \in Bounds(ops), r[2] - r[1] <= 0 PROVE f[r] = Between(f, r)
      BY Zenon
    <2>1. Half(r[1] + r[2]) = r[1] /\ Half(r[1] + r[2]) = r[2]
      <3> DEFINE mid == Half(r[1] + r[2])
      <3>1. r[1] \in Nat /\ r[2] \in Nat /\ mid \in Nat /\ r[1] <= mid /\ mid <= r[2]
        BY <1>0
      <3> HIDE DEF mid
      <3>2. mid = r[1] /\ mid = r[2]
        BY <3>1
      <3> QED BY <3>2 DEF mid
    <2> QED BY <2>1 DEF Between
  <1>2. ASSUME NEW w \in Nat, w \in S PROVE w + 1 \in S
    <2>1. PICK f : Solves(f, w)
      BY <1>2
    <2> DEFINE g == [r \in Bounds(ops) |-> IF r[2] - r[1] <= w THEN f[r] ELSE Between(f, r)]
    <2>2. \A r \in Bounds(ops) : r[2] - r[1] <= w => g[r] = f[r]
      OBVIOUS
    <2>3. ASSUME NEW r \in Bounds(ops), r[2] - r[1] <= w + 1 PROVE g[r] = Between(f, r)
      BY <2>1
    <2>4. ASSUME NEW r \in Bounds(ops), r[2] - r[1] <= w + 1 PROVE Between(g, r) = Between(f, r)
      <3> DEFINE mid == Half(r[1] + r[2])
      <3>0. /\ r[1] \in Nat /\ r[2] \in Nat /\ mid \in Nat
            /\ mid # r[1] => <<r[1], mid - 1>> \in Bounds(ops) /\ (mid - 1) - r[1] < r[2] - r[1]
            /\ mid # r[2] => <<mid + 1, r[2]>> \in Bounds(ops) /\ r[2] - (mid + 1) < r[2] - r[1]
        BY <1>0
      <3>1. mid # r[1] => g[<<r[1], mid - 1>>] = f[<<r[1], mid - 1>>]
        <4> SUFFICES ASSUME mid # r[1] PROVE g[<<r[1], mid - 1>>] = f[<<r[1], mid - 1>>]
          OBVIOUS
        <4>1. <<r[1], mid - 1>> \in Bounds(ops) /\ (mid - 1) - r[1] <= w
          <5> HIDE DEF mid, g
          <5> QED BY <3>0, <2>4
        <4> HIDE DEF g, mid
        <4> QED BY <2>2, <4>1
      <3>2. mid # r[2] => g[<<mid + 1, r[2]>>] = f[<<mid + 1, r[2]>>]
        <4> SUFFICES ASSUME mid # r[2] PROVE g[<<mid + 1, r[2]>>] = f[<<mid + 1, r[2]>>]
          OBVIOUS
        <4>1. <<mid + 1, r[2]>> \in Bounds(ops) /\ r[2] - (mid + 1) <= w
          <5> HIDE DEF mid, g
          <5> QED BY <3>0, <2>4
        <4> HIDE DEF g, mid
        <4> QED BY <2>2, <4>1
      <3> HIDE DEF g
      <3> QED BY <3>1, <3>2, Zenon DEF Between
    <2>5. Solves(g, w + 1)
      <3> HIDE DEF g
      <3> QED BY <2>3, <2>4
    <2> HIDE DEF g, Solves
    <2> QED BY <2>5
  <1>3. \A w \in Nat : w \in S
    <2> HIDE DEF S
    <2> QED BY <1>1, <1>2, Induction
  <1>4. PICK f : \A r \in Bounds(ops) : f[r] = Between(f, r)
    <2>1. PICK f : Solves(f, Len(ops))
      BY <1>3
    <2>2. \A r \in Bounds(ops) : r[2] - r[1] <= Len(ops)
      BY DEF Bounds
    <2> QED BY <2>1, <2>2
  <1> DEFINE Of[r \in Bounds(ops)] == Between(Of, r)
  <1>5. Balanced(ops) = Of[<<0, Len(ops) - 1>>]
    BY DEF Balanced, Between
  <1>6. Of = [r \in Bounds(ops) |-> Between(Of, r)]
    <2> DEFINE g == [r \in Bounds(ops) |-> f[r]]
    <2>1. ASSUME NEW r \in Bounds(ops) PROVE Between(g, r) = Between(f, r)
      <3> DEFINE mid == Half(r[1] + r[2])
      <3>1. mid # r[1] => g[<<r[1], mid - 1>>] = f[<<r[1], mid - 1>>]
        BY <1>0
      <3>2. mid # r[2] => g[<<mid + 1, r[2]>>] = f[<<mid + 1, r[2]>>]
        BY <1>0
      <3> HIDE DEF g
      <3> QED BY <3>1, <3>2, Zenon DEF Between
    <2>2. g = [r \in Bounds(ops) |-> Between(g, r)]
      <3> HIDE DEF Between
      <3> QED BY <1>4, <2>1
    <2> HIDE DEF g
    <2> QED BY <2>2, Zenon
  <1> HIDE DEF Of
  <1>7. \A r \in Bounds(ops) : Of[r] = Between(Of, r)
    BY <1>6, Zenon
  <1> QED BY <1>5, <1>7

Solution(f) == \A r \in Bounds(ops) : f[r] = Between(f, r)

\* The tree of the terms a..b, and the last term of its left side.
Group(f, a, b) == IF a = b THEN Leaf(a) ELSE f[<<a - 1, b - 2>>]
Middle(a, b)   == (a + b) \div 2

\* The middle leaves a term on either side.
LEMMA MiddleBetween ==
  ASSUME NEW a \in Nat, NEW b \in Nat, a < b
  PROVE  Middle(a, b) \in Nat /\ a <= Middle(a, b) /\ Middle(a, b) < b
  BY DEF Middle

\* Terms are grouped around the operator after the middle one.
LEMMA GroupIsNode ==
  ASSUME Len(ops) \in Nat, NEW f, Solution(f),
         NEW a \in 1..Len(ops) + 1, NEW b \in 1..Len(ops) + 1, a < b
  PROVE  LET m == Middle(a, b)
         IN Group(f, a, b) = Node(ops[m], Group(f, a, m), Group(f, m + 1, b))
  <1> DEFINE lo  == a - 1
             hi  == b - 2
             mid == Half(lo + hi)
             m   == Middle(a, b)
  <1>1. lo \in Nat /\ hi \in Nat /\ lo <= hi /\ <<lo, hi>> \in Bounds(ops)
    BY DEF Bounds
  <1>2. m \in Nat /\ a <= m /\ m < b
    BY MiddleBetween
  <1>3. mid = m - 1
    BY DEF Half, Middle
  <1>4. /\ mid + 1 = m /\ mid + 2 = m + 1
        /\ mid = lo <=> a = m
        /\ mid = hi <=> m + 1 = b
        /\ mid - 1 = m - 2
        /\ mid + 1 = (m + 1) - 1
    <2> HIDE DEF mid, m
    <2> QED BY <1>2, <1>3
  <1>5. Group(f, a, b) = f[<<lo, hi>>]
    BY DEF Group
  <1>6. f[<<lo, hi>>] = Node(ops[mid + 1],
                             IF mid = lo THEN Leaf(mid + 1) ELSE f[<<lo, mid - 1>>],
                             IF mid = hi THEN Leaf(mid + 2) ELSE f[<<mid + 1, hi>>])
    <2>1. f[<<lo, hi>>] = Between(f, <<lo, hi>>)
      BY <1>1 DEF Solution
    <2> QED BY <2>1 DEF Between
  <1>7. (IF mid = lo THEN Leaf(mid + 1) ELSE f[<<lo, mid - 1>>]) = Group(f, a, m)
    <2> HIDE DEF mid, m
    <2> QED BY <1>4 DEF Group
  <1>8. (IF mid = hi THEN Leaf(mid + 2) ELSE f[<<mid + 1, hi>>]) = Group(f, m + 1, b)
    <2> HIDE DEF mid, m
    <2> QED BY <1>4 DEF Group
  <1> HIDE DEF lo, hi, mid
  <1> QED BY <1>4, <1>5, <1>6, <1>7, <1>8

\* What holds of every term, and of a group when it holds of its two sides, holds of every
\* group.
LEMMA GroupInduction ==
  ASSUME NEW n \in Nat, NEW S,
         \A a \in 1..n : <<a, a>> \in S,
         \A a, b \in 1..n :
           /\ a < b
           /\ <<a, Middle(a, b)>> \in S
           /\ <<Middle(a, b) + 1, b>> \in S
           => <<a, b>> \in S
  PROVE  \A a, b \in 1..n : a <= b => <<a, b>> \in S
  <1> DEFINE W == {w \in Nat : \A a, b \in 1..n : b - a = w => <<a, b>> \in S}
  <1>1. ASSUME NEW w \in Nat, \A v \in Nat : v < w => v \in W PROVE w \in W
    <2> SUFFICES ASSUME NEW a \in 1..n, NEW b \in 1..n, b - a = w PROVE <<a, b>> \in S
      OBVIOUS
    <2>1. CASE a = b
      BY <2>1
    <2>2. CASE a # b
      <3> DEFINE m == Middle(a, b)
      <3>1. a < b /\ a \in Nat /\ b \in Nat
        BY <2>2
      <3>2. m \in Nat /\ a <= m /\ m < b
        BY <3>1, MiddleBetween
      <3> HIDE DEF m
      <3>3. /\ m \in 1..n /\ m + 1 \in 1..n
            /\ m - a \in Nat /\ m - a < w
            /\ b - (m + 1) \in Nat /\ b - (m + 1) < w
        BY <3>1, <3>2
      <3>4. m - a \in W /\ b - (m + 1) \in W
        <4> HIDE DEF W
        <4> QED BY <1>1, <3>3
      <3>5. <<a, m>> \in S /\ <<m + 1, b>> \in S
        BY <3>3, <3>4
      <3> QED BY <3>1, <3>5 DEF m
    <2> QED BY <2>1, <2>2
  <1>2. \A w \in Nat : w \in W
    <2> HIDE DEF W
    <2> QED BY <1>1, StrongInduction
  <1>3. ASSUME NEW a \in 1..n, NEW b \in 1..n, a <= b PROVE <<a, b>> \in S
    <2>1. b - a \in Nat
      BY <1>3
    <2> QED BY <1>2, <2>1
  <1> QED BY <1>3

\* A group of k + 1 terms is a tree of a height up to k.
LEMMA GroupsAreTrees ==
  ASSUME ops \in Seq(Nat), NEW f, Solution(f)
  PROVE  \A a, b \in 1..Len(ops) + 1 : a <= b => Group(f, a, b) \in TreesHere
  <1> DEFINE N == Len(ops)
             S == {p \in (1..N + 1) \X (1..N + 1) :
                     p[1] <= p[2] => Group(f, p[1], p[2]) \in Trees[p[2] - p[1]]}
  <1>0. N \in Nat /\ \A i \in 1..N : ops[i] \in Nat
    BY LenProperties
  <1>1. ASSUME NEW a \in 1..N + 1 PROVE <<a, a>> \in S
    <2>1. Group(f, a, a) \in [leaf : Nat]
      BY <1>0 DEF Group, Leaf
    <2>2. Group(f, a, a) \in Trees[a - a]
      <3>1. a - a = 0 /\ Trees[0] = [leaf : Nat]
        BY <1>0, TreesOfHeight
      <3> QED BY <2>1, <3>1
    <2> QED BY <2>2
  <1>2. ASSUME NEW a \in 1..N + 1, NEW b \in 1..N + 1, a < b,
               <<a, Middle(a, b)>> \in S, <<Middle(a, b) + 1, b>> \in S
        PROVE  <<a, b>> \in S
    <2> DEFINE m == Middle(a, b)
               h == b - a - 1
    <2>1. m \in Nat /\ a <= m /\ m < b
      BY <1>0, <1>2, MiddleBetween
    <2>2. /\ h \in 0..N - 1 /\ h \in 0..N /\ h + 1 = b - a
          /\ m - a \in 0..N /\ m - a <= h
          /\ b - (m + 1) \in 0..N /\ b - (m + 1) <= h
          /\ m \in 1..N /\ m + 1 <= b
      <3> HIDE DEF m
      <3> QED BY <1>0, <1>2, <2>1
    <2>3. Group(f, a, m) \in Trees[m - a] /\ Group(f, m + 1, b) \in Trees[b - (m + 1)]
      <3> HIDE DEF m
      <3> QED BY <1>2, <2>1, <2>2 DEF m
    <2>4. Trees[m - a] \subseteq Trees[h] /\ Trees[b - (m + 1)] \subseteq Trees[h]
      <3> HIDE DEF m, h
      <3> QED BY <1>0, <2>2, TreesGrow
    <2>5. Group(f, a, b) = Node(ops[m], Group(f, a, m), Group(f, m + 1, b))
      BY <1>0, <1>2, GroupIsNode
    <2>6. Group(f, a, b) \in [id : Nat, left : Trees[h], right : Trees[h]]
      <3>1. \A A : \A i \in Nat, l, r \in A : Node(i, l, r) \in [id : Nat, left : A, right : A]
        BY DEF Node
      <3>2. ops[m] \in Nat
        <4> HIDE DEF m, h
        <4> QED BY <1>0, <2>2
      <3>3. Group(f, a, m) \in Trees[h] /\ Group(f, m + 1, b) \in Trees[h]
        <4> HIDE DEF m, h
        <4> QED BY <2>3, <2>4
      <3> HIDE DEF m, h
      <3> QED BY <2>5, <3>1, <3>2, <3>3
    <2>7. Group(f, a, b) \in Trees[b - a]
      <3>1. Trees[h + 1] = [leaf : Nat] \cup [id : Nat, left : Trees[h], right : Trees[h]]
        <4> HIDE DEF m, h
        <4> QED BY <1>0, <2>2, TreesOfHeight
      <3> HIDE DEF m, h
      <3> QED BY <2>2, <2>6, <3>1
    <2> QED BY <2>7
  <1>3. \A a, b \in 1..N + 1 : a <= b => <<a, b>> \in S
    <2> HIDE DEF S
    <2>1. N + 1 \in Nat
      BY <1>0
    <2>2. \A a \in 1..N + 1 : <<a, a>> \in S
      BY <1>1
    <2>3. \A a, b \in 1..N + 1 :
            /\ a < b
            /\ <<a, Middle(a, b)>> \in S
            /\ <<Middle(a, b) + 1, b>> \in S
            => <<a, b>> \in S
      BY <1>2
    <2> HIDE DEF N
    <2> QED BY <2>1, <2>2, <2>3, GroupInduction
  <1>4. ASSUME NEW a \in 1..N + 1, NEW b \in 1..N + 1, a <= b PROVE Group(f, a, b) \in TreesHere
    <2>1. Group(f, a, b) \in Trees[b - a]
      BY <1>3, <1>4
    <2>2. b - a \in 0..N /\ N \in 0..N /\ b - a <= N
      BY <1>0, <1>4
    <2> QED BY <1>0, <2>1, <2>2, TreesGrow DEF TreesHere
  <1> QED BY <1>4

-----------------------------------------------------------------------------
(* What is read off a tree. *)

\* The recursion of Value has a solution.
LEMMA ValueRecursion ==
  ASSUME Len(ops) \in Nat
  PROVE  \A t \in TreesHere :
           Value[t] = IF IsLeaf(t) THEN terms[t.leaf] ELSE Connect(Value[t.left], Value[t.right])
  <1> DEFINE A     == {terms[i] : i \in Nat} \cup {OkTrue, OkFalse, Err(NoSuchOverload)}
             leafs == [i \in Nat |-> terms[i]]
             nodes == [t \in TreesHere |-> [l \in A |-> [r \in A |-> Connect(l, r)]]]
  <1>1. leafs \in [Nat -> A]
    OBVIOUS
  <1>2. nodes \in Combine(A)
    <2> SUFFICES ASSUME NEW l \in A, NEW r \in A PROVE Connect(l, r) \in A
      BY DEF Combine
    <2>1. OkTrue \in A /\ OkFalse \in A /\ Err(NoSuchOverload) \in A
      OBVIOUS
    <2> HIDE DEF A
    <2>2. TryBool(l) \in A
      BY <2>1 DEF TryBool
    <2>3. LogicalOr(l, r) \in A
      BY <2>1, <2>2 DEF LogicalOr
    <2>4. LogicalAnd(l, r) \in A
      BY <2>1, <2>2 DEF LogicalAnd
    <2> QED BY <2>3, <2>4 DEF Connect
  <1>3. PICK g \in [TreesHere -> A] :
          \A t \in TreesHere :
            g[t] = IF IsLeaf(t) THEN leafs[t.leaf] ELSE nodes[t][g[t.left]][g[t.right]]
    <2> HIDE DEF A, leafs, nodes
    <2> QED BY <1>1, <1>2, TreeRecursion
  <1>4. ASSUME NEW t \in TreesHere
        PROVE  g[t] = IF IsLeaf(t) THEN terms[t.leaf] ELSE Connect(g[t.left], g[t.right])
    <2>1. CASE IsLeaf(t)
      BY <1>3, <2>1, PartsAreTrees
    <2>2. CASE ~IsLeaf(t)
      <3>1. g[t] = nodes[t][g[t.left]][g[t.right]]
        BY <1>3, <2>2, Zenon
      <3>2. g[t.left] \in A /\ g[t.right] \in A
        BY <2>2, PartsAreTrees
      <3> QED BY <2>2, <3>1, <3>2
    <2> QED BY <2>1, <2>2
  <1>5. g = [t \in TreesHere |-> IF IsLeaf(t) THEN terms[t.leaf] ELSE Connect(g[t.left], g[t.right])]
    <2> HIDE DEF A
    <2> QED BY <1>4
  <1>6. Value = [t \in TreesHere |-> IF IsLeaf(t) THEN terms[t.leaf] ELSE Connect(Value[t.left], Value[t.right])]
    BY <1>5, Zenon DEF Value
  <1> QED BY <1>6, Zenon

\* The recursion of Evaluated has a solution.
LEMMA EvaluatedRecursion ==
  ASSUME Len(ops) \in Nat
  PROVE  \A t \in TreesHere :
           Evaluated[t] = IF IsLeaf(t) THEN {t.leaf} ELSE Evaluated[t.left] \cup (IF Value[t.left] = Decisive THEN {} ELSE Evaluated[t.right])
  <1> DEFINE A     == SUBSET Nat
             leafs == [i \in Nat |-> {i}]
             nodes == [t \in TreesHere |-> [l \in A |-> [r \in A |-> l \cup (IF Value[t.left] = Decisive THEN {} ELSE r)]]]
  <1>1. leafs \in [Nat -> A]
    OBVIOUS
  <1>2. nodes \in Combine(A)
    BY DEF Combine
  <1>3. PICK g \in [TreesHere -> A] :
          \A t \in TreesHere :
            g[t] = IF IsLeaf(t) THEN leafs[t.leaf] ELSE nodes[t][g[t.left]][g[t.right]]
    <2> HIDE DEF A, leafs, nodes
    <2> QED BY <1>1, <1>2, TreeRecursion
  <1>4. ASSUME NEW t \in TreesHere
        PROVE  g[t] = IF IsLeaf(t) THEN {t.leaf} ELSE g[t.left] \cup (IF Value[t.left] = Decisive THEN {} ELSE g[t.right])
    <2>1. CASE IsLeaf(t)
      BY <1>3, <2>1, PartsAreTrees
    <2>2. CASE ~IsLeaf(t)
      <3>1. g[t] = nodes[t][g[t.left]][g[t.right]]
        BY <1>3, <2>2, Zenon
      <3>2. g[t.left] \in A /\ g[t.right] \in A
        BY <2>2, PartsAreTrees
      <3> QED BY <2>2, <3>1, <3>2
    <2> QED BY <2>1, <2>2
  <1>5. g = [t \in TreesHere |-> IF IsLeaf(t) THEN {t.leaf} ELSE g[t.left] \cup (IF Value[t.left] = Decisive THEN {} ELSE g[t.right])]
    <2> HIDE DEF A
    <2> QED BY <1>4
  <1>6. Evaluated = [t \in TreesHere |-> IF IsLeaf(t) THEN {t.leaf} ELSE Evaluated[t.left] \cup (IF Value[t.left] = Decisive THEN {} ELSE Evaluated[t.right])]
    BY <1>5, Zenon DEF Evaluated
  <1> QED BY <1>6, Zenon

\* The recursion of Height has a solution.
LEMMA HeightRecursion ==
  ASSUME Len(ops) \in Nat
  PROVE  \A t \in TreesHere :
           Height[t] = IF IsLeaf(t) THEN 0 ELSE 1 + (IF Height[t.left] < Height[t.right] THEN Height[t.right] ELSE Height[t.left])
  <1> DEFINE A     == Nat
             leafs == [i \in Nat |-> 0]
             nodes == [t \in TreesHere |-> [l \in A |-> [r \in A |-> 1 + (IF l < r THEN r ELSE l)]]]
  <1>1. leafs \in [Nat -> A]
    OBVIOUS
  <1>2. nodes \in Combine(A)
    BY DEF Combine
  <1>3. PICK g \in [TreesHere -> A] :
          \A t \in TreesHere :
            g[t] = IF IsLeaf(t) THEN leafs[t.leaf] ELSE nodes[t][g[t.left]][g[t.right]]
    <2> HIDE DEF A, leafs, nodes
    <2> QED BY <1>1, <1>2, TreeRecursion
  <1>4. ASSUME NEW t \in TreesHere
        PROVE  g[t] = IF IsLeaf(t) THEN 0 ELSE 1 + (IF g[t.left] < g[t.right] THEN g[t.right] ELSE g[t.left])
    <2>1. CASE IsLeaf(t)
      BY <1>3, <2>1, PartsAreTrees
    <2>2. CASE ~IsLeaf(t)
      <3>1. g[t] = nodes[t][g[t.left]][g[t.right]]
        BY <1>3, <2>2, Zenon
      <3>2. g[t.left] \in A /\ g[t.right] \in A
        BY <2>2, PartsAreTrees
      <3> QED BY <2>2, <3>1, <3>2
    <2> QED BY <2>1, <2>2
  <1>5. g = [t \in TreesHere |-> IF IsLeaf(t) THEN 0 ELSE 1 + (IF g[t.left] < g[t.right] THEN g[t.right] ELSE g[t.left])]
    <2> HIDE DEF A
    <2> QED BY <1>4
  <1>6. Height = [t \in TreesHere |-> IF IsLeaf(t) THEN 0 ELSE 1 + (IF Height[t.left] < Height[t.right] THEN Height[t.right] ELSE Height[t.left])]
    BY <1>5, Zenon DEF Height
  <1> QED BY <1>6, Zenon

\* The recursion of InOrder has a solution.
LEMMA InOrderRecursion ==
  ASSUME Len(ops) \in Nat
  PROVE  \A t \in TreesHere :
           InOrder[t] = IF IsLeaf(t) THEN <<<<"term", t.leaf>>>> ELSE InOrder[t.left] \o <<<<"op", t.id>>>> \o InOrder[t.right]
  <1> DEFINE A     == Seq(({"term"} \X Nat) \cup ({"op"} \X {t.id : t \in TreesHere}))
             leafs == [i \in Nat |-> <<<<"term", i>>>>]
             nodes == [t \in TreesHere |-> [l \in A |-> [r \in A |-> l \o <<<<"op", t.id>>>> \o r]]]
  <1>1. leafs \in [Nat -> A]
    OBVIOUS
  <1>2. nodes \in Combine(A)
    <2> SUFFICES ASSUME NEW t \in TreesHere, NEW l \in A, NEW r \in A
                 PROVE  l \o <<<<"op", t.id>>>> \o r \in A
      BY DEF Combine
    <2>1. <<<<"op", t.id>>>> \in A
      OBVIOUS
    <2> QED BY <2>1
  <1>3. PICK g \in [TreesHere -> A] :
          \A t \in TreesHere :
            g[t] = IF IsLeaf(t) THEN leafs[t.leaf] ELSE nodes[t][g[t.left]][g[t.right]]
    <2> HIDE DEF A, leafs, nodes
    <2> QED BY <1>1, <1>2, TreeRecursion
  <1>4. ASSUME NEW t \in TreesHere
        PROVE  g[t] = IF IsLeaf(t) THEN <<<<"term", t.leaf>>>> ELSE g[t.left] \o <<<<"op", t.id>>>> \o g[t.right]
    <2>1. CASE IsLeaf(t)
      BY <1>3, <2>1, PartsAreTrees
    <2>2. CASE ~IsLeaf(t)
      <3>1. g[t] = nodes[t][g[t.left]][g[t.right]]
        BY <1>3, <2>2, Zenon
      <3>2. g[t.left] \in A /\ g[t.right] \in A
        BY <2>2, PartsAreTrees
      <3> QED BY <2>2, <3>1, <3>2
    <2> QED BY <2>1, <2>2
  <1>5. g = [t \in TreesHere |-> IF IsLeaf(t) THEN <<<<"term", t.leaf>>>> ELSE g[t.left] \o <<<<"op", t.id>>>> \o g[t.right]]
    <2> HIDE DEF A
    <2> QED BY <1>4
  <1>6. InOrder = [t \in TreesHere |-> IF IsLeaf(t) THEN <<<<"term", t.leaf>>>> ELSE InOrder[t.left] \o <<<<"op", t.id>>>> \o InOrder[t.right]]
    BY <1>5, Zenon DEF InOrder
  <1> QED BY <1>6, Zenon

-----------------------------------------------------------------------------
(* The connectives. *)

\* What a term can evaluate to.
IsResult(r) ==
  \/ r \in {OkTrue, OkFalse}
  \/ r = Ok(r[2]) /\ ~IsBool(r[2])
  \/ r = Err(r[2])

\* The results are told apart by what try_bool makes of them.
LEMMA Verdicts ==
  /\ OkTrue # OkFalse
  /\ ~Failed(OkTrue) /\ IsBool(OkTrue[2]) /\ TryBool(OkTrue) = OkTrue
  /\ ~Failed(OkFalse) /\ IsBool(OkFalse[2]) /\ TryBool(OkFalse) = OkFalse
  /\ \A e : Failed(Err(e)) /\ Err(e)[2] = e
  /\ \A v : ~Failed(Ok(v)) /\ Ok(v)[2] = v
  BY DEF OkTrue, OkFalse, Ok, Err, Failed, BoolVal, IsBool, TryBool

\* A result is a bool or no bool after try_bool, and then an error.
LEMMA ResultCases ==
  ASSUME NEW r, IsResult(r)
  PROVE  \/ r \in {OkTrue, OkFalse} /\ TryBool(r) = r /\ ~Failed(r) /\ IsBool(r[2])
         \/ Failed(r) /\ TryBool(r) = r /\ r = Err(r[2])
         \/ ~Failed(r) /\ ~IsBool(r[2]) /\ TryBool(r) = Err(NoSuchOverload)
  <1>1. CASE r \in {OkTrue, OkFalse}
    BY <1>1, Verdicts
  <1>2. CASE r = Ok(r[2]) /\ ~IsBool(r[2])
    <2>1. ~Failed(r)
      BY <1>2, Verdicts
    <2> QED BY <1>2, <2>1 DEF TryBool
  <1>3. CASE r = Err(r[2])
    <2>1. Failed(r)
      BY <1>3, Verdicts
    <2> QED BY <1>3, <2>1 DEF TryBool
  <1> QED BY <1>1, <1>2, <1>3 DEF IsResult

\* An error is neither of the two bools and stays what it is.
LEMMA ErrorsAreNoBools ==
  ASSUME NEW r, Failed(r)
  PROVE  r # OkTrue /\ r # OkFalse /\ TryBool(r) = r
  BY Verdicts DEF TryBool

\* What try_bool returns is a result that it leaves alone.
LEMMA TryBoolOfResult ==
  ASSUME NEW r, IsResult(r)
  PROVE  /\ IsResult(TryBool(r)) /\ TryBool(TryBool(r)) = TryBool(r)
         /\ \A b \in {OkTrue, OkFalse} : TryBool(r) = b <=> r = b
         /\ TryBool(r) \in {OkTrue, OkFalse} \/ Failed(TryBool(r))
  <1>1. CASE r \in {OkTrue, OkFalse}
    BY <1>1, Verdicts DEF IsResult
  <1>2. CASE Failed(r) /\ TryBool(r) = r /\ r = Err(r[2])
    BY <1>2, ErrorsAreNoBools DEF IsResult
  <1>3. CASE ~Failed(r) /\ ~IsBool(r[2]) /\ TryBool(r) = Err(NoSuchOverload)
    <2>1. Failed(TryBool(r)) /\ TryBool(r) = Err(TryBool(r)[2])
      BY <1>3, Verdicts
    <2>2. TryBool(TryBool(r)) = TryBool(r) /\ TryBool(r) \notin {OkTrue, OkFalse}
      BY <2>1, ErrorsAreNoBools
    <2>3. r \notin {OkTrue, OkFalse}
      BY <1>3, Verdicts
    <2> QED BY <2>1, <2>2, <2>3 DEF IsResult
  <1> QED BY <1>1, <1>2, <1>3, ResultCases

\* A connective of two results is what one of them amounts to: decisive if one of them is,
\* neutral if both are.
LEMMA ConnectOfResults ==
  ASSUME NEW l, NEW r, IsResult(l), IsResult(r), function \in {"_||_", "_&&_"}
  PROVE  LET c == Connect(l, r)
         IN /\ IsResult(c) /\ TryBool(c) = c
            /\ c = Decisive <=> TryBool(l) = Decisive \/ TryBool(r) = Decisive
            /\ c = Neutral <=> TryBool(l) = Neutral /\ TryBool(r) = Neutral
            /\ c \in {TryBool(l), TryBool(r)}
  <1> DEFINE L == TryBool(l)
             R == TryBool(r)
             c == Connect(l, r)
  <1>1. /\ Decisive \in {OkTrue, OkFalse} /\ Neutral \in {OkTrue, OkFalse} /\ Decisive # Neutral
        /\ OkTrue \in {Decisive, Neutral} /\ OkFalse \in {Decisive, Neutral}
    BY Verdicts DEF Decisive, Neutral
  <1>2. c = IF L = Decisive THEN Decisive
            ELSE IF Failed(r) THEN r
            ELSE IF IsBool(r[2]) /\ (L = Neutral \/ r = Decisive) THEN r
            ELSE IF Failed(L) THEN L ELSE Err(NoSuchOverload)
    BY DEF Connect, Decisive, Neutral, LogicalOr, LogicalAnd
  <1>3. /\ IsResult(L) /\ TryBool(L) = L /\ (L \in {OkTrue, OkFalse} \/ Failed(L))
        /\ IsResult(R) /\ TryBool(R) = R
    BY TryBoolOfResult
  <1>4. Failed(L) => L # Decisive /\ L # Neutral
    BY <1>1, ErrorsAreNoBools
  <1> HIDE DEF L, c
  <1>5. c = L \/ c = R
    <2>1. CASE r \in {OkTrue, OkFalse} /\ R = r /\ ~Failed(r) /\ IsBool(r[2])
      BY <1>1, <1>2, <1>3, <2>1
    <2>2. CASE Failed(r) /\ R = r
      BY <1>2, <2>2
    <2>3. CASE ~Failed(r) /\ ~IsBool(r[2]) /\ R = Err(NoSuchOverload)
      BY <1>2, <2>3
    <2> QED BY <2>1, <2>2, <2>3, ResultCases
  <1>6. c = Decisive <=> L = Decisive \/ R = Decisive
    <2>1. CASE r \in {OkTrue, OkFalse} /\ R = r /\ ~Failed(r) /\ IsBool(r[2])
      BY <1>1, <1>2, <1>3, <1>4, <2>1
    <2>2. CASE Failed(r) /\ R = r
      <3>1. r # Decisive
        BY <1>1, <2>2, ErrorsAreNoBools
      <3> QED BY <1>2, <2>2, <3>1
    <2>3. CASE ~Failed(r) /\ ~IsBool(r[2]) /\ R = Err(NoSuchOverload)
      <3>1. R # Decisive
        BY <1>1, <2>3, Verdicts, ErrorsAreNoBools
      <3> QED BY <1>2, <1>4, <2>3, <3>1
    <2> QED BY <2>1, <2>2, <2>3, ResultCases
  <1>7. c = Neutral <=> L = Neutral /\ R = Neutral
    <2>1. CASE r \in {OkTrue, OkFalse} /\ R = r /\ ~Failed(r) /\ IsBool(r[2])
      BY <1>1, <1>2, <1>3, <1>4, <2>1
    <2>2. CASE Failed(r) /\ R = r
      <3>1. r # Neutral
        BY <1>1, <2>2, ErrorsAreNoBools
      <3> QED BY <1>1, <1>2, <2>2, <3>1
    <2>3. CASE ~Failed(r) /\ ~IsBool(r[2]) /\ R = Err(NoSuchOverload)
      <3>1. R # Neutral
        BY <1>1, <2>3, Verdicts, ErrorsAreNoBools
      <3> QED BY <1>1, <1>2, <1>4, <2>3, <3>1
    <2> QED BY <2>1, <2>2, <2>3, ResultCases
  <1> QED BY <1>3, <1>5, <1>6, <1>7 DEF L, c

-----------------------------------------------------------------------------
(* What holds of the groups of the balanced tree. *)

\* What has been recorded of the chain is consistent enough to reason about its groups.
Chain ==
  /\ function \in {"_||_", "_&&_"}
  /\ terms \in Seq(Terms)
  /\ ops \in Seq(Nat)
  /\ Len(terms) = Len(ops) + 1

\* The terms of a chain are results.
LEMMA TermsAreResults ==
  ASSUME Chain
  PROVE  /\ Len(ops) \in Nat /\ Len(terms) = Len(ops) + 1 /\ DOMAIN terms = 1..Len(ops) + 1
         /\ \A i \in 1..Len(ops) + 1 : IsResult(terms[i])
  <1>1. Len(ops) \in Nat /\ Len(terms) = Len(ops) + 1 /\ DOMAIN terms = 1..Len(ops) + 1
    BY LenProperties DEF Chain
  <1>2. \A i \in 1..Len(ops) + 1 : terms[i] \in Terms
    BY <1>1 DEF Chain
  <1> QED BY <1>1, <1>2, TermsAssumption DEF IsResult

\* A leaf stands for its term.
LEMMA LeafReadings ==
  ASSUME Chain, NEW f, Solution(f), NEW a \in 1..Len(ops) + 1
  PROVE  LET t == Group(f, a, a)
         IN /\ t \in TreesHere /\ Value[t] = terms[a] /\ Evaluated[t] = {a}
            /\ Height[t] = 0 /\ InOrder[t] = <<<<"term", a>>>>
  <1> DEFINE t == Group(f, a, a)
  <1>0. Len(ops) \in Nat /\ ops \in Seq(Nat)
    BY TermsAreResults DEF Chain
  <1>1. t = Leaf(a)
    BY DEF Group
  <1>2. t \in TreesHere
    <2>1. a <= a
      BY <1>0
    <2> QED BY <1>0, <2>1, GroupsAreTrees
  <1>3. IsLeaf(t) /\ t.leaf = a
    BY <1>1, Shapes
  <1> HIDE DEF t
  <1>4. Value[t] = terms[a]
    BY <1>0, <1>2, <1>3, ValueRecursion
  <1>5. Evaluated[t] = {a}
    BY <1>0, <1>2, <1>3, EvaluatedRecursion
  <1>6. Height[t] = 0
    BY <1>0, <1>2, <1>3, HeightRecursion
  <1>7. InOrder[t] = <<<<"term", a>>>>
    BY <1>0, <1>2, <1>3, InOrderRecursion
  <1> QED BY <1>2, <1>4, <1>5, <1>6, <1>7 DEF t

\* A node stands for its sides.
LEMMA NodeReadings ==
  ASSUME Chain, NEW f, Solution(f),
         NEW a \in 1..Len(ops) + 1, NEW b \in 1..Len(ops) + 1, a < b,
         NEW m, m = Middle(a, b)
  PROVE  LET t == Group(f, a, b)
             l == Group(f, a, m)
             r == Group(f, m + 1, b)
         IN /\ t \in TreesHere
            /\ Value[t] = Connect(Value[l], Value[r])
            /\ Evaluated[t] = Evaluated[l] \cup (IF Value[l] = Decisive THEN {} ELSE Evaluated[r])
            /\ Height[t] = 1 + (IF Height[l] < Height[r] THEN Height[r] ELSE Height[l])
  <1> DEFINE t == Group(f, a, b)
             l == Group(f, a, m)
             r == Group(f, m + 1, b)
  <1>0. Len(ops) \in Nat /\ ops \in Seq(Nat)
    BY TermsAreResults DEF Chain
  <1>1. t = Node(ops[m], l, r)
    BY <1>0, GroupIsNode
  <1>2. t \in TreesHere
    <2>1. a <= b
      BY <1>0
    <2> QED BY <1>0, <2>1, GroupsAreTrees
  <1> HIDE DEF t, l, r
  <1>3. ~IsLeaf(t) /\ t.id = ops[m] /\ t.left = l /\ t.right = r
    BY <1>1, Shapes
  <1>4. Value[t] = Connect(Value[l], Value[r])
    BY <1>0, <1>2, <1>3, ValueRecursion
  <1>5. Evaluated[t] = Evaluated[l] \cup (IF Value[l] = Decisive THEN {} ELSE Evaluated[r])
    BY <1>0, <1>2, <1>3, EvaluatedRecursion
  <1>6. Height[t] = 1 + (IF Height[l] < Height[r] THEN Height[r] ELSE Height[l])
    BY <1>0, <1>2, <1>3, HeightRecursion
  <1> QED BY <1>2, <1>4, <1>5, <1>6 DEF t, l, r

OpAt(i)           == <<<<"op", ops[i]>>>>
Reading(f, a, b)  == InOrder[Group(f, a, b)]
Joined(s1, s2, s3) == s1 \o s2 \o s3

\* And reads as its left side, its operator and its right side.
LEMMA NodeInOrder ==
  ASSUME Chain, NEW f, Solution(f),
         NEW a \in 1..Len(ops) + 1, NEW b \in 1..Len(ops) + 1, a < b,
         NEW m, m = Middle(a, b)
  PROVE  Reading(f, a, b) = Joined(Reading(f, a, m), OpAt(m), Reading(f, m + 1, b))
  <1> DEFINE t == Group(f, a, b)
             l == Group(f, a, m)
             r == Group(f, m + 1, b)
  <1>0. Len(ops) \in Nat /\ ops \in Seq(Nat)
    BY TermsAreResults DEF Chain
  <1>1. t = Node(ops[m], l, r)
    BY <1>0, GroupIsNode
  <1>2. t \in TreesHere
    BY NodeReadings
  <1> HIDE DEF t, l, r
  <1>3. ~IsLeaf(t) /\ t.id = ops[m] /\ t.left = l /\ t.right = r
    BY <1>1, Shapes
  <1>4. InOrder[t] = InOrder[l] \o <<<<"op", ops[m]>>>> \o InOrder[r]
    BY <1>0, <1>2, <1>3, InOrderRecursion
  <1> QED BY <1>4 DEF t, l, r, OpAt, Reading, Joined

\* To show of every group that it is in a set: its leaves are, and a node is when its sides are.
LEMMA GroupsIn ==
  ASSUME Chain, NEW S,
         \A a \in 1..Len(ops) + 1 : <<a, a>> \in S,
         \A a, m, b \in 1..Len(ops) + 1 :
           /\ m = Middle(a, b)
           /\ a <= m
           /\ m < b
           /\ <<a, m>> \in S
           /\ <<m + 1, b>> \in S
           => <<a, b>> \in S
  PROVE  \A a, b \in 1..Len(ops) + 1 : a <= b => <<a, b>> \in S
  <1> DEFINE n == Len(ops) + 1
  <1>1. n \in Nat
    BY TermsAreResults
  <1>2. ASSUME NEW a \in 1..n, NEW b \in 1..n, a < b,
               <<a, Middle(a, b)>> \in S, <<Middle(a, b) + 1, b>> \in S
        PROVE  <<a, b>> \in S
    <2> DEFINE m == Middle(a, b)
    <2>1. m \in Nat /\ a <= m /\ m < b
      BY <1>1, <1>2, MiddleBetween
    <2> HIDE DEF m, n
    <2>2. m \in 1..n
      BY <1>1, <2>1
    <2> QED BY <1>2, <2>1, <2>2 DEF m, n
  <1>3. \A a, b \in 1..n :
          /\ a < b
          /\ <<a, Middle(a, b)>> \in S
          /\ <<Middle(a, b) + 1, b>> \in S
          => <<a, b>> \in S
    BY <1>2
  <1>4. \A a \in 1..n : <<a, a>> \in S
    OBVIOUS
  <1> HIDE DEF n
  <1>5. \A a, b \in 1..n : a <= b => <<a, b>> \in S
    BY <1>1, <1>3, <1>4, GroupInduction
  <1> QED BY <1>5 DEF n

\* A group amounts to what its terms say.
LEMMA GroupValues ==
  ASSUME Chain, NEW f, Solution(f)
  PROVE  \A a, b \in 1..Len(ops) + 1 :
           a <= b =>
             LET v     == Value[Group(f, a, b)]
                 bools == {TryBool(terms[i]) : i \in a..b}
             IN /\ IsResult(v)
                /\ TryBool(v) = Decisive <=> Decisive \in bools
                /\ TryBool(v) = Neutral <=> bools = {Neutral}
                /\ TryBool(v) \in bools
                /\ a < b => TryBool(v) = v
  <1> DEFINE N == Len(ops)
             Bools(a, b) == {TryBool(terms[i]) : i \in a..b}
             Says(a, b) ==
               LET v == Value[Group(f, a, b)]
               IN /\ IsResult(v)
                  /\ TryBool(v) = Decisive <=> Decisive \in Bools(a, b)
                  /\ TryBool(v) = Neutral <=> Bools(a, b) = {Neutral}
                  /\ TryBool(v) \in Bools(a, b)
                  /\ a < b => TryBool(v) = v
             S == {p \in (1..N + 1) \X (1..N + 1) : Says(p[1], p[2])}
  <1>0. N \in Nat /\ \A i \in 1..N + 1 : IsResult(terms[i])
    BY TermsAreResults
  <1>1. ASSUME NEW a \in 1..N + 1 PROVE <<a, a>> \in S
    <2>1. Value[Group(f, a, a)] = terms[a] /\ IsResult(terms[a])
      BY <1>0, LeafReadings
    <2>2. a..a = {a} /\ ~(a < a)
      BY <1>0
    <2>3. Bools(a, a) = {TryBool(terms[a])}
      BY <2>2
    <2> HIDE DEF Bools
    <2>4. Says(a, a)
      BY <2>1, <2>2, <2>3
    <2> QED BY <2>4
  <1>2. ASSUME NEW a \in 1..N + 1, NEW m \in 1..N + 1, NEW b \in 1..N + 1,
               m = Middle(a, b), a <= m, m < b, <<a, m>> \in S, <<m + 1, b>> \in S
        PROVE  <<a, b>> \in S
    <2> DEFINE l == Value[Group(f, a, m)]
               r == Value[Group(f, m + 1, b)]
               v == Value[Group(f, a, b)]
    <2>0. a < b
      BY <1>0, <1>2
    <2>1. Says(a, m) /\ Says(m + 1, b)
      <3> HIDE DEF Says
      <3> QED BY <1>2
    <2>2. v = Connect(l, r)
      <3>1. m = Middle(a, b)
        BY <1>2
      <3> HIDE DEF S
      <3> QED BY <2>0, <3>1, NodeReadings
    <2>3. a..b = (a..m) \cup (m + 1..b)
      BY <1>0, <1>2
    <2>4. Bools(a, b) = Bools(a, m) \cup Bools(m + 1, b)
      BY <2>3
    <2> HIDE DEF Bools
    <2>5. /\ IsResult(v) /\ TryBool(v) = v
          /\ v = Decisive <=> TryBool(l) = Decisive \/ TryBool(r) = Decisive
          /\ v = Neutral <=> TryBool(l) = Neutral /\ TryBool(r) = Neutral
          /\ v \in {TryBool(l), TryBool(r)}
      <3>1. IsResult(l) /\ IsResult(r)
        BY <2>1
      <3>2. function \in {"_||_", "_&&_"}
        BY DEF Chain
      <3> HIDE DEF l, r, v
      <3> QED BY <2>2, <3>1, <3>2, ConnectOfResults
    <2>6. /\ TryBool(l) \in Bools(a, m) /\ TryBool(r) \in Bools(m + 1, b)
          /\ TryBool(l) = Decisive <=> Decisive \in Bools(a, m)
          /\ TryBool(r) = Decisive <=> Decisive \in Bools(m + 1, b)
          /\ TryBool(l) = Neutral <=> Bools(a, m) = {Neutral}
          /\ TryBool(r) = Neutral <=> Bools(m + 1, b) = {Neutral}
      BY <2>1
    <2> HIDE DEF l, r
    <2>7. TryBool(v) = Decisive <=> Decisive \in Bools(a, b)
      <3> HIDE DEF v
      <3> QED BY <2>4, <2>5, <2>6
    <2>8. TryBool(v) = Neutral <=> Bools(a, b) = {Neutral}
      <3> HIDE DEF v
      <3> QED BY <2>4, <2>5, <2>6
    <2>9. TryBool(v) \in Bools(a, b)
      <3> HIDE DEF v
      <3> QED BY <2>4, <2>5, <2>6
    <2>10. Says(a, b)
      BY <2>5, <2>7, <2>8, <2>9
    <2> HIDE DEF Says
    <2> QED BY <2>10
  <1>3. \A a, b \in 1..N + 1 : a <= b => <<a, b>> \in S
    <2>1. \A a, m, b \in 1..N + 1 :
            /\ m = Middle(a, b)
            /\ a <= m
            /\ m < b
            /\ <<a, m>> \in S
            /\ <<m + 1, b>> \in S
            => <<a, b>> \in S
      <3> HIDE DEF S
      <3> QED BY <1>2
    <2> HIDE DEF S
    <2> QED BY <1>1, <2>1, GroupsIn
  <1> HIDE DEF Says
  <1>4. \A a, b \in 1..N + 1 : a <= b => Says(a, b)
    BY <1>3
  <1> QED BY <1>4 DEF Says

\* Of a group, the terms up to the first decisive one are evaluated.
LEMMA GroupEvaluates ==
  ASSUME Chain, NEW f, Solution(f)
  PROVE  \A a, b \in 1..Len(ops) + 1 :
           a <= b => Evaluated[Group(f, a, b)] =
                       {i \in a..b : \A j \in a..i - 1 : terms[j] # Decisive}
  <1> DEFINE N == Len(ops)
             UpTo(a, b) == {i \in a..b : \A j \in a..i - 1 : terms[j] # Decisive}
             S == {p \in (1..N + 1) \X (1..N + 1) :
                     Evaluated[Group(f, p[1], p[2])] = UpTo(p[1], p[2])}
  <1>0. N \in Nat /\ \A i \in 1..N + 1 : IsResult(terms[i])
    BY TermsAreResults
  <1>1. ASSUME NEW a \in 1..N + 1 PROVE <<a, a>> \in S
    <2>1. Evaluated[Group(f, a, a)] = {a}
      BY LeafReadings
    <2>2. UpTo(a, a) = {a}
      BY <1>0
    <2> HIDE DEF UpTo
    <2> QED BY <2>1, <2>2
  <1>2. ASSUME NEW a \in 1..N + 1, NEW m \in 1..N + 1, NEW b \in 1..N + 1,
               m = Middle(a, b), a <= m, m < b, <<a, m>> \in S, <<m + 1, b>> \in S
        PROVE  <<a, b>> \in S
    <2> DEFINE l == Group(f, a, m)
               r == Group(f, m + 1, b)
    <2>0. a < b
      BY <1>0, <1>2
    <2>1. Evaluated[l] = UpTo(a, m) /\ Evaluated[r] = UpTo(m + 1, b)
      <3> HIDE DEF UpTo
      <3> QED BY <1>2
    <2>2. Evaluated[Group(f, a, b)] =
            Evaluated[l] \cup (IF Value[l] = Decisive THEN {} ELSE Evaluated[r])
      <3>1. m = Middle(a, b)
        BY <1>2
      <3> HIDE DEF S
      <3> QED BY <2>0, <3>1, NodeReadings
    <2>3. Value[l] = Decisive <=> \E j \in a..m : terms[j] = Decisive
      <3>1. Decisive \in {OkTrue, OkFalse}
        BY DEF Decisive
      <3>2. /\ IsResult(Value[l])
            /\ TryBool(Value[l]) = Decisive <=> Decisive \in {TryBool(terms[i]) : i \in a..m}
        BY <1>2, GroupValues
      <3>3. \A i \in a..m : IsResult(terms[i])
        BY <1>0
      <3>4. \A i \in a..m : TryBool(terms[i]) = Decisive <=> terms[i] = Decisive
        BY <3>1, <3>3, TryBoolOfResult
      <3>5. TryBool(Value[l]) = Decisive <=> Value[l] = Decisive
        BY <3>1, <3>2, TryBoolOfResult
      <3> HIDE DEF l
      <3> QED BY <3>2, <3>4, <3>5
    <2>4. CASE Value[l] = Decisive
      <3>1. PICK j \in a..m : terms[j] = Decisive
        BY <2>3, <2>4
      <3>2. ASSUME NEW i \in m + 1..b PROVE i \notin UpTo(a, b)
        <4>1. j \in a..i - 1
          BY <1>0
        <4> QED BY <3>1, <4>1
      <3>3. \A i : i \in UpTo(a, b) <=> i \in UpTo(a, m)
        <4>1. \A i : i \in a..b <=> i \in a..m \/ i \in m + 1..b
          BY <1>0, <1>2
        <4>2. \A i \in m + 1..b : i \notin a..m
          BY <1>0
        <4> QED BY <3>2, <4>1, <4>2
      <3>4. UpTo(a, b) = UpTo(a, m)
        <4> HIDE DEF UpTo
        <4>1. UpTo(a, b) \subseteq UpTo(a, m) /\ UpTo(a, m) \subseteq UpTo(a, b)
          BY <3>3
        <4> QED BY <4>1
      <3> HIDE DEF UpTo, l, r
      <3> QED BY <2>1, <2>2, <2>4, <3>4
    <2>5. CASE Value[l] # Decisive
      <3>1. \A j \in a..m : terms[j] # Decisive
        BY <2>3, <2>5
      <3>2. \A i : i \in a..b <=> i \in a..m \/ i \in m + 1..b
        BY <1>0, <1>2
      <3>3. \A i \in a..m : i \in UpTo(a, b)
        <4>1. \A i \in a..m : \A j \in a..i - 1 : j \in a..m
          BY <1>0
        <4> QED BY <3>1, <3>2, <4>1
      <3>4. \A i \in a..m : i \in UpTo(a, m)
        <4>1. \A i \in a..m : \A j \in a..i - 1 : j \in a..m
          BY <1>0
        <4> QED BY <3>1, <4>1
      <3>5. ASSUME NEW i \in m + 1..b PROVE i \in UpTo(a, b) <=> i \in UpTo(m + 1, b)
        <4>1. \A j : j \in a..i - 1 <=> j \in a..m \/ j \in m + 1..i - 1
          BY <1>0, <1>2
        <4>2. i \in a..b
          BY <3>2
        <4>3. (\A j \in a..i - 1 : terms[j] # Decisive)
                <=> (\A j \in m + 1..i - 1 : terms[j] # Decisive)
          BY <3>1, <4>1
        <4> QED BY <4>2, <4>3
      <3>6. UpTo(a, b) \subseteq a..b /\ UpTo(a, m) \subseteq a..m /\ UpTo(m + 1, b) \subseteq m + 1..b
        OBVIOUS
      <3>7. \A i : i \in UpTo(a, b) <=> i \in UpTo(a, m) \cup UpTo(m + 1, b)
        <4> HIDE DEF UpTo
        <4>1. ASSUME NEW i, i \in UpTo(a, b) PROVE i \in UpTo(a, m) \cup UpTo(m + 1, b)
          <5>1. i \in a..m \/ i \in m + 1..b
            BY <3>2, <3>6, <4>1
          <5> QED BY <3>4, <3>5, <4>1, <5>1
        <4>2. ASSUME NEW i, i \in UpTo(a, m) \cup UpTo(m + 1, b) PROVE i \in UpTo(a, b)
          <5>1. CASE i \in UpTo(a, m)
            BY <3>3, <3>6, <5>1
          <5>2. CASE i \in UpTo(m + 1, b)
            BY <3>5, <3>6, <5>2
          <5> QED BY <4>2, <5>1, <5>2
        <4> QED BY <4>1, <4>2
      <3>8. UpTo(a, b) = UpTo(a, m) \cup UpTo(m + 1, b)
        <4> HIDE DEF UpTo
        <4> QED BY <3>7
      <3> HIDE DEF UpTo, l, r
      <3> QED BY <2>1, <2>2, <2>5, <3>8
    <2>6. Evaluated[Group(f, a, b)] = UpTo(a, b)
      <3> HIDE DEF UpTo, l, r
      <3> QED BY <2>4, <2>5
    <2> HIDE DEF UpTo, l, r
    <2> QED BY <2>6
  <1>3. \A a, b \in 1..N + 1 : a <= b => <<a, b>> \in S
    <2>1. \A a, m, b \in 1..N + 1 :
            /\ m = Middle(a, b)
            /\ a <= m
            /\ m < b
            /\ <<a, m>> \in S
            /\ <<m + 1, b>> \in S
            => <<a, b>> \in S
      <3> HIDE DEF S
      <3> QED BY <1>2
    <2> HIDE DEF S
    <2> QED BY <1>1, <2>1, GroupsIn
  <1>4. ASSUME NEW a \in 1..N + 1, NEW b \in 1..N + 1, a <= b
        PROVE  Evaluated[Group(f, a, b)] = UpTo(a, b)
    <2>1. <<a, b>> \in S
      BY <1>3, <1>4
    <2> HIDE DEF UpTo
    <2> QED BY <2>1
  <1> QED BY <1>4

\* The recursion in Room has a solution, and there is always room.
LEMMA Rooms ==
  ASSUME Len(ops) \in Nat
  PROVE  /\ Room[0] = 1
         /\ \A h \in 0..Len(ops) : Room[h] \in Nat /\ Room[h] >= 1
         /\ \A h \in 0..Len(ops) - 1 : Room[h + 1] = 2 * Room[h]
  <1> DEFINE N == Len(ops)
             Solves(f, n) == f = [h \in 0..n |-> IF h = 0 THEN 1 ELSE 2 * f[h - 1]]
             S == {n \in Nat : \E f : Solves(f, n)}
  <1>1. 0 \in S
    <2>1. Solves([h \in 0..0 |-> 1], 0)
      OBVIOUS
    <2> QED BY <2>1
  <1>2. ASSUME NEW n \in Nat, n \in S PROVE n + 1 \in S
    <2>1. PICK f : Solves(f, n)
      BY <1>2
    <2> DEFINE g == [h \in 0..n + 1 |-> IF h <= n THEN f[h] ELSE 2 * f[n]]
    <2>2. ASSUME NEW h \in 0..n + 1 PROVE g[h] = IF h = 0 THEN 1 ELSE 2 * g[h - 1]
      <3>1. CASE h = 0
        <4>1. f[0] = 1 /\ g[0] = f[0]
          BY <2>1
        <4> HIDE DEF g
        <4> QED BY <3>1, <4>1
      <3>2. CASE h # 0 /\ h <= n
        <4>1. h \in 0..n /\ h - 1 \in 0..n /\ h - 1 \in 0..n + 1 /\ h - 1 <= n
          BY <3>2
        <4>2. g[h - 1] = f[h - 1] /\ g[h] = f[h]
          BY <4>1, <3>2
        <4>3. f[h] = 2 * f[h - 1]
          BY <2>1, <3>2, <4>1
        <4> HIDE DEF g
        <4> QED BY <3>2, <4>2, <4>3
      <3>3. CASE h = n + 1
        <4>1. h - 1 = n /\ n \in 0..n + 1 /\ ~(h <= n) /\ h # 0
          BY <3>3
        <4>2. g[h - 1] = f[n] /\ g[h] = 2 * f[n]
          BY <4>1
        <4> HIDE DEF g
        <4> QED BY <4>1, <4>2
      <3> QED BY <3>1, <3>2, <3>3
    <2>3. Solves(g, n + 1)
      <3>1. g = [h \in 0..n + 1 |-> g[h]]
        OBVIOUS
      <3> HIDE DEF g
      <3> QED BY <2>2, <3>1
    <2> HIDE DEF g, Solves
    <2> QED BY <2>3
  <1>3. \A n \in Nat : n \in S
    <2> HIDE DEF S
    <2> QED BY <1>1, <1>2, Induction
  <1>4. PICK f : Solves(f, N)
    BY <1>3
  <1>5. Room = [h \in 0..N |-> IF h = 0 THEN 1 ELSE 2 * Room[h - 1]]
    BY <1>4 DEF Room
  <1>6. Room[0] = 1
    <2>1. 0 \in 0..N
      OBVIOUS
    <2> QED BY <1>5, <2>1
  <1>7. ASSUME NEW h \in 0..N - 1 PROVE Room[h + 1] = 2 * Room[h]
    <2>1. h + 1 \in 0..N /\ h + 1 # 0 /\ (h + 1) - 1 = h
      OBVIOUS
    <2> QED BY <1>5, <2>1
  <1>8. \A h \in 0..N : Room[h] \in Nat /\ Room[h] >= 1
    <2> DEFINE R == {h \in Nat : h <= N => Room[h] \in Nat /\ Room[h] >= 1}
    <2>1. 0 \in R
      BY <1>6
    <2>2. ASSUME NEW h \in Nat, h \in R PROVE h + 1 \in R
      <3> SUFFICES ASSUME h + 1 <= N PROVE Room[h + 1] \in Nat /\ Room[h + 1] >= 1
        OBVIOUS
      <3>1. h <= N /\ h \in 0..N - 1
        OBVIOUS
      <3>2. Room[h + 1] = 2 * Room[h]
        BY <1>7, <3>1
      <3>3. Room[h] \in Nat /\ Room[h] >= 1
        BY <2>2, <3>1
      <3> QED BY <3>2, <3>3
    <2>3. \A h \in Nat : h \in R
      <3> HIDE DEF R
      <3> QED BY <2>1, <2>2, Induction
    <2> QED BY <2>3
  <1> QED BY <1>6, <1>7, <1>8

\* The left side takes the larger half of the terms, and that is not much.
LEMMA HalvesOfGroup ==
  ASSUME NEW a \in Nat, NEW b \in Nat, a < b
  PROVE  LET m == Middle(a, b)
         IN 2 * (m - a + 1) - 1 <= b - a + 1 /\ 2 * (b - m) <= b - a + 1
  BY DEF Middle

\* A group is no higher than its terms make necessary.
LEMMA GroupHeights ==
  ASSUME Chain, NEW f, Solution(f)
  PROVE  \A a, b \in 1..Len(ops) + 1 :
           a <= b =>
             LET h == Height[Group(f, a, b)]
             IN h \in 0..b - a /\ (h > 0 => b - a + 1 > Room[h - 1])
  <1> DEFINE N == Len(ops)
             Fits(a, b) ==
               LET h == Height[Group(f, a, b)]
               IN h \in 0..b - a /\ (h > 0 => b - a + 1 > Room[h - 1])
             S == {p \in (1..N + 1) \X (1..N + 1) : p[1] <= p[2] => Fits(p[1], p[2])}
  <1>0. N \in Nat
    BY TermsAreResults
  <1>1. ASSUME NEW a \in 1..N + 1 PROVE <<a, a>> \in S
    <2>1. Height[Group(f, a, a)] = 0
      BY LeafReadings
    <2>2. Fits(a, a)
      BY <1>0, <2>1
    <2> HIDE DEF Fits
    <2> QED BY <2>2
  <1>2. ASSUME NEW a \in 1..N + 1, NEW m \in 1..N + 1, NEW b \in 1..N + 1,
               m = Middle(a, b), a <= m, m < b, <<a, m>> \in S, <<m + 1, b>> \in S
        PROVE  <<a, b>> \in S
    <2> DEFINE hl == Height[Group(f, a, m)]
               hr == Height[Group(f, m + 1, b)]
               h  == Height[Group(f, a, b)]
    <2>0. a < b /\ m + 1 <= b
      BY <1>0, <1>2
    <2>1. Fits(a, m) /\ Fits(m + 1, b)
      <3> HIDE DEF Fits
      <3> QED BY <1>2, <2>0
    <2>2. /\ hl \in 0..m - a /\ (hl > 0 => m - a + 1 > Room[hl - 1])
          /\ hr \in 0..b - (m + 1) /\ (hr > 0 => b - (m + 1) + 1 > Room[hr - 1])
      BY <2>1
    <2>3. h = 1 + (IF hl < hr THEN hr ELSE hl)
      <3>1. m = Middle(a, b)
        BY <1>2
      <3> HIDE DEF S
      <3> QED BY <2>0, <3>1, NodeReadings
    <2>4. 2 * (m - a + 1) - 1 <= b - a + 1 /\ 2 * (b - m) <= b - a + 1
      BY <1>0, <1>2, <2>0, HalvesOfGroup
    <2> HIDE DEF hl, hr, h
    <2>5. /\ hl \in 0..N - 1 /\ hr \in 0..N - 1 /\ hl \in Nat /\ hr \in Nat
          /\ h \in 0..b - a /\ h > 0
      <3>1. /\ a \in Nat /\ m \in Nat /\ b \in Nat
            /\ 1 <= a /\ a <= m /\ m < b /\ b <= N + 1
        BY <1>0, <1>2
      <3>2. hl \in Nat /\ hl <= m - a /\ hr \in Nat /\ hr <= b - (m + 1)
        BY <2>2, <3>1
      <3>3. hl \in 0..N - 1 /\ hr \in 0..N - 1
        BY <1>0, <3>1, <3>2
      <3>4. h \in 0..b - a /\ h > 0
        BY <2>3, <3>1, <3>2
      <3> QED BY <3>2, <3>3, <3>4
    <2>6. b - a + 1 > Room[hl]
      <3>1. CASE hl = 0
        BY <1>0, <2>0, <3>1, Rooms
      <3>2. CASE hl # 0
        <4>1. hl - 1 \in 0..N - 1 /\ hl - 1 \in 0..N /\ (hl - 1) + 1 = hl /\ hl > 0
          BY <1>0, <2>5, <3>2
        <4>2. Room[hl] = 2 * Room[hl - 1] /\ Room[hl - 1] \in Nat
          BY <1>0, <4>1, Rooms
        <4>3. m - a + 1 > Room[hl - 1]
          BY <2>2, <4>1
        <4> QED BY <1>0, <2>4, <4>2, <4>3
      <3> QED BY <3>1, <3>2
    <2>7. b - a + 1 > Room[hr]
      <3>1. CASE hr = 0
        BY <1>0, <2>0, <3>1, Rooms
      <3>2. CASE hr # 0
        <4>1. hr - 1 \in 0..N - 1 /\ hr - 1 \in 0..N /\ (hr - 1) + 1 = hr /\ hr > 0
          BY <1>0, <2>5, <3>2
        <4>2. Room[hr] = 2 * Room[hr - 1] /\ Room[hr - 1] \in Nat
          BY <1>0, <4>1, Rooms
        <4>3. b - m > Room[hr - 1]
          BY <1>0, <2>2, <4>1
        <4> QED BY <1>0, <2>4, <4>2, <4>3
      <3> QED BY <3>1, <3>2
    <2>8. b - a + 1 > Room[h - 1]
      <3>1. h - 1 = hl \/ h - 1 = hr
        BY <2>3, <2>5
      <3> QED BY <2>6, <2>7, <3>1
    <2>9. Fits(a, b)
      BY <2>5, <2>8 DEF h
    <2> HIDE DEF Fits
    <2> QED BY <2>9
  <1>3. \A a, b \in 1..N + 1 : a <= b => <<a, b>> \in S
    <2>1. \A a, m, b \in 1..N + 1 :
            /\ m = Middle(a, b)
            /\ a <= m
            /\ m < b
            /\ <<a, m>> \in S
            /\ <<m + 1, b>> \in S
            => <<a, b>> \in S
      <3> HIDE DEF S
      <3> QED BY <1>2
    <2> HIDE DEF S
    <2> QED BY <1>1, <2>1, GroupsIn
  <1> HIDE DEF Fits
  <1>4. \A a, b \in 1..N + 1 : a <= b => Fits(a, b)
    BY <1>3
  <1> QED BY <1>4 DEF Fits

\* What is at a place of the chain as written, and a part of it: the n places behind place i.
Written(k) == IF k % 2 = 1 THEN <<"term", (k + 1) \div 2>> ELSE <<"op", ops[k \div 2]>>
Part(i, n) == [k \in 1..n |-> Written(i + k)]

\* Parts that follow each other make a part.
LEMMA PartsJoin ==
  ASSUME NEW i \in Nat, NEW n \in Nat, NEW p \in Nat
  PROVE  Part(i, n) \o Part(i + n, p) = Part(i, n + p)
  <1> DEFINE S == {Written(k) : k \in Nat}
             s == Part(i, n)
             t == Part(i + n, p)
             u == Part(i, n + p)
  <1>1. /\ s \in Seq(S) /\ Len(s) = n /\ \A k \in 1..n : s[k] = Written(i + k)
        /\ t \in Seq(S) /\ Len(t) = p /\ \A k \in 1..p : t[k] = Written((i + n) + k)
        /\ u \in Seq(S) /\ Len(u) = n + p /\ \A k \in 1..n + p : u[k] = Written(i + k)
    <2>1. ASSUME NEW j \in Nat, NEW q \in Nat
          PROVE  /\ Part(j, q) \in Seq(S) /\ Len(Part(j, q)) = q
                 /\ \A k \in 1..q : Part(j, q)[k] = Written(j + k)
      <3>1. \A k \in 1..q : Written(j + k) \in S
        OBVIOUS
      <3> HIDE DEF S
      <3> QED BY <3>1 DEF Part
    <2>2. i + n \in Nat /\ n + p \in Nat
      OBVIOUS
    <2> HIDE DEF S
    <2> QED BY <2>1, <2>2
  <1> HIDE DEF S, s, t, u
  <1>2. /\ s \o t \in Seq(S) /\ Len(s \o t) = n + p
        /\ \A k \in 1..n + p : (s \o t)[k] = IF k <= n THEN s[k] ELSE t[k - n]
    BY <1>1, ConcatProperties
  <1>3. ASSUME NEW k \in 1..n + p PROVE (s \o t)[k] = u[k]
    <2>1. CASE k <= n
      <3>1. k \in 1..n
        BY <2>1
      <3> QED BY <1>1, <1>2, <2>1, <3>1
    <2>2. CASE ~(k <= n)
      <3>1. k - n \in 1..p /\ (i + n) + (k - n) = i + k
        BY <2>2
      <3>2. (s \o t)[k] = t[k - n]
        BY <1>2, <2>2
      <3>3. t[k - n] = Written(i + k)
        BY <1>1, <3>1
      <3> QED BY <1>1, <3>2, <3>3
    <2> QED BY <2>1, <2>2
  <1>4. s \o t = u
    BY <1>1, <1>2, <1>3, SeqEqual
  <1> QED BY <1>4 DEF s, t, u

\* A group reads as its part of the chain.
LEMMA GroupReads ==
  ASSUME Chain, NEW f, Solution(f)
  PROVE  \A a, b \in 1..Len(ops) + 1 :
           a <= b => InOrder[Group(f, a, b)] = Part(2 * a - 2, 2 * (b - a) + 1)
  <1> DEFINE N == Len(ops)
             Reads(a, b) == InOrder[Group(f, a, b)] = Part(2 * a - 2, 2 * (b - a) + 1)
             S == {p \in (1..N + 1) \X (1..N + 1) : p[1] <= p[2] => Reads(p[1], p[2])}
  <1>0. N \in Nat
    BY TermsAreResults
  <1>1. ASSUME NEW a \in 1..N + 1 PROVE <<a, a>> \in S
    <2>1. InOrder[Group(f, a, a)] = <<<<"term", a>>>>
      BY LeafReadings
    <2>2. 2 * (a - a) + 1 = 1 /\ 1..1 = {1}
      BY <1>0
    <2>3. Written((2 * a - 2) + 1) = <<"term", a>>
      <3>1. ((2 * a - 2) + 1) % 2 = 1 /\ (((2 * a - 2) + 1) + 1) \div 2 = a
        BY <1>0
      <3> QED BY <3>1 DEF Written
    <2>4. Part(2 * a - 2, 2 * (a - a) + 1) = <<<<"term", a>>>>
      BY <2>2, <2>3 DEF Part
    <2>5. Reads(a, a)
      BY <2>1, <2>4
    <2> HIDE DEF Reads
    <2> QED BY <2>5
  <1>2. ASSUME NEW a \in 1..N + 1, NEW m \in 1..N + 1, NEW b \in 1..N + 1,
               m = Middle(a, b), a <= m, m < b, <<a, m>> \in S, <<m + 1, b>> \in S
        PROVE  <<a, b>> \in S
    <2>0. /\ a \in Nat /\ m \in Nat /\ b \in Nat
          /\ 1 <= a /\ a <= m /\ m < b /\ b <= N + 1
          /\ a < b /\ m + 1 <= b
      <3> HIDE DEF S
      <3> QED BY <1>0, <1>2
    <2>1. Reads(a, m) /\ Reads(m + 1, b)
      <3> HIDE DEF Reads
      <3> QED BY <1>2, <2>0
    <2>2. Reading(f, a, b) = Joined(Reading(f, a, m), OpAt(m), Reading(f, m + 1, b))
      <3>1. m = Middle(a, b)
        BY <1>2
      <3>2. a < b
        BY <2>0
      <3> HIDE DEF S, Reads
      <3> QED BY <3>1, <3>2, NodeInOrder
    <2>3. OpAt(m) = Part(2 * m - 1, 1)
      <3>1. ((2 * m - 1) + 1) % 2 = 0 /\ ((2 * m - 1) + 1) \div 2 = m /\ 1..1 = {1}
        BY <2>0
      <3>2. Written((2 * m - 1) + 1) = <<"op", ops[m]>>
        BY <3>1 DEF Written
      <3> QED BY <3>1, <3>2 DEF Part, OpAt
    <2>4. PICK i, n, p : i = 2 * a - 2 /\ n = 2 * (m - a) + 1 /\ p = 2 * (b - (m + 1)) + 1
      OBVIOUS
    <2>5. /\ i \in Nat /\ n \in Nat /\ p \in Nat /\ 1 \in Nat /\ n + 1 \in Nat /\ i + n \in Nat
          /\ 2 * m - 1 = i + n
          /\ 2 * (m + 1) - 2 = i + (n + 1)
          /\ 2 * (b - a) + 1 = (n + 1) + p
      BY <2>0, <2>4
    <2>6. Part(i, n) \o Part(i + n, 1) \o Part(i + (n + 1), p) = Part(i, (n + 1) + p)
      <3>1. Part(i, n) \o Part(i + n, 1) = Part(i, n + 1)
        BY <2>5, PartsJoin
      <3>2. Part(i, n + 1) \o Part(i + (n + 1), p) = Part(i, (n + 1) + p)
        BY <2>5, PartsJoin
      <3> QED BY <3>1, <3>2
    <2>7. /\ Reading(f, a, m) = Part(i, n)
          /\ OpAt(m) = Part(i + n, 1)
          /\ Reading(f, m + 1, b) = Part(i + (n + 1), p)
      BY <2>1, <2>3, <2>4, <2>5 DEF Reading
    <2>8. Reads(a, b)
      <3>1. Reading(f, a, b) = Part(i, (n + 1) + p)
        BY <2>2, <2>6, <2>7 DEF Joined
      <3> QED BY <2>4, <2>5, <3>1 DEF Reading
    <2> HIDE DEF Reads
    <2> QED BY <2>8
  <1>3. \A a, b \in 1..N + 1 : a <= b => <<a, b>> \in S
    <2>1. \A a, m, b \in 1..N + 1 :
            /\ m = Middle(a, b)
            /\ a <= m
            /\ m < b
            /\ <<a, m>> \in S
            /\ <<m + 1, b>> \in S
            => <<a, b>> \in S
      <3> HIDE DEF S
      <3> QED BY <1>2
    <2> HIDE DEF S
    <2> QED BY <1>1, <2>1, GroupsIn
  <1> HIDE DEF Reads
  <1>4. \A a, b \in 1..N + 1 : a <= b => Reads(a, b)
    BY <1>3
  <1> QED BY <1>4 DEF Reads

-----------------------------------------------------------------------------
(* Invariants. *)

\* The tree made is the one that balanced_tree makes of the operators, and they stay.
TreeIsBalanced ==
  Grouped => tree = <<IF Len(terms) = 1 THEN Leaf(1) ELSE Balanced(ops)>>

\* The invariant the theorems rest on.
IInv == TypeOK /\ TreeIsBalanced

\* A manager starts with its first term.
LEMMA IInvInit == Init => IInv
  <1> SUFFICES ASSUME Init PROVE IInv
    OBVIOUS
  <1>1. PICK t \in Terms : terms = <<t>>
    BY DEF Init
  <1>2. terms \in Seq(Terms) /\ Len(terms) = 1
    BY <1>1
  <1>3. ops = <<>> /\ ops \in Seq(Nat) /\ Len(ops) = 0 /\ DOMAIN ops = {}
    BY DEF Init
  <1>4. TypeOK
    BY <1>2, <1>3 DEF Init, TypeOK
  <1>5. TreeIsBalanced
    BY DEF Init, TreeIsBalanced, Grouped
  <1> QED BY <1>4, <1>5 DEF IInv

\* A term comes with an operator, whose id is behind all others.
LEMMA AddTermInv ==
  ASSUME IInv, NEW t \in Terms, AddTerm(t)
  PROVE  IInv'
  <1>1. /\ function \in {"_||_", "_&&_"} /\ terms \in Seq(Terms) /\ ops \in Seq(Nat)
        /\ Len(terms) = Len(ops) + 1 /\ nextId = 2 * Len(terms)
        /\ \A i, j \in DOMAIN ops : i < j => ops[i] < ops[j]
        /\ \A i \in DOMAIN ops : ops[i] < nextId
    BY DEF IInv, TypeOK
  <1>2. /\ function' = function /\ tree' = tree /\ tree = <<>>
        /\ terms' = Append(terms, t) /\ ops' = Append(ops, nextId + 1) /\ nextId' = nextId + 2
    BY DEF AddTerm
  <1>3. Len(ops) \in Nat /\ Len(terms) \in Nat /\ nextId \in Nat /\ DOMAIN ops = 1..Len(ops)
    BY <1>1, LenProperties
  <1>4. terms' \in Seq(Terms) /\ Len(terms') = Len(terms) + 1
    BY <1>1, <1>2, AppendProperties
  <1>5. /\ ops' \in Seq(Nat) /\ Len(ops') = Len(ops) + 1
        /\ \A i \in 1..Len(ops) : ops'[i] = ops[i]
        /\ ops'[Len(ops) + 1] = nextId + 1
    <2>1. nextId + 1 \in Nat
      BY <1>3
    <2> QED BY <1>1, <1>2, <2>1, AppendProperties
  <1>6. DOMAIN ops' = 1..Len(ops) + 1
    BY <1>5, LenProperties
  <1>7. \A i \in 1..Len(ops) : ops[i] \in Nat
    BY <1>1, <1>3
  <1>8. ASSUME NEW i \in DOMAIN ops' PROVE ops'[i] < nextId'
    <2>1. CASE i = Len(ops) + 1
      BY <1>2, <1>3, <1>5, <2>1
    <2>2. CASE i # Len(ops) + 1
      <3>1. i \in 1..Len(ops)
        BY <1>3, <1>6, <2>2
      <3> QED BY <1>1, <1>2, <1>3, <1>5, <1>7, <3>1
    <2> QED BY <2>1, <2>2
  <1>9. ASSUME NEW i \in DOMAIN ops', NEW j \in DOMAIN ops', i < j PROVE ops'[i] < ops'[j]
    <2>1. i \in 1..Len(ops)
      BY <1>3, <1>6, <1>9
    <2>2. CASE j = Len(ops) + 1
      BY <1>1, <1>3, <1>5, <1>7, <2>1, <2>2
    <2>3. CASE j # Len(ops) + 1
      <3>1. j \in 1..Len(ops)
        BY <1>3, <1>6, <2>3
      <3> QED BY <1>1, <1>3, <1>5, <1>9, <2>1, <3>1
    <2> QED BY <2>2, <2>3
  <1>10. TypeOK'
    <2>1. nextId' = 2 * Len(terms') /\ Len(terms') = Len(ops') + 1
      BY <1>1, <1>2, <1>3, <1>4, <1>5
    <2> QED BY <1>1, <1>2, <1>4, <1>5, <1>8, <1>9, <2>1 DEF TypeOK
  <1>11. TreeIsBalanced'
    BY <1>2 DEF TreeIsBalanced, Grouped
  <1> QED BY <1>10, <1>11 DEF IInv

\* No step breaks the invariant.
LEMMA IInvNext == IInv /\ [Next]_vars => IInv'
  <1> SUFFICES ASSUME IInv, [Next]_vars PROVE IInv'
    OBVIOUS
  <1>1. ASSUME NEW t \in Terms, AddTerm(t) PROVE IInv'
    BY <1>1, AddTermInv
  <1>2. CASE Expr
    BY <1>2 DEF Expr, IInv, TypeOK, TreeIsBalanced, Grouped
  <1>3. CASE UNCHANGED vars
    BY <1>3 DEF vars, IInv, TypeOK, TreeIsBalanced, Grouped
  <1> QED BY <1>1, <1>2, <1>3 DEF Next

\* The invariant holds throughout.
THEOREM Invariance == Spec => []IInv
  BY IInvInit, IInvNext, PTL DEF Spec

\* The two vectors of a LogicManager keep step, and an operator's id is behind the ids of the
\* operators before it and is taken only once.
THEOREM TypeCorrect == Spec => []TypeOK
  <1>1. IInv => TypeOK
    BY DEF IInv
  <1> QED BY Invariance, <1>1, PTL

\* The tree made is the group of all terms.
LEMMA TreeIsGroup ==
  ASSUME IInv, Grouped
  PROVE  /\ Chain
         /\ \E f : Solution(f) /\ tree[1] = Group(f, 1, Len(terms))
  <1>1. Chain
    BY DEF IInv, TypeOK, Chain
  <1>2. Len(ops) \in Nat /\ Len(terms) = Len(ops) + 1
    BY <1>1, TermsAreResults
  <1>3. PICK f : Solution(f) /\ Balanced(ops) = f[<<0, Len(ops) - 1>>]
    BY <1>2, BalancedRecursion DEF Solution
  <1>4. tree[1] = IF Len(terms) = 1 THEN Leaf(1) ELSE Balanced(ops)
    BY DEF IInv, TreeIsBalanced
  <1>5. Len(terms) - 2 = Len(ops) - 1 /\ 1 - 1 = 0
    BY <1>2
  <1>6. tree[1] = Group(f, 1, Len(terms))
    BY <1>3, <1>4, <1>5 DEF Group
  <1> QED BY <1>1, <1>3, <1>6

\* balanced_tree leaves no term behind, takes none twice and puts every operator between the
\* terms it was written between, however long the chain.
THEOREM NothingIsLost == Spec => []ReadsAsWritten
  <1>1. ASSUME IInv PROVE ReadsAsWritten
    <2> SUFFICES ASSUME Grouped
                 PROVE  InOrder[tree[1]] =
                          [i \in 1..2 * Len(terms) - 1 |->
                             IF i % 2 = 1 THEN <<"term", (i + 1) \div 2>> ELSE <<"op", ops[i \div 2]>>]
      BY DEF ReadsAsWritten
    <2>1. Chain
      BY <1>1, TreeIsGroup
    <2>2. PICK f : Solution(f) /\ tree[1] = Group(f, 1, Len(terms))
      BY <1>1, TreeIsGroup
    <2>3. Len(ops) \in Nat /\ Len(terms) = Len(ops) + 1
      BY <2>1, TermsAreResults
    <2>4. 1 \in 1..Len(ops) + 1 /\ Len(ops) + 1 \in 1..Len(ops) + 1 /\ 1 <= Len(ops) + 1
      BY <2>3
    <2>5. InOrder[Group(f, 1, Len(ops) + 1)] = Part(2 * 1 - 2, 2 * ((Len(ops) + 1) - 1) + 1)
      BY <2>1, <2>2, <2>4, GroupReads
    <2>6. 2 * 1 - 2 = 0 /\ 2 * ((Len(ops) + 1) - 1) + 1 = 2 * Len(terms) - 1
      BY <2>3
    <2>7. InOrder[tree[1]] = Part(0, 2 * Len(terms) - 1)
      BY <2>2, <2>3, <2>5, <2>6
    <2>8. \A i \in 1..2 * Len(terms) - 1 : 0 + i = i
      BY <2>3
    <2> QED BY <2>7, <2>8 DEF Part, Written
  <1> QED BY Invariance, <1>1, PTL

\* The tree of a chain is no higher than its number of terms makes necessary.
THEOREM DepthIsLogarithmic == Spec => []IsBalanced
  <1>1. ASSUME IInv PROVE IsBalanced
    <2> SUFFICES ASSUME Grouped, Height[tree[1]] > 0
                 PROVE  Len(terms) > Room[Height[tree[1]] - 1]
      BY DEF IsBalanced
    <2>1. Chain
      BY <1>1, TreeIsGroup
    <2>2. PICK f : Solution(f) /\ tree[1] = Group(f, 1, Len(terms))
      BY <1>1, TreeIsGroup
    <2>3. Len(ops) \in Nat /\ Len(terms) = Len(ops) + 1
      BY <2>1, TermsAreResults
    <2>4. /\ 1 \in 1..Len(ops) + 1 /\ Len(ops) + 1 \in 1..Len(ops) + 1 /\ 1 <= Len(ops) + 1
          /\ (Len(ops) + 1) - 1 + 1 = Len(terms)
      BY <2>3
    <2>5. LET h == Height[Group(f, 1, Len(ops) + 1)]
          IN h > 0 => (Len(ops) + 1) - 1 + 1 > Room[h - 1]
      BY <2>1, <2>2, <2>4, GroupHeights
    <2> QED BY <2>2, <2>3, <2>4, <2>5
  <1> QED BY Invariance, <1>1, PTL

\* Grouping a chain of || or && in another way than the grammar reads it changes no answer:
\* a decisive term decides it, without one it is neutral or fails with one of its errors.
THEOREM RegroupingIsInvisible == Spec => []RegroupingKeepsAnswers
  <1>1. ASSUME IInv PROVE RegroupingKeepsAnswers
    <2> DEFINE bools == {TryBool(terms[i]) : i \in DOMAIN terms}
               answer == Value[tree[1]]
    <2> SUFFICES ASSUME Grouped, Len(terms) > 1
                 PROVE  /\ (answer = Decisive) <=> Decisive \in bools
                        /\ (answer = Neutral) <=> bools = {Neutral}
                        /\ answer \in bools
      BY DEF RegroupingKeepsAnswers
    <2>1. Chain
      BY <1>1, TreeIsGroup
    <2>2. PICK f : Solution(f) /\ tree[1] = Group(f, 1, Len(terms))
      BY <1>1, TreeIsGroup
    <2>3. /\ Len(ops) \in Nat /\ Len(terms) = Len(ops) + 1
          /\ DOMAIN terms = 1..Len(ops) + 1
      BY <2>1, TermsAreResults
    <2>4. /\ 1 \in 1..Len(ops) + 1 /\ Len(ops) + 1 \in 1..Len(ops) + 1
          /\ 1 <= Len(ops) + 1 /\ 1 < Len(ops) + 1
      BY <2>3
    <2>5. LET v  == Value[Group(f, 1, Len(ops) + 1)]
              bs == {TryBool(terms[i]) : i \in 1..Len(ops) + 1}
          IN /\ TryBool(v) = Decisive <=> Decisive \in bs
             /\ TryBool(v) = Neutral <=> bs = {Neutral}
             /\ TryBool(v) \in bs
             /\ TryBool(v) = v
      BY <2>1, <2>2, <2>4, GroupValues
    <2>6. bools = {TryBool(terms[i]) : i \in 1..Len(ops) + 1}
      BY <2>3
    <2> HIDE DEF bools
    <2> QED BY <2>2, <2>3, <2>5, <2>6
  <1> QED BY Invariance, <1>1, PTL

\* Nor does it change which terms are evaluated: those up to the first decisive one.
THEOREM EvaluationStopsWhereWritten == Spec => []EvaluatesUpToDecision
  <1>1. ASSUME IInv PROVE EvaluatesUpToDecision
    <2> SUFFICES ASSUME Grouped
                 PROVE  Evaluated[tree[1]] =
                          {i \in DOMAIN terms : \A j \in 1..i - 1 : terms[j] # Decisive}
      BY DEF EvaluatesUpToDecision
    <2>1. Chain
      BY <1>1, TreeIsGroup
    <2>2. PICK f : Solution(f) /\ tree[1] = Group(f, 1, Len(terms))
      BY <1>1, TreeIsGroup
    <2>3. /\ Len(ops) \in Nat /\ Len(terms) = Len(ops) + 1
          /\ DOMAIN terms = 1..Len(ops) + 1
      BY <2>1, TermsAreResults
    <2>4. 1 \in 1..Len(ops) + 1 /\ Len(ops) + 1 \in 1..Len(ops) + 1 /\ 1 <= Len(ops) + 1
      BY <2>3
    <2>5. Evaluated[Group(f, 1, Len(ops) + 1)] =
            {i \in 1..Len(ops) + 1 : \A j \in 1..i - 1 : terms[j] # Decisive}
      BY <2>1, <2>2, <2>4, GroupEvaluates
    <2> QED BY <2>2, <2>3, <2>5
  <1> QED BY Invariance, <1>1, PTL
=============================================================================
