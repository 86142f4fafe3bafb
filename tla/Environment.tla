---------------------------- MODULE Environment -----------------------------
(***************************************************************************)
(* What nested contexts promise, without any chain: every live context     *)
(* holds, by value, everything it sees.  Opening an inner scope copies     *)
(* what the outer one sees and the functions it calls; from then on        *)
(* neither can tell that the other exists.  Functions are given to the     *)
(* root alone.                                                             *)
(***************************************************************************)
EXTENDS Naturals, Sequences

CONSTANTS Names, Values, Resolvers, Functions, Bodies, MaxChildren

VARIABLES
  sees,   \* live context -> what its names stand for, its resolver left aside
  veil,   \* live context -> its resolver, which hides what the context sees
  calls   \* live context -> the functions it calls, by their names

vars == <<sees, veil, calls>>

Absent     == <<"absent">>
NoFunction == <<"no function">>

Nothing == [n \in Names |-> Absent]

View(p) == [n \in Names |-> IF veil[p][n] # Absent THEN veil[p][n] ELSE sees[p][n]]

Init ==
  /\ sees = [p \in {<<>>} |-> Nothing]
  /\ veil = [p \in {<<>>} |-> Nothing]
  /\ calls = [p \in {<<>>} |-> [f \in Functions |-> NoFunction]]

Bind(p, n, v) ==
  /\ sees' = [sees EXCEPT ![p][n] = v]
  /\ UNCHANGED <<veil, calls>>

Veil(p, r) ==
  /\ veil' = [veil EXCEPT ![p] = r]
  /\ UNCHANGED <<sees, calls>>

Define(f, body) ==
  /\ calls' = [calls EXCEPT ![<<>>][f] = body]
  /\ UNCHANGED <<sees, veil>>

OpenScope(p, k) ==
  LET child == Append(p, k) IN
  /\ child \notin DOMAIN sees
  /\ sees' = [q \in DOMAIN sees \cup {child} |-> IF q = child THEN View(p) ELSE sees[q]]
  /\ veil' = [q \in DOMAIN sees \cup {child} |-> IF q = child THEN Nothing ELSE veil[q]]
  /\ calls' = [q \in DOMAIN sees \cup {child} |-> IF q = child THEN calls[p] ELSE calls[q]]

CloseScope(p) ==
  /\ p # <<>>
  /\ sees' = [q \in DOMAIN sees \ {p} |-> sees[q]]
  /\ veil' = [q \in DOMAIN sees \ {p} |-> veil[q]]
  /\ calls' = [q \in DOMAIN sees \ {p} |-> calls[q]]

Next ==
  \/ \E f \in Functions, body \in Bodies : Define(f, body)
  \/ \E p \in DOMAIN sees :
       \/ \E n \in Names, v \in Values : Bind(p, n, v)
       \/ \E r \in Resolvers : Veil(p, r)
       \/ \E k \in 1..MaxChildren : OpenScope(p, k)
       \/ CloseScope(p)

Spec == Init /\ [][Next]_vars
=============================================================================
