--------------------------- MODULE MacroPromise ----------------------------
(***************************************************************************)
(* What the comprehension macros promise, with no loop and no accumulator: *)
(* one step from the items to the answer.                                  *)
(*                                                                         *)
(* The items are looked at from the left.  Each either decides the answer, *)
(* or fails the macro, or leaves it open; the first item that does not     *)
(* leave it open settles it.                                               *)
(***************************************************************************)
EXTENDS Logic, Naturals, Sequences

CONSTANTS EvalErrors, NonBools

VARIABLES macro, source, range, out

vars == <<macro, source, range, out>>

Macros    == {"all", "exists", "exists_one", "map", "map_filter", "filter"}
Failures  == {Err(e) : e \in EvalErrors}
Predicate == {OkTrue, OkFalse} \cup {Ok(v) : v \in NonBools} \cup Failures
Item      == [pred : Predicate, func : {Ok(<<"item">>)} \cup Failures]
NoAnswer  == <<"none">>

\* the item proves `all` false or `exists` true
Decides(m, item) ==
  \/ m = "all" /\ item.pred = OkFalse
  \/ m = "exists" /\ item.pred = OkTrue

\* the predicate is asked for by every macro but map, the transform only where the
\* predicate holds
Undecided(item) == Failed(TryBool(item.pred))

Fails(m, item) ==
  \/ m # "map" /\ Undecided(item)
  \/ m = "map" /\ Failed(item.func)
  \/ m = "map_filter" /\ item.pred = OkTrue /\ Failed(item.func)

FailureOf(m, item) ==
  IF m # "map" /\ Undecided(item) THEN TryBool(item.pred) ELSE item.func

Settles(m, item) == Decides(m, item) \/ Fails(m, item)

Kept(m, items) == {i \in DOMAIN items : m = "map" \/ items[i].pred = OkTrue}

\* The positions in `s` are exactly those in `S`, in the order of the items.
Enumerates(s, S) ==
  /\ \A i \in DOMAIN s : s[i] \in S
  /\ \A p \in S : \E i \in DOMAIN s : s[i] = p
  /\ \A i, j \in DOMAIN s : i < j => s[i] < s[j]

\* The answer when no item settles the macro.
OpenAnswer(m, items, answer) ==
  /\ m = "all" => answer = OkTrue
  /\ m = "exists" => answer = OkFalse
  /\ m = "exists_one" => answer = IF \E i \in DOMAIN items : Kept(m, items) = {i}
                                       THEN OkTrue ELSE OkFalse
  /\ m \in {"map", "map_filter", "filter"} =>
       /\ answer = Ok(<<"list", answer[2][2]>>)
       /\ answer[2][2] \in Seq(Nat)
       /\ Enumerates(answer[2][2], Kept(m, items))

Promised(m, src, items, answer) ==
  IF Failed(src) THEN answer = src
  ELSE IF src # Ok(<<"list">>) THEN answer = Err(NoSuchOverload)
  ELSE \/ /\ \A i \in DOMAIN items : ~Settles(m, items[i])
          /\ OpenAnswer(m, items, answer)
       \/ \E i \in DOMAIN items :
            /\ Settles(m, items[i])
            /\ \A j \in DOMAIN items : j < i => ~Settles(m, items[j])
            /\ answer = IF Fails(m, items[i]) THEN FailureOf(m, items[i])
                        ELSE IF m = "exists" THEN OkTrue ELSE OkFalse

Init ==
  /\ macro \in Macros
  /\ source \in {Ok(<<"list">>), Ok(<<"scalar">>)} \cup Failures
  /\ range \in Seq(Item)
  /\ out = NoAnswer

Answer ==
  /\ out = NoAnswer
  /\ out' # NoAnswer
  /\ Promised(macro, source, range, out')
  /\ UNCHANGED <<macro, source, range>>

Spec == Init /\ [][Answer]_vars
=============================================================================
