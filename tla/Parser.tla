------------------------------- MODULE Parser -------------------------------
(***************************************************************************)
(* The parser's way from the tokens of a program to an expression          *)
(* (cel/src/parser/parser.rs): the reading ANTLR makes of the tokens, the  *)
(* recursion limit, the visitor with the ids it hands out, the expansion   *)
(* of macros, and the errors it collects.  An expression is one of module  *)
(* Expressions with the id of each node.                                   *)
(* A node's position is that of the source whose token its id was handed   *)
(* out for, as the path to it from the root.                               *)
(***************************************************************************)
EXTENDS Literals, Spelling, BalancedTree

CONSTANTS
  Sources,   \* what may be written
  Inputs,    \* other sequences of tokens
  Limits     \* recursion limits

VARIABLES
  written,   \* the source that was written, as a sequence; empty for an input
  source,    \* the reading ANTLR makes of the tokens, as a sequence
  optional,  \* enable_optional_syntax
  limit,     \* what max_recursion_depth was called with
  pc,
  built      \* [expr, st]: the expression, and the helper and the errors at the end

vars == <<tokens, written, source, optional, limit, pc, built>>
-----------------------------------------------------------------------------
(* The helper hands out ids. *)

NewState == [next |-> 1, offsets |-> <<>>, errors |-> <<>>]

NextId(st, at) == [st EXCEPT !.next = @ + 1, !.offsets = Append(@, at)]

NextExpr(st, at, expr) == [expr |-> [id |-> st.next] @@ expr, st |-> NextId(st, at)]

Nowhere == <<0>>
PosFor(st, id) == IF id = 0 THEN Nowhere ELSE st.offsets[id]

Unspecified == [op |-> "unspecified"]

\* An error at a token takes an id, one of a macro does not.
ReportError(st, at) ==
  LET made == NextExpr(st, at, Unspecified)
  IN [made EXCEPT !.st.errors = Append(@, at)]

ReportMacroError(st, at) ==
  [expr |-> [id |-> 0] @@ Unspecified, st |-> [st EXCEPT !.errors = Append(@, at)]]

Children(e) ==
  CASE e.op \in {"lit", "ident", "unspecified"} -> <<>>
    [] e.op = "call"   -> e.args
    [] e.op = "member" -> <<e.target>> \o e.args
    [] e.op = "select" -> <<e.operand>>
    [] e.op = "list"   -> e.elements
    [] e.op \in {"map", "struct"} -> e.entries
    [] e.op = "fold"   -> <<e.iter_range, e.accu_init, e.loop_cond, e.loop_step, e.result>>

WithChildren(e, c) ==
  CASE e.op \in {"lit", "ident", "unspecified"} -> e
    [] e.op = "call"   -> [e EXCEPT !.args = c]
    [] e.op = "member" -> [e EXCEPT !.target = Head(c), !.args = Tail(c)]
    [] e.op = "select" -> [e EXCEPT !.operand = c[1]]
    [] e.op = "list"   -> [e EXCEPT !.elements = c]
    [] e.op \in {"map", "struct"} -> [e EXCEPT !.entries = c]
    [] e.op = "fold"   -> [e EXCEPT !.iter_range = c[1], !.accu_init = c[2], !.loop_cond = c[3],
                                    !.loop_step = c[4], !.result = c[5]]

HasId(e) == "id" \in DOMAIN e

\* Faulty: what a macro makes has the id of the call it stands for.
RECURSIVE NumberedAsTheCall(_, _, _)
NumberedAsTheCall(e, id, st) ==
  [expr |-> IF HasId(e) THEN e
            ELSE [id |-> id] @@ WithChildren(e, [i \in DOMAIN Children(e) |->
                                                   NumberedAsTheCall(Children(e)[i], id, st).expr]),
   st |-> st]

\* What a macro makes takes new ids at the place of the call, the operands first.
RECURSIVE Numbered(_, _, _)
Numbered(e, id, st) ==
  IF HasId(e) THEN [expr |-> e, st |-> st]
  ELSE LET below == FoldLeft(LAMBDA acc, c : LET n == Numbered(c, id, acc.st) IN
                                [exprs |-> Append(acc.exprs, n.expr), st |-> n.st],
                             [exprs |-> <<>>, st |-> st], Children(e))
       IN NextExpr(below.st, st.offsets[id], WithChildren(e, below.exprs))
-----------------------------------------------------------------------------
(* Macros. *)

\* find_expander
MacroOf(name, target, args) ==
  IF target = <<>> THEN IF name = "has" /\ Len(args) = 1 THEN name ELSE "none"
  ELSE CASE name \in {"exists", "all", "exists_one", "filter"} /\ Len(args) = 2 -> name
         [] name = "existsOne" /\ Len(args) = 2 -> "exists_one"
         [] name = "map" /\ Len(args) \in {2, 3} -> name
         [] OTHER -> "none"

\* Faulty: has() leaves the selection an ordinary one.
TestedAsItIs(selection) == selection

\* has_macro_expander
Tested(selection) == [selection EXCEPT !.test = TRUE]

\* filter pushes the very argument that names its variable.
Expansion(macro, target, args) ==
  CASE macro = "has"    -> Tested(args[1])
    [] macro = "exists" -> Exists(target[1], args[1].name, args[2])
    [] macro = "all"    -> All(target[1], args[1].name, args[2])
    [] macro = "exists_one" -> ExistsOne(target[1], args[1].name, args[2])
    [] macro = "map" /\ Len(args) = 2 -> Map(target[1], args[1].name, args[2])
    [] macro = "map"    -> MapFilter(target[1], args[1].name, args[2], args[3])
    [] macro = "filter" -> Comprehension(target[1], args[1].name, EmptyListExpr, True,
                                         Choose(args[2], Push(args[1]), Accu), Accu)

Expandable(macro, args) == args[1].op = IF macro = "has" THEN "select" ELSE "ident"

WithoutId(e) == [f \in DOMAIN e \ {"id"} |-> e[f]]

\* global_call_or_macro, receiver_call_or_macro
CallOrMacro(st, id, name, target, args) ==
  LET macro == MacroOf(name, target, args)
      call  == IF target = <<>> THEN CallOf(name, args) ELSE MemberOf(target[1], name, args)
  IN IF macro = "none" THEN [expr |-> [id |-> id] @@ call, st |-> st]
     ELSE IF ~Expandable(macro, args) THEN ReportMacroError(st, PosFor(st, args[1].id))
     ELSE Numbered(WithoutId(Expansion(macro, target, args)), id, st)
-----------------------------------------------------------------------------
(* The visitor. *)

\* A name with its qualifiers; that of a variable goes without its leading dot.
FullName(src) == FoldRight(LAMBDA qual, name : qual \o "." \o name, src.quals, src.name)

\* The tree over positions, as an expression.
RECURSIVE Grafted(_, _, _)
Grafted(tree, op, exprs) ==
  IF IsLeaf(tree) THEN exprs[tree.leaf]
  ELSE [id |-> tree.id] @@ CallOf(op, <<Grafted(tree.left, op, exprs), Grafted(tree.right, op, exprs)>>)

RECURSIVE Visit(_, _, _)

\* The parts with these numbers, in this order.
VisitParts(src, at, st, numbers) ==
  FoldLeft(LAMBDA acc, i : LET v == Visit(src.parts[i], Append(at, i), acc.st) IN
             [exprs |-> Append(acc.exprs, v.expr), st |-> v.st],
           [exprs |-> <<>>, st |-> st], numbers)

Numbers(lo, hi) == [i \in 1..(hi - lo + 1) |-> lo + i - 1]

\* The first `before` parts, then the id of the token between them, then the other parts.
VisitAround(src, at, st, before) ==
  LET first == VisitParts(src, at, st, Numbers(1, before))
      rest  == VisitParts(src, at, NextId(first.st, at), Numbers(before + 1, Len(src.parts)))
  IN [exprs |-> first.exprs \o rest.exprs, id |-> first.st.next, st |-> rest.st]

\* visit_conditionalOr, visit_conditionalAnd: an operator takes its id after its right term.
VisitChain(src, at, st) ==
  LET first == Visit(src.parts[1], Append(at, 1), st)
      all   == FoldLeft(LAMBDA acc, i : LET v == Visit(src.parts[i], Append(at, i), acc.st) IN
                          [exprs |-> Append(acc.exprs, v.expr), ops |-> Append(acc.ops, v.st.next),
                           st |-> NextId(v.st, at)],
                        [exprs |-> <<first.expr>>, ops |-> <<>>, st |-> first.st],
                        Numbers(2, Len(src.parts)))
  IN [expr |-> Grafted(Balanced(all.ops), src.name, all.exprs),
      st |-> all.st]

\* Faulty: the ids of the first visit are taken back.
VisitSignedAgain(src, at, st) ==
  LET once   == IF src.count % 2 = 0 THEN Visit(src.parts[1], Append(at, 1), st).st ELSE st
      member == Visit(src.parts[1], Append(at, 1), NextId(once, at))
  IN [expr |-> [id |-> st.next] @@ CallOf(src.name, <<member.expr>>), st |-> member.st]

\* visit_LogicalNot, visit_Negate: behind an even number of signs the member is visited twice.
VisitSigned(src, at, st) ==
  LET once   == IF src.count % 2 = 0 THEN Visit(src.parts[1], Append(at, 1), st).st ELSE st
      member == Visit(src.parts[1], Append(at, 1), NextId(once, at))
  IN [expr |-> [id |-> once.next] @@ CallOf(src.name, <<member.expr>>), st |-> member.st]

VisitSelect(src, at, st) ==
  LET member == Visit(src.parts[1], Append(at, 1), st)
      field  == NextExpr(member.st, at, Lit(StrOf(src.name)))
  IN IF src.opts = {} THEN NextExpr(member.st, at, SelectOf(member.expr, src.name))
     ELSE IF ~optional THEN ReportError(member.st, at)
     ELSE NextExpr(field.st, at, CallOf("_?._", <<member.expr, field.expr>>))

\* list_initializer_list: an element marked in vain is not visited.
VisitList(src, at, st) ==
  LET all == FoldLeft(
        LAMBDA acc, i :
          IF i \in src.opts /\ ~optional
          THEN [acc EXCEPT !.st = ReportError(@, Append(at, i)).st]
          ELSE LET v == Visit(src.parts[i], Append(at, i), acc.st)
               IN [exprs |-> Append(acc.exprs, v.expr), st |-> v.st],
        [exprs |-> <<>>, st |-> NextId(st, at)], Numbers(1, Len(src.parts)))
  IN [expr |-> [id |-> st.next] @@ ListExpr(all.exprs, src.opts), st |-> all.st]

\* map_initializer_list and field_initializer_list: an entry takes an id of its own, then its
\* parts theirs; of an entry marked in vain a map visits the key only, a struct the value.
VisitEntries(src, at, st) ==
  LET width == IF src.kind = "map" THEN 2 ELSE 1
      all   == FoldLeft(
        LAMBDA acc, n :
          LET vain  == n \in src.opts /\ ~optional
              id    == acc.st.next
              parts == VisitParts(src, at, NextId(acc.st, at),
                                  Numbers(width * (n - 1) + 1, IF vain THEN width * (n - 1) + 1 ELSE width * n))
          IN IF vain THEN [acc EXCEPT !.st = ReportError(parts.st, at).st]
             ELSE [exprs |-> acc.exprs \o parts.exprs, ids |-> Append(acc.ids, id), st |-> parts.st],
        [exprs |-> <<>>, ids |-> <<>>, st |-> NextId(st, at)],
        Numbers(1, Len(src.parts) \div width))
  IN [expr |-> [id |-> st.next, entryIds |-> all.ids]
               @@ (IF src.kind = "map" THEN MapExpr(all.exprs, src.opts)
                   ELSE StructExpr(FullName(src), src.words, all.exprs, src.opts)),
      st |-> all.st]

\* Bytes at fault leave an expression without an id.
VisitLiteral(src, at, st) ==
  LET value == LiteralValue(src.name, src.words)
      bad   == ReportError(st, at)
  IN IF ~Failed(value) THEN NextExpr(st, at, Lit(value[2]))
     ELSE IF src.name = "BYTES" THEN [bad EXCEPT !.expr.id = 0] ELSE bad

Visit(src, at, st) ==
  CASE src.kind = "literal" -> VisitLiteral(src, at, st)
    [] src.kind = "ident"   -> NextExpr(st, at, Var(src.name))
    [] src.kind = "nested"  -> Visit(src.parts[1], Append(at, 1), st)
    [] src.kind = "chain"   -> VisitChain(src, at, st)
    [] src.kind = "signed"  -> VisitSigned(src, at, st)
    [] src.kind = "select"  -> VisitSelect(src, at, st)
    [] src.kind = "list"    -> VisitList(src, at, st)
    [] src.kind \in {"map", "struct"} -> VisitEntries(src, at, st)
    [] src.kind = "index"   ->
         LET v == VisitAround(src, at, st, 1)
             call(op) == CallOrMacro(v.st, v.id, op, <<>>, v.exprs)
         IN IF src.opts = {} THEN call("_[_]")
            ELSE IF optional THEN call("_[?_]") ELSE ReportError(v.st, at)
    [] src.kind \in {"binary", "conditional"} ->
         LET v == VisitAround(src, at, st, 1) IN CallOrMacro(v.st, v.id, src.name, <<>>, v.exprs)
    [] src.kind = "call"    ->
         LET v == VisitAround(src, at, st, 0) IN CallOrMacro(v.st, v.id, FullName(src), <<>>, v.exprs)
    [] src.kind = "member"  ->
         LET v == VisitAround(src, at, st, 1)
         IN CallOrMacro(v.st, v.id, src.name, <<Head(v.exprs)>>, Tail(v.exprs))
-----------------------------------------------------------------------------
(* The recursion limit counts the grammar's rule expr. *)

\* The parts that are an expr in the grammar.
OpensExpr(src, i) ==
  \/ src.kind \in {"nested", "call", "list", "map", "struct"}
  \/ src.kind \in {"index", "member"} /\ i > 1
  \/ src.kind = "conditional" /\ i = 3

\* The number of exprs one inside the other, under the outermost.
RECURSIVE Nesting(_)
Nesting(src) ==
  Max({0} \cup {Nesting(src.parts[i]) + (IF OpensExpr(src, i) THEN 1 ELSE 0) : i \in DOMAIN src.parts})

\* Faulty: max_recursion_depth keeps the limit it is given.
ExceedsAsGiven(depth) == depth > limit

\* max_recursion_depth allows for the outermost expr.
Exceeds(depth) == depth > limit + 1

Init ==
  /\ \/ \E s \in Sources : written = <<s>> /\ tokens = Spelled(s)
     \/ written = <<>> /\ tokens \in Inputs
  /\ source = <<>>
  /\ optional \in BOOLEAN
  /\ limit \in Limits
  /\ pc = "start"
  /\ built = <<>>

\* The listener stops ANTLR on its way down; there is no tree to visit.  What the visitor makes
\* of a tree with syntax errors is thrown away.
Recognise ==
  /\ pc = "start"
  /\ LET all == Readings IN source' = IF all = <<>> THEN <<>> ELSE <<Head(all)>>
  /\ pc' = IF source' = <<>> \/ Exceeds(Nesting(source'[1]) + 1) THEN "refused" ELSE "tree"
  /\ UNCHANGED <<tokens, written, optional, limit, built>>

VisitStart ==
  /\ pc = "tree"
  /\ LET v == Visit(source[1], <<>>, NewState) IN
     /\ built' = <<v>>
     /\ pc' = IF v.st.errors = <<>> THEN "accepted" ELSE "refused"
  /\ UNCHANGED <<tokens, written, source, optional, limit>>

Next == Recognise \/ VisitStart

Spec == Init /\ [][Next]_vars
-----------------------------------------------------------------------------
(* What a source says, whatever it takes to find out. *)

\* The value of a literal.
Meant(type, text) ==
  IF type \in {"STRING", "BYTES"} THEN <<IF IsBytes(text) THEN "bytes" ELSE "string", Denoted(text)>>
  ELSE LiteralValue(type, text)[2]

\* A number too large, a code that is no character, and what is not supported: an escape with
\* a capital X, a hexadecimal number with a sign, a letter escaped in bytes.
BadLiteral(type, text) ==
  CASE type = "STRING"   -> ~IsRaw(text) /\ \E i \in DOMAIN Pieces(Body(text)) :
                              LET p == Pieces(Body(text))[i]
                              IN Len(p) > 1 /\ (p[2] = "X" \/ EscapeCode(p) \in 55296..57343)
    [] type = "BYTES"    -> \E i \in DOMAIN Pieces(Body(text)) :
                              LET p == Pieces(Body(text))[i] IN Len(p) > 1 /\ p[2] \notin {"x", "0", "1", "2", "3"}
    [] type = "NUM_INT"  -> Failed(ParseNumber(text, -IntMax - 1, IntMax))
    [] type = "NUM_UINT" -> Failed(ParseNumber(Front(text), 0, UintMax))
    [] OTHER             -> text \in Infinite

\* What the code is known to read in another way than the grammar means it: a quote inside a
\* string that has the other one escaped or three around it, a raw string with a backslash before
\* its closing quote, bytes with a raw string or three quotes.
MisreadLiteral(type, text) ==
  type \in {"STRING", "BYTES"} /\
    LET quote == Enclosed(text)[1]
        body  == Body(text)
    IN IF IsRaw(text) THEN \/ IsBytes(text) \/ quote \in ToSet(body)
                           \/ body # <<>> /\ Last(body) = Backslash
       ELSE \/ IsBytes(text) /\ QuoteLength(text) = 3
            \/ <<quote>> \in ToSet(Pieces(body))
            \/ \E other \in Quotes \ {quote} : <<Backslash, other>> \in ToSet(Pieces(body))

RECURSIVE Written(_), Inside(_), Erased(_), Flat(_), Ids(_), Leads(_, _)

\* An even number of signs cancels out.
Written(src) ==
  LET parts == [i \in DOMAIN src.parts |-> Written(src.parts[i])]
      args  == Tail(parts)
      var   == Var(parts[2].name)
      macro == MacroOf(src.name, <<src>>, args)
  IN CASE src.kind = "literal" -> Lit(Meant(src.name, src.words))
       [] src.kind = "ident"   -> Var(src.name)
       [] src.kind = "nested"  -> parts[1]
       [] src.kind = "chain"   -> FoldLeft(LAMBDA l, r : CallOf(src.name, <<l, r>>), parts[1], args)
       [] src.kind \in {"binary", "conditional"} -> CallOf(src.name, parts)
       [] src.kind = "signed"  -> IF src.count % 2 = 0 THEN parts[1] ELSE CallOf(src.name, parts)
       [] src.kind = "select"  -> IF src.opts = {} THEN SelectOf(parts[1], src.name)
                                  ELSE CallOf("_?._", <<parts[1], Lit(StrOf(src.name))>>)
       [] src.kind = "index"   -> CallOf(IF src.opts = {} THEN "_[_]" ELSE "_[?_]", parts)
       [] src.kind = "list"    -> ListExpr(parts, src.opts)
       [] src.kind = "map"     -> MapExpr(parts, src.opts)
       [] src.kind = "struct"  -> StructExpr(FullName(src), src.words, parts, src.opts)
       [] src.kind = "call" /\ FullName(src) = "has" /\ Len(parts) = 1 -> HasField(parts[1].operand, parts[1].field)
       [] src.kind = "call"    -> CallOf(FullName(src), parts)
       [] OTHER -> CASE macro = "exists" -> Exists(parts[1], var.name, args[2])
                     [] macro = "all"    -> All(parts[1], var.name, args[2])
                     [] macro = "exists_one" -> ExistsOne(parts[1], var.name, args[2])
                     [] macro = "filter" -> Filter(parts[1], var.name, args[2])
                     [] macro = "map" /\ Len(args) = 2 -> Map(parts[1], var.name, args[2])
                     [] macro = "map"    -> MapFilter(parts[1], var.name, args[2], args[3])
                     [] OTHER -> MemberOf(parts[1], src.name, args)

RECURSIVE Unwrapped(_)
Unwrapped(src) == IF src.kind = "nested" THEN Unwrapped(src.parts[1]) ELSE src

\* A macro whose argument is not a selection, or not a name.
Misused(src) ==
  \/ /\ src.kind = "call" /\ FullName(src) = "has" /\ Len(src.parts) = 1
     /\ LET arg == Unwrapped(src.parts[1]) IN
        /\ arg.kind # "select" \/ arg.opts # {}
        /\ ~(arg.kind = "call" /\ FullName(arg) = "has" /\ Len(arg.parts) = 1)
  \/ /\ src.kind = "member" /\ MacroOf(src.name, <<src>>, Tail(src.parts)) # "none"
     /\ Unwrapped(src.parts[2]).kind # "ident"

\* The sources in a source, itself among them.
Inside(src) == {src} \cup UNION {Inside(src.parts[i]) : i \in DOMAIN src.parts}

Faulty(src) ==
  \E s \in Inside(src) :
    \/ s.kind = "literal" /\ BadLiteral(s.name, s.words)
    \/ s.opts # {} /\ ~optional
    \/ Misused(s)

HasEvenSigns(src) == \E s \in Inside(src) : s.kind = "signed" /\ s.count % 2 = 0
HasMisread(src)   == \E s \in Inside(src) : s.kind = "literal" /\ MisreadLiteral(s.name, s.words)

Erased(e) ==
  LET bare == [f \in DOMAIN e \ {"id", "entryIds"} |-> e[f]]
  IN WithChildren(bare, [i \in DOMAIN Children(e) |-> Erased(Children(e)[i])])

\* A chain's terms, one beside the other.
Flat(e) ==
  LET below == [i \in DOMAIN Children(e) |-> Flat(Children(e)[i])]
  IN IF e.op = "call" /\ e.func \in {"_||_", "_&&_"}
     THEN CallOf(e.func, FlattenSeq([i \in DOMAIN below |->
            IF below[i].op = "call" /\ below[i].func = e.func THEN below[i].args ELSE <<below[i]>>]))
     ELSE WithChildren(e, below)

\* The ids in an expression, each as often as it occurs.
Ids(e) ==
  <<e.id>> \o (IF "entryIds" \in DOMAIN e THEN e.entryIds ELSE <<>>)
           \o FlattenSeq([i \in DOMAIN Children(e) |-> Ids(Children(e)[i])])

\* Every node's position is inside that of the node above it.
Leads(e, offsets) ==
  \A i \in DOMAIN Children(e) :
    /\ IsPrefix(offsets[e.id], offsets[Children(e)[i].id])
    /\ Leads(Children(e)[i], offsets)
-----------------------------------------------------------------------------
(* Properties. *)

\* In an accepted expression every node and every entry has an id of its own, macros and
\* chains included, and the position kept for it lies in the source of the node: an error at
\* run time can be traced back by its id.
IdsLead ==
  pc = "accepted" =>
    LET expr == built[1].expr
        ids  == Ids(expr)
        offs == built[1].st.offsets
    IN /\ IsInjective(ids)
       /\ ToSet(ids) \subseteq DOMAIN offs
       /\ Leads(expr, offs)

\* What is written is refused exactly when something in it is at fault or it nests too deep:
\* no program is beyond the generated rules, and no fault is lost in a macro's argument, in an
\* element that is left out or behind a sign.
RefusedForFaults ==
  written # <<>> /\ pc \in {"accepted", "refused"} /\ ~HasMisread(written[1]) =>
    (pc = "refused" <=> Nesting(written[1]) > limit \/ Faulty(written[1]))

\* An accepted expression says what was written, precedence, grouping and the characters of
\* literals included; a chain may be grouped in another way.
SaysWhatIsWritten ==
  written # <<>> /\ pc = "accepted" /\ ~HasEvenSigns(written[1]) /\ ~HasMisread(written[1]) =>
    Flat(Erased(built[1].expr)) = Flat(Written(written[1]))

\* Whatever tokens come in, a reading accounts for each of them and groups them as precedence
\* demands; a comma at the end of a list is the only token that may go.
ReadsTheTokens ==
  source # <<>> => Spelled(source[1]) = WithoutTrailingCommas /\ Canonical(source[1])

\* CONTRIBUTING.md: "Full conformance with the CEL specification is our primary goal", where
\* two signs in a row cancel out.
SignsCancel ==
  written # <<>> /\ pc = "accepted" /\ ~HasMisread(written[1]) => Flat(Erased(built[1].expr)) = Flat(Written(written[1]))
=============================================================================
