------------------------------- MODULE Grammar -------------------------------
(***************************************************************************)
(* The rules of the generated parser (cel/src/parser/gen/celparser.rs):    *)
(* from the tokens of a program to the source the visitor goes through.    *)
(*                                                                         *)
(* A rule yields its readings of the tokens from a place on, each with the *)
(* place after it, in the order of the rule's alternatives: adaptivePredict*)
(* takes the first alternative the rest of the program agrees with, so     *)
(* that the first reading of everything is the one ANTLR makes.            *)
(*                                                                         *)
(* A token has a type and a text.  A source has a kind, a name (of a       *)
(* variable, function, field, operator, type or token), the qualifiers in  *)
(* front of the name, words (of a literal or the names of fields), its     *)
(* parts, the numbers of those marked with ?, and a count of signs.        *)
(***************************************************************************)
EXTENDS Integers, SequencesExt

VARIABLE tokens

Source(kind, name, parts) ==
  [kind |-> kind, name |-> name, quals |-> <<>>, words |-> <<>>, parts |-> parts, opts |-> {}, count |-> 1]

Punctuation(type) == [type |-> type, text |-> <<>>]
Word(type, text)  == [type |-> type, text |-> text]

At(p) == IF p \in DOMAIN tokens THEN tokens[p].type ELSE "EOF"
-----------------------------------------------------------------------------
(* The contexts of the rules that leave a source behind; a context with    *)
(* nothing but one part is that part.                                      *)

ExprContext           == Source("conditional", "_?_:_", <<>>)
ConditionalOrContext  == Source("chain", "_||_", <<>>)
ConditionalAndContext == Source("chain", "_&&_", <<>>)
RelationContext(op)   == Source("binary", IF op = "in" THEN "@in" ELSE "_" \o op \o "_", <<>>)
CalcContext(op)       == Source("binary", "_" \o op \o "_", <<>>)
LogicalNotContext(n)  == [Source("signed", "!_", <<>>) EXCEPT !.count = n]
NegateContext(n)      == [Source("signed", "-_", <<>>) EXCEPT !.count = n]
SelectContext         == Source("select", "", <<>>)
MemberCallContext     == Source("member", "", <<>>)
IndexContext          == Source("index", "", <<>>)
IdentContext          == Source("ident", "", <<>>)
GlobalCallContext     == Source("call", "", <<>>)
NestedContext         == Source("nested", "", <<>>)
CreateListContext     == Source("list", "", <<>>)
CreateStructContext   == Source("map", "", <<>>)
CreateMessageContext  == Source("struct", "", <<>>)
LiteralContext(type)  == Source("literal", type, <<>>)
-----------------------------------------------------------------------------
(* Readings: what is read so far and where the next token is. *)

RECURSIVE Rule(_, _)

Start(context, p) == <<[src |-> context, next |-> p]>>

Each(rs, More(_)) ==
  IF Len(rs) = 1 THEN More(rs[1]) ELSE FlattenSeq([i \in DOMAIN rs |-> More(rs[i])])

\* match_token, and the if that makes one optional
Match(rs, type) ==
  Each(rs, LAMBDA r : IF At(r.next) = type THEN <<[r EXCEPT !.next = @ + 1]>> ELSE <<>>)
Optionally(rs, type) == Match(rs, type) \o rs

\* A token whose text names the source, or is one of its words.
Named(rs, type) ==
  Each(rs, LAMBDA r : Match(<<[r EXCEPT !.src.name = IF At(r.next) = type THEN tokens[r.next].text[1] ELSE @]>>, type))
Worded(rs, type) ==
  Each(rs, LAMBDA r : Match(<<[r EXCEPT !.src.words = IF At(r.next) = type THEN @ \o tokens[r.next].text ELSE @]>>, type))

\* The next entry is marked; an entry has `width` parts.
Marked(rs, width) ==
  Each(rs, LAMBDA r : Match(<<[r EXCEPT !.src.opts = @ \cup {Len(r.src.parts) \div width + 1}]>>, "?") \o <<r>>)

\* A rule is invoked for the next part.
Parts(rs, rule) ==
  Each(rs, LAMBDA r : Each(Rule(rule, r.next),
    LAMBDA part : <<[src |-> [r.src EXCEPT !.parts = Append(@, part.src)], next |-> part.next]>>))

\* push_new_recursion_context: what is read becomes the first part of a new context.
Wrapped(context, r) == [src |-> [context EXCEPT !.parts = <<r.src>>], next |-> r.next]

Collapsed(rs) ==
  Each(rs, LAMBDA r : <<IF Len(r.src.parts) = 1 THEN [r EXCEPT !.src = @.parts[1]] ELSE r>>)
-----------------------------------------------------------------------------
(* Lists of parts between separators. *)

OptExpr(rs, width)  == Parts(Marked(rs, width), "expr")
EscapeIdent(rs)     == Named(rs, "IDENTIFIER") \o Named(rs, "ESC_IDENTIFIER")
OptField(rs)        == LET marked == Marked(rs, 1)
                       IN Worded(marked, "IDENTIFIER") \o Worded(marked, "ESC_IDENTIFIER")

MapEntry(r)         == Parts(Match(OptExpr(<<r>>, 2), ":"), "expr")
FieldInitializer(r) == Parts(Match(OptField(<<r>>), ":"), "expr")

Element(r) ==
  CASE r.src.kind = "list"   -> OptExpr(<<r>>, 1)
    [] r.src.kind = "map"    -> MapEntry(r)
    [] r.src.kind = "struct" -> FieldInitializer(r)
    [] r.src.name = "_||_"   -> Parts(<<r>>, "conditionalAnd")
    [] r.src.name = "_&&_"   -> Parts(<<r>>, "relation")
    [] OTHER                 -> Parts(<<r>>, "expr")

RECURSIVE Repeated(_, _)
Repeated(r, separator) ==
  Each(Each(Match(<<r>>, separator), Element), LAMBDA s : Repeated(s, separator)) \o <<r>>

Elements(rs, separator) == Each(Each(rs, Element), LAMBDA r : Repeated(r, separator))

\* exprList?
ExprList(rs) == Elements(rs, ",") \o rs

\* listInit? ','? and the like
Initializers(rs) == Optionally(Elements(rs, ",") \o rs, ",")
-----------------------------------------------------------------------------
(* Infix operators: precpred compares an operator's precedence with that   *)
(* of the invocation, which asks its right side for a higher one.          *)

RelationOps == {"<", "<=", ">=", ">", "==", "!=", "in"}

\* Faulty: + and - bind their right side as * does, and group to the right.
CalcOpsRightwards == [op \in {"*", "/", "%", "+", "-"} |->
              IF op \in {"+", "-"} THEN [prec |-> 1, right |-> "calc"] ELSE [prec |-> 2, right |-> "calc3"]]

CalcOps == [op \in {"*", "/", "%", "+", "-"} |->
              IF op \in {"+", "-"} THEN [prec |-> 1, right |-> "calc2"] ELSE [prec |-> 2, right |-> "calc3"]]

RECURSIVE RelationLoop(_, _), CalcLoop(_, _)

RelationLoop(r, p) ==
  LET op == At(r.next)
  IN (IF op \in RelationOps /\ 1 >= p
      THEN Each(Parts(Match(<<Wrapped(RelationContext(op), r)>>, op), "relation2"),
                LAMBDA s : RelationLoop(s, p))
      ELSE <<>>) \o <<r>>

CalcLoop(r, p) ==
  LET op == At(r.next)
  IN (IF op \in DOMAIN CalcOps /\ CalcOps[op].prec >= p
      THEN Each(Parts(Match(<<Wrapped(CalcContext(op), r)>>, op), CalcOps[op].right),
                LAMBDA s : CalcLoop(s, p))
      ELSE <<>>) \o <<r>>

\* relation_rec(p), calc_rec(p)
RelationRec(p, at) == Each(Rule("calc", at), LAMBDA r : RelationLoop(r, p))
CalcRec(p, at)     == Each(Rule("unary", at), LAMBDA r : CalcLoop(r, p))
-----------------------------------------------------------------------------
(* unary, member, primary, literal *)

SignsAt(p, sign) == Max({n \in 0..Len(tokens) : \A i \in 0..n - 1 : At(p + i) = sign})

\* The loop over the signs is greedy.
Signed(Context(_), sign, p) ==
  LET most == SignsAt(p, sign)
  IN FlattenSeq([i \in 1..most |-> Parts(Start(Context(most + 1 - i), p + most + 1 - i), "member")])

Unary(p) == Rule("member", p) \o Signed(LogicalNotContext, "!", p) \o Signed(NegateContext, "-", p)

Select(r)     == EscapeIdent(Marked(Match(<<Wrapped(SelectContext, r)>>, "."), 2))
MemberCall(r) == Match(ExprList(Match(Named(Match(<<Wrapped(MemberCallContext, r)>>, "."), "IDENTIFIER"), "(")), ")")
Index(r)      == Match(OptExpr(Match(<<Wrapped(IndexContext, r)>>, "["), 2), "]")

RECURSIVE MemberLoop(_)
MemberLoop(r) == Each(Select(r) \o MemberCall(r) \o Index(r), MemberLoop) \o <<r>>

\* The name so far becomes a qualifier.
Qualified(rs) == Each(rs, LAMBDA r : <<[r EXCEPT !.src.quals = Append(@, r.src.name)]>>)

\* leadingDot='.'?
LeadingDot(context, p) == Match(Qualified(Start(context, p)), ".") \o Start(context, p)

Ident(p)        == Named(LeadingDot(IdentContext, p), "IDENTIFIER")
GlobalCall(p)   == Match(ExprList(Match(Named(LeadingDot(GlobalCallContext, p), "IDENTIFIER"), "(")), ")")
Nested(p)       == Match(Parts(Match(Start(NestedContext, p), "("), "expr"), ")")
CreateList(p)   == Match(Initializers(Match(Start(CreateListContext, p), "[")), "]")
CreateStruct(p) == Match(Initializers(Match(Start(CreateStructContext, p), "{")), "}")

RECURSIVE MessageName(_)
MessageName(r) == Each(Named(Match(Qualified(<<r>>), "."), "IDENTIFIER"), MessageName) \o <<r>>

CreateMessage(p) ==
  Match(Initializers(Match(Each(Named(LeadingDot(CreateMessageContext, p), "IDENTIFIER"), MessageName), "{")), "}")

Literal(p) ==
  LET type   == IF At(p) = "-" THEN At(p + 1) ELSE At(p)
      signed == [LiteralContext(type) EXCEPT !.words = <<"-">>]
  IN IF type \in {"NUM_INT", "NUM_FLOAT"}
     THEN Worded(Match(Start(signed, p), "-") \o Start(LiteralContext(type), p), type)
     ELSE IF type \in {"NUM_UINT", "STRING", "BYTES", "true", "false", "null"}
     THEN Worded(Start(LiteralContext(type), p), type) ELSE <<>>

Primary(p) ==
  Ident(p) \o GlobalCall(p) \o Nested(p) \o CreateList(p) \o CreateStruct(p) \o CreateMessage(p) \o Literal(p)
-----------------------------------------------------------------------------
Expression(p) ==
  LET or == Rule("conditionalOr", p)
  IN Parts(Match(Parts(Match(Each(or, LAMBDA r : <<Wrapped(ExprContext, r)>>), "?"), "conditionalOr"), ":"), "expr")
     \o or

ConditionalOr(p)  == Collapsed(Elements(Start(ConditionalOrContext, p), "||"))
ConditionalAnd(p) == Collapsed(Elements(Start(ConditionalAndContext, p), "&&"))

Rule(rule, p) ==
  CASE rule = "expr"           -> Expression(p)
    [] rule = "conditionalOr"  -> ConditionalOr(p)
    [] rule = "conditionalAnd" -> ConditionalAnd(p)
    [] rule = "relation"       -> RelationRec(0, p)
    [] rule = "relation2"      -> RelationRec(2, p)
    [] rule = "calc"           -> CalcRec(0, p)
    [] rule = "calc2"          -> CalcRec(2, p)
    [] rule = "calc3"          -> CalcRec(3, p)
    [] rule = "unary"          -> Unary(p)
    [] rule = "member"         -> Each(Primary(p), MemberLoop)

\* start: the readings of all tokens, of which ANTLR makes the first.
Readings == LET all == Match(Rule("expr", 1), "EOF") IN [i \in DOMAIN all |-> all[i].src]
=============================================================================
