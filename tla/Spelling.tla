------------------------------ MODULE Spelling ------------------------------
(***************************************************************************)
(* How a source is written down, as CEL.g4 has it: the tokens that spell   *)
(* it, and whether they spell it as it stands or would be read in another  *)
(* way, by precedence, by grouping from the left or as a signed number.    *)
(***************************************************************************)
EXTENDS Grammar

P(type) == <<Punctuation(type)>>
Id(name) == <<Word("IDENTIFIER", <<name>>)>>

Joined(parts, separator) ==
  FlattenSeq([i \in DOMAIN parts |-> (IF i = 1 THEN <<>> ELSE P(separator)) \o parts[i]])

RECURSIVE Spelled(_)
Spelled(src) ==
  LET parts == [i \in DOMAIN src.parts |-> Spelled(src.parts[i])]
      mark(n) == IF n \in src.opts THEN P("?") ELSE <<>>
      name  == FlattenSeq([i \in DOMAIN src.quals |->
                             (IF src.quals[i] = "" THEN <<>> ELSE Id(src.quals[i])) \o P(".")]) \o Id(src.name)
      elements == [i \in DOMAIN parts |-> mark(i) \o parts[i]]
      entries  == [n \in 1..(Len(parts) \div 2) |-> mark(n) \o parts[2 * n - 1] \o P(":") \o parts[2 * n]]
      fields   == [i \in DOMAIN parts |-> mark(i) \o Id(src.words[i]) \o P(":") \o parts[i]]
      sign     == src.words # <<>> /\ src.words[1] = "-"
  IN CASE src.kind = "literal" -> IF sign THEN P("-") \o <<Word(src.name, Tail(src.words))>>
                                  ELSE <<Word(src.name, src.words)>>
       [] src.kind = "ident"   -> name
       [] src.kind = "nested"  -> P("(") \o parts[1] \o P(")")
       [] src.kind = "chain"   -> Joined(parts, IF src.name = "_||_" THEN "||" ELSE "&&")
       [] src.kind = "binary"  ->
            LET op == CHOOSE o \in RelationOps \cup DOMAIN CalcOps : src.name \in {"_" \o o \o "_", "@" \o o}
            IN Joined(parts, op)
       [] src.kind = "conditional" -> parts[1] \o P("?") \o parts[2] \o P(":") \o parts[3]
       [] src.kind = "signed"  ->
            FlattenSeq([i \in 1..src.count |-> P(IF src.name = "!_" THEN "!" ELSE "-")]) \o parts[1]
       [] src.kind = "select"  -> parts[1] \o P(".") \o mark(1) \o Id(src.name)
       [] src.kind = "index"   -> parts[1] \o P("[") \o mark(1) \o parts[2] \o P("]")
       [] src.kind = "call"    -> name \o P("(") \o Joined(parts, ",") \o P(")")
       [] src.kind = "member"  -> parts[1] \o P(".") \o Id(src.name) \o P("(") \o Joined(Tail(parts), ",") \o P(")")
       [] src.kind = "list"    -> P("[") \o Joined(elements, ",") \o P("]")
       [] src.kind = "map"     -> P("{") \o Joined(entries, ",") \o P("}")
       [] src.kind = "struct"  -> name \o P("{") \o Joined(fields, ",") \o P("}")

\* How tightly a source holds together.
Tightness(src) ==
  CASE src.kind = "conditional" -> 0
    [] src.kind = "chain"  -> IF src.name = "_||_" THEN 1 ELSE 2
    [] src.kind = "binary" -> IF src.name \in {"_" \o op \o "_" : op \in {"+", "-"}} THEN 4
                              ELSE IF src.name \in {"_" \o op \o "_" : op \in {"*", "/", "%"}} THEN 5 ELSE 3
    [] src.kind = "signed" -> 6
    [] OTHER               -> 7

IsNumber(src) == src.kind = "literal" /\ src.name \in {"NUM_INT", "NUM_FLOAT"}
IsSigned(src) == src.words # <<>> /\ src.words[1] = "-"

\* The source at the very left.
RECURSIVE Leftmost(_)
Leftmost(src) == IF src.kind \in {"select", "member", "index"} THEN Leftmost(src.parts[1]) ELSE src

\* How tight part i has to be, where it stands without brackets.
Asked(src, i) ==
  CASE src.kind = "conditional"       -> IF i = 3 THEN 0 ELSE 1
    [] src.kind \in {"chain", "binary"} -> IF src.kind = "binary" /\ i = 1 THEN Tightness(src) ELSE Tightness(src) + 1
    [] src.kind = "signed"            -> 7
    [] src.kind \in {"select", "member", "index"} -> IF i = 1 THEN 7 ELSE 0
    [] OTHER                          -> 0

\* Signs are taken for operators as far as they go, but the only one in front of a number is its own.
Plainly(src) ==
  src.kind = "signed" /\ src.name = "-_" =>
    LET l == Leftmost(src.parts[1])
    IN IsNumber(l) => ~IsSigned(l) /\ src.count > 1

RECURSIVE Canonical(_)
Canonical(src) ==
  /\ \A i \in DOMAIN src.parts : Tightness(src.parts[i]) >= Asked(src, i) /\ Canonical(src.parts[i])
  /\ Plainly(src)

\* The tokens but for the commas in front of a closing bracket, where a list may end with one.
WithoutTrailingCommas ==
  LET kept == SelectSeq([p \in DOMAIN tokens |-> p],
                        LAMBDA p : ~(At(p) = "," /\ At(p + 1) \in {"]", "}"}))
  IN [i \in DOMAIN kept |-> tokens[kept[i]]]
=============================================================================
