------------------------------- MODULE Values -------------------------------
(***************************************************************************)
(* The values expressions evaluate to (dyn Val, cel/src/common) and the    *)
(* operations the evaluator asks of them.  A value is a pair of its type's *)
(* name and its contents: a list holds a sequence, a map a function from   *)
(* keys, an optional a sequence of at most one value.  Numbers are small   *)
(* ints here; strings are only concatenated and compared for equality.     *)
(*                                                                         *)
(* The evaluator passes a value as a Cow: its own, or lent by whoever      *)
(* holds it.  It tells in two places: a lent value is copied where an own  *)
(* one is moved, and copying an optional leaves its contents; and an       *)
(* indexed container lends its element (get) or gives it away (steal).     *)
(***************************************************************************)
EXTENDS Logic, Integers, Sequences, FiniteSets

IntOf(n)     == <<"int", n>>
UintOf(n)    == <<"uint", n>>
DoubleOf(x)  == <<"double", x>>
BytesOf(b)   == <<"bytes", b>>
StrOf(s)     == <<"string", s>>
ListOf(s)    == <<"list", s>>
MapOf(f)     == <<"map", f>>
StructOf(name, fields) == <<"struct", <<name, fields>>>>
Null         == <<"null", "null">>
OptNone      == <<"optional", <<>>>>
OptSome(v)   == <<"optional", <<v>>>>

TypeOf(v) == v[1]

IsSequence(s) == s \in Seq({s[i] : i \in DOMAIN s})

Own(v)  == <<"ok", v, TRUE>>
Lent(v) == <<"ok", v, FALSE>>

\* A result without the ownership of its value, and the other way round.
Plain(r) == IF Failed(r) THEN r ELSE Ok(r[2])
Mine(r)  == IF Failed(r) THEN r ELSE Own(r[2])

\* All the values, or the first error among the results.
Together(results) ==
  LET failing == {i \in DOMAIN results : Failed(results[i])}
  IN IF failing = {} THEN Ok([i \in DOMAIN results |-> results[i][2]])
     ELSE results[CHOOSE i \in failing : \A j \in failing : i <= j]

InList(items) == IF Failed(items) THEN items ELSE Ok(ListOf(items[2]))

KeyTypes == {"bool", "int", "string", "uint"}

\* The values a value holds directly, those so many levels inside it, and all of them together with
\* itself; values are nested in one another at most MaxNesting deep.
DirectlyIn(v) ==
  CASE TypeOf(v) \in {"list", "map"}          -> {v[2][k] : k \in DOMAIN v[2]}
    [] TypeOf(v) = "optional" /\ v[2] # <<>> -> {v[2][1]}
    [] TypeOf(v) = "struct"                  -> {v[2][2][f] : f \in DOMAIN v[2][2]}
    [] OTHER                                 -> {}

MaxNesting == 8

Levels(v) ==
  LET Level[n \in 0..MaxNesting] ==
        IF n = 0 THEN {v} ELSE UNION {DirectlyIn(w) : w \in Level[n - 1]}
  IN Level

AnywhereIn(v) == UNION {Levels(v)[n] : n \in 0..MaxNesting}

IsNested(v) == \A w \in Levels(v)[MaxNesting] : DirectlyIn(w) = {}

\* clone_as_boxed, given the copies of what the value holds: a copy of an optional that holds a
\* value is a copy of that value.
CloneUsing(copy, v) ==
  CASE TypeOf(v) = "optional" -> IF v[2] = <<>> THEN v ELSE copy[v[2][1]]
    [] TypeOf(v) = "list"     -> ListOf([i \in DOMAIN v[2] |-> copy[v[2][i]]])
    [] TypeOf(v) = "map"      -> MapOf([k \in DOMAIN v[2] |-> copy[v[2][k]]])
    [] TypeOf(v) = "struct"   -> StructOf(v[2][1], [f \in DOMAIN v[2][2] |-> copy[v[2][2][f]]])
    [] OTHER                  -> v

Clone(v) == LET Copy[w \in AnywhereIn(v)] == CloneUsing(Copy, w) IN Copy[v]

\* Cow::into_owned
IntoOwned(r) == IF r[3] THEN r[2] ELSE Clone(r[2])

\* equals: an optional does not define it and equals nothing.
Equals(v, w) ==
  LET SameAt(Same, f, g) == DOMAIN f = DOMAIN g /\ \A k \in DOMAIN f : Same[f[k], g[k]]
      Same[x \in AnywhereIn(v), y \in AnywhereIn(w)] ==
        /\ TypeOf(x) = TypeOf(y)
        /\ TypeOf(x) # "optional"
        /\ CASE TypeOf(x) \in {"list", "map"} -> SameAt(Same, x[2], y[2])
             [] TypeOf(x) = "struct" -> x[2][1] = y[2][1] /\ SameAt(Same, x[2][2], y[2][2])
             [] OTHER -> x[2] = y[2]
  IN Same[v, w]

IsIterable(v) == TypeOf(v) \in {"list", "map"}
IsIndexer(v)  == TypeOf(v) \in {"list", "map", "struct"}

\* The orders in which iter() may yield the items; the keys of a HashMap come in any.
Orders(S) == {s \in [1..Cardinality(S) -> S] : \A i, j \in DOMAIN s : s[i] = s[j] => i = j}
Iterations(v) == IF TypeOf(v) = "list" THEN {v[2]} ELSE Orders(DOMAIN v[2])

\* DefaultList::get and steal agree on errors.
ListAt(l, i) ==
  IF TypeOf(i) \notin {"int", "uint"} THEN Err("UnexpectedType")
  ELSE IF i[2] \notin 0..Len(l[2]) - 1 THEN Err("IndexOutOfBounds")
  ELSE Ok(l[2][i[2] + 1])

MapAt(m, k) ==
  IF k \in DOMAIN m[2] THEN Ok(m[2][k]) ELSE Err("NoSuchKey")

\* A field is asked for by its name.
FieldAt(s, i) ==
  IF TypeOf(i) # "string" THEN Err("UnsupportedIndex")
  ELSE IF i[2] \in DOMAIN s[2][2] THEN Ok(s[2][2][i[2]]) ELSE Err("NoSuchKey")

\* Indexer::get: the element is lent.
Get(v, i) ==
  LET r == IF TypeOf(v) = "list" THEN ListAt(v, i)
           ELSE IF TypeOf(v) = "struct" THEN FieldAt(v, i)
           ELSE IF TypeOf(i) \notin KeyTypes THEN Err(NoSuchOverload)
           ELSE MapAt(v, i)
  IN IF Failed(r) THEN r ELSE Lent(r[2])

\* Indexer::steal: the container gives the element away, a struct a copy; a map's key is
\* copied first.
Steal(v, i) ==
  IF TypeOf(v) = "list" THEN Mine(ListAt(v, i))
  ELSE IF TypeOf(v) = "struct"
       THEN LET r == FieldAt(v, i) IN IF Failed(r) THEN r ELSE Own(Clone(r[2]))
  ELSE IF TypeOf(Clone(i)) \notin KeyTypes THEN Err("UnsupportedKeyType")
  ELSE Mine(MapAt(v, Clone(i)))

\* Container::contains
ContainsVal(c, v) ==
  CASE TypeOf(c) = "list" -> Ok(BoolVal(\E i \in DOMAIN c[2] : Equals(c[2][i], v)))
    [] TypeOf(c) = "map"  -> IF TypeOf(Clone(v)) \notin KeyTypes THEN Err("UnsupportedKeyType")
                             ELSE Ok(BoolVal(Clone(v) \in DOMAIN c[2]))
    [] OTHER              -> Err(NoSuchOverload)

\* Adder::add, one result for each order the right operand may be gone through in; a list
\* takes the items of anything iterable.
Sums(l, r) ==
  CASE TypeOf(l) = "int"    ->
         {IF TypeOf(r) = "int" THEN Ok(IntOf(l[2] + r[2])) ELSE Err(NoSuchOverload)}
    [] TypeOf(l) = "string" ->
         {IF TypeOf(r) = "string" THEN Ok(StrOf(l[2] \o r[2]))
          ELSE Err("UnsupportedBinaryOperator")}
    [] TypeOf(l) = "list"   ->
         IF IsIterable(r)
         THEN {Ok(Clone(ListOf(l[2] \o items))) : items \in Iterations(r)}
         ELSE {Err(NoSuchOverload)}
    [] OTHER                -> {Err("UnsupportedBinaryOperator")}

\* Division towards zero, and its remainder.
Quotient(a, b)  ==
  LET Size(n) == IF n < 0 THEN -n ELSE n
      q       == Size(a) \div Size(b)
  IN IF (a < 0) = (b < 0) THEN q ELSE -q
Remainder(a, b) == a - b * Quotient(a, b)

\* What the other operators make of two ints, far from the limits of their type.
IntArithmetic(op, l, r) ==
  IF TypeOf(l) # "int" THEN Err("UnsupportedBinaryOperator")
  ELSE IF TypeOf(r) # "int" THEN Err(NoSuchOverload)
  ELSE IF op = "_/_" /\ r[2] = 0 THEN Err("DivisionByZero")
  ELSE IF op = "_%_" /\ r[2] = 0 THEN Err("RemainderByZero")
  ELSE Ok(IntOf(CASE op = "_-_" -> l[2] - r[2]
                  [] op = "_*_" -> l[2] * r[2]
                  [] op = "_/_" -> Quotient(l[2], r[2])
                  [] op = "_%_" -> Remainder(l[2], r[2])))

Rank(v) == IF TypeOf(v) = "int" THEN v[2] ELSE IF v[2] THEN 1 ELSE 0

\* Comparer::compare, as the relation that the operator wants to hold; of ints and of bools (no
\* program modelled orders strings or values of two types).
Compared(l, r, Holds(_, _)) ==
  IF TypeOf(l) \notin {"int", "bool"} \/ TypeOf(r) # TypeOf(l) THEN Err(NoSuchOverload)
  ELSE Ok(BoolVal(Holds(Rank(l), Rank(r))))

IsZero(v) ==
  \/ v \in {BoolVal(FALSE), IntOf(0), StrOf(""), ListOf(<<>>), Null}
  \/ TypeOf(v) = "map" /\ DOMAIN v[2] = {}
  \/ TypeOf(v) = "struct" /\ DOMAIN v[2][2] = {}
=============================================================================
