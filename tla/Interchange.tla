---------------------------- MODULE Interchange -----------------------------
(***************************************************************************)
(* A value on its way through the library: a host's data is serialized     *)
(* (to_value), the Value is bound to a variable of a context, which holds  *)
(* it as a Val, evaluation hands it back as a Value, and the host exports  *)
(* that as JSON.  A host may also start with a Value it has made itself.   *)
(***************************************************************************)
EXTENDS Serializer, Conversions

-----------------------------------------------------------------------------
(* The conversion of a Value to JSON (cel/src/json.rs).  Objects are functions from texts. *)

JsonNull  == <<"null", "">>
NotFinite == {"nan", "inf"}

CONSTANTS
  Ints,            \* the integers hosts have
  NumberText(_)    \* how one of them is written

ASSUME NumberTextsAssumption ==
  \A m, n \in Ints : NumberText(m) \notin {"true", "false"} /\ (NumberText(m) = NumberText(n) => m = n)

\* Faulty: all keys that are no strings have their type for a text.
TypeText(k) == IF TypeOf(k) = "string" THEN k[2] ELSE TypeOf(k)

KeyText(k) ==
  CASE TypeOf(k) = "string" -> k[2]
    [] TypeOf(k) = "bool"   -> IF k[2] THEN "true" ELSE "false"
    [] OTHER                -> NumberText(k[2])

\* The sequences that take one of each set.
Selections(sets) ==
  {s \in [DOMAIN sets -> UNION {sets[i] : i \in DOMAIN sets}] : \A i \in DOMAIN sets : s[i] \in sets[i]}

\* Faulty: the error of an item is lost.
TaggedAnyway(tag, r) == Ok(<<tag, IF Failed(r) THEN <<>> ELSE r[2]>>)

Tagged(tag, r) == IF Failed(r) THEN r ELSE Ok(<<tag, r[2]>>)

\* The objects that maps become whose values have these results, one for each order a map may be gone
\* through in: of the entries whose keys have one text the last one stays.
Objects(results) ==
  LET texts    == {KeyText(k) : k \in DOMAIN results}
      Under(t) == UNION {results[k] : k \in {key \in DOMAIN results : KeyText(key) = t}}
      errors   == {r \in UNION {results[k] : k \in DOMAIN results} : Failed(r)}
  IN IF errors # {} THEN errors
     ELSE {Ok(<<"object", [t \in texts |-> s[t][2]]>>) : s \in Selections([t \in texts |-> Under(t)])}

\* Value::json, given the results of the values inside.
ExportsUsing(exports, v) ==
  CASE TypeOf(v) = "list"      ->
         {Tagged("array", Together(s)) : s \in Selections([i \in DOMAIN v[2] |-> exports[v[2][i]]])}
    [] TypeOf(v) = "map"       -> Objects([k \in DOMAIN v[2] |-> exports[v[2][k]]])
    [] TypeOf(v) \in {"int", "uint"} -> {Ok(<<"number", v[2]>>)}
    [] TypeOf(v) = "double"    -> {Ok(IF v[2] \in NotFinite THEN JsonNull ELSE <<"float", v[2]>>)}
    [] TypeOf(v) \in {"string", "bool"} -> {Ok(v)}
    [] TypeOf(v) = "null"      -> {Ok(JsonNull)}
    [] TypeOf(v) = "bytes"     -> {Ok(<<"base64", v[2]>>)}
    [] TypeOf(v) = "timestamp" -> {Ok(<<"string", Rfc3339(v[2])>>)}
    [] TypeOf(v) = "duration"  -> {IF HasNanos(v[2]) THEN Ok(<<"number", v[2]>>) ELSE Err("DurationOverflow")}
    [] TypeOf(v) = "opaque"    -> {Ok(IF v[2][2] = <<>> THEN JsonNull ELSE <<"string", v[2][2][1]>>)}
    [] TypeOf(v) = "optional"  -> {Ok(JsonNull)}
    [] OTHER                   -> {Err("Value")}

Exports(v) == LET Out[w \in AnywhereIn(v)] == ExportsUsing(Out, w) IN Out[v]
-----------------------------------------------------------------------------

CONSTANTS
  Data,         \* what hosts serialize
  HostValues    \* the Values hosts make

VARIABLES
  source,    \* what the host started with: <<"data", d>> or <<"value", v>>
  isShared,  \* whether the host has kept another Arc of its value
  stage,     \* the form the value has now
  held,      \* the value in that form, or the error
  json       \* what it was exported as, if it was

vars == <<source, isShared, stage, held, json>>

Init ==
  /\ source \in {<<"data", d>> : d \in Data} \cup {<<"value", v>> : v \in HostValues}
  /\ isShared \in (IF source[1] = "value" THEN BOOLEAN ELSE {FALSE})
  /\ stage = "source"
  /\ held = Ok(Null)
  /\ json = Ok(JsonNull)

\* Context::add_variable, first half: the conversion of either source to a Value.
TryIntoValue ==
  /\ stage = "source"
  /\ held' = IF source[1] = "data" THEN Serialized(source[2]) ELSE Ok(source[2])
  /\ stage' = IF Failed(held') THEN "refused" ELSE "value"
  /\ UNCHANGED <<source, isShared, json>>

\* Context::add_variable, second half: it unwraps the conversion to a Val.
AddVariable ==
  /\ stage = "value"
  /\ held' = IntoVal(held[2], isShared)
  /\ stage' = IF Failed(held') THEN "panicked" ELSE "val"
  /\ UNCHANGED <<source, isShared, json>>

\* Value::resolve, of the variable alone: the Val is lent to the conversion.
Resolve ==
  /\ stage = "val"
  /\ held' = Ok(FromVal(held[2]))
  /\ stage' = "resolved"
  /\ UNCHANGED <<source, isShared, json>>

\* Value::json
Export ==
  /\ stage = "resolved"
  /\ json' \in Exports(held[2])
  /\ stage' = "exported"
  /\ UNCHANGED <<source, isShared, held>>

Done == stage \in {"refused", "panicked", "exported"} /\ UNCHANGED vars

Next == TryIntoValue \/ AddVariable \/ Resolve \/ Export \/ Done

Spec == Init /\ [][Next]_vars
-----------------------------------------------------------------------------
(* What data means. *)

\* Data without the wrapping that leaves no trace.
BareUsing(bare, d) ==
  CASE d[1] = "some"           -> bare[d[2]]
    [] d[1] = "newtype_struct" -> bare[d[3]]
    [] OTHER                   -> d
Bare(d) == LET B[w \in AnywhereWithin(d)] == BareUsing(B, w) IN B[d]

\* The data in it, itself included.
InsideUsing(inside, d) == {d} \cup UNION {inside[x] : x \in Contents(d)}
Inside(d) == LET In[w \in AnywhereWithin(d)] == InsideUsing(In, w) IN In[d]

Last(S) == CHOOSE i \in S : \A j \in S : j <= i

\* The places of the keys up to a call on a map: a value is stored under the last, used before or not.
KeyPlaces(calls, i) == {j \in 1..i : calls[j][1] = "key"}

CanBeKey(d) == Bare(d)[1] \in {"bool", "i64", "u64", "str", "unit_variant", "timestamp"}

KeyMeant(d) == IF Bare(d)[1] = "timestamp" THEN StrOf(Rfc3339(Bare(d)[2])) ELSE Atom(Bare(d))

\* No map in it has an entry that cannot be.
IsSoundMap(calls) ==
  \A i \in DOMAIN calls : IF calls[i][1] = "key" THEN CanBeKey(calls[i][2]) ELSE KeyPlaces(calls, i) # {}

Sound(d) == \A p \in Inside(d) : p[1] = "map" => IsSoundMap(p[2])

\* The map of values entered at places under keys, the last of each key.
Entered(key, value) ==
  MapOf([k \in {key[i] : i \in DOMAIN key} |-> value[Last({i \in DOMAIN key : key[i] = k})]])

\* A duration that has no number of nanoseconds is rounded to seconds.
MeantUsing(meant, d) ==
  LET Listed(items)  == ListOf([i \in DOMAIN items |-> meant[items[i]]])
      Fields(fields) == Entered([i \in DOMAIN fields |-> StrOf(fields[i][1])],
                                [i \in DOMAIN fields |-> meant[fields[i][2]]])
      Stored(calls)  == LET values == {i \in DOMAIN calls : calls[i][1] # "key"}
                        IN Entered([i \in values |-> KeyMeant(calls[Last(KeyPlaces(calls, i))][2])],
                                   [i \in values |-> meant[calls[i][2]]])
      Named(name, v) == MapOf([k \in {StrOf(name)} |-> v])
  IN CASE d[1] = "some"            -> meant[d[2]]
       [] d[1] = "newtype_struct"  -> meant[d[3]]
       [] d[1] = "newtype_variant" -> Named(d[2], meant[d[3]])
       [] d[1] = "seq"             -> Listed(d[2])
       [] d[1] = "tuple_variant"   -> Named(d[2], Listed(d[3]))
       [] d[1] = "map"             -> Stored(d[2])
       [] d[1] = "struct"          -> Fields(d[3])
       [] d[1] = "struct_variant"  -> Named(d[2], Fields(d[3]))
       [] d[1] = "timestamp"       -> TimestampOf(d[2])
       [] d[1] = "duration"        -> DurationOf(IF HasNanos(d[2]) THEN d[2] ELSE d[2] - Remainder(d[2], Second))
       [] OTHER                    -> Atom(d)
Meant(d) == LET M[w \in AnywhereWithin(d)] == MeantUsing(M, w) IN M[d]
-----------------------------------------------------------------------------
(* What hosts have. *)

DataKinds ==
  {"bool", "i64", "u64", "f64", "str", "unit_variant", "bytes", "none", "unit", "some", "newtype_struct",
   "newtype_variant", "seq", "tuple_variant", "map", "struct", "struct_variant"} \cup Wrappers

\* No host gives a newtype of its own the name of a wrapper.
IsWellMade(d) ==
  /\ d[1] \in DataKinds
  /\ d[1] = "bool" => d[2] \in BOOLEAN
  /\ d[1] \in {"i64", "u64"} => d[2] \in Ints
  /\ d[1] = "duration" => d[2] \in Int
  /\ d[1] = "timestamp" => d[2] \in Timestamps
  /\ d[1] = "newtype_struct" => d[2] \notin {DurationName, TimestampName}
  /\ d[1] \in {"seq", "map"} => IsSequence(d[2])
  /\ d[1] \in {"tuple_variant", "struct", "struct_variant"} => IsSequence(d[3])

IsFunction(f) == f = [x \in DOMAIN f |-> f[x]]

IsKey(k) ==
  /\ k = <<TypeOf(k), k[2]>>
  /\ TypeOf(k) \in KeyTypes
  /\ TypeOf(k) = "bool" => k[2] \in BOOLEAN
  /\ TypeOf(k) \in {"int", "uint"} => k[2] \in Ints

ValueKinds ==
  {"bool", "bytes", "double", "duration", "function", "int", "list", "map", "null", "opaque", "optional",
   "string", "struct", "timestamp", "uint"}

\* What a struct holds is Vals, and no function is one.
IsWellFormed(v) ==
  /\ v = <<TypeOf(v), v[2]>>
  /\ TypeOf(v) \in ValueKinds
  /\ TypeOf(v) = "list" => IsSequence(v[2])
  /\ TypeOf(v) = "map" => IsFunction(v[2]) /\ \A k \in DOMAIN v[2] : IsKey(k)
  /\ TypeOf(v) = "optional" => v[2] = <<>> \/ v[2] = <<v[2][1]>>
  /\ TypeOf(v) = "struct" => /\ v[2] = <<v[2][1], v[2][2]>> /\ IsFunction(v[2][2])
                             /\ \A w \in AnywhereIn(v) : TypeOf(w) # "function"

IsValue(v) == IsNested(v) /\ \A w \in AnywhereIn(v) : IsWellFormed(w)

ASSUME DataAssumption ==
  \A d \in Data : IsNestedData(d) /\ (\A p \in Inside(d) : IsWellMade(p)) /\ (Sound(d) => IsNested(Meant(d)))
ASSUME ValuesAssumption == \A v \in HostValues : IsValue(v)
-----------------------------------------------------------------------------
(* Properties. *)

\* A host's data arrives as what it means, entry by entry, and is refused only where a map has a
\* key that is none or a value before any key; the marked structs of durations and timestamps
\* never reach a method that is not meant for them (ser.rs).
ArrivesAsMeant ==
  source[1] = "data" =>
    /\ stage = "value" => Sound(source[2]) /\ held = Ok(Meant(source[2]))
    /\ stage = "refused" => ~Sound(source[2]) /\ held = Err("InvalidKey")

OfType(v, type) == {w \in AnywhereIn(v) : TypeOf(w) = type}

\* An optional in it holds a value.
HoldsOptionals(v) == \E w \in OfType(v, "optional") : w[2] # <<>>

\* What was bound is what is read: a variable gives back the value it was given, except that
\* optionals within structs come back as their contents; binding panics for a value that holds a
\* function, and for no other (TryFrom both ways, objects.rs; the unwrap in context.rs).
ReadsBack ==
  LET given == IF source[1] = "value" THEN source[2] ELSE Meant(source[2])
  IN /\ stage = "panicked" => OfType(given, "function") # {}
     /\ stage = "resolved" =>
          /\ OfType(given, "function") = {}
          /\ IF \E s \in OfType(given, "struct") : HoldsOptionals(s)
             THEN ~\E s \in OfType(held[2], "struct") : HoldsOptionals(s)
             ELSE held = Ok(given)

Numbers == {"int", "uint"}
Spells(s, k) ==
  /\ TypeOf(s) = "string"
  /\ \/ TypeOf(k) \in Numbers /\ s[2] = NumberText(k[2])
     \/ TypeOf(k) = "bool" /\ s[2] = (IF k[2] THEN "true" ELSE "false")
ReadAlike(k, l) == IF {TypeOf(k), TypeOf(l)} \subseteq Numbers THEN k[2] = l[2] ELSE Spells(k, l) \/ Spells(l, k)

Colliding(m) ==
  \E k, l \in DOMAIN m[2] : k # l /\ ReadAlike(k, l) /\ Exports(m[2][k]) # Exports(m[2][l])

\* The values an export looks at: not what structs and optionals hold.
ReachedUsing(reached, v) ==
  {v} \cup IF TypeOf(v) \in {"list", "map"} THEN UNION {reached[w] : w \in DirectlyIn(v)} ELSE {}
Reached(v) == LET R[w \in AnywhereIn(v)] == ReachedUsing(R, w) IN R[v]

\* The JSON of a value does not depend on the order of a hash map, unless keys of two types have
\* one text and different values: then it is up to the order which of the values is lost.  Of
\* several errors, which one is returned is up to it too (json.rs).
ExportIsOrderFree ==
  stage = "exported" =>
    \/ \A r \in Exports(held[2]) : r = json \/ (Failed(r) /\ Failed(json))
    \/ \E m \in Reached(held[2]) : TypeOf(m) = "map" /\ Colliding(m)

\* A value is exported unless it holds a struct or a duration without a number of nanoseconds.
\* What an optional holds is not looked at: it is exported as null (json.rs).
ExportedOrRefused ==
  stage = "exported" =>
    (Failed(json) <=>
       \E w \in Reached(held[2]) : TypeOf(w) = "struct" \/ (TypeOf(w) = "duration" /\ ~HasNanos(w[2])))
=============================================================================
