----------------------------- MODULE Serializer -----------------------------
(***************************************************************************)
(* From a host's data to a Value (cel/src/ser.rs).  Data is what an        *)
(* implementation of serde::Serialize says of itself: a tuple of the call  *)
(* it makes on the serializer and the arguments of the call, with the data *)
(* it contains in turn.  A map makes any sequence of calls <<"key", data>> *)
(* and <<"value", data>>; a struct is a sequence of <<name, data>>.  The   *)
(* library's wrappers are <<"duration", n>> and <<"timestamp", t>>.        *)
(***************************************************************************)
EXTENDS Times

CONSTANTS
  Timestamps,   \* the timestamps hosts have
  Rfc3339(_)    \* the text of each, which chrono parses back to it

ASSUME TextsAssumption == \A s, t \in Timestamps : Rfc3339(s) = Rfc3339(t) => s = t
-----------------------------------------------------------------------------
(* What the wrapper types say of themselves. *)

DurationName  == "$__cel_private_Duration"
TimestampName == "$__cel_private_Timestamp"

\* Faulty: the nanoseconds of the whole duration beside its seconds.
AllNanos(n) ==
  <<"newtype_struct", DurationName,
    <<"struct", "Duration", <<<<"secs", <<"i64", Quotient(n, Second)>>>>, <<"nanos", <<"i64", n>>>>>>>>>>

DurationData(n) ==
  <<"newtype_struct", DurationName,
    <<"struct", "Duration",
      <<<<"secs", <<"i64", Quotient(n, Second)>>>>,
        <<"nanos", <<"i64", IF HasNanos(n) THEN Remainder(n, Second) ELSE 0>>>>>>>>>>

TimestampData(t) == <<"newtype_struct", TimestampName, <<"str", Rfc3339(t)>>>>

Unwrapped(d) == IF d[1] = "duration" THEN DurationData(d[2]) ELSE TimestampData(d[2])
-----------------------------------------------------------------------------
(* Data that contains data. *)

Wrappers == {"duration", "timestamp"}

Contents(d) ==
  CASE d[1] = "some"                                  -> {d[2]}
    [] d[1] \in {"newtype_struct", "newtype_variant"} -> {d[3]}
    [] d[1] = "seq"                                   -> {d[2][i] : i \in DOMAIN d[2]}
    [] d[1] = "tuple_variant"                         -> {d[3][i] : i \in DOMAIN d[3]}
    [] d[1] = "map"                                   -> {d[2][i][2] : i \in DOMAIN d[2]}
    [] d[1] \in {"struct", "struct_variant"}          -> {d[3][i][2] : i \in DOMAIN d[3]}
    [] OTHER                                          -> {}

\* What its serialization asks for: the fields of a marked struct are taken together with the mark.
Needed(d) ==
  Contents(d) \cup (CASE d[1] = "newtype_struct" -> Contents(d[3])
                      [] d[1] \in Wrappers       -> {Unwrapped(d)}
                      [] OTHER                   -> {})

DataLevels(d) ==
  LET Level[n \in 0..MaxNesting] == IF n = 0 THEN {d} ELSE UNION {Needed(w) : w \in Level[n - 1]}
  IN Level

AnywhereWithin(d) == UNION {DataLevels(d)[n] : n \in 0..MaxNesting}

IsNestedData(d) == \A w \in DataLevels(d)[MaxNesting] : Needed(w) = {}
-----------------------------------------------------------------------------
Atom(d) ==
  CASE d[1] = "bool"                    -> BoolVal(d[2])
    [] d[1] = "i64"                     -> IntOf(d[2])
    [] d[1] = "u64"                     -> UintOf(d[2])
    [] d[1] = "f64"                     -> DoubleOf(d[2])
    [] d[1] \in {"str", "unit_variant"} -> StrOf(d[2])
    [] d[1] = "bytes"                   -> BytesOf(d[2])
    [] d[1] \in {"none", "unit"}        -> Null

\* KeySerializer, given what it makes of the data inside.
KeyUsing(key, d) ==
  CASE d[1] = "some"           -> key[d[2]]
    [] d[1] = "newtype_struct" -> key[d[3]]
    [] d[1] \in Wrappers       -> key[Unwrapped(d)]
    [] d[1] \in {"bool", "i64", "u64", "str", "unit_variant"} -> Ok(Atom(d))
    [] OTHER                   -> Err("InvalidKey")

KeyOf(d) == LET Key[w \in AnywhereWithin(d)] == KeyUsing(Key, w) IN Key[d]

\* SerializeMap: the entries so far and the key for the next value.
EmptyMap   == [x \in {} |-> Null]
NewBuilder == [map |-> EmptyMap, next_key |-> <<>>]
With(f, k, v) == [x \in DOMAIN f \cup {k} |-> IF x = k THEN v ELSE f[x]]

SerializeKey(b, key) == IF Failed(key) THEN key ELSE Ok([b EXCEPT !.next_key = <<key[2]>>])

SerializeValue(b, value) ==
  IF b.next_key = <<>> THEN Err("InvalidKey")
  ELSE IF Failed(value) THEN value
  ELSE Ok([b EXCEPT !.map = With(@, b.next_key[1], value[2])])

\* A call on it, of a key, of a value or (serialize_entry) of both: sequences of one result or none.
Call(b, keys, values) ==
  LET keyed == IF keys = <<>> THEN Ok(b) ELSE SerializeKey(b, keys[1])
  IN IF Failed(keyed) \/ values = <<>> THEN keyed ELSE SerializeValue(keyed[2], values[1])

\* What there is before the calls and after each of them, up to one that fails.
Builders(calls) ==
  LET After[n \in 0..Len(calls)] ==
        IF n = 0 THEN Ok(NewBuilder)
        ELSE IF Failed(After[n - 1]) THEN After[n - 1]
        ELSE Call(After[n - 1][2], calls[n][1], calls[n][2])
  IN After

Built(calls) ==
  LET last == Builders(calls)[Len(calls)]
  IN IF Failed(last) THEN last ELSE Ok(MapOf(last[2].map))

\* SerializeTimestamp, whose fields may come in any order.  The nanoseconds are an i32, which those
\* of the wrapper's durations, less than a second, always fit.
TimeField(b, name, value) ==
  IF name \notin DOMAIN b THEN Err("SerdeError")
  ELSE IF Failed(value) THEN value
  ELSE IF TypeOf(value[2]) # "int" THEN Err("SerdeError")
  ELSE Ok([b EXCEPT ![name] = value[2][2]])

TimeFields(fields, values) ==
  LET After[n \in 0..Len(fields)] ==
        IF n = 0 THEN Ok([name \in {"secs", "nanos"} |-> 0])
        ELSE IF Failed(After[n - 1]) THEN After[n - 1]
        ELSE TimeField(After[n - 1][2], fields[n][1], values[n])
      last == After[Len(fields)]
  IN IF Failed(last) THEN last ELSE Ok(DurationOf(last[2]["secs"] * Second + last[2]["nanos"]))

\* TimeSerializer, given what the fields of a struct are serialized as.
TimeSerialized(marker, d, values) ==
  CASE d[1] = "struct" ->
         IF marker # DurationName \/ d[2] # "Duration" \/ Len(d[3]) # 2 THEN Err("SerdeError")
         ELSE TimeFields(d[3], values)
    [] d[1] = "str"    ->
         IF marker # TimestampName \/ ~\E t \in Timestamps : Rfc3339(t) = d[2] THEN Err("SerdeError")
         ELSE Ok(TimestampOf(CHOOSE t \in Timestamps : Rfc3339(t) = d[2]))
    [] OTHER           -> Err("panic")

\* A variant is a map of its name to its contents.
Variant(name, contents) ==
  IF Failed(contents) THEN contents ELSE Ok(MapOf(With(EmptyMap, StrOf(name), contents[2])))

\* Serializer, given what it makes of the data inside.
SerializedUsing(made, d) ==
  LET Items(items)   == InList(Together([i \in DOMAIN items |-> made[items[i]]]))
      Values(fields) == [i \in DOMAIN fields |-> made[fields[i][2]]]
      Fields(fields) == Built([i \in DOMAIN fields |-> <<<<Ok(StrOf(fields[i][1]))>>, <<Values(fields)[i]>>>>])
      Calls(calls)   == Built([i \in DOMAIN calls |->
                                 IF calls[i][1] = "key" THEN <<<<KeyOf(calls[i][2])>>, <<>>>>
                                 ELSE <<<<>>, <<made[calls[i][2]]>>>>])
  IN CASE d[1] = "some"            -> made[d[2]]
       [] d[1] = "newtype_struct"  ->
            IF d[2] \notin {DurationName, TimestampName} THEN made[d[3]]
            ELSE IF d[3][1] = "struct" THEN TimeSerialized(d[2], d[3], Values(d[3][3]))
            ELSE TimeSerialized(d[2], d[3], <<>>)
       [] d[1] \in Wrappers        -> made[Unwrapped(d)]
       [] d[1] = "newtype_variant" -> Variant(d[2], made[d[3]])
       [] d[1] = "seq"             -> Items(d[2])
       [] d[1] = "tuple_variant"   -> Variant(d[2], Items(d[3]))
       [] d[1] = "map"             -> Calls(d[2])
       [] d[1] = "struct"          -> Fields(d[3])
       [] d[1] = "struct_variant"  -> Variant(d[2], Fields(d[3]))
       [] OTHER                    -> Ok(Atom(d))

Serialized(d) == LET Made[w \in AnywhereWithin(d)] == SerializedUsing(Made, w) IN Made[d]
=============================================================================
