------------------------------- MODULE Stdlib -------------------------------
(***************************************************************************)
(* The standard environment (Env::stdlib, cel/src/env.rs): the overloads   *)
(* of the type modules of cel/src/common/types, registered one by one in   *)
(* the order stdlib() asks for them.  What is then asked of it is in       *)
(* Calling.                                                                *)
(***************************************************************************)
EXTENDS Overloads

VARIABLES
  registered,  \* registrations made so far
  request      \* what has been asked of the library, if anything: <<>> or <<r>>

stdVars == <<decls, answer, registered, request>>

Global(name, id, args) ==
  [name |-> name, overload |-> [id |-> id, member |-> FALSE, args |-> args]]
Member(name, id, target, args) ==
  [name |-> name, overload |-> [id |-> id, member |-> TRUE, args |-> <<target>> \o args]]

BytesLib == <<
  Global("bytes", "string_to_bytes", <<"string">>),
  Global("bytes", "bytes_to_bytes", <<"bytes">>),
  Global("size", "size_bytes", <<"bytes">>),
  Member("size", "bytes_size", "bytes", <<>>)>>

DoubleLib == <<
  Global("double", "double_to_double", <<"double">>),
  Global("double", "int64_to_double", <<"int">>),
  Global("double", "uint64_to_double", <<"uint">>),
  Global("double", "string_to_double", <<"string">>)>>

IntLib == <<
  Global("int", "int64_to_int64", <<"int">>),
  Global("int", "uint64_to_int64", <<"uint">>),
  Global("int", "double_to_int64", <<"double">>),
  Global("int", "string_to_int64", <<"string">>)>>

ListLib == <<
  Global("size", "size_list", <<"list">>),
  Member("size", "list_size", "list", <<>>)>>

\* Faulty: size of anything, where the size of a map is meant.
MapLibSizesAll == <<
  Global("size", "size_map", <<"map">>),
  Member("size", "map_size", "dyn", <<>>)>>

MapLib == <<
  Global("size", "size_map", <<"map">>),
  Member("size", "map_size", "map", <<>>)>>

OptionalLib == <<
  Global("optional.none", "optional_none", <<>>),
  Global("optional.of", "optional_of", <<"dyn">>),
  Global("optional.ofNonZeroValue", "optional_ofNonZeroValue", <<"dyn">>),
  Member("value", "optional_value", "optional", <<>>),
  Member("hasValue", "optional_has_value", "optional", <<>>),
  Member("or", "optional_or_optional", "optional", <<"optional">>),
  Member("orValue", "optional_or_value", "optional", <<"dyn">>)>>

StringLib == <<
  Global("string", "string_to_string", <<"string">>),
  Global("string", "int64_to_string", <<"int">>),
  Global("string", "uint64_to_string", <<"uint">>),
  Global("string", "double_to_string", <<"double">>),
  Global("string", "bytes_to_string", <<"bytes">>),
  Global("string", "timestamp_to_string", <<"timestamp">>),
  Global("string", "duration_to_string", <<"duration">>),
  Member("contains", "contains_string", "string", <<"string">>),
  Member("endsWith", "ends_with_string", "string", <<"string">>),
  Global("size", "size_string", <<"string">>),
  Member("size", "string_size", "string", <<>>),
  Member("startsWith", "starts_with_string", "string", <<"string">>),
  Member("matches", "matches", "string", <<"string">>)>>

\* Faulty: the conversion from uint is registered under the id of the one from int.
UIntLibIdTwice == <<
  Global("uint", "int64_to_uint64", <<"uint">>),
  Global("uint", "int64_to_uint64", <<"int">>),
  Global("uint", "double_to_uint64", <<"double">>),
  Global("uint", "string_to_uint64", <<"string">>)>>

UIntLib == <<
  Global("uint", "uint64_to_uint64", <<"uint">>),
  Global("uint", "int64_to_uint64", <<"int">>),
  Global("uint", "double_to_uint64", <<"double">>),
  Global("uint", "string_to_uint64", <<"string">>)>>

DurationLib == <<
  Global("duration", "string_to_duration", <<"string">>),
  Global("duration", "duration_to_duration", <<"duration">>),
  Member("getHours", "duration_to_hours", "duration", <<>>),
  Member("getMinutes", "duration_to_minutes", "duration", <<>>),
  Member("getSeconds", "duration_to_seconds", "duration", <<>>),
  Member("getMilliseconds", "duration_to_millis", "duration", <<>>)>>

TimestampLib == <<
  Global("timestamp", "string_to_timestamp", <<"string">>),
  Global("timestamp", "timestamp_to_timestamp", <<"timestamp">>),
  Member("getFullYear", "timestamp_to_year", "timestamp", <<>>),
  Member("getMonth", "timestamp_to_month", "timestamp", <<>>),
  Member("getDayOfYear", "timestamp_to_day_of_year", "timestamp", <<>>),
  Member("getDayOfMonth", "timestamp_to_day_of_month", "timestamp", <<>>),
  Member("getDate", "timestamp_to_day_of_month_1_based", "timestamp", <<>>),
  Member("getDayOfWeek", "timestamp_to_day_of_week", "timestamp", <<>>),
  Member("getHours", "timestamp_to_hours", "timestamp", <<>>),
  Member("getMinutes", "timestamp_to_minutes", "timestamp", <<>>),
  Member("getSeconds", "timestamp_to_seconds", "timestamp", <<>>),
  Member("getMilliseconds", "timestamp_to_millis", "timestamp", <<>>)>>

Library ==
  BytesLib \o DoubleLib \o IntLib \o ListLib \o MapLib \o OptionalLib \o StringLib
    \o UIntLib \o DurationLib \o TimestampLib

\* The types that values of the built-in kinds have; a struct and a host's opaque value have types of their own.
StdValueTypes ==
  {"bool", "bytes", "double", "duration", "int", "list", "map", "null", "opaque",
   "optional", "string", "struct", "timestamp", "uint"}
StdTypes == StdValueTypes \cup {"dyn"}

\* The optional type is opaque with Dyn as its parameter.
StdFirstParameter == [t \in {"optional"} |-> "dyn"]

StdNames == {Library[i].name : i \in DOMAIN Library}
StdIds   == {Library[i].overload.id : i \in DOMAIN Library}

\* The types as the library names them; others may have been declared beside them.
ASSUME LibraryAssumption ==
  /\ StdNames \subseteq FunctionNames
  /\ Dyn = "dyn" /\ StdValueTypes \subseteq ValueTypes /\ Dyn \notin ValueTypes
  /\ Opaque = {"optional"} /\ FirstParameter["optional"] = Dyn

Complete == registered = Len(Library)
-----------------------------------------------------------------------------
StdInit ==
  /\ Init
  /\ registered = 0
  /\ request = <<>>

Register ==
  /\ ~Complete
  /\ registered' = registered + 1
  /\ LET row == Library[registered + 1]
         o   == row.overload
     IN IF o.member
        THEN AddMemberOverload(row.name, o.id, o.args[1], Tail(o.args))
        ELSE AddOverload(row.name, o.id, o.args)
  /\ UNCHANGED request
-----------------------------------------------------------------------------
(* Properties. *)

\* No registration of the standard library is refused (each is followed by
\* .expect("Must be unique id")).
RegistersOnce == answer # "err"

\* Every overload of the standard library can be called: values of its own types reach it,
\* and no overload registered earlier takes them away.  For a Dyn parameter, any value does.
\* (No request changes the overloads.)
EveryOverloadReachable ==
  Complete /\ request = <<>> =>
    \A i \in DOMAIN Library :
      LET o == Library[i].overload
      IN \A args \in [DOMAIN o.args -> ValueTypes] :
           (\A k \in DOMAIN args : o.args[k] \in {args[k], Dyn}) =>
             FindOverload(Library[i].name, o.member, args) = o
=============================================================================
