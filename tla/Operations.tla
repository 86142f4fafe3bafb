------------------------------ MODULE Operations ----------------------------
(***************************************************************************)
(* What the functions of the library do, twice over: the ops of the        *)
(* standard environment's overloads, which work with Vals                  *)
(* (cel/src/common/types), and the functions that hosts can register under *)
(* the same names, which work with Values (cel/src/functions.rs).  The     *)
(* circumstances `how` say whether the arguments are lent, whether the     *)
(* build checks overflows, and whether an f64 fell short of a product.     *)
(***************************************************************************)
EXTENDS Numbers, Durations

CONSTANTS
  SmallMax,   \* i32::MAX
  DayHours,   \* hours in a day
  MonthDays   \* the days of the months of a year

ASSUME CalendarAssumption == SmallMax \in Nat /\ DayHours \in Nat \ {0} /\ MonthDays \in Seq(Nat \ {0})

FunctionError  == Err("FunctionError")
UnexpectedType == Err("UnexpectedType")
-----------------------------------------------------------------------------
(* Texts. *)

IntText(n) == IF n < 0 THEN <<Minus, Number(-n, 0)>> ELSE <<Number(n, 0)>>

DoubleText(d) ==
  LET sign == IF d[2] < 0 THEN <<Minus>> ELSE <<>>
      h    == IF d[2] < 0 THEN -d[2] ELSE d[2]
  IN CASE d[1] = "half" -> Append(sign, IF h % 2 = 0 THEN Number(h \div 2, 0) ELSE Number(5 * h, 1))
       [] d[1] = "inf"  -> Append(sign, Word("inf"))
       [] d[1] = "nan"  -> <<Word("NaN")>>

\* str::parse for i64 and u64; only the signed type takes a minus.
ParseWhole(text, low, high) ==
  LET neg == low < 0 /\ text # <<>> /\ text[1] = Minus
      rest == IF neg THEN Tail(text) ELSE text
      n    == IF neg THEN -rest[1][2] ELSE rest[1][2]
  IN IF Len(rest) # 1 THEN FunctionError
     ELSE IF rest[1][1] # "number" THEN FunctionError
     ELSE IF rest[1][3] # 0 \/ n \notin low..high THEN FunctionError
     ELSE Ok(n)

\* str::parse for f64
ParseDouble(text) ==
  LET neg  == text # <<>> /\ text[1] = Minus
      rest == IF neg THEN Tail(text) ELSE text
      sgn  == IF neg THEN -1 ELSE 1
  IN IF Len(rest) # 1 THEN FunctionError
     ELSE IF rest[1][1] = "number" THEN Ok(Nearest(sgn * Quotient(2 * rest[1][2], Tens[rest[1][3]])))
     ELSE IF rest[1] = Word("inf") THEN Ok(Infinite(sgn))
     ELSE IF rest[1] = Word("NaN") THEN Ok(Nan)
     ELSE FunctionError

\* to_rfc3339, and what it writes read back.
Moment(t) == <<"moment", t>>
ParseTimestamp(text) ==
  IF Len(text) # 1 THEN FunctionError
  ELSE IF text[1][1] # "moment" THEN FunctionError ELSE Ok(TimestampOf(text[1][2]))

\* String::from_utf8_lossy
Lossy(bytes) == [i \in DOMAIN bytes |-> IF bytes[i] = Word("no utf8") THEN Word("replacement") ELSE bytes[i]]

OccursIn(part, text) ==
  \E i \in 0..Len(text) - Len(part) : SubSeq(text, i + 1, i + Len(part)) = part

\* regex: a text that is a pattern matches where it occurs.
Matching(text, pattern) ==
  IF Word("no pattern") \in ToSet(pattern) THEN FunctionError ELSE Ok(BoolVal(OccursIn(pattern, text)))

SizeOf(v) == IF TypeOf(v) = "map" THEN Cardinality(DOMAIN v[2]) ELSE Len(v[2])

Outcome(make(_), r) == IF Failed(r) THEN r ELSE Ok(make(r[2]))
-----------------------------------------------------------------------------
(* The calendar (chrono). *)

Day == DayHours * Nanos["h"]
Before(month0) == FoldLeft(LAMBDA days, m : days + m, 0, SubSeq(MonthDays, 1, month0))
YearDays == Before(Len(MonthDays))

Year(t)   == (t \div Day) \div YearDays
Month0(t) == LET n == (t \div Day) % YearDays IN CHOOSE m \in 0..Len(MonthDays) - 1 : Before(m) <= n /\ n < Before(m + 1)
Day0(t)   == ((t \div Day) % YearDays) - Before(Month0(t))

\* day_of_year: the days since the same time on the year's first day.
DayOfYear(t) ==
  LET first == t - Day0(t) * Day      \* checked_sub_days
      year  == first - Before(Month0(t)) * Day   \* checked_sub_months
  IN Quotient(t - year, Day)

\* The getters of timestamp.rs.
OfTimestamp(id, t) ==
  CASE id = "timestamp_to_year"         -> Year(t)
    [] id = "timestamp_to_month"        -> Month0(t)
    [] id = "timestamp_to_day_of_year"  -> DayOfYear(t)
    [] id = "timestamp_to_day_of_month" -> Day0(t)
    [] id = "timestamp_to_day_of_month_1_based" -> Day0(t) + 1
    [] id = "timestamp_to_day_of_week"  -> (t \div Day) % 7
    [] id = "timestamp_to_hours"        -> (t % Day) \div Nanos["h"]
    [] id = "timestamp_to_minutes"      -> (t % Nanos["h"]) \div Nanos["m"]
    [] id = "timestamp_to_seconds"      -> (t % Nanos["m"]) \div Second
    [] id = "timestamp_to_millis"       -> (t % Second) \div Millisecond

\* The getters of common/types/duration.rs.
OfDuration(id, n) ==
  CASE id = "duration_to_hours"   -> Quotient(n, Nanos["h"])
    [] id = "duration_to_minutes" -> Quotient(n, Nanos["m"])
    [] id = "duration_to_seconds" -> Quotient(n, Second)
    [] id = "duration_to_millis"  -> Quotient(n, Millisecond)
-----------------------------------------------------------------------------
(* The ops of the standard library, by their names in the code. *)

Noops   == {"bytes_to_bytes", "duration_to_duration", "timestamp_to_timestamp"}
Sizings == {"size_bytes", "bytes_size", "size_list", "list_size", "size_map", "map_size", "size_string", "string_size"}
ToStrings == {"string_to_string", "int64_to_string", "uint64_to_string", "double_to_string", "bytes_to_string",
              "timestamp_to_string", "duration_to_string"}
ToDoubles == {"double_to_double", "int64_to_double", "uint64_to_double", "string_to_double"}
ToInts    == {"int64_to_int64", "uint64_to_int64", "double_to_int64", "string_to_int64"}
ToUints   == {"uint64_to_uint64", "int64_to_uint64", "double_to_uint64", "string_to_uint64"}
DurationGetters  == {"duration_to_hours", "duration_to_minutes", "duration_to_seconds", "duration_to_millis"}
TimestampGetters == {"timestamp_to_year", "timestamp_to_month", "timestamp_to_day_of_year", "timestamp_to_day_of_month",
                     "timestamp_to_day_of_month_1_based", "timestamp_to_day_of_week", "timestamp_to_hours",
                     "timestamp_to_minutes", "timestamp_to_seconds", "timestamp_to_millis"}

String(v, how) ==
  CASE TypeOf(v) = "string"           -> Ok(v)
    [] TypeOf(v) \in {"int", "uint"}  -> Ok(StrOf(IntText(v[2])))
    [] TypeOf(v) = "double"           -> Ok(StrOf(DoubleText(v[2])))
    [] TypeOf(v) = "bytes"            -> Ok(StrOf(Lossy(v[2])))
    [] TypeOf(v) = "timestamp"        -> Ok(StrOf(<<Moment(v[2])>>))
    [] TypeOf(v) = "duration"         -> Outcome(StrOf, FormatDuration(v[2], how.checked))

Double(v) == IF TypeOf(v) = "string" THEN Outcome(DoubleOf, ParseDouble(v[2])) ELSE Ok(DoubleOf(AsDouble(v)))

\* `as`: a whole number wraps around, a double is clamped.
IntOp(v) ==
  CASE TypeOf(v) = "int"    -> Ok(v)
    [] TypeOf(v) = "uint"   -> Ok(IntOf(IF v[2] > IntMax THEN v[2] - UintMax - 1 ELSE v[2]))
    [] TypeOf(v) = "double" -> Ok(IntOf(Cast(v[2], -IntMax - 1, IntMax)))
    [] TypeOf(v) = "string" -> Outcome(IntOf, ParseWhole(v[2], -IntMax - 1, IntMax))

UintOp(v) ==
  CASE TypeOf(v) = "uint"   -> Ok(v)
    [] TypeOf(v) = "int"    -> Ok(UintOf(v[2] % (UintMax + 1)))
    [] TypeOf(v) = "double" -> Ok(UintOf(Cast(v[2], 0, UintMax)))
    [] TypeOf(v) = "string" -> Outcome(UintOf, ParseWhole(v[2], 0, UintMax))

\* Zeroer; of the types below all but optional and opaque have one.
ZeroVal(v) ==
  CASE TypeOf(v) = "null" -> TRUE
    [] TypeOf(v) = "bool" -> ~v[2]
    [] TypeOf(v) \in {"int", "uint", "duration", "timestamp"} -> v[2] = 0
    [] TypeOf(v) = "double" -> v[2] = Half(0)
    [] TypeOf(v) \in {"string", "bytes", "list", "map"} -> SizeOf(v) = 0
    [] TypeOf(v) = "struct" -> DOMAIN v[2][2] = {}
    [] OTHER -> FALSE

\* Optional::of takes an own value, which for a lent one is its copy.
OfValue(v, how) == Ok(OptSome(IF how.lent THEN Clone(v) ELSE v))

\* The ops of the optional type that take the target for an Optional without asking.
Unchecking == {"optional_value", "optional_or_optional", "optional_or_value"}

OptionalOp(id, a, how) ==
  LET opt == a[1]
  IN IF id \in Unchecking /\ TypeOf(opt) # "optional" THEN Panic
     ELSE CASE id = "optional_none" -> Ok(OptNone)
            [] id = "optional_of"   -> OfValue(opt, how)
            [] id = "optional_ofNonZeroValue" -> IF ZeroVal(opt) THEN Ok(OptNone) ELSE OfValue(opt, how)
            [] id = "optional_value" -> IF opt = OptNone THEN FunctionError ELSE Ok(Clone(opt[2][1]))
            [] id = "optional_has_value" ->
                 IF TypeOf(opt) # "optional" THEN UnexpectedType ELSE Ok(BoolVal(opt # OptNone))
            [] id = "optional_or_optional" -> Ok(IF opt # OptNone THEN opt ELSE a[2])
            [] id = "optional_or_value"    -> Ok(IF opt # OptNone THEN Clone(opt[2][1]) ELSE a[2])

\* The op of the overload, of arguments that the overload takes.
StdOp(id, a, how) ==
  CASE id \in Noops            -> Ok(a[1])
    [] id \in Sizings          -> Ok(IntOf(SizeOf(a[1])))
    [] id \in ToStrings        -> String(a[1], how)
    [] id \in ToDoubles        -> Double(a[1])
    [] id \in ToInts           -> IntOp(a[1])
    [] id \in ToUints          -> UintOp(a[1])
    [] id = "string_to_bytes"  -> Ok(BytesOf(a[1][2]))
    [] id = "contains_string"  -> Ok(BoolVal(OccursIn(a[2][2], a[1][2])))
    [] id = "starts_with_string" -> Ok(BoolVal(IsPrefix(a[2][2], a[1][2])))
    [] id = "ends_with_string" -> Ok(BoolVal(IsSuffix(a[2][2], a[1][2])))
    [] id = "matches"          -> Matching(a[1][2], a[2][2])
    [] id = "string_to_duration"  -> Outcome(DurationOf, ParseDuration(a[1][2], how.short))
    [] id = "string_to_timestamp" -> ParseTimestamp(a[1][2])
    [] id \in DurationGetters  -> Ok(IntOf(OfDuration(id, a[1][2])))
    [] id \in TimestampGetters -> Ok(IntOf(OfTimestamp(id, a[1][2])))
    [] OTHER                   -> OptionalOp(id, a, how)
-----------------------------------------------------------------------------
(* The functions for hosts: what they take, and their bodies. *)

\* A parameter: where it comes from, and the types of values it takes.
AnyType == {"bool", "bytes", "double", "duration", "int", "list", "map", "null", "opaque", "optional",
            "string", "struct", "timestamp", "uint"}
ThisOf(types) == <<"this", types>>
ArgOf(types)  == <<"argument", types>>

This == ThisOf(AnyType)
Arg  == ArgOf(AnyType)
Rest == <<"arguments", AnyType>>   \* Arguments

HostSignatures ==
  LET ofThis == {"size", "string", "double", "int", "uint", "value", "hasValue", "getHours", "getMinutes", "getSeconds",
                 "getMilliseconds"}
      ofBoth == {"contains", "or", "orValue"}
      ofText == {"bytes", "duration"}
      ofOne  == {"optional.of", "optional.ofNonZeroValue"}
      ofAll  == {"max", "min"}
  IN [name \in ofThis \cup ofBoth \cup ofText \cup ofOne \cup ofAll \cup {"matches", "getDate", "optional.none"} |->
        CASE name \in ofThis        -> <<This>>
          [] name \in ofBoth        -> <<This, Arg>>
          [] name \in ofText        -> <<ArgOf({"string"})>>
          [] name \in ofOne         -> <<Arg>>
          [] name \in ofAll         -> <<Rest>>
          [] name = "matches"       -> <<ThisOf({"string"}), ArgOf({"string"})>>
          [] name = "getDate"       -> <<ThisOf({"timestamp"})>>
          [] name = "optional.none" -> <<>>]

HostSize(v) == IF TypeOf(v) \in {"list", "map", "string"} THEN Ok(IntOf(SizeOf(v))) ELSE FunctionError

HostContains(v, arg) ==
  CASE TypeOf(v) = "list"   -> Ok(BoolVal(\E i \in DOMAIN v[2] : ValueEquals(v[2][i], arg)))
    [] TypeOf(v) = "map"    -> IF TypeOf(arg) \notin KeyTypes THEN Err("UnsupportedKeyType")
                               ELSE Ok(BoolVal(arg \in DOMAIN v[2]))
    [] TypeOf(v) = "string" -> Ok(BoolVal(TypeOf(arg) = "string" /\ (TypeOf(arg) = "string" => OccursIn(arg[2], v[2]))))
    [] OTHER                -> Ok(BoolVal(FALSE))

HostString(v, how) ==
  IF TypeOf(v) \in {"string", "int", "uint", "double", "bytes", "timestamp", "duration"}
  THEN String(v, how) ELSE FunctionError

HostDouble(v) == IF TypeOf(v) \in NumberTypes \cup {"string"} THEN Double(v) ELSE FunctionError

\* The ends of the range as doubles: the upper one is rounded up.
OutOf(d, low, high) ==
  \/ OrderOfDoubles(d, Nearest(2 * high)) = Ok(Greater)
  \/ OrderOfDoubles(d, Nearest(2 * low)) = Ok(Less)

HostWhole(v, low, high, make(_)) ==
  CASE TypeOf(v) = "string" -> Outcome(make, ParseWhole(v[2], low, high))
    [] TypeOf(v) = "double" -> IF OutOf(v[2], low, high) THEN FunctionError ELSE Ok(make(Cast(v[2], low, high)))
    [] TypeOf(v) \in {"int", "uint"} -> IF v[2] \in low..high THEN Ok(make(v[2])) ELSE FunctionError
    [] OTHER                -> FunctionError

HostInt(v)  == HostWhole(v, -IntMax - 1, IntMax, IntOf)
HostUint(v) == HostWhole(v, 0, UintMax, UintOf)

\* Faulty: null is not among them.
ZeroButNull(v) ==
  CASE TypeOf(v) = "bool" -> ~v[2]
    [] TypeOf(v) \in {"int", "uint", "duration"} -> v[2] = 0
    [] TypeOf(v) = "double" -> v[2] = Half(0)
    [] TypeOf(v) \in {"string", "bytes", "list", "map"} -> SizeOf(v) = 0
    [] OTHER -> FALSE

\* Value::is_zero
ZeroValue(v) ==
  CASE TypeOf(v) = "null" -> TRUE
    [] TypeOf(v) = "bool" -> ~v[2]
    [] TypeOf(v) \in {"int", "uint", "duration"} -> v[2] = 0
    [] TypeOf(v) = "double" -> v[2] = Half(0)
    [] TypeOf(v) \in {"string", "bytes", "list", "map"} -> SizeOf(v) = 0
    [] OTHER -> FALSE

\* `as i32`
Small(n) == ((n + SmallMax + 1) % (2 * SmallMax + 2)) - SmallMax - 1

HostGetter(id, v) == IF TypeOf(v) = "duration" THEN Ok(IntOf(Small(OfDuration(id, v[2])))) ELSE FunctionError

IsOptional(v) == TypeOf(v) = "optional"
HostValueOf(opt)    == IF ~IsOptional(opt) THEN UnexpectedType ELSE IF opt = OptNone THEN FunctionError ELSE Ok(opt[2][1])
HostHasValue(opt)   == IF ~IsOptional(opt) THEN UnexpectedType ELSE Ok(BoolVal(opt # OptNone))
HostOr(opt, other)  == IF ~IsOptional(opt) THEN UnexpectedType
                       ELSE IF opt # OptNone THEN Ok(opt)
                       ELSE IF ~IsOptional(other) THEN UnexpectedType ELSE Ok(other)
HostOrValue(opt, other) == IF ~IsOptional(opt) THEN UnexpectedType ELSE Ok(IF opt # OptNone THEN opt[2][1] ELSE other)

Better(sign, acc, v) ==
  IF Failed(acc) THEN acc
  ELSE LET order == PartialCmp(acc[2], v)
       IN IF Failed(order) THEN Err("ValuesNotComparable") ELSE IF order = Ok(sign) THEN acc ELSE Ok(v)

\* max for sign = Greater and min for sign = Less: of one argument, a list, its items.
Extreme(args, sign) ==
  LET items == IF Len(args) = 1 /\ TypeOf(args[1]) = "list" THEN args[1][2] ELSE args
      Best[i \in 0..Len(items) - 1] == IF i = 0 THEN Ok(items[1]) ELSE Better(sign, Best[i - 1], items[i + 1])
  IN IF Len(args) = 1 /\ TypeOf(args[1]) # "list" THEN Ok(args[1])
     ELSE IF items = <<>> THEN Ok(Null)
     ELSE Best[Len(items) - 1]

\* A function of the host's own gives back its parameters.
HostBody(name, p, r) ==
  CASE name = "size"     -> HostSize(p[1])
    [] name = "contains" -> HostContains(p[1], p[2])
    [] name = "string"   -> HostString(p[1], r.how)
    [] name = "bytes"    -> Ok(BytesOf(p[1][2]))
    [] name = "double"   -> HostDouble(p[1])
    [] name = "int"      -> HostInt(p[1])
    [] name = "uint"     -> HostUint(p[1])
    [] name = "optional.none" -> IF r.target # <<>> \/ r.args # <<>> THEN FunctionError ELSE Ok(OptNone)
    [] name = "optional.of"   -> IF r.target # <<>> THEN FunctionError ELSE Ok(OptSome(p[1]))
    [] name = "optional.ofNonZeroValue" ->
         IF r.target # <<>> THEN FunctionError ELSE IF ZeroValue(p[1]) THEN Ok(OptNone) ELSE Ok(OptSome(p[1]))
    [] name = "value"    -> HostValueOf(p[1])
    [] name = "hasValue" -> HostHasValue(p[1])
    [] name = "or"       -> HostOr(p[1], p[2])
    [] name = "orValue"  -> HostOrValue(p[1], p[2])
    [] name = "matches"  -> Matching(p[1][2], p[2][2])
    [] name = "duration" -> Outcome(DurationOf, ParseDuration(p[1][2], r.how.short))
    [] name = "getDate"  -> Ok(IntOf(Day0(p[1][2]) + 1))
    [] name = "getHours"        -> HostGetter("duration_to_hours", p[1])
    [] name = "getMinutes"      -> HostGetter("duration_to_minutes", p[1])
    [] name = "getSeconds"      -> HostGetter("duration_to_seconds", p[1])
    [] name = "getMilliseconds" -> HostGetter("duration_to_millis", p[1])
    [] name = "max"      -> Extreme(p[1][2], Greater)
    [] name = "min"      -> Extreme(p[1][2], Less)
    [] OTHER             -> Ok(ListOf(p))
=============================================================================
