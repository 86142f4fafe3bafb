---------------------------- MODULE Conversions -----------------------------
(***************************************************************************)
(* The two ways a value is held: as a Value, the enum of the library's     *)
(* interface (cel/src/objects.rs), and as a dyn Val, what the evaluator    *)
(* works with.  Both are written as the same tuples here, so that a        *)
(* conversion is the identity where it loses nothing.                      *)
(***************************************************************************)
EXTENDS Times

OpaqueOf(name, json) == <<"opaque", <<name, json>>>>   \* json: a sequence of at most one text
FunctionOf(name)     == <<"function", name>>

\* A struct is moved out of its Arc when that is the only one, and copied when it is shared, as
\* it is by the container it is taken from.
Moved(v, isShared) == IF isShared THEN Clone(v) ELSE v

\* TryFrom<Value> for Box<dyn Val>, given what it makes of the values inside.
IntoUsing(into, v) ==
  CASE TypeOf(v) = "list"     -> InList(Together([i \in DOMAIN v[2] |-> into[v[2][i]]]))
    [] TypeOf(v) = "map"      ->
         IF \E k \in DOMAIN v[2] : Failed(into[v[2][k]]) THEN Err("UnsupportedTargetType")
         ELSE Ok(MapOf([k \in DOMAIN v[2] |-> into[v[2][k]][2]]))
    [] TypeOf(v) = "optional" ->
         IF v[2] = <<>> THEN Ok(OptNone)
         ELSE IF Failed(into[v[2][1]]) THEN into[v[2][1]] ELSE Ok(OptSome(into[v[2][1]][2]))
    [] TypeOf(v) = "struct"   -> Ok(Moved(v, TRUE))
    [] TypeOf(v) = "function" -> Err("UnsupportedTargetType")
    [] OTHER                  -> Ok(v)

IntoVal(v, isShared) ==
  LET Into[w \in AnywhereIn(v)] == IntoUsing(Into, w)
  IN IF TypeOf(v) = "struct" THEN Ok(Moved(v, isShared)) ELSE Into[v]

\* Faulty: the whole Val is copied first.
Copied(v) == Clone(v)

\* TryFrom<&dyn Val> for Value, which copies a struct, given what it makes of the values inside.
FromUsing(from, v) ==
  CASE TypeOf(v) = "list"     -> ListOf([i \in DOMAIN v[2] |-> from[v[2][i]]])
    [] TypeOf(v) = "map"      -> MapOf([k \in DOMAIN v[2] |-> from[v[2][k]]])
    [] TypeOf(v) = "optional" -> IF v[2] = <<>> THEN OptNone ELSE OptSome(from[v[2][1]])
    [] TypeOf(v) = "struct"   -> Clone(v)
    [] OTHER                  -> v

FromVal(v) == LET From[w \in AnywhereIn(v)] == FromUsing(From, w) IN From[v]
=============================================================================
