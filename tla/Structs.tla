------------------------------ MODULE Structs -------------------------------
(***************************************************************************)
(* Struct definitions and their instances (StructDef, cel/src/env.rs): the *)
(* builder's add_field and add_field_with_default in any order, and        *)
(* new_struct, which makes an instance from the fields an expression       *)
(* provides.                                                               *)
(*                                                                         *)
(* A value is its type and where it comes from.  `Fields` is in the order  *)
(* in which a BTreeMap goes through them.                                  *)
(***************************************************************************)
EXTENDS Naturals, Sequences

CONSTANTS
  Fields,   \* field names, in their order
  Types     \* the types of fields and of values

ASSUME FieldsAssumption == Fields \in Seq({Fields[i] : i \in DOMAIN Fields})

VARIABLES
  fields,    \* declared field -> its type
  defaults,  \* field -> its default value
  built,     \* the definition is in the environment
  provided,  \* the fields of the last struct expression, with their values
  result     \* what new_struct made of them

vars == <<fields, defaults, built, provided, result>>

NamesOfFields == {Fields[i] : i \in DOMAIN Fields}

Given(t)   == [type |-> t, from |-> "expression"]
Default(t) == [type |-> t, from |-> "definition"]

Instance(f)  == [ok |-> TRUE, fields |-> f]
Error(kind)  == [ok |-> FALSE, error |-> kind]
NoResult     == [ok |-> FALSE, error |-> "none"]

\* BTreeMap::insert
Insert(map, key, value) ==
  [k \in DOMAIN map \cup {key} |-> IF k = key THEN value ELSE map[k]]

Empty == [k \in {} |-> "nothing"]
-----------------------------------------------------------------------------
Init ==
  /\ fields = Empty
  /\ defaults = Empty
  /\ built = FALSE
  /\ provided = Empty
  /\ result = NoResult

\* A default the field had before stays.
AddField(field, t) ==
  /\ ~built
  /\ fields' = Insert(fields, field, t)
  /\ UNCHANGED <<defaults, built, provided, result>>

AddFieldWithDefault(field, default) ==
  /\ ~built
  /\ fields' = Insert(fields, field, default.type)
  /\ defaults' = Insert(defaults, field, default)
  /\ UNCHANGED <<built, provided, result>>

\* Env::add_struct takes the definition, whose builder is gone with it.  Another definition added
\* under the same name would replace it: that is another run of the builder.
AddStruct ==
  /\ ~built
  /\ built' = TRUE
  /\ UNCHANGED <<fields, defaults, provided, result>>

\* Faulty: what is provided for a field with a default is forgotten.
WithDefaultsOnly(given) == Instance(defaults)

\* The first loop of new_struct: a field with a default takes what is provided for it, of
\* whatever type.
WithDefaults(given) ==
  Instance([f \in DOMAIN defaults |-> IF f \in DOMAIN given THEN given[f] ELSE defaults[f]])

\* Faulty: the two errors are mixed up.
WithFieldErrorsSwapped(s, f, value) ==
  IF f \notin DOMAIN fields THEN Error("UnexpectedType")
  ELSE IF value.type # fields[f] THEN Error("NoSuchKey")
  ELSE Instance(Insert(s.fields, f, value))

\* One round of the second loop, on the fields that have no default.
WithField(s, f, value) ==
  IF f \notin DOMAIN fields THEN Error("NoSuchKey")
  ELSE IF value.type # fields[f] THEN Error("UnexpectedType")
  ELSE Instance(Insert(s.fields, f, value))

\* Whether the second loop comes to the field at place i.
IsLeft(given, i) == Fields[i] \in DOMAIN given \ DOMAIN defaults

\* What there is after it; an error ends the loop.
AfterRound(s, given, i) ==
  IF s.ok /\ IsLeft(given, i) THEN WithField(s, Fields[i], given[Fields[i]]) ELSE s

\* What there is before the second loop and after each of its rounds.
Rounds(given) ==
  LET Round[i \in 0..Len(Fields)] ==
        IF i = 0 THEN WithDefaults(given) ELSE AfterRound(Round[i - 1], given, i)
  IN Round

\* new_struct
Made(given) == Rounds(given)[Len(Fields)]

NewStruct(given) ==
  /\ built
  /\ provided' = given
  /\ result' = Made(given)
  /\ UNCHANGED <<fields, defaults, built>>

Next ==
  \/ \E f \in NamesOfFields, t \in Types : AddField(f, t) \/ AddFieldWithDefault(f, Default(t))
  \/ AddStruct
  \/ \E S \in SUBSET NamesOfFields : \E given \in [S -> {Given(t) : t \in Types}] : NewStruct(given)

Spec == Init /\ [][Next]_vars
-----------------------------------------------------------------------------
(* Properties. *)

Instantiated == result.ok

\* An instance holds every field provided, with the value the expression gave it, and the
\* default of every other field that has one -- and nothing else.
InstanceIsProvidedOverDefaults ==
  Instantiated =>
    /\ DOMAIN result.fields = DOMAIN provided \cup DOMAIN defaults
    /\ \A f \in DOMAIN result.fields :
         result.fields[f] = IF f \in DOMAIN provided THEN provided[f] ELSE defaults[f]

\* What is provided for the field at place i is neither for a field with a default nor of the
\* type the field is declared with.
Faulty(given, i) ==
  /\ IsLeft(given, i)
  /\ Fields[i] \in DOMAIN fields => given[Fields[i]].type # fields[Fields[i]]

Complaint(i) == Error(IF Fields[i] \in DOMAIN fields THEN "UnexpectedType" ELSE "NoSuchKey")

\* new_struct refuses exactly the expressions that provide a field without a default which is
\* unknown or of another type than declared, and complains of the first of them in field order;
\* the instances it makes hold declared fields only.
ErrorsHaveReasons ==
  result # NoResult =>
    IF \E i \in DOMAIN Fields : Faulty(provided, i)
    THEN \E i \in DOMAIN Fields :
           Faulty(provided, i) /\ (\A j \in 1..i - 1 : ~Faulty(provided, j)) /\ result = Complaint(i)
    ELSE Instantiated /\ DOMAIN result.fields \subseteq DOMAIN fields

\* env.rs: new_struct returns an error if "A field is missing and has no default value" and if "A
\* field's type does not match the type in the definition".
ErrorsAsDocumented ==
  Instantiated =>
    /\ DOMAIN fields = DOMAIN result.fields
    /\ \A f \in DOMAIN result.fields : result.fields[f].type = fields[f]
=============================================================================
