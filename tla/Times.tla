------------------------------- MODULE Times --------------------------------
(***************************************************************************)
(* Durations and timestamps as values (chrono's types, as the library uses *)
(* them): a duration is a number of nanoseconds, which an i64 may be too   *)
(* small for, and a timestamp a number of nanoseconds since some moment.   *)
(***************************************************************************)
EXTENDS Values

CONSTANTS
  Second,    \* nanoseconds in a second
  NanosMax   \* i64::MAX, of a number of nanoseconds

ASSUME TimeAssumption == Second \in Nat \ {0} /\ NanosMax \in Nat

DurationOf(n)  == <<"duration", n>>
TimestampOf(t) == <<"timestamp", t>>

\* chrono::Duration::num_nanoseconds
HasNanos(n) == n \in -NanosMax - 1..NanosMax
=============================================================================
