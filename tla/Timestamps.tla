----------------------------- MODULE Timestamps -----------------------------
(***************************************************************************)
(* Timestamp and its helpers: a measurement carries a monotonic time, a    *)
(* GPS time, or both.  Times are natural numbers of ticks, GPS time counts *)
(* them from its week zero.                                                *)
(***************************************************************************)
EXTENDS Integers

CONSTANT WeekTicks      \* ticks in a GPS week

ASSUME WeekAssumption == WeekTicks \in Nat \ {0}

Absent == -1
Timestamp == [steady : Nat \cup {Absent}, gps : Nat \cup {Absent}]

\* A default-constructed Timestamp: neither time is valid.
NoStamp == [steady |-> Absent, gps |-> Absent]

Week(t) == t.gps \div WeekTicks

HaveSteady(a, b) == a.steady # Absent /\ b.steady # Absent
HaveGps(a, b) == a.gps # Absent /\ b.gps # Absent

Ordering(x, y) == IF x < y THEN "Before" ELSE IF x > y THEN "After" ELSE "Equal"

CompareTimestamps(a, b) ==
    IF HaveSteady(a, b) THEN Ordering(a.steady, b.steady)
    ELSE IF HaveGps(a, b) THEN Ordering(a.gps, b.gps)
    ELSE "NotComparable"

\* a - b as an optional value: the empty set or the set of the difference.
TimeDifference(a, b) ==
    IF HaveSteady(a, b) THEN {a.steady - b.steady}
    ELSE IF HaveGps(a, b) /\ Week(a) = Week(b) THEN {a.gps - b.gps}
    ELSE {}
=============================================================================
