------------------------------ MODULE ScheduleClock ------------------------------
(***************************************************************************)
(* The Asia/Karachi availability schedule: active from 18:00 Monday to     *)
(* Friday until 02:00 the next morning, away otherwise. Time is counted in *)
(* half hours from a Monday 00:00.                                         *)
(***************************************************************************)
EXTENDS Integers

Availabilities == {"active", "away"}

Day == 48
Week == 7 * Day
ActiveStart == 36       \* 18:00
AwayStart == 4          \* 02:00
SearchDays == 9

Weekday(t) == (t \div Day) % 7
DayStart(t) == (t \div Day) * Day

\* Slip: the night after Friday is forgotten.
DesiredWithoutSaturday(t) ==
    IF \/ Weekday(t) \in 0..4 /\ t % Day >= ActiveStart
       \/ Weekday(t) \in 1..4 /\ t % Day < AwayStart
    THEN "active" ELSE "away"

DesiredAvailability(t) ==
    IF \/ Weekday(t) \in 0..4 /\ t % Day >= ActiveStart
       \/ Weekday(t) \in 1..5 /\ t % Day < AwayStart
    THEN "active" ELSE "away"

\* The boundaries of the day that starts at d.
Boundaries(d) ==
    {b \in {[at |-> d + AwayStart, state |-> "away"], [at |-> d + ActiveStart, state |-> "active"]} :
        Weekday(d) \in IF b.state = "away" THEN 1..5 ELSE 0..4}

After(t) == {b \in UNION {Boundaries(DayStart(t) + n * Day) : n \in 0..SearchDays - 1} : b.at > t}
UpTo(t) == {b \in UNION {Boundaries(DayStart(t) - n * Day) : n \in 0..SearchDays - 1} : b.at <= t}

NextTransition(t) == CHOOSE b \in After(t) : \A c \in After(t) : b.at <= c.at
LastTransition(t) == CHOOSE b \in UpTo(t) : \A c \in UpTo(t) : c.at <= b.at
================================================================================
