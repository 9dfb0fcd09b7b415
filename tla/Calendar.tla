------------------------------ MODULE Calendar ------------------------------
(***************************************************************************)
(* When a digest is due and what it covers (internal/digest/schedule.go),  *)
(* in the local time of a zone whose offset to the clock changes once, as  *)
(* at the beginning or the end of summer time.  Of package time this has   *)
(* what the schedule asks of it: calendar days are counted, and an instant *)
(* has a day and a time of day.                                            *)
(***************************************************************************)
EXTENDS Integers

CONSTANTS
    Day,                    \* the length of a day
    Every,                  \* a digest every so many days: 1 or 7
    Weekday,                \* which day of these, by its remainder
    At,                     \* Hour and Minute: the time of day
    Change, OffsetBefore, OffsetAfter   \* the zone's offset before and from Change on

ASSUME CalendarAssumption ==
    /\ Day \in Nat \ {0} /\ Every \in Nat \ {0}
    /\ Weekday \in 0..Every - 1 /\ At \in 0..Day - 1
    /\ {Change, OffsetBefore, OffsetAfter} \subseteq Int
    /\ OffsetBefore - OffsetAfter \in -Day + 1..Day - 1

Offset(t) == IF t < Change THEN OffsetBefore ELSE OffsetAfter
Local(t) == t + Offset(t)

DayOf(t)  == Local(t) \div Day
TimeOf(t) == Local(t) % Day

(* time.Date of a wall-clock reading: it takes the reading for UTC to find *)
(* an offset, and looks once more at the instant this offset gives.  What  *)
(* the clock skips becomes an instant with another reading.                *)
Date(reading) == reading - Offset(reading - Offset(reading))

(* Schedule.Next: the loop over days, from today's on; two rounds of the   *)
(* week are enough to find one.                                            *)
Slot(d) == Date(d * Day + At)

Fits(d, t) == Slot(d) > t /\ DayOf(Slot(d)) % Every = Weekday

NextDigest(t) ==
    Slot(CHOOSE d \in DayOf(t)..DayOf(t) + 2 * Every :
            Fits(d, t) /\ \A e \in DayOf(t)..d - 1 : ~Fits(e, t))

(* Mutant: a day is always equally long.                                   *)
PeriodFixed(t) == t - Every * Day

(* Schedule.Period: AddDate counts calendar days and keeps the time of day.*)
PeriodStart(t) == Date((DayOf(t) - Every) * Day + TimeOf(t))

(* The time of day At is on the clock every day: the change skips others.  *)
AtExists == \A reading \in Change + OffsetBefore..Change + OffsetAfter - 1 : reading % Day # At

(* The change does not turn the clock back to the day before.              *)
NoDayTwice == DayOf(Change - 1) <= DayOf(Change)

PlainClock == AtExists /\ NoDayTwice
=============================================================================
