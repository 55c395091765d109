----------------------------- MODULE WallClocks -----------------------------
(***************************************************************************)
(* Wall clocks of time zones, and the weekly opening hours written in      *)
(* them: src/src/reservations/utils/time-zone.util.ts, the zone arithmetic *)
(* of availability.service.ts and within-operating-hours.rule.ts.          *)
(*                                                                         *)
(* Instants and wall clocks count the same unit, one minute in the code.   *)
(* A zone is the offset of its wall clock before and after one change,     *)
(* which is all a range of 60 days can hold, save exceptions.              *)
(***************************************************************************)
EXTENDS Periods

CONSTANTS
  DayLength,   \* units of a calendar day on the wall
  WeekLength   \* days of a week

ASSUME WallClockAssumption ==
  /\ DayLength \in Nat \ {0}
  /\ WeekLength \in Nat \ {0}

(* change: the first instant of the new offset.  early: what the library   *)
(* makes of a wall clock that is read twice or never at the change, the    *)
(* instant by the offset before it, or the one by the offset after it.     *)
Zone == [change : Int, before : Int, after : Int, early : BOOLEAN]

Offset(z, t) == IF t < z.change THEN z.before ELSE z.after

Wall(z, t) == t + Offset(z, t)

LocalDay(z, t) == Wall(z, t) \div DayLength
MinutesOfDay(z, t) == Wall(z, t) % DayLength
DayOfWeek(day) == day % WeekLength

(* new TZDate(year, month, date, hours, minutes, ..., timeZone) *)
ToInstant(z, w) ==
  LET byBefore == w - z.before < z.change
      byAfter == w - z.after >= z.change
  IN IF byBefore = byAfter THEN IF z.early THEN w - z.before ELSE w - z.after
     ELSE IF byBefore THEN w - z.before
     ELSE w - z.after

(* Mutant: midnight in UTC. *)
StartOfDayInUTC(z, t) == (t \div DayLength) * DayLength

(* startOfDayIn *)
StartOfDay(z, t) == ToInstant(z, LocalDay(z, t) * DayLength)

(* Wall clocks from a to b lie on one side of the change, whichever of its  *)
(* two offsets they are read by.                                           *)
Whole(z, a, b) ==
  \/ z.before = z.after
  \/ a - z.before >= z.change /\ a - z.after >= z.change
  \/ b - z.before < z.change /\ b - z.after < z.change

(* wallClockToInstant: a time of day on the given local day *)
WallClockToInstant(z, day, time) == ToInstant(z, day * DayLength + time)

-----------------------------------------------------------------------------
(* A row of resource_availability.  A resource may have several rows for   *)
(* one day, and no rows when it is always open.                            *)
OpeningWindow ==
  {w \in [day : 0 .. WeekLength - 1, start : 0 .. DayLength, end : 0 .. DayLength] :
     w.start < w.end}

(* Mutant: the exclusive end is not stepped back. *)
FitsExclusiveEnd(schedule, z, p) ==
  \/ schedule = {}
  \/ /\ DayOfWeek(LocalDay(z, p.start)) = DayOfWeek(LocalDay(z, p.end))
     /\ \E w \in schedule :
          /\ w.day = DayOfWeek(LocalDay(z, p.start))
          /\ w.start <= MinutesOfDay(z, p.start)
          /\ MinutesOfDay(z, p.end) < w.end

(* WithinOperatingHoursRule.check: the wall clock of the first instant and *)
(* of the last one, the end stepped back, fall into one window of one day. *)
FitsOpeningHours(schedule, z, p) ==
  \/ schedule = {}
  \/ /\ DayOfWeek(LocalDay(z, p.start)) = DayOfWeek(LocalDay(z, p.end - 1))
     /\ \E w \in schedule :
          /\ w.day = DayOfWeek(LocalDay(z, p.start))
          /\ w.start <= MinutesOfDay(z, p.start)
          /\ MinutesOfDay(z, p.end - 1) < w.end

(* What a weekly schedule means: the resource is open at instant t. *)
OpenAt(schedule, z, t) ==
  \/ schedule = {}
  \/ \E w \in schedule : /\ w.day = DayOfWeek(LocalDay(z, t))
                         /\ w.start <= MinutesOfDay(z, t) /\ MinutesOfDay(z, t) < w.end

=============================================================================
