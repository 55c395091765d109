-------------------------- MODULE WallClocksProofs --------------------------
(***************************************************************************)
(* Lemmas on periods, calendar days and wall clocks, for every length of a *)
(* day and a week and for every zone, that the theorems of Availability    *)
(* and of Seeds rest on.                                                   *)
(***************************************************************************)
EXTENDS WallClocks, TLAPS

(* Two periods overlap just when they share an instant: the end of one may  *)
(* be the start of the other.                                              *)
LEMMA OverlapIsShared ==
  ASSUME NEW p \in Interval, NEW q \in Interval, p.start < p.end, q.start < q.end
  PROVE  Overlaps(p, q) <=> \E t \in Int : /\ p.start <= t /\ t < p.end
                                          /\ q.start <= t /\ t < q.end
<1>1. ASSUME Overlaps(p, q)
      PROVE  \E t \in Int : p.start <= t /\ t < p.end /\ q.start <= t /\ t < q.end
  <2>1. p.start \in Int /\ q.start \in Int
    BY DEF Interval
  <2>2. CASE p.start <= q.start
    <3>1. p.start <= q.start /\ q.start < p.end /\ q.start <= q.start /\ q.start < q.end
      BY <1>1, <2>2 DEF Overlaps, Interval
    <3> QED BY <2>1, <3>1
  <2>3. CASE ~(p.start <= q.start)
    <3>1. p.start <= p.start /\ p.start < p.end /\ q.start <= p.start /\ p.start < q.end
      BY <1>1, <2>3 DEF Overlaps, Interval
    <3> QED BY <2>1, <3>1
  <2> QED BY <2>2, <2>3
<1>2. ASSUME NEW t \in Int, p.start <= t, t < p.end, q.start <= t, t < q.end
      PROVE  Overlaps(p, q)
  BY <1>2 DEF Overlaps, Interval
<1> QED BY <1>1, <1>2

-----------------------------------------------------------------------------
(* Days. *)

(* A wall clock is a day and a time of that day. *)
LEMMA DayAndTime ==
  ASSUME NEW c \in Int
  PROVE  /\ c \div DayLength \in Int
         /\ c % DayLength \in Int /\ 0 <= c % DayLength /\ c % DayLength < DayLength
         /\ c = (c \div DayLength) * DayLength + (c % DayLength)
BY WallClockAssumption

(* ... and there is one such day and time. *)
LEMMA DayIsUnique ==
  ASSUME NEW c \in Int, NEW d \in Int, d * DayLength <= c, c < (d + 1) * DayLength
  PROVE  c \div DayLength = d /\ c % DayLength = c - d * DayLength
<1>1. c - d * DayLength \in 0 .. DayLength - 1 /\ c = d * DayLength + (c - d * DayLength)
  BY WallClockAssumption
<1> DEFINE r == c - d * DayLength
<1>2. r \in 0 .. DayLength - 1
  BY <1>1
<1> HIDE DEF r
<1>3. (d * DayLength + r) \div DayLength = d /\ (d * DayLength + r) % DayLength = r
  BY <1>2, WallClockAssumption
<1>4. c = d * DayLength + r
  BY WallClockAssumption DEF r
<1> QED BY <1>3, <1>4 DEF r

(* A later day starts no earlier than the one before it ends. *)
LEMMA DaysInOrder ==
  ASSUME NEW d \in Int, NEW e \in Int, d < e
  PROVE  (d + 1) * DayLength <= e * DayLength
BY WallClockAssumption

LEMMA DaysMonotone ==
  ASSUME NEW c \in Int, NEW e \in Int, c <= e
  PROVE  c \div DayLength <= e \div DayLength
<1>1. ASSUME e \div DayLength < c \div DayLength PROVE FALSE
  <2> DEFINE d == e \div DayLength
             f == c \div DayLength
  <2>1. d \in Int /\ f \in Int /\ e < (d + 1) * DayLength /\ f * DayLength <= c
    BY DayAndTime, WallClockAssumption
  <2> HIDE DEF d, f
  <2>2. (d + 1) * DayLength <= f * DayLength
    BY <1>1, <2>1, DaysInOrder DEF d, f
  <2>3. (d + 1) * DayLength \in Int /\ f * DayLength \in Int
    BY <2>1, WallClockAssumption
  <2> QED BY <2>1, <2>2, <2>3
<1> QED BY <1>1, DayAndTime

(* Two days of one weekday lie a week apart, unless they are one day.       *)
LEMMA WeekdaysApart ==
  ASSUME NEW d \in Int, NEW e \in Int, DayOfWeek(d) = DayOfWeek(e), d <= e, e < d + WeekLength
  PROVE  d = e
<1> DEFINE m == d \div WeekLength
           n == e \div WeekLength
<1>1. m \in Int /\ n \in Int /\ DayOfWeek(d) \in Int
      /\ d = m * WeekLength + DayOfWeek(d) /\ e = n * WeekLength + DayOfWeek(d)
  BY WallClockAssumption DEF DayOfWeek
<1> HIDE DEF m, n
<1>2. ASSUME m < n PROVE FALSE
  <2>1. (m + 1) * WeekLength <= n * WeekLength
    BY <1>1, <1>2, WallClockAssumption
  <2> QED BY <1>1, <2>1, WallClockAssumption
<1>3. ASSUME n < m PROVE FALSE
  <2>1. (n + 1) * WeekLength <= m * WeekLength
    BY <1>1, <1>3, WallClockAssumption
  <2> QED BY <1>1, <2>1, WallClockAssumption
<1> QED BY <1>1, <1>2, <1>3

-----------------------------------------------------------------------------
(* Zones. *)

LEMMA WallType ==
  ASSUME NEW z \in Zone, NEW t \in Int
  PROVE  Offset(z, t) \in Int /\ Wall(z, t) \in Int /\ LocalDay(z, t) \in Int
         /\ ToInstant(z, t) \in Int
<1>1. Offset(z, t) \in Int /\ Wall(z, t) \in Int
  BY DEF Offset, Wall, Zone
<1> QED BY <1>1, DayAndTime DEF LocalDay, ToInstant, Zone

(* On a stretch of wall clocks that is whole, one offset holds: it turns    *)
(* each clock into its instant, and holds at each instant in between.      *)
LEMMA WholeStretch ==
  ASSUME NEW z \in Zone, NEW a \in Int, NEW b \in Int, Whole(z, a, b)
  PROVE  \E o \in Int :
           /\ \A c \in Int : a <= c /\ c <= b => ToInstant(z, c) = c - o
           /\ \A t \in Int : a - o <= t /\ t < b - o => Offset(z, t) = o
           /\ \A t \in Int : a <= Wall(z, t) /\ Wall(z, t) < b => Offset(z, t) = o
<1> USE DEF Zone, ToInstant, Offset, Wall
<1>1. CASE z.before = z.after
  <2> WITNESS z.before \in Int
  <2> QED BY <1>1
<1>2. CASE a - z.before >= z.change /\ a - z.after >= z.change
  <2> WITNESS z.after \in Int
  <2> QED BY <1>2
<1>3. CASE b - z.before < z.change /\ b - z.after < z.change
  <2> WITNESS z.before \in Int
  <2> QED BY <1>3
<1> QED BY <1>1, <1>2, <1>3 DEF Whole

(* Between two instants whose wall clocks lie in such a stretch the offset  *)
(* does not change, nor does it anywhere else in the stretch.              *)
LEMMA SteadyBetween ==
  ASSUME NEW z \in Zone, NEW a \in Int, NEW b \in Int, Whole(z, a, b),
         NEW s \in Int, NEW e \in Int, s <= e, a <= Wall(z, s), Wall(z, e) < b
  PROVE  /\ \A t \in Int : s <= t /\ t <= e => Offset(z, t) = Offset(z, s)
         /\ \A c \in Int : a <= c /\ c <= b => ToInstant(z, c) = c - Offset(z, s)
         /\ \A t \in Int : a - Offset(z, s) <= t /\ t < b - Offset(z, s) =>
              Offset(z, t) = Offset(z, s)
<1> USE DEF Zone, ToInstant, Offset, Wall
<1>1. CASE z.before = z.after
  BY <1>1
<1>2. CASE a - z.before >= z.change /\ a - z.after >= z.change
  BY <1>2
<1>3. CASE b - z.before < z.change /\ b - z.after < z.change
  BY <1>3
<1> QED BY <1>1, <1>2, <1>3 DEF Whole

LEMMA WholePart ==
  ASSUME NEW z \in Zone, NEW a \in Int, NEW b \in Int, NEW c \in Int, NEW d \in Int,
         Whole(z, a, b), a <= c, d <= b
  PROVE  Whole(z, c, d)
BY DEF Whole, Zone

(* Opening hours that are whole: the instants from opening to closing are   *)
(* those with a wall clock from opening to closing.                        *)
LEMMA OpenBetween ==
  ASSUME NEW z \in Zone, NEW a \in Int, NEW b \in Int, a <= b, Whole(z, a, b),
         NEW t \in Int
  PROVE  ToInstant(z, a) <= t /\ t < ToInstant(z, b) <=> a <= Wall(z, t) /\ Wall(z, t) < b
<1>1. PICK o \in Int :
        /\ \A c \in Int : a <= c /\ c <= b => ToInstant(z, c) = c - o
        /\ \A x \in Int : a - o <= x /\ x < b - o => Offset(z, x) = o
        /\ \A x \in Int : a <= Wall(z, x) /\ Wall(z, x) < b => Offset(z, x) = o
  BY WholeStretch
<1>2. ToInstant(z, a) = a - o /\ ToInstant(z, b) = b - o
  BY <1>1
<1> QED BY <1>1, <1>2, WallType DEF Wall

(* Whole stretches keep their order, and hence their distance. *)
LEMMA StretchesInOrder ==
  ASSUME NEW z \in Zone,
         NEW a \in Int, NEW b \in Int, a <= b, Whole(z, a, b),
         NEW c \in Int, NEW d \in Int, c <= d, Whole(z, c, d), b <= c
  PROVE  ToInstant(z, b) <= ToInstant(z, c)
BY DEF Whole, ToInstant, Zone

LEMMA StretchLasts ==
  ASSUME NEW z \in Zone, NEW a \in Int, NEW b \in Int, a <= b, Whole(z, a, b)
  PROVE  /\ ToInstant(z, b) - ToInstant(z, a) = b - a
         /\ a < b => Wall(z, ToInstant(z, a)) = a
BY DEF Whole, ToInstant, Zone, Wall, Offset

=============================================================================
