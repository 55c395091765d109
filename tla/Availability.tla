---------------------------- MODULE Availability ----------------------------
(***************************************************************************)
(* AvailabilityService.findSlots: the free slots of one resource in a      *)
(* range of instants.  Its four SELECTs run outside any transaction, so    *)
(* that each sees another state of the database; reservations, the time    *)
(* zone and the activity of the resource change meanwhile.  The walk over  *)
(* calendar days and the subtraction of intervals.util.ts are modelled one *)
(* iteration of their loops at a time.                                     *)
(***************************************************************************)
EXTENDS WallClocks, Sequences, FiniteSets, Functions

CONSTANTS
  Queries,    \* the queries a client may make
  Zones,      \* time zones the resource may be given
  Schedules,  \* weekly schedules of the resource: sets of OpeningWindow
  Closures,   \* sets of maintenance periods (resource_block)
  Bookings,   \* periods that may be booked
  MaxRange,   \* MAX_RANGE_DAYS * MS_PER_DAY
  None        \* what has not been read yet

(* AvailabilityQueryDto; min is minDurationMinutes. *)
Query == [from : Int, to : Int, min : Nat]

ASSUME AvailabilityAssumption ==
  /\ Queries \subseteq Query
  /\ Zones \subseteq Zone
  /\ \A rows \in Schedules : IsFiniteSet(rows) /\ rows \subseteq OpeningWindow
  /\ \A rows \in Closures : IsFiniteSet(rows) /\ rows \subseteq Interval
  /\ Bookings \subseteq Interval
  /\ MaxRange \in Nat

(* 8 hours and 7 days: the rule on opening hours compares only the weekdays *)
(* of both ends, and a booking of a week would pass it.                    *)
ASSUME LengthAssumption == MaxLength <= (WeekLength - 1) * DayLength

VARIABLES
  active,    \* is_active of the resource
  zone,      \* its time_zone
  schedule,  \* its rows of resource_availability
  closure,   \* its maintenance periods
  booked,    \* its confirmed reservations
  standing,  \* those of them confirmed since before the request
  pc,        \* the next statement or loop of the handler
  query,     \* what it was asked
  tz,        \* the time zone it read
  day,       \* the instant the walk has reached
  windows,   \* the operating windows found
  blocks,    \* the maintenance periods it read
  taken,     \* the reservations it read
  busy,      \* both, sorted by their start
  w, k,      \* subtractIntervals: the window and the busy interval at hand
  cursor,    \* up to where the window is dealt with
  free,      \* the gaps found
  reply      \* the answer

database == <<active, zone, schedule, closure, booked, standing>>
reads == <<tz, windows, blocks, taken, busy>>
loop == <<w, k, cursor, free>>
vars == <<database, pc, query, day, reads, loop, reply>>

(* What reservation_no_overlap lets stand together. *)
Calendars ==
  {rows \in SUBSET Bookings :
     IsFiniteSet(rows) /\ \A p, q \in rows : p # q => ~Overlaps(p, q)}

Init ==
  /\ active \in BOOLEAN
  /\ zone \in Zones
  /\ schedule \in Schedules
  /\ closure \in Closures
  /\ booked \in Calendars /\ standing = booked
  /\ pc = "new"
  /\ query \in Queries
  /\ tz = zone
  /\ day = 0
  /\ windows = <<>>
  /\ blocks = None /\ taken = None
  /\ busy = <<>>
  /\ w = 1 /\ k = 1 /\ cursor = 0 /\ free = <<>>
  /\ reply = [code |-> "NONE", slots |-> {}]

Answer(code, slots) ==
  /\ pc' = "done"
  /\ reply' = [code |-> code, slots |-> slots]

-----------------------------------------------------------------------------
(* findSlots, up to the operating windows. *)

(* The checks of the range come before any statement. *)
Receive ==
  /\ pc = "new"
  /\ IF query.to <= query.from \/ query.to - query.from > MaxRange
     THEN Answer("INVALID_PERIOD", {})
     ELSE pc' = "resource" /\ UNCHANGED reply
  /\ UNCHANGED <<database, query, day, reads, loop>>

(* findActiveById *)
ReadResource ==
  /\ pc = "resource"
  /\ IF active
     THEN pc' = "schedule" /\ tz' = zone /\ UNCHANGED reply
     ELSE Answer("RESOURCE_UNAVAILABLE", {}) /\ UNCHANGED tz
  /\ UNCHANGED <<database, query, day, windows, blocks, taken, busy, loop>>

(* operatingWindows: without rows the range itself is the only window. *)
ReadSchedule ==
  /\ pc = "schedule"
  /\ IF schedule = {}
     THEN /\ windows' = <<[start |-> query.from, end |-> query.to]>>
          /\ pc' = "busy"
          /\ UNCHANGED day
     ELSE /\ day' = StartOfDay(tz, query.from)
          /\ pc' = "walk"
          /\ UNCHANGED windows
  /\ UNCHANGED <<database, query, tz, blocks, taken, busy, loop, reply>>

Larger(a, b) == IF a >= b THEN a ELSE b
Smaller(a, b) == IF a <= b THEN a ELSE b

(* A row of the schedule on a local day, clipped to the range. *)
Clipped(row, local) ==
  [start |-> Larger(WallClockToInstant(tz, local, row.start), query.from),
   end |-> Smaller(WallClockToInstant(tz, local, row.end), query.to)]

(* The orders in which the rows of a set may come back: no ORDER BY. *)
Arrangements(S) ==
  {s \in [1 .. Cardinality(S) -> S] : \A e \in S : \E i \in DOMAIN s : s[i] = e}

(* The rows for a local day, those left out that lie outside the range. *)
DayRows(local) ==
  {row \in schedule : /\ row.day = DayOfWeek(local)
                      /\ Clipped(row, local).start < Clipped(row, local).end}

(* One iteration of the walk: 24 hours further, whatever the day lasts. *)
WalkDay ==
  /\ pc = "walk" /\ day < query.to
  /\ \E rows \in Arrangements(DayRows(LocalDay(tz, day))) :
       windows' = windows \o [i \in DOMAIN rows |-> Clipped(rows[i], LocalDay(tz, day))]
  /\ day' = day + DayLength
  /\ UNCHANGED <<database, pc, query, tz, blocks, taken, busy, loop, reply>>

WalkEnds ==
  /\ pc = "walk" /\ day >= query.to
  /\ pc' = "busy"
  /\ UNCHANGED <<database, query, day, reads, loop, reply>>

-----------------------------------------------------------------------------
(* Promise.all of the two reads, in either order. *)

Asked == [start |-> query.from, end |-> query.to]

(* blocksIn *)
ReadBlocks ==
  /\ pc = "busy" /\ blocks = None
  /\ blocks' = {b \in closure : Overlaps(b, Asked)}
  /\ UNCHANGED <<database, pc, query, day, tz, windows, taken, busy, loop, reply>>

(* Mutant: reservations contained in the range, not those that meet it. *)
ReadReservationsWithin ==
  /\ pc = "busy" /\ taken = None
  /\ taken' = {p \in booked : IsWithin(p, Asked)}
  /\ UNCHANGED <<database, pc, query, day, tz, windows, blocks, busy, loop, reply>>

(* findConfirmedInRange *)
ReadReservations ==
  /\ pc = "busy" /\ taken = None
  /\ taken' = {p \in booked : Overlaps(p, Asked)}
  /\ UNCHANGED <<database, pc, query, day, tz, windows, blocks, busy, loop, reply>>

(* What sort() makes of the busy intervals. *)
Sorted(S) ==
  {s \in Arrangements(S) : \A i, j \in DOMAIN s : i < j => s[i].start <= s[j].start}

(* Both answers are in: the busy intervals are sorted, and the windows are  *)
(* taken one by one.                                                       *)
Sort ==
  /\ pc = "busy" /\ blocks # None /\ taken # None
  /\ busy' \in Sorted(blocks \cup taken)
  /\ IF windows = <<>>
     THEN pc' = "filter" /\ UNCHANGED cursor
     ELSE pc' = "subtract" /\ cursor' = windows[1].start
  /\ UNCHANGED <<database, query, day, tz, windows, blocks, taken, w, k, free, reply>>

-----------------------------------------------------------------------------
(* subtractFromOne, for each window. *)

Taken == busy[k]
Window == windows[w]

(* Mutant: the next window goes on where this one stopped reading. *)
NextWindowGoesOn(gaps) ==
  /\ free' = free \o gaps
  /\ w' = w + 1
  /\ UNCHANGED k
  /\ IF w < Len(windows)
     THEN cursor' = windows[w + 1].start /\ UNCHANGED pc
     ELSE pc' = "filter" /\ UNCHANGED cursor

(* The function returns for this window; flatMap goes on with the next.    *)
NextWindow(gaps) ==
  /\ free' = free \o gaps
  /\ w' = w + 1
  /\ k' = 1
  /\ IF w < Len(windows)
     THEN cursor' = windows[w + 1].start /\ UNCHANGED pc
     ELSE pc' = "filter" /\ UNCHANGED cursor

(* The gap between the cursor and an instant, if there is one. *)
Gap(end) ==
  IF cursor < end THEN <<[start |-> cursor, end |-> end]>> ELSE <<>>

Unread == k <= Len(busy)

(* Entirely before the cursor: continue. *)
SkipTaken ==
  /\ pc = "subtract" /\ Unread
  /\ Taken.end <= cursor
  /\ k' = k + 1
  /\ UNCHANGED <<database, pc, query, day, reads, w, cursor, free, reply>>

(* Mutant: the cursor follows the last busy interval, even backwards. *)
PassTakenBackwards ==
  /\ pc = "subtract" /\ Unread
  /\ Taken.start < Window.end
  /\ IF Taken.end >= Window.end
     THEN NextWindow(Gap(Taken.start))
     ELSE /\ free' = free \o Gap(Taken.start)
          /\ cursor' = Taken.end
          /\ k' = k + 1
          /\ UNCHANGED <<pc, w>>
  /\ UNCHANGED <<database, query, day, reads, reply>>

(* The gap before it is free, and the cursor moves on to its end. *)
PassTaken ==
  /\ pc = "subtract" /\ Unread
  /\ Taken.end > cursor /\ Taken.start < Window.end
  /\ IF Taken.end >= Window.end
     THEN NextWindow(Gap(Taken.start))
     ELSE /\ free' = free \o Gap(Taken.start)
          /\ cursor' = Taken.end
          /\ k' = k + 1
          /\ UNCHANGED <<pc, w>>
  /\ UNCHANGED <<database, query, day, reads, reply>>

(* Entirely after the window (break), or none left: the rest is free. *)
CloseWindow ==
  /\ pc = "subtract"
  /\ Unread => Taken.end > cursor /\ Taken.start >= Window.end
  /\ NextWindow(Gap(Window.end))
  /\ UNCHANGED <<database, query, day, reads, reply>>

(* Mutant: a slot of just the wanted length is dropped. *)
LongerThan(slot) == slot.end - slot.start > query.min

LongEnough(slot) == slot.end - slot.start >= query.min

(* atLeast, and the answer; the order of the slots is left out. *)
Filter ==
  /\ pc = "filter"
  /\ Answer("OK", {slot \in Range(free) : LongEnough(slot)})
  /\ UNCHANGED <<database, query, day, reads, loop>>

-----------------------------------------------------------------------------
(* The database meanwhile. *)

handler == <<pc, query, day, reads, loop, reply>>

Book ==
  /\ \E p \in Bookings :
       /\ \A other \in booked : ~Overlaps(p, other)
       /\ booked' = booked \cup {p}
  /\ UNCHANGED <<active, zone, schedule, closure, standing, handler>>

Cancel ==
  /\ \E p \in booked : booked' = booked \ {p} /\ standing' = standing \ {p}
  /\ UNCHANGED <<active, zone, schedule, closure, handler>>

ChangeZone ==
  /\ zone' \in Zones
  /\ UNCHANGED <<active, schedule, closure, booked, standing, handler>>

SwitchActive ==
  /\ active' = ~active
  /\ UNCHANGED <<zone, schedule, closure, booked, standing, handler>>

-----------------------------------------------------------------------------

Subtract == SkipTaken \/ PassTaken \/ CloseWindow

FindSlots ==
  \/ Receive \/ ReadResource \/ ReadSchedule
  \/ WalkDay \/ WalkEnds
  \/ ReadBlocks \/ ReadReservations \/ Sort
  \/ Subtract
  \/ Filter

(* Changes during a loop, which awaits nothing, are the same to the handler *)
(* as changes after it, and those after its last read make no difference.  *)
Awaiting == pc \in {"resource", "schedule", "busy"}

Surroundings ==
  /\ Awaiting
  /\ Book \/ Cancel \/ ChangeZone \/ SwitchActive

Answered == pc = "done" /\ UNCHANGED vars

Next == FindSlots \/ Surroundings \/ Answered

Spec == Init /\ [][Next]_vars

-----------------------------------------------------------------------------
(* Properties. *)

Labels == {"new", "resource", "schedule", "walk", "busy", "subtract", "filter", "done"}

TypeOK ==
  /\ active \in BOOLEAN
  /\ zone \in Zones /\ tz \in Zones
  /\ schedule \in Schedules
  /\ closure \in Closures
  /\ booked \subseteq Bookings /\ IsFiniteSet(booked)
  /\ standing \subseteq booked
  /\ pc \in Labels
  /\ query \in Queries
  /\ day \in Int
  /\ windows \in Seq(Interval) /\ busy \in Seq(Interval) /\ free \in Seq(Interval)
  /\ blocks = None \/ (blocks \subseteq closure /\ IsFiniteSet(blocks))
  /\ taken = None \/ (taken \subseteq Bookings /\ IsFiniteSet(taken))
  /\ w \in Nat \ {0} /\ k \in Nat \ {0} /\ cursor \in Int
  /\ reply \in [code : {"NONE", "INVALID_PERIOD", "RESOURCE_UNAVAILABLE", "OK"},
               slots : SUBSET Interval]

Contains(p, t) == p.start <= t /\ t < p.end
Covers(s, t) == \E p \in Range(s) : Contains(p, t)

Instants == query.from .. query.to - 1

Answered200 == pc = "done" /\ reply.code = "OK"

(* The instants at which the walk takes a local day. *)
Stops ==
  LET first == StartOfDay(tz, query.from) IN
  {d \in first .. query.to - 1 : (d - first) % DayLength = 0}

(* The gaps are exactly the operating windows without what was read as     *)
(* blocked or booked, however these overlap each other and the windows.    *)
GapsExact ==
  pc = "filter" \/ Answered200 =>
    \A t \in Instants :
      Covers(free, t) <=> /\ Covers(windows, t)
                         /\ \A p \in blocks \cup taken : ~Contains(p, t)

(* The reads are statements of their own, and reservations come and go      *)
(* between them: one that stands all the time is never offered to another. *)
StandingNotOffered ==
  Answered200 => \A slot \in reply.slots, p \in standing : ~Overlaps(slot, p)

(* The offset does not change on the days of the range, nor so close to     *)
(* them that a time of theirs could be read by the other one.              *)
Steady ==
  Whole(tz, LocalDay(tz, query.from) * DayLength,
            (LocalDay(tz, query.to - 1) + 1) * DayLength)

(* Where it does not, the windows are the opening hours of every day of    *)
(* the range, the first and the last in part, and every day comes once.    *)
WindowsComplete ==
  pc \notin {"new", "resource", "schedule", "walk", "done"} /\ Steady =>
    /\ \A t \in Instants : Covers(windows, t) <=> OpenAt(schedule, tz, t)
    /\ \A i, j \in DOMAIN windows :
         i # j /\ Overlaps(windows[i], windows[j]) =>
           \E a, b \in schedule : a # b /\ a.day = b.day /\ Overlaps(a, b)

(* A promise kept by the rules of a creation: whoever books a period in a   *)
(* slot does not find the resource closed, even in a week with a change of *)
(* offset, if only the change falls into no opening hours and no time of   *)
(* opening or closing can be read in two ways.                             *)
UnbrokenWindows ==
  \A d \in Stops, row \in schedule :
    row.day = DayOfWeek(LocalDay(tz, d)) =>
      Whole(tz, LocalDay(tz, d) * DayLength + row.start,
                LocalDay(tz, d) * DayLength + row.end)

Bookable == {p \in [start : Instants, end : query.from + 1 .. query.to] : ValidPeriod(p)}

SlotsKeepHours ==
  Answered200 /\ UnbrokenWindows =>
    \A slot \in reply.slots, p \in Bookable :
      IsWithin(p, slot) => FitsOpeningHours(schedule, tz, p)

(* Conversely, where the offset is steady: every period that the rules      *)
(* would admit is offered, if it is as long as the client wants.           *)
NothingWithheld ==
  Answered200 /\ Steady =>
    \A p \in Bookable :
      /\ p.end - p.start >= query.min
      /\ FitsOpeningHours(schedule, tz, p)
      /\ \A b \in blocks \cup taken : ~Overlaps(p, b)
      => \E slot \in reply.slots : IsWithin(p, slot)

-----------------------------------------------------------------------------
(* Why the subtraction is exact: an inductive invariant. *)

Occupied == blocks \cup taken

WindowsInRange ==
  /\ pc \notin {"new", "done"} => query.from < query.to
  /\ \A p \in Range(windows) : p.start < p.end /\ IsWithin(p, Asked)

NothingFoundYet ==
  pc \in {"new", "resource", "schedule", "walk", "busy"} => w = 1 /\ k = 1 /\ free = <<>>

(* From Sort on: everything is read, and busy lists it by its start. *)
BusySorted ==
  pc \in {"subtract", "filter"} \/ Answered200 =>
    /\ blocks # None /\ taken # None
    /\ Range(busy) = Occupied
    /\ \A i, j \in DOMAIN busy : i < j => busy[i].start <= busy[j].start

WindowAtHand ==
  /\ pc = "subtract" => w \in DOMAIN windows
  /\ pc = "filter" \/ Answered200 => w = Len(windows) + 1

(* What was read before the cursor ends before it, in the window at hand.   *)
CursorInWindow ==
  pc = "subtract" =>
       /\ Window.start <= cursor /\ cursor < Window.end
       /\ k <= Len(busy) + 1
       /\ \A j \in 1 .. k - 1 : busy[j].end <= cursor

GapsAreFree ==
  \A gap \in Range(free) :
    /\ \E p \in Range(windows) : IsWithin(gap, p)
    /\ \A b \in Occupied : ~Overlaps(gap, b)

(* The instants the loops have dealt with. *)
DealtWith(t) ==
  \/ \E j \in 1 .. w - 1 : Contains(windows[j], t)
  \/ pc = "subtract" /\ Window.start <= t /\ t < cursor

AllDealtWith ==
  pc \in {"subtract", "filter"} \/ Answered200 =>
    \A t \in Instants :
      DealtWith(t) => Covers(free, t) \/ \E b \in Occupied : Contains(b, t)

(* A reservation read as confirmed, or booked later, or cancelled since. *)
StandingWasRead ==
  taken # None => \A p \in standing : Overlaps(p, Asked) => p \in taken

SlotsAreGaps == reply.slots \subseteq Range(free)

(* The walk: each row of each day it has come to makes one window, and no   *)
(* other window is found.                                                  *)
WindowOf(o) == Clipped(o[2], LocalDay(tz, o[1]))

Origins ==
  {o \in {d \in Stops : d < day} \X schedule :
     /\ o[2].day = DayOfWeek(LocalDay(tz, o[1]))
     /\ WindowOf(o).start < WindowOf(o).end}

Traced ==
  IF schedule = {} THEN windows = <<Asked>>
  ELSE /\ day >= StartOfDay(tz, query.from)
       /\ (day - StartOfDay(tz, query.from)) % DayLength = 0
       /\ pc # "walk" => day >= query.to
       /\ {WindowOf(o) : o \in Origins} = Range(windows)
       /\ \A i, j \in DOMAIN windows : i < j =>
            \E o \in Origins : /\ windows[i] = WindowOf(o)
                              /\ \E q \in Origins \ {o} : windows[j] = WindowOf(q)

WalkTraced == pc \in {"walk", "busy"} => Traced

(* The subtraction: a period that starts in what is dealt with, and meets   *)
(* nothing occupied, lies within one gap.                                  *)
StartsBehind(p) ==
  \/ \E j \in 1 .. w - 1 : IsWithin(p, windows[j])
  \/ pc = "subtract" /\ IsWithin(p, Window) /\ p.start < cursor

FreePeriodsFound ==
  pc \in {"subtract", "filter"} \/ Answered200 =>
    \A p \in Bookable :
      StartsBehind(p) /\ (\A b \in Occupied : ~Overlaps(p, b)) =>
        \E gap \in Range(free) : IsWithin(p, gap)

LoopInvariant ==
  /\ WindowsInRange /\ NothingFoundYet /\ BusySorted
  /\ WindowAtHand /\ CursorInWindow
  /\ GapsAreFree /\ AllDealtWith /\ StandingWasRead /\ SlotsAreGaps

Inductive == TypeOK /\ LoopInvariant /\ WalkTraced /\ FreePeriodsFound

-----------------------------------------------------------------------------
(* "every day in the range": what is open in the range is found by the     *)
(* walk, although a day may last 23 or 25 hours.                           *)
EveryDayWalked ==
  pc = "busy" => \A t \in Instants : OpenAt(schedule, tz, t) => Covers(windows, t)

=============================================================================
