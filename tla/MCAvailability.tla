--------------------------- MODULE MCAvailability ---------------------------
(***************************************************************************)
(* Small instances of Availability for TLC: days of 8 units and weeks of 2 *)
(* days, a booking grid of 2 units.  A zone is an hour (one unit) to one   *)
(* or the other side of UTC, or changes its offset by a unit.              *)
(***************************************************************************)
EXTENDS Availability

Span(a, b) == [start |-> a, end |-> b]
Row(d, a, b) == [day |-> d, start |-> a, end |-> b]
Ask(a, b, n) == [from |-> a, to |-> b, min |-> n]
Steadily(offset) == [change |-> 0, before |-> offset, after |-> offset, early |-> TRUE]
Changing(t, a, b, e) == [change |-> t, before |-> a, after |-> b, early |-> e]

(* Zones that keep their offset, and two that change it at instant 12.      *)
MCZones == {Steadily(0), Steadily(-1), Changing(12, 1, 2, TRUE), Changing(12, 2, 1, FALSE)}

(* No rows, a window a day with one until midnight, two that adjoin or      *)
(* overlap on one day.                                                     *)
MCSchedules ==
  {{}, {Row(0, 2, 6), Row(1, 4, 8)}, {Row(0, 1, 4), Row(0, 4, 8), Row(1, 0, 3)},
   {Row(1, 1, 5), Row(1, 3, 7)}}

MCQueries == {Ask(3, 17, 4), Ask(6, 6, 2), Ask(0, 34, 2), Ask(12, 24, 2), Ask(0, 12, 2)}

MCClosures == {{}, {Span(3, 5), Span(9, 12)}}
MCBookings == {Span(2, 6), Span(4, 8), Span(14, 20)}

(* A query over the end of daylight saving time, at noon of its last day.  *)
OneYear == {Changing(12, 2, 1, FALSE)}
MorningsOnly == {{Row(0, 2, 4), Row(1, 2, 4)}}
UntilNoon == {Ask(6, 28, 2)}
NoClosures == {{}}
NoBookings == {}

=============================================================================
