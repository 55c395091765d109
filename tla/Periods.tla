------------------------------- MODULE Periods -------------------------------
(***************************************************************************)
(* The value object of src/src/reservations/period.vo.ts: a half-open      *)
(* range [start, end) of instants.  The unit of an instant is that of the  *)
(* three constants, which stand for SLOT_MINUTES, MIN_DURATION_MINUTES and *)
(* MAX_DURATION_MINUTES (15, 15 and 480 minutes in the code).              *)
(***************************************************************************)
EXTENDS Integers

CONSTANTS
  Slot,        \* booking granularity
  MinLength,   \* shortest booking
  MaxLength    \* longest booking

ASSUME PeriodAssumption ==
  /\ Slot \in Nat \ {0}
  /\ MinLength \in Nat \ {0}
  /\ MaxLength \in Nat

(* What a client may put in startAt and endAt: any two instants. *)
Interval == [start : Int, end : Int]

(* The checks of Period.create, in one predicate: each of them throws the  *)
(* same InvalidPeriodError.                                                *)
ValidPeriod(p) ==
  LET length == p.end - p.start IN
  /\ p.start < p.end
  /\ MinLength <= length /\ length <= MaxLength
  /\ p.start % Slot = 0
  /\ length % Slot = 0

(* Period.overlaps, and PostgreSQL's && on two tstzrange(_, _, '[)'): the  *)
(* overlap query and the EXCLUDE constraint use that operator.             *)
Overlaps(p, q) == p.start < q.end /\ q.start < p.end

IsWithin(p, q) == q.start <= p.start /\ p.end <= q.end

IsBefore(p, t) == p.start < t

=============================================================================
