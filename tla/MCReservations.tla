--------------------------- MODULE MCReservations ---------------------------
(***************************************************************************)
(* Small instances of Reservations for TLC.  An instant is half a booking  *)
(* slot: Slot = 2, and the clock skew of one minute becomes Skew = 1, less *)
(* than a slot as in the code.  The requests of each instance are all      *)
(* drawn from one small workload.                                          *)
(***************************************************************************)
EXTENDS Reservations, TLC

CONSTANTS r1, r2, u1, u2, admin, k1, k0, i1, i2, i3, i4

Span(a, b) == [start |-> a, end |-> b]

Early == Span(2, 4)
Late == Span(4, 6)
Both == Span(2, 6)
Misaligned == Span(3, 5)

Asked(op, u, r, i, p, n, k) ==
  [op |-> op, caller |-> u, resource |-> r, id |-> i, period |-> p,
   attendees |-> n, key |-> k]

Create(u, r, p) == Asked("create", u, r, None, p, None, None)
CreateWithKey(u, r, p, k) == Asked("create", u, r, None, p, None, k)
CreateFor(u, r, p, n) == Asked("create", u, r, None, p, n, None)
Reschedule(u, i, p) == Asked("reschedule", u, None, i, p, None, None)
RescheduleFor(u, i, p, n) == Asked("reschedule", u, None, i, p, n, None)
Cancel(u, i) == Asked("cancel", u, None, i, None, None, None)

Booked(u, r, p, k) ==
  [user |-> u, resource |-> r, period |-> p, attendees |-> None,
   status |-> "CONFIRMED", key |-> k, cancelledBy |-> None]

EmptyTable == [i \in Ids |-> None]
TableWith(i, row) == [EmptyTable EXCEPT ![i] = row]

(* Constants of the resources, the same in every instance unless named. *)
NoTerms == [capacity |-> None, hours |-> {}]
AnyTerms == [r \in Resources |-> {NoTerms}]
NoBlocks == [r \in Resources |-> {}]
AllActive == [r \in Resources |-> [state |-> "ACTIVE", terms |-> NoTerms]]
LimitOne == [u \in Users |-> 1]
LimitTwo == [u \in Users |-> 2]
EmptyTables == {EmptyTable}
NoRows == {}

Symmetry == Permutations(Requests)

-----------------------------------------------------------------------------
(* contention: creating, rescheduling and cancelling around one slot, which *)
(* includes that everybody wants the same one.                             *)
ContentionTables ==
  {EmptyTable, TableWith(i1, Booked(u1, r1, Early, None))}
ContentionWorkload ==
  {Create(u1, r1, Early), Create(u2, r1, Early), Create(u2, r1, Late),
   Create(u1, r1, Misaligned),
   Reschedule(u1, i1, Late), Reschedule(u1, i1, Both), Cancel(u1, i1)}

(* outsiders: a script inserts beside the API and anything may crash; the  *)
(* constraints of the table are on their own.                              *)
Abandoned(row) == [row EXCEPT !.status = "CANCELLED", !.cancelledBy = row.user]
OutsiderRows ==
  {Booked(u1, r1, Early, None), Booked(u2, r1, Both, k1),
   Abandoned(Booked(u2, r1, Early, k1))}
OutsiderWorkload ==
  {Create(u1, r1, Early), CreateWithKey(u2, r1, Late, k1),
   CreateWithKey(u2, r2, Late, k1), CreateWithKey(u2, r2, Late, k0),
   Reschedule(u1, i1, Late), Reschedule(u1, i1, Early), Cancel(u1, i1)}
OutsiderTables == {TableWith(i1, Booked(u1, r1, Early, None)), EmptyTable}

(* rules: a resource with two versions of capacity and opening hours, a     *)
(* maintenance period, a moving clock and requests on behalf of others.    *)
BigUntilSix == [capacity |-> 2, hours |-> {Span(0, 6)}]
SmallUntilEight == [capacity |-> 1, hours |-> {Span(2, 8)}]
BigOrLong == [r \in Resources |-> {BigUntilSix, SmallUntilEight}]
BlockedAtFour == [r \in Resources |-> {Span(4, 5)}]
FirstOpening == [r \in Resources |-> [state |-> "ABSENT", terms |-> BigUntilSix]]
RulesTables == {TableWith(i1, Booked(u1, r1, Early, None)), EmptyTable}
RulesWorkload ==
  {CreateFor(u2, r1, Early, 3), CreateFor(u2, r1, Span(6, 8), 2),
   Create(u1, r1, Late), Create(u2, r1, Span(0, 2)),
   RescheduleFor(u1, i1, Early, 2), Reschedule(admin, i1, Late),
   RescheduleFor(admin, i1, Span(0, 2), 1), RescheduleFor(u1, i1, Span(6, 8), 2),
   Cancel(admin, i1), Cancel(u2, i1)}

(* progress: a small pool, two resources, every operation. *)
ProgressTables == {TableWith(i1, Booked(u1, r1, Early, None))}
ProgressWorkload ==
  {CreateWithKey(u1, r1, Early, k1), CreateWithKey(u1, r2, Early, k1),
   Reschedule(u1, i1, Late), Cancel(u1, i1)}

-----------------------------------------------------------------------------
(* Workloads of the runs that confront the documentation. *)
DoubleClick == {CreateWithKey(u1, r1, Early, k1)}
TwoRooms == {Create(u1, r1, Early), Create(u1, r2, Early)}

=============================================================================
