---------------------------- MODULE BookingTable ----------------------------
(***************************************************************************)
(* What the reservation service promises its clients, with no requests,    *)
(* locks or transactions in sight: a table of bookings that changes one    *)
(* row at a time, in one of four ways, and never holds two confirmed       *)
(* bookings of one resource at the same instant.                           *)
(*                                                                         *)
(* The promise is stated after the table of migration 1756700000004 and    *)
(* the writes of ReservationRepository: a booking is born confirmed, only  *)
(* its period and party size can be changed, and it can be cancelled.      *)
(* Module Reservations is shown to implement it.                           *)
(***************************************************************************)
EXTENDS ReservationRows

VARIABLE rows

Init ==
  /\ rows \in [Ids -> Row \cup {None}]
  /\ Consistent(rows)

(* The ways the table changes.  Each names the new row by rows'[i], so    *)
(* that TLC need not enumerate instants.                                    *)
Book(i) ==
  /\ rows[i] = None
  /\ rows'[i] \in Row
  /\ rows'[i].status = "CONFIRMED" /\ rows'[i].cancelledBy = None
  /\ rows'[i].period.start < rows'[i].period.end
  /\ Fits(rows, i, rows'[i])

(* The demonstration data of the seeds holds bookings born cancelled. *)
Import(i) ==
  /\ rows[i] = None
  /\ rows'[i] \in Row
  /\ rows'[i].status = "CANCELLED" /\ rows'[i].cancelledBy # None
  /\ rows'[i].period.start < rows'[i].period.end
  /\ Fits(rows, i, rows'[i])

(* Rescheduling never asks for the status: a cancelled booking can be moved *)
(* too, and stays cancelled.                                                *)
Move(i) ==
  /\ rows[i] # None
  /\ rows'[i] \in Row
  /\ rows'[i] = [rows[i] EXCEPT !.period = rows'[i].period,
                                !.attendees = rows'[i].attendees]
  /\ ValidPeriod(rows'[i].period)
  /\ Fits(rows, i, rows'[i])

Cancel(i) ==
  /\ rows[i] # None
  /\ rows'[i] \in Row
  /\ rows'[i] = [rows[i] EXCEPT !.status = "CANCELLED",
                                !.cancelledBy = rows'[i].cancelledBy]
  /\ rows'[i].cancelledBy # None

Next ==
  \E i \in Ids :
    /\ rows' = [rows EXCEPT ![i] = rows'[i]]
    /\ Book(i) \/ Import(i) \/ Move(i) \/ Cancel(i)

Spec == Init /\ [][Next]_rows

=============================================================================
