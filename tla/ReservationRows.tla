-------------------------- MODULE ReservationRows --------------------------
(***************************************************************************)
(* The table reservation of migration 1756700000004: the rows it holds and *)
(* the two constraints that relate one row to another.                     *)
(***************************************************************************)
EXTENDS Periods

CONSTANTS
  Ids,         \* reservation.id
  Users,       \* "user".id
  Resources,   \* resource.id
  Keys,        \* values of the Idempotency-Key header
  Parties,     \* numbers of attendees a client may state
  None         \* SQL NULL, and the absence of a row

Status == {"CONFIRMED", "CANCELLED", "COMPLETED"}

(* One row of the reservation table; title, notes and timestamps left out. *)
Row == [user : Users,
        resource : Resources,
        period : Interval,
        attendees : Parties \cup {None},
        status : Status,
        key : Keys \cup {None},
        cancelledBy : Users \cup {None}]

(* The predicate of EXCLUDE USING gist (resource_id WITH =, period WITH &&) *)
(* WHERE (status = 'CONFIRMED').                                            *)
Clash(a, b) ==
  /\ a.status = "CONFIRMED" /\ b.status = "CONFIRMED"
  /\ a.resource = b.resource
  /\ Overlaps(a.period, b.period)

(* The predicate of the partial unique index reservation_idempotency_uq. *)
SameKey(a, b) == a.key # None /\ a.user = b.user /\ a.key = b.key

Taken(t) == {i \in Ids : t[i] # None}

(* Can this row be stored under id i beside the other rows of the table? *)
Fits(t, i, row) ==
  \A j \in Taken(t) \ {i} : ~Clash(row, t[j]) /\ ~SameKey(row, t[j])

(* A table no two rows of which the constraints refuse. *)
Consistent(t) == \A i \in Taken(t) : Fits(t, i, t[i])

=============================================================================
