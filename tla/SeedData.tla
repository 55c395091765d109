------------------------------ MODULE SeedData ------------------------------
(***************************************************************************)
(* The demonstration data of src/src/database/seeds/seed-data.ts: who, what *)
(* and when.  Names, descriptions, capacities and places are left out;     *)
(* times of day are minutes.                                               *)
(***************************************************************************)
EXTENDS Integers, Sequences

At(hour, minute) == 60 * hour + minute

USERS ==
  <<[email |-> "admin", role |-> "admin"],
    [email |-> "carlos", role |-> "user"],
    [email |-> "marta", role |-> "user"]>>

WEEKDAYS == <<1, 2, 3, 4, 5>>

(* A window of a schedule, spelt out as the rows the loader inserts for it. *)
Weekly(days, start, end) ==
  [n \in DOMAIN days |-> [day |-> days[n], start |-> start, end |-> end]]

Offered(type, code, timeZone, isActive, schedule) ==
  [type |-> type, code |-> code, timeZone |-> timeZone, isActive |-> isActive,
   schedule |-> schedule]

RESOURCES ==
  <<Offered("meeting-room", "SALA-AURORA", "Europe/Madrid", TRUE,
            Weekly(WEEKDAYS, At(8, 0), At(20, 0))),
    Offered("meeting-room", "SALA-BOREALIS", "Europe/Madrid", TRUE,
            Weekly(WEEKDAYS, At(9, 0), At(18, 0))),
    Offered("meeting-room", "SALA-BOGOTA", "America/Bogota", TRUE,
            Weekly(WEEKDAYS, At(8, 0), At(17, 0))),
    Offered("laptop", "PORT-014", "Europe/Madrid", TRUE, <<>>),
    Offered("car", "COCHE-2891", "Europe/Madrid", TRUE,
            Weekly(<<1, 2, 3, 4, 5, 6>>, At(7, 0), At(22, 0))),
    Offered("projector", "PROY-003", "Europe/Madrid", FALSE, <<>>)>>

Planned(resource, user, title, dayOffset, start, end, cancelled) ==
  [resource |-> resource, user |-> user, title |-> title, dayOffset |-> dayOffset,
   start |-> start, end |-> end, cancelled |-> cancelled]

RESERVATIONS ==
  <<Planned("SALA-AURORA", "admin", "committee", 1, At(10, 0), At(11, 0), FALSE),
    Planned("SALA-AURORA", "carlos", "just after", 1, At(11, 0), At(12, 0), FALSE),
    Planned("SALA-AURORA", "marta", "retro", 1, At(16, 0), At(17, 0), FALSE),
    Planned("SALA-AURORA", "carlos", "called off", 1, At(10, 30), At(11, 30), TRUE),
    Planned("SALA-BOREALIS", "marta", "interview", 2, At(12, 0), At(13, 0), FALSE),
    Planned("SALA-BOGOTA", "carlos", "daily", 2, At(9, 0), At(9, 30), FALSE),
    Planned("PORT-014", "marta", "visit", 3, At(8, 0), At(18, 0), FALSE)>>

=============================================================================
