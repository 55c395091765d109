------------------------------ MODULE MCSeeds ------------------------------
(***************************************************************************)
(* Seeds with the dataset of the repository, for TLC: days of 1440 minutes,*)
(* loads around midnight of Madrid, two days before its clocks change.     *)
(***************************************************************************)
EXTENDS Seeds, SeedData, TLC

Day == 1440

(* The dataset as it is, but for the schedules: two rows of the first one   *)
(* and one of the others stand for their five or six.                      *)
MCResources ==
  [n \in DOMAIN RESOURCES |->
     [RESOURCES[n] EXCEPT !.schedule =
        SubSeq(@, 1, CASE @ = <<>> -> 0 [] n = 1 -> 2 [] OTHER -> 1)]]

MCZoneNamed ==
  [z \in {"Europe/Madrid", "America/Bogota"} |->
     IF z = "Europe/Madrid"
     THEN [change |-> 12 * Day + 60, before |-> 60, after |-> 120, early |-> TRUE]
     ELSE [change |-> 0, before |-> -300, after |-> -300, early |-> TRUE]]

MCTypes == {"meeting-room", "laptop", "car", "projector"}
MCInstalled == {MCTypes, {}}

(* In the afternoon of Madrid's 10th day, and half an hour after its end.   *)
MCInstants == {10 * Day + 1000, 10 * Day + 23 * 60 + 30}

MCSignUps == {"admin"}

(* An hour that overlaps two of the loaded reservations, on the 11th.       *)
MCOutside == {[resource |-> "SALA-AURORA", start |-> 11 * Day + At(9, 30),
               end |-> 11 * Day + At(10, 30)]}

MCCancellable == {"committee"}
MCSwitched == {"PROY-003"}

Symmetry == Permutations(Loaders)

=============================================================================
