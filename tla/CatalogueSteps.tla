--------------------------- MODULE CatalogueSteps ---------------------------
(***************************************************************************)
(* What the rest of the program sees of the catalogue of resources: a      *)
(* resource appears, and from then on it stays; each step either switches  *)
(* its activity or gives it other terms (time zone, capacity), never both. *)
(* This is what the surroundings of Reservations do to its catalogue;      *)
(* Catalogue and Seeds, statement by statement, implement it.              *)
(***************************************************************************)

CONSTANTS
  Resources,  \* identities of resources
  Terms,      \* the terms a resource may have
  None        \* no resource

VARIABLE catalogue

Listed == [active : BOOLEAN, terms : Terms]

Init == catalogue \in [Resources -> Listed \cup {None}]

Register(r) ==
  /\ catalogue[r] = None
  /\ \E resource \in Listed : catalogue' = [catalogue EXCEPT ![r] = resource]

Switch(r) ==
  /\ catalogue[r] # None
  /\ \E active \in BOOLEAN :
       catalogue' = [catalogue EXCEPT ![r] = [active |-> active, terms |-> @.terms]]

Change(r) ==
  /\ catalogue[r] # None
  /\ \E terms \in Terms :
       catalogue' = [catalogue EXCEPT ![r] = [active |-> @.active, terms |-> terms]]

Next == \E r \in Resources : Register(r) \/ Switch(r) \/ Change(r)

Spec == Init /\ [][Next]_catalogue

=============================================================================
