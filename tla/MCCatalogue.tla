---------------------------- MODULE MCCatalogue -----------------------------
(***************************************************************************)
(* A small instance of Catalogue for TLC: three requests around one or two *)
(* resources.                                                              *)
(***************************************************************************)
EXTENDS Catalogue, TLC

CONSTANTS i1, i2, t1, t2, room, car, Madrid

Asked(op, i, c, t, z) == [op |-> op, id |-> i, code |-> c, type |-> t, timeZone |-> z]

MCWorkload ==
  {Asked("type", None, car, None, None),
   Asked("create", None, room, t1, None),
   Asked("create", None, room, t2, Madrid),
   Asked("create", None, room, t1, EmptyZone),
   Asked("create", None, car, t1, WrongZone),
   Asked("update", i1, None, None, Madrid),
   Asked("update", i1, None, None, None),
   Asked("update", i1, None, None, EmptyZone),
   Asked("update", i1, None, None, WrongZone),
   Asked("update", i1, None, None, Null),
   Asked("deactivate", i1, None, None, None),
   Asked("activate", i1, None, None, None)}

NoTypes == [t \in TypeIds |-> None]
NoResources == [i \in Ids |-> None]
Rooms == [NoTypes EXCEPT ![t1] = [code |-> room, live |-> TRUE]]
OneRoom == [code |-> room, type |-> t1, timeZone |-> UTC, isActive |-> TRUE,
            deactivatedAt |-> None]

MCStart ==
  {[types |-> NoTypes, resources |-> NoResources],
   [types |-> Rooms, resources |-> [NoResources EXCEPT ![i1] = OneRoom]]}

Symmetry == Permutations(Requests)

=============================================================================
