---------------------------- MODULE LoadingProofs ----------------------------
(***************************************************************************)
(* Proofs about what the loader of demonstration data makes of its         *)
(* reservations: the hour they are loaded for, when an insert can fail,    *)
(* and why a second load adds nothing.                                     *)
(***************************************************************************)
EXTENDS SeedsProofs, WallClocksProofs

-----------------------------------------------------------------------------
(* Periods of the dataset. *)

(* Where a reservation is placed by a loader that reads the clock at t.     *)
PlacedOn(v, t) ==
  [start |-> WallClockToInstant(ZoneOf(v), PlannedDay(v, t), v.start),
   end |-> WallClockToInstant(ZoneOf(v), PlannedDay(v, t), v.end)]

LEMMA PlacedNow ==
  ASSUME NEW v
  PROVE  Placed(v) = PlacedOn(v, now)
PROOF BY DEF Placed, PlacedOn, FutureInstant, PlannedDay

(* Its wall clocks lie within one day, and on one side of the change.       *)
LEMMA PlanFacts ==
  ASSUME NEW v \in Range(Reservations), NEW t \in Instants
  PROVE  LET midnight == PlannedDay(v, t) * DayLength
             a == midnight + v.start
             b == midnight + v.end
         IN  /\ ZoneOf(v) \in Zone /\ PlannedDay(v, t) \in Int
             /\ v.start \in Int /\ v.end \in Int
             /\ midnight \in Int /\ a \in Int /\ b \in Int /\ a < b
             /\ midnight <= a /\ b <= (PlannedDay(v, t) + 1) * DayLength
             /\ Whole(ZoneOf(v), a, b)
             /\ PlacedOn(v, t).start = ToInstant(ZoneOf(v), a)
             /\ PlacedOn(v, t).end = ToInstant(ZoneOf(v), b)
PROOF
<1> DEFINE owner == CHOOSE r \in Range(Resources) : r.code = v.resource
           z == ZoneOf(v)
           day == PlannedDay(v, t)
<1>1. v.resource \in Codes /\ v.dayOffset \in Int /\ v.start \in Int /\ v.end \in Int
      /\ t \in Int
  BY SeedsAssumption
<1>2. z \in Zone
  <2>1. owner \in Range(Resources)
    BY <1>1 DEF Codes
  <2> QED BY <2>1, SeedsAssumption DEF ZoneOf
<1>3. day \in Int
  <2>1. LocalDay(z, t) \in Int
    BY <1>1, <1>2, WallType
  <2> QED BY <1>1, <2>1 DEF PlannedDay
<1>4. 0 <= v.start /\ v.start < v.end /\ v.end <= DayLength /\ DayLength \in Nat \ {0}
  BY DatasetAssumption, WallClockAssumption
<1>5. Whole(z, day * DayLength + v.start, day * DayLength + v.end)
  BY DatasetAssumption
<1>6. /\ PlacedOn(v, t).start = ToInstant(z, day * DayLength + v.start)
      /\ PlacedOn(v, t).end = ToInstant(z, day * DayLength + v.end)
  BY DEF PlacedOn, WallClockToInstant
<1> HIDE DEF z, day
<1>7. /\ day * DayLength \in Int /\ (day + 1) * DayLength = day * DayLength + DayLength
      /\ day * DayLength + v.start \in Int /\ day * DayLength + v.end \in Int
  BY <1>1, <1>3, <1>4
<1>8. /\ day * DayLength + v.start < day * DayLength + v.end
      /\ day * DayLength <= day * DayLength + v.start
      /\ day * DayLength + v.end <= (day + 1) * DayLength
  BY <1>1, <1>4, <1>7
<1> QED BY <1>1, <1>2, <1>3, <1>5, <1>6, <1>7, <1>8 DEF z, day

(* So it is loaded at its hour, for as long as it lasts.                    *)
LEMMA PlacedHours ==
  ASSUME NEW v \in Range(Reservations), NEW t \in Instants
  PROVE  /\ PlacedOn(v, t) \in [start : Int, end : Int]
         /\ PlacedOn(v, t).start < PlacedOn(v, t).end
         /\ MinutesOfDay(ZoneOf(v), PlacedOn(v, t).start) = v.start
         /\ PlacedOn(v, t).end - PlacedOn(v, t).start = v.end - v.start
PROOF
<1> DEFINE z == ZoneOf(v)
           day == PlannedDay(v, t)
           a == day * DayLength + v.start
           b == day * DayLength + v.end
<1>1. /\ z \in Zone /\ day \in Int /\ v.start \in Int /\ v.end \in Int
      /\ day * DayLength \in Int /\ a \in Int /\ b \in Int /\ a < b
      /\ day * DayLength <= a /\ b <= (day + 1) * DayLength /\ Whole(z, a, b)
      /\ PlacedOn(v, t).start = ToInstant(z, a) /\ PlacedOn(v, t).end = ToInstant(z, b)
  BY PlanFacts
<1>2. ToInstant(z, a) \in Int /\ ToInstant(z, b) \in Int
  BY <1>1, WallType
<1>3. ToInstant(z, b) - ToInstant(z, a) = b - a /\ Wall(z, ToInstant(z, a)) = a
  BY <1>1, StretchLasts
<1>4. b - a = v.end - v.start
  BY <1>1
<1>5. a % DayLength = v.start
  <2>1. a < (day + 1) * DayLength
    <3>1. (day + 1) * DayLength \in Int
      BY <1>1, WallClockAssumption
    <3> HIDE DEF a, b, day
    <3> QED BY <1>1, <3>1
  <2>2. a % DayLength = a - day * DayLength
    BY <1>1, <2>1, DayIsUnique
  <2> QED BY <1>1, <2>2
<1>6. MinutesOfDay(z, PlacedOn(v, t).start) = v.start
  BY <1>1, <1>3, <1>5 DEF MinutesOfDay
<1>7. PlacedOn(v, t) = [start |-> PlacedOn(v, t).start, end |-> PlacedOn(v, t).end]
  BY DEF PlacedOn
<1> HIDE DEF a, b, z, day
<1>8. PlacedOn(v, t).start < PlacedOn(v, t).end
      /\ PlacedOn(v, t).end - PlacedOn(v, t).start = v.end - v.start
  BY <1>1, <1>2, <1>3, <1>4
<1> QED BY <1>1, <1>2, <1>6, <1>7, <1>8 DEF z

(* Two periods of one resource that overlap, whenever they were computed,   *)
(* are of one day, and share an hour in the dataset.                       *)
LEMMA PlacedApart ==
  ASSUME NEW u \in Range(Reservations), NEW s \in Instants,
         NEW v \in Range(Reservations), NEW t \in Instants,
         u.resource = v.resource, Overlaps(PlacedOn(u, s), PlacedOn(v, t))
  PROVE  PlannedDay(u, s) = PlannedDay(v, t) /\ Overlaps(u, v)
PROOF
<1> DEFINE z == ZoneOf(v)
           d == PlannedDay(u, s)
           a == d * DayLength + u.start
           b == d * DayLength + u.end
           e == PlannedDay(v, t)
           f == e * DayLength + v.start
           g == e * DayLength + v.end
<1>1. ZoneOf(u) = z
  BY DEF ZoneOf
<1>2. /\ z \in Zone /\ d \in Int /\ u.start \in Int /\ u.end \in Int /\ d * DayLength \in Int
      /\ a \in Int /\ b \in Int /\ a < b /\ d * DayLength <= a /\ b <= (d + 1) * DayLength
      /\ Whole(z, a, b)
      /\ PlacedOn(u, s).start = ToInstant(z, a) /\ PlacedOn(u, s).end = ToInstant(z, b)
  BY <1>1, PlanFacts
<1>3. /\ e \in Int /\ v.start \in Int /\ v.end \in Int /\ e * DayLength \in Int
      /\ f \in Int /\ g \in Int /\ f < g /\ e * DayLength <= f /\ g <= (e + 1) * DayLength
      /\ Whole(z, f, g)
      /\ PlacedOn(v, t).start = ToInstant(z, f) /\ PlacedOn(v, t).end = ToInstant(z, g)
  BY PlanFacts
<1>4. (d + 1) * DayLength \in Int /\ (e + 1) * DayLength \in Int
  BY <1>2, <1>3, WallClockAssumption
<1>5. a < g /\ f < b
  <2>1. /\ ToInstant(z, a) \in Int /\ ToInstant(z, b) \in Int
        /\ ToInstant(z, f) \in Int /\ ToInstant(z, g) \in Int
    BY <1>2, <1>3, WallType
  <2>2. ToInstant(z, a) < ToInstant(z, g) /\ ToInstant(z, f) < ToInstant(z, b)
    BY <1>2, <1>3 DEF Overlaps
  <2> HIDE DEF a, b, f, g, z
  <2>3. b <= f => ToInstant(z, b) <= ToInstant(z, f)
    BY <1>2, <1>3, StretchesInOrder
  <2>4. g <= a => ToInstant(z, g) <= ToInstant(z, a)
    BY <1>2, <1>3, StretchesInOrder
  <2> QED BY <1>2, <1>3, <2>1, <2>2, <2>3, <2>4
<1>6. ~(d < e) /\ ~(e < d)
  <2>1. d < e => (d + 1) * DayLength <= e * DayLength
    BY <1>2, <1>3, DaysInOrder
  <2>2. e < d => (e + 1) * DayLength <= d * DayLength
    BY <1>2, <1>3, DaysInOrder
  <2> HIDE DEF a, b, f, g, d, e
  <2> QED BY <1>2, <1>3, <1>4, <1>5, <2>1, <2>2
<1>7. d = e
  <2> HIDE DEF d, e
  <2> QED BY <1>2, <1>3, <1>6
<1>8. u.start < v.end /\ v.start < u.end
  <2>1. a = d * DayLength + u.start /\ b = d * DayLength + u.end
        /\ f = d * DayLength + v.start /\ g = d * DayLength + v.end
    BY <1>7
  <2> HIDE DEF a, b, d, f, g
  <2> QED BY <1>2, <1>3, <1>5, <2>1
<1> QED BY <1>7, <1>8 DEF Overlaps

-----------------------------------------------------------------------------
(* What a step does to the rows, and to a loader that it is not a step of.  *)

Alike(r, s) ==
  r.resource = s.resource /\ r.title = s.title /\ r.start = s.start /\ r.end = s.end

LEMMA RowsChange ==
  ASSUME TypeOK, OnTrack, [Next]_vars
  PROVE  \/ UNCHANGED rows
         \/ \E p \in Loaders : Load(p) /\ AddsRow(p)
         \/ \E new : rows' = rows \cup {new} /\ new.title = None
         \/ \E row \in rows : \E new : /\ rows' = (rows \ {row}) \cup {new}
                                     /\ Alike(row, new) /\ new.status = "CANCELLED"
PROOF
<1>1. ASSUME NEW p \in Loaders, Load(p)
      PROVE  UNCHANGED rows \/ AddsRow(p)
  BY <1>1, LoadKinds DEF CreatesAccount, Grants, CreatesResource, AddsWindow
<1>2. ASSUME NEW o \in Outside, Book(o)
      PROVE  \E new : rows' = rows \cup {new} /\ new.title = None
  BY <1>2 DEF Book
<1>3. ASSUME NEW row \in rows, Cancel(row)
      PROVE  \E new : /\ rows' = (rows \ {row}) \cup {new}
                      /\ Alike(row, new) /\ new.status = "CANCELLED"
  <2> DEFINE new == [row EXCEPT !.status = "CANCELLED"]
  <2>1. row \in Row
    BY DEF TypeOK
  <2>2. Alike(row, new) /\ new.status = "CANCELLED"
    BY <2>1 DEF Row, Alike
  <2>3. rows' = (rows \ {row}) \cup {new}
    BY <1>3 DEF Cancel
  <2> HIDE DEF new
  <2> QED BY <2>2, <2>3
<1>4. ASSUME \/ \E p \in Loaders : Launch(p) \/ Crash(p)
             \/ Migrate \/ Tick \/ Over \/ UNCHANGED vars
             \/ \E e \in SignUps : SignUp(e)
             \/ \E c \in Switched : Switch(c)
      PROVE  rows' = rows
  BY <1>4 DEF Launch, Crash, Migrate, Tick, Over, vars, tables, SignUp, Switch
<1> QED BY <1>1, <1>2, <1>3, <1>4 DEF Next

(* No row ever goes, or moves.                                             *)
LEMMA RowsStay ==
  ASSUME TypeOK, OnTrack, [Next]_vars, NEW r \in rows
  PROVE  \E s \in rows' : Alike(r, s)
PROOF
<1>1. Alike(r, r)
  BY DEF Alike
<1>2. CASE r \in rows'
  BY <1>1, <1>2
<1>3. CASE \E row \in rows : \E new : /\ rows' = (rows \ {row}) \cup {new}
                                    /\ Alike(row, new) /\ new.status = "CANCELLED"
  BY <1>1, <1>3
<1> QED BY <1>2, <1>3, RowsChange DEF AddsRow

LEMMA Bystander ==
  ASSUME TypeOK, OnTrack, [Next]_vars, NEW p \in Loaders, ~Load(p)
  PROVE  /\ at'[p] = at[p] /\ slot'[p] = slot[p]
         /\ run'[p] = run[p] \/ Launch(p) \/ Crash(p)
PROOF
<1>1. ASSUME NEW q \in Loaders, Load(q)
      PROVE  at'[p] = at[p] /\ slot'[p] = slot[p] /\ run'[p] = run[p]
  BY <1>1, LoaderMoves, SlotMoves, OthersKeep
<1>2. CASE \A q \in Loaders : ~Load(q)
  <2>1. ASSUME NEW q \in Loaders, Launch(q) \/ Crash(q)
        PROVE  UNCHANGED slot /\ (q # p => run'[p] = run[p])
    BY <2>1 DEF Launch, Crash, TypeOK
  <2>2. ASSUME \/ Migrate \/ Tick \/ Over \/ UNCHANGED vars
               \/ \E e \in SignUps : SignUp(e)
               \/ \E o \in Outside : Book(o)
               \/ \E row \in rows : Cancel(row)
               \/ \E c \in Switched : Switch(c)
        PROVE  UNCHANGED <<slot, run>>
    BY <2>2 DEF Migrate, Tick, Over, vars, SignUp, Book, Cancel, Switch
  <2>3. at' = at
    BY <1>2, OthersStand
  <2> QED BY <1>2, <2>1, <2>2, <2>3 DEF Next
<1> QED BY <1>1, <1>2

LEMMA MetGrows ==
  ASSUME TypeOK, OnTrack, [Next]_vars
  PROVE  /\ met \subseteq met'
         /\ (\A p \in Loaders : ~Launch(p)) => met' = met
PROOF
<1>1. ASSUME NEW p \in Loaders, Load(p)
      PROVE  met' = met
  BY <1>1, LoaderMoves
<1>2. ASSUME NEW p \in Loaders, Launch(p)
      PROVE  met \subseteq met'
  BY <1>2 DEF Launch
<1>3. ASSUME \/ \E p \in Loaders : Crash(p)
             \/ Migrate \/ Tick \/ Over \/ UNCHANGED vars
             \/ \E e \in SignUps : SignUp(e)
             \/ \E o \in Outside : Book(o)
             \/ \E row \in rows : Cancel(row)
             \/ \E c \in Switched : Switch(c)
      PROVE  met' = met
  BY <1>3 DEF Crash, Migrate, Tick, Over, vars, SignUp, Book, Cancel, Switch
<1> QED BY <1>1, <1>2, <1>3 DEF Next

(* How a loader comes to stand before an INSERT INTO reservation: it found  *)
(* no such row, or the INSERT was refused.                                 *)
LEMMA ReachesInsert ==
  ASSUME TypeOK, OnTrack, NEW p \in Loaders, Load(p),
         at'[p].step = "insert", run'[p] # "loaded"
  PROVE  /\ at'[p].n = at[p].n /\ at[p].n \in DOMAIN Reservations /\ UNCHANGED rows
         /\ \/ /\ run'[p] = "running" /\ slot'[p] = Placed(Reservation(p))
               /\ ~AlreadyThere(Reservation(p), slot'[p])
            \/ /\ run'[p] = "failed" /\ at'[p] = at[p] /\ slot'[p] = slot[p]
               /\ Stands(p, "insert") /\ Refused(NewRow(p))
PROOF
<1>1. at[p] \in Position /\ at \in [Loaders -> Position]
      /\ run \in [Loaders -> {"off", "running", "loaded", "failed", "crashed"}]
      /\ slot \in [Loaders -> [start : Int, end : Int] \cup {None}]
  BY DEF TypeOK, Position
<1>2. ASSUME NEW step, GoesOn(p, step)
      PROVE  at'[p].step = step
  BY <1>1, <1>2 DEF GoesOn, Position
<1>3. ~FindUser(p) /\ ~CreateAccount(p) /\ ~GrantRole(p)
  <2>1. ASSUME FindUser(p) \/ CreateAccount(p) \/ GrantRole(p)
        PROVE  at'[p].step \in InUsers \cup {"type"}
    <3>1. \/ Stays(p) /\ at[p].step \in InUsers
          \/ GoesOn(p, "account") \/ GoesOn(p, "role") \/ Advances(p, Users, "user", "type")
      BY <2>1, UserMoves
    <3> QED BY <1>1, <1>2, <3>1 DEF Stays, Advances, InUsers
  <2> QED BY <2>1 DEF InUsers
<1>4. ~FindType(p) /\ ~InsertResource(p) /\ ~InsertWindow(p)
  <2>1. ASSUME FindType(p) \/ InsertResource(p) \/ InsertWindow(p)
        PROVE  at'[p].step \in InResources \cup {"find"}
    <3>1. \/ Stays(p) /\ at[p].step \in InResources
          \/ GoesOn(p, "resource") \/ GoesOn(p, "window")
          \/ at[p].step \in InResources /\ at'[p] = [at[p] EXCEPT !.w = at[p].w + 1]
          \/ Advances(p, Resources, "type", "find")
      BY <2>1, ResourceMoves
    <3>2. at'[p] = [at[p] EXCEPT !.w = at[p].w + 1] => at'[p].step = at[p].step
      BY <1>1 DEF Position
    <3> QED BY <1>1, <1>2, <3>1, <3>2 DEF Stays, Advances, InResources
  <2> QED BY <2>1 DEF InResources
<1>5. ASSUME NextReservation(p)
      PROVE  at'[p].step = "find" \/ run'[p] = "loaded"
  BY <1>1, <1>5 DEF NextReservation, Iterate, Position
<1>6. CASE FindReservation(p)
  <2>1. at[p].n \in DOMAIN Reservations /\ run[p] = "running"
    BY <1>6 DEF FindReservation, Stands, OnTrack, InReservations
  <2>2. /\ ~AlreadyThere(Reservation(p), Placed(Reservation(p)))
        /\ slot' = [slot EXCEPT ![p] = Placed(Reservation(p))]
        /\ Goto(p, "insert") /\ UNCHANGED rows
    BY <1>5, <1>6 DEF FindReservation, tables
  <2>3. slot'[p] = Placed(Reservation(p))
    BY <1>1, <2>2
  <2>4. at'[p].n = at[p].n /\ run'[p] = run[p]
    BY <1>1, <2>2 DEF Goto, Position
  <2> QED BY <2>1, <2>2, <2>3, <2>4
<1>7. CASE InsertReservation(p)
  <2>1. at[p].n \in DOMAIN Reservations /\ Stands(p, "insert")
    BY <1>7 DEF InsertReservation, Stands, OnTrack, InReservations
  <2>2. Refused(NewRow(p)) /\ Fail(p) /\ UNCHANGED <<rows, slot>>
    BY <1>5, <1>7 DEF InsertReservation
  <2> QED BY <1>1, <2>1, <2>2 DEF Fail
<1> QED BY <1>3, <1>4, <1>6, <1>7 DEF Load

-----------------------------------------------------------------------------
(* An inductive invariant: where rows and loaders' periods come from, and   *)
(* which loaders know of each other.                                       *)

(* A row with a title is a reservation of the dataset, where a loader put   *)
(* it that read the clock at some time; no cancelled one is confirmed.     *)
FromDataset(r, v, t) ==
  /\ r.title = v.title /\ r.resource = v.resource
  /\ r.start = PlacedOn(v, t).start /\ r.end = PlacedOn(v, t).end
  /\ r.status = "CONFIRMED" => ~v.cancelled

RowsPlaced ==
  \A r \in rows : r.title # None =>
    \E v \in Range(Reservations), t \in Instants : FromDataset(r, v, t)

(* So is the period that a loader is about to insert, or failed to.         *)
SlotsPlaced ==
  \A p \in Loaders : at[p].step = "insert" /\ run[p] # "loaded" =>
    \E t \in Instants : slot[p] = PlacedOn(Reservation(p), t)

(* Two loaders that run have met, and one that has not been launched stands *)
(* at its first statement.                                                 *)
Together ==
  /\ \A p, q \in Loaders :
       p # q /\ run[p] = "running" /\ run[q] = "running" => {p, q} \in met
  /\ \A p \in Loaders : run[p] = "off" => at[p].step = "user"

(* A row that a loader did not find, and is there when it inserts, is the   *)
(* work of a loader it has met.                                            *)
Raced ==
  \A p \in Loaders :
    Stands(p, "insert") /\ AlreadyThere(Reservation(p), slot[p]) =>
      \E q \in Loaders : {p, q} \in met

Alone(p) == \A q \in Loaders : {p, q} \notin met

(* A loader that has met no other, after a load, finds what it looks for.   *)
NothingToCreate ==
  \A p, q \in Loaders :
    run[p] = "running" /\ Alone(p) /\ run[q] = "loaded" =>
      at[p].step \notin {"account", "role", "window"}

Loading == RowsPlaced /\ SlotsPlaced /\ Together /\ Raced /\ NothingToCreate

LEMMA LoadingInit == Init => Loading
PROOF BY DEF Init, Loading, RowsPlaced, SlotsPlaced, Together, Raced, NothingToCreate, Stands

LEMMA RowsPlacedStep ==
  ASSUME TypeOK, OnTrack, RowsPlaced, SlotsPlaced, [Next]_vars
  PROVE  RowsPlaced'
PROOF
<1> SUFFICES ASSUME NEW r \in rows', r.title # None
             PROVE  \E v \in Range(Reservations), t \in Instants : FromDataset(r, v, t)
  BY DEF RowsPlaced, FromDataset, PlacedOn
<1>1. CASE r \in rows
  BY <1>1 DEF RowsPlaced
<1>2. ASSUME NEW p \in Loaders, AddsRow(p), r = NewRow(p)
      PROVE  \E v \in Range(Reservations), t \in Instants : FromDataset(r, v, t)
  <2>1. PICK t \in Instants : slot[p] = PlacedOn(Reservation(p), t)
    BY <1>2 DEF SlotsPlaced, AddsRow, Stands
  <2>2. Reservation(p) \in Range(Reservations)
    BY <1>2, ReservationFacts DEF AddsRow, Stands, OnTrack, InReservations, Reservation
  <2>3. FromDataset(r, Reservation(p), t)
    BY <1>2, <2>1 DEF NewRow, FromDataset
  <2> QED BY <2>2, <2>3
<1>3. ASSUME NEW row \in rows, Alike(row, r), r.status = "CANCELLED"
      PROVE  \E v \in Range(Reservations), t \in Instants : FromDataset(r, v, t)
  <2>1. PICK v \in Range(Reservations), t \in Instants : FromDataset(row, v, t)
    BY <1>3 DEF RowsPlaced, Alike
  <2>2. FromDataset(r, v, t)
    BY <1>3, <2>1 DEF FromDataset, Alike
  <2> QED BY <2>2
<1> QED BY <1>1, <1>2, <1>3, RowsChange DEF AddsRow

LEMMA SlotsPlacedStep ==
  ASSUME TypeOK, OnTrack, SlotsPlaced, [Next]_vars
  PROVE  SlotsPlaced'
PROOF
<1> SUFFICES ASSUME NEW p \in Loaders, at'[p].step = "insert", run'[p] # "loaded"
             PROVE  \E t \in Instants : slot'[p] = PlacedOn(Reservation(p)', t)
  BY DEF SlotsPlaced, PlacedOn
<1>1. CASE Load(p)
  <2>1. Reservation(p)' = Reservation(p) /\ now \in Instants
    BY <1>1, ReachesInsert DEF Reservation, TypeOK
  <2>2. CASE slot'[p] = Placed(Reservation(p))
    BY <2>1, <2>2, PlacedNow
  <2>3. CASE Stands(p, "insert") /\ slot'[p] = slot[p]
    BY <2>1, <2>3 DEF SlotsPlaced, Stands
  <2> QED BY <1>1, <2>2, <2>3, ReachesInsert
<1>2. CASE ~Load(p)
  <2>1. at'[p] = at[p] /\ slot'[p] = slot[p] /\ (run'[p] = run[p] \/ Launch(p) \/ Crash(p))
    BY <1>2, Bystander
  <2>2. run[p] # "loaded"
    BY <2>1 DEF Launch, Crash
  <2>3. Reservation(p)' = Reservation(p)
    BY <2>1 DEF Reservation
  <2> QED BY <2>1, <2>2, <2>3 DEF SlotsPlaced
<1> QED BY <1>1, <1>2

LEMMA TogetherStep ==
  ASSUME TypeOK, OnTrack, Together, [Next]_vars
  PROVE  Together'
PROOF
<1>1. ASSUME NEW p \in Loaders, run'[p] = "running"
      PROVE  run[p] = "running" \/ Launch(p)
  <2>1. CASE Load(p)
    BY <2>1, LoaderMoves DEF Moves
  <2>2. CASE ~Load(p)
    BY <1>1, <2>2, Bystander DEF Crash
  <2> QED BY <2>1, <2>2
<1>2. ASSUME NEW p \in Loaders, NEW q \in Loaders, p # q,
             run'[p] = "running", run'[q] = "running"
      PROVE  {p, q} \in met'
  <2>1. CASE run[p] = "running" /\ run[q] = "running"
    BY <1>2, <2>1, MetGrows DEF Together
  <2>2. ASSUME NEW o \in Loaders, NEW other \in Loaders, o # other, Launch(o),
               run'[other] = "running"
        PROVE  {o, other} \in met'
    <3>1. run[other] = "running"
      BY <2>2 DEF Launch, TypeOK
    <3>2. met' = met \cup {{o, x} : x \in {x \in Loaders : run[x] = "running"}}
      BY <2>2 DEF Launch
    <3> QED BY <3>1, <3>2
  <2>3. {p, q} = {q, p}
    OBVIOUS
  <2> QED BY <1>1, <1>2, <2>1, <2>2, <2>3
<1>3. ASSUME NEW p \in Loaders, run'[p] = "off"
      PROVE  at'[p].step = "user"
  <2>1. ~Load(p)
    <3>1. ASSUME Load(p) PROVE run'[p] # "off"
      BY <3>1, LoaderMoves DEF Moves, TypeOK
    <3> QED BY <1>3, <3>1
  <2>2. at'[p] = at[p] /\ (run'[p] = run[p] \/ Launch(p) \/ Crash(p))
    BY <2>1, Bystander
  <2>3. run'[p] = run[p]
    BY <1>3, <2>2 DEF Launch, Crash, TypeOK
  <2> QED BY <1>3, <2>2, <2>3 DEF Together
<1> QED BY <1>2, <1>3 DEF Together

LEMMA RacedStep ==
  ASSUME TypeOK, OnTrack, Together, Raced, [Next]_vars
  PROVE  Raced'
PROOF
<1> SUFFICES ASSUME NEW p \in Loaders, at'[p].step = "insert", run'[p] = "running",
                    AlreadyThere(Reservation(p), slot[p])'
             PROVE  \E q \in Loaders : {p, q} \in met'
  BY DEF Raced, Stands
<1>1. CASE Load(p)
  <2>1. Reservation(p)' = Reservation(p) /\ UNCHANGED rows
        /\ ~AlreadyThere(Reservation(p), slot'[p])
    BY <1>1, ReachesInsert DEF Reservation
  <2> QED BY <2>1 DEF AlreadyThere
<1>2. CASE ~Load(p)
  <2>1. at'[p] = at[p] /\ slot'[p] = slot[p] /\ run[p] = "running"
    <3>1. at'[p] = at[p] /\ slot'[p] = slot[p] /\ (run'[p] = run[p] \/ Launch(p) \/ Crash(p))
      BY <1>2, Bystander
    <3>2. ~Launch(p)
      BY <3>1 DEF Launch, Together
    <3>3. Crash(p) => run'[p] = "crashed"
      BY DEF Crash, TypeOK
    <3> QED BY <3>1, <3>2, <3>3
  <2>2. Reservation(p)' = Reservation(p) /\ Stands(p, "insert")
        /\ Reservation(p).title # None
    <3>1. Reservation(p)' = Reservation(p) /\ Stands(p, "insert")
      BY <2>1 DEF Reservation, Stands
    <3> QED BY <3>1, ReservationFacts DEF Reservation, Stands, OnTrack, InReservations
  <2>3. PICK r \in rows' : /\ r.resource = Reservation(p).resource
                           /\ r.title = Reservation(p).title /\ r.start = slot[p].start
    BY <2>1, <2>2 DEF AlreadyThere
  <2>4. CASE \E row \in rows : Alike(row, r)
    BY <2>2, <2>3, <2>4, MetGrows DEF Alike, AlreadyThere, Raced
  <2>5. ASSUME NEW q \in Loaders, Load(q)
        PROVE  {p, q} \in met'
    BY <1>2, <2>1, <2>5, LoaderMoves, MetGrows DEF Moves, Together
  <2>6. r \in rows => Alike(r, r)
    BY DEF Alike
  <2>7. CASE r \notin rows
    <3>1. \/ \E q \in Loaders : Load(q)
          \/ r.title = None
          \/ \E row \in rows : Alike(row, r)
      BY <2>7, RowsChange
    <3> QED BY <2>2, <2>3, <2>4, <2>5, <3>1
  <2> QED BY <2>4, <2>6, <2>7
<1> QED BY <1>1, <1>2

(* A statement of a loader that is alone, after a load.                     *)
LEMMA LoadAgain ==
  ASSUME TypeOK, OnTrack, CompleteUnlessBrokenOff, NothingToCreate,
         NEW p \in Loaders, NEW q \in Loaders, Load(p), Alone(p), run[q] = "loaded"
  PROVE  /\ UNCHANGED <<accounts, resources>>
         /\ at'[p].step \notin {"account", "role", "window"}
PROOF
<1>1. at[p] \in Position /\ at \in [Loaders -> Position] /\ run[p] = "running"
  BY LoaderMoves DEF TypeOK, Position, Moves
<1>2. at[p].step \notin {"account", "role", "window"}
  BY <1>1 DEF NothingToCreate
<1>3. /\ \A n \in DOMAIN Users : accounts[Users[n].email] # None
      /\ \A n \in DOMAIN Resources : resources[Resources[n].code] # None
  BY DEF CompleteUnlessBrokenOff
<1>4. ASSUME NEW step, NEW data, NEW next, Iterate(p, step, data, next)
      PROVE  at'[p].step \in {step, next}
  BY <1>1, <1>4 DEF Iterate, Position
<1>5. CASE FindUser(p) \/ CreateAccount(p) \/ GrantRole(p)
  <2>1. FindUser(p) /\ at[p].n \in DOMAIN Users
    BY <1>2, <1>5 DEF FindUser, CreateAccount, GrantRole, Stands, OnTrack, InUsers
  <2>2. Iterate(p, "user", Users, "type") /\ UNCHANGED <<accounts, resources>>
    BY <1>3, <2>1 DEF FindUser, User, tables
  <2> QED BY <1>4, <2>2
<1>6. CASE FindType(p)
  <2>1. UNCHANGED <<accounts, resources>> /\ (Goto(p, "resource") \/ Fail(p))
    BY <1>6 DEF FindType, tables
  <2> QED BY <1>1, <1>2, <2>1 DEF Goto, Fail, Position
<1>7. CASE InsertResource(p) \/ InsertWindow(p)
  <2>1. InsertResource(p) /\ at[p].n \in DOMAIN Resources
    BY <1>2, <1>7 DEF InsertResource, InsertWindow, Stands, OnTrack, InResources
  <2>2. Iterate(p, "type", Resources, "find") /\ UNCHANGED <<accounts, resources>>
    BY <1>3, <2>1 DEF InsertResource, Resource
  <2> QED BY <1>4, <2>2
<1>8. CASE FindReservation(p) \/ InsertReservation(p)
  BY <1>8, ReservationMoves DEF InReservations
<1> QED BY <1>5, <1>6, <1>7, <1>8 DEF Load

LEMMA NothingToCreateStep ==
  ASSUME TypeOK, OnTrack, CompleteUnlessBrokenOff, Together, NothingToCreate, [Next]_vars
  PROVE  NothingToCreate'
PROOF
<1> SUFFICES ASSUME NEW p \in Loaders, NEW q \in Loaders, run'[p] = "running",
                    \A o \in Loaders : {p, o} \notin met', run'[q] = "loaded"
             PROVE  at'[p].step \notin {"account", "role", "window"}
  BY DEF NothingToCreate, Alone
<1>1. Alone(p) /\ p # q
  BY MetGrows DEF Alone
<1>2. CASE Load(p)
  <2>1. run[q] = "loaded"
    BY <1>1, <1>2, LoaderMoves, OthersKeep
  <2> QED BY <1>1, <1>2, <2>1, LoadAgain
<1>3. CASE ~Load(p)
  <2>1. at'[p] = at[p] /\ (run'[p] = run[p] \/ Launch(p) \/ Crash(p))
    BY <1>3, Bystander
  <2>2. CASE Launch(p)
    BY <2>1, <2>2 DEF Launch, Together
  <2>3. CASE run[p] = "running"
    <3>1. ~Load(q)
      <4>1. ASSUME Load(q) PROVE run[q] = "running"
        BY <4>1, LoaderMoves DEF Moves
      <4> QED BY <1>1, <2>3, <4>1 DEF Together, Alone
    <3>2. run'[q] = run[q] \/ Launch(q) \/ Crash(q)
      BY <3>1, Bystander
    <3>3. run[q] = "loaded"
      BY <3>2 DEF Launch, Crash, TypeOK
    <3> QED BY <1>1, <2>1, <2>3, <3>3 DEF NothingToCreate
  <2>4. Crash(p) => run[p] = "running"
    BY DEF Crash
  <2> QED BY <2>1, <2>2, <2>3, <2>4
<1> QED BY <1>2, <1>3

LEMMA LoadingStep ==
  TypeOK /\ OnTrack /\ CompleteUnlessBrokenOff /\ Loading /\ [Next]_vars => Loading'
PROOF BY RowsPlacedStep, SlotsPlacedStep, TogetherStep, RacedStep, NothingToCreateStep
      DEF Loading

LEMMA AlwaysLoading == Spec => []Loading
PROOF BY LoadingInit, LoadingStep, Invariants, CompleteWhenLoaded, PTL DEF Spec

-----------------------------------------------------------------------------
(* What follows from it. *)

(* Every reservation is loaded at the hour of the dataset on the wall of    *)
(* its resource, and lasts as long, whenever and on whichever side of a    *)
(* change of the clock it was computed, and whoever inserted or cancelled. *)
THEOREM LoadedOnTheHour == Spec => []OnTheHour
PROOF
<1>1. Loading => OnTheHour
  <2> SUFFICES ASSUME RowsPlaced, NEW r \in rows, NEW v \in Range(Reservations),
                      r.title = v.title
               PROVE  /\ MinutesOfDay(ZoneOf(v), r.start) = v.start
                      /\ r.end - r.start = v.end - v.start
    BY DEF Loading, OnTheHour
  <2>1. PICK n \in DOMAIN Reservations : v = Reservations[n]
    BY DEF Range
  <2>2. r.title # None
    BY <2>1, ReservationFacts
  <2>3. PICK u \in Range(Reservations), t \in Instants : FromDataset(r, u, t)
    BY <2>2 DEF RowsPlaced
  <2>4. PICK m \in DOMAIN Reservations : u = Reservations[m]
    BY DEF Range
  <2>5. u = v
    BY <2>1, <2>3, <2>4, DatasetAssumption DEF FromDataset
  <2> QED BY <2>3, <2>5, PlacedHours DEF FromDataset
<1> QED BY <1>1, AlwaysLoading, PTL

(* A loader that runs alone after a load adds no account, no resource and   *)
(* no schedule, and no reservation a second time for the same day.         *)
THEOREM SecondLoadAddsNothing == Spec => TwiceIsOnce
PROOF
<1>1. ASSUME TypeOK, OnTrack, CompleteUnlessBrokenOff, Loading,
             NEW p \in Loaders, NEW q \in Loaders, Load(p), run[q] = "loaded", Alone(p)
      PROVE  /\ UNCHANGED <<accounts, resources>>
             /\ \A r \in rows' \ rows, old \in rows :
                  old.resource = r.resource /\ old.title = r.title => old.start # r.start
  <2>1. UNCHANGED <<accounts, resources>>
    BY <1>1, LoadAgain DEF Loading
  <2>2. CASE UNCHANGED rows
    BY <2>1, <2>2
  <2>3. CASE AddsRow(p)
    <3>1. ~AlreadyThere(Reservation(p), slot[p])
      BY <1>1, <2>3 DEF Loading, Raced, AddsRow, Alone
    <3>2. /\ NewRow(p).resource = Reservation(p).resource
          /\ NewRow(p).title = Reservation(p).title /\ NewRow(p).start = slot[p].start
      BY <1>1, <2>3, NewRowFacts DEF AddsRow
    <3>3. \A r \in rows' \ rows : r = NewRow(p)
      BY <2>3 DEF AddsRow
    <3>4. ASSUME NEW old \in rows, old.resource = NewRow(p).resource,
                 old.title = NewRow(p).title, old.start = NewRow(p).start
          PROVE  FALSE
      BY <3>1, <3>2, <3>4 DEF AlreadyThere
    <3> QED BY <2>1, <3>3, <3>4
  <2> QED BY <1>1, <2>2, <2>3, LoadKinds
          DEF CreatesAccount, Grants, CreatesResource, AddsWindow
<1>2. TypeOK /\ OnTrack /\ CompleteUnlessBrokenOff /\ Loading /\ [Next]_vars =>
        [\A p, q \in Loaders :
           Load(p) /\ run[q] = "loaded" /\ (\A o \in Loaders : {p, o} \notin met) =>
             /\ UNCHANGED <<accounts, resources>>
             /\ \A r \in rows' \ rows, old \in rows :
                  old.resource = r.resource /\ old.title = r.title => old.start # r.start
        ]_vars
  BY <1>1 DEF Alone
<1> QED BY <1>2, Invariants, CompleteWhenLoaded, AlwaysLoading, PTL DEF Spec, TwiceIsOnce

-----------------------------------------------------------------------------
(* Failures. *)

Explained(p) ==
  \/ at[p].step = "type"
  \/ at[p].step = "account" /\ accounts[User(p).email] # None
  \/ /\ at[p].step = "insert"
     /\ \E r \in rows :
          /\ r.resource = Reservation(p).resource /\ Overlaps(r, slot[p])
          /\ \/ r.title = None
             \/ /\ r.title = Reservation(p).title
                /\ \E q \in Loaders : {p, q} \in met

(* Where a loader fails. *)
LEMMA FailsAt ==
  ASSUME TypeOK, OnTrack, NEW p \in Loaders, Load(p), run'[p] = "failed"
  PROVE  /\ at'[p] = at[p] /\ slot'[p] = slot[p]
         /\ \/ at[p].step = "type"
            \/ /\ at[p].step = "account" /\ accounts[User(p).email] # None
               /\ UNCHANGED accounts
            \/ Stands(p, "insert") /\ Refused(NewRow(p)) /\ UNCHANGED rows
PROOF
<1>1. /\ run \in [Loaders -> {"off", "running", "loaded", "failed", "crashed"}]
      /\ run[p] = "running"
  BY LoaderMoves DEF TypeOK, Moves
<1>2. \A step, data, next : ~Iterate(p, step, data, next)
  BY <1>1 DEF Iterate
<1>3. \A step : ~Goto(p, step)
  BY <1>1 DEF Goto
<1>4. ~NextReservation(p)
  BY <1>1, <1>2 DEF NextReservation
<1>5. CASE FindUser(p) \/ GrantRole(p) \/ InsertWindow(p)
  BY <1>1, <1>2, <1>3, <1>5 DEF FindUser, GrantRole, InsertWindow
<1>6. CASE CreateAccount(p)
  BY <1>2, <1>3, <1>6 DEF CreateAccount, Fail, Stands
<1>7. CASE FindType(p)
  BY <1>3, <1>7 DEF FindType, Fail, Stands
<1>8. CASE InsertResource(p)
  BY <1>2, <1>3, <1>8 DEF InsertResource, AfterResource
<1>9. CASE FindReservation(p)
  BY <1>3, <1>4, <1>9 DEF FindReservation
<1>10. CASE InsertReservation(p)
  BY <1>4, <1>10 DEF InsertReservation, Fail
<1> QED BY <1>5, <1>6, <1>7, <1>8, <1>9, <1>10 DEF Load

(* What refuses the period of a loader: a booking of somebody else, or the  *)
(* same reservation, which came between its two statements.                *)
LEMMA RefusedBy ==
  ASSUME TypeOK, OnTrack, Loading, NEW p \in Loaders, Stands(p, "insert"), Refused(NewRow(p))
  PROVE  Explained(p)
PROOF
<1> DEFINE v == Reservation(p)
<1>1. at[p].step = "insert" /\ v \in Range(Reservations)
  BY ReservationFacts DEF Stands, OnTrack, InReservations, Reservation
<1>2. PICK t \in Instants : slot[p] = PlacedOn(v, t)
  BY DEF Loading, SlotsPlaced, Stands
<1>3. slot[p] \in [start : Int, end : Int] /\ slot[p].start < slot[p].end
  BY <1>1, <1>2, PlacedHours
<1>4. Excluded(NewRow(p)) /\ ~v.cancelled
  BY <1>3 DEF Refused, NewRow, Excluded
<1>5. PICK r \in rows : /\ r.resource = v.resource /\ r.status = "CONFIRMED"
                        /\ Overlaps(r, slot[p])
  BY <1>4 DEF Excluded, NewRow, Overlaps
<1>6. CASE r.title = None
  BY <1>1, <1>5, <1>6 DEF Explained
<1>7. CASE r.title # None
  <2>1. PICK u \in Range(Reservations), s \in Instants : FromDataset(r, u, s)
    BY <1>7 DEF Loading, RowsPlaced
  <2>2. u.resource = v.resource /\ ~u.cancelled /\ Overlaps(PlacedOn(u, s), PlacedOn(v, t))
    BY <1>2, <1>5, <2>1 DEF FromDataset, Overlaps
  <2>3. PlannedDay(u, s) = PlannedDay(v, t) /\ Overlaps(u, v)
    BY <1>1, <2>2, PlacedApart
  <2>4. u = v
    BY <1>1, <1>4, <2>2, <2>3, DatasetAssumption
  <2>5. r.title = v.title /\ r.start = slot[p].start
    BY <1>2, <2>1, <2>3, <2>4 DEF FromDataset, PlacedOn
  <2>6. AlreadyThere(v, slot[p])
    BY <1>5, <2>5 DEF AlreadyThere
  <2>7. \E q \in Loaders : {p, q} \in met
    BY <2>6 DEF Loading, Raced
  <2> QED BY <1>1, <1>5, <2>5, <2>7 DEF Explained
<1> QED BY <1>6, <1>7

LEMMA ExplainedStays ==
  ASSUME TypeOK, OnTrack, [Next]_vars, NEW p \in Loaders, Explained(p),
         at'[p] = at[p], slot'[p] = slot[p]
  PROVE  Explained(p)'
PROOF
<1>1. User(p)' = User(p) /\ Reservation(p)' = Reservation(p)
  BY DEF User, Reservation
<1>2. CASE at[p].step = "type"
  BY <1>2 DEF Explained
<1>3. CASE at[p].step = "account" /\ accounts[User(p).email] # None
  <2>1. User(p).email \in Emails
    BY <1>3, DataFacts DEF OnTrack, InUsers, User
  <2>2. accounts'[User(p).email] # None
    BY <1>3, <2>1, TablesGrow
  <2> QED BY <1>1, <1>3, <2>2 DEF Explained
<1>4. ASSUME NEW r \in rows, at[p].step = "insert",
             r.resource = Reservation(p).resource, Overlaps(r, slot[p]),
             \/ r.title = None
             \/ r.title = Reservation(p).title /\ \E q \in Loaders : {p, q} \in met
      PROVE  Explained(p)'
  <2>1. PICK s \in rows' : Alike(r, s)
    BY RowsStay
  <2>2. Overlaps(s, slot[p])
    BY <1>4, <2>1 DEF Alike, Overlaps
  <2>3. met \subseteq met'
    BY MetGrows
  <2> QED BY <1>1, <1>4, <2>1, <2>2, <2>3 DEF Explained, Alike, Overlaps
<1> QED BY <1>2, <1>3, <1>4 DEF Explained

(* A loader fails for want of a type, or because somebody took an address   *)
(* or inserted the same reservation under its hands, or against a booking  *)
(* of somebody else, and never against the dataset itself.                 *)
THEOREM EveryFailureExplained == Spec => []FailuresExplained
PROOF
<1>1. FailuresExplained <=> \A p \in Loaders : run[p] = "failed" => Explained(p)
  BY DEF FailuresExplained, Explained
<1>2. Init => FailuresExplained
  BY DEF Init, FailuresExplained
<1>3. ASSUME TypeOK, OnTrack, Loading, FailuresExplained, [Next]_vars
      PROVE  FailuresExplained'
  <2> SUFFICES ASSUME NEW p \in Loaders, run'[p] = "failed"
               PROVE  Explained(p)'
    BY DEF FailuresExplained, Explained
  <2>1. CASE Load(p)
    <3>1. Explained(p)
      BY <1>3, <2>1, FailsAt, RefusedBy DEF Explained
    <3> QED BY <1>3, <2>1, <3>1, FailsAt, ExplainedStays
  <2>2. CASE ~Load(p)
    <3>1. at'[p] = at[p] /\ slot'[p] = slot[p] /\ (run'[p] = run[p] \/ Launch(p) \/ Crash(p))
      BY <1>3, <2>2, Bystander
    <3>2. run'[p] = run[p]
      BY <1>3, <3>1 DEF Launch, Crash, TypeOK
    <3> QED BY <1>1, <1>3, <3>1, <3>2, ExplainedStays
  <2> QED BY <2>1, <2>2
<1> QED BY <1>2, <1>3, Invariants, AlwaysLoading, PTL DEF Spec

=============================================================================
