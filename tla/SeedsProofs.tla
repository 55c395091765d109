----------------------------- MODULE SeedsProofs -----------------------------
(***************************************************************************)
(* Proofs about the loader of demonstration data, for every dataset, every *)
(* number of its runs, at the same time or one after another, interrupted  *)
(* anywhere.                                                               *)
(***************************************************************************)
EXTENDS Seeds, TLAPS

Position ==
  [step : InUsers \cup InResources \cup InReservations, n : Nat \ {0}, w : Nat \ {0}]

(* The dataset, item by item. *)
LEMMA DataFacts ==
  /\ Len(Users) \in Nat /\ DOMAIN Users = 1 .. Len(Users) /\ Len(Users) >= 1
  /\ Len(Resources) \in Nat /\ DOMAIN Resources = 1 .. Len(Resources) /\ Len(Resources) >= 1
  /\ /\ Len(Reservations) \in Nat
     /\ DOMAIN Reservations = 1 .. Len(Reservations) /\ Len(Reservations) >= 1
  /\ \A n \in DOMAIN Users : /\ Users[n].email \in Emails
                             /\ Users[n].role \in {"admin", "user"}
PROOF
<1>1. /\ Users \in Seq(Range(Users)) /\ Users # <<>>
      /\ Resources \in Seq(Range(Resources)) /\ Resources # <<>>
      /\ Reservations \in Seq(Range(Reservations)) /\ Reservations # <<>>
  BY SeedsAssumption
<1>2. ASSUME NEW S, NEW seq \in Seq(S), seq # <<>>
      PROVE  Len(seq) \in Nat /\ DOMAIN seq = 1 .. Len(seq) /\ Len(seq) >= 1
  BY <1>2
<1>3. \A n \in DOMAIN Users : Users[n] \in Range(Users)
  BY DEF Range
<1> QED BY <1>1, <1>2, <1>3, SeedsAssumption DEF Emails

LEMMA ResourceFacts ==
  ASSUME NEW n \in DOMAIN Resources
  PROVE  /\ Resources[n].code \in Codes
         /\ Resources[n].isActive \in BOOLEAN
         /\ Resources[n].timeZone \in {r.timeZone : r \in Range(Resources)}
         /\ Len(Resources[n].schedule) \in Nat
         /\ DOMAIN Resources[n].schedule = 1 .. Len(Resources[n].schedule)
         /\ Resources[n].schedule # <<>> => Len(Resources[n].schedule) >= 1
         /\ Range(Resources[n].schedule) \subseteq OpeningWindow
PROOF
<1>1. Resources[n] \in Range(Resources)
  BY DEF Range
<1>2. /\ Resources[n].schedule \in Seq(Range(Resources[n].schedule))
      /\ Range(Resources[n].schedule) \subseteq OpeningWindow
      /\ Resources[n].isActive \in BOOLEAN
  BY <1>1, SeedsAssumption
<1>3. ASSUME NEW S, NEW seq \in Seq(S)
      PROVE  Len(seq) \in Nat /\ DOMAIN seq = 1 .. Len(seq) /\ (seq # <<>> => Len(seq) >= 1)
  OBVIOUS
<1> QED BY <1>1, <1>2, <1>3 DEF Codes

LEMMA ReservationFacts ==
  ASSUME NEW n \in DOMAIN Reservations
  PROVE  /\ Reservations[n] \in Range(Reservations)
         /\ Reservations[n].resource \in Codes
         /\ Reservations[n].title \in Titles /\ Reservations[n].title # None
PROOF
<1>1. Reservations[n] \in Range(Reservations)
  BY DEF Range
<1> QED BY <1>1, SeedsAssumption DEF Titles

(* One iteration of a loop. *)
LEMMA Iteration ==
  ASSUME NEW p \in Loaders, NEW step, NEW next, NEW data,
         at \in [Loaders -> Position], run \in [Loaders -> {"off", "running", "loaded",
                                                            "failed", "crashed"}],
         Len(data) \in Nat, DOMAIN data = 1 .. Len(data), at[p].n \in DOMAIN data,
         Iterate(p, step, data, next)
  PROVE  /\ run' = run
         /\ \A q \in Loaders : q # p => at'[q] = at[q]
         /\ \/ /\ at[p].n < Len(data) /\ at[p].n + 1 \in DOMAIN data
               /\ at'[p] = [step |-> step, n |-> at[p].n + 1, w |-> 1]
            \/ /\ at[p].n = Len(data)
               /\ at'[p] = [step |-> next, n |-> 1, w |-> 1]
         /\ at' = [at EXCEPT ![p] = at'[p]]
PROOF BY DEF Iterate, Position

-----------------------------------------------------------------------------
(* What each statement of the loader does to the tables. *)

CreatesAccount(p) ==
  /\ Stands(p, "account") /\ accounts[User(p).email] = None
  /\ accounts' = [accounts EXCEPT ![User(p).email] = [role |-> "user", seeded |-> TRUE]]
  /\ UNCHANGED <<resources, rows>>

Grants(p) ==
  /\ Stands(p, "role")
  /\ accounts' = [accounts EXCEPT ![User(p).email].role = User(p).role]
  /\ UNCHANGED <<resources, rows>>

CreatesResource(p) ==
  /\ Stands(p, "resource") /\ resources[Resource(p).code] = None
  /\ resources' = [resources EXCEPT ![Resource(p).code] =
       [active |-> Resource(p).isActive, zone |-> Resource(p).timeZone, schedule |-> {}]]
  /\ UNCHANGED <<accounts, rows>>

AddsWindow(p) ==
  /\ Stands(p, "window")
  /\ resources' = [resources EXCEPT ![Resource(p).code].schedule =
                     @ \cup {Resource(p).schedule[at[p].w]}]
  /\ UNCHANGED <<accounts, rows>>

AddsRow(p) ==
  /\ Stands(p, "insert") /\ ~Refused(NewRow(p))
  /\ rows' = rows \cup {NewRow(p)}
  /\ UNCHANGED <<accounts, resources>>

LEMMA LoadKinds ==
  ASSUME NEW p \in Loaders, Load(p)
  PROVE  \/ UNCHANGED <<accounts, resources, rows>>
         \/ CreatesAccount(p) \/ Grants(p) \/ CreatesResource(p) \/ AddsWindow(p) \/ AddsRow(p)
PROOF
<1>1. FindUser(p) \/ FindType(p) \/ FindReservation(p) => UNCHANGED <<accounts, resources, rows>>
  BY DEF FindUser, FindType, FindReservation, tables
<1>2. CreateAccount(p) => CreatesAccount(p) \/ UNCHANGED <<accounts, resources, rows>>
  BY DEF CreateAccount, CreatesAccount
<1>3. GrantRole(p) => Grants(p)
  BY DEF GrantRole, Grants
<1>4. InsertResource(p) => CreatesResource(p) \/ UNCHANGED <<accounts, resources, rows>>
  BY DEF InsertResource, CreatesResource
<1>5. InsertWindow(p) => AddsWindow(p)
  BY DEF InsertWindow, AddsWindow
<1>6. InsertReservation(p) => AddsRow(p) \/ UNCHANGED <<accounts, resources, rows>>
  BY DEF InsertReservation, AddsRow
<1> QED BY <1>1, <1>2, <1>3, <1>4, <1>5, <1>6 DEF Load

LEMMA NewRowFacts ==
  ASSUME NEW p \in Loaders, OnTrack, Stands(p, "insert")
  PROVE  /\ NewRow(p).resource = Reservation(p).resource
         /\ NewRow(p).title = Reservation(p).title
         /\ NewRow(p).resource \in Codes /\ NewRow(p).title \in Titles
         /\ NewRow(p).title # None
         /\ NewRow(p).status \in {"CONFIRMED", "CANCELLED"}
         /\ NewRow(p).start = slot[p].start
PROOF
<1>1. at[p].n \in DOMAIN Reservations
  BY DEF OnTrack, Stands, InReservations
<1> QED BY <1>1, ReservationFacts DEF NewRow, Reservation

(* Nothing removes an account or a resource; whether an account was seeded, *)
(* and the zone of a resource, never change, and schedules only grow.      *)
LEMMA TablesGrow ==
  ASSUME TypeOK, OnTrack, [Next]_vars
  PROVE  /\ accounts' \in [Emails -> Account \cup {None}]
         /\ resources' \in [Codes -> ResourceRow \cup {None}]
         /\ \A e \in Emails :
              accounts[e] # None => /\ accounts'[e] # None
                                    /\ accounts'[e].seeded = accounts[e].seeded
         /\ \A c \in Codes :
              resources[c] # None => /\ resources'[c] # None
                                     /\ resources'[c].zone = resources[c].zone
                                     /\ resources[c].schedule \subseteq resources'[c].schedule
PROOF
<1>1. /\ accounts \in [Emails -> Account \cup {None}]
      /\ resources \in [Codes -> ResourceRow \cup {None}]
  BY DEF TypeOK
<1>2. CASE UNCHANGED <<accounts, resources>>
  BY <1>1, <1>2
<1>3. ASSUME NEW p \in Loaders, CreatesAccount(p)
      PROVE  /\ accounts' \in [Emails -> Account \cup {None}] /\ UNCHANGED resources
             /\ \A e \in Emails : accounts[e] # None => accounts'[e] = accounts[e]
  BY <1>1, <1>3 DEF CreatesAccount, Account
<1>4. ASSUME NEW p \in Loaders, Grants(p)
      PROVE  /\ accounts' \in [Emails -> Account \cup {None}] /\ UNCHANGED resources
             /\ \A e \in Emails :
                  accounts[e] # None => /\ accounts'[e] # None
                                        /\ accounts'[e].seeded = accounts[e].seeded
  <2>1. /\ User(p).email \in Emails /\ User(p).role \in {"admin", "user"}
        /\ accounts[User(p).email] \in Account
    BY <1>1, <1>4, DataFacts DEF Grants, Stands, OnTrack, InUsers, User
  <2>2. [accounts[User(p).email] EXCEPT !.role = User(p).role] \in Account
        /\ [accounts[User(p).email] EXCEPT !.role = User(p).role].seeded
             = accounts[User(p).email].seeded
    BY <2>1 DEF Account
  <2>3. accounts' = [accounts EXCEPT ![User(p).email] =
                       [accounts[User(p).email] EXCEPT !.role = User(p).role]]
    BY <1>1, <1>4, <2>1 DEF Grants
  <2> HIDE DEF User
  <2> QED BY <1>1, <1>4, <2>1, <2>2, <2>3, SeedsAssumption DEF Grants
<1>5. ASSUME NEW p \in Loaders, CreatesResource(p)
      PROVE  /\ resources' \in [Codes -> ResourceRow \cup {None}] /\ UNCHANGED accounts
             /\ \A c \in Codes : resources[c] # None => resources'[c] = resources[c]
  <2>1. at[p].n \in DOMAIN Resources
    BY <1>5 DEF CreatesResource, Stands, OnTrack, InResources
  <2>2. [active |-> Resource(p).isActive, zone |-> Resource(p).timeZone, schedule |-> {}]
          \in ResourceRow
    BY <2>1, ResourceFacts DEF ResourceRow, Resource
  <2> QED BY <1>1, <1>5, <2>2 DEF CreatesResource
<1>6. ASSUME NEW p \in Loaders, AddsWindow(p)
      PROVE  /\ resources' \in [Codes -> ResourceRow \cup {None}] /\ UNCHANGED accounts
             /\ \A c \in Codes :
                  resources[c] # None =>
                    /\ resources'[c] # None
                    /\ resources'[c].zone = resources[c].zone
                    /\ resources[c].schedule \subseteq resources'[c].schedule
  <2> DEFINE code == Resource(p).code
             window == Resource(p).schedule[at[p].w]
             new == [resources[code] EXCEPT !.schedule = @ \cup {window}]
  <2>1. /\ at[p].n \in DOMAIN Resources /\ at[p].w \in DOMAIN Resource(p).schedule
        /\ resources[code] # None
    BY <1>6 DEF AddsWindow, Stands, OnTrack, InResources
  <2>2. code \in Codes /\ window \in OpeningWindow
    BY <2>1, ResourceFacts DEF Resource, Range
  <2>3. resources[code] \in ResourceRow
    BY <1>1, <2>1, <2>2
  <2>4. /\ new \in ResourceRow /\ new.zone = resources[code].zone
        /\ resources[code].schedule \subseteq new.schedule
    BY <2>2, <2>3 DEF ResourceRow
  <2>5. resources' = [resources EXCEPT ![code] = new]
    BY <1>1, <1>6, <2>2 DEF AddsWindow
  <2> HIDE DEF code, new
  <2>6. new # None
    BY <2>4, SeedsAssumption
  <2>7. resources' \in [Codes -> ResourceRow \cup {None}] /\ UNCHANGED accounts
    BY <1>1, <1>6, <2>2, <2>4, <2>5 DEF AddsWindow
  <2>8. ASSUME NEW c \in Codes, resources[c] # None
        PROVE  /\ resources'[c] # None
               /\ resources'[c].zone = resources[c].zone
               /\ resources[c].schedule \subseteq resources'[c].schedule
    <3>1. c # code => resources'[c] = resources[c]
      BY <1>1, <2>5
    <3>2. c = code => resources'[c] = new
      BY <1>1, <2>5
    <3> QED BY <2>4, <2>6, <2>8, <3>1, <3>2
  <2> QED BY <2>7, <2>8
<1>7. ASSUME NEW e \in SignUps, SignUp(e)
      PROVE  /\ accounts' \in [Emails -> Account \cup {None}] /\ UNCHANGED resources
             /\ \A d \in Emails : accounts[d] # None => accounts'[d] = accounts[d]
  BY <1>1, <1>7, SeedsAssumption DEF SignUp, Account
<1>8. ASSUME NEW c \in Switched, Switch(c)
      PROVE  /\ resources' \in [Codes -> ResourceRow \cup {None}] /\ UNCHANGED accounts
             /\ \A d \in Codes :
                  resources[d] # None =>
                    /\ resources'[d] # None
                    /\ resources'[d].zone = resources[d].zone
                    /\ resources'[d].schedule = resources[d].schedule
  <2> DEFINE new == [resources[c] EXCEPT !.active = ~@]
  <2>1. c \in Codes /\ resources[c] \in ResourceRow
    BY <1>1, <1>8, SeedsAssumption DEF Switch
  <2>2. resources' = [resources EXCEPT ![c] = new]
    BY <1>8 DEF Switch
  <2>3. (~resources[c].active) \in BOOLEAN
    OBVIOUS
  <2>4. /\ new \in ResourceRow /\ new.zone = resources[c].zone
        /\ new.schedule = resources[c].schedule
    BY <2>1, <2>3 DEF ResourceRow
  <2>5. UNCHANGED accounts
    BY <1>8 DEF Switch
  <2> HIDE DEF new
  <2> QED BY <1>1, <2>1, <2>2, <2>4, <2>5, SeedsAssumption
<1>9. ASSUME NEW p \in Loaders, Launch(p) \/ Crash(p)
      PROVE  UNCHANGED <<accounts, resources>>
  BY <1>9 DEF Launch, Crash, tables
<1>10. ASSUME Migrate \/ Tick \/ Over \/ UNCHANGED vars
       PROVE  UNCHANGED <<accounts, resources>>
  BY <1>10 DEF Migrate, Tick, Over, vars, tables
<1>11. ASSUME (\E o \in Outside : Book(o)) \/ (\E row \in rows : Cancel(row))
       PROVE  UNCHANGED <<accounts, resources>>
  BY <1>11 DEF Book, Cancel
<1>12. ASSUME NEW p \in Loaders, AddsRow(p)
       PROVE  UNCHANGED <<accounts, resources>>
  BY <1>12 DEF AddsRow
<1>13. CASE \E p \in Loaders : Load(p)
  BY <1>1, <1>2, <1>3, <1>4, <1>5, <1>6, <1>12, <1>13, LoadKinds
<1>14. CASE \E e \in SignUps : SignUp(e)
  BY <1>1, <1>7, <1>14
<1>15. CASE \E c \in Switched : Switch(c)
  BY <1>1, <1>8, <1>15
<1> QED BY <1>2, <1>9, <1>10, <1>11, <1>13, <1>14, <1>15 DEF Next

-----------------------------------------------------------------------------
(* Where the loaders stand. *)

(* A loader that does not load keeps its place. *)
LEMMA OthersStand ==
  ASSUME [Next]_vars, \A p \in Loaders : ~Load(p)
  PROVE  /\ at' = at
         /\ \/ run' = run
            \/ \E p \in Loaders : Launch(p) \/ Crash(p)
PROOF
<1>1. ASSUME NEW p \in Loaders, Launch(p) \/ Crash(p)
      PROVE  at' = at
  BY <1>1 DEF Launch, Crash
<1>2. ASSUME Migrate \/ Tick \/ Over \/ UNCHANGED vars
      PROVE  at' = at /\ run' = run
  BY <1>2 DEF Migrate, Tick, Over, vars
<1>3. ASSUME \/ \E e \in SignUps : SignUp(e)
             \/ \E o \in Outside : Book(o)
             \/ \E row \in rows : Cancel(row)
             \/ \E c \in Switched : Switch(c)
      PROVE  at' = at /\ run' = run
  BY <1>3 DEF SignUp, Book, Cancel, Switch
<1> QED BY <1>1, <1>2, <1>3 DEF Next

(* The loader alone moves: its place and its fate. *)
Moves(p) ==
  /\ run[p] = "running"
  /\ at' = [at EXCEPT ![p] = at'[p]] /\ at'[p] \in Position
  /\ \E s \in {"running", "loaded", "failed"} : run' = [run EXCEPT ![p] = s]

(* It stays at its place, goes on to another statement for the same item,   *)
(* or to the next item, or to the first one of the next list.              *)
Stays(p) == at'[p] = at[p]
GoesOn(p, step) == at'[p] = [at[p] EXCEPT !.step = step]
Advances(p, data, step, next) ==
  \/ /\ at[p].n < Len(data) /\ at[p].n + 1 \in DOMAIN data
     /\ at'[p] = [step |-> step, n |-> at[p].n + 1, w |-> 1]
  \/ /\ at[p].n = Len(data)
     /\ at'[p] = [step |-> next, n |-> 1, w |-> 1]

LEMMA GotoMoves ==
  ASSUME TypeOK, NEW p \in Loaders, run[p] = "running",
         NEW step \in InUsers \cup InResources \cup InReservations, Goto(p, step)
  PROVE  Moves(p) /\ GoesOn(p, step) /\ run'[p] = "running"
PROOF BY DEF TypeOK, Goto, Moves, GoesOn, Position

LEMMA FailMoves ==
  ASSUME TypeOK, NEW p \in Loaders, run[p] = "running", Fail(p)
  PROVE  Moves(p) /\ Stays(p) /\ run'[p] = "failed"
PROOF BY DEF TypeOK, Fail, Moves, Stays, Position

LEMMA IterateMoves ==
  ASSUME TypeOK, NEW p \in Loaders, run[p] = "running", NEW data,
         NEW step \in InUsers \cup InResources \cup InReservations,
         NEW next \in InUsers \cup InResources \cup InReservations,
         Len(data) \in Nat, DOMAIN data = 1 .. Len(data), at[p].n \in DOMAIN data,
         Iterate(p, step, data, next)
  PROVE  Moves(p) /\ Advances(p, data, step, next) /\ run'[p] = "running"
PROOF
<1>1. /\ at \in [Loaders -> Position]
      /\ run \in [Loaders -> {"off", "running", "loaded", "failed", "crashed"}]
  BY DEF TypeOK, Position
<1>2. /\ run' = run /\ at' = [at EXCEPT ![p] = at'[p]]
      /\ Advances(p, data, step, next)
  BY <1>1, Iteration DEF Advances
<1>3. at'[p] \in Position
  BY <1>2 DEF Advances, Position
<1>4. run' = [run EXCEPT ![p] = "running"]
  BY <1>1, <1>2
<1> QED BY <1>1, <1>2, <1>3, <1>4 DEF Moves

LEMMA UserMoves ==
  ASSUME TypeOK, OnTrack, NEW p \in Loaders,
         FindUser(p) \/ CreateAccount(p) \/ GrantRole(p)
  PROVE  /\ Moves(p) /\ at[p].step \in InUsers /\ run'[p] # "loaded"
         /\ \/ Stays(p) /\ UNCHANGED accounts
            \/ GoesOn(p, "account") /\ UNCHANGED accounts
            \/ GoesOn(p, "role") /\ CreatesAccount(p)
            \/ /\ Advances(p, Users, "user", "type")
               /\ \/ UNCHANGED accounts /\ accounts[User(p).email] # None /\ Stands(p, "user")
                  \/ CreatesAccount(p) /\ User(p).role = "user"
                  \/ Grants(p)
         /\ UNCHANGED <<resources, rows>>
PROOF
<1>1. /\ run[p] = "running" /\ at[p].step \in InUsers /\ at[p].n \in DOMAIN Users
  BY DEF FindUser, CreateAccount, GrantRole, Stands, OnTrack, InUsers
<1>2. /\ Iterate(p, "user", Users, "type") =>
           Moves(p) /\ Advances(p, Users, "user", "type") /\ run'[p] = "running"
      /\ Fail(p) => Moves(p) /\ Stays(p) /\ run'[p] = "failed"
      /\ Goto(p, "account") => Moves(p) /\ GoesOn(p, "account") /\ run'[p] = "running"
      /\ Goto(p, "role") => Moves(p) /\ GoesOn(p, "role") /\ run'[p] = "running"
  BY <1>1, DataFacts, IterateMoves, FailMoves, GotoMoves DEF InUsers, InResources
<1>3. CASE FindUser(p)
  BY <1>1, <1>2, <1>3 DEF FindUser, tables
<1>4. CASE CreateAccount(p)
  <2>1. CASE accounts[User(p).email] # None
    BY <1>1, <1>2, <1>4, <2>1 DEF CreateAccount
  <2>2. CASE accounts[User(p).email] = None
    <3>1. CreatesAccount(p)
      BY <1>4, <2>2 DEF CreateAccount, CreatesAccount
    <3> QED BY <1>1, <1>2, <1>4, <2>2, <3>1 DEF CreateAccount
  <2> QED BY <2>1, <2>2
<1>5. CASE GrantRole(p)
  <2>1. Grants(p)
    BY <1>5 DEF GrantRole, Grants
  <2> QED BY <1>1, <1>2, <1>5, <2>1 DEF GrantRole
<1> QED BY <1>3, <1>4, <1>5

LEMMA ResourceMoves ==
  ASSUME TypeOK, OnTrack, NEW p \in Loaders,
         FindType(p) \/ InsertResource(p) \/ InsertWindow(p)
  PROVE  /\ Moves(p) /\ at[p].step \in InResources /\ run'[p] # "loaded"
         /\ \/ Stays(p) /\ UNCHANGED resources
            \/ GoesOn(p, "resource") /\ UNCHANGED resources /\ Stands(p, "type")
            \/ GoesOn(p, "window") /\ CreatesResource(p) /\ Resource(p).schedule # <<>>
            \/ /\ at'[p] = [at[p] EXCEPT !.w = at[p].w + 1] /\ AddsWindow(p)
               /\ at[p].w < Len(Resource(p).schedule)
            \/ /\ Advances(p, Resources, "type", "find")
               /\ \/ /\ UNCHANGED resources /\ resources[Resource(p).code] # None
                     /\ Stands(p, "resource")
                  \/ CreatesResource(p) /\ Resource(p).schedule = <<>>
                  \/ AddsWindow(p) /\ at[p].w = Len(Resource(p).schedule)
         /\ UNCHANGED <<accounts, rows>>
PROOF
<1>1. /\ run[p] = "running" /\ at[p].step \in InResources /\ at[p].n \in DOMAIN Resources
  BY DEF FindType, InsertResource, InsertWindow, Stands, OnTrack, InResources
<1>2. /\ Iterate(p, "type", Resources, "find") =>
           Moves(p) /\ Advances(p, Resources, "type", "find") /\ run'[p] = "running"
      /\ Fail(p) => Moves(p) /\ Stays(p) /\ run'[p] = "failed"
      /\ Goto(p, "resource") => Moves(p) /\ GoesOn(p, "resource") /\ run'[p] = "running"
      /\ Goto(p, "window") => Moves(p) /\ GoesOn(p, "window") /\ run'[p] = "running"
  BY <1>1, DataFacts, IterateMoves, FailMoves, GotoMoves DEF InResources, InReservations
<1>3. CASE FindType(p)
  BY <1>1, <1>2, <1>3 DEF FindType, tables
<1>4. CASE InsertResource(p)
  <2>1. CASE resources[Resource(p).code] # None
    BY <1>1, <1>2, <1>4, <2>1 DEF InsertResource
  <2>2. CASE resources[Resource(p).code] = None
    <3>1. CreatesResource(p)
      BY <1>4, <2>2 DEF InsertResource, CreatesResource
    <3> QED BY <1>1, <1>2, <1>4, <2>2, <3>1 DEF InsertResource, AfterResource
  <2> QED BY <2>1, <2>2
<1>5. CASE InsertWindow(p)
  <2>1. AddsWindow(p)
    BY <1>5 DEF InsertWindow, AddsWindow
  <2>2. CASE at[p].w = Len(Resource(p).schedule)
    BY <1>1, <1>2, <1>5, <2>1, <2>2 DEF InsertWindow
  <2>3. CASE at[p].w < Len(Resource(p).schedule)
    <3>1. at' = [at EXCEPT ![p].w = at[p].w + 1] /\ run' = run
      BY <1>5, <2>3 DEF InsertWindow
    <3>2. at[p] \in Position /\ at \in [Loaders -> Position]
      BY DEF TypeOK, Position
    <3>3. at'[p] = [at[p] EXCEPT !.w = at[p].w + 1] /\ at'[p] \in Position
      BY <3>1, <3>2 DEF Position
    <3>4. Moves(p) /\ run'[p] # "loaded"
      BY <1>1, <3>1, <3>2, <3>3 DEF Moves, TypeOK
    <3> QED BY <1>1, <1>5, <2>1, <2>3, <3>3, <3>4 DEF InsertWindow
  <2> QED BY <1>5, <2>2, <2>3 DEF InsertWindow
<1> QED BY <1>3, <1>4, <1>5

(* The loader's reservation is in the table from now on, on whatever day.   *)
Added(p) ==
  \E r \in rows' : r.resource = Reservation(p).resource /\ r.title = Reservation(p).title

LEMMA ReservationMoves ==
  ASSUME TypeOK, OnTrack, NEW p \in Loaders,
         FindReservation(p) \/ InsertReservation(p)
  PROVE  /\ Moves(p) /\ at[p].step \in InReservations
         /\ at'[p].step \in InReservations
         /\ \/ Stays(p) /\ run'[p] = "failed"
            \/ Stays(p) /\ run'[p] = "loaded" /\ at[p].n = Len(Reservations)
               /\ Added(p)
            \/ GoesOn(p, "insert") /\ run'[p] = "running"
            \/ /\ at'[p] = [step |-> "find", n |-> at[p].n + 1, w |-> 1]
               /\ at[p].n + 1 \in DOMAIN Reservations
               /\ Added(p) /\ run'[p] = "running"
         /\ UNCHANGED <<accounts, resources>>
PROOF
<1>1. /\ run[p] = "running" /\ at[p].step \in InReservations
      /\ at[p].n \in DOMAIN Reservations
  BY DEF FindReservation, InsertReservation, Stands, OnTrack, InReservations
<1>2. at[p] \in Position /\ at \in [Loaders -> Position]
      /\ run \in [Loaders -> {"off", "running", "loaded", "failed", "crashed"}]
  BY DEF TypeOK, Position
<1>3. ASSUME NextReservation(p)
      PROVE  /\ Moves(p) /\ at'[p].step \in InReservations
             /\ \/ Stays(p) /\ run'[p] = "loaded" /\ at[p].n = Len(Reservations)
                \/ /\ at'[p] = [step |-> "find", n |-> at[p].n + 1, w |-> 1]
                   /\ at[p].n + 1 \in DOMAIN Reservations /\ run'[p] = "running"
  <2>1. CASE at[p].n < Len(Reservations)
    <3>1. Iterate(p, "find", Reservations, "find")
      BY <1>3, <2>1 DEF NextReservation
    <3>2. Moves(p) /\ Advances(p, Reservations, "find", "find") /\ run'[p] = "running"
      BY <1>1, <3>1, DataFacts, IterateMoves DEF InReservations
    <3> QED BY <1>1, <2>1, <3>2, DataFacts DEF Advances, InReservations
  <2>2. CASE at[p].n = Len(Reservations)
    <3>1. run' = [run EXCEPT ![p] = "loaded"] /\ at' = at
      BY <1>3, <2>2, DataFacts DEF NextReservation
    <3> QED BY <1>1, <1>2, <2>2, <3>1 DEF Moves, Stays
  <2> QED BY <1>3, <2>1, <2>2 DEF NextReservation
<1>4. CASE FindReservation(p)
  <2>1. CASE NextReservation(p) /\ AlreadyThere(Reservation(p), Placed(Reservation(p)))
    <3>1. Added(p)
      BY <1>4, <2>1 DEF FindReservation, AlreadyThere, tables, Added
    <3> QED BY <1>1, <1>3, <1>4, <2>1, <3>1 DEF FindReservation, tables
  <2>2. CASE Goto(p, "insert")
    <3>1. Moves(p) /\ GoesOn(p, "insert") /\ run'[p] = "running"
      BY <1>1, <2>2, GotoMoves DEF InReservations
    <3> QED BY <1>1, <1>2, <1>4, <3>1 DEF FindReservation, tables, GoesOn, InReservations, Position
  <2> QED BY <1>4, <2>1, <2>2 DEF FindReservation
<1>5. CASE InsertReservation(p)
  <2>1. CASE Fail(p)
    BY <1>1, <1>5, <2>1, FailMoves DEF InsertReservation, Stays
  <2>2. CASE NextReservation(p) /\ rows' = rows \cup {NewRow(p)}
    <3>1. Added(p)
      BY <1>5, <2>2, NewRowFacts DEF InsertReservation, Added
    <3> QED BY <1>1, <1>3, <1>5, <2>2, <3>1 DEF InsertReservation
  <2> QED BY <1>5, <2>1, <2>2 DEF InsertReservation
<1> QED BY <1>4, <1>5

-----------------------------------------------------------------------------
(* Types. *)

LEMMA PlacedType ==
  ASSUME TypeOK, NEW n \in DOMAIN Reservations
  PROVE  Placed(Reservations[n]) \in [start : Int, end : Int]
PROOF
<1> DEFINE v == Reservations[n]
           owner == CHOOSE r \in Range(Resources) : r.code = v.resource
<1>1. v \in Range(Reservations) /\ v.resource \in Codes
  BY ReservationFacts
<1>2. v.dayOffset \in Int /\ v.start \in Int /\ v.end \in Int
  BY <1>1, SeedsAssumption
<1>3. owner \in Range(Resources)
  BY <1>1 DEF Codes
<1>4. ZoneOf(v) \in Zone
  BY <1>3, SeedsAssumption DEF ZoneOf
<1>5. now \in Int /\ DayLength \in Nat \ {0}
  BY SeedsAssumption, WallClockAssumption DEF TypeOK
<1>6. ASSUME NEW z \in Zone, NEW t \in Int
      PROVE  ToInstant(z, t) \in Int /\ LocalDay(z, t) \in Int
  <2>1. ToInstant(z, t) \in Int
    BY SMT DEF ToInstant, Zone
  <2>2. Wall(z, t) \in Int
    BY SMT DEF Wall, Offset, Zone
  <2> QED BY <1>5, <2>1, <2>2, SMT DEF LocalDay
<1>7. ASSUME NEW time \in Int
      PROVE  FutureInstant(v, time) \in Int
  <2>1. LocalDay(ZoneOf(v), now) \in Int
    BY <1>4, <1>5, <1>6
  <2> DEFINE z == ZoneOf(v)
             d == LocalDay(ZoneOf(v), now)
  <2>2. z \in Zone /\ d \in Int
    BY <1>4, <2>1
  <2>3. FutureInstant(v, time) = ToInstant(z, (d + v.dayOffset) * DayLength + time)
    BY DEF FutureInstant, WallClockToInstant
  <2> HIDE DEF z, d, v
  <2>4. (d + v.dayOffset) * DayLength + time \in Int
    BY <1>2, <1>5, <2>2
  <2> QED BY <1>6, <2>2, <2>3, <2>4
<1> HIDE DEF v
<1>8. Placed(v) \in [start : Int, end : Int]
  BY <1>2, <1>7 DEF Placed
<1> QED BY <1>8 DEF v

(* What a loader computes or finds before it inserts. *)
LEMMA SlotMoves ==
  ASSUME TypeOK, OnTrack, NEW p \in Loaders, Load(p)
  PROVE  /\ slot' \in [Loaders -> [start : Int, end : Int] \cup {None}]
         /\ \A q \in Loaders : q # p => slot'[q] = slot[q]
         /\ \/ UNCHANGED slot
            \/ slot'[p] # None
            \/ at'[p].step = "find" \/ run'[p] = "loaded"
PROOF
<1>1. slot \in [Loaders -> [start : Int, end : Int] \cup {None}]
  BY DEF TypeOK
<1>2. CASE ~FindReservation(p) /\ ~InsertReservation(p)
  BY <1>1, <1>2 DEF Load, FindUser, CreateAccount, GrantRole, FindType, InsertResource,
     InsertWindow
<1>3. ASSUME NextReservation(p)
      PROVE  slot' = [slot EXCEPT ![p] = None]
             /\ (at'[p].step = "find" \/ run'[p] = "loaded")
  <2>1. at \in [Loaders -> Position]
        /\ run \in [Loaders -> {"off", "running", "loaded", "failed", "crashed"}]
    BY DEF TypeOK, Position
  <2> QED BY <1>3, <2>1 DEF NextReservation, Iterate, Position
<1>4. CASE FindReservation(p)
  <2>1. Reservation(p) = Reservations[at[p].n] /\ at[p].n \in DOMAIN Reservations
    BY <1>4 DEF FindReservation, Stands, OnTrack, InReservations, Reservation
  <2>2. Placed(Reservation(p)) \in [start : Int, end : Int]
    BY <2>1, PlacedType
  <2>3. CASE NextReservation(p)
    BY <1>1, <1>3, <2>3
  <2>4. CASE slot' = [slot EXCEPT ![p] = Placed(Reservation(p))]
    BY <1>1, <2>2, <2>4, SeedsAssumption
  <2> QED BY <1>4, <2>3, <2>4 DEF FindReservation
<1>5. CASE InsertReservation(p)
  BY <1>1, <1>3, <1>5 DEF InsertReservation
<1> QED BY <1>2, <1>4, <1>5

RowsTyped == rows \subseteq Row /\ \A r \in rows : r.start < r.end

LEMMA NewRowType ==
  ASSUME TypeOK, OnTrack, NEW p \in Loaders, Stands(p, "insert"), ~Refused(NewRow(p))
  PROVE  NewRow(p) \in Row /\ NewRow(p).start < NewRow(p).end
PROOF
<1>1. slot[p] \in [start : Int, end : Int]
  BY DEF TypeOK, OnTrack, Stands
<1>2. NewRow(p).start \in Int /\ NewRow(p).end \in Int
  BY <1>1 DEF NewRow
<1>3. NewRow(p) \in Row
  BY <1>1, NewRowFacts DEF NewRow, Row
<1> QED BY <1>2, <1>3 DEF Refused

LEMMA RowsStep ==
  ASSUME TypeOK, OnTrack, [Next]_vars
  PROVE  RowsTyped'
PROOF
<1>1. RowsTyped
  BY DEF TypeOK, RowsTyped
<1>2. CASE UNCHANGED rows
  BY <1>1, <1>2 DEF RowsTyped
<1>3. ASSUME NEW p \in Loaders, Load(p)
      PROVE  RowsTyped'
  <2>1. CASE AddsRow(p)
    BY <1>1, <2>1, NewRowType DEF AddsRow, RowsTyped
  <2>2. CASE UNCHANGED rows
    BY <1>1, <2>2 DEF RowsTyped
  <2> QED BY <1>3, <2>1, <2>2, LoadKinds
          DEF CreatesAccount, Grants, CreatesResource, AddsWindow
<1>4. ASSUME NEW o \in Outside, Book(o)
      PROVE  RowsTyped'
  <2> DEFINE row == [resource |-> o.resource, title |-> None, start |-> o.start,
                     end |-> o.end, status |-> "CONFIRMED"]
  <2>1. o.resource \in Codes /\ o.start \in Int /\ o.end \in Int
    BY SeedsAssumption
  <2>2. row \in Row /\ row.start \in Int /\ row.end \in Int
    BY <2>1 DEF Row
  <2>3. ~(row.end <= row.start) /\ rows' = rows \cup {row}
    BY <1>4 DEF Book, Refused
  <2>4. row.start < row.end
    BY <2>2, <2>3
  <2> HIDE DEF row
  <2> QED BY <1>1, <2>2, <2>3, <2>4 DEF RowsTyped
<1>5. ASSUME NEW row \in rows, Cancel(row)
      PROVE  RowsTyped'
  <2> DEFINE new == [row EXCEPT !.status = "CANCELLED"]
  <2>1. row \in Row /\ row.start < row.end
    BY <1>1 DEF RowsTyped
  <2>2. new \in Row /\ new.start < new.end
    BY <2>1 DEF Row
  <2>3. rows' = (rows \ {row}) \cup {new}
    BY <1>5 DEF Cancel
  <2> HIDE DEF new
  <2> QED BY <1>1, <2>2, <2>3 DEF RowsTyped
<1>6. CASE UNCHANGED vars
  BY <1>1, <1>6 DEF vars, tables, RowsTyped
<1>7. ASSUME NEW p \in Loaders, Launch(p) \/ Crash(p)
      PROVE  UNCHANGED rows
  BY <1>7 DEF Launch, Crash, tables
<1>8. ASSUME \/ Migrate \/ Tick \/ Over
             \/ \E e \in SignUps : SignUp(e)
             \/ \E c \in Switched : Switch(c)
      PROVE  UNCHANGED rows
  BY <1>8 DEF Migrate, Tick, Over, vars, tables, SignUp, Switch
<1> QED BY <1>2, <1>3, <1>4, <1>5, <1>6, <1>7, <1>8 DEF Next

LEMMA LoaderMoves ==
  ASSUME TypeOK, OnTrack, NEW p \in Loaders, Load(p)
  PROVE  Moves(p) /\ UNCHANGED <<types, now, met>>
PROOF
<1>1. Moves(p)
  BY UserMoves, ResourceMoves, ReservationMoves DEF Load
<1>2. UNCHANGED <<types, now, met>>
  BY DEF Load, FindUser, CreateAccount, GrantRole, FindType, InsertResource, InsertWindow,
     FindReservation, InsertReservation, tables
<1> QED BY <1>1, <1>2

LEMMA TypeInit == Init => TypeOK
PROOF
<1> SUFFICES ASSUME Init PROVE TypeOK
  OBVIOUS
<1>1. accounts \in [Emails -> Account \cup {None}]
      /\ resources \in [Codes -> ResourceRow \cup {None}]
  BY DEF Init
<1>2. now \in Instants /\ types \subseteq Types
  BY SeedsAssumption DEF Init
<1>3. /\ at \in [Loaders -> [step : InUsers \cup InResources \cup InReservations,
                             n : Nat \ {0}, w : Nat \ {0}]]
      /\ run \in [Loaders -> {"off", "running", "loaded", "failed", "crashed"}]
      /\ slot \in [Loaders -> [start : Int, end : Int] \cup {None}]
  BY DEF Init, InUsers
<1> QED BY <1>1, <1>2, <1>3 DEF Init, TypeOK

LEMMA TypeStep == TypeOK /\ OnTrack /\ [Next]_vars => TypeOK'
PROOF
<1> SUFFICES ASSUME TypeOK, OnTrack, [Next]_vars PROVE TypeOK'
  OBVIOUS
<1>1. /\ accounts' \in [Emails -> Account \cup {None}]
      /\ resources' \in [Codes -> ResourceRow \cup {None}]
      /\ rows' \subseteq Row /\ \A r \in rows' : r.start < r.end
  BY TablesGrow, RowsStep DEF RowsTyped
<1>2. /\ types \subseteq Types /\ now \in Instants /\ met \subseteq SUBSET Loaders
      /\ run \in [Loaders -> {"off", "running", "loaded", "failed", "crashed"}]
      /\ at \in [Loaders -> Position]
      /\ slot \in [Loaders -> [start : Int, end : Int] \cup {None}]
  BY DEF TypeOK, Position
<1> DEFINE Rest ==
      /\ types' \subseteq Types /\ now' \in Instants /\ met' \subseteq SUBSET Loaders
      /\ run' \in [Loaders -> {"off", "running", "loaded", "failed", "crashed"}]
      /\ at' \in [Loaders -> Position]
      /\ slot' \in [Loaders -> [start : Int, end : Int] \cup {None}]
<1>3. ASSUME NEW p \in Loaders, Load(p)
      PROVE  Rest
  <2>1. Moves(p) /\ UNCHANGED <<types, now, met>>
    BY <1>3, LoaderMoves
  <2>2. slot' \in [Loaders -> [start : Int, end : Int] \cup {None}]
    BY <1>3, SlotMoves
  <2>3. /\ run' \in [Loaders -> {"off", "running", "loaded", "failed", "crashed"}]
        /\ at' \in [Loaders -> Position]
    BY <1>2, <2>1 DEF Moves
  <2> QED BY <1>2, <2>1, <2>2, <2>3
<1>4. ASSUME NEW p \in Loaders, Launch(p)
      PROVE  Rest
  <2>1. {{p, q} : q \in {q \in Loaders : run[q] = "running"}} \subseteq SUBSET Loaders
    OBVIOUS
  <2> QED BY <1>2, <1>4, <2>1 DEF Launch, tables
<1>5. ASSUME NEW p \in Loaders, Crash(p)
      PROVE  Rest
  BY <1>2, <1>5 DEF Crash, tables
<1>6. ASSUME Migrate \/ Tick \/ Over \/ UNCHANGED vars
      PROVE  Rest
  BY <1>2, <1>6 DEF Migrate, Tick, Over, vars, tables
<1>7. ASSUME \/ \E e \in SignUps : SignUp(e)
             \/ \E o \in Outside : Book(o)
             \/ \E row \in rows : Cancel(row)
             \/ \E c \in Switched : Switch(c)
      PROVE  Rest
  BY <1>2, <1>7 DEF SignUp, Book, Cancel, Switch
<1>8. Rest
  BY <1>3, <1>4, <1>5, <1>6, <1>7 DEF Next
<1> QED BY <1>1, <1>8 DEF TypeOK, Position

-----------------------------------------------------------------------------
(* Where a loader stands, and what it holds. *)

OnTrackAt(p) ==
  /\ at[p].step \in InUsers => at[p].n \in DOMAIN Users
  /\ at[p].step \in InResources => at[p].n \in DOMAIN Resources
  /\ at[p].step \in InReservations => at[p].n \in DOMAIN Reservations
  /\ at[p].step = "role" => /\ accounts[User(p).email] # None
                            /\ accounts[User(p).email].seeded
  /\ at[p].step = "window" => /\ resources[Resource(p).code] # None
                              /\ at[p].w \in DOMAIN Resource(p).schedule
  /\ at[p].step # "window" => at[p].w = 1
  /\ at[p].step = "insert" /\ run[p] # "loaded" => slot[p] # None

LEMMA OnTrackIsLocal == OnTrack <=> \A p \in Loaders : OnTrackAt(p)
PROOF BY DEF OnTrack, OnTrackAt

(* A loader that stays where it is keeps what it holds. *)
LEMMA StayingOnTrack ==
  ASSUME TypeOK, OnTrack, [Next]_vars, NEW p \in Loaders,
         at'[p] = at[p], run[p] # "loaded" \/ run'[p] = "loaded" \/ run'[p] = run[p],
         \/ slot'[p] = slot[p] \/ slot'[p] # None
         \/ at'[p].step = "find" \/ run'[p] = "loaded"
  PROVE  OnTrackAt(p)'
PROOF
<1>1. OnTrackAt(p)
  BY OnTrackIsLocal
<1>2. at[p].step = "role" => at[p].n \in DOMAIN Users /\ User(p).email \in Emails
  BY <1>1, DataFacts DEF OnTrackAt, InUsers, User
<1>3. at[p].step = "window" => at[p].n \in DOMAIN Resources /\ Resource(p).code \in Codes
  BY <1>1, ResourceFacts DEF OnTrackAt, InResources, Resource
<1>4. User(p)' = User(p) /\ Resource(p)' = Resource(p)
  BY DEF User, Resource
<1>5. (at[p].step = "role" => /\ accounts'[User(p).email] # None
                              /\ accounts'[User(p).email].seeded)
  BY <1>1, <1>2, TablesGrow DEF OnTrackAt
<1>6. at[p].step = "window" => resources'[Resource(p).code] # None
  BY <1>1, <1>3, TablesGrow DEF OnTrackAt
<1> HIDE DEF User, Resource
<1> QED BY <1>1, <1>4, <1>5, <1>6 DEF OnTrackAt

LEMMA LoaderOnTrack ==
  ASSUME TypeOK, OnTrack, [Next]_vars, NEW p \in Loaders, Load(p)
  PROVE  OnTrackAt(p)'
PROOF
<1>1. OnTrackAt(p) /\ at[p] \in Position /\ run[p] = "running"
  BY OnTrackIsLocal, LoaderMoves DEF TypeOK, Position, Moves
<1>2. \/ slot'[p] = slot[p] \/ slot'[p] # None
      \/ at'[p].step = "find" \/ run'[p] = "loaded"
  BY SlotMoves
<1>3. CASE Stays(p)
  BY <1>1, <1>2, <1>3, StayingOnTrack DEF Stays
<1>4. CASE FindUser(p) \/ CreateAccount(p) \/ GrantRole(p)
  <2>1. at[p].step \in InUsers /\ at[p].n \in DOMAIN Users /\ at[p].w = 1
    BY <1>1, <1>4, UserMoves DEF OnTrackAt, InUsers
  <2>2. CASE GoesOn(p, "account")
    BY <1>1, <2>1, <2>2 DEF GoesOn, OnTrackAt, Position, InUsers, InResources, InReservations
  <2>3. CASE GoesOn(p, "role") /\ CreatesAccount(p)
    <3>1. at'[p].step = "role" /\ at'[p].n = at[p].n /\ at'[p].w = 1
      BY <1>1, <2>1, <2>3 DEF GoesOn, Position
    <3>2. User(p)' = User(p) /\ User(p).email \in Emails
      BY <2>1, <3>1, DataFacts DEF User
    <3>3. accounts' = [accounts EXCEPT ![User(p).email] = [role |-> "user", seeded |-> TRUE]]
          /\ accounts \in [Emails -> Account \cup {None}]
      BY <2>3 DEF CreatesAccount, TypeOK
    <3>4. [role |-> "user", seeded |-> TRUE] \in Account
      BY DEF Account
    <3> HIDE DEF User
    <3>5. accounts'[User(p).email] # None /\ accounts'[User(p).email].seeded
      BY <3>2, <3>3, <3>4, SeedsAssumption
    <3> QED BY <2>1, <3>1, <3>2, <3>5
            DEF OnTrackAt, InUsers, InResources, InReservations
  <2>4. CASE Advances(p, Users, "user", "type")
    BY <2>4, DataFacts DEF Advances, OnTrackAt, InUsers, InResources, InReservations
  <2> QED BY <1>3, <1>4, <2>2, <2>3, <2>4, UserMoves
<1>5. CASE FindType(p) \/ InsertResource(p) \/ InsertWindow(p)
  <2>1. at[p].step \in InResources /\ at[p].n \in DOMAIN Resources
    BY <1>1, <1>5, ResourceMoves DEF OnTrackAt
  <2>2. CASE GoesOn(p, "resource") /\ Stands(p, "type")
    BY <1>1, <2>1, <2>2
    DEF GoesOn, Stands, OnTrackAt, Position, InUsers, InResources, InReservations
  <2>3. CASE GoesOn(p, "window") /\ CreatesResource(p) /\ Resource(p).schedule # <<>>
    <3>1. at'[p].step = "window" /\ at'[p].n = at[p].n /\ at'[p].w = 1
      BY <1>1, <2>3 DEF GoesOn, Position, OnTrackAt, CreatesResource, Stands
    <3>2. Resource(p)' = Resource(p) /\ Resource(p).code \in Codes
          /\ 1 \in DOMAIN Resource(p).schedule
      BY <2>1, <2>3, <3>1, ResourceFacts DEF Resource
    <3>3. [active |-> Resource(p).isActive, zone |-> Resource(p).timeZone, schedule |-> {}]
            \in ResourceRow
      BY <2>1, ResourceFacts DEF ResourceRow, Resource
    <3>4. resources \in [Codes -> ResourceRow \cup {None}]
      BY DEF TypeOK
    <3> HIDE DEF Resource
    <3>5. resources'[Resource(p).code] # None
      BY <2>3, <3>2, <3>3, <3>4, SeedsAssumption DEF CreatesResource
    <3> QED BY <2>1, <3>1, <3>2, <3>5
            DEF OnTrackAt, InUsers, InResources, InReservations
  <2>4. CASE /\ at'[p] = [at[p] EXCEPT !.w = at[p].w + 1] /\ AddsWindow(p)
             /\ at[p].w < Len(Resource(p).schedule)
    <3>1. at'[p].step = "window" /\ at'[p].n = at[p].n /\ at'[p].w = at[p].w + 1
      BY <1>1, <2>4 DEF Position, AddsWindow, Stands
    <3>2. Resource(p)' = Resource(p) /\ Resource(p).code \in Codes
          /\ at[p].w + 1 \in DOMAIN Resource(p).schedule
      BY <1>1, <2>1, <2>4, <3>1, ResourceFacts DEF Resource, Position
    <3>3. resources[Resource(p).code] # None
      BY <1>1, <2>4 DEF OnTrackAt, AddsWindow, Stands
    <3>4. resources'[Resource(p).code] # None
      BY <3>2, <3>3, TablesGrow
    <3> HIDE DEF Resource
    <3> QED BY <2>1, <3>1, <3>2, <3>4
            DEF OnTrackAt, InUsers, InResources, InReservations
  <2>5. CASE Advances(p, Resources, "type", "find")
    BY <2>5, DataFacts DEF Advances, OnTrackAt, InUsers, InResources, InReservations
  <2> QED BY <1>3, <1>5, <2>2, <2>3, <2>4, <2>5, ResourceMoves
<1>6. CASE FindReservation(p) \/ InsertReservation(p)
  <2>1. at[p].step \in InReservations /\ at[p].n \in DOMAIN Reservations /\ at[p].w = 1
    BY <1>1, <1>6, ReservationMoves DEF OnTrackAt, InReservations
  <2>2. CASE GoesOn(p, "insert") /\ run'[p] = "running"
    <3>1. at'[p].step = "insert" /\ at'[p].n = at[p].n /\ at'[p].w = 1
      BY <1>1, <2>1, <2>2 DEF GoesOn, Position
    <3>2. slot'[p] # None
      <4>1. CASE FindReservation(p)
        <5>1. Placed(Reservation(p)) # None /\ slot \in [Loaders -> [start : Int, end : Int] \cup {None}]
          BY <2>1, PlacedType, SeedsAssumption DEF Reservation, TypeOK
        <5>2. ~NextReservation(p)
          <6>1. at \in [Loaders -> Position]
            BY DEF TypeOK, Position
          <6> QED BY <2>1, <2>2, <3>1, <6>1, DataFacts
                  DEF NextReservation, Iterate, TypeOK, Position
        <5> QED BY <4>1, <5>1, <5>2 DEF FindReservation
      <4>2. CASE InsertReservation(p)
        <5>1. slot[p] # None /\ at \in [Loaders -> Position]
          BY <1>1, <4>2 DEF InsertReservation, Stands, OnTrackAt, TypeOK, Position
        <5>2. ~NextReservation(p)
          BY <2>1, <2>2, <3>1, <5>1, DataFacts
          DEF NextReservation, Iterate, TypeOK, Position
        <5> QED BY <4>2, <5>1, <5>2 DEF InsertReservation
      <4> QED BY <1>6, <4>1, <4>2
    <3> QED BY <2>1, <3>1, <3>2 DEF OnTrackAt, InUsers, InResources, InReservations
  <2>3. CASE /\ at'[p] = [step |-> "find", n |-> at[p].n + 1, w |-> 1]
             /\ at[p].n + 1 \in DOMAIN Reservations
    BY <2>3 DEF OnTrackAt, InUsers, InResources, InReservations
  <2> QED BY <1>3, <1>6, <2>2, <2>3, ReservationMoves
<1> QED BY <1>4, <1>5, <1>6 DEF Load

LEMMA OnTrackStep == TypeOK /\ OnTrack /\ [Next]_vars => OnTrack'
PROOF
<1> SUFFICES ASSUME TypeOK, OnTrack, [Next]_vars, NEW p \in Loaders PROVE OnTrackAt(p)'
  BY DEF OnTrack, OnTrackAt
<1>1. CASE Load(p)
  BY <1>1, LoaderOnTrack
<1>2. ASSUME NEW q \in Loaders, q # p, Load(q)
      PROVE  OnTrackAt(p)'
  <2>1. Moves(q) /\ slot'[p] = slot[p]
    BY <1>2, LoaderMoves, SlotMoves
  <2>2. at'[p] = at[p] /\ run'[p] = run[p]
    <3>1. at \in [Loaders -> Position]
          /\ run \in [Loaders -> {"off", "running", "loaded", "failed", "crashed"}]
      BY DEF TypeOK, Position
    <3> QED BY <1>2, <2>1, <3>1 DEF Moves
  <2> QED BY <2>1, <2>2, StayingOnTrack
<1>3. CASE \A q \in Loaders : ~Load(q)
  <2>1. at'[p] = at[p]
    BY <1>3, OthersStand
  <2>2. run[p] # "loaded" \/ run'[p] = run[p]
    <3>1. ASSUME NEW q \in Loaders, Launch(q) \/ Crash(q)
          PROVE  run[p] # "loaded" \/ run'[p] = run[p]
      BY <3>1 DEF Launch, Crash, TypeOK
    <3> QED BY <1>3, <3>1, OthersStand
  <2>3. UNCHANGED slot
    <3>1. ASSUME NEW q \in Loaders, Launch(q) \/ Crash(q)
          PROVE  UNCHANGED slot
      BY <3>1 DEF Launch, Crash
    <3>2. ASSUME \/ Migrate \/ Tick \/ Over \/ UNCHANGED vars
                 \/ \E e \in SignUps : SignUp(e)
                 \/ \E o \in Outside : Book(o)
                 \/ \E row \in rows : Cancel(row)
                 \/ \E c \in Switched : Switch(c)
          PROVE  UNCHANGED slot
      BY <3>2 DEF Migrate, Tick, Over, vars, SignUp, Book, Cancel, Switch
    <3> QED BY <1>3, <3>1, <3>2 DEF Next
  <2> QED BY <2>1, <2>2, <2>3, StayingOnTrack
<1> QED BY <1>1, <1>2, <1>3

LEMMA OnTrackInit == Init => OnTrack
PROOF BY DataFacts DEF Init, OnTrack, InUsers, InResources, InReservations

LEMMA Invariants == Spec => [](TypeOK /\ OnTrack)
PROOF
<1>1. Init => TypeOK /\ OnTrack
  BY TypeInit, OnTrackInit
<1>2. (TypeOK /\ OnTrack) /\ [Next]_vars => (TypeOK /\ OnTrack)'
  BY TypeStep, OnTrackStep
<1> QED BY <1>1, <1>2, PTL DEF Spec

(* Every table, clock and loader has the values its type allows: no row     *)
(* ends before it starts, no loader leaves its list of statements.         *)
THEOREM TypeCorrect == Spec => []TypeOK
PROOF BY Invariants, PTL

(* A loader stands at an item of its dataset; one that is about to grant a  *)
(* role or to insert a window holds the account or resource it created.    *)
THEOREM InductiveInvariant == Spec => []Inductive
PROOF
<1>1. TypeOK /\ OnTrack => Inductive
  BY DEF Inductive
<1> QED BY <1>1, Invariants, PTL

-----------------------------------------------------------------------------
(* What the loader adds, and what it leaves alone. *)

Untouched ==
  /\ \A e \in Emails :
       accounts[e] # None /\ ~accounts[e].seeded => accounts'[e] = accounts[e]
  /\ \A c \in Codes :
       resources[c] # None =>
         /\ resources'[c].active = resources[c].active
         /\ resources'[c].zone = resources[c].zone
         /\ resources[c].schedule \subseteq resources'[c].schedule
  /\ rows \subseteq rows'

LEMMA LoadLeavesUntouched ==
  ASSUME TypeOK, OnTrack, NEW p \in Loaders, Load(p)
  PROVE  Untouched
PROOF
<1>1. /\ accounts \in [Emails -> Account \cup {None}]
      /\ resources \in [Codes -> ResourceRow \cup {None}]
  BY DEF TypeOK
<1>2. CASE UNCHANGED <<accounts, resources, rows>>
  BY <1>2 DEF Untouched
<1>3. CASE CreatesAccount(p)
  BY <1>1, <1>3 DEF CreatesAccount, Untouched
<1>4. CASE Grants(p)
  <2>1. /\ accounts[User(p).email] # None
        /\ accounts[User(p).email].seeded
    BY <1>4 DEF Grants, Stands, OnTrack
  <2>2. ASSUME NEW e \in Emails, ~accounts[e].seeded
        PROVE  accounts'[e] = accounts[e]
    <3>1. e # User(p).email
      BY <2>1, <2>2
    <3> QED BY <1>1, <1>4, <3>1 DEF Grants
  <2> QED BY <1>4, <2>2 DEF Grants, Untouched
<1>5. CASE CreatesResource(p)
  BY <1>1, <1>5 DEF CreatesResource, Untouched
<1>6. CASE AddsWindow(p)
  <2> DEFINE code == Resource(p).code
             new == [resources[code] EXCEPT !.schedule =
                       @ \cup {Resource(p).schedule[at[p].w]}]
  <2>1. at[p].n \in DOMAIN Resources /\ resources[code] # None
    BY <1>6 DEF AddsWindow, Stands, OnTrack, InResources
  <2>2. code \in Codes
    BY <2>1, ResourceFacts DEF Resource
  <2>3. resources[code] \in ResourceRow
    BY <1>1, <2>1, <2>2
  <2>4. /\ new.zone = resources[code].zone /\ new.active = resources[code].active
        /\ resources[code].schedule \subseteq new.schedule
    BY <2>3 DEF ResourceRow
  <2>5. resources' = [resources EXCEPT ![code] = new] /\ UNCHANGED <<accounts, rows>>
    BY <1>1, <1>6, <2>2 DEF AddsWindow
  <2> HIDE DEF code, new
  <2> QED BY <1>1, <2>2, <2>4, <2>5 DEF Untouched
<1>7. CASE AddsRow(p)
  BY <1>7 DEF AddsRow, Untouched
<1> QED BY <1>2, <1>3, <1>4, <1>5, <1>6, <1>7, LoadKinds

(* Whatever interleaving of loaders, sign-ups, bookings and interruptions    *)
(* leads there, a statement of a loader changes no account that a person    *)
(* opened, resets no resource and removes no reservation.                  *)
THEOREM NothingIsTouched == Spec => OnlyAdds
PROOF
<1>1. TypeOK /\ OnTrack /\ [Next]_vars =>
        [(\E p \in Loaders : Load(p)) =>
           /\ \A e \in Emails :
                accounts[e] # None /\ ~accounts[e].seeded => accounts'[e] = accounts[e]
           /\ \A c \in Codes :
                resources[c] # None =>
                  /\ resources'[c].active = resources[c].active
                  /\ resources'[c].zone = resources[c].zone
                  /\ resources[c].schedule \subseteq resources'[c].schedule
           /\ rows \subseteq rows']_vars
  BY LoadLeavesUntouched DEF Untouched
<1> QED BY <1>1, Invariants, PTL DEF Spec, OnlyAdds

-----------------------------------------------------------------------------
(* The catalogue of resources grows as CatalogueSteps allows. *)

LEMMA ViewAt ==
  ASSUME TypeOK, NEW c \in Codes
  PROVE  /\ View[c] = IF resources[c] = None THEN None
                      ELSE [active |-> resources[c].active, terms |-> resources[c].zone]
         /\ View[c] \in Steps!Listed \cup {None}
         /\ resources[c] # None => View[c] # None /\ View[c] \in Steps!Listed
PROOF
<1>1. View[c] = IF resources[c] = None THEN None
                ELSE [active |-> resources[c].active, terms |-> resources[c].zone]
  BY DEF View
<1>2. ASSUME resources[c] # None
      PROVE  [active |-> resources[c].active, terms |-> resources[c].zone] \in Steps!Listed
  BY <1>2 DEF TypeOK, ResourceRow, Steps!Listed
<1>3. None \notin Steps!Listed
  BY SeedsAssumption DEF Steps!Listed
<1> QED BY <1>1, <1>2, <1>3

LEMMA SameView ==
  ASSUME \A c \in Codes : /\ resources'[c] = None <=> resources[c] = None
                          /\ resources[c] # None =>
                               /\ resources'[c].active = resources[c].active
                               /\ resources'[c].zone = resources[c].zone
  PROVE  View' = View
PROOF BY DEF View

LEMMA StepsStep ==
  ASSUME TypeOK, OnTrack, TypeOK', [Next]_vars
  PROVE  [Steps!Next]_View
PROOF
<1>1. /\ resources \in [Codes -> ResourceRow \cup {None}]
      /\ resources' \in [Codes -> ResourceRow \cup {None}]
  BY DEF TypeOK
<1>2. ASSUME UNCHANGED resources
      PROVE  View' = View
  BY <1>2 DEF View
<1>3. ASSUME NEW p \in Loaders, CreatesResource(p)
      PROVE  Steps!Next
  <2> DEFINE code == Resource(p).code
             new == [active |-> Resource(p).isActive, terms |-> Resource(p).timeZone]
             row == [active |-> Resource(p).isActive, zone |-> Resource(p).timeZone,
                     schedule |-> {}]
  <2>1. at[p].n \in DOMAIN Resources
    BY <1>3 DEF CreatesResource, Stands, OnTrack, InResources
  <2>2. code \in Codes /\ row \in ResourceRow /\ new \in Steps!Listed
    BY <2>1, ResourceFacts DEF Resource, ResourceRow, Steps!Listed
  <2>3. resources[code] = None /\ resources' = [resources EXCEPT ![code] = row]
    BY <1>3 DEF CreatesResource
  <2>4. row # None /\ row.active = new.active /\ row.zone = new.terms
        /\ new = [active |-> row.active, terms |-> row.zone]
    BY <2>2, SeedsAssumption
  <2> HIDE DEF code, new, row
  <2>5. View' = [View EXCEPT ![code] = new]
    <3>1. View = [c \in Codes |-> View[c]] /\ View' = [c \in Codes |-> View'[c]]
      BY DEF View
    <3>2. View'[code] = new
      BY <1>1, <2>2, <2>3, <2>4 DEF View
    <3>3. \A c \in Codes : c # code => View'[c] = View[c]
      BY <1>1, <2>3 DEF View
    <3> QED BY <3>1, <3>2, <3>3
  <2>6. View[code] = None
    BY <2>2, <2>3 DEF View
  <2>7. Steps!Register(code)
    BY <2>2, <2>5, <2>6 DEF Steps!Register
  <2> QED BY <2>2, <2>7 DEF Steps!Next
<1>4. ASSUME NEW p \in Loaders, AddsWindow(p)
      PROVE  View' = View
  <2> DEFINE code == Resource(p).code
             new == [resources[code] EXCEPT !.schedule =
                       @ \cup {Resource(p).schedule[at[p].w]}]
  <2>1. at[p].n \in DOMAIN Resources /\ resources[code] # None
    BY <1>4 DEF AddsWindow, Stands, OnTrack, InResources
  <2>2. code \in Codes
    BY <2>1, ResourceFacts DEF Resource
  <2>3. resources[code] \in ResourceRow
    BY <1>1, <2>1, <2>2
  <2>4. new.zone = resources[code].zone /\ new.active = resources[code].active
    BY <2>3 DEF ResourceRow
  <2>5. resources' = [resources EXCEPT ![code] = new]
    BY <1>1, <1>4, <2>2 DEF AddsWindow
  <2>6. resources'[code] # None
    BY <2>1, <2>2, TablesGrow
  <2> HIDE DEF code, new
  <2> QED BY <1>1, <2>1, <2>2, <2>4, <2>5, <2>6, SameView
<1>5. ASSUME NEW p \in Loaders, Load(p)
      PROVE  [Steps!Next]_View
  BY <1>2, <1>3, <1>4, <1>5, LoadKinds DEF CreatesAccount, Grants, AddsRow
<1>6. ASSUME NEW c \in Switched, Switch(c)
      PROVE  Steps!Next
  <2> DEFINE row == [resources[c] EXCEPT !.active = ~@]
             new == [active |-> ~resources[c].active, terms |-> resources[c].zone]
  <2>1. c \in Codes /\ resources[c] \in ResourceRow /\ resources[c] # None
    BY <1>1, <1>6, SeedsAssumption DEF Switch
  <2>2. resources' = [resources EXCEPT ![c] = row]
    BY <1>6 DEF Switch
  <2>3. (~resources[c].active) \in BOOLEAN
    OBVIOUS
  <2>4. row \in ResourceRow /\ row.zone = resources[c].zone
        /\ row.active = ~resources[c].active
    BY <2>1, <2>3 DEF ResourceRow
  <2>5. View[c] = [active |-> resources[c].active, terms |-> resources[c].zone]
        /\ View[c] # None
    BY <2>1, ViewAt
  <2>6. row # None
    BY <2>4, SeedsAssumption
  <2>7. new = [active |-> row.active, terms |-> row.zone]
    BY <2>4
  <2>8. new = [active |-> ~resources[c].active, terms |-> View[c].terms]
    BY <2>5
  <2> HIDE DEF row, new
  <2>9. View' = [View EXCEPT ![c] = new]
    <3>1. View = [d \in Codes |-> View[d]] /\ View' = [d \in Codes |-> View'[d]]
      BY DEF View
    <3>2. View'[c] = new
      BY <1>1, <2>1, <2>2, <2>6, <2>7 DEF View
    <3>3. \A d \in Codes : d # c => View'[d] = View[d]
      BY <1>1, <2>2 DEF View
    <3> QED BY <3>1, <3>2, <3>3
  <2>10. Steps!Switch(c)
    BY <2>1, <2>3, <2>5, <2>8, <2>9 DEF Steps!Switch
  <2> QED BY <2>1, <2>10 DEF Steps!Next
<1>7. ASSUME \/ \E p \in Loaders : Launch(p) \/ Crash(p)
             \/ Migrate \/ Tick \/ Over \/ UNCHANGED vars
             \/ \E e \in SignUps : SignUp(e)
             \/ \E o \in Outside : Book(o)
             \/ \E row \in rows : Cancel(row)
      PROVE  UNCHANGED resources
  BY <1>7 DEF Launch, Crash, Migrate, Tick, Over, vars, tables, SignUp, Book, Cancel
<1> QED BY <1>2, <1>5, <1>6, <1>7 DEF Next

(* Seen from outside, loading makes resources appear one by one and never   *)
(* changes one that is there: the steps that CatalogueSteps allows.        *)
THEOREM RefinesSteps == Spec => ImplementsSteps
PROOF
<1>1. TypeOK => Steps!Init
  <2> SUFFICES ASSUME TypeOK PROVE Steps!Init
    OBVIOUS
  <2>1. View = [c \in Codes |-> View[c]]
    BY DEF View
  <2> QED BY <2>1, ViewAt DEF Steps!Init
<1>2. TypeOK /\ OnTrack /\ TypeOK' /\ [Next]_vars => [Steps!Next]_View
  BY StepsStep
<1> QED BY <1>1, <1>2, Invariants, PTL DEF Spec, ImplementsSteps, Steps!Spec

-----------------------------------------------------------------------------
(* Nothing is skipped and nothing left half done, save by a loader that     *)
(* stands there still.                                                     *)

RoleAccounted(n) ==
  LET account == accounts[Users[n].email] IN
  account = None \/ account.role = Users[n].role \/ ~account.seeded \/ BrokenOff("role", n)

(* The windows of a loader at work on a resource are those before the next. *)
UpTo(n, w) == {Resources[n].schedule[k] : k \in 1 .. w - 1}

ScheduleAccounted(n) ==
  resources[Resources[n].code] = None
    \/ resources[Resources[n].code].schedule = Range(Resources[n].schedule)
    \/ BrokenOff("window", n)

ScheduleInOrder(p) ==
  at[p].step = "window" =>
    /\ resources[Resource(p).code].schedule = UpTo(at[p].n, at[p].w)
    /\ \A q \in Loaders : at[q].step = "window" /\ at[q].n = at[p].n => q = p

Present(n) ==
  \E r \in rows : r.resource = Reservations[n].resource /\ r.title = Reservations[n].title

(* All that a loader has passed is there. *)
Passed(p) ==
  /\ \A n \in DOMAIN Users :
       at[p].step \notin InUsers \/ n < at[p].n => accounts[Users[n].email] # None
  /\ \A n \in DOMAIN Resources :
       at[p].step \in InReservations \/ (at[p].step \in InResources /\ n < at[p].n)
         => resources[Resources[n].code] # None
  /\ \A n \in DOMAIN Reservations :
       at[p].step \in InReservations /\ n < at[p].n => Present(n)
  /\ run[p] = "loaded" => /\ at[p].step \in InReservations
                          /\ \A n \in DOMAIN Reservations : Present(n)

Accounted ==
  /\ \A n \in DOMAIN Users : RoleAccounted(n)
  /\ \A n \in DOMAIN Resources : ScheduleAccounted(n)
  /\ \A p \in Loaders : ScheduleInOrder(p) /\ Passed(p)

LEMMA AccountedEnough == Accounted => CompleteUnlessBrokenOff
PROOF
<1> SUFFICES ASSUME Accounted, NEW p \in Loaders, run[p] = "loaded"
             PROVE  CompleteUnlessBrokenOff
  BY DEF CompleteUnlessBrokenOff
<1>1. at[p].step \in InReservations /\ \A n \in DOMAIN Reservations : Present(n)
  BY DEF Accounted, Passed
<1>2. at[p].step \notin InUsers
  BY <1>1 DEF InUsers, InReservations
<1>3. /\ \A n \in DOMAIN Users : accounts[Users[n].email] # None
      /\ \A n \in DOMAIN Resources : resources[Resources[n].code] # None
  BY <1>1, <1>2 DEF Accounted, Passed
<1>4. ASSUME NEW n \in DOMAIN Users
      PROVE  \/ accounts[Users[n].email].role = Users[n].role
             \/ ~accounts[Users[n].email].seeded \/ BrokenOff("role", n)
  BY <1>3 DEF Accounted, RoleAccounted
<1>5. ASSUME NEW n \in DOMAIN Resources
      PROVE  \/ resources[Resources[n].code].schedule = Range(Resources[n].schedule)
             \/ BrokenOff("window", n)
  BY <1>3 DEF Accounted, ScheduleAccounted
<1>6. ASSUME NEW v \in Range(Reservations)
      PROVE  \E r \in rows : r.resource = v.resource /\ r.title = v.title
  <2>1. PICK n \in DOMAIN Reservations : Reservations[n] = v
    BY DEF Range
  <2> QED BY <1>1, <2>1 DEF Present
<1> QED BY <1>3, <1>4, <1>5, <1>6 DEF CompleteUnlessBrokenOff

(* A reservation that is present stays, whatever becomes of its status.     *)
LEMMA PresentStays ==
  ASSUME TypeOK, OnTrack, [Next]_vars, NEW n \in DOMAIN Reservations, Present(n)
  PROVE  Present(n)'
PROOF
<1>1. PICK r \in rows : r.resource = Reservations[n].resource /\ r.title = Reservations[n].title
  BY DEF Present
<1>2. ASSUME rows \subseteq rows'
      PROVE  Present(n)'
  BY <1>1, <1>2 DEF Present
<1>3. ASSUME NEW p \in Loaders, Load(p)
      PROVE  rows \subseteq rows'
  BY <1>3, LoadLeavesUntouched DEF Untouched
<1>4. ASSUME NEW o \in Outside, Book(o)
      PROVE  rows \subseteq rows'
  BY <1>4 DEF Book
<1>5. ASSUME NEW row \in rows, Cancel(row)
      PROVE  Present(n)'
  <2> DEFINE new == [row EXCEPT !.status = "CANCELLED"]
  <2>1. row \in Row
    BY DEF TypeOK
  <2>2. new.resource = row.resource /\ new.title = row.title
    BY <2>1 DEF Row
  <2>3. rows' = (rows \ {row}) \cup {new}
    BY <1>5 DEF Cancel
  <2> HIDE DEF new
  <2> QED BY <1>1, <2>2, <2>3 DEF Present
<1>6. ASSUME \/ \E p \in Loaders : Launch(p) \/ Crash(p)
             \/ Migrate \/ Tick \/ Over \/ UNCHANGED vars
             \/ \E e \in SignUps : SignUp(e)
             \/ \E c \in Switched : Switch(c)
      PROVE  rows' = rows
  BY <1>6 DEF Launch, Crash, Migrate, Tick, Over, vars, tables, SignUp, Switch
<1> QED BY <1>2, <1>3, <1>4, <1>5, <1>6 DEF Next

(* The places of the other loaders stand when one moves. *)
LEMMA OthersKeep ==
  ASSUME TypeOK, NEW p \in Loaders, Moves(p), NEW q \in Loaders, q # p
  PROVE  at'[q] = at[q] /\ run'[q] = run[q]
PROOF
<1>1. at \in [Loaders -> Position]
      /\ run \in [Loaders -> {"off", "running", "loaded", "failed", "crashed"}]
  BY DEF TypeOK, Position
<1> QED BY <1>1 DEF Moves

(* A loader that keeps its place keeps what it has passed. *)
LEMMA StillPassed ==
  ASSUME TypeOK, OnTrack, [Next]_vars, NEW p \in Loaders, Passed(p),
         at'[p] = at[p], run'[p] = run[p] \/ run'[p] # "loaded"
  PROVE  Passed(p)'
PROOF
<1>1. \A n \in DOMAIN Users :
        accounts[Users[n].email] # None => accounts'[Users[n].email] # None
  BY TablesGrow, DataFacts
<1>2. \A n \in DOMAIN Resources :
        resources[Resources[n].code] # None => resources'[Resources[n].code] # None
  BY TablesGrow, ResourceFacts
<1>3. \A n \in DOMAIN Reservations : Present(n) => Present(n)'
  BY PresentStays
<1> QED BY <1>1, <1>2, <1>3 DEF Passed

LEMMA UsersPass ==
  ASSUME TypeOK, OnTrack, [Next]_vars, NEW p \in Loaders, Passed(p),
         FindUser(p) \/ CreateAccount(p) \/ GrantRole(p)
  PROVE  Passed(p)'
PROOF
<1>1. at[p].step \in InUsers /\ at[p].n \in DOMAIN Users /\ at[p] \in Position
  BY UserMoves DEF OnTrack, TypeOK, Position
<1>2. \A n \in DOMAIN Users :
        accounts[Users[n].email] # None => accounts'[Users[n].email] # None
  BY TablesGrow, DataFacts
<1>3. \A n \in DOMAIN Users : n < at[p].n => accounts'[Users[n].email] # None
  BY <1>1, <1>2 DEF Passed
<1>4. run'[p] # "loaded"
  BY UserMoves
<1>5. CASE Stays(p)
  BY <1>4, <1>5, StillPassed DEF Stays
<1>6. CASE GoesOn(p, "account") \/ GoesOn(p, "role")
  <2>1. at'[p].step \in InUsers /\ at'[p].n = at[p].n
    BY <1>1, <1>6 DEF GoesOn, Position, InUsers
  <2> QED BY <1>3, <1>4, <2>1 DEF Passed, InUsers, InResources, InReservations
<1>7. CASE Advances(p, Users, "user", "type")
  <2>1. accounts'[User(p).email] # None
    <3>1. User(p).email \in Emails /\ accounts \in [Emails -> Account \cup {None}]
      BY <1>1, DataFacts DEF User, TypeOK
    <3>2. CASE UNCHANGED accounts /\ accounts[User(p).email] # None
      BY <3>2
    <3>3. CASE CreatesAccount(p)
      <4>1. [role |-> "user", seeded |-> TRUE] \in Account
        BY DEF Account
      <4> QED BY <3>1, <3>3, <4>1, SeedsAssumption DEF CreatesAccount
    <3>4. CASE Grants(p)
      BY <3>1, <3>4, TablesGrow DEF Grants, Stands, OnTrack
    <3>5. ~Stays(p)
      BY <1>1, <1>7, DataFacts
      DEF Advances, Stays, Position, InUsers
    <3>6. ~GoesOn(p, "account") /\ ~GoesOn(p, "role")
      BY <1>1, <1>7 DEF Advances, GoesOn, Position
    <3> QED BY <3>2, <3>3, <3>4, <3>5, <3>6, UserMoves
  <2>2. CASE at[p].n < Len(Users) /\ at'[p] = [step |-> "user", n |-> at[p].n + 1, w |-> 1]
    <3>1. \A n \in DOMAIN Users : n < at[p].n + 1 => n < at[p].n \/ n = at[p].n
      BY <1>1, DataFacts DEF Position
    <3> QED BY <1>3, <1>4, <2>1, <2>2, <3>1
            DEF Passed, InUsers, InResources, InReservations, User
  <2>3. CASE at[p].n = Len(Users) /\ at'[p] = [step |-> "type", n |-> 1, w |-> 1]
    <3>1. \A n \in DOMAIN Users : n < at[p].n \/ n = at[p].n
      BY <2>3, DataFacts
    <3>2. \A n \in DOMAIN Resources : ~(n < 1)
      BY DataFacts
    <3> QED BY <1>3, <1>4, <2>1, <2>3, <3>1, <3>2
            DEF Passed, InUsers, InResources, InReservations, User
  <2> QED BY <1>7, <2>2, <2>3 DEF Advances
<1> QED BY <1>5, <1>6, <1>7, UserMoves

LEMMA ResourcesPass ==
  ASSUME TypeOK, OnTrack, [Next]_vars, NEW p \in Loaders, Passed(p),
         FindType(p) \/ InsertResource(p) \/ InsertWindow(p)
  PROVE  Passed(p)'
PROOF
<1>1. at[p].step \in InResources /\ at[p].n \in DOMAIN Resources /\ at[p] \in Position
  BY ResourceMoves DEF OnTrack, TypeOK, Position
<1>2. \A n \in DOMAIN Resources :
        resources[Resources[n].code] # None => resources'[Resources[n].code] # None
  BY TablesGrow, ResourceFacts
<1>3. \A n \in DOMAIN Resources : n < at[p].n => resources'[Resources[n].code] # None
  BY <1>1, <1>2 DEF Passed
<1>4. run'[p] # "loaded"
  BY ResourceMoves
<1>5. \A n \in DOMAIN Users : accounts'[Users[n].email] # None
  <2>1. \A n \in DOMAIN Users : accounts[Users[n].email] # None
    BY <1>1 DEF Passed, InUsers, InResources
  <2> QED BY <2>1, TablesGrow, DataFacts
<1>6. CASE Stays(p)
  BY <1>4, <1>6, StillPassed DEF Stays
<1>7. CASE \/ GoesOn(p, "resource") \/ GoesOn(p, "window")
           \/ at'[p] = [at[p] EXCEPT !.w = at[p].w + 1]
  <2>1. at'[p].step \in InResources /\ at'[p].n = at[p].n
    BY <1>1, <1>7 DEF GoesOn, Position, InResources
  <2> QED BY <1>3, <1>4, <1>5, <2>1 DEF Passed, InUsers, InResources, InReservations
<1>8. CASE Advances(p, Resources, "type", "find")
  <2>1. resources'[Resource(p).code] # None
    <3>1. Resource(p).code \in Codes /\ resources \in [Codes -> ResourceRow \cup {None}]
      BY <1>1, ResourceFacts DEF Resource, TypeOK
    <3>2. CASE UNCHANGED resources /\ resources[Resource(p).code] # None
      BY <3>2
    <3>3. CASE CreatesResource(p)
      <4>1. [active |-> Resource(p).isActive, zone |-> Resource(p).timeZone,
             schedule |-> {}] \in ResourceRow
        BY <1>1, ResourceFacts DEF ResourceRow, Resource
      <4> QED BY <3>1, <3>3, <4>1, SeedsAssumption DEF CreatesResource
    <3>4. CASE AddsWindow(p)
      BY <3>1, <3>4, TablesGrow DEF AddsWindow, Stands, OnTrack
    <3>5. ~Stays(p)
      BY <1>1, <1>8, DataFacts DEF Advances, Stays, Position, InResources
    <3>6. ~GoesOn(p, "resource") /\ ~GoesOn(p, "window")
      BY <1>1, <1>8 DEF Advances, GoesOn, Position
    <3>7. at'[p] # [at[p] EXCEPT !.w = at[p].w + 1]
      BY <1>1, <1>8, DataFacts DEF Advances, Position
    <3> QED BY <3>2, <3>3, <3>4, <3>5, <3>6, <3>7, ResourceMoves
  <2>2. CASE /\ at[p].n < Len(Resources)
             /\ at'[p] = [step |-> "type", n |-> at[p].n + 1, w |-> 1]
    <3>1. \A n \in DOMAIN Resources : n < at[p].n + 1 => n < at[p].n \/ n = at[p].n
      BY <1>1, DataFacts DEF Position
    <3> QED BY <1>3, <1>4, <1>5, <2>1, <2>2, <3>1
            DEF Passed, InUsers, InResources, InReservations, Resource
  <2>3. CASE /\ at[p].n = Len(Resources)
             /\ at'[p] = [step |-> "find", n |-> 1, w |-> 1]
    <3>1. \A n \in DOMAIN Resources : n < at[p].n \/ n = at[p].n
      BY <2>3, DataFacts
    <3>2. \A n \in DOMAIN Reservations : ~(n < 1)
      BY DataFacts
    <3> QED BY <1>3, <1>4, <1>5, <2>1, <2>3, <3>1, <3>2
            DEF Passed, InUsers, InResources, InReservations, Resource
  <2> QED BY <1>8, <2>2, <2>3 DEF Advances
<1> QED BY <1>6, <1>7, <1>8, ResourceMoves

LEMMA ReservationsPass ==
  ASSUME TypeOK, OnTrack, [Next]_vars, NEW p \in Loaders, Passed(p),
         FindReservation(p) \/ InsertReservation(p)
  PROVE  Passed(p)'
PROOF
<1>1. /\ at[p].step \in InReservations /\ at[p].n \in DOMAIN Reservations
      /\ at[p] \in Position
      /\ at'[p].step \in InReservations
  BY ReservationMoves DEF OnTrack, TypeOK, Position
<1>2. \A n \in DOMAIN Reservations : n < at[p].n => Present(n)'
  <2>1. \A n \in DOMAIN Reservations : n < at[p].n => Present(n)
    BY <1>1 DEF Passed
  <2> QED BY <2>1, PresentStays
<1>3. \A n \in DOMAIN Users : accounts'[Users[n].email] # None
  <2>1. \A n \in DOMAIN Users : accounts[Users[n].email] # None
    BY <1>1 DEF Passed, InUsers, InReservations
  <2> QED BY <2>1, TablesGrow, DataFacts
<1>4. \A n \in DOMAIN Resources : resources'[Resources[n].code] # None
  <2>1. \A n \in DOMAIN Resources : resources[Resources[n].code] # None
    BY <1>1 DEF Passed
  <2> QED BY <2>1, TablesGrow, ResourceFacts
<1>5. ASSUME NEW n \in DOMAIN Reservations, n = at[p].n, Added(p)
      PROVE  Present(n)'
  BY <1>5 DEF Added, Present, Reservation
<1>6. CASE Stays(p) /\ run'[p] = "failed"
  BY <1>6, StillPassed DEF Stays
<1>7. CASE Stays(p) /\ at[p].n = Len(Reservations) /\ Added(p)
  <2>1. \A n \in DOMAIN Reservations : n < at[p].n \/ n = at[p].n
    BY <1>7, DataFacts
  <2>2. \A n \in DOMAIN Reservations : Present(n)'
    BY <1>2, <1>5, <1>7, <2>1
  <2> QED BY <1>1, <1>3, <1>4, <2>2 DEF Passed
<1>8. CASE GoesOn(p, "insert") /\ run'[p] = "running"
  <2>1. at'[p].n = at[p].n
    BY <1>1, <1>8 DEF GoesOn, Position
  <2> QED BY <1>1, <1>2, <1>3, <1>4, <1>8, <2>1 DEF Passed
<1>9. CASE /\ at'[p] = [step |-> "find", n |-> at[p].n + 1, w |-> 1]
           /\ Added(p) /\ run'[p] = "running"
  <2>1. \A n \in DOMAIN Reservations : n < at[p].n + 1 => n < at[p].n \/ n = at[p].n
    BY <1>1, DataFacts DEF Position
  <2>2. \A n \in DOMAIN Reservations : n < at'[p].n => Present(n)'
    BY <1>2, <1>5, <1>9, <2>1
  <2> QED BY <1>1, <1>3, <1>4, <1>9, <2>2 DEF Passed
<1> QED BY <1>6, <1>7, <1>8, <1>9, ReservationMoves

LEMMA PassedStep ==
  ASSUME TypeOK, OnTrack, [Next]_vars, NEW p \in Loaders, Passed(p)
  PROVE  Passed(p)'
PROOF
<1>1. CASE Load(p)
  BY <1>1, UsersPass, ResourcesPass, ReservationsPass DEF Load
<1>2. ASSUME NEW q \in Loaders, q # p, Load(q)
      PROVE  Passed(p)'
  BY <1>2, LoaderMoves, OthersKeep, StillPassed
<1>3. CASE \A q \in Loaders : ~Load(q)
  <2>1. run'[p] = run[p] \/ run'[p] # "loaded"
    <3>1. ASSUME NEW q \in Loaders, Launch(q) \/ Crash(q)
          PROVE  run'[p] = run[p] \/ run'[p] # "loaded"
      BY <3>1 DEF Launch, Crash, TypeOK
    <3> QED BY <1>3, <3>1, OthersStand
  <2> QED BY <1>3, <2>1, OthersStand, StillPassed
<1> QED BY <1>1, <1>2, <1>3

-----------------------------------------------------------------------------
(* The roles. *)

LEMMA RolesStep ==
  ASSUME TypeOK, OnTrack, [Next]_vars, NEW n \in DOMAIN Users, RoleAccounted(n)
  PROVE  RoleAccounted(n)'
PROOF
<1> DEFINE e == Users[n].email
<1>1. /\ e \in Emails /\ accounts \in [Emails -> Account \cup {None}]
      /\ accounts' \in [Emails -> Account \cup {None}]
  BY DataFacts, TablesGrow DEF TypeOK
<1>2. \A p \in Loaders : at[p].step = "role" => at[p].n \in DOMAIN Users
  BY DEF OnTrack, InUsers
<1>3. ASSUME accounts'[e] = accounts[e], ~BrokenOff("role", n) \/ BrokenOff("role", n)'
      PROVE  RoleAccounted(n)'
  BY <1>3 DEF RoleAccounted
<1>4. ASSUME NEW p \in Loaders, Moves(p),
             at[p].step = "role" /\ at[p].n = n => at'[p].step = "role" /\ at'[p].n = n
      PROVE  ~BrokenOff("role", n) \/ BrokenOff("role", n)'
  BY <1>4, OthersKeep DEF BrokenOff
<1>5. ASSUME NEW p \in Loaders, FindUser(p) \/ CreateAccount(p) \/ GrantRole(p)
      PROVE  RoleAccounted(n)'
  <2>1. Moves(p) /\ at[p].n \in DOMAIN Users /\ at[p] \in Position
    BY <1>5, UserMoves DEF OnTrack, TypeOK, Position
  <2>2. User(p) = Users[at[p].n] /\ User(p).email \in Emails
        /\ (User(p).email = e => at[p].n = n)
    BY <2>1, DataFacts, SeedsAssumption DEF User
  <2>3. CASE Stands(p, "role")
    <3>1. Grants(p)
      BY <1>5, <2>3 DEF FindUser, CreateAccount, GrantRole, Stands, Grants
    <3>2. CASE at[p].n = n
      <4>1. accounts[e] \in Account
        BY <1>1, <2>2, <2>3, <3>2 DEF Stands, OnTrack, User
      <4>2. accounts'[e] = [accounts[e] EXCEPT !.role = Users[n].role]
        BY <1>1, <2>2, <3>1, <3>2 DEF Grants
      <4>3. accounts'[e].role = Users[n].role
        BY <4>1, <4>2 DEF Account
      <4> QED BY <4>3 DEF RoleAccounted
    <3>3. CASE at[p].n # n
      <4>1. accounts'[e] = accounts[e]
        BY <1>1, <2>2, <3>1, <3>3 DEF Grants
      <4> QED BY <1>3, <1>4, <2>1, <3>3, <4>1
    <3> QED BY <3>2, <3>3
  <2>4. CASE ~Stands(p, "role") /\ UNCHANGED accounts
    BY <1>3, <1>4, <1>5, <2>1, <2>4 DEF Stands, FindUser, CreateAccount, GrantRole
  <2>5. CASE CreatesAccount(p)
    <3>1. at[p].step = "account"
      BY <2>5 DEF CreatesAccount, Stands
    <3>2. CASE User(p).email # e
      <4>1. accounts'[e] = accounts[e]
        BY <1>1, <2>2, <2>5, <3>2 DEF CreatesAccount
      <4> QED BY <1>3, <1>4, <2>1, <3>1, <4>1
    <3>3. CASE User(p).email = e /\ Users[n].role = "user"
      <4>1. accounts'[e] = [role |-> "user", seeded |-> TRUE]
        BY <1>1, <2>2, <2>5, <3>3 DEF CreatesAccount
      <4> QED BY <3>3, <4>1 DEF RoleAccounted
    <3>4. CASE User(p).email = e /\ Users[n].role # "user"
      <4>1. CreateAccount(p) /\ User(p).role # "user"
        BY <1>5, <2>2, <3>1, <3>4 DEF FindUser, GrantRole, Stands
      <4>2. Goto(p, "role")
        BY <2>5, <4>1 DEF CreateAccount, CreatesAccount
      <4>3. GoesOn(p, "role")
        BY <2>1, <4>1, <4>2, GotoMoves DEF CreateAccount, Stands, InUsers
      <4>4. at'[p].step = "role" /\ at'[p].n = n
        BY <2>1, <2>2, <3>4, <4>3 DEF GoesOn, Position
      <4> QED BY <4>4 DEF RoleAccounted, BrokenOff
    <3> QED BY <3>2, <3>3, <3>4
  <2> QED BY <1>5, <2>3, <2>4, <2>5, UserMoves DEF Grants
<1>6. ASSUME NEW p \in Loaders, ~(FindUser(p) \/ CreateAccount(p) \/ GrantRole(p)), Load(p)
      PROVE  RoleAccounted(n)'
  <2>1. UNCHANGED accounts /\ Moves(p) /\ at[p].step # "role"
    BY <1>6, ResourceMoves, ReservationMoves DEF Load, InResources, InReservations
  <2> QED BY <1>3, <1>4, <2>1
<1>7. ASSUME \A p \in Loaders : ~Load(p)
      PROVE  RoleAccounted(n)'
  <2>1. ~BrokenOff("role", n) \/ BrokenOff("role", n)'
    BY <1>7, OthersStand DEF BrokenOff
  <2>2. CASE UNCHANGED accounts
    BY <1>3, <2>1, <2>2
  <2>3. ASSUME NEW d \in SignUps, SignUp(d)
        PROVE  RoleAccounted(n)'
    <3>1. accounts' = [accounts EXCEPT ![d] = [role |-> "user", seeded |-> FALSE]]
      BY <2>3 DEF SignUp
    <3>2. CASE d = e
      <4>1. accounts'[e] = [role |-> "user", seeded |-> FALSE]
        BY <1>1, <3>1, <3>2
      <4>2. ~accounts'[e].seeded
        BY <4>1
      <4> QED BY <4>2 DEF RoleAccounted
    <3>3. CASE d # e
      BY <1>1, <1>3, <2>1, <3>1, <3>3
    <3> QED BY <3>2, <3>3
  <2>4. ASSUME \/ \E p \in Loaders : Launch(p) \/ Crash(p)
               \/ Migrate \/ Tick \/ Over \/ UNCHANGED vars
               \/ \E o \in Outside : Book(o)
               \/ \E row \in rows : Cancel(row)
               \/ \E c \in Switched : Switch(c)
        PROVE  UNCHANGED accounts
    BY <2>4 DEF Launch, Crash, Migrate, Tick, Over, vars, tables, Book, Cancel, Switch
  <2> QED BY <1>7, <2>2, <2>3, <2>4 DEF Next
<1> QED BY <1>5, <1>6, <1>7

-----------------------------------------------------------------------------
(* The schedules. *)

LEMMA UpToFacts ==
  ASSUME NEW n \in DOMAIN Resources
  PROVE  /\ UpTo(n, 1) = {}
         /\ \A w \in DOMAIN Resources[n].schedule :
              UpTo(n, w + 1) = UpTo(n, w) \cup {Resources[n].schedule[w]}
         /\ Resources[n].schedule # <<>> =>
              UpTo(n, Len(Resources[n].schedule) + 1) = Range(Resources[n].schedule)
         /\ Resources[n].schedule = <<>> => Range(Resources[n].schedule) = {}
PROOF
<1> DEFINE s == Resources[n].schedule
<1>1. Len(s) \in Nat /\ DOMAIN s = 1 .. Len(s) /\ (s # <<>> => Len(s) >= 1)
  BY ResourceFacts
<1>2. \A w \in Nat : UpTo(n, w) = {s[k] : k \in 1 .. w - 1}
  BY DEF UpTo
<1> HIDE DEF s
<1>3. UpTo(n, 1) = {}
  BY <1>2
<1>4. ASSUME NEW w \in DOMAIN s
      PROVE  UpTo(n, w + 1) = UpTo(n, w) \cup {s[w]}
  <2>1. w \in Nat /\ w >= 1 /\ w + 1 \in Nat
    BY <1>1
  <2>2. 1 .. (w + 1) - 1 = (1 .. w - 1) \cup {w}
    BY <2>1
  <2>3. UpTo(n, w) = {s[k] : k \in 1 .. w - 1}
        /\ UpTo(n, w + 1) = {s[k] : k \in 1 .. (w + 1) - 1}
    BY <1>2, <2>1
  <2> QED BY <2>2, <2>3
<1>5. UpTo(n, Len(s) + 1) = Range(s)
  <2>1. (Len(s) + 1) - 1 = Len(s) /\ Len(s) + 1 \in Nat
    BY <1>1
  <2>2. UpTo(n, Len(s) + 1) = {s[k] : k \in 1 .. (Len(s) + 1) - 1}
    BY <1>2, <2>1
  <2>3. UpTo(n, Len(s) + 1) = {s[k] : k \in DOMAIN s}
    BY <1>1, <2>1, <2>2
  <2> QED BY <2>3 DEF Range
<1>6. s = <<>> => Range(s) = {}
  BY DEF Range
<1> QED BY <1>3, <1>4, <1>5, <1>6 DEF s

Inserting(p) == Load(p) /\ AddsWindow(p)
Creating(p) == Load(p) /\ CreatesResource(p)

(* When no resource is created and no window inserted for it, a resource    *)
(* keeps its schedule.                                                     *)
LEMMA ScheduleStays ==
  ASSUME TypeOK, OnTrack, [Next]_vars, NEW c \in Codes, resources[c] # None,
         \A p \in Loaders : Inserting(p) => Resource(p).code # c
  PROVE  resources'[c].schedule = resources[c].schedule
PROOF
<1>1. resources \in [Codes -> ResourceRow \cup {None}]
  BY DEF TypeOK
<1>2. CASE UNCHANGED resources
  BY <1>2
<1>3. ASSUME NEW p \in Loaders, CreatesResource(p)
      PROVE  resources'[c] = resources[c]
  BY <1>1, <1>3 DEF CreatesResource
<1>4. ASSUME NEW p \in Loaders, Inserting(p)
      PROVE  resources'[c] = resources[c]
  BY <1>1, <1>4 DEF Inserting, AddsWindow
<1>5. ASSUME NEW d \in Switched, Switch(d)
      PROVE  resources'[c].schedule = resources[c].schedule
  <2> DEFINE row == [resources[d] EXCEPT !.active = ~@]
  <2>1. d \in Codes /\ resources[d] \in ResourceRow
    BY <1>1, <1>5, SeedsAssumption DEF Switch
  <2>2. row.schedule = resources[d].schedule
    BY <2>1 DEF ResourceRow
  <2>3. resources' = [resources EXCEPT ![d] = row]
    BY <1>5 DEF Switch
  <2> HIDE DEF row
  <2> QED BY <1>1, <2>1, <2>2, <2>3
<1>6. ASSUME NEW p \in Loaders, Load(p)
      PROVE  resources'[c].schedule = resources[c].schedule
  BY <1>2, <1>3, <1>4, <1>6, LoadKinds DEF CreatesAccount, Grants, AddsRow, Inserting
<1>7. ASSUME \/ \E p \in Loaders : Launch(p) \/ Crash(p)
             \/ Migrate \/ Tick \/ Over \/ UNCHANGED vars
             \/ \E e \in SignUps : SignUp(e)
             \/ \E o \in Outside : Book(o)
             \/ \E row \in rows : Cancel(row)
      PROVE  UNCHANGED resources
  BY <1>7 DEF Launch, Crash, Migrate, Tick, Over, vars, tables, SignUp, Book, Cancel
<1> QED BY <1>2, <1>5, <1>6, <1>7 DEF Next

(* A loader at a window that inserts it goes on to the next window or the   *)
(* next resource; one that does not, stays.                                *)
LEMMA WindowKept ==
  ASSUME TypeOK, OnTrack, [Next]_vars, NEW p \in Loaders, at[p].step = "window"
  PROVE  \/ at'[p] = at[p] /\ ~Inserting(p)
         \/ /\ Inserting(p) /\ at[p].n \in DOMAIN Resources
            /\ at[p].w \in DOMAIN Resource(p).schedule
            /\ \/ /\ at[p].w < Len(Resource(p).schedule)
                  /\ at'[p] = [at[p] EXCEPT !.w = at[p].w + 1]
               \/ /\ at[p].w = Len(Resource(p).schedule)
                  /\ at'[p].step # "window"
PROOF
<1>1. at[p] \in Position /\ at \in [Loaders -> Position]
  BY DEF TypeOK, Position
<1>2. CASE ~Load(p)
  <2>1. at'[p] = at[p]
    <3>1. ASSUME NEW q \in Loaders, q # p, Load(q)
          PROVE  at'[p] = at[p]
      BY <3>1, LoaderMoves, OthersKeep
    <3>2. CASE \A q \in Loaders : ~Load(q)
      BY <3>2, OthersStand
    <3> QED BY <1>2, <3>1, <3>2
  <2> QED BY <1>2, <2>1 DEF Inserting
<1>3. CASE Load(p)
  <2>1. InsertWindow(p)
    BY <1>3 DEF Load, FindUser, CreateAccount, GrantRole, FindType, InsertResource,
       FindReservation, InsertReservation, Stands
  <2>2. Inserting(p)
    BY <1>3, <2>1 DEF Inserting, AddsWindow, InsertWindow
  <2>3. at[p].n \in DOMAIN Resources /\ at[p].w \in DOMAIN Resource(p).schedule
    BY DEF OnTrack, InResources
  <2>4. CASE at[p].w < Len(Resource(p).schedule)
    <3>1. at' = [at EXCEPT ![p].w = at[p].w + 1]
      BY <2>1, <2>4 DEF InsertWindow
    <3>2. at'[p] = [at[p] EXCEPT !.w = at[p].w + 1]
      BY <1>1, <3>1
    <3> QED BY <2>2, <2>3, <2>4, <3>2
  <2>5. CASE at[p].w = Len(Resource(p).schedule)
    <3>1. Len(Resource(p).schedule) \in Nat
      BY <2>3, ResourceFacts DEF Resource
    <3>2. Iterate(p, "type", Resources, "find")
      BY <2>1, <2>5, <3>1 DEF InsertWindow
    <3>3. at'[p].step # "window"
      BY <1>1, <3>2 DEF Iterate, Position
    <3> QED BY <2>2, <2>3, <2>5, <3>3
  <2> QED BY <2>1, <2>4, <2>5 DEF InsertWindow
<1> QED BY <1>2, <1>3

(* Only the loader that creates a resource gets to its windows.             *)
LEMMA WindowReached ==
  ASSUME TypeOK, OnTrack, [Next]_vars, NEW p \in Loaders,
         at[p].step # "window", at'[p].step = "window"
  PROVE  /\ Creating(p) /\ at[p].n \in DOMAIN Resources
         /\ at'[p].n = at[p].n /\ at'[p].w = 1
PROOF
<1>1. at[p] \in Position /\ at[p].w = 1
  BY DEF TypeOK, Position, OnTrack
<1>2. Load(p)
  <2>1. SUFFICES ASSUME ~Load(p) PROVE at'[p] = at[p]
    OBVIOUS
  <2>2. ASSUME NEW q \in Loaders, q # p, Load(q)
        PROVE  at'[p] = at[p]
    BY <2>2, LoaderMoves, OthersKeep
  <2>3. CASE \A q \in Loaders : ~Load(q)
    BY <2>3, OthersStand
  <2> QED BY <2>1, <2>2, <2>3
<1>3. ~(FindReservation(p) \/ InsertReservation(p))
  BY ReservationMoves DEF InReservations
<1>4. ~(FindUser(p) \/ CreateAccount(p) \/ GrantRole(p))
  <2>1. SUFFICES ASSUME FindUser(p) \/ CreateAccount(p) \/ GrantRole(p)
                 PROVE  at'[p].step # "window"
    OBVIOUS
  <2>2. \/ Stays(p) \/ GoesOn(p, "account") \/ GoesOn(p, "role")
        \/ Advances(p, Users, "user", "type")
    BY <2>1, UserMoves
  <2>3. GoesOn(p, "account") \/ GoesOn(p, "role") => at'[p].step # "window"
    BY <1>1 DEF GoesOn, Position
  <2>4. Advances(p, Users, "user", "type") => at'[p].step # "window"
    BY DEF Advances
  <2> QED BY <2>2, <2>3, <2>4 DEF Stays
<1>5. FindType(p) \/ InsertResource(p) \/ InsertWindow(p)
  BY <1>2, <1>3, <1>4 DEF Load
<1>6. GoesOn(p, "window") /\ CreatesResource(p)
  <2>1. \/ Stays(p) \/ GoesOn(p, "resource")
        \/ GoesOn(p, "window") /\ CreatesResource(p)
        \/ AddsWindow(p) \/ Advances(p, Resources, "type", "find")
    BY <1>5, ResourceMoves
  <2>2. GoesOn(p, "resource") => at'[p].step # "window"
    BY <1>1 DEF GoesOn, Position
  <2>3. Advances(p, Resources, "type", "find") => at'[p].step # "window"
    BY DEF Advances
  <2> QED BY <2>1, <2>2, <2>3 DEF Stays, AddsWindow, Stands
<1>7. at[p].n \in DOMAIN Resources
  BY <1>5, ResourceMoves DEF OnTrack
<1> QED BY <1>1, <1>2, <1>6, <1>7 DEF GoesOn, Position, Creating

LEMMA OneCode ==
  ASSUME NEW m \in DOMAIN Resources, NEW n \in DOMAIN Resources,
         Resources[m].code = Resources[n].code
  PROVE  m = n
PROOF BY SeedsAssumption

LEMMA OrderStep ==
  ASSUME TypeOK, OnTrack, [Next]_vars, \A p \in Loaders : ScheduleInOrder(p),
         NEW p \in Loaders
  PROVE  ScheduleInOrder(p)'
PROOF
<1> SUFFICES ASSUME at'[p].step = "window" PROVE ScheduleInOrder(p)'
  BY DEF ScheduleInOrder
<1>1. /\ resources \in [Codes -> ResourceRow \cup {None}] /\ at[p] \in Position
  BY DEF TypeOK, Position
<1>2. CASE at[p].step = "window"
  <2> DEFINE n == at[p].n
             code == Resources[n].code
  <2>1. /\ n \in DOMAIN Resources /\ code \in Codes /\ Resource(p) = Resources[n]
        /\ resources[code] # None
        /\ resources[code].schedule = UpTo(n, at[p].w)
        /\ \A q \in Loaders : at[q].step = "window" /\ at[q].n = n => q = p
    BY <1>2, ResourceFacts DEF OnTrack, InResources, ScheduleInOrder, Resource
  <2>2. at'[p].n = n
    BY <1>1, <1>2, WindowKept DEF Position
  <2>3. ASSUME NEW q \in Loaders, at'[q].step = "window", at'[q].n = n
        PROVE  q = p
    <3>1. at[q] \in Position
      BY DEF TypeOK, Position
    <3>2. CASE at[q].step = "window"
      <4>1. at[q].n = n
        BY <2>3, <3>1, <3>2, WindowKept DEF Position
      <4> QED BY <2>1, <3>2, <4>1
    <3>3. CASE at[q].step # "window"
      <4>1. Creating(q) /\ at[q].n = n
        BY <2>3, <3>3, WindowReached
      <4>2. resources[code] = None
        BY <4>1 DEF Creating, CreatesResource, Resource
      <4> QED BY <2>1, <4>2
    <3> QED BY <3>2, <3>3
  <2>4. resources'[code].schedule = UpTo(n, at'[p].w)
    <3>1. CASE at'[p] = at[p] /\ ~Inserting(p)
      <4>1. ASSUME NEW q \in Loaders, Inserting(q)
            PROVE  Resource(q).code # code
        <5>1. at[q].step = "window" /\ at[q].n \in DOMAIN Resources /\ q # p
          BY <3>1, <4>1 DEF Inserting, AddsWindow, Stands, OnTrack, InResources
        <5>2. at[q].n # n
          BY <2>1, <5>1
        <5> QED BY <2>1, <5>1, <5>2, OneCode DEF Resource
      <4>2. resources'[code].schedule = resources[code].schedule
        BY <2>1, <4>1, ScheduleStays
      <4> QED BY <2>1, <3>1, <4>2
    <3>2. CASE /\ Inserting(p) /\ at[p].w \in DOMAIN Resource(p).schedule
               /\ at'[p] = [at[p] EXCEPT !.w = at[p].w + 1]
      <4>1. resources[code] \in ResourceRow
        BY <1>1, <2>1
      <4>2. resources' = [resources EXCEPT ![code].schedule =
                            @ \cup {Resources[n].schedule[at[p].w]}]
        BY <2>1, <3>2 DEF Inserting, AddsWindow
      <4>3. resources'[code] = [resources[code] EXCEPT !.schedule =
                                  @ \cup {Resources[n].schedule[at[p].w]}]
        BY <1>1, <2>1, <4>2
      <4>4. resources'[code].schedule
              = resources[code].schedule \cup {Resources[n].schedule[at[p].w]}
        BY <4>1, <4>3 DEF ResourceRow
      <4>5. at'[p].w = at[p].w + 1
        BY <1>1, <3>2 DEF Position
      <4> QED BY <2>1, <3>2, <4>4, <4>5, UpToFacts
    <3> QED BY <1>2, <3>1, <3>2, WindowKept
  <2>5. Resource(p)' = Resources[n]
    BY <2>2 DEF Resource
  <2> QED BY <2>2, <2>3, <2>4, <2>5 DEF ScheduleInOrder
<1>3. CASE at[p].step # "window"
  <2> DEFINE n == at[p].n
             code == Resources[n].code
  <2>1. /\ Creating(p) /\ n \in DOMAIN Resources /\ code \in Codes
        /\ at'[p].n = n /\ at'[p].w = 1
    BY <1>3, WindowReached, ResourceFacts
  <2>2. resources[code] = None /\ resources'[code].schedule = {}
    <3>1. code \in DOMAIN resources
      BY <1>1, <2>1
    <3> QED BY <2>1, <3>1 DEF Creating, CreatesResource, Resource
  <2>3. ASSUME NEW q \in Loaders, at'[q].step = "window", at'[q].n = n, q # p
        PROVE  FALSE
    <3>1. at[q] \in Position
      BY DEF TypeOK, Position
    <3>2. CASE at[q].step = "window"
      <4>1. at[q].n = n
        BY <2>3, <3>1, <3>2, WindowKept DEF Position
      <4>2. resources[code] # None
        BY <3>2, <4>1 DEF OnTrack, Resource
      <4> QED BY <2>2, <4>2
    <3>3. CASE at[q].step # "window"
      <4>1. Load(q)
        BY <2>3, <3>3, WindowReached DEF Creating
      <4>2. at'[p] = at[p]
        BY <2>3, <4>1, LoaderMoves, OthersKeep
      <4> QED BY <1>3, <4>2
    <3> QED BY <3>2, <3>3
  <2>4. Resource(p)' = Resources[n]
    BY <2>1 DEF Resource
  <2> QED BY <2>1, <2>2, <2>3, <2>4, UpToFacts DEF ScheduleInOrder
<1> QED BY <1>2, <1>3

LEMMA SchedulesStep ==
  ASSUME TypeOK, OnTrack, [Next]_vars, \A p \in Loaders : ScheduleInOrder(p),
         NEW n \in DOMAIN Resources, ScheduleAccounted(n)
  PROVE  ScheduleAccounted(n)'
PROOF
<1> DEFINE code == Resources[n].code
           s == Resources[n].schedule
<1>1. /\ code \in Codes /\ resources \in [Codes -> ResourceRow \cup {None}]
  BY ResourceFacts DEF TypeOK
<1>2. CASE resources[code] # None
  <2>1. CASE \E p \in Loaders : Inserting(p) /\ Resource(p).code = code
    <3>1. PICK p \in Loaders : Inserting(p) /\ Resource(p).code = code
      BY <2>1
    <3>2. at[p].step = "window" /\ at[p].n = n /\ Resource(p) = Resources[n]
          /\ at[p] \in Position
      <4>1. at[p].step = "window" /\ at[p].n \in DOMAIN Resources /\ at[p] \in Position
        BY <3>1 DEF Inserting, AddsWindow, Stands, OnTrack, InResources, TypeOK, Position
      <4> QED BY <3>1, <4>1, OneCode DEF Resource
    <3>3. CASE at'[p] = [at[p] EXCEPT !.w = at[p].w + 1]
      <4>1. at'[p].step = "window" /\ at'[p].n = n
        BY <3>2, <3>3 DEF Position
      <4> QED BY <4>1 DEF ScheduleAccounted, BrokenOff
    <3>4. CASE at[p].w = Len(s) /\ at[p].w \in DOMAIN s
      <4>1. resources[code].schedule = UpTo(n, at[p].w)
        BY <3>2 DEF ScheduleInOrder
      <4>2. resources[code] \in ResourceRow
        BY <1>1, <1>2
      <4>3. resources' = [resources EXCEPT ![code].schedule = @ \cup {s[at[p].w]}]
        BY <3>1, <3>2 DEF Inserting, AddsWindow
      <4>4. resources'[code] = [resources[code] EXCEPT !.schedule = @ \cup {s[at[p].w]}]
        BY <1>1, <4>3
      <4>5. resources'[code].schedule = resources[code].schedule \cup {s[at[p].w]}
        BY <4>2, <4>4 DEF ResourceRow
      <4>6. s # <<>>
        BY <3>4
      <4>7. resources'[code].schedule = Range(s)
        BY <3>4, <4>1, <4>5, <4>6, UpToFacts
      <4> QED BY <4>7 DEF ScheduleAccounted
    <3> QED BY <3>1, <3>2, <3>3, <3>4, WindowKept
  <2>2. CASE \A p \in Loaders : Inserting(p) => Resource(p).code # code
    <3>1. resources'[code].schedule = resources[code].schedule
      BY <1>1, <1>2, <2>2, ScheduleStays
    <3>2. CASE BrokenOff("window", n)
      <4>1. PICK p \in Loaders : at[p].step = "window" /\ at[p].n = n
        BY <3>2 DEF BrokenOff
      <4>2. at'[p] = at[p]
        BY <2>2, <4>1, WindowKept DEF Resource
      <4> QED BY <4>1, <4>2 DEF ScheduleAccounted, BrokenOff
    <3> QED BY <1>2, <3>1, <3>2 DEF ScheduleAccounted
  <2> QED BY <2>1, <2>2
<1>3. CASE resources[code] = None /\ resources'[code] # None
  <2>1. PICK p \in Loaders : Creating(p) /\ Resource(p).code = code
    <3>1. ASSUME NEW p \in Loaders, Load(p)
          PROVE  Creating(p) /\ Resource(p).code = code
      <4>1. CASE AddsWindow(p)
        <5>1. resources[Resource(p).code] # None
          BY <4>1 DEF AddsWindow, Stands, OnTrack
        <5>2. Resource(p).code # code
          BY <1>3, <5>1
        <5> QED BY <1>1, <1>3, <4>1, <5>2 DEF AddsWindow
      <4>2. CASE CreatesResource(p)
        BY <1>1, <1>3, <3>1, <4>2 DEF CreatesResource, Creating
      <4> QED BY <1>3, <3>1, <4>1, <4>2, LoadKinds DEF CreatesAccount, Grants, AddsRow
    <3>2. ASSUME NEW c \in Switched, Switch(c)
          PROVE  FALSE
      <4>1. c # code
        BY <1>3, <3>2 DEF Switch
      <4> QED BY <1>1, <1>3, <3>2, <4>1 DEF Switch
    <3>3. ASSUME \/ \E p \in Loaders : Launch(p) \/ Crash(p)
                 \/ Migrate \/ Tick \/ Over \/ UNCHANGED vars
                 \/ \E e \in SignUps : SignUp(e)
                 \/ \E o \in Outside : Book(o)
                 \/ \E row \in rows : Cancel(row)
          PROVE  UNCHANGED resources
      BY <3>3 DEF Launch, Crash, Migrate, Tick, Over, vars, tables, SignUp, Book, Cancel
    <3> QED BY <1>3, <3>1, <3>2, <3>3 DEF Next
  <2>2. /\ InsertResource(p) /\ at[p].n = n /\ Resource(p) = Resources[n]
        /\ at[p] \in Position /\ at \in [Loaders -> Position]
    <3>1. at[p].step = "resource" /\ at[p].n \in DOMAIN Resources
      BY <2>1 DEF Creating, CreatesResource, Stands, OnTrack, InResources
    <3>2. InsertResource(p)
      BY <2>1, <3>1 DEF Creating, Load, FindUser, CreateAccount, GrantRole, FindType,
         InsertWindow, FindReservation, InsertReservation, Stands
    <3> QED BY <2>1, <3>1, <3>2, OneCode DEF Resource, TypeOK, Position
  <2>3. CASE s # <<>>
    <3>1. Goto(p, "window") /\ run[p] = "running"
      BY <1>3, <2>2, <2>3 DEF InsertResource, AfterResource, Stands
    <3>2. at'[p].step = "window" /\ at'[p].n = n
      <4>1. GoesOn(p, "window")
        BY <3>1, GotoMoves DEF InResources
      <4> QED BY <2>2, <4>1 DEF GoesOn, Position
    <3> QED BY <3>2 DEF ScheduleAccounted, BrokenOff
  <2>4. CASE s = <<>>
    <3>1. resources'[code].schedule = {}
      BY <1>1, <2>1, <2>2 DEF Creating, CreatesResource
    <3>2. resources'[code].schedule = Range(s)
      BY <2>4, <3>1, UpToFacts
    <3> QED BY <3>2 DEF ScheduleAccounted
  <2> QED BY <2>3, <2>4
<1> QED BY <1>2, <1>3 DEF ScheduleAccounted

LEMMA AccountedInit == Init => Accounted
PROOF
<1> SUFFICES ASSUME Init PROVE Accounted
  OBVIOUS
<1>1. \A n \in DOMAIN Users : accounts[Users[n].email] = None
  BY DataFacts DEF Init
<1>2. \A n \in DOMAIN Resources : resources[Resources[n].code] = None
  BY ResourceFacts DEF Init
<1>3. \A n \in DOMAIN Users : ~(n < 1)
  BY DataFacts
<1>4. \A p \in Loaders : at[p].step = "user" /\ at[p].n = 1 /\ run[p] = "off"
  BY DEF Init
<1> QED BY <1>1, <1>2, <1>3, <1>4
        DEF Accounted, RoleAccounted, ScheduleAccounted, ScheduleInOrder, Passed,
            InUsers, InResources, InReservations

(* When a loader has reached its end, everything of the dataset is there:   *)
(* roles are right and schedules whole unless a loader stopped, or stands,  *)
(* between the two statements concerned, for every number of loaders and   *)
(* whatever other people do.                                               *)
THEOREM CompleteWhenLoaded == Spec => []CompleteUnlessBrokenOff
PROOF
<1>1. Init => Accounted
  BY AccountedInit
<1>2. TypeOK /\ OnTrack /\ Accounted /\ [Next]_vars => Accounted'
  <2> SUFFICES ASSUME TypeOK, OnTrack, Accounted, [Next]_vars PROVE Accounted'
    OBVIOUS
  <2>1. \A n \in DOMAIN Users : RoleAccounted(n)'
    BY RolesStep DEF Accounted
  <2>2. \A n \in DOMAIN Resources : ScheduleAccounted(n)'
    BY SchedulesStep DEF Accounted
  <2>3. \A p \in Loaders : ScheduleInOrder(p)'
    BY OrderStep DEF Accounted
  <2>4. \A p \in Loaders : Passed(p)'
    BY PassedStep DEF Accounted
  <2> QED BY <2>1, <2>2, <2>3, <2>4 DEF Accounted
<1>3. Spec => []Accounted
  BY <1>1, <1>2, Invariants, PTL DEF Spec
<1> QED BY <1>3, AccountedEnough, PTL

=============================================================================
