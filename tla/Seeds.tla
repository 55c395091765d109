-------------------------------- MODULE Seeds -------------------------------
(***************************************************************************)
(* run-seeds.ts, the loader of demonstration data, statement by statement. *)
(* It is meant to be run again and again, beside the API and after runs    *)
(* that were interrupted; nothing keeps two of its runs apart, and it uses *)
(* no transaction.                                                         *)
(***************************************************************************)
EXTENDS WallClocks, Sequences, FiniteSets, Functions

CONSTANTS
  Loaders,       \* runs of the program
  Users,         \* the dataset of seed-data.ts
  Resources,
  Reservations,
  ZoneNamed,     \* the time zones it names
  Types,         \* codes of the resource types of migration 5
  Installed,     \* those present to begin with: a set of such sets
  SignUps,       \* addresses of the dataset that may sign up by themselves
  Outside,       \* bookings of others: resource and period
  Cancellable,   \* titles of reservations that their owners may cancel
  Switched,      \* codes of resources that administrators switch on and off
  Instants,      \* readings of the clock
  Crashes,       \* may a run be interrupted?
  None

Emails == {u.email : u \in Range(Users)}
Codes == {r.code : r \in Range(Resources)}
Titles == {v.title : v \in Range(Reservations)}

Account == [role : {"admin", "user"}, seeded : BOOLEAN]

ResourceRow ==
  [active : BOOLEAN, zone : {r.timeZone : r \in Range(Resources)},
   schedule : SUBSET OpeningWindow]

Row ==
  [resource : Codes, title : Titles \cup {None}, start : Int, end : Int,
   status : {"CONFIRMED", "CANCELLED"}]

InUsers == {"user", "account", "role"}
InResources == {"type", "resource", "window"}
InReservations == {"find", "insert"}

ASSUME SeedsAssumption ==
  /\ Instants \subseteq Int /\ Instants # {}
  /\ Users \in Seq(Range(Users)) /\ Users # <<>>
  /\ Resources \in Seq(Range(Resources)) /\ Resources # <<>>
  /\ Reservations \in Seq(Range(Reservations)) /\ Reservations # <<>>
  /\ \A m, n \in DOMAIN Users : Users[m].email = Users[n].email => m = n
  /\ \A m, n \in DOMAIN Resources : Resources[m].code = Resources[n].code => m = n
  /\ \A u \in Range(Users) : u.role \in {"admin", "user"}
  /\ \A r \in Range(Resources) :
       /\ r.type \in Types /\ r.isActive \in BOOLEAN
       /\ ZoneNamed[r.timeZone] \in Zone
       /\ r.schedule \in Seq(Range(r.schedule)) /\ Range(r.schedule) \subseteq OpeningWindow
  /\ \A v \in Range(Reservations) :
       /\ v.resource \in Codes /\ v.user \in Emails /\ v.cancelled \in BOOLEAN
       /\ {v.dayOffset, v.start, v.end} \subseteq Int
  /\ \A o \in Outside : o.resource \in Codes /\ {o.start, o.end} \subseteq Int
  /\ SignUps \subseteq Emails /\ Switched \subseteq Codes
  /\ Installed \subseteq SUBSET Types
  /\ Crashes \in BOOLEAN
  /\ None \notin Loaders /\ None \notin Titles
  /\ None \notin Account /\ None \notin ResourceRow
  /\ None \notin [start : Int, end : Int]
  /\ None \notin [active : BOOLEAN, terms : {r.timeZone : r \in Range(Resources)}]

VARIABLES
  accounts,   \* the account of each address, and whether a loader created it
  types,      \* codes in resource_type
  resources,  \* the resource of each code, with its schedule
  rows,       \* reservations; two rows that look the same count as one
  now,
  run,        \* how each loader fares
  at,         \* its next statement: step, index into the dataset, window
  slot,       \* the period it computed last
  met         \* pairs of loaders that ran at the same time

tables == <<accounts, types, resources, rows>>
vars == <<tables, now, run, at, slot, met>>

Init ==
  /\ accounts = [e \in Emails |-> None]
  /\ types \in Installed
  /\ resources = [c \in Codes |-> None]
  /\ rows = {}
  /\ now \in {t \in Instants : \A u \in Instants : t <= u}
  /\ run = [p \in Loaders |-> "off"]
  /\ at = [p \in Loaders |-> [step |-> "user", n |-> 1, w |-> 1]]
  /\ slot = [p \in Loaders |-> None]
  /\ met = {}

-----------------------------------------------------------------------------
(* The loader. *)

Stands(p, step) == run[p] = "running" /\ at[p].step = step

User(p) == Users[at[p].n]
Resource(p) == Resources[at[p].n]
Reservation(p) == Reservations[at[p].n]

Goto(p, step) ==
  /\ at' = [at EXCEPT ![p].step = step]
  /\ UNCHANGED run

(* The next iteration of a loop, or what follows the loop. *)
Iterate(p, step, data, next) ==
  /\ at' = [at EXCEPT ![p] = IF @.n < Len(data)
                             THEN [step |-> step, n |-> @.n + 1, w |-> 1]
                             ELSE [step |-> next, n |-> 1, w |-> 1]]
  /\ UNCHANGED run

Fail(p) ==
  /\ run' = [run EXCEPT ![p] = "failed"]
  /\ UNCHANGED at

(* Mutant: the tables are emptied first. *)
LaunchAfresh(p) ==
  /\ run[p] = "off"
  /\ run' = [run EXCEPT ![p] = "running"]
  /\ resources' = [c \in Codes |-> None] /\ rows' = {}
  /\ met' = met \cup {{p, q} : q \in {q \in Loaders : run[q] = "running"}}
  /\ UNCHANGED <<accounts, types, now, at, slot>>

(* main; refuseInProduction is passed. *)
Launch(p) ==
  /\ run[p] = "off"
  /\ run' = [run EXCEPT ![p] = "running"]
  /\ met' = met \cup {{p, q} : q \in {q \in Loaders : run[q] = "running"}}
  /\ UNCHANGED <<tables, now, at, slot>>

(* Mutant: the role is given to an account that was there before, too. *)
FindUserPromotes(p) ==
  /\ Stands(p, "user")
  /\ \/ accounts[User(p).email] # None /\ Goto(p, "role")
     \/ accounts[User(p).email] = None /\ Goto(p, "account")
  /\ UNCHANGED <<tables, now, slot, met>>

(* SELECT id FROM "user" *)
FindUser(p) ==
  /\ Stands(p, "user")
  /\ \/ accounts[User(p).email] # None /\ Iterate(p, "user", Users, "type")
     \/ accounts[User(p).email] = None /\ Goto(p, "account")
  /\ UNCHANGED <<tables, now, slot, met>>

(* createAccount refuses a known address, and gives the default role. *)
CreateAccount(p) ==
  /\ Stands(p, "account")
  /\ \/ /\ accounts[User(p).email] # None
        /\ Fail(p)
        /\ UNCHANGED accounts
     \/ /\ accounts[User(p).email] = None
        /\ accounts' = [accounts EXCEPT ![User(p).email] = [role |-> "user", seeded |-> TRUE]]
        /\ \/ User(p).role # "user" /\ Goto(p, "role")
           \/ User(p).role = "user" /\ Iterate(p, "user", Users, "type")
  /\ UNCHANGED <<types, resources, rows, now, slot, met>>

(* UPDATE "user" SET role, of the account just created *)
GrantRole(p) ==
  /\ Stands(p, "role")
  /\ accounts' = [accounts EXCEPT ![User(p).email].role = User(p).role]
  /\ Iterate(p, "user", Users, "type")
  /\ UNCHANGED <<types, resources, rows, now, slot, met>>

(* SELECT id FROM resource_type *)
FindType(p) ==
  /\ Stands(p, "type")
  /\ \/ Resource(p).type \in types /\ Goto(p, "resource")
     \/ Resource(p).type \notin types /\ Fail(p)
  /\ UNCHANGED <<tables, now, slot, met>>

(* Mutant: there is always a first window. *)
AfterResourceAlways(p) == Goto(p, "window")

(* The windows come next, if there are any. *)
AfterResource(p) ==
  \/ Resource(p).schedule # <<>> /\ Goto(p, "window")
  \/ Resource(p).schedule = <<>> /\ Iterate(p, "type", Resources, "find")

(* INSERT INTO resource ON CONFLICT (code) DO NOTHING; the SELECT of an     *)
(* existing row cannot fail, since no statement removes one.               *)
InsertResource(p) ==
  /\ Stands(p, "resource")
  /\ \/ /\ resources[Resource(p).code] # None
        /\ Iterate(p, "type", Resources, "find")
        /\ UNCHANGED resources
     \/ /\ resources[Resource(p).code] = None
        /\ resources' = [resources EXCEPT ![Resource(p).code] =
             [active |-> Resource(p).isActive, zone |-> Resource(p).timeZone,
              schedule |-> {}]]
        /\ AfterResource(p)
  /\ UNCHANGED <<accounts, types, rows, now, slot, met>>

(* INSERT INTO resource_availability.  The resource is this loader's own,  *)
(* so that UNIQUE (resource_id, day_of_week, start_time) is met.           *)
InsertWindow(p) ==
  /\ Stands(p, "window")
  /\ resources' = [resources EXCEPT ![Resource(p).code].schedule =
                     @ \cup {Resource(p).schedule[at[p].w]}]
  /\ \/ /\ at[p].w < Len(Resource(p).schedule)
        /\ at' = [at EXCEPT ![p].w = @ + 1]
        /\ UNCHANGED run
     \/ /\ at[p].w = Len(Resource(p).schedule)
        /\ Iterate(p, "type", Resources, "find")
  /\ UNCHANGED <<accounts, types, rows, now, slot, met>>

(* The zone of the dataset, whatever the row says by now. *)
ZoneOf(v) ==
  ZoneNamed[(CHOOSE r \in Range(Resources) : r.code = v.resource).timeZone]

(* The day a reservation is loaded for, when the clock reads t.             *)
PlannedDay(v, t) == LocalDay(ZoneOf(v), t) + v.dayOffset

(* What can be read off the dataset: titles tell reservations apart, each   *)
(* lies within one day, two of one resource share no hour unless one is    *)
(* cancelled, and none meets the hours in which the clocks of its resource *)
(* change, which is at night.                                              *)
ASSUME DatasetAssumption ==
  /\ \A m, n \in DOMAIN Reservations :
       Reservations[m].title = Reservations[n].title => m = n
  /\ \A v \in Range(Reservations) : 0 <= v.start /\ v.start < v.end /\ v.end <= DayLength
  /\ \A u, v \in Range(Reservations) :
       u # v /\ u.resource = v.resource /\ Overlaps(u, v) => u.cancelled \/ v.cancelled
  /\ \A v \in Range(Reservations), t \in Instants :
       LET midnight == PlannedDay(v, t) * DayLength IN
       Whole(ZoneOf(v), midnight + v.start, midnight + v.end)

(* Mutant: days of 24 hours from today at that hour. *)
FutureInstantByHours(v, time) ==
  ToInstant(ZoneOf(v), LocalDay(ZoneOf(v), now) * DayLength + time)
    + v.dayOffset * DayLength

(* futureInstant *)
FutureInstant(v, time) ==
  WallClockToInstant(ZoneOf(v), LocalDay(ZoneOf(v), now) + v.dayOffset, time)

Placed(v) == [start |-> FutureInstant(v, v.start), end |-> FutureInstant(v, v.end)]

(* Mutant: a reservation is found if it is in force. *)
AlreadyConfirmed(v, period) ==
  \E r \in rows : /\ r.resource = v.resource /\ r.title = v.title
                  /\ r.start = period.start /\ r.status = "CONFIRMED"

(* Whatever its status, its end and its user. *)
AlreadyThere(v, period) ==
  \E r \in rows : /\ r.resource = v.resource /\ r.title = v.title
                  /\ r.start = period.start

(* Mutant: the loop ends one reservation early. *)
NextReservationShort(p) ==
  /\ slot' = [slot EXCEPT ![p] = None]
  /\ \/ /\ at[p].n < Len(Reservations) - 1
        /\ Iterate(p, "find", Reservations, "find")
     \/ /\ at[p].n >= Len(Reservations) - 1
        /\ run' = [run EXCEPT ![p] = "loaded"]
        /\ UNCHANGED at

NextReservation(p) ==
  /\ slot' = [slot EXCEPT ![p] = None]
  /\ \/ /\ at[p].n < Len(Reservations)
        /\ Iterate(p, "find", Reservations, "find")
     \/ /\ at[p].n = Len(Reservations)
        /\ run' = [run EXCEPT ![p] = "loaded"]
        /\ UNCHANGED at

(* SELECT id FROM reservation, for the instants computed before it *)
FindReservation(p) ==
  /\ Stands(p, "find")
  /\ LET period == Placed(Reservation(p)) IN
     \/ AlreadyThere(Reservation(p), period) /\ NextReservation(p)
     \/ /\ ~AlreadyThere(Reservation(p), period)
        /\ slot' = [slot EXCEPT ![p] = period]
        /\ Goto(p, "insert")
  /\ UNCHANGED <<tables, now, met>>

(* Mutant: cancelled reservations are loaded as confirmed ones. *)
NewRowConfirmed(p) ==
  [resource |-> Reservation(p).resource, title |-> Reservation(p).title,
   start |-> slot[p].start, end |-> slot[p].end, status |-> "CONFIRMED"]

NewRow(p) ==
  [resource |-> Reservation(p).resource, title |-> Reservation(p).title,
   start |-> slot[p].start, end |-> slot[p].end,
   status |-> IF Reservation(p).cancelled THEN "CANCELLED" ELSE "CONFIRMED"]

(* reservation_no_overlap *)
Excluded(row) ==
  /\ row.status = "CONFIRMED"
  /\ \E r \in rows : /\ r.resource = row.resource /\ r.status = "CONFIRMED"
                     /\ Overlaps(r, row)

(* ... and reservation_valid_range *)
Refused(row) == row.end <= row.start \/ Excluded(row)

(* INSERT INTO reservation *)
InsertReservation(p) ==
  /\ Stands(p, "insert")
  /\ \/ Refused(NewRow(p)) /\ Fail(p) /\ UNCHANGED <<rows, slot>>
     \/ /\ ~Refused(NewRow(p))
        /\ rows' = rows \cup {NewRow(p)}
        /\ NextReservation(p)
  /\ UNCHANGED <<accounts, types, resources, now, met>>

(* The process is interrupted, or loses its connection. *)
Crash(p) ==
  /\ Crashes
  /\ run[p] = "running"
  /\ run' = [run EXCEPT ![p] = "crashed"]
  /\ UNCHANGED <<tables, now, at, slot, met>>

Load(p) ==
  \/ FindUser(p) \/ CreateAccount(p) \/ GrantRole(p)
  \/ FindType(p) \/ InsertResource(p) \/ InsertWindow(p)
  \/ FindReservation(p) \/ InsertReservation(p)

-----------------------------------------------------------------------------
(* What happens beside it. *)

Migrate ==
  /\ types # Types
  /\ types' = Types
  /\ UNCHANGED <<accounts, resources, rows, now, run, at, slot, met>>

SignUp(e) ==
  /\ e \in SignUps /\ accounts[e] = None
  /\ accounts' = [accounts EXCEPT ![e] = [role |-> "user", seeded |-> FALSE]]
  /\ UNCHANGED <<types, resources, rows, now, run, at, slot, met>>

(* The API: a booking, a cancellation, a resource switched on or off. *)
Book(o) ==
  LET row == [resource |-> o.resource, title |-> None, start |-> o.start,
              end |-> o.end, status |-> "CONFIRMED"]
  IN
  /\ resources[o.resource] # None /\ resources[o.resource].active
  /\ now < o.start
  /\ ~Refused(row)
  /\ rows' = rows \cup {row}
  /\ UNCHANGED <<accounts, types, resources, now, run, at, slot, met>>

Cancel(row) ==
  /\ row.title \in Cancellable /\ row.status = "CONFIRMED" /\ now < row.end
  /\ rows' = (rows \ {row}) \cup {[row EXCEPT !.status = "CANCELLED"]}
  /\ UNCHANGED <<accounts, types, resources, now, run, at, slot, met>>

Switch(c) ==
  /\ resources[c] # None
  /\ resources' = [resources EXCEPT ![c].active = ~@]
  /\ UNCHANGED <<accounts, types, rows, now, run, at, slot, met>>

Tick ==
  /\ \E t \in Instants : now < t /\ now' = t
  /\ UNCHANGED <<tables, run, at, slot, met>>

(* Every loader has ended: a behaviour may stop. *)
Over ==
  /\ \A p \in Loaders : run[p] \in {"loaded", "failed", "crashed"}
  /\ UNCHANGED vars

-----------------------------------------------------------------------------

Next ==
  \/ \E p \in Loaders : Launch(p) \/ Load(p) \/ Crash(p)
  \/ Migrate \/ Tick
  \/ \E e \in SignUps : SignUp(e)
  \/ \E o \in Outside : Book(o)
  \/ \E row \in rows : Cancel(row)
  \/ \E c \in Switched : Switch(c)
  \/ Over

Spec == Init /\ [][Next]_vars

-----------------------------------------------------------------------------
(* Properties. *)

TypeOK ==
  /\ accounts \in [Emails -> Account \cup {None}]
  /\ types \subseteq Types
  /\ resources \in [Codes -> ResourceRow \cup {None}]
  /\ rows \subseteq Row /\ \A r \in rows : r.start < r.end
  /\ now \in Instants
  /\ run \in [Loaders -> {"off", "running", "loaded", "failed", "crashed"}]
  /\ at \in [Loaders -> [step : InUsers \cup InResources \cup InReservations,
                         n : Nat \ {0}, w : Nat \ {0}]]
  /\ slot \in [Loaders -> [start : Int, end : Int] \cup {None}]
  /\ met \subseteq SUBSET Loaders

(* A loader, at work or broken off, has still to do a step for the n-th     *)
(* item of its dataset, which it created.                                  *)
BrokenOff(step, n) == \E p \in Loaders : at[p].step = step /\ at[p].n = n

(* "Every step skips what is already there": when a loader has loaded, all  *)
(* is there, except what another run left half done, or another person     *)
(* made: a role that was never granted, windows that were never inserted.  *)
CompleteUnlessBrokenOff ==
  (\E p \in Loaders : run[p] = "loaded") =>
    /\ \A n \in DOMAIN Users :
         LET account == accounts[Users[n].email] IN
         /\ account # None
         /\ account.role = Users[n].role \/ ~account.seeded \/ BrokenOff("role", n)
    /\ \A n \in DOMAIN Resources :
         LET resource == resources[Resources[n].code] IN
         /\ resource # None
         /\ \/ resource.schedule = Range(Resources[n].schedule)
            \/ BrokenOff("window", n)
    /\ \A v \in Range(Reservations) :
         \E r \in rows : r.resource = v.resource /\ r.title = v.title

(* A loader fails for want of a type, or because somebody took an address   *)
(* or inserted the same reservation under its hands, or against a booking  *)
(* of somebody else: never against its own data or what a load of another  *)
(* day has left, whatever zones and changes of the clock lie between.      *)
FailuresExplained ==
  \A p \in Loaders :
    run[p] = "failed" =>
      \/ at[p].step = "type"
      \/ at[p].step = "account" /\ accounts[User(p).email] # None
      \/ /\ at[p].step = "insert"
         /\ \E r \in rows :
              /\ r.resource = Reservation(p).resource /\ Overlaps(r, slot[p])
              /\ \/ r.title = None
                 \/ /\ r.title = Reservation(p).title
                    /\ \E q \in Loaders : {p, q} \in met

(* A reservation is loaded at the hour of the dataset on the wall of its    *)
(* resource, and lasts as long, on either side of a change of the clock.   *)
OnTheHour ==
  \A r \in rows, v \in Range(Reservations) :
    r.title = v.title =>
      /\ MinutesOfDay(ZoneOf(v), r.start) = v.start
      /\ r.end - r.start = v.end - v.start

(* The loader adds and never touches what it did not create: accounts of    *)
(* others are not promoted, resources not reset, reservations not removed. *)
OnlyAdds ==
  [][(\E p \in Loaders : Load(p)) =>
       /\ \A e \in Emails :
            accounts[e] # None /\ ~accounts[e].seeded => accounts'[e] = accounts[e]
       /\ \A c \in Codes :
            resources[c] # None =>
              /\ resources'[c].active = resources[c].active
              /\ resources'[c].zone = resources[c].zone
              /\ resources[c].schedule \subseteq resources'[c].schedule
       /\ rows \subseteq rows']_vars

(* "make seed twice is the same as once": after a load, a loader that runs  *)
(* alone adds nothing but the reservations of another day.                 *)
TwiceIsOnce ==
  [][\A p, q \in Loaders :
       Load(p) /\ run[q] = "loaded" /\ (\A o \in Loaders : {p, o} \notin met) =>
         /\ UNCHANGED <<accounts, resources>>
         /\ \A r \in rows' \ rows, old \in rows :
              old.resource = r.resource /\ old.title = r.title => old.start # r.start
    ]_vars

View ==
  [c \in Codes |->
     IF resources[c] = None THEN None
     ELSE [active |-> resources[c].active, terms |-> resources[c].zone]]

Steps == INSTANCE CatalogueSteps
         WITH catalogue <- View, Resources <- Codes,
              Terms <- {r.timeZone : r \in Range(Resources)}

ImplementsSteps == Steps!Spec

-----------------------------------------------------------------------------
(* Where a loader stands, and what it holds. *)
OnTrack ==
  \A p \in Loaders :
    /\ at[p].step \in InUsers => at[p].n \in DOMAIN Users
    /\ at[p].step \in InResources => at[p].n \in DOMAIN Resources
    /\ at[p].step \in InReservations => at[p].n \in DOMAIN Reservations
    /\ at[p].step = "role" => /\ accounts[User(p).email] # None
                              /\ accounts[User(p).email].seeded
    /\ at[p].step = "window" => /\ resources[Resource(p).code] # None
                                /\ at[p].w \in DOMAIN Resource(p).schedule
    /\ at[p].step # "window" => at[p].w = 1
    /\ at[p].step = "insert" /\ run[p] # "loaded" => slot[p] # None

Inductive == TypeOK /\ OnTrack

=============================================================================
