# Verification of the reservation backend

TLA+ models of the reservation API under `src/`, TLC runs that check them on
small instances, and proofs, checked by TLAPS, of what holds for every instance.
Paths below are relative to the repository root; the program is
under `src/` of the repository.

## 1. Inventory

The program is a NestJS API over one PostgreSQL database. Any number of API
processes may run; they share nothing but the database. All lasting state is
rows; all waiting is in the database or in the connection pool.

| Component | State | Operations | Talks to |
| --- | --- | --- | --- |
| Booking period (`reservations/period.vo.ts`) | none (value object) | `create`, `overlaps`, `isWithin`, `isBefore` | used by rules, service, repository |
| Reservation table (migration `1756700000004`) | rows; `EXCLUDE reservation_no_overlap`; unique index on `(user_id, idempotency_key)` | INSERT, UPDATE | the last word on every write |
| Reservation writes (`reservation.service.ts`, `reservation.repository.ts`) | one transaction per request | `create`, `reschedule`, `cancel` | lock, rules, repository, catalogue, clock |
| Advisory lock (`reservation-lock.service.ts`) | one transaction-scoped lock per resource | `acquire` | taken by `create` and `reschedule` |
| Rules (`reservations/rules`) | none | seven checks in the order of `reservations.module.ts` | read catalogue, windows, blocks, reservations |
| Catalogue (`resources/`) | resources: active or not, capacity, time zone, code | create, PATCH, activate, deactivate, list | read by the rules and by availability |
| Resource types (`resource-type.service.ts`, migration `1756700000005`) | types: a code each | create, list; installed and removed by a migration | looked up by the creation of a resource and by the seeds |
| Availability (`availability.service.ts`, `intervals.util.ts`) | none | `findSlots` | reads catalogue, windows, blocks, reservations without a transaction |
| Wall clocks (`time-zone.util.ts`, `within-operating-hours.rule.ts`) | none | `wallClockIn`, `timeToMinutes` | rule and availability each have their own arithmetic |
| Users (`users/`) | role, ban, e-mail of accounts | create, update, role, ban, unban | Better Auth's tables |
| Authentication (`auth/`) | sessions (Better Auth) | guards on every request | gives every request its caller and role |
| Seeds (`database/seeds`) | none | a load of demonstration data, meant to be repeatable | accounts, resources, windows and reservations, without lock, rules and transaction |
| Scripts (`scripts/`) | none | a concurrency experiment, tooling | the API |
| Plumbing | none | migrations, configuration, health, pagination, problem+json | - |

What is hard in it:

* **Interleavings.** Every handler is a sequence of awaited statements at READ
  COMMITTED: what one statement read may be gone when the next one runs. The
  advisory lock serialises `create` and `reschedule` of one resource; it covers
  neither `cancel`, nor another resource of the same user, nor the catalogue,
  nor a writer that is not the API.
* **Waiting.** A handler holds a pool connection while it waits for the
  advisory lock, and the lock while a write waits for other transactions.
* **Crashes.** A connection may drop or a process may die between any two
  statements; PostgreSQL rolls back and drops the lock.
* **Retries.** A client repeats a creation with the same `Idempotency-Key`
  while the first one runs, after it failed, or after its reservation was
  cancelled.
* **Time.** "Not in the past", "already ended" and "future reservations" read
  the clock at different statements of one request. Opening hours are wall
  clocks of the resource's zone: days of 23 and 25 hours, windows until
  midnight, and an end stepped back by a millisecond.
* **Reads without a transaction.** Availability combines four reads; catalogue
  and users look a code or an address up in one statement and write it in
  another, with only a constraint to keep two such handlers apart.
* **Loads that are repeated.** The seeds are run again after an interruption,
  on another day, over what people have changed since, or twice at once.

What makes each component correct, in one line each: *table* - no resource has
two confirmed rows at one instant, one row per key; *writes* - every commit is a
booking, a move or a cancellation of one row by somebody entitled to it, no
cancellation is undone, every request is answered; *rules* - no row exists that
the rules would not admit, and nobody exceeds the limit; *lock* - what the rules
found free is free when it is written; *catalogue* - one resource per code, of a
type that exists, in a zone that is known, and `is_active` never at odds with
`deactivated_at`; *availability* - a slot shown is inside the opening hours and
outside every block and booking, and nothing bookable is withheld; *users* -
somebody remains administrator, a ban takes effect at once; *seeds* - after a
load everything is there, and a second one changes nothing.

## 2. Modules

| Module | What it is |
| --- | --- |
| `Periods` | the value object: validity, half-open overlap |
| `ReservationRows` | a row, the two constraints that relate rows |
| `BookingTable` | abstract specification: a table changed one row at a time by booking, moving, cancelling (or importing demonstration data), never inconsistent |
| `Reservations` | the detailed specification: requests statement by statement, their transactions, the lock, the rules, the catalogue, outside writers, the clock, crashes |
| `MCReservations` | constants and workloads of the TLC runs |
| `ReservationsProofs` | theorems about `Reservations` |
| `AdmissionProofs` | further theorems about it, on top of those: answers, the contest for a slot, rules, the limit, waiting |
| `Accounts` | user administration: the guards, the routes of `UsersController` statement by statement, sessions and sign-in |
| `MCAccounts` | constants and workloads of its TLC runs |
| `AccountsProofs` | theorems about `Accounts` |
| `WallClocks` | pure: time zones with one change of offset, local days, the rule on operating hours, and what a weekly schedule means |
| `WallClocksProofs` | lemmas on periods, local days and wall clocks, which the next two components share |
| `Availability` | `findSlots`, read by read and loop iteration by loop iteration, beside bookings and administrators |
| `MCAvailability`, `AvailabilityProofs` | its instances and its theorems |
| `CatalogueSteps` | abstract specification: what the rest of the program sees of the catalogue |
| `Catalogue` | resources and resource types statement by statement, and migration 5 |
| `MCCatalogue`, `CatalogueProofs` | its instance and its theorems |
| `SeedData` | the dataset of `seed-data.ts` |
| `Seeds` | the loader statement by statement, several loaders beside the API |
| `MCSeeds`, `SeedsProofs`, `LoadingProofs` | its instance, the theorems about its tables, and those about the reservations it loads |

How they compose: `Reservations` carries the catalogue as its surroundings, and
what these do to it is `CatalogueSteps`; `Catalogue` and `Seeds` carry the
statements and are each shown to implement `CatalogueSteps`, so that
`Reservations` may regard catalogue changes as single steps. (The inactive
resource of the dataset is registered as such; in `Reservations` that is a
creation and a deactivation.) `Availability` and `Seeds` share the clocks of
`WallClocks` with the rule on operating hours, which `Availability` is compared
with. `Reservations` in turn implements `BookingTable`.

### How `Reservations` corresponds to the code

A member of `Requests` is one execution of `ReservationService.create`,
`reschedule` or `cancel`. `pc[q]` names the next statement it awaits:

| `pc` | Action | Code |
| --- | --- | --- |
| `new` | `Receive` | the request arrives; `Period.create` may throw before any connection is used |
| `connect` | `Connect` | `dataSource.transaction`: a free pool connection, BEGIN |
| `key` | `CheckKey` | `findByIdempotencyKey`; skipped without a key and, because `''` is falsy, with the empty one |
| `owned` | `ReadOwned` | `getOwned` and what follows it: 404, 403, already cancelled, already ended |
| `lock` | `AcquireLock` | `pg_advisory_xact_lock` |
| `resource` | `CheckResource` | `resources.findById`, the clock, and the five rules that read no reservation |
| `overlap` | `CheckOverlap` | `NoOverlapRule` |
| `limit` | `CheckLimit` | `ActiveReservationLimitRule` |
| `write` | `Insert`, `UpdatePeriod`, `UpdateStatus` | the INSERT or UPDATE, with the constraints; it waits for transactions in progress it may conflict with |
| `commit` | `Commit` | COMMIT: the row appears and the lock is released in one step |

`Crash` can end a request at any statement. `CreateResource`, `UpdateResource`,
`Activate`, `Deactivate`, `OutsideInsert` and `Tick` are the surroundings. `ctx`
holds what a handler has read (owner, resource, clock), `pend` its uncommitted
write: `rows` are the committed rows, which is what every statement of another
transaction sees. `reply` is the answer: a code of `reservation.errors.ts`, the
500 of an untranslated database error, or `LOST`.

Abstractions: titles, notes, reasons and timestamps are left out; the weekly
opening hours are the set of intervals of instants they amount to in the time
zone of the resource, so that a PATCH of the zone is a change of that set;
opening windows and maintenance blocks never change, because no route changes
them; the limit of a user likewise; the operating-hours and block queries are
one step with the read of the resource for the same reason. The two statements
of `CheckLimit` (limit, count) are one step since the first reads what nobody
writes, and the SELECT after each UPDATE is part of the write, since it reads
what its own transaction wrote. TypeORM's `save` with a
generated id is a single INSERT. PostgreSQL is modelled from how the program
uses it (`MustWait`, `Write`, `Throw`, `Crash`).

### How `Accounts` corresponds to the code

A member of `Requests` is one administrative request; `pc[q]` is its next
statement: `guard` (`AuthenticationGuard`, then `RolesGuard`), `provision`
(`createAccount`), `find` (`getOrFail` and the check against acting on oneself),
`lookup` (`findByEmail`), `write` (the UPDATE of `updateProfile`, `updateRole`,
`ban` or `unban`), `revoke` (`revokeSessions`), `report` (`findOne`). There is no
transaction: each statement commits by itself, and `Crash` leaves what was
written. `sessions` are the accounts with a session; a sign-in passes the ban check
first and stores its session later (`SignIn`, `StoreSession`, both external:
Better Auth, as the comments in `better-auth.provider.ts` and
`create-user.dto.ts` describe it). `createAccount` is one step, which either
refuses a known address or inserts the account with the role `user`. Names,
passwords, reasons and the null role (read as `user`) are left out; no code
deletes accounts. The two modules share nothing but callers: in `Reservations` the role
of a caller is the one it was authenticated with.

### How `Availability` corresponds to the code

There is one query; `pc` is the statement or loop it is at.

| `pc` | Actions | Code |
| --- | --- | --- |
| `new` | `Receive` | the checks of the range |
| `resource` | `ReadResource` | `findActiveById` |
| `schedule` | `ReadSchedule` | `findByResource` of the windows; without rows the range is the window |
| `walk` | `WalkDay`, `WalkEnds` | the loop over days of `operatingWindows`, one iteration a step |
| `busy` | `ReadBlocks`, `ReadReservations`, `Sort` | `Promise.all` of the two reads, in either order, and the sort |
| `subtract` | `SkipTaken`, `PassTaken`, `CloseWindow` | `subtractFromOne`: `continue`, the gap and the cursor, `break` or the end of the loop |
| `filter` | `Filter` | `atLeast` and the answer |

`Book`, `Cancel`, `ChangeZone` and `SwitchActive` are what the rest of the program
does between the reads; no route changes windows and blocks. They are disabled
while the handler is in a loop without an `await`, because it would not notice.
Reservations and blocks that are the same interval count once, the answer is a
set of slots, and reads without ORDER BY come back in any order. A zone has one
change of offset, all that a range of at most 60 days contains. `early` is which of the
two instants the library makes of a wall clock that is read twice, or none:
both choices are checked and proved about.

### How `Catalogue` corresponds to the code

A member of `Requests` is one request to create a type or a resource, to PATCH,
to activate or to deactivate one. `pc[q]`: `type` (`types.findById`), `code`
(`findByCode`, and the check of the time zone that follows it without an
`await`), `insert` (the INSERT with its constraints), `find` (`getOrFail`, and the
checks that follow it), `write` (one of the three UPDATEs), `answer`.
`InstallTypes` and `RemoveTypes` are the two directions of migration 5, one
transaction each. A PATCH is represented by the time zone, the one column with
a check of its own; `deactivatedAt` is the request whose clock was read for it;
ids of removed types are not reused. Names, descriptions, places and capacities
are left out, and so are opening windows and blocks, which no route writes.

### How `Seeds` corresponds to the code

A member of `Loaders` is one run of `run-seeds.ts`. `run[p]` says whether it has
started, `at[p]` is its next statement - a step, an index into the dataset, a
window of the resource - and `slot[p]` the two instants it has computed. The
steps are `user`, `account`, `role` (`seedUsers`), `type`, `resource`, `window`
(`seedResources`), `find`, `insert` (`seedReservations`); nothing is in a
transaction, and `Crash` leaves what was written. `met` remembers which loaders ran
at the same time. Beside them `Migrate` (migration 5), `SignUp`, `Book`, `Cancel`,
`Switch` and `Tick`. Accounts are known by their address and resources by their
code; two reservations that look the same count as one, so that two loads at
once may insert the cancelled reservation twice unseen. The two clock readings
of one `futureInstant` pair are one; the guard against production is passed; the
SELECT after `ON CONFLICT DO NOTHING` cannot fail, since no resource is ever
removed. Rescheduling of seeded reservations is left out.

Operators named like the definition they precede and marked *Mutant* are
plausible bugs. Each run's properties are known to catch one.

## 3. Runs

In `MCReservations` one instant is half a booking slot (`Slot = 2`), a
booking lasts one or two slots, and the clock skew is one instant, less than a
slot as in the code. In `MCAvailability` a day is 8 units, a week 2 days and the
booking grid 2 units. `MCSeeds` counts minutes, with days of 1440.

| Run | Instance | Shows |
| --- | --- | --- |
| `contention` | 4 requests, 7 messages, one resource, limit 1, crashes | `RulesSuffice`, `LimitRespected`, `CancelledIsFinal`, `ConflictIsReal`, `ExactlyOneWins` (the claim of `scripts/concurrency-check.mjs`), and `Inductive`, the invariant of the proofs, of which `TypeOK` is a part |
| `outsiders` | 3 requests, 7 messages, 2 resources, a key and the empty key, 3 outside rows, crashes | `NoOverlap`, `OneRowPerKey`, `SameKeySameAnswer`, `OnlyOutsidersSurprise`, and that the system implements `BookingTable` |
| `rules` | 2 requests, 10 messages, clock 0..4, two versions of the resource, a block, an administrator | `RowsAdmissible`, `OwnersOnly` |
| `progress` | 3 requests, 2 connections, 2 resources, crashes, fairness | `EveryRequestAnswered`, `SomebodyProceeds` |
| `accounts` | 2 requests, 15 messages, 2 administrators, a user and a free id, clock 0..2, crashes | `UniqueEmails`, `AdministratorsRemain`, `BansLast`, `RawErrorsExplained`, `Inductive` |
| `availability` | 5 queries, two of them from or up to the change of offset, 4 zones (2 of them change offset inside the range), 4 schedules with windows that adjoin, overlap or reach midnight, 3 bookings, 2 sets of blocks | `GapsExact`, `WindowsComplete`, `SlotsKeepHours`, `NothingWithheld`, `StandingNotOffered`, `Inductive` |
| `catalogue` | 3 requests, 12 messages, 2 resources, 2 types, both directions of migration 5, crashes | `CodesUnique`, `TypesExist`, `ZonesKnown`, `OneCreationPerCode`, `RawErrorsExplained`, `Inductive`, and that the statements implement `CatalogueSteps` |
| `seeds` | 2 loaders, the dataset with schedules cut to 2 or 1 rows, 2 instants on either side of midnight, two days before Madrid's clocks change, a sign-up, an outside booking, a cancellation, a switched resource, crashes | `CompleteUnlessBrokenOff`, `FailuresExplained`, `OnTheHour`, `OnlyAdds`, `TwiceIsOnce`, `Inductive`, and that the loader implements `CatalogueSteps` |

`ConflictIsReal` and `ExactlyOneWins` speak of those behaviours of `contention`
in which every request is a creation; the workload contains equal, adjacent and
misaligned periods for it. `ExactlyOneWins` looks at those of them in which all
requests received so far ask for one slot, from the first answer that depends on a
reservation (`ContestCodes`): answers that do not, such as an inactive resource, say
nothing about who holds the slot.

Why the bounds are enough: a property about two rows or two writers needs two
writers and one that interferes; three requests give that, and `contention`
has a fourth so that something can commit between any two statements of
a triple. Each request draws its message freely, so an instance contains every
combination of operations. Ids suffice for every request and an outside row
in `contention`; elsewhere three ids are enough for every creation that can
succeed together, and running out of them only disables further outside rows.
In `accounts` two requests are two administrators, the number that
can disagree, and three days let a ban of one day expire. In `availability` the
ranges are up to four days and start and end inside days and windows, so that the first and
the last day are clipped and the walk passes the change of offset; every overlap of a
block with a booking or a window occurs. In `catalogue` three requests are two
rivals for a code, or for one resource, and one that interferes; a third
resource could only be a third code. In `seeds` two loaders are one after, beside or instead of
the other, and every kind of item of the dataset is among them; the windows cut
off are handled by the same statement as those kept.
Symmetry is over requests and is not used for liveness.

### Sentences the code does not keep

These runs check one sentence of the documentation each and find a behaviour of
the code that contradicts it (the quotations are in `PROJECT.json`):

| Run | Behaviour |
| --- | --- |
| `doc_retry` | two copies of a creation with one key arrive together; one gets a 409 |
| `doc_limit` | a user books two resources at once and exceeds the limit |
| `doc_last_admin` | two administrators demote or ban each other at once: none is left |
| `doc_days` | the walk over calendar days adds 24 hours: the day of 25 hours is visited twice, and from then on the walk stands at 23:00, so that a range that ends before 23:00 of its last local day loses that day |

Other differences can be read off single definitions and have no run of their
own:

* An empty key is stored but not looked up (`Connect`).
* A resource is deactivated whatever it has booked, also between the rules and the INSERT of a
  creation (`Deactivate`); `ResourceHasFutureReservationsError` is never thrown.
* A reservation that ends while its rescheduling waits for
  the lock is moved all the same (`CheckResource` reads the clock again and does
  not compare it with the end), and a cancelled one can be rescheduled, since only
  `cancel` looks at the status before (`ReadOwned`).
* The second of two concurrent cancellations overwrites who cancelled
  (`UpdateStatus`); likewise the second of two deactivations overwrites the date
  (`Write` of `Catalogue`).
* An exclusion violation of the UPDATE in `reschedule` and a unique violation of
  the UPDATE of an account's address are answered with a 500 (`Throw`;
  `UpdateProfile`). `OnlyOutsidersSurprise` and `RawErrorsExplained` say when that can happen.
* No step ever assigns COMPLETED.
* A PATCH of a resource with the time zone `""` passes the check, which tests it for truth
  first, and stores a zone that Node does not know; `null` is answered with a 500
  (`InvalidUpdate`, `Admissible`). `ZonesKnown` says that nothing else gets in.
* Migration 3 announces "One window per day per resource", and its constraint
  allows several with different starts; rule and availability handle them.
* The header of `run-seeds.ts` says that seeding twice is the same as once. That holds
  (`TwiceIsOnce`) of loads that end well. A load that dies between an account
  and its role leaves an administrator who is a plain user for good, and one that
  dies between a resource and its windows a resource with part of its hours, or
  open around the clock if it has none yet: the next load skips both.
  `CompleteUnlessBrokenOff` says that nothing else can be missing. A load on
  another day adds that day's reservations.

`LimitRespected` therefore holds in `contention`, where all requests are for one
resource and one lock covers them, and fails in `doc_limit`, where they are not.

`AdministratorsRemain` is what the check against acting on oneself does achieve: the
last active administrator is only removed by a request whose own caller has
lost the role meanwhile, so never by requests one after the other.

`SlotsKeepHours` and `NothingWithheld` compare availability with the rule: what is
offered is admitted, and what is admitted is offered. Both need clocks that show
each time of day once (`Whole`): the first those of each opening window (`UnbrokenWindows`), the
second, with `WindowsComplete`, those of all days of the range (`Steady`). It does not suffice that
the change of offset is outside a window or outside the range. A window that *closes* at a time the clock
shows twice can end an hour early or late, and a range that begins or ends at the
change has a first or last day whose midnight belongs to the other offset; the proofs
failed there, and the instance now has such ranges. On the day of the change the
two arithmetics differ, and the walk may leave out a day, as `doc_days` shows.

### Fairness

`FairSpec` assumes strong fairness of `Proceed(q)` and weak fairness of `Tick`.
A handler that runs keeps running (Node's event loop starves no promise), and
the three queues it may wait in are first come, first served: the pool of
`pg`, and PostgreSQL's lock queues for the advisory lock and for row and index
conflicts. Being served in turn is strong fairness, since such a queue may be
busy in between. At any time at most one disjunct of `Proceed(q)` can be
enabled, so one condition covers each wait. Clients, administrators, outside
writers and crashes owe nothing.

## 4. Proofs

`ReservationsProofs` proves, for every set of requests, users, resources, every
workload and every pattern of crashes, outside inserts and catalogue changes:

| Theorem | Property |
| --- | --- |
| `TypeCorrect` | `TypeOK` |
| `NeverOverlapping` | `NoOverlap` |
| `KeysAreUnique` | `OneRowPerKey` |
| `LockAndRulesSuffice` | `RulesSuffice` |
| `OutsidersAloneSurprise` | `OnlyOutsidersSurprise` |
| `CancellationsLast` | `CancelledIsFinal` |
| `OnlyOwnersChange` | `OwnersOnly` |
| `RefinesTable` | `ImplementsTable` |
| `InductiveInvariant` | `Inductive` |

`AdmissionProofs` builds on its `Inductive` and proves what a client is told and what the
rules achieve:

| Theorem | Property | Hypotheses |
| --- | --- | --- |
| `RetriesAgree` | `SameKeySameAnswer` | |
| `ConflictsAreReal` | `ConflictIsReal` | |
| `OneOfMany` | `ExactlyOneWins` | initial and outside rows are elsewhere |
| `OnlyAdmissibleRows` | `RowsAdmissible` | the rows of the initial tables and of outside writers are admissible |
| `LimitUnderOneLock` | `LimitRespected` | one resource, finitely many ids, no outside writers, initial tables within the limits |
| `NoCircleOfWaits` | `SomebodyProceeds` | |

* `RetriesAgree`: a creation acts for its caller (`CreatesForCaller`) and what it
  reports as created is a committed row with its caller and key
  (`ReportsItsKey`), even if it lost the race for the key; there is one such row.
* `ConflictsAreReal`: whoever is told of an overlap has met a committed confirmed
  row, whether by the rule or by the constraint, and where nothing is cancelled or
  moved that row is still there (`ConflictStands`).
* `OneOfMany`: where requests only create, every row is one that a request asked for, or
  elsewhere: of a user who asks for nothing, and in the way of nothing that is asked for
  (`OnlyWantedRows`). Whoever is told of the lookup of its key, of an overlap, of
  its limit or of a duplicate has met a row, which is not elsewhere (`LostToARow`), and
  which stays (`CreationsOnlyAdd`); so the slot has a row (`ContestDecided`). It has
  no second one, because wanted rows of one slot clash and the table is consistent. The
  hypothesis is what the script arranges, a slot that is free; that callers
  hold nothing else is needed because a limit used up elsewhere turns everybody
  away, and nobody gets the slot. That a limit is at least 1 is a CHECK of migration 2.
* `OnlyAdmissibleRows`: between the read of the resource and the COMMIT a handler stands
  on a version that admitted its period and attendees (`Judged`), and that
  version is one the resource really has had (`VersionsKnown`).
* `LimitUnderOneLock`: with a single resource the lock admits one handler between count
  and COMMIT (`OneHolder`), so that the room it counted is still there
  (`RoomKept`) and its COMMIT adds at most one row (`CommitAddsOne`). The
  hypothesis of a single resource is what the code's lock per resource needs:
  `doc_limit` breaks the limit with two. Outside writers are excluded because
  the seed loader counts nothing.
* `NoCircleOfWaits`: a request waits for a connection, for a lock or for a row
  (`Waits`), and each time for one that is further on: in a transaction, past the lock
  (`HoldersUnderWay`), at its COMMIT, which waits for nothing. So somebody proceeds, for every
  number of requests and connections. `progress` adds what needs fairness, that each one does.

`AccountsProofs` proves, for every set of requests, accounts and addresses:

| Theorem | Property |
| --- | --- |
| `AdministratorsKeepEachOther` | `AdministratorsRemain` |
| `BansAreKept` | `BansLast` |
| `EmailsAreUnique` | `UniqueEmails` |
| `RawErrorsAreExplained` | `RawErrorsExplained` |
| `TypeCorrect`, `InductiveInvariant` | `TypeOK`, `Inductive` |

Its `Inductive` adds `OnTrack`: what `find` established about a request (its target
exists, it does not take its caller's own rights) still holds when it writes.
`TableStep` says which steps change the table and how; every other lemma
reads that.

It also adds `AddressesExplained`: if the address an update has found free is taken when it
writes, another request took it.

`AvailabilityProofs` proves, for every zone, schedule, query and pattern of
bookings and cancellations:

| Theorem | Property |
| --- | --- |
| `GapsAreExact` | `GapsExact` |
| `NothingTakenOffered` | `StandingNotOffered` |
| `EveryHourFound` | `WindowsComplete` |
| `SlotsMeetTheRule` | `SlotsKeepHours` |
| `FreeTimeOffered` | `NothingWithheld` |
| `TypeCorrect`, `InductiveInvariant` | `TypeOK`, `Inductive` |

The argument for the first two is that of a loop invariant: `AllDealtWith` says of every instant the
cursor has passed that it is in a gap or taken, `GapsAreFree` that the gaps lie in the
windows and outside what is taken, and `CursorInWindow` that all busy intervals
passed over end before the cursor. `BusySorted` is what makes the `break` right: whatever
follows starts no earlier. `StandingWasRead` carries a reservation that was never
cancelled through the reads.

The other three follow the walk as well. `Traced` says where the windows come from: each is the row
of one day at which the walk has stopped (`WindowOf` one of the `Origins`), every such row is
there, and no two windows come from one. Where the clocks show every time once, the stops
are the midnights of the range, one for each local day, and the windows
are the opening hours (`EveryHourFound`). `FreePeriodsFound` strengthens `AllDealtWith` from
instants to periods: a bookable period that starts behind the cursor, inside one
window, and meets nothing occupied lies in *one* gap, rather than in the union of several. `SlotsMeetTheRule`
goes the other way, from the slot through its gap to the one window it lies in, and
then compares weekday and time of day of both ends as the rule does. It rests on
`LengthAssumption`: the rule compares weekdays only, so that a booking of a week could pass it, and
8 hours are less than six days. The invariant proved is `Strengthened`, of which
`Inductive` is a consequence: `Traced` is kept from the walk to the answer.

`WallClocksProofs` has what these proofs and those on seeds need of calendars:
quotient and remainder by the length of a day, which local day an instant lies in, what
becomes of a stretch of wall clock times that the clocks show once
(`StretchLasts`: it is as long in instants, and reads back as itself), and that two
periods overlap exactly if they share an instant.

`CatalogueProofs` proves, for every workload, with crashes and migration 5 at any time:

| Theorem | Property |
| --- | --- |
| `CodesAreUnique`, `TypesAreThere` | `CodesUnique`, `TypesExist` |
| `ZonesAreKnown` | `ZonesKnown` |
| `OneCreation` | `OneCreationPerCode` |
| `RawErrorsAreExplained` | `RawErrorsExplained` |
| `RefinesSteps` | `ImplementsSteps` |
| `TypeCorrect`, `InductiveInvariant` | `TypeOK`, `Inductive` |

`TableStep` says which steps change the table of resources and how: a row appears, or one
UPDATE of the three is applied to one row. `OnTrack` adds that a handler about to
write stands on a resource that exists, and `ActivityConsistent` that the CHECK
constraint never has to refuse activating or deactivating.

`SeedsProofs` proves, for every dataset, number of loaders and clock:

| Theorem | Property |
| --- | --- |
| `NothingIsTouched` | `OnlyAdds` |
| `CompleteWhenLoaded` | `CompleteUnlessBrokenOff` |
| `RefinesSteps` | `ImplementsSteps` |
| `TypeCorrect`, `InductiveInvariant` | `TypeOK`, `Inductive` |

`OnTrack` is inductive: a loader stands inside its dataset, and what it is about
to complete is an account or a resource that is there. For completeness it is
strengthened (`Accounted`) by what a loader has put behind it: every item before the one at
hand is there, complete or broken off by a loader that still stands on it.

`LoadingProofs` proves what the loader does with reservations, for every dataset of which
`DatasetAssumption` is true, every number of loaders, every clock, and whatever else is
booked, cancelled, migrated or crashes meanwhile:

| Theorem | Property |
| --- | --- |
| `LoadedOnTheHour` | `OnTheHour` |
| `SecondLoadAddsNothing` | `TwiceIsOnce` |
| `EveryFailureExplained` | `FailuresExplained` |

`DatasetAssumption` can be read off `seed-data.ts`: titles are unique, a reservation begins and ends
on one day, two of one resource share no hour unless one is cancelled, and no
clock of theirs changes between their start and end (it changes at night). The
run `seeds` evaluates it for the dataset. The invariant is `Loading`: every row with a
title of the dataset is placed at the hours of its entry on the day planned for it at some instant
(`RowsPlaced`), so is what a loader is about to insert (`SlotsPlaced`); loaders that run
together have met (`Together`); a row that a loader did not find, and that is there when it
inserts, is the work of one it has met (`Raced`); and one that has met nobody since a load
ended finds every account and resource (`NothingToCreate`). `PlacedApart` then is the
reason that the exclusion constraint never refuses the dataset itself, nor the
load of another day: two placed periods of one resource that overlap are of one day and share an hour of the dataset.

Assumptions: the named ones of the constants (`...Assumption`: their types,
consistent initial tables, None is no proper value, and the two above) and nothing else, except for the
hypotheses of the three theorems of `AdmissionProofs` that state them.

The invariants of `Reservations` need the longest argument.
None of the invariants is inductive alone, because a constraint is checked when
a row is *written* and the promise is about rows *committed* later, after other
transactions. `Inductive` adds what bridges the gap:

* `HandlersOnTrack` - what a handler read before the lock is still true of the
  row, since a row's user and resource never change; its caller is entitled;
* `LockHeld` - from the lock to the end of the transaction the lock is its own;
* `PendingIsCurrent` - an uncommitted row is what the operation makes of the row
  committed *now*: nobody else can have changed that row since;
* `PendingCompatible` - committed and uncommitted rows are compatible in every
  combination that may be committed; here the waiting of writes (`MustWait`)
  is needed, and for updates also their old versions;
* `SlotStaysFree` - after the overlap query nothing gets in the way: whoever
  commits a confirmed row on the resource must hold the lock, or is no
  request. Rows of outside writers are the exception the invariant names
  (`OnlyOutsiders`), and what remains of the claim is that a request never
  meets another request there.

There is one lemma per part (`TypeStep`, `TrackStep`, `LockStep`, `PendingStep`,
`CompatibleStep`, `SlotStep`) with one step per action. The refinement follows from
`TableStep` (only commits and outside inserts change the table), `CommitRefines`
and `OutsideRefines`.

Model-checked only: liveness (`EveryRequestAnswered`), whose fairness is out of the provers'
reach; its safety part is `NoCircleOfWaits`. Every other property of a passing run is stated by
a theorem. The four sentences the code does not keep are false, and have no theorem.

## 5. Plan

What is left:

1. `UnbrokenWindows` from what is known of zones and schedules (clocks change at night).
2. `LimitUnderOneLock` for several resources, of which each user books one only.

## 6. Not modelled

Reading routes and pagination (no state, and one condition that `ReadOwned` has too);
DTO validation and error formatting, as far as no property depends on them;
Better Auth and TypeORM internals (external); the migrations other than the
fifth, whose constraints are part of the modules and whose other columns no property reads;
widths of columns; configuration, health, the tooling scripts. `PROJECT.json`
gives the reason for each.
