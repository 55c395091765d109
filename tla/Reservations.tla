---------------------------- MODULE Reservations ----------------------------
(***************************************************************************)
(* Reservation writes of the API, statement by statement.                  *)
(*                                                                         *)
(* A request is one execution of ReservationService.create, reschedule or  *)
(* cancel, inside one PostgreSQL transaction at READ COMMITTED: every      *)
(* SELECT sees the rows committed when it runs, a write stays in pend      *)
(* until its transaction commits, and the advisory lock of                 *)
(* ReservationLockService is given back when the transaction ends.  Each   *)
(* action is one statement together with the code that runs until the next *)
(* await.  All requests, of however many API processes, share the          *)
(* database: rows, catalogue and lock.                                     *)
(***************************************************************************)
EXTENDS ReservationRows, FiniteSets

CONSTANTS
  Requests,          \* identities of the requests of a behaviour
  Workload,          \* what a request may ask for
  EmptyKey,          \* the Idempotency-Key "", falsy but not NULL
  Admins,            \* the users whose role is admin
  Limit,             \* active_reservation_limit of each user
  Terms,             \* the terms each resource may be given by a PATCH
  Blocks,            \* maintenance periods of each resource
  Skew,              \* CLOCK_SKEW_MS of NotInThePastRule
  PoolSize,          \* connections of the TypeORM pool
  InitialTables,     \* tables a behaviour may start from
  InitialCatalogue,  \* state of each resource at the start
  CatalogueChanges,  \* may administrators change the catalogue meanwhile?
  OutsideRows,       \* rows that scripts and psql sessions may insert
  Crashes,           \* may a connection drop or a process die?
  MaxTime            \* bound of the clock

Ops == {"create", "reschedule", "cancel"}

(* The body, headers and caller of a request; None where an operation has  *)
(* no such field.                                                          *)
Message ==
  {m \in [op : Ops,
          caller : Users,
          resource : Resources \cup {None},
          id : Ids \cup {None},
          period : Interval \cup {None},
          attendees : Parties \cup {None},
          key : Keys \cup {None}] :
     /\ m.op = "create" => m.resource # None /\ m.id = None
     /\ m.op # "create" => m.id # None
     /\ m.op # "cancel" => m.period # None}

CatalogueStates == {"ABSENT", "ACTIVE", "INACTIVE"}

(* What a PATCH can change about a resource: its capacity, and through its *)
(* time zone the instants of its weekly opening hours ({}: always open).   *)
Term == [capacity : Nat \cup {None}, hours : SUBSET Interval]

Resource == [state : CatalogueStates, terms : Term]

ASSUME ReservationsAssumption ==
  /\ Workload \subseteq Message
  /\ Admins \subseteq Users
  /\ Limit \in [Users -> Nat \ {0}]
  /\ Parties \subseteq Nat
  /\ Terms \in [Resources -> SUBSET Term]
  /\ Blocks \in [Resources -> SUBSET Interval]
  /\ Skew \in Nat /\ MaxTime \in Nat /\ PoolSize \in Nat \ {0}
  /\ \A t \in InitialTables : t \in [Ids -> Row \cup {None}] /\ Consistent(t)
  /\ InitialCatalogue \in [Resources -> Resource]
  /\ \A r \in Resources : InitialCatalogue[r].terms \in Terms[r]
  /\ CatalogueChanges \in BOOLEAN /\ Crashes \in BOOLEAN
  /\ OutsideRows \subseteq Row

(* The codes of reservation.errors.ts, the 500 of an untranslated database *)
(* error, and the answer that never arrives.                               *)
ErrorCodes ==
  {"INVALID_PERIOD", "RESERVATION_NOT_FOUND", "RESERVATION_FORBIDDEN",
   "RESERVATION_ALREADY_ENDED", "RESOURCE_UNAVAILABLE", "RESERVATION_IN_PAST",
   "CAPACITY_EXCEEDED", "OUTSIDE_OPERATING_HOURS", "RESOURCE_BLOCKED",
   "OVERLAPPING_RESERVATION", "RESERVATION_LIMIT_REACHED",
   "DUPLICATE_RESERVATION", "INTERNAL_ERROR", "LOST"}

(* NULL is none of the values it is told apart from. *)
ASSUME NoneAssumption ==
  /\ None \notin Users /\ None \notin Resources /\ None \notin Ids
  /\ None \notin Keys /\ None \notin Parties /\ None \notin Requests
  /\ None \notin Row /\ None \notin Interval /\ None \notin Int
  /\ None \notin Workload /\ None \notin [id : Ids, row : Row]
  /\ None \notin ErrorCodes

VARIABLES
  rows,       \* the committed reservation table
  catalogue,  \* the committed state of each resource
  now,        \* ClockService.now()
  pc,         \* the next statement of each request
  msg,        \* what the request asks for
  ctx,        \* what its handler has read so far
  lock,       \* holder of pg_advisory_xact_lock(hash(resource)), or None
  pend,       \* the uncommitted write of its transaction, or None
  reply       \* the answer it got

vars == <<rows, catalogue, now, pc, msg, ctx, lock, pend, reply>>

(* The statements of a transaction, then those run under the lock. *)
InTransaction == {"key", "owned", "lock", "resource", "overlap", "limit",
                  "write", "commit"}
Locked == {"resource", "overlap", "limit", "write", "commit"}

NoContext == [user |-> None, resource |-> None, now |-> None]
NoReply == [code |-> "NONE", id |-> None]

Init ==
  /\ rows \in InitialTables
  /\ catalogue = InitialCatalogue
  /\ now = 0
  /\ pc = [q \in Requests |-> "new"]
  /\ msg = [q \in Requests |-> None]
  /\ ctx = [q \in Requests |-> NoContext]
  /\ lock = [r \in Resources |-> None]
  /\ pend = [q \in Requests |-> None]
  /\ reply = [q \in Requests |-> NoReply]

-----------------------------------------------------------------------------
(* Transactions. *)

Goto(q, next) == pc' = [pc EXCEPT ![q] = next]

Release(q) ==
  lock' = [r \in Resources |-> IF lock[r] = q THEN None ELSE lock[r]]

(* The transaction of q is over and its caller has an answer. *)
End(q, code, i) ==
  /\ Goto(q, "done")
  /\ pend' = [pend EXCEPT ![q] = None]
  /\ reply' = [reply EXCEPT ![q] = [code |-> code, id |-> i]]

(* An early return: COMMIT of a transaction that wrote nothing. *)
Return(q, code, i) == End(q, code, i) /\ Release(q) /\ UNCHANGED rows

(* Mutant: a session-level lock that the error path forgets. *)
ThrowKeepsLock(q, code) == End(q, code, None) /\ UNCHANGED <<lock, rows>>

(* A thrown error: TypeORM rolls back, PostgreSQL drops the lock with it. *)
Throw(q, code) == End(q, code, None) /\ Release(q) /\ UNCHANGED rows

(* The handler goes on to its next statement. *)
Continue(q, next) ==
  /\ Goto(q, next)
  /\ UNCHANGED <<rows, lock, pend, reply>>

(* The request reaches the service.  Period.create runs before a           *)
(* connection is asked for; cancel has no period.                          *)
Receive(q) ==
  /\ pc[q] = "new"
  /\ \E m \in Workload :
       /\ msg' = [msg EXCEPT ![q] = m]
       /\ \/ /\ m.op # "cancel" /\ ~ValidPeriod(m.period)
             /\ Throw(q, "INVALID_PERIOD")
          \/ /\ m.op # "cancel" => ValidPeriod(m.period)
             /\ Continue(q, "connect")
  /\ UNCHANGED <<catalogue, now, ctx>>

(* dataSource.transaction: a connection of the pool, then BEGIN.  An empty  *)
(* key is not looked up, and yet it is stored.                             *)
Connect(q) ==
  /\ pc[q] = "connect"
  /\ Cardinality({v \in Requests : pc[v] \in InTransaction}) < PoolSize
  /\ Continue(q, CASE msg[q].op # "create" -> "owned"
                   [] msg[q].op = "create" /\ msg[q].key \notin {None, EmptyKey} -> "key"
                   [] OTHER -> "lock")
  /\ ctx' = [ctx EXCEPT ![q] =
               IF msg[q].op = "create"
               THEN [NoContext EXCEPT !.user = msg[q].caller,
                                      !.resource = msg[q].resource]
               ELSE NoContext]
  /\ UNCHANGED <<catalogue, now, msg>>

-----------------------------------------------------------------------------
(* The statements before the lock. *)

(* findByIdempotencyKey: cancelled reservations count too. *)
CheckKey(q) ==
  /\ pc[q] = "key"
  /\ LET same == {i \in Taken(rows) : /\ rows[i].user = msg[q].caller
                                      /\ rows[i].key = msg[q].key}
     IN \/ \E i \in same : Return(q, "CREATED", i)
        \/ same = {} /\ Continue(q, "lock")
  /\ UNCHANGED <<catalogue, now, msg, ctx>>

(* Mutant: no ownership check. *)
MayManageAnybody(u, row) == TRUE

MayManage(u, row) == u \in Admins \/ u = row.user

(* The error getOwned throws, or None. *)
OwnershipError(q) ==
  IF rows[msg[q].id] = None THEN "RESERVATION_NOT_FOUND"
  ELSE IF ~MayManage(msg[q].caller, rows[msg[q].id]) THEN "RESERVATION_FORBIDDEN"
  ELSE None

(* getOwned, then what reschedule and cancel decide from that snapshot;    *)
(* cancel goes straight to its UPDATE, without lock and rules.             *)
ReadOwned(q) ==
  LET i == msg[q].id
      cancel == msg[q].op = "cancel"
      satisfied == cancel /\ rows[i].status = "CANCELLED"
      ended == rows[i].period.end <= now
  IN
  /\ pc[q] = "owned"
  /\ \/ /\ OwnershipError(q) # None
        /\ Throw(q, OwnershipError(q))
        /\ UNCHANGED ctx
     \/ /\ OwnershipError(q) = None /\ satisfied
        /\ Return(q, "CANCELLED", i)
        /\ UNCHANGED ctx
     \/ /\ OwnershipError(q) = None /\ ~satisfied /\ ended
        /\ Throw(q, "RESERVATION_ALREADY_ENDED")
        /\ UNCHANGED ctx
     \/ /\ OwnershipError(q) = None /\ ~satisfied /\ ~ended
        /\ Continue(q, IF cancel THEN "write" ELSE "lock")
        /\ ctx' = [ctx EXCEPT ![q].user = rows[i].user,
                              ![q].resource = rows[i].resource]
  /\ UNCHANGED <<catalogue, now, msg>>

(* Mutant: no lock is waited for. *)
AcquireNothing(q) ==
  /\ pc[q] = "lock"
  /\ Goto(q, "resource")
  /\ UNCHANGED <<rows, catalogue, now, msg, ctx, lock, pend, reply>>

(* ReservationLockService.acquire *)
AcquireLock(q) ==
  /\ pc[q] = "lock"
  /\ lock[ctx[q].resource] = None
  /\ lock' = [lock EXCEPT ![ctx[q].resource] = q]
  /\ Goto(q, "resource")
  /\ UNCHANGED <<rows, catalogue, now, msg, ctx, pend, reply>>

-----------------------------------------------------------------------------
(* The rules, in the order of reservations.module.ts. *)

ResourceIsActive(resource) == resource.state = "ACTIVE"

NotInThePast(p, t) == ~IsBefore(p, t - Skew)

SufficientCapacity(terms, n) ==
  terms.capacity = None \/ n = None \/ n <= terms.capacity

WithinOperatingHours(terms, p) ==
  terms.hours = {} \/ \E window \in terms.hours : IsWithin(p, window)

NoResourceBlock(r, p) == \A block \in Blocks[r] : ~Overlaps(p, block)

(* The error of the first of these rules to throw, or None. *)
Refusal(resource, r, p, n, t) ==
  IF ~ResourceIsActive(resource) THEN "RESOURCE_UNAVAILABLE"
  ELSE IF ~NotInThePast(p, t) THEN "RESERVATION_IN_PAST"
  ELSE IF ~SufficientCapacity(resource.terms, n) THEN "CAPACITY_EXCEEDED"
  ELSE IF ~WithinOperatingHours(resource.terms, p) THEN "OUTSIDE_OPERATING_HOURS"
  ELSE IF ~NoResourceBlock(r, p) THEN "RESOURCE_BLOCKED"
  ELSE None

(* Mutant: rescheduling skips the rules. *)
CheckResourceOfCreate(q) ==
  LET r == ctx[q].resource
      refusal == IF msg[q].op = "reschedule" THEN None
                 ELSE Refusal(catalogue[r], r, msg[q].period,
                              msg[q].attendees, now)
  IN
  /\ pc[q] = "resource"
  /\ \/ refusal # None /\ Throw(q, refusal)
     \/ refusal = None /\ Continue(q, "overlap")
  /\ ctx' = [ctx EXCEPT ![q].now = now]
  /\ UNCHANGED <<catalogue, now, msg>>

(* resources.findById, the clock, and the rules that read no reservation. *)
CheckResource(q) ==
  LET r == ctx[q].resource
      refusal == Refusal(catalogue[r], r, msg[q].period, msg[q].attendees, now)
  IN
  /\ pc[q] = "resource"
  /\ \/ refusal # None /\ Throw(q, refusal)
     \/ refusal = None /\ Continue(q, "overlap")
  /\ ctx' = [ctx EXCEPT ![q].now = now]
  /\ UNCHANGED <<catalogue, now, msg>>

(* Mutant: both bounds of the overlap query closed. *)
OverlappingClosed(q) ==
  {i \in Taken(rows) \ {msg[q].id} :
     /\ rows[i].resource = ctx[q].resource
     /\ rows[i].status = "CONFIRMED"
     /\ rows[i].period.start <= msg[q].period.end
     /\ msg[q].period.start <= rows[i].period.end}

(* findOverlapping: the confirmed rows in the way of the request; the row  *)
(* being rescheduled (msg.id, None for create) is not in its own way.      *)
Overlapping(q) ==
  {i \in Taken(rows) \ {msg[q].id} :
     /\ rows[i].resource = ctx[q].resource
     /\ rows[i].status = "CONFIRMED"
     /\ Overlaps(rows[i].period, msg[q].period)}

(* NoOverlapRule *)
CheckOverlap(q) ==
  /\ pc[q] = "overlap"
  /\ \/ Overlapping(q) # {} /\ Throw(q, "OVERLAPPING_RESERVATION")
     \/ Overlapping(q) = {} /\ Continue(q, "limit")
  /\ UNCHANGED <<catalogue, now, msg, ctx>>

(* countFutureConfirmed, with the row it leaves out *)
FutureConfirmed(u, t, except) ==
  {i \in Taken(rows) \ {except} :
     /\ rows[i].user = u
     /\ rows[i].status = "CONFIRMED"
     /\ rows[i].period.end > t}

(* Mutants: the limit off by one, in either direction. *)
CheckLimitLax(q) ==
  LET active == Cardinality(FutureConfirmed(ctx[q].user, ctx[q].now, msg[q].id))
  IN
  /\ pc[q] = "limit"
  /\ \/ active > Limit[ctx[q].user] /\ Throw(q, "RESERVATION_LIMIT_REACHED")
     \/ active <= Limit[ctx[q].user] /\ Continue(q, "write")
  /\ UNCHANGED <<catalogue, now, msg, ctx>>
CheckLimitStrict(q) ==
  LET active == Cardinality(FutureConfirmed(ctx[q].user, ctx[q].now, msg[q].id))
  IN
  /\ pc[q] = "limit"
  /\ \/ active + 1 >= Limit[ctx[q].user] /\ Throw(q, "RESERVATION_LIMIT_REACHED")
     \/ active + 1 < Limit[ctx[q].user] /\ Continue(q, "write")
  /\ UNCHANGED <<catalogue, now, msg, ctx>>

(* ActiveReservationLimitRule *)
CheckLimit(q) ==
  LET active == Cardinality(FutureConfirmed(ctx[q].user, ctx[q].now, msg[q].id))
  IN
  /\ pc[q] = "limit"
  /\ \/ active >= Limit[ctx[q].user] /\ Throw(q, "RESERVATION_LIMIT_REACHED")
     \/ active < Limit[ctx[q].user] /\ Continue(q, "write")
  /\ UNCHANGED <<catalogue, now, msg, ctx>>

-----------------------------------------------------------------------------
(* The write and the end of the transaction. *)

(* The row INSERT stores. *)
CreatedRow(q) ==
  [user |-> ctx[q].user, resource |-> ctx[q].resource,
   period |-> msg[q].period, attendees |-> msg[q].attendees,
   status |-> "CONFIRMED", key |-> msg[q].key, cancelledBy |-> None]

(* Mutant: the whole entity is saved, with the status it was read with. *)
RescheduledEntity(q) ==
  [rows[msg[q].id] EXCEPT !.period = msg[q].period,
                          !.attendees = msg[q].attendees,
                          !.status = "CONFIRMED"]

(* The row as reschedule's UPDATE leaves it: status is not among its columns. *)
RescheduledRow(q) ==
  [rows[msg[q].id] EXCEPT !.period = msg[q].period,
                          !.attendees = msg[q].attendees]

(* Mutant: cancelledBy is forgotten. *)
CancelledRowByNobody(q) == [rows[msg[q].id] EXCEPT !.status = "CANCELLED"]

(* The row as cancel's UPDATE leaves it, whatever its status is by now. *)
CancelledRow(q) ==
  [rows[msg[q].id] EXCEPT !.status = "CANCELLED",
                          !.cancelledBy = msg[q].caller]

(* A write waits for the transactions in progress that wrote this row, or  *)
(* one whose old or new version the constraints compare with it.           *)
MustWait(writers, i, row) ==
  \E v \in writers :
    /\ pend[v] # None
    /\ \/ pend[v].id = i
       \/ \E other \in {pend[v].row, rows[pend[v].id]} \ {None} :
            Clash(row, other) \/ SameKey(row, other)

(* Mutant: UNIQUE (resource, period) instead of EXCLUDE. *)
SamePeriodTaken(i, row) ==
  \E j \in Taken(rows) \ {i} : Clash(row, rows[j]) /\ row.period = rows[j].period

(* EXCLUDE reservation_no_overlap against the committed rows. *)
ExclusionViolated(i, row) == \E j \in Taken(rows) \ {i} : Clash(row, rows[j])

(* Mutants: the unique index counts the resource in, or leaves cancelled   *)
(* rows out.                                                               *)
KeyTakenOnResource(i, row) ==
  \E j \in Taken(rows) \ {i} :
    SameKey(row, rows[j]) /\ row.resource = rows[j].resource
KeyTakenByConfirmed(i, row) ==
  \E j \in Taken(rows) \ {i} :
    SameKey(row, rows[j]) /\ rows[j].status = "CONFIRMED"

(* UNIQUE reservation_idempotency_uq against the committed rows. *)
KeyTaken(i, row) == \E j \in Taken(rows) \ {i} : SameKey(row, rows[j])

(* A uuid that no row has yet. *)
Fresh(i) == rows[i] = None /\ \A v \in Requests : pend[v] # None => pend[v].id # i

(* Mutant: the lock is given back before COMMIT. *)
WriteUnlocked(q, i, row) ==
  /\ Goto(q, "commit")
  /\ pend' = [pend EXCEPT ![q] = [id |-> i, row |-> row]]
  /\ Release(q)
  /\ UNCHANGED <<rows, reply>>

Write(q, i, row) ==
  /\ Goto(q, "commit")
  /\ pend' = [pend EXCEPT ![q] = [id |-> i, row |-> row]]
  /\ UNCHANGED <<rows, lock, reply>>

(* ReservationRepository.create *)
Insert(q) ==
  /\ pc[q] = "write" /\ msg[q].op = "create"
  /\ \E i \in Ids :
       /\ Fresh(i)
       /\ ~MustWait(Requests \ {q}, i, CreatedRow(q))
       /\ IF ExclusionViolated(i, CreatedRow(q))
          THEN Throw(q, "OVERLAPPING_RESERVATION")
          ELSE IF KeyTaken(i, CreatedRow(q))
          THEN Throw(q, "DUPLICATE_RESERVATION")
          ELSE Write(q, i, CreatedRow(q))
  /\ UNCHANGED <<catalogue, now, msg, ctx>>

(* The UPDATE of reschedule; here nobody translates a refusal of the       *)
(* constraint, which reaches the client as a 500.                          *)
UpdatePeriod(q) ==
  LET i == msg[q].id
      row == RescheduledRow(q)
  IN
  /\ pc[q] = "write" /\ msg[q].op = "reschedule"
  /\ ~MustWait(Requests \ {q}, i, row)
  /\ IF ExclusionViolated(i, row)
     THEN Throw(q, "INTERNAL_ERROR")
     ELSE Write(q, i, row)
  /\ UNCHANGED <<catalogue, now, msg, ctx>>

(* The UPDATE of cancel. *)
UpdateStatus(q) ==
  LET i == msg[q].id
      row == CancelledRow(q)
  IN
  /\ pc[q] = "write" /\ msg[q].op = "cancel"
  /\ ~MustWait(Requests \ {q}, i, row)
  /\ Write(q, i, row)
  /\ UNCHANGED <<catalogue, now, msg, ctx>>

SuccessCode(op) ==
  CASE op = "create" -> "CREATED"
    [] op = "reschedule" -> "RESCHEDULED"
    [] op = "cancel" -> "CANCELLED"

(* COMMIT publishes the write and gives the lock back in one step. *)
Commit(q) ==
  /\ pc[q] = "commit"
  /\ rows' = [rows EXCEPT ![pend[q].id] = pend[q].row]
  /\ End(q, SuccessCode(msg[q].op), pend[q].id)
  /\ Release(q)
  /\ UNCHANGED <<catalogue, now, msg, ctx>>

(* The connection drops or the process dies: PostgreSQL rolls back. *)
Crash(q) ==
  /\ Crashes
  /\ pc[q] \notin {"new", "done"}
  /\ Throw(q, "LOST")
  /\ UNCHANGED <<catalogue, now, msg, ctx>>

-----------------------------------------------------------------------------
(* The surroundings of the requests. *)

(* ResourceService: no operation takes the lock or looks at a reservation. *)
ChangeResource(r, resource) ==
  /\ CatalogueChanges
  /\ catalogue' = [catalogue EXCEPT ![r] = resource]
  /\ UNCHANGED <<rows, now, pc, msg, ctx, lock, pend, reply>>

SetState(r, from, to) ==
  /\ catalogue[r].state = from
  /\ ChangeResource(r, [catalogue[r] EXCEPT !.state = to])

CreateResource(r) == SetState(r, "ABSENT", "ACTIVE")
Activate(r) == SetState(r, "INACTIVE", "ACTIVE")
Deactivate(r) == SetState(r, "ACTIVE", "INACTIVE")

(* PATCH: active or not, a resource gets other terms. *)
UpdateResource(r) ==
  /\ catalogue[r].state # "ABSENT"
  /\ \E terms \in Terms[r] :
       ChangeResource(r, [catalogue[r] EXCEPT !.terms = terms])

(* The seeds, a script or a psql session insert a row, confirmed or         *)
(* cancelled: no lock, no rules, only the constraints of the table.        *)
OutsideInsert ==
  /\ \E i \in Ids, row \in OutsideRows :
       /\ Fresh(i)
       /\ row.period.start < row.period.end
       /\ row.status # "COMPLETED"
       /\ row.status = "CANCELLED" <=> row.cancelledBy # None
       /\ ~MustWait(Requests, i, row)
       /\ ~ExclusionViolated(i, row) /\ ~KeyTaken(i, row)
       /\ rows' = [rows EXCEPT ![i] = row]
  /\ UNCHANGED <<catalogue, now, pc, msg, ctx, lock, pend, reply>>

Tick ==
  /\ now < MaxTime
  /\ now' = now + 1
  /\ UNCHANGED <<rows, catalogue, pc, msg, ctx, lock, pend, reply>>

(* Every request has been answered: a behaviour may end here. *)
Quiescent ==
  /\ \A q \in Requests : pc[q] = "done"
  /\ UNCHANGED vars

Statement(q) ==
  \/ CheckKey(q) \/ ReadOwned(q)
  \/ CheckResource(q) \/ CheckOverlap(q) \/ CheckLimit(q)
  \/ Commit(q)

Updates(q) == Insert(q) \/ UpdatePeriod(q) \/ UpdateStatus(q)

Proceed(q) == Connect(q) \/ AcquireLock(q) \/ Statement(q) \/ Updates(q)

Request(q) ==
  Receive(q) \/ Proceed(q) \/ Crash(q)

Surroundings ==
  \/ \E r \in Resources : CreateResource(r) \/ UpdateResource(r) \/ Activate(r) \/ Deactivate(r)
  \/ OutsideInsert
  \/ Tick

Next ==
  \/ \E q \in Requests : Request(q)
  \/ Surroundings
  \/ Quiescent

Spec == Init /\ [][Next]_vars

(* A started handler keeps running, and the queues of the pool, of the      *)
(* advisory lock and of the row locks serve in order: a request that could *)
(* proceed again and again does.  (At any time at most one disjunct of     *)
(* Proceed(q) can be enabled, so one strong fairness condition covers each *)
(* wait.)  Clients, administrators and crashes owe nothing.                *)
Fairness ==
  /\ \A q \in Requests : SF_vars(Proceed(q))
  /\ WF_vars(Tick)

FairSpec == Spec /\ Fairness

-----------------------------------------------------------------------------
(* Properties. *)

Labels == {"new", "connect", "done"} \cup InTransaction

SuccessCodes == {"CREATED", "RESCHEDULED", "CANCELLED"}

Context == [user : Users \cup {None},
            resource : Resources \cup {None},
            now : Nat \cup {None}]

PendingWrite == [id : Ids, row : Row]

Reply == [code : ErrorCodes \cup SuccessCodes \cup {"NONE"},
          id : Ids \cup {None}]

(* Every variable has the shape the schema and the handlers give it. *)
TypeOK ==
  /\ rows \in [Ids -> Row \cup {None}]
  /\ catalogue \in [Resources -> Resource]
  /\ now \in Nat /\ now <= MaxTime
  /\ pc \in [Requests -> Labels]
  /\ msg \in [Requests -> Workload \cup {None}]
  /\ ctx \in [Requests -> Context]
  /\ lock \in [Resources -> Requests \cup {None}]
  /\ pend \in [Requests -> PendingWrite \cup {None}]
  /\ reply \in [Requests -> Reply]

(* The central rule: whoever writes the table and however the writes       *)
(* interleave, no resource has two confirmed reservations at one instant.  *)
NoOverlap ==
  \A i, j \in Taken(rows) : i # j => ~Clash(rows[i], rows[j])

(* A request retried with its Idempotency-Key never books twice. *)
OneRowPerKey ==
  \A i, j \in Taken(rows) : i # j => ~SameKey(rows[i], rows[j])

(* Whatever stands in the way of q was inserted past the API. *)
OnlyOutsiders(q) == \A i \in Overlapping(q) : rows[i] \in OutsideRows

(* Among requests lock and rules suffice: between the overlap query and    *)
(* the write no row of another request slips in, so that the constraint    *)
(* only ever has to refuse what scripts and psql sessions got in the way.  *)
RulesSuffice ==
  \A q \in Requests :
    pc[q] = "write" /\ msg[q].op # "cancel" => OnlyOutsiders(q)

(* A raw database error (the UPDATE of reschedule has no translation, the  *)
(* INSERT of create has one) is never the work of another request: it is   *)
(* answered to a rescheduling alone, and only on account of a row inserted *)
(* from outside while it held the lock.                                    *)
OnlyOutsidersSurprise ==
  [][\A q \in Requests :
       reply[q].code # "INTERNAL_ERROR" /\ reply'[q].code = "INTERNAL_ERROR"
       => /\ msg[q].op = "reschedule" /\ lock[ctx[q].resource] = q
          /\ \E i \in Taken(rows) :
               Clash(RescheduledRow(q), rows[i]) /\ rows[i] \in OutsideRows]_reply

(* However it is interleaved with a reschedule that read the row while it  *)
(* was confirmed, a cancellation is never undone.                          *)
CancelledIsFinal ==
  [][\A i \in Taken(rows) :
       rows[i].status = "CANCELLED" => rows'[i].status = "CANCELLED"]_rows

(* No sequence of creations and reschedulings takes a user over the limit  *)
(* of future confirmed reservations.                                       *)
LimitRespected ==
  \A u \in Users : Cardinality(FutureConfirmed(u, now, None)) <= Limit[u]

(* A reservation is never made with, nor moved to, a period and a party     *)
(* that no version of its resource admits together: the rules judge both   *)
(* by one version, whatever is changed in the meantime.                    *)
RowsAdmissible ==
  \A i \in Taken(rows) :
    LET r == rows[i].resource IN
    /\ ValidPeriod(rows[i].period)
    /\ NoResourceBlock(r, rows[i].period)
    /\ \E terms \in Terms[r] :
         /\ SufficientCapacity(terms, rows[i].attendees)
         /\ WithinOperatingHours(terms, rows[i].period)

(* Only its owner or an administrator changes a reservation. *)
OwnersOnly ==
  [][\A i \in Taken(rows) : rows'[i] # rows[i] =>
       \E q \in Requests : /\ pc[q] = "commit" /\ pc'[q] = "done"
                           /\ msg[q].id = i
                           /\ msg[q].caller \in Admins \cup {rows[i].user}]_rows

(* Two creations with one key that both succeed report one reservation. *)
SameKeySameAnswer ==
  \A q, v \in Requests :
    /\ pc[q] = "done" /\ reply[q].code = "CREATED"
    /\ pc[v] = "done" /\ reply[v].code = "CREATED"
    /\ msg[q].key # None
    /\ msg[q].key = msg[v].key /\ msg[q].caller = msg[v].caller
    => reply[q].id = reply[v].id

OnlyCreations == \A q \in Requests : msg[q] # None => msg[q].op = "create"

(* Where nothing is cancelled or moved, a conflict is only ever reported   *)
(* for a slot that somebody holds: no request loses to one that was rolled *)
(* back, and adjacent periods do not conflict.                             *)
ConflictIsReal ==
  OnlyCreations =>
    \A q \in Requests : reply[q].code = "OVERLAPPING_RESERVATION" =>
      \E i \in Taken(rows) : Clash(rows[i], CreatedRow(q))

OneSlotWanted ==
  \A q, v \in Requests : msg[q] # None /\ msg[v] # None =>
    msg[q].period = msg[v].period /\ msg[q].resource = msg[v].resource

(* The answers that depend on which reservations there are. *)
ContestCodes == {"CREATED", "OVERLAPPING_RESERVATION",
                 "RESERVATION_LIMIT_REACHED", "DUPLICATE_RESERVATION"}

(* What scripts/concurrency-check.mjs tries out: when everybody asks for   *)
(* one slot, it has exactly one booking from the moment the first of them  *)
(* is told that it got the slot, or that it lost it to somebody or to a    *)
(* reservation of its own.  Nobody wins twice, and not everybody loses.    *)
ExactlyOneWins ==
  OnlyCreations /\ OneSlotWanted =>
    \A q \in Requests : reply[q].code \in ContestCodes =>
      Cardinality({i \in Taken(rows) : Clash(rows[i], CreatedRow(q))}) = 1

(* Every request is answered: neither the pool, the advisory lock nor the  *)
(* row locks keep a handler waiting for ever, whoever crashes.             *)
EveryRequestAnswered ==
  \A q \in Requests : pc[q] = "connect" ~> pc[q] = "done"

(* What a request may have to wait for: a connection of the pool, the       *)
(* advisory lock, or the end of a transaction that wrote in its way.       *)
Waits(q) ==
  \/ /\ pc[q] = "connect"
     /\ Cardinality({v \in Requests : pc[v] \in InTransaction}) >= PoolSize
  \/ pc[q] = "lock" /\ lock[ctx[q].resource] # None
  \/ /\ pc[q] = "write"
     /\ MustWait(Requests \ {q}, msg[q].id,
                 CASE msg[q].op = "create" -> CreatedRow(q)
                   [] msg[q].op = "reschedule" -> RescheduledRow(q)
                   [] msg[q].op = "cancel" -> CancelledRow(q))

(* The three queues together make no circle: as long as a request is under *)
(* way, one that is under way waits for nothing.                           *)
SomebodyProceeds ==
  (\E q \in Requests : pc[q] \notin {"new", "done"}) =>
    \E q \in Requests : pc[q] \notin {"new", "done"} /\ ~Waits(q)

(* The promise made to clients: module BookingTable. *)
Table == INSTANCE BookingTable
ImplementsTable == Table!Spec

-----------------------------------------------------------------------------
(* Why the properties hold: the inductive invariant of ReservationsProofs. *)

(* The stages of create and reschedule at which the context is complete. *)
Placed == {"lock"} \cup Locked

(* A handler is at a statement of its own operation, and has there what it *)
(* read before: a row's user and resource never change.                    *)
OnTrack(q) ==
  pc[q] \notin {"new", "done"} =>
    /\ msg[q] # None
    /\ msg[q].op # "cancel" => ValidPeriod(msg[q].period)
    /\ pc[q] = "key" => msg[q].op = "create"
    /\ pc[q] = "owned" => msg[q].op # "create"
    /\ msg[q].op = "cancel" => pc[q] \in {"connect", "owned", "write", "commit"}
    /\ msg[q].op = "create" /\ pc[q] # "connect" =>
         ctx[q].user \in Users /\ ctx[q].resource \in Resources
    /\ msg[q].op # "create" /\ pc[q] \in Placed =>
         /\ rows[msg[q].id] # None
         /\ msg[q].caller \in Admins \cup {rows[msg[q].id].user}
         /\ ctx[q].user = rows[msg[q].id].user
         /\ ctx[q].resource = rows[msg[q].id].resource

HandlersOnTrack == \A q \in Requests : OnTrack(q)

(* From the lock to the end of its transaction a request holds it. *)
LockHeld ==
  \A q \in Requests :
    pc[q] \in Locked /\ msg[q].op # "cancel" => lock[ctx[q].resource] = q

(* The row a request writes is the one its operation makes of the row that *)
(* is committed now, although other transactions committed in between.     *)
OwnWrite(q, i, row) ==
  \/ msg[q].op = "create" /\ rows[i] = None /\ row = CreatedRow(q)
  \/ msg[q].op = "reschedule" /\ i = msg[q].id /\ row = RescheduledRow(q)
  \/ msg[q].op = "cancel" /\ i = msg[q].id /\ row = CancelledRow(q)

PendingIsCurrent ==
  \A q \in Requests :
    /\ pend[q] # None <=> pc[q] = "commit"
    /\ pend[q] # None => OwnWrite(q, pend[q].id, pend[q].row)

(* Committed rows and uncommitted ones, in any combination that may be     *)
(* committed, satisfy the constraints.                                     *)
Compatible(a, b) == ~Clash(a, b) /\ ~SameKey(a, b)

PendingCompatible ==
  \A q \in Requests : pend[q] # None =>
    /\ Fits(rows, pend[q].id, pend[q].row)
    /\ \A v \in Requests \ {q} : pend[v] # None =>
         pend[v].id # pend[q].id /\ Compatible(pend[q].row, pend[v].row)

(* Once the overlap query found nothing, no request gets in the way.       *)
SlotStaysFree ==
  \A q \in Requests :
    pc[q] \in {"limit", "write"} /\ msg[q].op # "cancel" => OnlyOutsiders(q)

Inductive ==
  /\ TypeOK
  /\ HandlersOnTrack
  /\ LockHeld
  /\ PendingIsCurrent
  /\ PendingCompatible
  /\ Consistent(rows)
  /\ SlotStaysFree

-----------------------------------------------------------------------------
(* A sentence of the documentation that the code does not keep. *)

(* README.md: a retry gets "the reservation already created instead of a   *)
(* 409".  The key is looked up before the lock is awaited and not again.   *)
RetryIsNotRefused ==
  \A q, v \in Requests :
    /\ msg[q] # None /\ msg[q] = msg[v] /\ msg[q].key # None
    /\ reply[q].code = "CREATED"
    => reply[v].code \notin {"OVERLAPPING_RESERVATION",
                            "RESERVATION_LIMIT_REACHED",
                            "DUPLICATE_RESERVATION"}

=============================================================================
