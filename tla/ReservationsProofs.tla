------------------------- MODULE ReservationsProofs -------------------------
(***************************************************************************)
(* Proofs that the properties of Reservations hold for every number of     *)
(* requests, rows, users and resources and every workload.                 *)
(***************************************************************************)
EXTENDS Reservations, TLAPS

(* What a message of the workload consists of. *)
LEMMA MessageFacts ==
  ASSUME NEW m \in Workload
  PROVE  /\ m # None
         /\ m.op \in Ops /\ m.caller \in Users
         /\ m.resource \in Resources \cup {None}
         /\ m.id \in Ids \cup {None}
         /\ m.period \in Interval \cup {None}
         /\ m.attendees \in Parties \cup {None}
         /\ m.key \in Keys \cup {None}
         /\ m.op = "create" => m.resource \in Resources /\ m.id = None
         /\ m.op # "create" => m.id \in Ids
         /\ m.op # "cancel" => m.period \in Interval
PROOF BY ReservationsAssumption, NoneAssumption DEF Message

(* The rows the three writes store. *)
LEMMA NewRowTypes ==
  ASSUME TypeOK, HandlersOnTrack, NEW q \in Requests, pc[q] \in Placed
  PROVE  /\ msg[q].op = "create" => CreatedRow(q) \in Row
         /\ msg[q].op = "reschedule" => RescheduledRow(q) \in Row
         /\ msg[q].op = "cancel" => CancelledRow(q) \in Row
PROOF
<1> msg[q] \in Workload
  BY DEF TypeOK, HandlersOnTrack, OnTrack, Placed, Locked
<1>1. CASE msg[q].op = "create"
  <2>1. ctx[q].user \in Users /\ ctx[q].resource \in Resources
    BY <1>1 DEF HandlersOnTrack, OnTrack, Placed, Locked
  <2> QED
    BY <1>1, <2>1, MessageFacts DEF CreatedRow, Row, Status
<1>2. CASE msg[q].op # "create"
  <2>1. rows[msg[q].id] \in Row
    BY <1>2, MessageFacts DEF TypeOK, HandlersOnTrack, OnTrack, Placed, Locked
  <2> QED
    BY <1>2, <2>1, MessageFacts DEF RescheduledRow, CancelledRow, Row, Status
<1> QED BY <1>1, <1>2

(* TypeOK in two halves: what the transaction operators assign, and what   *)
(* each action assigns itself.                                             *)
ControlTypes ==
  /\ rows \in [Ids -> Row \cup {None}]
  /\ pc \in [Requests -> Labels]
  /\ lock \in [Resources -> Requests \cup {None}]
  /\ pend \in [Requests -> PendingWrite \cup {None}]
  /\ reply \in [Requests -> Reply]

DataTypes ==
  /\ catalogue \in [Resources -> Resource]
  /\ now \in Nat /\ now <= MaxTime
  /\ msg \in [Requests -> Workload \cup {None}]
  /\ ctx \in [Requests -> Context]

LEMMA TypeHalves ==
  /\ TypeOK <=> ControlTypes /\ DataTypes
  /\ TypeOK' <=> ControlTypes' /\ DataTypes'
PROOF BY DEF TypeOK, ControlTypes, DataTypes

LEMMA EndTypes ==
  ASSUME ControlTypes, NEW q \in Requests,
         NEW code \in ErrorCodes \cup SuccessCodes, NEW i \in Ids \cup {None},
         End(q, code, i), Release(q), rows' \in [Ids -> Row \cup {None}]
  PROVE  ControlTypes'
PROOF
<1>1. pc' \in [Requests -> Labels]
  BY DEF ControlTypes, End, Goto, Labels
<1>2. lock' \in [Resources -> Requests \cup {None}]
  BY DEF ControlTypes, Release
<1>3. pend' \in [Requests -> PendingWrite \cup {None}]
  BY DEF ControlTypes, End
<1>4. reply' \in [Requests -> Reply]
  BY DEF ControlTypes, End, Reply
<1> QED BY <1>1, <1>2, <1>3, <1>4 DEF ControlTypes

LEMMA ReturnTypes ==
  ASSUME ControlTypes, NEW q \in Requests, NEW code \in SuccessCodes,
         NEW i \in Ids, Return(q, code, i)
  PROVE  ControlTypes'
PROOF BY EndTypes DEF Return, ControlTypes

LEMMA ThrowTypes ==
  ASSUME ControlTypes, NEW q \in Requests, NEW code \in ErrorCodes,
         Throw(q, code)
  PROVE  ControlTypes'
PROOF BY EndTypes DEF Throw, ControlTypes

LEMMA ContinueTypes ==
  ASSUME ControlTypes, NEW q \in Requests, NEW next \in Labels,
         Continue(q, next)
  PROVE  ControlTypes'
PROOF BY DEF Continue, Goto, ControlTypes

LEMMA WriteTypes ==
  ASSUME ControlTypes, NEW q \in Requests, NEW i \in Ids, NEW row \in Row,
         Write(q, i, row)
  PROVE  ControlTypes'
PROOF BY DEF Write, Goto, ControlTypes, Labels, InTransaction, PendingWrite

(* Every step preserves the shape of the variables. *)
LEMMA TypeStep ==
  ASSUME Inductive, [Next]_vars
  PROVE  TypeOK'
PROOF
<1> USE DEF Inductive
<1> ControlTypes /\ DataTypes
  BY TypeHalves
<1>1. ASSUME NEW q \in Requests, Receive(q)
      PROVE  TypeOK'
  <2>1. PICK m \in Workload :
          /\ msg' = [msg EXCEPT ![q] = m]
          /\ Throw(q, "INVALID_PERIOD") \/ Continue(q, "connect")
    BY <1>1 DEF Receive
  <2>2. ControlTypes'
    BY <2>1, ThrowTypes, ContinueTypes DEF ErrorCodes, Labels
  <2>3. DataTypes'
    BY <1>1, <2>1 DEF Receive, DataTypes
  <2> QED BY <2>2, <2>3, TypeHalves
<1>2. ASSUME NEW q \in Requests, Connect(q)
      PROVE  TypeOK'
  <2>1. msg[q] \in Workload
    BY <1>2 DEF Connect, HandlersOnTrack, OnTrack, DataTypes
  <2>2. ControlTypes'
    BY <1>2, ContinueTypes DEF Connect, Labels, InTransaction
  <2>3. ctx' \in [Requests -> Context]
    BY <1>2, <2>1, MessageFacts DEF Connect, DataTypes, Context, NoContext
  <2> QED BY <1>2, <2>2, <2>3, TypeHalves DEF Connect, DataTypes
<1>3. ASSUME NEW q \in Requests, CheckKey(q)
      PROVE  TypeOK'
  <2>1. ControlTypes'
    BY <1>3, ReturnTypes, ContinueTypes
    DEF CheckKey, Taken, SuccessCodes, Labels, InTransaction
  <2> QED BY <1>3, <2>1, TypeHalves DEF CheckKey, DataTypes
<1>4. ASSUME NEW q \in Requests, ReadOwned(q)
      PROVE  TypeOK'
  <2> msg[q] \in Workload /\ msg[q].id \in Ids
    BY <1>4, MessageFacts DEF ReadOwned, HandlersOnTrack, OnTrack, DataTypes
  <2>1. OwnershipError(q) # None => OwnershipError(q) \in ErrorCodes
    BY DEF OwnershipError, ErrorCodes
  <2>2. ControlTypes'
    BY <1>4, <2>1, ReturnTypes, ThrowTypes, ContinueTypes
    DEF ReadOwned, SuccessCodes, ErrorCodes, Labels, InTransaction
  <2>3. ctx' \in [Requests -> Context]
    <3>1. CASE OwnershipError(q) = None
      <4> rows[msg[q].id] \in Row
        BY <3>1, NoneAssumption DEF OwnershipError, ControlTypes, ErrorCodes
      <4>1. rows[msg[q].id].user \in Users /\ rows[msg[q].id].resource \in Resources
        BY DEF Row
      <4>2. \/ ctx' = ctx
            \/ ctx' = [ctx EXCEPT ![q].user = rows[msg[q].id].user,
                                  ![q].resource = rows[msg[q].id].resource]
        BY <1>4 DEF ReadOwned
      <4>3. ctx \in [Requests -> Context]
        BY DEF DataTypes
      <4> HIDE DEF Inductive
      <4> QED BY <4>1, <4>2, <4>3 DEF Context
    <3>2. CASE OwnershipError(q) # None
      BY <1>4, <3>2 DEF ReadOwned, DataTypes
    <3> QED BY <3>1, <3>2
  <2> QED BY <1>4, <2>2, <2>3, TypeHalves DEF ReadOwned, DataTypes
<1>5. ASSUME NEW q \in Requests, AcquireLock(q)
      PROVE  TypeOK'
  BY <1>5 DEF AcquireLock, TypeOK, Goto, Labels, InTransaction
<1>6. ASSUME NEW q \in Requests, CheckResource(q)
      PROVE  TypeOK'
  <2>1. ASSUME NEW state, NEW r, NEW p, NEW n, NEW t,
               Refusal(state, r, p, n, t) # None
        PROVE  Refusal(state, r, p, n, t) \in ErrorCodes
    BY <2>1 DEF Refusal, ErrorCodes
  <2>2. ControlTypes'
    BY <1>6, <2>1, ThrowTypes, ContinueTypes
    DEF CheckResource, Labels, InTransaction
  <2>3. ctx' \in [Requests -> Context]
    BY <1>6 DEF CheckResource, DataTypes, Context
  <2> QED BY <1>6, <2>2, <2>3, TypeHalves DEF CheckResource, DataTypes
<1>7. ASSUME NEW q \in Requests, CheckOverlap(q)
      PROVE  TypeOK'
  <2>1. ControlTypes'
    BY <1>7, ThrowTypes, ContinueTypes
    DEF CheckOverlap, ErrorCodes, Labels, InTransaction
  <2> QED BY <1>7, <2>1, TypeHalves DEF CheckOverlap, DataTypes
<1>8. ASSUME NEW q \in Requests, CheckLimit(q)
      PROVE  TypeOK'
  <2>1. ControlTypes'
    BY <1>8, ThrowTypes, ContinueTypes
    DEF CheckLimit, ErrorCodes, Labels, InTransaction
  <2> QED BY <1>8, <2>1, TypeHalves DEF CheckLimit, DataTypes
<1>9. ASSUME NEW q \in Requests, Updates(q)
      PROVE  TypeOK'
  <2> /\ pc[q] \in Placed
      /\ msg[q] \in Workload
    BY <1>9 DEF Updates, Insert, UpdatePeriod, UpdateStatus, Placed, Locked,
                HandlersOnTrack, OnTrack, DataTypes
  <2>1. ASSUME Insert(q) PROVE ControlTypes'
    <3> CreatedRow(q) \in Row
      BY <2>1, NewRowTypes DEF Insert
    <3> PICK i \in Ids : \/ Write(q, i, CreatedRow(q))
                        \/ Throw(q, "OVERLAPPING_RESERVATION")
                        \/ Throw(q, "DUPLICATE_RESERVATION")
      BY <2>1 DEF Insert
    <3> QED BY WriteTypes, ThrowTypes DEF ErrorCodes
  <2>2. ASSUME UpdatePeriod(q) PROVE ControlTypes'
    <3> RescheduledRow(q) \in Row /\ msg[q].id \in Ids
      BY <2>2, NewRowTypes, MessageFacts DEF UpdatePeriod
    <3> \/ Write(q, msg[q].id, RescheduledRow(q))
        \/ Throw(q, "INTERNAL_ERROR")
      BY <2>2 DEF UpdatePeriod
    <3> QED BY WriteTypes, ThrowTypes DEF ErrorCodes
  <2>3. ASSUME UpdateStatus(q) PROVE ControlTypes'
    <3> CancelledRow(q) \in Row /\ msg[q].id \in Ids
      BY <2>3, NewRowTypes, MessageFacts DEF UpdateStatus
    <3> Write(q, msg[q].id, CancelledRow(q))
      BY <2>3 DEF UpdateStatus
    <3> QED BY WriteTypes
  <2>4. ControlTypes'
    BY <1>9, <2>1, <2>2, <2>3 DEF Updates
  <2> QED
    BY <1>9, <2>4, TypeHalves
    DEF Updates, Insert, UpdatePeriod, UpdateStatus, DataTypes
<1>10. ASSUME NEW q \in Requests, Commit(q)
       PROVE  TypeOK'
  <2> pend[q] \in PendingWrite /\ msg[q] \in Workload
    BY <1>10 DEF Commit, ControlTypes, DataTypes, PendingIsCurrent,
                 HandlersOnTrack, OnTrack
  <2>1. rows' \in [Ids -> Row \cup {None}]
    BY <1>10 DEF Commit, ControlTypes, PendingWrite
  <2>2. SuccessCode(msg[q].op) \in SuccessCodes
    BY MessageFacts DEF SuccessCode, SuccessCodes, Ops
  <2>3. ControlTypes'
    BY <1>10, <2>1, <2>2, EndTypes DEF Commit, PendingWrite
  <2> QED BY <1>10, <2>3, TypeHalves DEF Commit, DataTypes
<1>11. ASSUME NEW q \in Requests, Crash(q)
       PROVE  TypeOK'
  <2>1. ControlTypes'
    BY <1>11, ThrowTypes DEF Crash, ErrorCodes
  <2> QED BY <1>11, <2>1, TypeHalves DEF Crash, DataTypes
<1>12. ASSUME Surroundings
       PROVE  TypeOK'
  <2>1. ASSUME NEW r \in Resources,
               \/ CreateResource(r) \/ UpdateResource(r)
               \/ Activate(r) \/ Deactivate(r)
        PROVE  TypeOK'
    <3>1. PICK resource \in Resource : ChangeResource(r, resource)
      BY <2>1, ReservationsAssumption
      DEF CreateResource, UpdateResource, Activate, Deactivate, SetState,
          TypeOK, Resource, CatalogueStates
    <3> QED BY <3>1 DEF ChangeResource, TypeOK
  <2>2. CASE OutsideInsert
    BY <2>2, ReservationsAssumption DEF OutsideInsert, TypeOK
  <2>3. CASE Tick
    BY <2>3, ReservationsAssumption DEF Tick, TypeOK
  <2> QED BY <1>12, <2>1, <2>2, <2>3 DEF Surroundings
<1>13. CASE Quiescent \/ UNCHANGED vars
  BY <1>13 DEF Quiescent, vars, TypeOK
<1> QED
  BY <1>1, <1>2, <1>3, <1>4, <1>5, <1>6, <1>7, <1>8, <1>9, <1>10, <1>11,
     <1>12, <1>13
  DEF Next, Request, Proceed, Statement

-----------------------------------------------------------------------------
(* Who takes a step, as far as the table and the requests can tell. *)
LEMMA StepKinds ==
  ASSUME [Next]_vars
  PROVE  \/ \E q \in Requests : Request(q)
         \/ OutsideInsert
         \/ UNCHANGED <<rows, pc, msg, ctx, lock, pend, reply>>
PROOF
<1>1. ASSUME NEW r \in Resources,
             \/ CreateResource(r) \/ UpdateResource(r)
             \/ Activate(r) \/ Deactivate(r)
      PROVE  UNCHANGED <<rows, pc, msg, ctx, lock, pend, reply>>
  BY <1>1
  DEF CreateResource, UpdateResource, Activate, Deactivate, SetState,
      ChangeResource
<1>2. ASSUME Tick \/ Quiescent \/ UNCHANGED vars
      PROVE  UNCHANGED <<rows, pc, msg, ctx, lock, pend, reply>>
  BY <1>2 DEF Tick, Quiescent, vars
<1> QED BY <1>1, <1>2 DEF Next, Surroundings

(* What a step does to the requests that do not take it. *)

Frame(q) ==
  \A v \in Requests \ {q} : /\ pc'[v] = pc[v] /\ msg'[v] = msg[v]
                            /\ ctx'[v] = ctx[v] /\ pend'[v] = pend[v]

LEMMA RequestFrame ==
  ASSUME TypeOK, NEW q \in Requests, Request(q)
  PROVE  Frame(q)
PROOF
<1> USE DEF Frame, TypeOK, Return, Throw, End, Continue, Goto, Write
<1>1. CASE Receive(q)
  BY <1>1 DEF Receive
<1>2. CASE Connect(q)
  BY <1>2 DEF Connect
<1>3. CASE AcquireLock(q)
  BY <1>3 DEF AcquireLock
<1>4. CASE CheckKey(q)
  BY <1>4 DEF CheckKey
<1>5. CASE ReadOwned(q)
  BY <1>5 DEF ReadOwned
<1>6. CASE CheckResource(q)
  BY <1>6 DEF CheckResource
<1>7. CASE CheckOverlap(q)
  BY <1>7 DEF CheckOverlap
<1>8. CASE CheckLimit(q)
  BY <1>8 DEF CheckLimit
<1>9. CASE Insert(q)
  BY <1>9 DEF Insert
<1>10. CASE UpdatePeriod(q)
  BY <1>10 DEF UpdatePeriod
<1>11. CASE UpdateStatus(q)
  BY <1>11 DEF UpdateStatus
<1>12. CASE Commit(q)
  BY <1>12 DEF Commit
<1>13. CASE Crash(q)
  BY <1>13 DEF Crash
<1> QED
  BY <1>1, <1>2, <1>3, <1>4, <1>5, <1>6, <1>7, <1>8, <1>9, <1>10, <1>11,
     <1>12, <1>13 DEF Request, Proceed, Statement, Updates

(* What a step of q does to the table and to its own transaction: nothing, *)
(* a write that the constraints let through, or the commit.                *)
Unwritten(q) == rows' = rows /\ pend'[q] = None /\ pc'[q] # "commit"

Writing(q) ==
  \E i \in Ids, row \in Row :
    /\ pc[q] = "write" /\ Write(q, i, row) /\ UNCHANGED <<msg, ctx>>
    /\ OwnWrite(q, i, row)
    /\ msg[q].op = "create" => Fresh(i) /\ ~KeyTaken(i, row)
    /\ ~MustWait(Requests \ {q}, i, row)
    /\ ~ExclusionViolated(i, row)

LEMMA RequestEffect ==
  ASSUME Inductive, NEW q \in Requests, Request(q)
  PROVE  Unwritten(q) \/ Writing(q) \/ Commit(q)
PROOF
<1> USE DEF Inductive
<1>1. pc[q] # "commit" => pend[q] = None
  BY DEF PendingIsCurrent
<1>2. ASSUME NEW code, Throw(q, code)
      PROVE  Unwritten(q)
  BY <1>2 DEF Throw, End, Goto, Unwritten, TypeOK
<1>3. ASSUME NEW code, NEW i, Return(q, code, i)
      PROVE  Unwritten(q)
  BY <1>3 DEF Return, End, Goto, Unwritten, TypeOK
<1>4. ASSUME NEW next, next # "commit", pc[q] # "commit", Continue(q, next)
      PROVE  Unwritten(q)
  BY <1>1, <1>4 DEF Continue, Goto, Unwritten, TypeOK
<1>5. CASE Receive(q)
  BY <1>2, <1>4, <1>5 DEF Receive
<1>6. CASE Connect(q)
  BY <1>4, <1>6 DEF Connect
<1>7. CASE CheckKey(q)
  BY <1>3, <1>4, <1>7 DEF CheckKey
<1>8. CASE ReadOwned(q)
  BY <1>2, <1>3, <1>4, <1>8 DEF ReadOwned
<1>9. CASE AcquireLock(q)
  BY <1>1, <1>9 DEF AcquireLock, Goto, Unwritten, TypeOK
<1>10. CASE CheckResource(q) \/ CheckOverlap(q) \/ CheckLimit(q)
  BY <1>2, <1>4, <1>10 DEF CheckResource, CheckOverlap, CheckLimit
<1>11. CASE Crash(q)
  BY <1>2, <1>11 DEF Crash
<1>12. CASE Updates(q)
  <2>1. /\ pc[q] \in Placed
        /\ msg[q] \in Workload
    BY <1>12 DEF Updates, Insert, UpdatePeriod, UpdateStatus, Placed, Locked,
                 HandlersOnTrack, OnTrack, TypeOK
  <2>2. CASE Insert(q)
    <3> CreatedRow(q) \in Row
      BY <2>1, <2>2, NewRowTypes DEF Insert
    <3>1. PICK i \in Ids :
            /\ Fresh(i) /\ ~MustWait(Requests \ {q}, i, CreatedRow(q))
            /\ IF ExclusionViolated(i, CreatedRow(q))
               THEN Throw(q, "OVERLAPPING_RESERVATION")
               ELSE IF KeyTaken(i, CreatedRow(q))
               THEN Throw(q, "DUPLICATE_RESERVATION")
               ELSE Write(q, i, CreatedRow(q))
      BY <2>2 DEF Insert
    <3>2. CASE Write(q, i, CreatedRow(q)) /\ ~ExclusionViolated(i, CreatedRow(q))
                 /\ ~KeyTaken(i, CreatedRow(q))
      <4>1. OwnWrite(q, i, CreatedRow(q))
        BY <2>2, <3>1 DEF Insert, OwnWrite, Fresh
      <4> QED BY <2>2, <3>1, <3>2, <4>1 DEF Insert, Writing
    <3> QED BY <3>1, <3>2, <1>2
  <2>3. CASE UpdatePeriod(q)
    <3> RescheduledRow(q) \in Row /\ msg[q].id \in Ids
      BY <2>1, <2>3, NewRowTypes, MessageFacts DEF UpdatePeriod
    <3>1. CASE ExclusionViolated(msg[q].id, RescheduledRow(q))
      BY <2>3, <3>1, <1>2 DEF UpdatePeriod
    <3>2. CASE ~ExclusionViolated(msg[q].id, RescheduledRow(q))
      BY <2>3, <3>2 DEF UpdatePeriod, Writing, OwnWrite
    <3> QED BY <3>1, <3>2
  <2>4. CASE UpdateStatus(q)
    <3> CancelledRow(q) \in Row /\ msg[q].id \in Ids
      BY <2>1, <2>4, NewRowTypes, MessageFacts DEF UpdateStatus
    <3>1. CancelledRow(q).status = "CANCELLED"
      BY <2>1, <2>4, MessageFacts
      DEF UpdateStatus, CancelledRow, Row, TypeOK, HandlersOnTrack, OnTrack
    <3>2. ~ExclusionViolated(msg[q].id, CancelledRow(q))
      BY <3>1 DEF ExclusionViolated, Clash
    <3> QED BY <2>4, <3>2 DEF UpdateStatus, Writing, OwnWrite
  <2> QED BY <1>12, <2>2, <2>3, <2>4 DEF Updates
<1> QED
  BY <1>5, <1>6, <1>7, <1>8, <1>9, <1>10, <1>11, <1>12
  DEF Request, Proceed, Statement

(* Rows are never deleted, and keep their user, resource and key. *)
LEMMA RowsKept ==
  ASSUME Inductive, [Next]_vars, NEW i \in Ids, rows[i] # None
  PROVE  /\ rows'[i] # None
         /\ rows'[i].user = rows[i].user
         /\ rows'[i].resource = rows[i].resource
         /\ rows'[i].key = rows[i].key
PROOF
<1> USE DEF Inductive
<1>1. CASE UNCHANGED rows
  BY <1>1
<1>2. ASSUME NEW q \in Requests, Commit(q)
      PROVE  /\ rows'[i] # None
             /\ rows'[i].user = rows[i].user
             /\ rows'[i].resource = rows[i].resource
             /\ rows'[i].key = rows[i].key
  <2>1. pend[q] \in PendingWrite /\ OwnWrite(q, pend[q].id, pend[q].row)
    BY <1>2 DEF Commit, PendingIsCurrent, TypeOK
  <2>2. CASE i # pend[q].id
    BY <1>2, <2>2 DEF Commit, TypeOK
  <2>3. CASE i = pend[q].id
    <3>1. rows'[i] = pend[q].row /\ rows'[i] # None
      BY <1>2, <2>1, <2>3, NoneAssumption DEF Commit, TypeOK, PendingWrite
    <3>2. rows[i] \in Row
      BY DEF TypeOK
    <3>3. CASE msg[q].op = "create"
      BY <2>1, <2>3, <3>3 DEF OwnWrite
    <3> DEFINE period == msg[q].period
               attendees == msg[q].attendees
               caller == msg[q].caller
    <3>4. CASE msg[q].op = "reschedule" /\ i = msg[q].id
      <4>1. rows'[i] = [rows[i] EXCEPT !.period = period, !.attendees = attendees]
        BY <2>1, <3>1, <3>4 DEF OwnWrite, RescheduledRow
      <4> HIDE DEF period, attendees, Inductive
      <4> QED BY <3>1, <3>2, <4>1 DEF Row
    <3>5. CASE msg[q].op = "cancel" /\ i = msg[q].id
      <4>1. rows'[i] = [rows[i] EXCEPT !.status = "CANCELLED", !.cancelledBy = caller]
        BY <2>1, <3>1, <3>5 DEF OwnWrite, CancelledRow
      <4> HIDE DEF caller, Inductive
      <4> QED BY <3>1, <3>2, <4>1 DEF Row
    <3> QED BY <2>1, <2>3, <3>3, <3>4, <3>5 DEF OwnWrite
  <2> QED BY <2>2, <2>3
<1>3. CASE OutsideInsert
  BY <1>3 DEF OutsideInsert, Fresh, TypeOK
<1>4. ASSUME NEW q \in Requests, Request(q), ~Commit(q)
      PROVE  UNCHANGED rows
  BY <1>4, RequestEffect DEF Unwritten, Writing, Write
<1> QED
  BY <1>1, <1>2, <1>3, <1>4, StepKinds

(* Handlers stay on track. *)
LEMMA TrackStep ==
  ASSUME Inductive, [Next]_vars
  PROVE  HandlersOnTrack'
PROOF
<1> USE DEF Inductive
<1>1. ASSUME NEW v \in Requests, pc'[v] = pc[v], msg'[v] = msg[v],
             ctx'[v] = ctx[v]
      PROVE  OnTrack(v)'
  <2>1. msg[v] # None /\ msg[v].op # "create" => msg[v].id \in Ids
    BY MessageFacts DEF TypeOK
  <2> QED BY <1>1, <2>1, RowsKept DEF HandlersOnTrack, OnTrack
<1>2. ASSUME NEW q \in Requests, pc'[q] = "done"
      PROVE  OnTrack(q)'
  BY <1>2 DEF OnTrack
<1>3. ASSUME NEW q \in Requests, NEW code, End(q, code, None) \/ (\E i \in Ids : End(q, code, i))
      PROVE  OnTrack(q)'
  BY <1>2, <1>3 DEF End, Goto, TypeOK
<1>4. ASSUME NEW q \in Requests, Request(q)
      PROVE  OnTrack(q)'
  <2>0. pc[q] \notin {"new", "done"} => msg[q] \in Workload
    BY DEF HandlersOnTrack, OnTrack, TypeOK
  <2>1. CASE Receive(q)
    <3>1. PICK m \in Workload :
            /\ msg' = [msg EXCEPT ![q] = m]
            /\ \/ Throw(q, "INVALID_PERIOD")
               \/ (m.op # "cancel" => ValidPeriod(m.period)) /\ Continue(q, "connect")
      BY <2>1 DEF Receive
    <3>2. CASE Throw(q, "INVALID_PERIOD")
      BY <1>3, <3>2 DEF Throw
    <3>3. CASE Continue(q, "connect")
      BY <3>1, <3>3, <1>2, MessageFacts
      DEF Continue, Goto, OnTrack, TypeOK, Placed, Locked, Throw, End
    <3> QED BY <3>1, <3>2, <3>3
  <2>2. CASE Connect(q)
    BY <2>0, <2>2, MessageFacts
    DEF Connect, Continue, Goto, HandlersOnTrack, OnTrack, TypeOK, Placed,
        Locked, NoContext, Ops
  <2>3. CASE CheckKey(q)
    BY <1>3, <2>0, <2>3, MessageFacts
    DEF CheckKey, Taken, Return, Continue, Goto, HandlersOnTrack, OnTrack,
        TypeOK, Placed, Locked
  <2>4. CASE ReadOwned(q)
    <3> DEFINE i == msg[q].id
    <3>0. i \in Ids /\ pc[q] = "owned" /\ msg[q] \in Workload
      BY <2>0, <2>4, MessageFacts DEF ReadOwned, HandlersOnTrack, OnTrack
    <3>1. CASE pc'[q] = "done"
      BY <1>2, <3>1
    <3>2. CASE /\ OwnershipError(q) = None
               /\ Continue(q, IF msg[q].op = "cancel" THEN "write" ELSE "lock")
               /\ ctx' = [ctx EXCEPT ![q].user = rows[i].user,
                                     ![q].resource = rows[i].resource]
      <4>1. rows[i] # None /\ rows'[i] = rows[i] /\ msg' = msg
        BY <2>4, <3>2, NoneAssumption
        DEF ReadOwned, OwnershipError, ErrorCodes, Continue
      <4>4. msg[q].caller \in Admins \cup {rows[i].user}
        BY <2>4, <3>2, <4>1, NoneAssumption
        DEF ReadOwned, OwnershipError, MayManage, ErrorCodes
      <4>2. ctx'[q].user = rows[i].user /\ ctx'[q].resource = rows[i].resource
        BY <3>2 DEF TypeOK, Context
      <4>3. pc'[q] = IF msg[q].op = "cancel" THEN "write" ELSE "lock"
        BY <3>2 DEF Continue, Goto, TypeOK
      <4> QED
        BY <3>0, <4>1, <4>4, <4>2, <4>3 DEF HandlersOnTrack, OnTrack
    <3> QED
      BY <2>4, <3>1, <3>2 DEF ReadOwned, Return, Throw, End, Goto, TypeOK
  <2>5. CASE AcquireLock(q)
    BY <2>5 DEF AcquireLock, Goto, HandlersOnTrack, OnTrack, TypeOK, Placed, Locked
  <2>6. CASE CheckResource(q) \/ CheckOverlap(q) \/ CheckLimit(q)
    <3>1. CASE CheckResource(q)
      <4>1. CASE pc'[q] = "done"
        BY <1>2, <4>1
      <4>2. CASE pc'[q] # "done"
        <5>1. /\ pc[q] = "resource" /\ pc'[q] = "overlap"
              /\ msg' = msg /\ rows' = rows
          BY <3>1, <4>2 DEF CheckResource, Throw, End, Continue, Goto, TypeOK
        <5>2. ctx'[q].user = ctx[q].user /\ ctx'[q].resource = ctx[q].resource
          BY <3>1 DEF CheckResource, TypeOK, Context
        <5> QED BY <5>1, <5>2 DEF HandlersOnTrack, OnTrack, Placed, Locked
      <4> QED BY <4>1, <4>2
    <3>2. CASE CheckOverlap(q)
      BY <1>3, <3>2 DEF CheckOverlap, Throw, Continue, Goto, HandlersOnTrack, OnTrack,
                        TypeOK, Placed, Locked, Context
    <3>3. CASE CheckLimit(q)
      BY <1>3, <3>3 DEF CheckLimit, Throw, Continue, Goto, HandlersOnTrack, OnTrack,
                        TypeOK, Placed, Locked, Context
    <3> QED BY <2>6, <3>1, <3>2, <3>3
  <2>7. CASE Updates(q)
    BY <1>3, <2>7 DEF Updates, Insert, UpdatePeriod, UpdateStatus, Throw, Write,
       Goto, HandlersOnTrack, OnTrack, TypeOK, Placed, Locked
  <2>8. CASE Commit(q) \/ Crash(q)
    BY <1>2, <2>8 DEF Commit, Crash, Throw, End, Goto, TypeOK
  <2> QED
    BY <1>4, <2>1, <2>2, <2>3, <2>4, <2>5, <2>6, <2>7, <2>8
    DEF Request, Proceed, Statement
<1>5. ASSUME NEW q \in Requests, Request(q), NEW v \in Requests \ {q}
      PROVE  OnTrack(v)'
  BY <1>1, <1>5, RequestFrame DEF Frame
<1>6. ASSUME UNCHANGED <<pc, msg, ctx>>
      PROVE  HandlersOnTrack'
  BY <1>1, <1>6 DEF HandlersOnTrack
<1> QED
  BY <1>4, <1>5, <1>6, StepKinds DEF OutsideInsert, HandlersOnTrack

(* From the lock statement on, a handler knows the resource and the user. *)
LEMMA PlacedContext ==
  ASSUME Inductive, NEW q \in Requests, pc[q] \in Placed, msg[q].op # "cancel"
  PROVE  ctx[q].resource \in Resources /\ ctx[q].user \in Users
PROOF
<1> USE DEF Inductive
<1>1. msg[q] \in Workload
  BY DEF HandlersOnTrack, OnTrack, TypeOK, Placed, Locked
<1>2. CASE msg[q].op = "create"
  BY <1>2 DEF HandlersOnTrack, OnTrack, Placed, Locked
<1>3. CASE msg[q].op # "create"
  <2>1. rows[msg[q].id] \in Row
    BY <1>1, <1>3, MessageFacts DEF HandlersOnTrack, OnTrack, TypeOK, Placed, Locked
  <2> QED BY <1>3, <2>1 DEF HandlersOnTrack, OnTrack, Placed, Locked, Row
<1> QED BY <1>2, <1>3

(* A step of one request takes no lock away from another. *)
LEMMA OthersKeepLocks ==
  ASSUME TypeOK, NEW q \in Requests, Request(q),
         NEW r \in Resources, lock[r] # None, lock[r] # q
  PROVE  lock'[r] = lock[r]
PROOF
<1>1. CASE Release(q)
  BY <1>1 DEF Release
<1>2. CASE UNCHANGED lock
  BY <1>2
<1>3. CASE AcquireLock(q)
  BY <1>3 DEF AcquireLock, TypeOK
<1> QED
  BY <1>1, <1>2, <1>3
  DEF Request, Proceed, Statement, Updates, Receive, Connect, CheckKey,
      ReadOwned, CheckResource, CheckOverlap, CheckLimit, Insert,
      UpdatePeriod, UpdateStatus, Commit, Crash, Return, Throw, Continue, Write

(* The lock is held from its acquisition to the end of the transaction. *)
LEMMA LockStep ==
  ASSUME Inductive, [Next]_vars
  PROVE  LockHeld'
PROOF
<1> USE DEF Inductive
<1>1. ASSUME NEW q \in Requests, Request(q), NEW v \in Requests \ {q},
             pc'[v] \in Locked, msg'[v].op # "cancel"
      PROVE  lock'[ctx'[v].resource] = v
  <2>1. pc[v] \in Placed /\ msg[v].op # "cancel" /\ ctx'[v] = ctx[v]
    BY <1>1, RequestFrame DEF Frame, Placed
  <2>2. ctx[v].resource \in Resources
    BY <2>1, PlacedContext
  <2>3. lock[ctx[v].resource] = v
    BY <1>1, <2>1, RequestFrame DEF Frame, LockHeld
  <2> QED BY <1>1, <2>1, <2>2, <2>3, OthersKeepLocks, NoneAssumption
<1>2. ASSUME NEW q \in Requests, Request(q),
             pc'[q] \in Locked, msg'[q].op # "cancel"
      PROVE  lock'[ctx'[q].resource] = q
  <2>1. pc'[q] # "done"
    BY <1>2 DEF Locked
  <2>2. ASSUME NEW code, NEW i, End(q, code, i)
        PROVE  FALSE
    BY <2>1, <2>2 DEF End, Goto, TypeOK
  <2>3. CASE Receive(q) \/ Connect(q) \/ CheckKey(q)
    BY <1>2, <2>2, <2>3
    DEF Receive, Connect, CheckKey, Throw, Return, Continue, Goto, TypeOK, Locked
  <2>4. CASE ReadOwned(q)
    <3> pc'[q] = IF msg[q].op = "cancel" THEN "write" ELSE "lock"
      BY <2>2, <2>4 DEF ReadOwned, Throw, Return, Continue, Goto, TypeOK
    <3> QED BY <1>2, <2>4 DEF ReadOwned, Locked
  <2>5. CASE AcquireLock(q)
    <3> ctx[q].resource \in Resources
      BY <1>2, <2>5, PlacedContext DEF AcquireLock, Placed
    <3> QED BY <2>5 DEF AcquireLock, TypeOK
  <2>6. CASE CheckResource(q) \/ CheckOverlap(q) \/ CheckLimit(q)
    <3>1. pc[q] \in Locked /\ msg' = msg /\ lock' = lock
      BY <2>2, <2>6
      DEF CheckResource, CheckOverlap, CheckLimit, Throw, Continue, Locked
    <3>2. ctx'[q].resource = ctx[q].resource
      BY <2>6 DEF CheckResource, CheckOverlap, CheckLimit, TypeOK, Context
    <3> QED BY <1>2, <3>1, <3>2 DEF LockHeld
  <2>7. CASE Updates(q)
    <3> pc[q] \in Locked /\ msg' = msg /\ ctx' = ctx /\ lock' = lock
      BY <2>2, <2>7
      DEF Updates, Insert, UpdatePeriod, UpdateStatus, Throw, Write, Locked
    <3> QED BY <1>2 DEF LockHeld
  <2>8. CASE Commit(q) \/ Crash(q)
    BY <2>2, <2>8 DEF Commit, Crash, Throw
  <2> QED
    BY <1>2, <2>3, <2>4, <2>5, <2>6, <2>7, <2>8
    DEF Request, Proceed, Statement
<1>3. ASSUME UNCHANGED <<pc, msg, ctx, lock>>
      PROVE  LockHeld'
  BY <1>3 DEF LockHeld
<1> QED
  BY <1>1, <1>2, <1>3, StepKinds DEF OutsideInsert, LockHeld

-----------------------------------------------------------------------------
(* The table and the uncommitted writes. *)

(* The constraints do not depend on the order of the two rows. *)
LEMMA CompatibleSymmetric ==
  ASSUME NEW a, NEW b
  PROVE  /\ Clash(a, b) <=> Clash(b, a)
         /\ SameKey(a, b) <=> SameKey(b, a)
PROOF
<1>1. Clash(a, b) <=> Clash(b, a)
  BY DEF Clash, Overlaps
<1>2. SameKey(a, b) <=> SameKey(b, a)
  BY DEF SameKey
<1> QED BY <1>1, <1>2

(* Storing a row that fits keeps a table consistent. *)
LEMMA StoreFitting ==
  ASSUME NEW t \in [Ids -> Row \cup {None}], Consistent(t),
         NEW i \in Ids, NEW row \in Row, Fits(t, i, row)
  PROVE  Consistent([t EXCEPT ![i] = row])
PROOF
<1> DEFINE u == [t EXCEPT ![i] = row]
<1>1. u[i] = row /\ \A j \in Ids \ {i} : u[j] = t[j]
  OBVIOUS
<1>2. \A j \in Taken(u) \ {i} : j \in Taken(t) /\ u[j] = t[j]
  BY <1>1 DEF Taken
<1> HIDE DEF u
<1>3. SUFFICES ASSUME NEW j \in Taken(u), NEW k \in Taken(u) \ {j}
               PROVE  ~Clash(u[j], u[k]) /\ ~SameKey(u[j], u[k])
  BY DEF Consistent, Fits, u
<1>4. CASE j = i
  BY <1>1, <1>2, <1>4 DEF Fits
<1>5. CASE k = i
  BY <1>1, <1>2, <1>5, CompatibleSymmetric DEF Fits
<1>6. CASE j # i /\ k # i
  BY <1>2, <1>6 DEF Consistent, Fits
<1> QED BY <1>4, <1>5, <1>6

(* A row about to be written fits the committed table. *)
LEMMA WrittenFits ==
  ASSUME Inductive, NEW q \in Requests, NEW i \in Ids, NEW row \in Row,
         pc[q] = "write", OwnWrite(q, i, row), ~ExclusionViolated(i, row),
         msg[q].op = "create" => ~KeyTaken(i, row)
  PROVE  Fits(rows, i, row)
PROOF
<1> USE DEF Inductive
<1>1. CASE msg[q].op = "create"
  BY <1>1 DEF ExclusionViolated, KeyTaken, Fits
<1>2. CASE msg[q].op # "create"
  <2>1. i = msg[q].id /\ rows[i] \in Row /\ rows[i] # None
    BY <1>2 DEF OwnWrite, HandlersOnTrack, OnTrack, TypeOK, Placed, Locked
  <2>2. row.user = rows[i].user /\ row.key = rows[i].key
    BY <1>2, <2>1 DEF OwnWrite, RescheduledRow, CancelledRow, Row
  <2>3. \A j \in Taken(rows) \ {i} : ~SameKey(rows[i], rows[j])
    BY <2>1 DEF Consistent, Fits, Taken
  <2>4. \A j \in Taken(rows) \ {i} : ~SameKey(row, rows[j])
    BY <2>2, <2>3 DEF SameKey
  <2> QED BY <2>4 DEF ExclusionViolated, Fits
<1> QED BY <1>1, <1>2

(* Nothing that was committed meanwhile makes a pending write out of date: *)
(* the row lock and the freshness of ids keep other writes off its row.    *)
LEMMA PendingStep ==
  ASSUME Inductive, [Next]_vars
  PROVE  PendingIsCurrent'
PROOF
<1> USE DEF Inductive
<1>1. ASSUME NEW v \in Requests, pc'[v] = pc[v], msg'[v] = msg[v],
             ctx'[v] = ctx[v], pend'[v] = pend[v],
             pend[v] # None => rows'[pend[v].id] = rows[pend[v].id]
      PROVE  /\ pend'[v] # None <=> pc'[v] = "commit"
             /\ pend'[v] # None => OwnWrite(v, pend[v].id, pend[v].row)'
  <2>1. pend'[v] # None <=> pc'[v] = "commit"
    BY <1>1 DEF PendingIsCurrent
  <2>2. ASSUME pend[v] # None
        PROVE  OwnWrite(v, pend[v].id, pend[v].row)'
    <3>1. OwnWrite(v, pend[v].id, pend[v].row)
      BY <2>2 DEF PendingIsCurrent
    <3>2. rows'[pend[v].id] = rows[pend[v].id]
      BY <1>1, <2>2
    <3>3. CASE msg[v].op = "create"
      <4>1. CreatedRow(v)' = CreatedRow(v)
        BY <1>1 DEF CreatedRow
      <4> QED BY <1>1, <3>1, <3>2, <3>3, <4>1 DEF OwnWrite
    <3>4. CASE msg[v].op = "reschedule"
      <4>1. pend[v].id = msg[v].id
        BY <3>1, <3>4 DEF OwnWrite
      <4>2. RescheduledRow(v)' = RescheduledRow(v)
        BY <1>1, <3>2, <4>1 DEF RescheduledRow
      <4> QED BY <1>1, <3>1, <3>4, <4>2 DEF OwnWrite
    <3>5. CASE msg[v].op = "cancel"
      <4>1. pend[v].id = msg[v].id
        BY <3>1, <3>5 DEF OwnWrite
      <4>2. CancelledRow(v)' = CancelledRow(v)
        BY <1>1, <3>2, <4>1 DEF CancelledRow
      <4> QED BY <1>1, <3>1, <3>5, <4>2 DEF OwnWrite
    <3> QED BY <3>1, <3>3, <3>4, <3>5 DEF OwnWrite
  <2> QED BY <1>1, <2>1, <2>2
<1>2. ASSUME NEW q \in Requests, Request(q), Unwritten(q)
      PROVE  PendingIsCurrent'
  BY <1>1, <1>2, RequestFrame DEF Frame, Unwritten, PendingIsCurrent
<1>3. ASSUME NEW q \in Requests, Request(q), Writing(q)
      PROVE  PendingIsCurrent'
  <2>1. PICK i \in Ids, row \in Row :
          Write(q, i, row) /\ OwnWrite(q, i, row) /\ UNCHANGED <<msg, ctx>>
    BY <1>3 DEF Writing
  <2>2. pc'[q] = "commit" /\ pend'[q] = [id |-> i, row |-> row] /\ rows' = rows
    BY <2>1 DEF Write, Goto, TypeOK
  <2>3. pend'[q] # None /\ OwnWrite(q, pend[q].id, pend[q].row)'
    BY <2>1, <2>2, NoneAssumption
    DEF OwnWrite, CreatedRow, RescheduledRow, CancelledRow
  <2> QED BY <1>1, <1>3, <2>2, <2>3, RequestFrame DEF Frame, PendingIsCurrent
<1>4. ASSUME NEW q \in Requests, Request(q), Commit(q)
      PROVE  PendingIsCurrent'
  <2>1. pc'[q] = "done" /\ pend'[q] = None /\ pend[q] # None
    BY <1>4 DEF Commit, End, Goto, TypeOK, PendingIsCurrent
  <2>2. ASSUME NEW v \in Requests \ {q}, pend[v] # None
        PROVE  rows'[pend[v].id] = rows[pend[v].id]
    BY <1>4, <2>1, <2>2 DEF Commit, PendingCompatible, TypeOK, PendingWrite
  <2> QED BY <1>1, <1>4, <2>1, <2>2, RequestFrame DEF Frame, PendingIsCurrent
<1>5. CASE OutsideInsert
  <2>1. ASSUME NEW v \in Requests, pend[v] # None
        PROVE  rows'[pend[v].id] = rows[pend[v].id]
    BY <1>5, <2>1 DEF OutsideInsert, Fresh, TypeOK, PendingWrite
  <2> QED BY <1>1, <1>5, <2>1 DEF OutsideInsert, PendingIsCurrent
<1>6. CASE UNCHANGED <<rows, pc, msg, ctx, pend>>
  BY <1>1, <1>6 DEF PendingIsCurrent
<1> QED
  BY <1>2, <1>3, <1>4, <1>5, <1>6, RequestEffect, StepKinds

(* No two rows that are or may be committed are refused by the constraints *)
(* together: a write waits for the conflicting transactions in progress,   *)
(* and is compared with what they committed.                               *)
LEMMA CompatibleStep ==
  ASSUME Inductive, [Next]_vars
  PROVE  PendingCompatible' /\ Consistent(rows)'
PROOF
<1> USE DEF Inductive
<1>1. ASSUME NEW q \in Requests, Request(q), Unwritten(q)
      PROVE  PendingCompatible' /\ Consistent(rows)'
  BY <1>1, RequestFrame DEF Frame, Unwritten, PendingCompatible
<1>2. ASSUME NEW q \in Requests, Request(q), Writing(q)
      PROVE  PendingCompatible' /\ Consistent(rows)'
  <2>1. PICK i \in Ids, row \in Row :
          /\ pc[q] = "write" /\ Write(q, i, row) /\ OwnWrite(q, i, row)
          /\ msg[q].op = "create" => ~KeyTaken(i, row)
          /\ ~MustWait(Requests \ {q}, i, row) /\ ~ExclusionViolated(i, row)
    BY <1>2 DEF Writing
  <2>2. pend'[q] = [id |-> i, row |-> row] /\ rows' = rows
    BY <2>1 DEF Write, TypeOK
  <2>3. Fits(rows, i, row)
    BY <2>1, WrittenFits
  <2>4. ASSUME NEW v \in Requests \ {q}, pend[v] # None
        PROVE  /\ pend[v].id # i
               /\ Compatible(row, pend[v].row) /\ Compatible(pend[v].row, row)
    <3>1. pend[v].row # None
      BY <2>4, NoneAssumption DEF TypeOK, PendingWrite
    <3> QED BY <2>1, <2>4, <3>1, CompatibleSymmetric DEF MustWait, Compatible
  <2>5. \A v \in Requests \ {q} : pend'[v] = pend[v]
    BY <1>2, RequestFrame DEF Frame
  <2> QED BY <2>2, <2>3, <2>4, <2>5 DEF PendingCompatible
<1>3. ASSUME NEW q \in Requests, Request(q), Commit(q)
      PROVE  PendingCompatible' /\ Consistent(rows)'
  <2> DEFINE i == pend[q].id
             row == pend[q].row
  <2>1. /\ pend[q] # None /\ i \in Ids /\ row \in Row /\ Fits(rows, i, row)
        /\ pend'[q] = None /\ rows' = [rows EXCEPT ![i] = row]
    BY <1>3 DEF Commit, End, PendingIsCurrent, PendingCompatible, TypeOK,
                PendingWrite
  <2>2. Consistent(rows)'
    BY <2>1, StoreFitting DEF TypeOK
  <2>3. ASSUME NEW v \in Requests \ {q}, pend[v] # None
        PROVE  Fits(rows', pend[v].id, pend[v].row)
    <3>1. Fits(rows, pend[v].id, pend[v].row) /\ Compatible(pend[v].row, row)
      BY <2>1, <2>3, CompatibleSymmetric DEF PendingCompatible, Compatible
    <3>2. \A j \in Taken(rows') \ {i} : j \in Taken(rows) /\ rows'[j] = rows[j]
      BY <2>1 DEF Taken, TypeOK
    <3>3. rows'[i] = row
      BY <2>1 DEF TypeOK
    <3> QED BY <3>1, <3>2, <3>3 DEF Fits, Compatible
  <2>4. \A v \in Requests \ {q} : pend'[v] = pend[v]
    BY <1>3, RequestFrame DEF Frame
  <2>5. PendingCompatible'
    BY <2>1, <2>3, <2>4 DEF PendingCompatible
  <2> QED BY <2>2, <2>5
<1>4. CASE OutsideInsert
  <2>1. PICK i \in Ids, row \in Row :
          /\ Fresh(i) /\ ~MustWait(Requests, i, row)
          /\ ~ExclusionViolated(i, row) /\ ~KeyTaken(i, row)
          /\ rows' = [rows EXCEPT ![i] = row]
    BY <1>4, ReservationsAssumption DEF OutsideInsert
  <2>2. Fits(rows, i, row)
    BY <2>1 DEF ExclusionViolated, KeyTaken, Fits
  <2>3. Consistent(rows)'
    BY <2>1, <2>2, StoreFitting DEF TypeOK
  <2>4. ASSUME NEW v \in Requests, pend[v] # None
        PROVE  Fits(rows', pend[v].id, pend[v].row)
    <3>1. pend[v].row # None
      BY <2>4, NoneAssumption DEF TypeOK, PendingWrite
    <3>2. Fits(rows, pend[v].id, pend[v].row) /\ Compatible(pend[v].row, row)
      BY <2>1, <2>4, <3>1, CompatibleSymmetric
      DEF PendingCompatible, Compatible, MustWait
    <3>3. \A j \in Taken(rows') \ {i} : j \in Taken(rows) /\ rows'[j] = rows[j]
      BY <2>1 DEF Taken, TypeOK
    <3>4. rows'[i] = row
      BY <2>1 DEF TypeOK
    <3> QED BY <3>2, <3>3, <3>4 DEF Fits, Compatible
  <2> QED BY <1>4, <2>3, <2>4 DEF OutsideInsert, PendingCompatible
<1>5. CASE UNCHANGED <<rows, pend>>
  BY <1>5 DEF PendingCompatible
<1> QED
  BY <1>1, <1>2, <1>3, <1>4, <1>5, RequestEffect, StepKinds

(* The slot a handler found free is not taken by another request: whoever  *)
(* commits a confirmed row on the resource holds the same lock.            *)
LEMMA SlotStep ==
  ASSUME Inductive, [Next]_vars
  PROVE  SlotStaysFree'
PROOF
<1> USE DEF Inductive
<1>0. SUFFICES ASSUME NEW v \in Requests,
                      pc'[v] \in {"limit", "write"}, msg'[v].op # "cancel"
               PROVE  OnlyOutsiders(v)'
  BY DEF SlotStaysFree
<1>1. ASSUME pc[v] \in {"limit", "write"}, msg'[v] = msg[v], ctx'[v] = ctx[v],
             rows' = rows
      PROVE  OnlyOutsiders(v)'
  BY <1>0, <1>1 DEF SlotStaysFree, OnlyOutsiders, Overlapping, Taken
<1>2. ASSUME Request(v)
      PROVE  OnlyOutsiders(v)'
  <2>1. ASSUME NEW code, NEW i, End(v, code, i)
        PROVE  FALSE
    BY <1>0, <2>1 DEF End, Goto, TypeOK
  <2>2. CASE CheckOverlap(v)
    BY <2>1, <2>2 DEF CheckOverlap, Throw, Continue, OnlyOutsiders,
        Overlapping, Taken
  <2>3. CASE CheckLimit(v)
    BY <1>1, <2>1, <2>3 DEF CheckLimit, Throw, Continue
  <2>4. CASE Receive(v) \/ Connect(v) \/ CheckKey(v) \/ AcquireLock(v)
    BY <1>0, <2>1, <2>4
    DEF Receive, Connect, CheckKey, AcquireLock, Throw, Return, Continue, Goto,
        TypeOK
  <2>5. CASE ReadOwned(v)
    <3> /\ pc'[v] = IF msg[v].op = "cancel" THEN "write" ELSE "lock"
        /\ msg' = msg
      BY <2>1, <2>5 DEF ReadOwned, Throw, Return, Continue, Goto, TypeOK
    <3> QED BY <1>0
  <2>6. CASE CheckResource(v) \/ Updates(v)
    BY <1>0, <2>1, <2>6
    DEF CheckResource, Updates, Insert, UpdatePeriod, UpdateStatus, Throw,
        Continue, Write, Goto, TypeOK
  <2>7. CASE Commit(v) \/ Crash(v)
    BY <2>1, <2>7 DEF Commit, Crash, Throw
  <2> QED
    BY <1>2, <2>2, <2>3, <2>4, <2>5, <2>6, <2>7 DEF Request, Proceed, Statement
<1>3. ASSUME NEW q \in Requests \ {v}, Request(q)
      PROVE  OnlyOutsiders(v)'
  <2>1. /\ pc[v] \in {"limit", "write"} /\ msg[v].op # "cancel"
        /\ msg'[v] = msg[v] /\ ctx'[v] = ctx[v]
    BY <1>0, <1>3, RequestFrame DEF Frame
  <2>2. CASE rows' = rows
    BY <1>1, <2>1, <2>2
  <2>3. CASE Commit(q)
    <3> DEFINE row == pend[q].row
    <3>1. /\ pc[q] = "commit" /\ pend[q].id \in Ids /\ row \in Row
          /\ OwnWrite(q, pend[q].id, row)
          /\ rows' = [rows EXCEPT ![pend[q].id] = row]
      BY <2>3 DEF Commit, PendingIsCurrent, TypeOK, PendingWrite
    <3>2. row.resource = ctx[v].resource => row.status # "CONFIRMED"
      <4>1. CASE msg[q].op = "cancel"
        <5>1. rows[msg[q].id] \in Row
          BY <3>1, <4>1
          DEF HandlersOnTrack, OnTrack, TypeOK, Placed, Locked, OwnWrite
        <5> QED BY <3>1, <4>1, <5>1 DEF OwnWrite, CancelledRow, Row
      <4>2. CASE msg[q].op # "cancel"
        <5>1. row.resource = ctx[q].resource
          <6>1. CASE msg[q].op = "create"
            BY <3>1, <6>1 DEF OwnWrite, CreatedRow
          <6>2. CASE msg[q].op = "reschedule"
            <7>1. /\ rows[msg[q].id] \in Row
                  /\ rows[msg[q].id].resource = ctx[q].resource
              BY <3>1, <6>2
              DEF HandlersOnTrack, OnTrack, TypeOK, Placed, Locked, OwnWrite
            <7> QED BY <3>1, <6>2, <7>1 DEF OwnWrite, RescheduledRow, Row
          <6> QED BY <3>1, <4>2, <6>1, <6>2 DEF OwnWrite
        <5>2. lock[ctx[q].resource] = q
          BY <3>1, <4>2 DEF LockHeld, Locked
        <5>3. lock[ctx[v].resource] = v
          BY <2>1 DEF LockHeld, Locked
        <5> QED BY <5>1, <5>2, <5>3
      <4> QED BY <4>1, <4>2
    <3>3. OnlyOutsiders(v)
      BY <2>1 DEF SlotStaysFree
    <3>4. rows'[pend[q].id] = row
      BY <3>1 DEF TypeOK
    <3>5. \A j \in Taken(rows') \ {pend[q].id} : j \in Taken(rows) /\ rows'[j] = rows[j]
      BY <3>1 DEF Taken, TypeOK
    <3> QED BY <2>1, <3>2, <3>3, <3>4, <3>5 DEF OnlyOutsiders, Overlapping
  <2> QED BY <1>3, <2>2, <2>3, RequestEffect DEF Unwritten, Writing, Write
<1>4. CASE UNCHANGED <<rows, pc, msg, ctx>>
  BY <1>0, <1>1, <1>4
<1>5. CASE OutsideInsert
  <2>1. PICK i \in Ids, row \in OutsideRows : rows' = [rows EXCEPT ![i] = row]
    BY <1>5 DEF OutsideInsert
  <2>2. /\ pc[v] \in {"limit", "write"} /\ msg[v].op # "cancel"
        /\ msg'[v] = msg[v] /\ ctx'[v] = ctx[v]
    BY <1>0, <1>5 DEF OutsideInsert
  <2>3. OnlyOutsiders(v)
    BY <2>2 DEF SlotStaysFree
  <2>4. rows'[i] = row
    BY <2>1 DEF TypeOK
  <2>5. \A j \in Taken(rows') \ {i} : j \in Taken(rows) /\ rows'[j] = rows[j]
    BY <2>1 DEF Taken, TypeOK
  <2> QED BY <2>2, <2>3, <2>4, <2>5 DEF OnlyOutsiders, Overlapping
<1> QED
  BY <1>0, <1>2, <1>3, <1>4, <1>5, StepKinds

-----------------------------------------------------------------------------
(* The theorems. *)

LEMMA InductiveInit == Init => Inductive
PROOF
<1> SUFFICES ASSUME Init
             PROVE  Inductive
  OBVIOUS
<1>1. TypeOK
  BY ReservationsAssumption
  DEF Init, TypeOK, Labels, InTransaction, NoContext, Context, NoReply, Reply
<1>2. HandlersOnTrack /\ LockHeld /\ PendingIsCurrent /\ PendingCompatible
  BY DEF Init, HandlersOnTrack, OnTrack, LockHeld, Locked, PendingIsCurrent,
         PendingCompatible
<1>3. Consistent(rows)
  BY ReservationsAssumption DEF Init
<1>4. SlotStaysFree
  BY DEF Init, SlotStaysFree
<1> QED BY <1>1, <1>2, <1>3, <1>4 DEF Inductive

(* The inductive invariant holds in every reachable state. *)
THEOREM InductiveInvariant == Spec => []Inductive
PROOF
<1>1. Inductive /\ [Next]_vars => Inductive'
  BY TypeStep, TrackStep, LockStep, PendingStep, CompatibleStep, SlotStep
  DEF Inductive
<1> QED BY InductiveInit, <1>1, PTL DEF Spec

(* Every variable always has its type. *)
THEOREM TypeCorrect == Spec => []TypeOK
PROOF
<1>1. Inductive => TypeOK
  BY DEF Inductive
<1> QED BY <1>1, InductiveInvariant, PTL

(* No resource ever has two confirmed reservations at one instant, whoever *)
(* writes the table.                                                       *)
THEOREM NeverOverlapping == Spec => []NoOverlap
PROOF
<1>1. Inductive => NoOverlap
  BY DEF Inductive, Consistent, Fits, NoOverlap
<1> QED BY <1>1, InductiveInvariant, PTL

(* No Idempotency-Key of a user ever has two reservations. *)
THEOREM KeysAreUnique == Spec => []OneRowPerKey
PROOF
<1>1. Inductive => OneRowPerKey
  BY DEF Inductive, Consistent, Fits, OneRowPerKey
<1> QED BY <1>1, InductiveInvariant, PTL

(* The rules checked under the lock never let a write through to the       *)
(* constraint that conflicts with a row of another request.                *)
THEOREM LockAndRulesSuffice == Spec => []RulesSuffice
PROOF
<1>1. Inductive => RulesSuffice
  BY DEF Inductive, SlotStaysFree, RulesSuffice
<1> QED BY <1>1, InductiveInvariant, PTL

(* The only steps that change the table are a commit and an insert from    *)
(* outside; each stores one row that fits the others.                      *)
LEMMA TableStep ==
  ASSUME Inductive, [Next]_vars, rows' # rows
  PROVE  \/ \E q \in Requests : Commit(q)
         \/ OutsideInsert
PROOF
<1>1. ASSUME NEW q \in Requests, Request(q), ~Commit(q)
      PROVE  FALSE
  BY <1>1, RequestEffect DEF Unwritten, Writing, Write
<1> QED
  BY <1>1, StepKinds

LEMMA CommitFacts ==
  ASSUME Inductive, NEW q \in Requests, Commit(q)
  PROVE  /\ pend[q].id \in Ids /\ pend[q].row \in Row
         /\ OwnWrite(q, pend[q].id, pend[q].row)
         /\ Fits(rows, pend[q].id, pend[q].row)
         /\ rows' = [rows EXCEPT ![pend[q].id] = pend[q].row]
         /\ rows'[pend[q].id] = pend[q].row
         /\ pc[q] = "commit" /\ pc'[q] = "done"
         /\ msg[q] \in Workload
         /\ msg[q].op # "create" =>
              rows[msg[q].id] \in Row /\ rows[msg[q].id] # None
PROOF
<1> USE DEF Inductive
<1>1. /\ pend[q] \in PendingWrite /\ pc[q] = "commit" /\ pc'[q] = "done"
      /\ rows' = [rows EXCEPT ![pend[q].id] = pend[q].row]
      /\ OwnWrite(q, pend[q].id, pend[q].row)
      /\ Fits(rows, pend[q].id, pend[q].row)
  BY DEF Commit, End, Goto, TypeOK, PendingIsCurrent, PendingCompatible
<1>2. msg[q] \in Workload
  BY <1>1 DEF HandlersOnTrack, OnTrack, TypeOK
<1>3. rows'[pend[q].id] = pend[q].row
  BY <1>1 DEF TypeOK, PendingWrite
<1>4. msg[q].op # "create" => rows[msg[q].id] \in Row /\ rows[msg[q].id] # None
  BY <1>1, <1>2, MessageFacts
  DEF HandlersOnTrack, OnTrack, TypeOK, Placed, Locked
<1> QED BY <1>1, <1>2, <1>3, <1>4 DEF PendingWrite

(* The one statement whose raw error reaches a client. *)
LEMMA RawErrorStep ==
  ASSUME Inductive, [Next]_vars, NEW q \in Requests,
         reply[q].code # "INTERNAL_ERROR", reply'[q].code = "INTERNAL_ERROR"
  PROVE  UpdatePeriod(q) /\ ExclusionViolated(msg[q].id, RescheduledRow(q))
PROOF
<1> USE DEF Inductive, TypeOK
<1>1. ASSUME NEW v \in Requests, NEW code, NEW i, End(v, code, i)
      PROVE  v = q /\ code = "INTERNAL_ERROR"
  BY <1>1 DEF End
<1>2. ASSUME NEW v \in Requests, Request(v)
      PROVE  UpdatePeriod(q) /\ ExclusionViolated(msg[q].id, RescheduledRow(q))
  <2>1. reply' # reply
    OBVIOUS
  <2>2. ~(Receive(v) \/ Connect(v) \/ AcquireLock(v))
    BY <1>1, <2>1 DEF Receive, Connect, AcquireLock, Throw, Continue
  <2>3. ~(CheckKey(v) \/ CheckOverlap(v) \/ CheckLimit(v))
    BY <1>1, <2>1
    DEF CheckKey, CheckOverlap, CheckLimit, Throw, Return, Continue
  <2>4. ~ReadOwned(v)
    BY <1>1, <2>1 DEF ReadOwned, OwnershipError, Throw, Return, Continue
  <2>5. ~CheckResource(v)
    BY <1>1, <2>1 DEF CheckResource, Refusal, Throw, Continue
  <2>6. ~(Insert(v) \/ UpdateStatus(v))
    BY <1>1, <2>1 DEF Insert, UpdateStatus, Throw, Write
  <2>7. ~Commit(v)
    <3> SUFFICES ASSUME Commit(v)
                 PROVE  FALSE
      OBVIOUS
    <3>1. msg[v].op \in Ops
      BY CommitFacts, MessageFacts
    <3> QED BY <1>1, <3>1 DEF Commit, SuccessCode, Ops
  <2>8. ~Crash(v)
    BY <1>1 DEF Crash, Throw
  <2>9. UpdatePeriod(v)
    BY <1>2, <2>2, <2>3, <2>4, <2>5, <2>6, <2>7, <2>8
    DEF Request, Proceed, Statement, Updates
  <2>10. v = q /\ ExclusionViolated(msg[v].id, RescheduledRow(v))
    BY <1>1, <2>1, <2>9 DEF UpdatePeriod, Throw, Write
  <2> QED BY <2>9, <2>10
<1>3. reply' # reply
  OBVIOUS
<1> QED BY <1>2, <1>3, StepKinds DEF OutsideInsert

(* A rescheduling that gets a raw database error holds the lock, and lost  *)
(* to a row that was inserted past the API.                                *)
THEOREM OutsidersAloneSurprise == Spec => OnlyOutsidersSurprise
PROOF
<1> DEFINE Explained(q) ==
      /\ msg[q].op = "reschedule" /\ lock[ctx[q].resource] = q
      /\ \E i \in Taken(rows) :
           Clash(RescheduledRow(q), rows[i]) /\ rows[i] \in OutsideRows
<1>1. ASSUME Inductive, [Next]_vars, NEW q \in Requests,
             reply[q].code # "INTERNAL_ERROR", reply'[q].code = "INTERNAL_ERROR"
      PROVE  Explained(q)
  <2>1. UpdatePeriod(q) /\ ExclusionViolated(msg[q].id, RescheduledRow(q))
    BY <1>1, RawErrorStep DEF Inductive
  <2>2. pc[q] = "write" /\ msg[q].op = "reschedule"
    BY <2>1 DEF UpdatePeriod
  <2>3. lock[ctx[q].resource] = q /\ OnlyOutsiders(q)
    BY <1>1, <2>2 DEF Inductive, LockHeld, Locked, SlotStaysFree
  <2>4. /\ rows[msg[q].id] \in Row
        /\ rows[msg[q].id].resource = ctx[q].resource
    BY <1>1, <2>2, MessageFacts
    DEF Inductive, HandlersOnTrack, OnTrack, TypeOK, Placed, Locked
  <2>5. /\ RescheduledRow(q).resource = ctx[q].resource
        /\ RescheduledRow(q).period = msg[q].period
    BY <2>4 DEF RescheduledRow, Row
  <2>6. PICK j \in Taken(rows) \ {msg[q].id} : Clash(RescheduledRow(q), rows[j])
    BY <2>1 DEF ExclusionViolated
  <2>7. j \in Overlapping(q)
    BY <2>5, <2>6 DEF Clash, Overlaps, Overlapping
  <2> QED BY <2>2, <2>3, <2>6, <2>7 DEF OnlyOutsiders
<1>2. Inductive /\ [Next]_vars =>
        [\A q \in Requests :
           reply[q].code # "INTERNAL_ERROR" /\ reply'[q].code = "INTERNAL_ERROR"
           => Explained(q)]_reply
  BY <1>1
<1> QED BY <1>2, InductiveInvariant, PTL DEF Spec, OnlyOutsidersSurprise

(* No interleaving undoes a cancellation. *)
THEOREM CancellationsLast == Spec => CancelledIsFinal
PROOF
<1>1. ASSUME Inductive, [Next]_vars, NEW i \in Taken(rows),
             rows[i].status = "CANCELLED"
      PROVE  rows'[i].status = "CANCELLED"
  <2>1. CASE rows' = rows
    BY <1>1, <2>1
  <2>2. CASE OutsideInsert
    BY <1>1, <2>2 DEF OutsideInsert, Fresh, Taken, Inductive, TypeOK
  <2>3. ASSUME NEW q \in Requests, Commit(q)
        PROVE  rows'[i].status = "CANCELLED"
    <3>1. CASE i # pend[q].id
      BY <1>1, <2>3, <3>1, CommitFacts DEF Taken, Inductive, TypeOK
    <3>2. CASE i = pend[q].id
      <4>1. rows[i] \in Row /\ rows[i] # None
        BY <1>1 DEF Taken, Inductive, TypeOK
      <4>2. msg[q].op # "create" /\ msg[q].id = i
        BY <1>1, <2>3, <3>2, <4>1, CommitFacts DEF OwnWrite
      <4>3. rows'[i] = RescheduledRow(q) \/ rows'[i] = CancelledRow(q)
        BY <1>1, <2>3, <3>2, <4>2, CommitFacts DEF OwnWrite
      <4>4. RescheduledRow(q).status = rows[i].status
        BY <4>1, <4>2 DEF RescheduledRow, Row
      <4>5. CancelledRow(q).status = "CANCELLED"
        BY <4>1, <4>2 DEF CancelledRow, Row
      <4> QED BY <1>1, <4>3, <4>4, <4>5
    <3> QED BY <3>1, <3>2
  <2> QED BY <1>1, <2>1, <2>2, <2>3, TableStep
<1>2. Inductive /\ [Next]_vars =>
        [\A i \in Taken(rows) :
           rows[i].status = "CANCELLED" => rows'[i].status = "CANCELLED"]_rows
  BY <1>1
<1> QED BY <1>2, InductiveInvariant, PTL DEF Spec, CancelledIsFinal

(* Only its owner or an administrator changes a reservation. *)
THEOREM OnlyOwnersChange == Spec => OwnersOnly
PROOF
<1> DEFINE Entitled(i) ==
      \E q \in Requests : /\ pc[q] = "commit" /\ pc'[q] = "done"
                          /\ msg[q].id = i
                          /\ msg[q].caller \in Admins \cup {rows[i].user}
<1>1. ASSUME Inductive, [Next]_vars, NEW i \in Taken(rows), rows'[i] # rows[i]
      PROVE  Entitled(i)
  <2>1. ~OutsideInsert
    BY <1>1 DEF OutsideInsert, Fresh, Taken, Inductive, TypeOK
  <2>2. PICK q \in Requests : Commit(q)
    BY <1>1, <2>1, TableStep
  <2>3. i = pend[q].id
    BY <1>1, <2>2, CommitFacts DEF Taken, Inductive, TypeOK
  <2>4. msg[q].op # "create" /\ msg[q].id = i
    BY <1>1, <2>2, <2>3, CommitFacts DEF OwnWrite, Taken
  <2>5. msg[q].caller \in Admins \cup {rows[i].user}
    BY <1>1, <2>2, <2>4, CommitFacts
    DEF Inductive, HandlersOnTrack, OnTrack, Placed, Locked
  <2> QED BY <1>1, <2>2, <2>4, <2>5, CommitFacts
<1>2. Inductive /\ [Next]_vars =>
        [\A i \in Taken(rows) : rows'[i] # rows[i] => Entitled(i)]_rows
  BY <1>1
<1> QED BY <1>2, InductiveInvariant, PTL DEF Spec, OwnersOnly

-----------------------------------------------------------------------------
(* Reservations implements BookingTable. *)

(* BookingTable speaks of the same rows as Reservations. *)
LEMMA SameVocabulary ==
  /\ Table!Row = Row
  /\ \A p : Table!ValidPeriod(p) <=> ValidPeriod(p)
  /\ \A t, i, row : Table!Fits(t, i, row) <=> Fits(t, i, row)
  /\ \A t : Table!Consistent(t) <=> Consistent(t)
PROOF
<1>1. Table!Row = Row
  BY DEF Table!Row, Row, Table!Status, Status, Table!Interval, Interval
<1>2. \A p : Table!ValidPeriod(p) <=> ValidPeriod(p)
  BY DEF Table!ValidPeriod, ValidPeriod
<1>3. \A t, i, row : Table!Fits(t, i, row) <=> Fits(t, i, row)
  BY DEF Table!Fits, Fits, Table!Taken, Taken, Table!Clash, Clash,
         Table!SameKey, SameKey, Table!Overlaps, Overlaps
<1>4. \A t : Table!Consistent(t) <=> Consistent(t)
  BY <1>3 DEF Table!Consistent, Consistent, Table!Taken, Taken
<1> QED BY <1>1, <1>2, <1>3, <1>4

(* A commit is a booking, a move or a cancellation of the abstract table. *)
LEMMA CommitRefines ==
  ASSUME Inductive, NEW q \in Requests, Commit(q)
  PROVE  Table!Next
PROOF
<1> DEFINE i == pend[q].id
<1>1. /\ i \in Ids /\ pend[q].row \in Row
      /\ rows' = [rows EXCEPT ![i] = rows'[i]]
      /\ rows'[i] = pend[q].row
      /\ Fits(rows, i, rows'[i])
      /\ OwnWrite(q, i, rows'[i])
      /\ pc[q] = "commit"
      /\ msg[q] \in Workload
  BY CommitFacts
<1>2. OnTrack(q)
  BY DEF Inductive, HandlersOnTrack
<1>3. msg[q].op # "cancel" => ValidPeriod(msg[q].period)
  BY <1>1, <1>2 DEF OnTrack
<1>4. CASE msg[q].op = "create"
  <2>1. rows[i] = None /\ rows'[i] = CreatedRow(q)
    BY <1>1, <1>4 DEF OwnWrite
  <2>2. rows'[i].period.start < rows'[i].period.end
    BY <1>3, <1>4, <2>1 DEF CreatedRow, ValidPeriod
  <2>3. rows'[i].status = "CONFIRMED" /\ rows'[i].cancelledBy = None
    BY <2>1 DEF CreatedRow
  <2>4. Table!Book(i)
    BY <1>1, <2>1, <2>2, <2>3, SameVocabulary DEF Table!Book
  <2> QED BY <1>1, <2>4 DEF Table!Next
<1>5. CASE msg[q].op = "reschedule"
  <2>1. i = msg[q].id /\ rows'[i] = RescheduledRow(q)
    BY <1>1, <1>5 DEF OwnWrite
  <2>2. rows[i] \in Row /\ rows[i] # None
    BY <1>5, <2>1, CommitFacts
  <2>3. rows'[i] = [rows[i] EXCEPT !.period = msg[q].period,
                                   !.attendees = msg[q].attendees]
    BY <2>1 DEF RescheduledRow
  <2>4. /\ rows'[i].period = msg[q].period
        /\ rows'[i].attendees = msg[q].attendees
    BY <2>2, <2>3 DEF Row
  <2>5. Table!Move(i)
    BY <1>1, <1>3, <1>5, <2>2, <2>3, <2>4, SameVocabulary DEF Table!Move
  <2> QED BY <1>1, <2>5 DEF Table!Next
<1>6. CASE msg[q].op = "cancel"
  <2>1. i = msg[q].id /\ rows'[i] = CancelledRow(q)
    BY <1>1, <1>6 DEF OwnWrite
  <2>2. rows[i] \in Row /\ rows[i] # None
    BY <1>6, <2>1, CommitFacts
  <2>3. rows'[i] = [rows[i] EXCEPT !.status = "CANCELLED",
                                   !.cancelledBy = msg[q].caller]
    BY <2>1 DEF CancelledRow
  <2>4. rows'[i].cancelledBy = msg[q].caller
    BY <2>2, <2>3 DEF Row
  <2>5. msg[q].caller # None
    BY <1>1, MessageFacts, NoneAssumption
  <2>6. Table!Cancel(i)
    BY <1>1, <2>2, <2>3, <2>4, <2>5, SameVocabulary DEF Table!Cancel
  <2> QED BY <1>1, <2>6 DEF Table!Next
<1> QED BY <1>1, <1>4, <1>5, <1>6, MessageFacts DEF Ops

(* So is an insert from outside. *)
LEMMA OutsideRefines ==
  ASSUME Inductive, OutsideInsert
  PROVE  Table!Next
PROOF
<1>1. PICK i \in Ids, row \in OutsideRows :
        /\ Fresh(i)
        /\ row.period.start < row.period.end
        /\ row.status # "COMPLETED"
        /\ row.status = "CANCELLED" <=> row.cancelledBy # None
        /\ ~ExclusionViolated(i, row) /\ ~KeyTaken(i, row)
        /\ rows' = [rows EXCEPT ![i] = row]
  BY DEF OutsideInsert
<1>2. row \in Row
  BY ReservationsAssumption
<1>3. rows'[i] = row
  BY <1>1 DEF Inductive, TypeOK
<1>4. Fits(rows, i, row)
  BY <1>1 DEF Fits, ExclusionViolated, KeyTaken
<1>5. Table!Book(i) \/ Table!Import(i)
  BY <1>1, <1>2, <1>3, <1>4, SameVocabulary
  DEF Table!Book, Table!Import, Fresh, Row, Status
<1> QED BY <1>1, <1>3, <1>5 DEF Table!Next

(* The statements of the handlers, however they interleave, crash and are  *)
(* refused, add up to the promise of BookingTable: initial tables are      *)
(* initial tables there, and every step is one of its steps or a stutter.  *)
THEOREM RefinesTable == Spec => ImplementsTable
PROOF
<1>1. Init => Table!Init
  BY ReservationsAssumption, SameVocabulary DEF Init, Table!Init
<1>2. Inductive /\ [Next]_vars => [Table!Next]_rows
  BY TableStep, CommitRefines, OutsideRefines
<1> QED
  BY <1>1, <1>2, InductiveInvariant, PTL DEF Spec, ImplementsTable, Table!Spec

=============================================================================
