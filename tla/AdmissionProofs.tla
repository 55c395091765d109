--------------------------- MODULE AdmissionProofs ---------------------------
(***************************************************************************)
(* Theorems about what requests are told, what is admitted, and whether    *)
(* handlers wait in a circle: retries with one key, conflicts, the contest *)
(* for one slot, the rules, the limit, the order of pool and locks.  They  *)
(* rest on the invariant of ReservationsProofs.                            *)
(***************************************************************************)
EXTENDS ReservationsProofs, FiniteSetTheorems

-----------------------------------------------------------------------------
(* Answers. *)

(* A step of one request answers no other. *)
LEMMA RepliesKept ==
  ASSUME TypeOK, NEW q \in Requests, Request(q), NEW v \in Requests \ {q}
  PROVE  reply'[v] = reply[v]
PROOF
<1> USE DEF TypeOK, Return, Throw, End, Continue, Write
<1>1. CASE Receive(q) \/ Connect(q) \/ AcquireLock(q) \/ CheckKey(q)
  BY <1>1 DEF Receive, Connect, AcquireLock, CheckKey
<1>2. CASE ReadOwned(q)
  BY <1>2 DEF ReadOwned
<1>3. CASE CheckResource(q) \/ CheckOverlap(q) \/ CheckLimit(q)
  BY <1>3 DEF CheckResource, CheckOverlap, CheckLimit
<1>4. CASE Updates(q)
  BY <1>4 DEF Updates, Insert, UpdatePeriod, UpdateStatus
<1>5. CASE Commit(q) \/ Crash(q)
  BY <1>5 DEF Commit, Crash
<1> QED
  BY <1>1, <1>2, <1>3, <1>4, <1>5 DEF Request, Proceed, Statement

(* A request that was answered takes no further step. *)
LEMMA AnsweredStays ==
  ASSUME TypeOK, [Next]_vars, NEW q \in Requests, pc[q] = "done"
  PROVE  pc'[q] = "done" /\ msg'[q] = msg[q] /\ ctx'[q] = ctx[q] /\ reply'[q] = reply[q]
PROOF
<1>1. ~Request(q)
  BY DEF Request, Proceed, Statement, Updates, Receive, Connect, AcquireLock,
         CheckKey, ReadOwned, CheckResource, CheckOverlap, CheckLimit, Insert,
         UpdatePeriod, UpdateStatus, Commit, Crash
<1>2. ASSUME NEW v \in Requests, Request(v)
      PROVE  pc'[q] = "done" /\ msg'[q] = msg[q] /\ ctx'[q] = ctx[q] /\ reply'[q] = reply[q]
  BY <1>1, <1>2, RequestFrame, RepliesKept DEF Frame
<1> QED BY <1>2, StepKinds DEF OutsideInsert

(* Success of a creation is reported by the lookup of its key and by its   *)
(* COMMIT alone.                                                           *)
LEMMA CreatedStep ==
  ASSUME Inductive, [Next]_vars, NEW q \in Requests,
         reply'[q] # reply[q], reply'[q].code = "CREATED"
  PROVE  CheckKey(q) \/ (Commit(q) /\ msg[q].op = "create")
PROOF
<1> USE DEF Inductive, TypeOK
<1>1. ASSUME NEW v \in Requests, NEW code, NEW i, End(v, code, i)
      PROVE  v = q /\ code = "CREATED"
  BY <1>1 DEF End
<1>2. ASSUME NEW v \in Requests, Request(v)
      PROVE  CheckKey(q) \/ (Commit(q) /\ msg[q].op = "create")
  <2>1. ~(Receive(v) \/ Connect(v) \/ AcquireLock(v))
    BY <1>1 DEF Receive, Connect, AcquireLock, Throw, Continue
  <2>2. ~(CheckOverlap(v) \/ CheckLimit(v))
    BY <1>1 DEF CheckOverlap, CheckLimit, Throw, Continue
  <2>3. ~ReadOwned(v)
    BY <1>1 DEF ReadOwned, OwnershipError, Throw, Return, Continue
  <2>4. ~CheckResource(v)
    BY <1>1 DEF CheckResource, Refusal, Throw, Continue
  <2>5. ~(Insert(v) \/ UpdateStatus(v) \/ UpdatePeriod(v))
    BY <1>1 DEF Insert, UpdateStatus, UpdatePeriod, Throw, Write
  <2>6. ~Crash(v)
    BY <1>1 DEF Crash, Throw
  <2>7. CheckKey(v) \/ Commit(v)
    BY <1>2, <2>1, <2>2, <2>3, <2>4, <2>5, <2>6
    DEF Request, Proceed, Statement, Updates
  <2>8. CASE CheckKey(v)
    BY <1>1, <2>8 DEF CheckKey, Return, Continue
  <2>9. CASE Commit(v)
    <3>1. msg[v].op \in Ops
      BY <2>9, CommitFacts, MessageFacts
    <3>2. v = q /\ SuccessCode(msg[v].op) = "CREATED"
      BY <1>1, <2>9 DEF Commit
    <3>3. msg[v].op = "create"
      BY <3>1, <3>2 DEF SuccessCode, Ops
    <3> QED BY <2>9, <3>2, <3>3
  <2> QED BY <2>7, <2>8, <2>9
<1> QED BY <1>2, StepKinds DEF OutsideInsert

-----------------------------------------------------------------------------
(* Keys. *)

(* A creation acts for its caller, on the resource it names. *)
CreatesForCaller ==
  \A q \in Requests :
    pc[q] \notin {"new", "connect", "done"} /\ msg[q].op = "create" =>
      ctx[q].user = msg[q].caller /\ ctx[q].resource = msg[q].resource

(* What a creation reports carries its caller and its key. *)
ReportsItsKey ==
  \A q \in Requests :
    reply[q].code = "CREATED" =>
      /\ pc[q] = "done"
      /\ reply[q].id \in Taken(rows)
      /\ rows[reply[q].id].user = msg[q].caller
      /\ rows[reply[q].id].key = msg[q].key

LEMMA CallerStep ==
  ASSUME Inductive, CreatesForCaller, [Next]_vars
  PROVE  CreatesForCaller'
PROOF
<1> USE DEF Inductive
<1>1. ASSUME NEW v \in Requests, pc'[v] = pc[v], msg'[v] = msg[v], ctx'[v] = ctx[v],
             pc'[v] \notin {"new", "connect", "done"}, msg'[v].op = "create"
      PROVE  ctx'[v].user = msg'[v].caller /\ ctx'[v].resource = msg'[v].resource
  BY <1>1 DEF CreatesForCaller
<1>2. ASSUME NEW q \in Requests, Request(q),
             pc'[q] \notin {"new", "connect", "done"}, msg'[q].op = "create"
      PROVE  ctx'[q].user = msg'[q].caller /\ ctx'[q].resource = msg'[q].resource
  <2>1. ~Receive(q) /\ ~Commit(q) /\ ~Crash(q)
    BY <1>2 DEF Receive, Commit, Crash, Throw, End, Continue, Goto, TypeOK
  <2>2. msg' = msg /\ pc[q] \notin {"new", "done"}
    BY <1>2, <2>1
    DEF Request, Proceed, Statement, Updates, Connect, AcquireLock,
        CheckKey, ReadOwned, CheckResource, CheckOverlap, CheckLimit, Insert,
        UpdatePeriod, UpdateStatus
  <2>3. CASE Connect(q)
    BY <1>2, <2>2, <2>3 DEF Connect, TypeOK, NoContext
  <2>4. CASE ~Connect(q)
    <3>1. pc[q] # "connect"
      BY <1>2, <2>1, <2>4
      DEF Request, Proceed, Statement, Updates, AcquireLock,
          CheckKey, ReadOwned, CheckResource, CheckOverlap, CheckLimit, Insert,
          UpdatePeriod, UpdateStatus
    <3>2. ctx[q].user = msg[q].caller /\ ctx[q].resource = msg[q].resource
      BY <1>2, <2>2, <3>1 DEF CreatesForCaller
    <3>3. ctx' = ctx \/ ReadOwned(q) \/ CheckResource(q)
      BY <1>2, <2>1, <2>4
      DEF Request, Proceed, Statement, Updates, AcquireLock,
          CheckKey, CheckOverlap, CheckLimit, Insert, UpdatePeriod, UpdateStatus
    <3>4. ~ReadOwned(q)
      BY <1>2, <2>2 DEF ReadOwned, HandlersOnTrack, OnTrack
    <3>5. CheckResource(q) => ctx'[q].user = ctx[q].user /\ ctx'[q].resource = ctx[q].resource
      BY DEF CheckResource, TypeOK, Context
    <3> QED BY <2>2, <3>2, <3>3, <3>4, <3>5
  <2> QED BY <2>3, <2>4
<1> QED BY <1>1, <1>2, RequestFrame, StepKinds DEF Frame, OutsideInsert, CreatesForCaller

LEMMA ReportStep ==
  ASSUME Inductive, CreatesForCaller, ReportsItsKey, [Next]_vars
  PROVE  ReportsItsKey'
PROOF
<1> USE DEF Inductive
<1> SUFFICES ASSUME NEW q \in Requests, reply'[q].code = "CREATED"
             PROVE  /\ pc'[q] = "done"
                    /\ reply'[q].id \in Taken(rows')
                    /\ rows'[reply'[q].id].user = msg'[q].caller
                    /\ rows'[reply'[q].id].key = msg'[q].key
  BY DEF ReportsItsKey, Taken
<1>1. CASE reply'[q] = reply[q]
  <2>1. pc'[q] = "done" /\ msg'[q] = msg[q]
    BY <1>1, AnsweredStays DEF ReportsItsKey
  <2> QED BY <1>1, <2>1, RowsKept DEF ReportsItsKey, Taken
<1>2. CASE reply'[q] # reply[q] /\ CheckKey(q)
  <2>1. PICK i \in Taken(rows) : /\ rows[i].user = msg[q].caller
                                 /\ rows[i].key = msg[q].key
                                 /\ Return(q, "CREATED", i)
    BY <1>2 DEF CheckKey, Continue
  <2>2. /\ reply'[q].id = i /\ pc'[q] = "done"
        /\ rows' = rows /\ msg' = msg
    BY <1>2, <2>1 DEF CheckKey, Return, End, Goto, TypeOK
  <2> QED BY <2>1, <2>2
<1>3. CASE Commit(q) /\ msg[q].op = "create"
  <2>1. /\ rows'[pend[q].id] = CreatedRow(q) /\ pend[q].id \in Ids
        /\ CreatedRow(q) \in Row /\ pc[q] = "commit" /\ pc'[q] = "done"
    BY <1>3, CommitFacts DEF OwnWrite
  <2>2. reply'[q].id = pend[q].id /\ msg' = msg
    BY <1>3 DEF Commit, End, TypeOK
  <2>3. ctx[q].user = msg[q].caller
    BY <1>3, <2>1 DEF CreatesForCaller
  <2> QED BY <2>1, <2>2, <2>3, NoneAssumption DEF CreatedRow, Taken
<1> QED BY <1>1, <1>2, <1>3, CreatedStep

(* However the copies of a request with one key run into each other and    *)
(* into other writers, all of them that succeed report one reservation.    *)
THEOREM RetriesAgree == Spec => []SameKeySameAnswer
PROOF
<1>1. Init => CreatesForCaller /\ ReportsItsKey
  BY DEF Init, CreatesForCaller, ReportsItsKey, NoReply
<1>2. ASSUME Inductive, CreatesForCaller, ReportsItsKey, [Next]_vars
      PROVE  CreatesForCaller' /\ ReportsItsKey'
  BY <1>2, CallerStep, ReportStep
<1>3. ASSUME Inductive, ReportsItsKey
      PROVE  SameKeySameAnswer
  BY <1>3 DEF Inductive, Consistent, Fits, SameKey, ReportsItsKey, SameKeySameAnswer
<1>4. Inductive /\ CreatesForCaller /\ ReportsItsKey /\ [Next]_vars
        => CreatesForCaller' /\ ReportsItsKey'
  BY <1>2
<1>5. Inductive /\ ReportsItsKey => SameKeySameAnswer
  BY <1>3
<1> QED BY <1>1, <1>4, <1>5, InductiveInvariant, PTL DEF Spec

-----------------------------------------------------------------------------
(* Conflicts. *)

UnreadBeforeArrival == \A q \in Requests : pc[q] = "new" => msg[q] = None

(* ConflictIsReal, with what keeps it true. *)
ConflictStands ==
  OnlyCreations =>
    \A q \in Requests :
      reply[q].code = "OVERLAPPING_RESERVATION" =>
        /\ pc[q] = "done"
        /\ \E i \in Taken(rows) : Clash(rows[i], CreatedRow(q))

(* A conflict is reported where the rule or the constraint found it. *)
LEMMA OverlapStep ==
  ASSUME Inductive, [Next]_vars, NEW q \in Requests,
         reply'[q] # reply[q], reply'[q].code = "OVERLAPPING_RESERVATION"
  PROVE  /\ CheckOverlap(q) \/ Insert(q)
         /\ pc'[q] = "done"
         /\ msg[q].op = "create" => \E i \in Taken(rows) : Clash(rows[i], CreatedRow(q))
PROOF
<1> USE DEF Inductive, TypeOK
<1>1. ASSUME NEW v \in Requests, NEW code, NEW i, End(v, code, i)
      PROVE  v = q /\ code = "OVERLAPPING_RESERVATION" /\ pc'[v] = "done"
  BY <1>1 DEF End, Goto
<1>2. ASSUME NEW v \in Requests, Request(v)
      PROVE  v = q /\ pc'[v] = "done" /\ (CheckOverlap(v) \/ Insert(v))
  <2>1. ~(Receive(v) \/ Connect(v) \/ AcquireLock(v))
    BY <1>1 DEF Receive, Connect, AcquireLock, Throw, Continue
  <2>2. ~(CheckKey(v) \/ CheckLimit(v))
    BY <1>1 DEF CheckKey, CheckLimit, Throw, Return, Continue
  <2>3. ~ReadOwned(v)
    BY <1>1 DEF ReadOwned, OwnershipError, Throw, Return, Continue
  <2>4. ~CheckResource(v)
    BY <1>1 DEF CheckResource, Refusal, Throw, Continue
  <2>5. ~(UpdateStatus(v) \/ UpdatePeriod(v))
    BY <1>1 DEF UpdateStatus, UpdatePeriod, Throw, Write
  <2>6. ~Crash(v)
    BY <1>1 DEF Crash, Throw
  <2>7. ~Commit(v)
    <3> SUFFICES ASSUME Commit(v)
                 PROVE  FALSE
      OBVIOUS
    <3>1. msg[v].op \in Ops
      BY CommitFacts, MessageFacts
    <3>2. SuccessCode(msg[v].op) = "OVERLAPPING_RESERVATION"
      BY <1>1 DEF Commit
    <3> QED BY <3>1, <3>2 DEF SuccessCode, Ops
  <2>8. CheckOverlap(v) \/ Insert(v)
    BY <1>2, <2>1, <2>2, <2>3, <2>4, <2>5, <2>6, <2>7
    DEF Request, Proceed, Statement, Updates
  <2>9. CASE CheckOverlap(v)
    BY <1>1, <2>9 DEF CheckOverlap, Throw, Continue
  <2>10. CASE Insert(v)
    BY <1>1, <2>10 DEF Insert, Throw, Write
  <2> QED BY <2>8, <2>9, <2>10
<1>3. Request(q) /\ pc'[q] = "done" /\ (CheckOverlap(q) \/ Insert(q))
  BY <1>2, StepKinds DEF OutsideInsert
<1>4. CASE CheckOverlap(q)
  <2>1. PICK i \in Overlapping(q) : TRUE
    BY <1>3, <1>4 DEF CheckOverlap, Continue, Goto
  <2>2. Clash(rows[i], CreatedRow(q)) /\ i \in Taken(rows)
    BY <2>1 DEF Overlapping, Clash, CreatedRow, Overlaps
  <2> QED BY <1>3, <1>4, <2>2
<1>5. CASE Insert(q)
  <2>1. PICK i \in Ids : ExclusionViolated(i, CreatedRow(q))
    BY <1>1, <1>3, <1>5 DEF Insert, Throw, Write
  <2>2. PICK j \in Taken(rows) : Clash(CreatedRow(q), rows[j])
    BY <2>1 DEF ExclusionViolated
  <2> QED BY <1>3, <1>5, <2>2, CompatibleSymmetric
<1> QED BY <1>3, <1>4, <1>5

(* A message is received once and never exchanged for another. *)
LEMMA MessagesStand ==
  ASSUME Inductive, UnreadBeforeArrival, [Next]_vars
  PROVE  \A q \in Requests : /\ pc'[q] = "new" => pc[q] = "new" /\ msg'[q] = msg[q]
                             /\ msg[q] # None => msg'[q] = msg[q]
PROOF
<1> USE DEF Inductive
<1>1. ASSUME NEW q \in Requests, Request(q)
      PROVE  /\ pc'[q] # "new"
             /\ msg[q] # None => msg'[q] = msg[q]
  <2>1. pc'[q] # "new"
    BY <1>1
    DEF Request, Proceed, Statement, Updates, Receive, Connect, AcquireLock,
        CheckKey, ReadOwned, CheckResource, CheckOverlap, CheckLimit, Insert,
        UpdatePeriod, UpdateStatus, Commit, Crash, Throw, Return, End, Continue,
        Write, Goto, TypeOK
  <2>2. Receive(q) \/ msg' = msg
    BY <1>1
    DEF Request, Proceed, Statement, Updates, Connect, AcquireLock,
        CheckKey, ReadOwned, CheckResource, CheckOverlap, CheckLimit, Insert,
        UpdatePeriod, UpdateStatus, Commit, Crash
  <2> QED BY <2>1, <2>2 DEF UnreadBeforeArrival, Receive
<1> QED BY <1>1, RequestFrame, StepKinds DEF Frame, OutsideInsert

(* As long as nothing but creations is asked for, a row stays as it is. *)
LEMMA CreationsOnlyAdd ==
  ASSUME Inductive, OnlyCreations, [Next]_vars, NEW i \in Taken(rows)
  PROVE  i \in Taken(rows') /\ rows'[i] = rows[i]
PROOF
<1> USE DEF Inductive
<1>1. CASE rows' = rows
  BY <1>1
<1>2. CASE OutsideInsert
  BY <1>2 DEF OutsideInsert, Fresh, Taken, TypeOK
<1>3. ASSUME NEW v \in Requests, Commit(v)
      PROVE  i \in Taken(rows') /\ rows'[i] = rows[i]
  <2>1. msg[v].op = "create"
    BY <1>3, CommitFacts, MessageFacts, NoneAssumption DEF OnlyCreations
  <2>2. /\ rows[pend[v].id] = None /\ pend[v].id \in Ids
        /\ rows' = [rows EXCEPT ![pend[v].id] = pend[v].row]
    BY <1>3, <2>1, CommitFacts DEF OwnWrite
  <2> QED BY <2>2 DEF Taken, TypeOK
<1> QED BY <1>1, <1>2, <1>3, TableStep

LEMMA ConflictStep ==
  ASSUME Inductive, UnreadBeforeArrival, ConflictStands, [Next]_vars
  PROVE  UnreadBeforeArrival' /\ ConflictStands'
PROOF
<1> USE DEF Inductive
<1>1. UnreadBeforeArrival'
  BY MessagesStand DEF UnreadBeforeArrival
<1>2. OnlyCreations' => OnlyCreations
  BY MessagesStand DEF OnlyCreations
<1>3. ASSUME OnlyCreations', NEW q \in Requests,
             reply'[q].code = "OVERLAPPING_RESERVATION"
      PROVE  /\ pc'[q] = "done"
             /\ \E i \in Taken(rows') : Clash(rows'[i], CreatedRow(q)')
  <2>1. ASSUME NEW i \in Taken(rows)
        PROVE  i \in Taken(rows') /\ rows'[i] = rows[i]
    BY <1>2, <1>3, CreationsOnlyAdd
  <2>2. CASE reply'[q] = reply[q]
    <3>1. pc[q] = "done" /\ \E i \in Taken(rows) : Clash(rows[i], CreatedRow(q))
      BY <1>2, <1>3, <2>2 DEF ConflictStands
    <3>2. pc'[q] = "done" /\ CreatedRow(q)' = CreatedRow(q)
      BY <3>1, AnsweredStays DEF CreatedRow
    <3> QED BY <2>1, <3>1, <3>2
  <2>3. CASE reply'[q] # reply[q]
    <3>1. CheckOverlap(q) \/ Insert(q)
      BY <1>3, <2>3, OverlapStep
    <3>2. ctx' = ctx /\ msg' = msg /\ pc[q] \notin {"new", "done"}
      BY <3>1 DEF CheckOverlap, Insert
    <3>3. msg[q].op = "create"
      BY <1>2, <1>3, <3>2 DEF OnlyCreations, HandlersOnTrack, OnTrack
    <3>4. pc'[q] = "done" /\ \E i \in Taken(rows) : Clash(rows[i], CreatedRow(q))
      BY <1>3, <2>3, <3>3, OverlapStep
    <3>5. CreatedRow(q)' = CreatedRow(q)
      BY <3>2 DEF CreatedRow
    <3> QED BY <2>1, <3>4, <3>5
  <2> QED BY <2>2, <2>3
<1> QED BY <1>1, <1>3 DEF ConflictStands, Taken

(* As long as nothing but creations is asked for, whoever is told of an    *)
(* overlap has lost to a reservation that is there: never to a request     *)
(* that was rolled back, crashed or refused itself.                        *)
THEOREM ConflictsAreReal == Spec => []ConflictIsReal
PROOF
<1>1. Init => UnreadBeforeArrival /\ ConflictStands
  BY DEF Init, UnreadBeforeArrival, ConflictStands, NoReply
<1>2. Inductive /\ UnreadBeforeArrival /\ ConflictStands /\ [Next]_vars
        => UnreadBeforeArrival' /\ ConflictStands'
  BY ConflictStep
<1>3. ConflictStands => ConflictIsReal
  BY DEF ConflictStands, ConflictIsReal
<1> QED BY <1>1, <1>2, <1>3, InductiveInvariant, PTL DEF Spec

-----------------------------------------------------------------------------
(* The contest for one slot. *)

(* A row that has nothing to do with what may be asked for: neither in the *)
(* way of a period nor a reservation of a caller.                          *)
Elsewhere(row) ==
  \A m \in Workload : m.op = "create" =>
    /\ row.user # m.caller
    /\ ~(row.resource = m.resource /\ Overlaps(row.period, m.period))

(* A row that a request asked for, of those that ask for what asked says. *)
Wanted(asked, row) ==
  \E v \in Requests : /\ asked[v] # None
                      /\ row.status = "CONFIRMED"
                      /\ row.resource = asked[v].resource
                      /\ row.period = asked[v].period

OnlyWantedRows == \A i \in Taken(rows) : Elsewhere(rows[i]) \/ Wanted(msg, rows[i])

(* An answer that depends on the reservations there are was given when a   *)
(* row that somebody asked for was committed already.                      *)
ContestDecided ==
  \A q \in Requests : reply[q].code \in ContestCodes =>
    /\ pc[q] = "done" /\ msg[q] # None
    /\ ValidPeriod(msg[q].period)
    /\ ctx[q].resource = msg[q].resource
    /\ \E i \in Taken(rows) : Wanted(msg, rows[i])

Contest == OnlyCreations => OnlyWantedRows /\ ContestDecided

(* The statements that give such an answer. *)
LEMMA ContestedStep ==
  ASSUME Inductive, OnlyCreations, [Next]_vars, NEW q \in Requests,
         reply'[q] # reply[q], reply'[q].code \in ContestCodes
  PROVE  /\ CheckKey(q) \/ CheckOverlap(q) \/ CheckLimit(q) \/ Insert(q) \/ Commit(q)
         /\ pc'[q] = "done"
PROOF
<1> USE DEF Inductive, TypeOK
<1>1. ASSUME NEW v \in Requests, NEW code, NEW i, End(v, code, i)
      PROVE  v = q /\ code \in ContestCodes /\ pc'[v] = "done"
  BY <1>1 DEF End, Goto
<1>2. ASSUME NEW v \in Requests, Request(v)
      PROVE  /\ v = q /\ pc'[v] = "done"
             /\ CheckKey(v) \/ CheckOverlap(v) \/ CheckLimit(v) \/ Insert(v) \/ Commit(v)
  <2> USE DEF ContestCodes
  <2>1. ~(Receive(v) \/ Connect(v) \/ AcquireLock(v) \/ Crash(v))
    BY <1>1 DEF Receive, Connect, AcquireLock, Crash, Throw, Continue
  <2>2. ~ReadOwned(v)
    BY <1>1 DEF ReadOwned, OwnershipError, Throw, Return, Continue
  <2>3. ~CheckResource(v)
    BY <1>1 DEF CheckResource, Refusal, Throw, Continue
  <2>4. ~(UpdateStatus(v) \/ UpdatePeriod(v))
    BY <1>1 DEF UpdateStatus, UpdatePeriod, Throw, Write
  <2>5. CheckKey(v) \/ CheckOverlap(v) \/ CheckLimit(v) \/ Insert(v) \/ Commit(v)
    BY <1>2, <2>1, <2>2, <2>3, <2>4 DEF Request, Proceed, Statement, Updates
  <2>6. CASE CheckKey(v)
    BY <1>1, <2>6 DEF CheckKey, Return, Continue
  <2>7. CASE CheckOverlap(v) \/ CheckLimit(v)
    BY <1>1, <2>7 DEF CheckOverlap, CheckLimit, Throw, Continue
  <2>8. CASE Insert(v)
    BY <1>1, <2>8 DEF Insert, Throw, Write
  <2>9. CASE Commit(v)
    BY <1>1, <2>9 DEF Commit
  <2> QED BY <2>5, <2>6, <2>7, <2>8, <2>9
<1> QED BY <1>2, StepKinds DEF OutsideInsert

(* Who is turned away because of a reservation, or told of one, is so      *)
(* because of one that is not elsewhere.                                   *)
LEMMA LostToARow ==
  ASSUME Inductive, OnlyCreations, CreatesForCaller, NEW q \in Requests,
         CheckKey(q) \/ CheckOverlap(q) \/ CheckLimit(q) \/ Insert(q),
         reply'[q] # reply[q]
  PROVE  \E i \in Taken(rows) : ~Elsewhere(rows[i])
PROOF
<1> USE DEF Inductive
<1>1. /\ pc[q] \notin {"new", "connect", "done"} /\ msg[q] # None
      /\ msg[q] \in Workload /\ msg[q].op = "create"
      /\ msg[q].period \in Interval
  BY MessageFacts
  DEF HandlersOnTrack, OnTrack, TypeOK, OnlyCreations, CheckKey, CheckOverlap,
      CheckLimit, Insert
<1>2. ctx[q].user = msg[q].caller /\ ctx[q].resource = msg[q].resource
  BY <1>1 DEF CreatesForCaller
<1>3. CASE CheckKey(q)
  <2>1. \E i \in Taken(rows) : rows[i].user = msg[q].caller
    BY <1>3 DEF CheckKey, Continue
  <2> QED BY <1>1, <2>1 DEF Elsewhere
<1>4. CASE CheckOverlap(q)
  <2>1. PICK i \in Overlapping(q) : TRUE
    BY <1>4 DEF CheckOverlap, Continue
  <2> QED BY <1>1, <1>2, <2>1 DEF Overlapping, Elsewhere
<1>5. CASE CheckLimit(q)
  <2> DEFINE Active == FutureConfirmed(ctx[q].user, ctx[q].now, msg[q].id)
  <2>1. Cardinality(Active) >= Limit[ctx[q].user]
    BY <1>5 DEF CheckLimit, Continue
  <2>2. Limit[ctx[q].user] \in Nat \ {0}
    BY <1>1, ReservationsAssumption DEF HandlersOnTrack, OnTrack
  <2>3. Active # {}
    <3> SUFFICES ASSUME Active = {}
                 PROVE  FALSE
      OBVIOUS
    <3> HIDE DEF Active
    <3> QED BY <2>1, <2>2, FS_EmptySet
  <2> QED BY <1>1, <1>2, <2>3 DEF FutureConfirmed, Elsewhere
<1>6. CASE Insert(q)
  <2>1. \E j \in Taken(rows) : Clash(CreatedRow(q), rows[j]) \/ SameKey(CreatedRow(q), rows[j])
    BY <1>6 DEF Insert, Write, ExclusionViolated, KeyTaken
  <2> QED BY <1>1, <1>2, <2>1 DEF Clash, SameKey, CreatedRow, Overlaps, Elsewhere
<1> QED BY <1>3, <1>4, <1>5, <1>6

LEMMA ContestStep ==
  ASSUME Inductive, UnreadBeforeArrival, CreatesForCaller, Contest, [Next]_vars,
         \A row \in OutsideRows : Elsewhere(row)
  PROVE  Contest'
PROOF
<1> USE DEF Inductive
<1> SUFFICES ASSUME OnlyCreations'
             PROVE  OnlyWantedRows' /\ ContestDecided'
  BY DEF Contest
<1>1. OnlyCreations /\ OnlyWantedRows /\ ContestDecided
  BY MessagesStand DEF OnlyCreations, Contest
<1>2. ASSUME NEW i \in Taken(rows)
      PROVE  i \in Taken(rows') /\ rows'[i] = rows[i]
  BY <1>1, <1>2, CreationsOnlyAdd
<1>3. ASSUME NEW row, Wanted(msg, row)
      PROVE  Wanted(msg', row)
  BY <1>3, MessagesStand DEF Wanted
<1>4. ASSUME NEW q \in Requests, Commit(q)
      PROVE  /\ pend[q].id \in Taken(rows') /\ Wanted(msg', rows'[pend[q].id])
             /\ msg' = msg /\ ctx' = ctx
             /\ rows' = [rows EXCEPT ![pend[q].id] = pend[q].row]
             /\ msg[q] # None /\ msg[q].op = "create" /\ pc[q] = "commit"
  <2>1. /\ msg[q] # None /\ msg[q].op = "create" /\ pc[q] = "commit"
        /\ msg' = msg /\ ctx' = ctx
    BY <1>1, <1>4, CommitFacts, NoneAssumption DEF OnlyCreations, Commit
  <2>2. /\ rows'[pend[q].id] = CreatedRow(q) /\ pend[q].id \in Ids
        /\ CreatedRow(q) \in Row
        /\ rows' = [rows EXCEPT ![pend[q].id] = pend[q].row]
    BY <1>4, <2>1, CommitFacts DEF OwnWrite
  <2>3. ctx[q].resource = msg[q].resource
    BY <2>1 DEF CreatesForCaller
  <2>4. Wanted(msg, CreatedRow(q))
    BY <2>1, <2>3 DEF Wanted, CreatedRow
  <2> QED BY <1>3, <2>1, <2>2, <2>4, NoneAssumption DEF Taken
<1>5. OnlyWantedRows'
  <2> SUFFICES ASSUME NEW i \in Taken(rows')
               PROVE  Elsewhere(rows'[i]) \/ Wanted(msg', rows'[i])
    BY DEF OnlyWantedRows, Taken, Elsewhere
  <2>1. CASE i \in Taken(rows)
    BY <1>1, <1>2, <1>3, <2>1 DEF OnlyWantedRows
  <2>2. CASE i \notin Taken(rows)
    <3>1. i \in Ids /\ rows'[i] # rows[i]
      BY <2>2 DEF Taken
    <3>2. ASSUME NEW v \in Requests, Commit(v)
          PROVE  Wanted(msg', rows'[i])
      BY <1>4, <3>1, <3>2 DEF TypeOK
    <3>3. CASE OutsideInsert
      BY <3>1, <3>3 DEF OutsideInsert, TypeOK
    <3> QED BY <3>1, <3>2, <3>3, TableStep
  <2> QED BY <2>1, <2>2
<1>6. ContestDecided'
  <2> SUFFICES ASSUME NEW q \in Requests, reply'[q].code \in ContestCodes
               PROVE  /\ pc'[q] = "done" /\ msg'[q] # None
                      /\ ValidPeriod(msg'[q].period)
                      /\ ctx'[q].resource = msg'[q].resource
                      /\ \E i \in Taken(rows') : Wanted(msg', rows'[i])
    BY DEF ContestDecided, ContestCodes, Taken
  <2>1. CASE reply'[q] = reply[q]
    <3>1. /\ pc[q] = "done" /\ msg[q] # None /\ ValidPeriod(msg[q].period)
          /\ ctx[q].resource = msg[q].resource
          /\ \E i \in Taken(rows) : Wanted(msg, rows[i])
      BY <1>1, <2>1 DEF ContestDecided
    <3>2. pc'[q] = "done" /\ msg'[q] = msg[q] /\ ctx'[q] = ctx[q]
      BY <3>1, AnsweredStays
    <3> QED BY <1>2, <1>3, <3>1, <3>2
  <2>2. CASE reply'[q] # reply[q]
    <3>1. /\ CheckKey(q) \/ CheckOverlap(q) \/ CheckLimit(q) \/ Insert(q) \/ Commit(q)
          /\ pc'[q] = "done"
      BY <1>1, <2>2, ContestedStep
    <3>2. /\ msg' = msg /\ ctx' = ctx
          /\ pc[q] \notin {"new", "connect", "done"}
      BY <3>1 DEF CheckKey, CheckOverlap, CheckLimit, Insert, Commit
    <3>3. msg[q] # None /\ msg[q].op = "create" /\ ValidPeriod(msg[q].period)
      BY <1>1, <3>2 DEF HandlersOnTrack, OnTrack, OnlyCreations
    <3>4. ctx[q].resource = msg[q].resource
      BY <3>2, <3>3 DEF CreatesForCaller
    <3>5. \E i \in Taken(rows') : Wanted(msg', rows'[i])
      <4>1. CASE Commit(q)
        BY <1>4, <4>1
      <4>2. CASE ~Commit(q)
        <5>1. PICK i \in Taken(rows) : ~Elsewhere(rows[i])
          BY <1>1, <2>2, <3>1, <4>2, LostToARow
        <5>2. Wanted(msg, rows[i])
          BY <1>1, <5>1 DEF OnlyWantedRows
        <5> QED BY <1>2, <1>3, <5>2
      <4> QED BY <4>1, <4>2
    <3> QED BY <3>1, <3>2, <3>3, <3>4, <3>5
  <2> QED BY <2>1, <2>2
<1> QED BY <1>5, <1>6

(* The rows in one slot, when one of them is there and no two clash. *)
LEMMA OneInTheSlot ==
  ASSUME Inductive, OnlyCreations, OneSlotWanted, OnlyWantedRows, ContestDecided,
         NEW q \in Requests, reply[q].code \in ContestCodes
  PROVE  Cardinality({i \in Taken(rows) : Clash(rows[i], CreatedRow(q))}) = 1
PROOF
<1> USE DEF Inductive
<1> DEFINE Holders == {i \in Taken(rows) : Clash(rows[i], CreatedRow(q))}
<1>1. /\ msg[q] # None /\ msg[q] \in Workload /\ msg[q].op = "create"
      /\ ctx[q].resource = msg[q].resource
      /\ msg[q].period \in Interval /\ ValidPeriod(msg[q].period)
  BY MessageFacts DEF ContestDecided, OnlyCreations, TypeOK
<1>2. Overlaps(msg[q].period, msg[q].period)
  BY <1>1 DEF ValidPeriod, Overlaps, Interval
<1>3. ASSUME NEW i \in Taken(rows), Wanted(msg, rows[i])
      PROVE  /\ rows[i].status = "CONFIRMED" /\ rows[i].resource = msg[q].resource
             /\ rows[i].period = msg[q].period
             /\ i \in Holders
  <2>1. /\ rows[i].status = "CONFIRMED" /\ rows[i].resource = msg[q].resource
        /\ rows[i].period = msg[q].period
    BY <1>1, <1>3 DEF Wanted, OneSlotWanted
  <2> QED BY <1>1, <1>2, <2>1 DEF Clash, CreatedRow
<1>4. ASSUME NEW i \in Holders
      PROVE  Wanted(msg, rows[i])
  <2>1. ~Elsewhere(rows[i])
    BY <1>1, <1>4 DEF Elsewhere, Clash, CreatedRow
  <2> QED BY <2>1 DEF OnlyWantedRows
<1>5. PICK h \in Holders : TRUE
  BY <1>3 DEF ContestDecided
<1>6. ASSUME NEW i \in Holders
      PROVE  i = h
  <2> SUFFICES ASSUME i # h
               PROVE  FALSE
    OBVIOUS
  <2>1. i \in Taken(rows) /\ h \in Taken(rows) /\ Wanted(msg, rows[i]) /\ Wanted(msg, rows[h])
    BY <1>4
  <2>2. Clash(rows[i], rows[h])
    BY <1>2, <1>3, <2>1 DEF Clash
  <2> QED BY <2>1, <2>2 DEF Consistent, Fits
<1>7. Holders = {h}
  BY <1>5, <1>6
<1> HIDE DEF Holders
<1>8. Cardinality(Holders) = 1
  BY <1>7, FS_Singleton
<1> QED BY <1>8 DEF Holders

(* The experiment of concurrency-check.mjs, with any number of requests    *)
(* and pieces of work: on a slot that is free, with callers who hold no    *)
(* reservation yet, exactly one booking is made by the time anybody is     *)
(* told the outcome, whoever crashes, is cut off or is refused.            *)
THEOREM OneOfMany ==
  ASSUME \A t \in InitialTables : \A i \in Taken(t) : Elsewhere(t[i]),
         \A row \in OutsideRows : Elsewhere(row)
  PROVE  Spec => []ExactlyOneWins
PROOF
<1>1. Init => UnreadBeforeArrival /\ CreatesForCaller /\ Contest
  BY DEF Init, UnreadBeforeArrival, CreatesForCaller, Contest, OnlyWantedRows,
         ContestDecided, ContestCodes, NoReply
<1>2. Inductive /\ UnreadBeforeArrival /\ CreatesForCaller /\ [Next]_vars
        => UnreadBeforeArrival' /\ CreatesForCaller'
  <2>1. Inductive /\ UnreadBeforeArrival /\ [Next]_vars => UnreadBeforeArrival'
    BY MessagesStand DEF UnreadBeforeArrival
  <2> QED BY <2>1, CallerStep
<1>3. Inductive /\ UnreadBeforeArrival /\ CreatesForCaller /\ Contest /\ [Next]_vars
        => Contest'
  BY ContestStep
<1>4. Inductive /\ Contest => ExactlyOneWins
  BY OneInTheSlot DEF ExactlyOneWins, Contest
<1> QED BY <1>1, <1>2, <1>3, <1>4, InductiveInvariant, PTL DEF Spec

-----------------------------------------------------------------------------
(* Rules. *)

(* Every version of a resource is one of its versions. *)
VersionsKnown == \A r \in Resources : catalogue[r].terms \in Terms[r]

(* Some version of resource r admits a party of n in period p. *)
Admits(r, p, n) ==
  /\ NoResourceBlock(r, p)
  /\ \E terms \in Terms[r] :
       SufficientCapacity(terms, n) /\ WithinOperatingHours(terms, p)

(* A handler past the rules that read no reservation has been judged. *)
Judged ==
  \A q \in Requests :
    pc[q] \in {"overlap", "limit", "write", "commit"} /\ msg[q].op # "cancel" =>
      Admits(ctx[q].resource, msg[q].period, msg[q].attendees)

AdmissibleRow(row) ==
  ValidPeriod(row.period) /\ Admits(row.resource, row.period, row.attendees)

LEMMA VersionsStep ==
  ASSUME Inductive, VersionsKnown, [Next]_vars
  PROVE  VersionsKnown'
PROOF
<1> USE DEF Inductive
<1>1. ASSUME NEW r \in Resources, NEW resource, ChangeResource(r, resource),
             resource.terms \in Terms[r]
      PROVE  VersionsKnown'
  BY <1>1 DEF ChangeResource, VersionsKnown, TypeOK
<1>2. ASSUME NEW r \in Resources,
             CreateResource(r) \/ Activate(r) \/ Deactivate(r)
      PROVE  VersionsKnown'
  <2>1. PICK to : ChangeResource(r, [catalogue[r] EXCEPT !.state = to])
    BY <1>2 DEF CreateResource, Activate, Deactivate, SetState
  <2>2. [catalogue[r] EXCEPT !.state = to].terms = catalogue[r].terms
    BY DEF TypeOK, Resource
  <2> QED BY <1>1, <2>1, <2>2 DEF VersionsKnown
<1>3. ASSUME NEW r \in Resources, UpdateResource(r)
      PROVE  VersionsKnown'
  <2>1. PICK terms \in Terms[r] :
          ChangeResource(r, [catalogue[r] EXCEPT !.terms = terms])
    BY <1>3 DEF UpdateResource
  <2>2. [catalogue[r] EXCEPT !.terms = terms].terms = terms
    BY DEF TypeOK, Resource
  <2> QED BY <1>1, <2>1, <2>2
<1>4. ASSUME UNCHANGED catalogue
      PROVE  VersionsKnown'
  BY <1>4 DEF VersionsKnown
<1>5. ASSUME NEW q \in Requests, Request(q)
      PROVE  UNCHANGED catalogue
  BY <1>5
  DEF Request, Proceed, Statement, Updates, Receive, Connect, AcquireLock,
      CheckKey, ReadOwned, CheckResource, CheckOverlap, CheckLimit, Insert,
      UpdatePeriod, UpdateStatus, Commit, Crash
<1> QED
  BY <1>2, <1>3, <1>4, <1>5
  DEF Next, Surroundings, OutsideInsert, Tick, Quiescent, vars

LEMMA JudgedStep ==
  ASSUME Inductive, VersionsKnown, Judged, [Next]_vars
  PROVE  Judged'
PROOF
<1> USE DEF Inductive
<1> DEFINE After == {"overlap", "limit", "write", "commit"}
<1>1. ASSUME NEW v \in Requests, pc'[v] = pc[v], msg'[v] = msg[v], ctx'[v] = ctx[v],
             pc'[v] \in After, msg'[v].op # "cancel"
      PROVE  Admits(ctx'[v].resource, msg'[v].period, msg'[v].attendees)
  BY <1>1 DEF Judged
<1>2. ASSUME NEW q \in Requests, Request(q), pc'[q] \in After, msg'[q].op # "cancel"
      PROVE  Admits(ctx'[q].resource, msg'[q].period, msg'[q].attendees)
  <2>1. CASE CheckResource(q)
    <3>1. /\ pc[q] = "resource"
          /\ Refusal(catalogue[ctx[q].resource], ctx[q].resource, msg[q].period,
                     msg[q].attendees, now) = None
      BY <1>2, <2>1 DEF CheckResource, Throw, End, Goto, TypeOK
    <3>2. ctx[q].resource \in Resources
      BY <1>2, <2>1, <3>1, PlacedContext DEF CheckResource, Placed, Locked
    <3>3. /\ SufficientCapacity(catalogue[ctx[q].resource].terms, msg[q].attendees)
          /\ WithinOperatingHours(catalogue[ctx[q].resource].terms, msg[q].period)
          /\ NoResourceBlock(ctx[q].resource, msg[q].period)
      BY <3>1, NoneAssumption DEF Refusal, ErrorCodes
    <3>4. msg' = msg /\ ctx'[q].resource = ctx[q].resource
      BY <2>1 DEF CheckResource, TypeOK, Context
    <3> HIDE DEF Inductive
    <3> QED BY <3>2, <3>3, <3>4 DEF Admits, VersionsKnown
  <2>2. CASE CheckOverlap(q) \/ CheckLimit(q) \/ Insert(q) \/ UpdatePeriod(q)
    <3>1. pc[q] \in After /\ msg' = msg /\ ctx' = ctx
      BY <2>2 DEF CheckOverlap, CheckLimit, Insert, UpdatePeriod
    <3> QED BY <1>2, <3>1 DEF Judged
  <2>3. CASE UpdateStatus(q)
    BY <1>2, <2>3 DEF UpdateStatus
  <2>4. CASE Receive(q) \/ AcquireLock(q) \/ CheckKey(q) \/ Commit(q) \/ Crash(q)
    BY <1>2, <2>4 DEF Receive, AcquireLock, CheckKey, Commit, Crash, Throw,
                      Return, End, Continue, Goto, TypeOK
  <2>5. CASE Connect(q)
    <3>1. pc'[q] \in {"owned", "key", "lock"}
      BY <2>5 DEF Connect, Continue, Goto, TypeOK
    <3> QED BY <1>2, <3>1
  <2>6. CASE ReadOwned(q)
    <3>1. pc'[q] \in {"done", "lock"} \/ msg'[q].op = "cancel"
      BY <2>6 DEF ReadOwned, Throw, Return, End, Continue, Goto, TypeOK
    <3> QED BY <1>2, <3>1
  <2> QED
    BY <1>2, <2>1, <2>2, <2>3, <2>4, <2>5, <2>6
    DEF Request, Proceed, Statement, Updates
<1>3. ASSUME NEW v \in Requests, pc'[v] \in After, msg'[v].op # "cancel"
      PROVE  Admits(ctx'[v].resource, msg'[v].period, msg'[v].attendees)
  BY <1>1, <1>2, <1>3, RequestFrame, StepKinds DEF Frame, OutsideInsert
<1> QED BY <1>3 DEF Judged, Admits, NoResourceBlock

LEMMA AdmissibleStep ==
  ASSUME Inductive, Judged, [Next]_vars,
         \A row \in OutsideRows : AdmissibleRow(row),
         \A i \in Taken(rows) : AdmissibleRow(rows[i])
  PROVE  \A i \in Taken(rows') : AdmissibleRow(rows'[i])
PROOF
<1> USE DEF Inductive
<1>1. ASSUME NEW j \in Ids, NEW row, row # None, AdmissibleRow(row),
             rows' = [rows EXCEPT ![j] = row]
      PROVE  \A i \in Taken(rows') : AdmissibleRow(rows'[i])
  BY <1>1 DEF Taken, TypeOK
<1>2. CASE rows' = rows
  BY <1>2
<1>3. CASE OutsideInsert
  BY <1>1, <1>3, ReservationsAssumption, NoneAssumption DEF OutsideInsert
<1>4. ASSUME NEW q \in Requests, Commit(q)
      PROVE  \A i \in Taken(rows') : AdmissibleRow(rows'[i])
  <2> DEFINE row == pend[q].row
  <2>1. /\ pend[q].id \in Ids /\ row # None /\ row \in Row
        /\ rows' = [rows EXCEPT ![pend[q].id] = row]
        /\ pc[q] = "commit" /\ msg[q].op \in Ops
    BY <1>4, CommitFacts, MessageFacts, NoneAssumption
  <2>2. msg[q].op # "cancel" =>
          /\ ValidPeriod(msg[q].period)
          /\ Admits(ctx[q].resource, msg[q].period, msg[q].attendees)
    BY <2>1 DEF Judged, HandlersOnTrack, OnTrack
  <2>3. msg[q].op # "create" =>
          /\ msg[q].id \in Taken(rows) /\ rows[msg[q].id] \in Row
          /\ rows[msg[q].id].resource = ctx[q].resource
    BY <1>4, <2>1, CommitFacts, MessageFacts
    DEF HandlersOnTrack, OnTrack, Placed, Locked, Taken
  <2>4. CASE msg[q].op = "create"
    <3>1. row = CreatedRow(q)
      BY <1>4, <2>4, CommitFacts DEF OwnWrite
    <3>2. /\ row.period = msg[q].period /\ row.resource = ctx[q].resource
          /\ row.attendees = msg[q].attendees
      BY <3>1 DEF CreatedRow
    <3>3. AdmissibleRow(row)
      BY <2>2, <2>4, <3>2 DEF AdmissibleRow
    <3> QED BY <1>1, <2>1, <3>3
  <2>5. CASE msg[q].op = "reschedule"
    <3>1. row = RescheduledRow(q)
      BY <1>4, <2>5, CommitFacts DEF OwnWrite
    <3>2. /\ row.period = msg[q].period /\ row.resource = ctx[q].resource
          /\ row.attendees = msg[q].attendees
      BY <2>3, <2>5, <3>1 DEF RescheduledRow, Row
    <3>3. AdmissibleRow(row)
      BY <2>2, <2>5, <3>2 DEF AdmissibleRow
    <3> QED BY <1>1, <2>1, <3>3
  <2>6. CASE msg[q].op = "cancel"
    <3>1. row = CancelledRow(q)
      BY <1>4, <2>6, CommitFacts DEF OwnWrite
    <3>2. /\ row.period = rows[msg[q].id].period
          /\ row.resource = rows[msg[q].id].resource
          /\ row.attendees = rows[msg[q].id].attendees
      BY <2>3, <2>6, <3>1 DEF CancelledRow, Row
    <3>3. AdmissibleRow(row)
      BY <2>3, <2>6, <3>2 DEF AdmissibleRow
    <3> QED BY <1>1, <2>1, <3>3
  <2> QED BY <2>1, <2>4, <2>5, <2>6 DEF Ops
<1> QED BY <1>2, <1>3, <1>4, TableStep

(* If what was in the table, and what others put there, is admissible, no   *)
(* request adds a row that no version of its resource admits, nor moves    *)
(* one there, whatever is changed while it is under way.                   *)
THEOREM OnlyAdmissibleRows ==
  ASSUME \A t \in InitialTables : \A i \in Taken(t) : AdmissibleRow(t[i]),
         \A row \in OutsideRows : AdmissibleRow(row)
  PROVE  Spec => []RowsAdmissible
PROOF
<1> DEFINE AllAdmissible == \A i \in Taken(rows) : AdmissibleRow(rows[i])
<1>1. Init => VersionsKnown /\ Judged /\ AllAdmissible
  BY ReservationsAssumption DEF Init, VersionsKnown, Judged
<1>2. Inductive /\ VersionsKnown /\ Judged /\ AllAdmissible /\ [Next]_vars
        => VersionsKnown' /\ Judged' /\ AllAdmissible'
  BY VersionsStep, JudgedStep, AdmissibleStep
<1>3. AllAdmissible => RowsAdmissible
  BY DEF AdmissibleRow, Admits, RowsAdmissible
<1> QED BY <1>1, <1>2, <1>3, InductiveInvariant, PTL DEF Spec

-----------------------------------------------------------------------------
(* The limit, as far as one lock reaches. *)

(* FutureConfirmed of a given table. *)
Active(t, u, time, except) ==
  {i \in Taken(t) \ {except} :
     /\ t[i].user = u
     /\ t[i].status = "CONFIRMED"
     /\ t[i].period.end > time}

WithinLimit(t, time) ==
  \A u \in Users : Cardinality(Active(t, u, time, None)) <= Limit[u]

LEMMA ActiveFinite ==
  ASSUME IsFiniteSet(Ids), NEW t, NEW u, NEW time, NEW e
  PROVE  IsFiniteSet(Active(t, u, time, e)) /\ Cardinality(Active(t, u, time, e)) \in Nat
PROOF
<1>1. Active(t, u, time, e) \in SUBSET Ids
  BY DEF Active, Taken
<1>2. IsFiniteSet(Active(t, u, time, e))
  BY <1>1, FS_Subset
<1> QED BY <1>2, FS_CardinalityType

(* What a handler that counted may rely on: the clock it read is past, and  *)
(* there is still room for one more.                                       *)
Room(q) ==
  /\ ctx[q].now \in Nat /\ ctx[q].now <= now
  /\ pc[q] \in {"write", "commit"} =>
       Cardinality(Active(rows, ctx[q].user, ctx[q].now, msg[q].id)) < Limit[ctx[q].user]

RoomKept ==
  \A q \in Requests :
    pc[q] \in {"overlap", "limit", "write", "commit"} /\ msg[q].op # "cancel" => Room(q)

(* A cancellation leaves no more active reservations than there were. *)
LEMMA CancelFrees ==
  ASSUME Inductive, NEW q \in Requests, Commit(q), msg[q].op = "cancel",
         IsFiniteSet(Ids), NEW u, NEW time, NEW e
  PROVE  Cardinality(Active(rows', u, time, e)) <= Cardinality(Active(rows, u, time, e))
PROOF
<1> DEFINE i == pend[q].id
<1>1. /\ i \in Ids /\ i = msg[q].id /\ rows'[i] = CancelledRow(q)
      /\ rows' = [rows EXCEPT ![i] = pend[q].row]
      /\ rows[i] \in Row /\ rows[i] # None
  BY CommitFacts DEF OwnWrite
<1>2. rows'[i].status = "CANCELLED"
  BY <1>1 DEF CancelledRow, Row
<1>3. \A j \in Ids \ {i} : rows'[j] = rows[j]
  BY <1>1 DEF Inductive, TypeOK
<1>4. Active(rows', u, time, e) \in SUBSET Active(rows, u, time, e)
  BY <1>2, <1>3 DEF Active, Taken
<1> QED BY <1>4, ActiveFinite, FS_Subset

(* Another booking or move adds at most the row of its own request. *)
LEMMA CommitAddsOne ==
  ASSUME Inductive, NEW q \in Requests, Commit(q), msg[q].op # "cancel",
         Room(q), IsFiniteSet(Ids), NEW u \in Users,
         Cardinality(Active(rows, u, now, None)) <= Limit[u]
  PROVE  Cardinality(Active(rows', u, now, None)) <= Limit[u]
PROOF
<1> DEFINE i == pend[q].id
<1>1. /\ i \in Ids /\ OwnWrite(q, i, rows'[i]) /\ rows'[i] \in Row
      /\ rows' = [rows EXCEPT ![i] = pend[q].row]
      /\ pc[q] = "commit" /\ msg[q].op \in Ops /\ msg[q].id \in Ids \cup {None}
      /\ msg[q].op # "create" => rows[msg[q].id] \in Row
  BY CommitFacts, MessageFacts
<1>2. \A j \in Ids \ {i} : rows'[j] = rows[j]
  BY <1>1 DEF Inductive, TypeOK
<1>3. rows'[i].user = ctx[q].user
  <2>1. CASE msg[q].op = "create"
    BY <1>1, <2>1 DEF OwnWrite, CreatedRow
  <2>2. CASE msg[q].op = "reschedule"
    <3>1. rows[msg[q].id].user = ctx[q].user
      BY <1>1, <2>2 DEF Inductive, HandlersOnTrack, OnTrack, Placed, Locked
    <3>2. rows'[i] = RescheduledRow(q) /\ rows[msg[q].id] \in Row
      BY <1>1, <2>2 DEF OwnWrite
    <3>3. RescheduledRow(q).user = rows[msg[q].id].user
      BY <3>2 DEF RescheduledRow, Row
    <3> QED BY <3>1, <3>2, <3>3
  <2> QED BY <1>1, <2>1, <2>2 DEF Ops
<1>4. CASE u # ctx[q].user
  <2>1. Active(rows', u, now, None) \in SUBSET Active(rows, u, now, None)
    BY <1>2, <1>3, <1>4 DEF Active, Taken
  <2>2. /\ Cardinality(Active(rows', u, now, None))
             <= Cardinality(Active(rows, u, now, None))
        /\ Limit[u] \in Nat
    BY <2>1, ActiveFinite, FS_Subset, ReservationsAssumption
  <2> QED BY <2>2, ActiveFinite
<1>5. CASE u = ctx[q].user
  <2> DEFINE before == Active(rows, u, ctx[q].now, msg[q].id)
  <2>1. msg[q].op = "create" => msg[q].id = None
    BY CommitFacts, MessageFacts
  <2>2. IsFiniteSet(before) /\ Cardinality(before) \in Nat
        /\ Cardinality(before) < Limit[u] /\ Limit[u] \in Nat
    BY <1>1, <1>5, ActiveFinite, ReservationsAssumption DEF Room
  <2>3. Active(rows', u, now, None) \in SUBSET (before \cup {i})
    <3> SUFFICES ASSUME NEW j \in Active(rows', u, now, None), j # i
                 PROVE  j \in before
      OBVIOUS
    <3>1. /\ j \in Ids /\ rows[j] = rows'[j] /\ rows[j] # None
          /\ rows[j] \in Row
          /\ rows[j].user = u /\ rows[j].status = "CONFIRMED"
          /\ rows[j].period.end > now
      BY <1>2 DEF Active, Taken, Inductive, TypeOK
    <3>2. rows[j].period.end > ctx[q].now
      BY <3>1 DEF Room, Row, Interval, Inductive, TypeOK
    <3>3. j # msg[q].id
      BY <1>1, <2>1, <3>1, NoneAssumption DEF OwnWrite, Ops
    <3> QED BY <3>1, <3>2, <3>3 DEF Active, Taken
  <2> HIDE DEF before, i
  <2>4. IsFiniteSet(before \cup {i})
        /\ Cardinality(before \cup {i}) <= Cardinality(before) + 1
        /\ Cardinality(before \cup {i}) \in Nat
    <3>1. IsFiniteSet(before) /\ Cardinality(before) \in Nat
      BY <2>2
    <3>2. /\ IsFiniteSet(before \cup {i})
          /\ \/ Cardinality(before \cup {i}) = Cardinality(before)
             \/ Cardinality(before \cup {i}) = Cardinality(before) + 1
      BY <3>1, FS_AddElement, Zenon
    <3> QED BY <3>1, <3>2
  <2>5. Cardinality(Active(rows', u, now, None)) <= Cardinality(before \cup {i})
    BY <2>3, <2>4, FS_Subset
  <2> QED BY <2>2, <2>4, <2>5, ActiveFinite
<1> QED BY <1>4, <1>5

(* With one resource its lock is everybody's: whoever commits anything but *)
(* a cancellation is the one that counted last.                            *)
LEMMA OneHolder ==
  ASSUME Inductive, \A r, s \in Resources : r = s,
         NEW q \in Requests, pc[q] \in Locked, msg[q].op # "cancel",
         NEW v \in Requests, pc[v] \in Locked, msg[v].op # "cancel"
  PROVE  q = v
PROOF
<1>1. ctx[q].resource \in Resources /\ ctx[v].resource \in Resources
  BY PlacedContext DEF Placed
<1>2. lock[ctx[q].resource] = q /\ lock[ctx[v].resource] = v
  BY DEF Inductive, LockHeld
<1> QED BY <1>1, <1>2

LEMMA RoomStep ==
  ASSUME Inductive, RoomKept, [Next]_vars,
         IsFiniteSet(Ids), \A r, s \in Resources : r = s, OutsideRows = {}
  PROVE  RoomKept'
PROOF
<1> USE DEF Inductive
<1> DEFINE After == {"overlap", "limit", "write", "commit"}
<1>0. now \in Nat /\ now' \in Nat /\ now <= now'
  <2>1. now' = now \/ now' = now + 1
    BY DEF Next, vars, Request, Proceed, Statement, Updates, Receive, Connect,
           AcquireLock, CheckKey, ReadOwned, CheckResource, CheckOverlap,
           CheckLimit, Insert, UpdatePeriod, UpdateStatus, Commit, Crash,
           Surroundings, CreateResource, UpdateResource, Activate, Deactivate,
           SetState, ChangeResource, OutsideInsert, Tick, Quiescent
  <2> QED BY <2>1 DEF TypeOK
<1>1. ASSUME NEW v \in Requests, pc[v] \in After, pc'[v] \in After,
             pc'[v] = "write" => pc[v] = "write",
             pc'[v] = "commit" => pc[v] \in {"write", "commit"},
             msg'[v] = msg[v], ctx'[v] = ctx[v], msg[v].op # "cancel",
             rows' = rows
      PROVE  Room(v)'
  <2>1. Room(v)
    BY <1>1 DEF RoomKept
  <2> QED BY <1>0, <1>1, <2>1 DEF Room
<1>2. ASSUME NEW q \in Requests, Request(q), pc'[q] \in After, msg'[q].op # "cancel"
      PROVE  Room(q)'
  <2>1. CASE CheckResource(q)
    <3>1. pc'[q] = "overlap"
      BY <1>2, <2>1 DEF CheckResource, Throw, End, Continue, Goto, TypeOK
    <3>2. ctx'[q].now = now
      BY <2>1 DEF CheckResource, TypeOK, Context
    <3> QED BY <1>0, <3>1, <3>2 DEF Room
  <2>2. CASE CheckOverlap(q)
    <3>1. /\ pc[q] = "overlap" /\ pc'[q] = "limit"
          /\ msg' = msg /\ ctx' = ctx /\ rows' = rows
      BY <1>2, <2>2 DEF CheckOverlap, Throw, End, Continue, Goto, TypeOK
    <3> QED BY <1>1, <1>2, <3>1
  <2>3. CASE CheckLimit(q)
    <3>1. /\ pc[q] = "limit" /\ pc'[q] = "write"
          /\ msg' = msg /\ ctx' = ctx /\ rows' = rows
          /\ Cardinality(FutureConfirmed(ctx[q].user, ctx[q].now, msg[q].id))
               < Limit[ctx[q].user]
      BY <1>2, <2>3 DEF CheckLimit, Throw, End, Continue, Goto, TypeOK
    <3>2. FutureConfirmed(ctx[q].user, ctx[q].now, msg[q].id)
            = Active(rows, ctx[q].user, ctx[q].now, msg[q].id)
      BY DEF FutureConfirmed, Active
    <3>3. Room(q)
      BY <1>2, <3>1 DEF RoomKept
    <3> QED BY <1>0, <3>1, <3>2, <3>3 DEF Room
  <2>4. CASE Insert(q) \/ UpdatePeriod(q)
    <3>1. pc[q] = "write" /\ pc'[q] = "commit" /\ msg' = msg /\ ctx' = ctx /\ rows' = rows
      BY <1>2, <2>4 DEF Insert, UpdatePeriod, Throw, End, Write, Goto, TypeOK
    <3> QED BY <1>1, <1>2, <3>1
  <2>5. CASE UpdateStatus(q)
    BY <1>2, <2>5 DEF UpdateStatus
  <2>6. CASE Receive(q) \/ AcquireLock(q) \/ CheckKey(q) \/ Commit(q) \/ Crash(q)
    BY <1>2, <2>6 DEF Receive, AcquireLock, CheckKey, Commit, Crash, Throw,
                      Return, End, Continue, Goto, TypeOK
  <2>7. CASE Connect(q)
    <3>1. pc'[q] \in {"owned", "key", "lock"}
      BY <2>7 DEF Connect, Continue, Goto, TypeOK
    <3> QED BY <1>2, <3>1
  <2>8. CASE ReadOwned(q)
    <3>1. pc'[q] \in {"done", "lock"} \/ msg'[q].op = "cancel"
      BY <2>8 DEF ReadOwned, Throw, Return, End, Continue, Goto, TypeOK
    <3> QED BY <1>2, <3>1
  <2> QED
    BY <1>2, <2>1, <2>2, <2>3, <2>4, <2>5, <2>6, <2>7, <2>8
    DEF Request, Proceed, Statement, Updates
<1>3. ASSUME NEW q \in Requests, Request(q), NEW v \in Requests \ {q},
             pc'[v] \in After, msg'[v].op # "cancel"
      PROVE  Room(v)'
  <2>1. /\ pc[v] = pc'[v] /\ msg[v] = msg'[v] /\ ctx'[v] = ctx[v]
    BY <1>3, RequestFrame DEF Frame
  <2>2. CASE rows' = rows
    BY <1>1, <1>3, <2>1, <2>2
  <2>3. CASE Commit(q)
    <3>1. msg[q].op = "cancel"
      BY <1>3, <2>1, <2>3, OneHolder DEF Commit, Locked
    <3>2. Room(v)
      BY <1>3, <2>1 DEF RoomKept
    <3>3. CASE pc[v] \in {"write", "commit"}
      <4> DEFINE old == Active(rows, ctx[v].user, ctx[v].now, msg[v].id)
                 new == Active(rows', ctx[v].user, ctx[v].now, msg[v].id)
      <4>1. Cardinality(new) <= Cardinality(old)
        BY <2>3, <3>1, CancelFrees
      <4>2. Cardinality(new) \in Nat /\ Cardinality(old) \in Nat
        BY ActiveFinite
      <4>3. Limit[ctx[v].user] \in Nat /\ Cardinality(old) < Limit[ctx[v].user]
        BY <1>3, <2>1, <3>2, <3>3, PlacedContext, ReservationsAssumption
        DEF Room, Placed, Locked
      <4> HIDE DEF old, new
      <4>4. Cardinality(new) < Limit[ctx[v].user]
        BY <4>1, <4>2, <4>3
      <4> QED BY <1>0, <2>1, <3>2, <4>4 DEF Room, new
    <3> QED BY <1>0, <1>3, <2>1, <3>2, <3>3 DEF Room
  <2> QED BY <1>3, <2>2, <2>3, RequestEffect DEF Unwritten, Writing, Write
<1>4. CASE UNCHANGED <<rows, pc, msg, ctx>>
  BY <1>1, <1>4 DEF RoomKept
<1>5. ~OutsideInsert
  BY DEF OutsideInsert
<1> QED BY <1>2, <1>3, <1>4, <1>5, StepKinds DEF RoomKept

LEMMA LimitStep ==
  ASSUME Inductive, RoomKept, WithinLimit(rows, now), [Next]_vars,
         IsFiniteSet(Ids), OutsideRows = {}
  PROVE  WithinLimit(rows', now')
PROOF
<1> USE DEF Inductive
<1>1. CASE rows' = rows
  <2> SUFFICES ASSUME NEW u \in Users
               PROVE  Cardinality(Active(rows', u, now', None)) <= Limit[u]
    BY DEF WithinLimit
  <2>1. now' = now \/ now' = now + 1
    BY DEF Next, vars, Request, Proceed, Statement, Updates, Receive, Connect,
           AcquireLock, CheckKey, ReadOwned, CheckResource, CheckOverlap,
           CheckLimit, Insert, UpdatePeriod, UpdateStatus, Commit, Crash,
           Surroundings, CreateResource, UpdateResource, Activate, Deactivate,
           SetState, ChangeResource, OutsideInsert, Tick, Quiescent
  <2>2. Active(rows', u, now', None) \in SUBSET Active(rows, u, now, None)
    BY <1>1, <2>1, NoneAssumption DEF Active, Taken, TypeOK, Row, Interval
  <2>3. Cardinality(Active(rows', u, now', None))
          <= Cardinality(Active(rows, u, now, None))
    BY <2>2, ActiveFinite, FS_Subset
  <2>4. /\ Cardinality(Active(rows, u, now, None)) <= Limit[u]
        /\ Limit[u] \in Nat
    BY ReservationsAssumption DEF WithinLimit
  <2> QED BY <2>3, <2>4, ActiveFinite
<1>2. ASSUME NEW q \in Requests, Commit(q)
      PROVE  WithinLimit(rows', now')
  <2> SUFFICES ASSUME NEW u \in Users
               PROVE  Cardinality(Active(rows', u, now, None)) <= Limit[u]
    BY <1>2 DEF WithinLimit, Commit
  <2>1. Cardinality(Active(rows, u, now, None)) <= Limit[u] /\ Limit[u] \in Nat
    BY ReservationsAssumption DEF WithinLimit
  <2>2. CASE msg[q].op = "cancel"
    <3>1. Cardinality(Active(rows', u, now, None))
            <= Cardinality(Active(rows, u, now, None))
      BY <1>2, <2>2, CancelFrees
    <3> QED BY <2>1, <3>1, ActiveFinite
  <2>3. CASE msg[q].op # "cancel"
    <3>1. Room(q)
      BY <1>2, <2>3 DEF RoomKept, Commit
    <3> QED BY <1>2, <2>1, <2>3, <3>1, CommitAddsOne
  <2> QED BY <2>2, <2>3
<1>3. ~OutsideInsert
  BY DEF OutsideInsert
<1> QED BY <1>1, <1>2, <1>3, TableStep

(* One lock is enough for the limit where there is one resource only, if   *)
(* nobody else writes: every user stays within it.  (With two resources    *)
(* that is not so: ActiveReservationLimitRule counts under the wrong lock.)*)
THEOREM LimitUnderOneLock ==
  ASSUME IsFiniteSet(Ids), \A r, s \in Resources : r = s, OutsideRows = {},
         \A t \in InitialTables : WithinLimit(t, 0)
  PROVE  Spec => []LimitRespected
PROOF
<1>1. Init => RoomKept /\ WithinLimit(rows, now)
  BY DEF Init, RoomKept
<1>2. Inductive /\ RoomKept /\ WithinLimit(rows, now) /\ [Next]_vars
        => RoomKept' /\ WithinLimit(rows, now)'
  BY RoomStep, LimitStep DEF WithinLimit
<1>3. WithinLimit(rows, now) => LimitRespected
  <2>1. \A u : FutureConfirmed(u, now, None) = Active(rows, u, now, None)
    BY DEF FutureConfirmed, Active
  <2> QED BY <2>1 DEF WithinLimit, LimitRespected
<1> QED BY <1>1, <1>2, <1>3, InductiveInvariant, PTL DEF Spec

-----------------------------------------------------------------------------
(* Waiting. *)

(* A lock is held by a request that is past its acquisition. *)
HoldersUnderWay ==
  \A r \in Resources : lock[r] # None => pc[lock[r]] \in Locked

LEMMA HoldersStep ==
  ASSUME Inductive, HoldersUnderWay, [Next]_vars
  PROVE  HoldersUnderWay'
PROOF
<1> USE DEF Inductive, TypeOK
<1>1. ASSUME NEW q \in Requests, Request(q), NEW r \in Resources, lock'[r] # None
      PROVE  pc'[lock'[r]] \in Locked
  <2>1. CASE lock'[r] # q
    <3>1. lock'[r] = lock[r]
      BY <1>1, <2>1
      DEF Request, Proceed, Statement, Updates, Receive, Connect, AcquireLock,
          CheckKey, ReadOwned, CheckResource, CheckOverlap, CheckLimit, Insert,
          UpdatePeriod, UpdateStatus, Commit, Crash, Throw, Return, Release,
          Continue, Write
    <3>2. lock[r] \in Requests \ {q} /\ pc[lock[r]] \in Locked
      BY <1>1, <2>1, <3>1 DEF HoldersUnderWay
    <3> QED BY <1>1, <3>1, <3>2, RequestFrame DEF Frame
  <2>2. CASE lock'[r] = q
    <3>1. ~Release(q)
      BY <1>1, <2>2, NoneAssumption DEF Release
    <3>2. CASE AcquireLock(q)
      BY <2>2, <3>2 DEF AcquireLock, Goto, Locked
    <3>3. CASE ~AcquireLock(q)
      <4>1. UNCHANGED lock
        BY <1>1, <3>1, <3>3
        DEF Request, Proceed, Statement, Updates, Receive, Connect,
            CheckKey, ReadOwned, CheckResource, CheckOverlap, CheckLimit, Insert,
            UpdatePeriod, UpdateStatus, Commit, Crash, Throw, Return,
            Continue, Write
      <4>2. pc[q] \in Locked
        BY <1>1, <2>2, <4>1 DEF HoldersUnderWay
      <4>3. CheckResource(q) \/ CheckOverlap(q) \/ CheckLimit(q) \/ Updates(q)
        BY <1>1, <3>1, <3>3, <4>2
        DEF Request, Proceed, Statement, Receive, Connect, CheckKey, ReadOwned,
            Commit, Crash, Throw, Locked
      <4>4. CASE CheckResource(q) \/ CheckOverlap(q) \/ CheckLimit(q)
        BY <2>2, <3>1, <4>4
        DEF CheckResource, CheckOverlap, CheckLimit, Throw, Continue, Goto, Locked
      <4>5. CASE Updates(q)
        BY <2>2, <3>1, <4>5
        DEF Updates, Insert, UpdatePeriod, UpdateStatus, Throw, Write, Goto, Locked
      <4> QED BY <4>3, <4>4, <4>5
    <3> QED BY <3>2, <3>3
  <2> QED BY <2>1, <2>2
<1>2. ASSUME UNCHANGED <<pc, lock>>
      PROVE  HoldersUnderWay'
  BY <1>2 DEF HoldersUnderWay
<1> QED BY <1>1, <1>2, StepKinds DEF HoldersUnderWay, OutsideInsert

(* Whoever waits waits for a request further on: for a connection, for one *)
(* in a transaction; for the lock, for one past it; for a row, for one at  *)
(* its COMMIT.                                                             *)
LEMMA FurthestProceeds ==
  ASSUME Inductive, HoldersUnderWay, NEW q \in Requests, pc[q] \notin {"new", "done"}
  PROVE  \E v \in Requests : pc[v] \notin {"new", "done"} /\ ~Waits(v)
PROOF
<1> USE DEF Inductive, TypeOK
<1>1. ASSUME NEW v \in Requests, pc[v] \in InTransaction, pc[v] \notin {"lock", "write"}
      PROVE  pc[v] \notin {"new", "done"} /\ ~Waits(v)
  BY <1>1 DEF Waits, InTransaction
<1>2. ASSUME NEW v \in Requests, pc[v] = "write", Waits(v)
      PROVE  \E o \in Requests : pc[o] = "commit"
  BY <1>2 DEF Waits, MustWait, PendingIsCurrent
<1>3. ASSUME NEW v \in Requests, pc[v] = "lock", Waits(v)
      PROVE  \E o \in Requests : pc[o] \in Locked
  <2>1. msg[v].op # "cancel" /\ ctx[v].resource \in Resources
    BY <1>3, PlacedContext DEF HandlersOnTrack, OnTrack, Placed
  <2>2. lock[ctx[v].resource] # None
    BY <1>3 DEF Waits
  <2> QED BY <2>1, <2>2 DEF HoldersUnderWay
<1>4. ASSUME NEW v \in Requests, pc[v] = "connect", Waits(v)
      PROVE  \E o \in Requests : pc[o] \in InTransaction
  <2> DEFINE Busy == {o \in Requests : pc[o] \in InTransaction}
  <2>1. Cardinality(Busy) >= PoolSize
    BY <1>4 DEF Waits
  <2>2. Busy # {}
    <3> SUFFICES ASSUME Busy = {}
                 PROVE  FALSE
      OBVIOUS
    <3> HIDE DEF Busy
    <3> QED BY <2>1, FS_EmptySet, ReservationsAssumption
  <2> QED BY <2>2
<1>5. ASSUME NEW v \in Requests, pc[v] \in Locked
      PROVE  \E o \in Requests : pc[o] \notin {"new", "done"} /\ ~Waits(o)
  <2>1. CASE pc[v] # "write"
    BY <1>1, <1>5, <2>1 DEF Locked, InTransaction
  <2>2. CASE pc[v] = "write"
    BY <1>1, <1>2, <2>2 DEF InTransaction
  <2> QED BY <2>1, <2>2
<1>6. ASSUME NEW v \in Requests, pc[v] \in InTransaction
      PROVE  \E o \in Requests : pc[o] \notin {"new", "done"} /\ ~Waits(o)
  <2>1. CASE pc[v] = "lock"
    BY <1>3, <1>5, <2>1
  <2>2. CASE pc[v] = "write"
    BY <1>5, <2>2 DEF Locked
  <2> QED BY <1>1, <1>6, <2>1, <2>2
<1>7. CASE pc[q] = "connect"
  BY <1>4, <1>6, <1>7
<1>8. CASE pc[q] # "connect"
  BY <1>6, <1>8 DEF Labels
<1> QED BY <1>7, <1>8

(* Pool, advisory locks and row locks make no circle, however many requests *)
(* wait for however few connections, and wherever others crash: as long as *)
(* a handler is under way, some handler is not waiting.                    *)
THEOREM NoCircleOfWaits == Spec => []SomebodyProceeds
PROOF
<1>1. Init => HoldersUnderWay
  BY DEF Init, HoldersUnderWay
<1>2. Inductive /\ HoldersUnderWay /\ [Next]_vars => HoldersUnderWay'
  BY HoldersStep
<1>3. Inductive /\ HoldersUnderWay => SomebodyProceeds
  BY FurthestProceeds DEF SomebodyProceeds
<1> QED BY <1>1, <1>2, <1>3, InductiveInvariant, PTL DEF Spec

=============================================================================
