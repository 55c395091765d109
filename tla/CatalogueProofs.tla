--------------------------- MODULE CatalogueProofs ---------------------------
(***************************************************************************)
(* Proofs that the properties of Catalogue hold for every number of        *)
(* requests, resources and types, and every workload, and that the         *)
(* statements of the services implement CatalogueSteps.                    *)
(***************************************************************************)
EXTENDS Catalogue, TLAPS

(* What a message of the workload consists of. *)
LEMMA MessageFacts ==
  ASSUME NEW m \in Workload
  PROVE  /\ m # None
         /\ m.op \in Ops
         /\ m.timeZone \in KnownZones \cup {EmptyZone, WrongZone, Null, None}
         /\ m.op \in {"type", "create"} => m.code \in Codes
         /\ m.op = "create" => m.type \in TypeIds
         /\ m.op \notin {"type", "create"} => m.id \in Ids
PROOF BY CatalogueAssumption DEF Message

LEMMA RowFacts ==
  ASSUME TypeOK, NEW i \in Existing
  PROVE  /\ i \in Ids /\ resources[i] \in Row /\ resources[i] # None
         /\ resources[i].timeZone # Null
PROOF BY CatalogueAssumption DEF TypeOK, Existing, Row

LEMMA TypeRowFacts ==
  ASSUME TypeOK, NEW t \in LiveTypes
  PROVE  /\ t \in TypeIds /\ types[t] \in TypeRow /\ types[t] # None /\ types[t].live
         /\ types[t].code \in Codes
PROOF BY DEF TypeOK, LiveTypes, TypeRow

-----------------------------------------------------------------------------
(* What a step may do to the two tables. *)

CreatesType(q, t) ==
  /\ pc[q] = "insert" /\ msg[q].op = "type" /\ msg[q].code \in Codes
  /\ types[t] = None
  /\ \A s \in LiveTypes : types[s].code # msg[q].code
  /\ types' = [types EXCEPT ![t] = [code |-> msg[q].code, live |-> TRUE]]

Creates(q, i) ==
  /\ pc[q] = "insert" /\ msg[q].op = "create" /\ pc' = [pc EXCEPT ![q] = "answer"]
  /\ reply' = reply
  /\ i \notin Existing
  /\ \A j \in Existing : resources[j].code # msg[q].code
  /\ msg[q].type \in LiveTypes
  /\ NewRow(msg[q]) \in Row
  /\ resources' = [resources EXCEPT ![i] = NewRow(msg[q])]

Changes(q) ==
  /\ pc[q] = "write" /\ msg[q].op \in {"update", "deactivate", "activate"}
  /\ pc' = [pc EXCEPT ![q] = "answer"]
  /\ reply' = reply
  /\ msg[q].id \in Existing
  /\ Admissible(Updated(q))
  /\ Updated(q) \in Row
  /\ resources' = [resources EXCEPT ![msg[q].id] = Updated(q)]

(* The row of a creation, of the right type. *)
LEMMA NewRowTyped ==
  ASSUME NEW m \in Workload, m.op = "create"
  PROVE  NewRow(m) \in Row /\ Consistent(NewRow(m))
PROOF
<1>1. m.code \in Codes /\ m.type \in TypeIds
  BY MessageFacts
<1>2. ChosenZone(m) \in KnownZones \cup {EmptyZone, WrongZone}
  BY MessageFacts, CatalogueAssumption DEF ChosenZone
<1> QED BY <1>1, <1>2, CatalogueAssumption DEF NewRow, Row, Consistent

(* An UPDATE keeps the code, the type and the agreement of the two columns. *)
LEMMA UpdatedTyped ==
  ASSUME TypeOK, NEW q \in Requests, msg[q] \in Workload,
         msg[q].op \in {"update", "deactivate", "activate"}, msg[q].id \in Existing,
         Consistent(resources[msg[q].id])
  PROVE  /\ Updated(q).code = resources[msg[q].id].code
         /\ Updated(q).type = resources[msg[q].id].type
         /\ Consistent(Updated(q))
         /\ Updated(q).timeZone # Null => Updated(q) \in Row
         /\ Updated(q).timeZone = Null => msg[q].op = "update" /\ msg[q].timeZone = Null
         /\ \/ Updated(q).timeZone = resources[msg[q].id].timeZone
            \/ /\ msg[q].op = "update" /\ Updated(q).timeZone = msg[q].timeZone
               /\ Updated(q).isActive = resources[msg[q].id].isActive
               /\ msg[q].timeZone # None
PROOF
<1> DEFINE row == resources[msg[q].id]
<1>1. /\ row \in Row /\ row.timeZone # Null
      /\ msg[q].timeZone \in KnownZones \cup {EmptyZone, WrongZone, Null, None}
      /\ q # None
  BY RowFacts, MessageFacts, CatalogueAssumption
<1>2. CASE msg[q].op = "deactivate"
  <2>1. Updated(q) = [row EXCEPT !.isActive = FALSE, !.deactivatedAt = q]
    BY <1>2 DEF Updated
  <2> QED BY <1>1, <1>2, <2>1 DEF Row, Consistent
<1>3. CASE msg[q].op = "activate"
  <2>1. Updated(q) = [row EXCEPT !.isActive = TRUE, !.deactivatedAt = None]
    BY <1>3 DEF Updated
  <2> QED BY <1>1, <1>3, <2>1 DEF Row, Consistent
<1>4. CASE msg[q].op = "update" /\ msg[q].timeZone = None
  <2>1. Updated(q) = row
    BY <1>4 DEF Updated
  <2> QED BY <1>1, <1>4, <2>1 DEF Row
<1>5. CASE msg[q].op = "update" /\ msg[q].timeZone # None
  <2>1. Updated(q) = [row EXCEPT !.timeZone = msg[q].timeZone]
    BY <1>5 DEF Updated
  <2> QED BY <1>1, <1>5, <2>1 DEF Row, Consistent
<1> QED BY <1>2, <1>3, <1>4, <1>5

(* Which steps write which table, and what they find there. *)
LEMMA TableStep ==
  ASSUME TypeOK, Tracked, [Next]_vars
  PROVE  \/ UNCHANGED <<types, resources>>
         \/ /\ UNCHANGED resources
            /\ \/ \E q \in Requests, t \in TypeIds : CreatesType(q, t)
               \/ InstallTypes \/ RemoveTypes
         \/ /\ UNCHANGED types
            /\ \E q \in Requests : \/ \E i \in Ids : Creates(q, i)
                                   \/ Changes(q)
PROOF
<1> USE DEF Tracked
<1>1. ASSUME NEW q \in Requests, InsertType(q)
      PROVE  \/ UNCHANGED <<types, resources>>
             \/ UNCHANGED resources /\ \E t \in TypeIds : CreatesType(q, t)
  <2>1. msg[q] \in Workload
    BY <1>1 DEF InsertType, OnTrack, TypeOK
  <2> QED BY <1>1, <2>1, MessageFacts DEF InsertType, CodeUsed, CreatesType
<1>2. ASSUME NEW q \in Requests, InsertResource(q)
      PROVE  \/ UNCHANGED <<types, resources>>
             \/ UNCHANGED types /\ \E i \in Ids : Creates(q, i)
  <2>1. msg[q] \in Workload
    BY <1>2 DEF InsertResource, OnTrack, TypeOK
  <2> QED BY <1>2, <2>1, NewRowTyped DEF InsertResource, Refused, CodeUsed, Creates, Continue
<1>3. ASSUME NEW q \in Requests, Write(q)
      PROVE  \/ UNCHANGED <<types, resources>>
             \/ UNCHANGED types /\ Changes(q)
  <2>1. /\ msg[q] \in Workload /\ msg[q].op \in {"update", "deactivate", "activate"}
        /\ msg[q].id \in Existing
    BY <1>3 DEF Write, OnTrack, TypeOK
  <2>2. Consistent(resources[msg[q].id])
    BY <2>1 DEF ActivityConsistent
  <2>3. Admissible(Updated(q)) => Updated(q) \in Row
    BY <2>1, <2>2, UpdatedTyped DEF Admissible
  <2> QED BY <1>3, <2>1, <2>3 DEF Write, Changes, Continue
<1>4. ASSUME NEW q \in Requests,
             Receive(q) \/ FindType(q) \/ FindCode(q) \/ Find(q) \/ Report(q) \/ Crash(q)
      PROVE  UNCHANGED <<types, resources>>
  BY <1>4 DEF Receive, FindType, FindCode, Find, Report, Crash
<1>5. ASSUME Quiescent \/ UNCHANGED vars
      PROVE  UNCHANGED <<types, resources>>
  BY <1>5 DEF Quiescent, vars
<1>6. InstallTypes \/ RemoveTypes => UNCHANGED resources
  BY DEF InstallTypes, RemoveTypes
<1> QED BY <1>1, <1>2, <1>3, <1>4, <1>5, <1>6 DEF Next, Proceed

(* Resources stay, with their codes and types. *)
LEMMA ResourcesStay ==
  ASSUME TypeOK, Tracked, [Next]_vars, NEW i \in Existing
  PROVE  /\ i \in Existing'
         /\ resources'[i].code = resources[i].code
         /\ resources'[i].type = resources[i].type
PROOF
<1>1. i \in Ids /\ resources[i] # None /\ resources \in [Ids -> Row \cup {None}]
  BY RowFacts DEF TypeOK
<1>2. CASE UNCHANGED resources
  BY <1>1, <1>2 DEF Existing
<1>3. ASSUME NEW q \in Requests, NEW j \in Ids, Creates(q, j)
      PROVE  resources'[i] = resources[i]
  BY <1>1, <1>3 DEF Creates
<1>4. ASSUME NEW q \in Requests, Changes(q)
      PROVE  /\ resources'[i] # None
             /\ resources'[i].code = resources[i].code
             /\ resources'[i].type = resources[i].type
  <2>1. msg[q] \in Workload
    BY <1>4 DEF Changes, Tracked, OnTrack, TypeOK
  <2>2. Consistent(resources[msg[q].id])
    BY <1>4 DEF Changes, Tracked, ActivityConsistent
  <2>3. /\ Updated(q).code = resources[msg[q].id].code
        /\ Updated(q).type = resources[msg[q].id].type
    BY <1>4, <2>1, <2>2, UpdatedTyped DEF Changes
  <2> QED BY <1>1, <1>4, <2>3, CatalogueAssumption DEF Changes
<1> QED BY <1>1, <1>2, <1>3, <1>4, TableStep DEF Existing

(* A type that existed once is never anything else again. *)
LEMMA TypesStay ==
  ASSUME TypeOK, Tracked, [Next]_vars, NEW t \in TypeIds, types[t] # None
  PROVE  /\ types'[t] # None
         /\ t \in LiveTypes' => t \in LiveTypes /\ types'[t] = types[t]
PROOF
<1>1. types \in [TypeIds -> TypeRow \cup {None}] /\ types[t] \in TypeRow
  BY DEF TypeOK
<1>2. CASE UNCHANGED types
  BY <1>2 DEF LiveTypes
<1>3. ASSUME NEW q \in Requests, NEW s \in TypeIds, CreatesType(q, s)
      PROVE  types'[t] = types[t]
  BY <1>1, <1>3 DEF CreatesType
<1>4. ASSUME InstallTypes
      PROVE  types'[t] = types[t]
  BY <1>4 DEF InstallTypes
<1>5. ASSUME RemoveTypes
      PROVE  \/ types'[t] = types[t]
             \/ types'[t] = [types[t] EXCEPT !.live = FALSE]
  BY <1>5 DEF RemoveTypes
<1>6. [types[t] EXCEPT !.live = FALSE] # None /\ ~[types[t] EXCEPT !.live = FALSE].live
  BY <1>1, CatalogueAssumption DEF TypeRow
<1> QED BY <1>1, <1>2, <1>3, <1>4, <1>5, <1>6, TableStep DEF LiveTypes

-----------------------------------------------------------------------------
(* The inductive invariant. *)

LEMMA InitHolds ==
  ASSUME Init
  PROVE  TypeOK /\ Tracked /\ CodesUnique /\ TypesExist
PROOF
<1>1. PICK s \in Start : types = s.types /\ resources = s.resources
  BY DEF Init
<1>2. Sound(s)
  BY <1>1, StartAssumption
<1>3. LiveTypes = {t \in TypeIds : s.types[t] # None /\ s.types[t].live}
      /\ Existing = {i \in Ids : s.resources[i] # None}
  BY <1>1 DEF LiveTypes, Existing
<1>4. TypeOK
  BY <1>1, <1>2 DEF Init, Sound, TypeOK, Labels
<1>5. CodesUnique /\ TypesExist /\ ActivityConsistent
  BY <1>1, <1>2, <1>3 DEF Sound, CodesUnique, TypesExist, ActivityConsistent, Uniquely
<1>6. OnTrack
  BY DEF Init, OnTrack
<1> QED BY <1>4, <1>5, <1>6 DEF Tracked

(* up of migration 5 gives new rows the shipped codes that no row has. *)
LEMMA InstallFacts ==
  ASSUME InstallTypes
  PROVE  /\ types' = [t \in TypeIds |-> types'[t]]
         /\ \A t \in TypeIds :
              \/ types'[t] = types[t]
              \/ \E c \in Shipped :
                   /\ types[t] = None
                   /\ types'[t] = [code |-> c, live |-> TRUE]
                   /\ \A s \in LiveTypes : types[s].code # c
         /\ \A s, t \in TypeIds :
              types'[s] # types[s] /\ types'[t] # types[t] /\ types'[s] = types'[t] => s = t
PROOF
<1> DEFINE missing == {c \in Shipped : \A t \in LiveTypes : types[t].code # c}
           unused == {t \in TypeIds : types[t] = None}
           New(id, t) == [code |-> CHOOSE c \in missing : id[c] = t, live |-> TRUE]
<1>1. PICK id \in [missing -> unused] :
        types' = [t \in TypeIds |->
                    IF \E c \in missing : id[c] = t THEN New(id, t) ELSE types[t]]
  BY DEF InstallTypes
<1>2. ASSUME NEW t \in TypeIds, types'[t] # types[t]
      PROVE  \E c \in missing : id[c] = t /\ types'[t] = [code |-> c, live |-> TRUE]
  <2>1. types'[t] = New(id, t) /\ \E c \in missing : id[c] = t
    BY <1>1, <1>2
  <2>2. PICK d \in missing : d = (CHOOSE c \in missing : id[c] = t) /\ id[d] = t
    BY <2>1
  <2> QED BY <2>1, <2>2
<1>3. types' = [t \in TypeIds |-> types'[t]]
  BY <1>1
<1>4. ASSUME NEW t \in TypeIds, types'[t] # types[t]
      PROVE  \E c \in Shipped :
               /\ types[t] = None
               /\ types'[t] = [code |-> c, live |-> TRUE]
               /\ \A s \in LiveTypes : types[s].code # c
  <2>1. PICK c \in missing : id[c] = t /\ types'[t] = [code |-> c, live |-> TRUE]
    BY <1>2, <1>4
  <2>2. id[c] \in unused
    BY <1>1
  <2> QED BY <2>1, <2>2
<1>5. ASSUME NEW s \in TypeIds, NEW t \in TypeIds,
             types'[s] # types[s], types'[t] # types[t], types'[s] = types'[t]
      PROVE  s = t
  <2>1. PICK c \in missing : id[c] = s /\ types'[s] = [code |-> c, live |-> TRUE]
    BY <1>2, <1>5
  <2>2. PICK d \in missing : id[d] = t /\ types'[t] = [code |-> d, live |-> TRUE]
    BY <1>2, <1>5
  <2>3. c = types'[s].code /\ d = types'[t].code
    BY <2>1, <2>2
  <2> QED BY <1>5, <2>1, <2>2, <2>3
<1> QED BY <1>3, <1>4, <1>5

LEMMA TypeStep ==
  ASSUME TypeOK, Tracked, [Next]_vars
  PROVE  TypeOK'
PROOF
<1>1. types' \in [TypeIds -> TypeRow \cup {None}]
  <2>1. types \in [TypeIds -> TypeRow \cup {None}]
    BY DEF TypeOK
  <2>2. ASSUME NEW q \in Requests, NEW t \in TypeIds, CreatesType(q, t)
        PROVE  types' \in [TypeIds -> TypeRow \cup {None}]
    BY <2>1, <2>2 DEF CreatesType, TypeRow
  <2>3. ASSUME InstallTypes
        PROVE  types' \in [TypeIds -> TypeRow \cup {None}]
    <3>1. ASSUME NEW t \in TypeIds
          PROVE  \/ types'[t] = types[t]
                 \/ \E c \in Shipped : types'[t] = [code |-> c, live |-> TRUE]
      BY <2>3, InstallFacts
    <3>2. types' = [t \in TypeIds |-> types'[t]]
      BY <2>3, InstallFacts
    <3>3. \A t \in TypeIds : types'[t] \in TypeRow \cup {None}
      <4>1. \A c \in Shipped : [code |-> c, live |-> TRUE] \in TypeRow
        BY CatalogueAssumption DEF TypeRow
      <4> QED BY <2>1, <3>1, <4>1
    <3> QED BY <3>2, <3>3
  <2>4. ASSUME RemoveTypes
        PROVE  types' \in [TypeIds -> TypeRow \cup {None}]
    <3>1. ASSUME NEW t \in LiveTypes
          PROVE  [types[t] EXCEPT !.live = FALSE] \in TypeRow
      BY TypeRowFacts DEF TypeRow
    <3> QED BY <2>1, <2>4, <3>1 DEF RemoveTypes
  <2> QED BY <2>1, <2>2, <2>3, <2>4, TableStep
<1>2. resources' \in [Ids -> Row \cup {None}]
  <2>1. resources \in [Ids -> Row \cup {None}]
    BY DEF TypeOK
  <2> QED BY <2>1, TableStep DEF Creates, Changes
<1>3. /\ pc' \in [Requests -> Labels]
      /\ msg' \in [Requests -> Workload \cup {None}]
      /\ reply' \in [Requests -> ErrorCodes \cup {"NONE", "OK"}]
  <2>1. ASSUME NEW q \in Requests, Receive(q) \/ Proceed(q) \/ Crash(q)
        PROVE  /\ pc' \in [Requests -> Labels]
               /\ msg' \in [Requests -> Workload \cup {None}]
               /\ reply' \in [Requests -> ErrorCodes \cup {"NONE", "OK"}]
    <3>1. \/ Receive(q)
          \/ /\ UNCHANGED msg
             /\ \/ \E next \in Labels : Continue(q, next)
                \/ \E code \in ErrorCodes \cup {"OK"} : Answer(q, code)
      BY <2>1 DEF Proceed, FindType, FindCode, InsertType, InsertResource, Find, Write,
                  Report, Crash, Labels, ErrorCodes
    <3>2. CASE Receive(q)
      BY <3>2 DEF Receive, Continue, TypeOK, Labels
    <3>3. CASE UNCHANGED msg /\ \E next \in Labels : Continue(q, next)
      BY <3>3 DEF Continue, TypeOK
    <3>4. CASE UNCHANGED msg /\ \E code \in ErrorCodes \cup {"OK"} : Answer(q, code)
      BY <3>4 DEF Answer, TypeOK, Labels
    <3> QED BY <3>1, <3>2, <3>3, <3>4
  <2>2. CASE InstallTypes \/ RemoveTypes \/ Quiescent \/ UNCHANGED vars
    BY <2>2 DEF InstallTypes, RemoveTypes, Quiescent, vars, TypeOK
  <2> QED BY <2>1, <2>2 DEF Next
<1> QED BY <1>1, <1>2, <1>3 DEF TypeOK

(* A request moves alone, and never changes what it asks for. *)
LEMMA RequestStep ==
  ASSUME TypeOK, Tracked, [Next]_vars, NEW q \in Requests
  PROVE  /\ msg[q] # None => msg'[q] = msg[q]
         /\ \/ pc'[q] = pc[q] /\ reply'[q] = reply[q] /\ msg'[q] = msg[q]
            \/ Receive(q) \/ Proceed(q) \/ Crash(q)
PROOF
<1>1. /\ pc \in [Requests -> Labels] /\ msg \in [Requests -> Workload \cup {None}]
      /\ reply \in [Requests -> ErrorCodes \cup {"NONE", "OK"}]
  BY DEF TypeOK
<1>2. ASSUME NEW p \in Requests, p # q, Receive(p) \/ Proceed(p) \/ Crash(p)
      PROVE  pc'[q] = pc[q] /\ reply'[q] = reply[q] /\ msg'[q] = msg[q]
  BY <1>1, <1>2
  DEF Receive, Proceed, FindType, FindCode, InsertType, InsertResource, Find, Write,
      Report, Crash, Continue, Answer
<1>3. CASE InstallTypes \/ RemoveTypes \/ Quiescent \/ UNCHANGED vars
  BY <1>3 DEF InstallTypes, RemoveTypes, Quiescent, vars
<1>4. ASSUME Receive(q)
      PROVE  msg[q] = None
  BY <1>4 DEF Receive, Tracked, OnTrack
<1>5. ASSUME Proceed(q) \/ Crash(q)
      PROVE  msg' = msg
  BY <1>5
  DEF Proceed, FindType, FindCode, InsertType, InsertResource, Find, Write, Report, Crash
<1> QED BY <1>2, <1>3, <1>4, <1>5 DEF Next

LEMMA OnTrackStep ==
  ASSUME TypeOK, Tracked, [Next]_vars
  PROVE  OnTrack'
PROOF
<1> SUFFICES ASSUME NEW q \in Requests
             PROVE  /\ pc'[q] # "new" => msg'[q] # None
                    /\ pc'[q] = "new" => msg'[q] = None
                    /\ pc'[q] = "type" => msg'[q].op = "create"
                    /\ pc'[q] = "code" => msg'[q].op \in {"type", "create"}
                    /\ pc'[q] = "insert" => /\ msg'[q].op \in {"type", "create"}
                                            /\ ~InvalidZone(msg'[q])
                    /\ pc'[q] = "find" => msg'[q].op \in {"update", "deactivate", "activate"}
                    /\ pc'[q] = "write" => /\ msg'[q].op \in {"update", "deactivate", "activate"}
                                           /\ msg'[q].id \in Existing'
                                           /\ ~InvalidUpdate(msg'[q])
  BY DEF OnTrack, InvalidZone, InvalidUpdate, ChosenZone
<1>1. /\ pc \in [Requests -> Labels] /\ msg \in [Requests -> Workload \cup {None}]
  BY DEF TypeOK
<1>2. OnTrack
  BY DEF Tracked
<1>3. \A i \in Existing : i \in Existing'
  BY ResourcesStay
<1>4. CASE pc'[q] = pc[q] /\ msg'[q] = msg[q]
  BY <1>2, <1>3, <1>4 DEF OnTrack
<1>5. CASE Receive(q)
  <2>1. PICK m \in Workload :
          /\ msg' = [msg EXCEPT ![q] = m]
          /\ pc' = [pc EXCEPT ![q] = CASE m.op = "type" -> "code"
                                       [] m.op = "create" -> "type"
                                       [] OTHER -> "find"]
    BY <1>5 DEF Receive, Continue
  <2>2. m.op \in Ops /\ m # None
    BY MessageFacts
  <2>3. CASE m.op = "type"
    BY <1>1, <2>1, <2>2, <2>3
  <2>4. CASE m.op = "create"
    BY <1>1, <2>1, <2>2, <2>4
  <2>5. CASE m.op \in {"update", "deactivate", "activate"}
    <3>1. pc'[q] = "find"
      BY <1>1, <2>1, <2>5
    <3> QED BY <1>1, <2>1, <2>2, <2>5, <3>1
  <2> QED BY <2>2, <2>3, <2>4, <2>5 DEF Ops
<1>6. CASE FindType(q) \/ FindCode(q)
  BY <1>1, <1>2, <1>6 DEF FindType, FindCode, Continue, Answer, OnTrack
<1>7. CASE Find(q)
  BY <1>1, <1>2, <1>3, <1>7 DEF Find, Continue, Answer, OnTrack
<1>8. CASE InsertType(q) \/ InsertResource(q) \/ Write(q) \/ Report(q) \/ Crash(q)
  BY <1>1, <1>2, <1>8
  DEF InsertType, InsertResource, Write, Report, Crash, Continue, Answer, OnTrack
<1> QED BY <1>4, <1>5, <1>6, <1>7, <1>8, RequestStep DEF Proceed

LEMMA ActivityStep ==
  ASSUME TypeOK, Tracked, [Next]_vars
  PROVE  ActivityConsistent'
PROOF
<1> USE DEF Tracked
<1>1. resources \in [Ids -> Row \cup {None}] /\ ActivityConsistent
  BY DEF TypeOK
<1>2. CASE UNCHANGED resources
  BY <1>1, <1>2 DEF ActivityConsistent, Existing
<1>3. ASSUME NEW q \in Requests, NEW i \in Ids, Creates(q, i)
      PROVE  ActivityConsistent'
  <2>1. Consistent(NewRow(msg[q]))
    BY DEF NewRow, Consistent
  <2> QED BY <1>1, <1>3, <2>1 DEF Creates, ActivityConsistent, Existing
<1>4. ASSUME NEW q \in Requests, Changes(q)
      PROVE  ActivityConsistent'
  BY <1>1, <1>4 DEF Changes, Admissible, ActivityConsistent, Existing
<1> QED BY <1>2, <1>3, <1>4, TableStep

(* A row of a type that is live after a step was live before, or is new.    *)
LEMMA CodesStep ==
  ASSUME TypeOK, Tracked, CodesUnique, [Next]_vars
  PROVE  CodesUnique'
PROOF
<1>1. /\ types \in [TypeIds -> TypeRow \cup {None}]
      /\ resources \in [Ids -> Row \cup {None}]
      /\ Uniquely(types, LiveTypes) /\ Uniquely(resources, Existing)
  BY DEF TypeOK, CodesUnique
<1>2. Uniquely(types', LiveTypes')
  <2> SUFFICES ASSUME NEW a \in LiveTypes', NEW b \in LiveTypes',
                      types'[a].code = types'[b].code
               PROVE  a = b
    BY DEF Uniquely
  <2>1. a \in TypeIds /\ b \in TypeIds /\ types'[a] # None /\ types'[b] # None
    BY DEF LiveTypes
  <2>2. CASE UNCHANGED types
    BY <1>1, <2>2 DEF LiveTypes, Uniquely
  <2>3. ASSUME NEW q \in Requests, NEW t \in TypeIds, CreatesType(q, t)
        PROVE  a = b
    <3>1. types'[t].code = msg[q].code
      BY <1>1, <2>3 DEF CreatesType
    <3>2. \A s \in TypeIds : s # t => types'[s] = types[s]
      BY <1>1, <2>3 DEF CreatesType
    <3>3. \A s \in LiveTypes' : s # t => s \in LiveTypes /\ types[s].code # msg[q].code
      BY <2>3, <3>2 DEF CreatesType, LiveTypes
    <3>4. CASE a = t
      BY <2>1, <3>1, <3>2, <3>3, <3>4
    <3>5. CASE b = t
      BY <2>1, <3>1, <3>2, <3>3, <3>5
    <3>6. CASE a # t /\ b # t
      BY <1>1, <2>1, <3>2, <3>3, <3>6 DEF Uniquely
    <3> QED BY <3>4, <3>5, <3>6
  <2>4. CASE InstallTypes
    <3>1. \A s \in LiveTypes' : types'[s] = types[s] => s \in LiveTypes
      BY DEF LiveTypes
    <3>2. ASSUME NEW s \in TypeIds, types'[s] # types[s]
          PROVE  \E c \in Shipped : /\ types'[s] = [code |-> c, live |-> TRUE]
                                    /\ \A t \in LiveTypes : types[t].code # c
      BY <2>4, <3>2, InstallFacts
    <3>3. CASE types'[a] = types[a] /\ types'[b] = types[b]
      BY <1>1, <3>1, <3>3 DEF Uniquely
    <3>4. CASE types'[a] # types[a] /\ types'[b] = types[b]
      <4>1. PICK c \in Shipped : /\ types'[a] = [code |-> c, live |-> TRUE]
                                 /\ \A t \in LiveTypes : types[t].code # c
        BY <2>1, <3>2, <3>4
      <4>2. b \in LiveTypes /\ types'[b].code = types[b].code
        BY <3>1, <3>4
      <4>3. types'[a].code = c
        BY <4>1
      <4> QED BY <4>1, <4>2, <4>3
    <3>5. CASE types'[a] = types[a] /\ types'[b] # types[b]
      <4>1. PICK c \in Shipped : /\ types'[b] = [code |-> c, live |-> TRUE]
                                 /\ \A t \in LiveTypes : types[t].code # c
        BY <2>1, <3>2, <3>5
      <4>2. a \in LiveTypes /\ types'[a].code = types[a].code
        BY <3>1, <3>5
      <4>3. types'[b].code = c
        BY <4>1
      <4> QED BY <4>1, <4>2, <4>3
    <3>6. CASE types'[a] # types[a] /\ types'[b] # types[b]
      <4>1. types'[a] = types'[b]
        <5>1. PICK c \in Shipped : types'[a] = [code |-> c, live |-> TRUE]
          BY <2>1, <3>2, <3>6
        <5>2. PICK d \in Shipped : types'[b] = [code |-> d, live |-> TRUE]
          BY <2>1, <3>2, <3>6
        <5> QED BY <5>1, <5>2
      <4> QED BY <2>1, <2>4, <3>6, <4>1, InstallFacts
    <3> QED BY <3>3, <3>4, <3>5, <3>6
  <2>5. CASE RemoveTypes
    <3>1. ASSUME NEW s \in LiveTypes'
          PROVE  s \in LiveTypes /\ types'[s] = types[s]
      <4>1. types[s] # None
        BY <2>5 DEF RemoveTypes, LiveTypes
      <4> QED BY <4>1, TypesStay DEF LiveTypes
    <3> QED BY <1>1, <3>1 DEF Uniquely
  <2> QED BY <2>2, <2>3, <2>4, <2>5, TableStep
<1>3. Uniquely(resources', Existing')
  <2> SUFFICES ASSUME NEW a \in Existing', NEW b \in Existing',
                      resources'[a].code = resources'[b].code
               PROVE  a = b
    BY DEF Uniquely
  <2>1. a \in Ids /\ b \in Ids
    BY DEF Existing
  <2>2. CASE \A i \in Existing' : i \in Existing
    BY <1>1, <2>2, ResourcesStay DEF Uniquely
  <2>3. ASSUME NEW q \in Requests, NEW i \in Ids, Creates(q, i)
        PROVE  a = b
    <3>1. resources'[i].code = msg[q].code
      BY <1>1, <2>3 DEF Creates, NewRow
    <3>2. \A j \in Existing' : j # i => j \in Existing /\ resources'[j] = resources[j]
      BY <1>1, <2>3 DEF Creates, Existing
    <3>3. \A j \in Existing' : j # i => resources'[j].code # msg[q].code
      BY <2>3, <3>2 DEF Creates
    <3> QED BY <1>1, <3>1, <3>2, <3>3 DEF Uniquely
  <2>4. ASSUME NEW q \in Requests, Changes(q)
        PROVE  \A i \in Existing' : i \in Existing
    BY <1>1, <2>4 DEF Changes, Existing
  <2>5. CASE UNCHANGED resources
    BY <1>1, <2>5 DEF Existing, Uniquely
  <2> QED BY <2>2, <2>3, <2>4, <2>5, TableStep
<1> QED BY <1>2, <1>3 DEF CodesUnique

LEMMA TypesExistStep ==
  ASSUME TypeOK, Tracked, TypesExist, [Next]_vars
  PROVE  TypesExist'
PROOF
<1>1. /\ types \in [TypeIds -> TypeRow \cup {None}]
      /\ resources \in [Ids -> Row \cup {None}]
      /\ \A i \in Existing : resources[i].type \in LiveTypes
  BY DEF TypeOK, TypesExist
<1>2. CASE UNCHANGED <<types, resources>>
  BY <1>1, <1>2 DEF TypesExist, Existing, LiveTypes
<1>3. ASSUME NEW q \in Requests, NEW t \in TypeIds, CreatesType(q, t), UNCHANGED resources
      PROVE  TypesExist'
  <2>1. \A s \in LiveTypes : s \in LiveTypes'
    BY <1>1, <1>3 DEF CreatesType, LiveTypes
  <2> QED BY <1>1, <1>3, <2>1 DEF TypesExist, Existing
<1>4. ASSUME InstallTypes, UNCHANGED resources
      PROVE  TypesExist'
  <2>1. \A s \in LiveTypes : s \in LiveTypes'
    BY <1>1, <1>4, InstallFacts DEF LiveTypes
  <2> QED BY <1>1, <1>4, <2>1 DEF TypesExist, Existing
<1>5. ASSUME RemoveTypes, UNCHANGED resources
      PROVE  TypesExist'
  <2>1. \A i \in Existing : resources[i].type \in LiveTypes'
    BY <1>1, <1>5 DEF RemoveTypes, LiveTypes
  <2> QED BY <1>5, <2>1 DEF TypesExist, Existing
<1>6. ASSUME NEW q \in Requests, NEW i \in Ids, Creates(q, i), UNCHANGED types
      PROVE  TypesExist'
  BY <1>1, <1>6 DEF Creates, NewRow, TypesExist, Existing, LiveTypes
<1>7. ASSUME NEW q \in Requests, Changes(q), UNCHANGED types
      PROVE  TypesExist'
  <2>1. \A i \in Existing' : i \in Existing
    BY <1>1, <1>7 DEF Changes, Existing
  <2>2. LiveTypes' = LiveTypes
    BY <1>7 DEF LiveTypes
  <2> QED BY <1>1, <2>1, <2>2, ResourcesStay DEF TypesExist
<1> QED BY <1>2, <1>3, <1>4, <1>5, <1>6, <1>7, TableStep

LEMMA InvariantHolds ==
  Spec => [](TypeOK /\ Tracked /\ CodesUnique /\ TypesExist)
PROOF
<1>1. Init => TypeOK /\ Tracked /\ CodesUnique /\ TypesExist
  BY InitHolds
<1>2. TypeOK /\ Tracked /\ CodesUnique /\ TypesExist /\ [Next]_vars
      => (TypeOK /\ Tracked /\ CodesUnique /\ TypesExist)'
  BY TypeStep, OnTrackStep, ActivityStep, CodesStep, TypesExistStep DEF Tracked
<1> QED BY <1>1, <1>2, PTL DEF Spec

(* The tables, the handlers and the answers keep their types, whatever is   *)
(* asked of ResourceService and ResourceTypeService in whatever order.     *)
THEOREM TypeCorrect == Spec => []TypeOK
PROOF BY InvariantHolds, PTL

LEMMA TrackedHolds == Spec => []Tracked
PROOF BY InvariantHolds, PTL

(* Handlers stand where their operation leads, on a resource that exists,   *)
(* and is_active and deactivated_at never disagree.                        *)
THEOREM InductiveInvariant == Spec => []Inductive
<1>1. TypeOK /\ Tracked => Inductive
  BY DEF Inductive
<1> QED
  BY <1>1, InvariantHolds, PTL

(* The gap between findByCode and the INSERT, and migration 5 at any time:  *)
(* no two resources, and no two types, ever have one code.                 *)
THEOREM CodesAreUnique == Spec => []CodesUnique
PROOF BY InvariantHolds, PTL

(* No resource is ever without its type, though migration 5 may be undone   *)
(* between the lookup of the type and the INSERT of the resource.          *)
THEOREM TypesAreThere == Spec => []TypesExist
PROOF BY InvariantHolds, PTL

-----------------------------------------------------------------------------
(* Time zones. *)

LEMMA ZonesStep ==
  ASSUME TypeOK, Tracked, ZonesKnown, [Next]_vars
  PROVE  ZonesKnown'
PROOF
<1> SUFFICES ASSUME NEW i \in Existing'
             PROVE  \/ resources'[i].timeZone \in KnownZones
                    \/ /\ resources'[i].timeZone = EmptyZone
                       /\ \E q \in Requests : /\ msg'[q] # None
                                              /\ msg'[q].op = "update" /\ msg'[q].id = i
                                              /\ msg'[q].timeZone = EmptyZone
  BY DEF ZonesKnown
<1>1. i \in Ids /\ resources \in [Ids -> Row \cup {None}]
  BY DEF Existing, TypeOK
<1>2. CASE i \in Existing /\ resources'[i].timeZone = resources[i].timeZone
  BY <1>2, RequestStep DEF ZonesKnown
<1>3. ASSUME NEW q \in Requests, NEW j \in Ids, Creates(q, j)
      PROVE  \/ i \in Existing /\ resources'[i].timeZone = resources[i].timeZone
             \/ resources'[i].timeZone \in KnownZones
  <2>1. ~InvalidZone(msg[q])
    BY <1>3 DEF Creates, Tracked, OnTrack
  <2>2. NewRow(msg[q]).timeZone \in KnownZones
    BY <1>3, <2>1 DEF Creates, InvalidZone, NewRow
  <2> QED BY <1>1, <1>3, <2>2 DEF Creates, Existing
<1>4. ASSUME NEW q \in Requests, Changes(q), msg[q].id = i,
             resources'[i].timeZone # resources[i].timeZone
      PROVE  \/ resources'[i].timeZone \in KnownZones
             \/ /\ resources'[i].timeZone = EmptyZone
                /\ msg'[q] # None
                /\ msg'[q].op = "update" /\ msg'[q].id = i
                /\ msg'[q].timeZone = EmptyZone
  <2>1. msg[q] \in Workload /\ ~InvalidUpdate(msg[q])
    BY <1>4 DEF Changes, Tracked, OnTrack, TypeOK
  <2>2. Consistent(resources[msg[q].id])
    BY <1>4 DEF Changes, Tracked, ActivityConsistent
  <2>3. resources'[i] = Updated(q) /\ Updated(q).timeZone # Null
    BY <1>1, <1>4 DEF Changes, Admissible
  <2>4. /\ msg[q].op = "update" /\ resources'[i].timeZone = msg[q].timeZone
        /\ msg[q].timeZone # None
    BY <1>4, <2>1, <2>2, <2>3, UpdatedTyped DEF Changes
  <2>5. msg[q].timeZone \in KnownZones \cup {EmptyZone}
    BY <2>1, <2>3, <2>4, MessageFacts DEF InvalidUpdate
  <2>6. msg'[q] = msg[q] /\ msg[q] # None
    BY <2>1, RequestStep, MessageFacts
  <2> QED BY <1>4, <2>4, <2>5, <2>6
<1>5. ASSUME NEW q \in Requests, Changes(q), msg[q].id # i
      PROVE  i \in Existing /\ resources'[i].timeZone = resources[i].timeZone
  BY <1>1, <1>5 DEF Changes, Existing
<1>6. ASSUME NEW q \in Requests, Changes(q)
      PROVE  i \in Existing
  BY <1>1, <1>6 DEF Changes, Existing
<1>7. CASE UNCHANGED resources
  BY <1>2, <1>7 DEF Existing
<1> QED BY <1>2, <1>3, <1>4, <1>5, <1>6, <1>7, TableStep

(* assertValidTimeZone keeps out every zone that Node does not know, save   *)
(* the empty one, and that only where an update asked for it.              *)
THEOREM ZonesAreKnown == Spec => []ZonesKnown
PROOF
<1>1. Init => ZonesKnown
  <2> SUFFICES ASSUME Init PROVE ZonesKnown
    OBVIOUS
  <2>1. PICK s \in Start : resources = s.resources
    BY DEF Init
  <2> QED BY <2>1, StartAssumption DEF Sound, ZonesKnown, Existing
<1>2. TypeOK /\ Tracked /\ ZonesKnown /\ [Next]_vars => ZonesKnown'
  BY ZonesStep
<1> QED BY <1>1, <1>2, TypeCorrect, TrackedHolds, PTL DEF Spec

-----------------------------------------------------------------------------
(* Answers. *)

Won(q) == pc[q] = "answer" \/ reply[q] = "OK"

Unanswered == \A q \in Requests : pc[q] # "done" => reply[q] = "NONE"

(* findById has seen the type of a creation that has come so far.          *)
TypeFound ==
  \A q \in Requests :
    /\ msg[q] # None /\ msg[q].op = "create"
    /\ pc[q] \in {"code", "insert"} \/ reply[q] = "INTERNAL_ERROR"
    => types[msg[q].type] # None

OneWinner ==
  \A c \in Codes, p, q \in Requests :
    p # q /\ Wants(p, "create", c) /\ Wants(q, "create", c) => ~(Won(p) /\ Won(q))

WinnersExist ==
  \A c \in Codes, q \in Requests :
    Wants(q, "create", c) /\ (Won(q) \/ reply[q] = "DUPLICATE_CODE") =>
      \E i \in Existing : resources[i].code = c

(* How a creation comes to an answer. *)
LEMMA AnswerStep ==
  ASSUME TypeOK, Tracked, Unanswered, [Next]_vars,
         NEW q \in Requests, msg'[q] # None, msg'[q].op = "create"
  PROVE  /\ Won(q)' => Won(q) \/ \E i \in Ids : Creates(q, i)
         /\ reply'[q] = "DUPLICATE_CODE" =>
              reply[q] = "DUPLICATE_CODE" \/ \E i \in Existing : resources[i].code = msg[q].code
         /\ reply'[q] = "INTERNAL_ERROR" =>
              \/ reply[q] = "INTERNAL_ERROR"
              \/ pc[q] = "insert" /\ Refused(q)
         /\ pc'[q] \in {"code", "insert"} =>
              \/ pc[q] \in {"code", "insert"}
              \/ msg[q].type \in LiveTypes
         /\ ~Receive(q) => msg[q] = msg'[q]
PROOF
<1>1. /\ pc \in [Requests -> Labels] /\ msg \in [Requests -> Workload \cup {None}]
      /\ reply \in [Requests -> ErrorCodes \cup {"NONE", "OK"}]
      /\ OnTrack
  BY DEF TypeOK, Tracked
<1>2. CASE pc'[q] = pc[q] /\ reply'[q] = reply[q] /\ msg'[q] = msg[q]
  BY <1>2 DEF Won
<1>3. CASE Receive(q)
  <2>1. PICK m \in Workload :
          /\ msg' = [msg EXCEPT ![q] = m]
          /\ pc' = [pc EXCEPT ![q] = CASE m.op = "type" -> "code"
                                       [] m.op = "create" -> "type"
                                       [] OTHER -> "find"]
          /\ reply' = reply
    BY <1>3 DEF Receive, Continue
  <2>2. msg'[q] = m
    BY <1>1, <2>1
  <2>3. pc'[q] = "type"
    BY <1>1, <2>1, <2>2
  <2> QED BY <1>3, <2>1, <2>3 DEF Won
<1>4. CASE FindType(q)
  BY <1>1, <1>4 DEF FindType, Continue, Answer, Won
<1>5. CASE FindCode(q)
  BY <1>1, <1>5 DEF FindCode, Continue, Answer, Won, CodeUsed
<1>6. CASE InsertResource(q)
  <2>1. msg[q] \in Workload /\ msg[q] = msg'[q] /\ msg[q].op = "create"
    BY <1>1, <1>6 DEF InsertResource, OnTrack
  <2>2. ~Refused(q) => \E i \in Ids : Creates(q, i)
    BY <1>6, <2>1, NewRowTyped DEF InsertResource, Refused, CodeUsed, Creates, Continue
  <2> QED BY <1>1, <1>6, <2>1, <2>2 DEF InsertResource, Continue, Answer, Won
<1>7. CASE InsertType(q) \/ Find(q) \/ Write(q)
  BY <1>1, <1>7 DEF InsertType, Find, Write, OnTrack
<1>8. CASE Report(q) \/ Crash(q)
  BY <1>1, <1>8 DEF Report, Crash, Answer, Won
<1> QED BY <1>2, <1>3, <1>4, <1>5, <1>6, <1>7, <1>8, RequestStep DEF Proceed

LEMMA UnansweredStep ==
  ASSUME TypeOK, Tracked, Unanswered, [Next]_vars
  PROVE  Unanswered'
PROOF
<1> SUFFICES ASSUME NEW q \in Requests, pc'[q] # "done"
             PROVE  reply'[q] = "NONE"
  BY DEF Unanswered
<1>1. pc \in [Requests -> Labels]
  BY DEF TypeOK
<1>2. ASSUME Receive(q) \/ Proceed(q) \/ Crash(q)
      PROVE  reply' = reply /\ pc[q] # "done"
  BY <1>1, <1>2
  DEF Receive, Proceed, FindType, FindCode, InsertType, InsertResource, Find, Write,
      Report, Crash, Continue, Answer
<1> QED BY <1>2, RequestStep DEF Unanswered

LEMMA TypeFoundStep ==
  ASSUME TypeOK, Tracked, Unanswered, TypeFound, [Next]_vars
  PROVE  TypeFound'
PROOF
<1> SUFFICES ASSUME NEW q \in Requests, msg'[q] # None, msg'[q].op = "create",
                    pc'[q] \in {"code", "insert"} \/ reply'[q] = "INTERNAL_ERROR"
             PROVE  types'[msg'[q].type] # None
  BY DEF TypeFound
<1>1. CASE Receive(q)
  <2>1. pc[q] = "new" /\ reply[q] = "NONE"
    BY <1>1 DEF Receive, Unanswered
  <2>2. msg[q] = None
    BY <2>1 DEF Tracked, OnTrack
  <2>3. PICK m \in Workload :
          /\ msg' = [msg EXCEPT ![q] = m]
          /\ pc' = [pc EXCEPT ![q] = CASE m.op = "type" -> "code"
                                       [] m.op = "create" -> "type"
                                       [] OTHER -> "find"]
          /\ reply' = reply
    BY <1>1 DEF Receive, Continue
  <2>4. msg'[q] = m
    BY <2>3 DEF TypeOK
  <2>5. pc'[q] = "type"
    BY <2>3, <2>4 DEF TypeOK
  <2> QED BY <2>1, <2>3, <2>5
<1>2. CASE ~Receive(q)
  <2>1. msg'[q] = msg[q] /\ msg[q] \in Workload
    BY <1>2, AnswerStep DEF TypeOK
  <2>2. \/ pc[q] \in {"code", "insert"}
        \/ reply[q] = "INTERNAL_ERROR"
        \/ msg[q].type \in LiveTypes
    BY AnswerStep
  <2>3. types[msg[q].type] # None
    BY <2>1, <2>2 DEF TypeFound, LiveTypes
  <2>4. msg[q].type \in TypeIds
    BY <2>1, MessageFacts
  <2> QED BY <2>1, <2>3, <2>4, TypesStay
<1> QED BY <1>1, <1>2

LEMMA WinnersStep ==
  ASSUME TypeOK, Tracked, Unanswered, OneWinner, WinnersExist, [Next]_vars
  PROVE  OneWinner' /\ WinnersExist'
PROOF
<1>1. /\ msg \in [Requests -> Workload \cup {None}]
      /\ resources \in [Ids -> Row \cup {None}]
  BY DEF TypeOK
<1>2. ASSUME NEW c \in Codes, NEW q \in Requests, Wants(q, "create", c)', Won(q)'
      PROVE  \/ Wants(q, "create", c) /\ Won(q)
             \/ Wants(q, "create", c) /\ \E i \in Ids : Creates(q, i)
  <2>1. CASE Receive(q)
    <3>1. pc[q] = "new" /\ reply[q] = "NONE"
      BY <2>1 DEF Receive, Unanswered
    <3>2. ~Won(q) /\ \A i \in Ids : ~Creates(q, i)
      BY <3>1 DEF Won, Creates
    <3> QED BY <1>2, <3>2, AnswerStep DEF Wants
  <2>2. CASE ~Receive(q)
    BY <1>2, <2>2, AnswerStep DEF Wants
  <2> QED BY <2>1, <2>2
<1>3. ASSUME NEW q \in Requests, NEW i \in Ids, Creates(q, i)
      PROVE  /\ i \in Existing' /\ resources'[i].code = msg[q].code
             /\ \A j \in Existing : resources[j].code # msg[q].code
             /\ \A p \in Requests : (\E j \in Ids : Creates(p, j)) => p = q
  <2>1. i \in Existing' /\ resources'[i].code = msg[q].code
    BY <1>1, <1>3, CatalogueAssumption DEF Creates, NewRow, Existing
  <2>2. ASSUME NEW p \in Requests, NEW j \in Ids, Creates(p, j), p # q
        PROVE  FALSE
    BY <1>3, <2>2 DEF Creates, TypeOK
  <2> QED BY <1>3, <2>1, <2>2 DEF Creates
<1>4. OneWinner'
  <2> SUFFICES ASSUME NEW c \in Codes, NEW p \in Requests, NEW q \in Requests, p # q,
                      Wants(p, "create", c)', Wants(q, "create", c)', Won(p)', Won(q)'
               PROVE  FALSE
    BY DEF OneWinner
  <2>1. /\ Wants(p, "create", c) /\ Wants(q, "create", c)
        /\ Won(p) \/ \E i \in Ids : Creates(p, i)
        /\ Won(q) \/ \E i \in Ids : Creates(q, i)
    BY <1>2
  <2>2. ASSUME Won(p)
        PROVE  \E i \in Existing : resources[i].code = c
    BY <2>1, <2>2 DEF WinnersExist
  <2>3. ASSUME Won(q)
        PROVE  \E i \in Existing : resources[i].code = c
    BY <2>1, <2>3 DEF WinnersExist
  <2>4. msg[p].code = c /\ msg[q].code = c
    BY <2>1 DEF Wants
  <2> QED BY <1>3, <2>1, <2>2, <2>3, <2>4 DEF OneWinner
<1>5. WinnersExist'
  <2> SUFFICES ASSUME NEW c \in Codes, NEW q \in Requests, Wants(q, "create", c)',
                      Won(q)' \/ reply'[q] = "DUPLICATE_CODE"
               PROVE  \E i \in Existing' : resources'[i].code = c
    BY DEF WinnersExist
  <2>1. ASSUME \E i \in Existing : resources[i].code = c
        PROVE  \E i \in Existing' : resources'[i].code = c
    BY <2>1, ResourcesStay
  <2>2. CASE Won(q)'
    <3>1. CASE Wants(q, "create", c) /\ Won(q)
      BY <2>1, <3>1 DEF WinnersExist
    <3>2. CASE Wants(q, "create", c) /\ \E i \in Ids : Creates(q, i)
      BY <1>3, <3>2 DEF Wants
    <3> QED BY <1>2, <2>2, <3>1, <3>2
  <2>3. CASE reply'[q] = "DUPLICATE_CODE" /\ ~Receive(q)
    <3>1. Wants(q, "create", c)
      BY <2>3, AnswerStep DEF Wants
    <3> QED BY <2>1, <2>3, <3>1, AnswerStep DEF Wants, WinnersExist
  <2>4. CASE Receive(q)
    <3>1. reply'[q] = "NONE" /\ ~Won(q) /\ \A i \in Ids : ~Creates(q, i)
      BY <2>4 DEF Receive, Continue, Unanswered, Won, Creates
    <3> QED BY <1>2, <3>1
  <2> QED BY <2>2, <2>3, <2>4
<1> QED BY <1>4, <1>5

LEMMA RawErrorsStep ==
  ASSUME TypeOK, Tracked, Unanswered, TypeFound, RawErrorsExplained, [Next]_vars
  PROVE  RawErrorsExplained'
PROOF
<1> SUFFICES ASSUME NEW q \in Requests, reply'[q] = "INTERNAL_ERROR"
             PROVE  \/ msg'[q].op = "type"
                    \/ /\ msg'[q].op = "create"
                       /\ \/ \E i \in Existing' : resources'[i].code = msg'[q].code
                          \/ msg'[q].type \notin LiveTypes'
                    \/ msg'[q].op = "update" /\ msg'[q].timeZone = Null
  BY DEF RawErrorsExplained
<1>1. /\ msg \in [Requests -> Workload \cup {None}]
      /\ pc \in [Requests -> Labels]
      /\ reply \in [Requests -> ErrorCodes \cup {"NONE", "OK"}]
  BY DEF TypeOK
<1>2. ~Receive(q)
  BY DEF Receive, Continue, Unanswered
<1>3. /\ msg'[q] = msg[q]
      /\ (pc'[q] = pc[q] /\ reply'[q] = reply[q]) \/ Proceed(q) \/ Crash(q)
  <2>1. CASE Proceed(q) \/ Crash(q)
    BY <2>1
    DEF Proceed, FindType, FindCode, InsertType, InsertResource, Find, Write, Report, Crash
  <2> QED BY <1>2, <2>1, RequestStep
<1>4. pc[q] # "new"
  <2>1. ASSUME pc[q] = "new"
        PROVE  FALSE
    BY <1>2, <2>1, RequestStep
    DEF Unanswered, Proceed, FindType, FindCode, InsertType, InsertResource, Find, Write,
        Report, Crash
  <2> QED BY <2>1
<1>5. msg[q] \in Workload /\ msg[q] # None
  BY <1>1, <1>4 DEF Tracked, OnTrack
<1>6. CASE msg[q].op = "create"
  <2>1. \/ reply[q] = "INTERNAL_ERROR"
        \/ pc[q] = "insert" /\ Refused(q)
    BY <1>3, <1>5, <1>6, AnswerStep
  <2>2. \/ \E i \in Existing : resources[i].code = msg[q].code
        \/ msg[q].type \notin LiveTypes /\ types[msg[q].type] # None
    BY <1>5, <1>6, <2>1 DEF RawErrorsExplained, TypeFound, Refused, CodeUsed
  <2>3. CASE \E i \in Existing : resources[i].code = msg[q].code
    BY <1>3, <1>6, <2>3, ResourcesStay
  <2>4. CASE msg[q].type \notin LiveTypes /\ types[msg[q].type] # None
    BY <1>3, <1>5, <1>6, <2>4, TypesStay, MessageFacts
  <2> QED BY <2>2, <2>3, <2>4
<1>7. CASE msg[q].op # "create"
  <2>1. CASE reply[q] = "INTERNAL_ERROR"
    BY <1>3, <1>7, <2>1 DEF RawErrorsExplained
  <2>2. CASE Write(q)
    <3>1. /\ msg[q].op \in {"update", "deactivate", "activate"}
          /\ msg[q].id \in Existing
      BY <2>2 DEF Write, Tracked, OnTrack
    <3>2. Consistent(resources[msg[q].id])
      BY <3>1 DEF Tracked, ActivityConsistent
    <3>3. CASE Admissible(Updated(q))
      BY <1>1, <1>3, <1>7, <2>1, <2>2, <3>3 DEF Write, Continue
    <3>4. CASE ~Admissible(Updated(q))
      BY <1>3, <1>5, <3>1, <3>2, <3>4, UpdatedTyped DEF Admissible
    <3> QED BY <3>3, <3>4
  <2>3. CASE InsertType(q)
    BY <1>3, <2>3 DEF InsertType
  <2>4. CASE FindType(q) \/ FindCode(q) \/ InsertResource(q) \/ Find(q) \/ Report(q) \/ Crash(q)
    BY <1>1, <1>7, <2>1, <2>4
    DEF FindType, FindCode, InsertResource, Find, Report, Crash, Continue, Answer
  <2> QED BY <1>3, <2>1, <2>2, <2>3, <2>4 DEF Proceed
<1> QED BY <1>6, <1>7

LEMMA AnswersHold ==
  Spec => [](Unanswered /\ TypeFound /\ OneWinner /\ WinnersExist /\ RawErrorsExplained)
PROOF
<1> DEFINE Answers ==
      Unanswered /\ TypeFound /\ OneWinner /\ WinnersExist /\ RawErrorsExplained
<1>1. Init => Answers
  BY DEF Init, Unanswered, TypeFound, OneWinner, WinnersExist, RawErrorsExplained, Wants, Won
<1>2. TypeOK /\ Tracked /\ Answers /\ [Next]_vars => Answers'
  BY UnansweredStep, TypeFoundStep, WinnersStep, RawErrorsStep
<1> QED BY <1>1, <1>2, TypeCorrect, TrackedHolds, PTL DEF Spec

(* However creations of one code interleave, at most one succeeds, and one  *)
(* that succeeds or is refused for its code leaves or meets a resource.    *)
THEOREM OneCreation == Spec => []OneCreationPerCode
PROOF
<1>1. OneWinner /\ WinnersExist => OneCreationPerCode
  BY DEF OneWinner, WinnersExist, OneCreationPerCode, Won
<1> QED BY <1>1, AnswersHold, PTL

(* A raw database error answers only an INSERT that was overtaken, or a     *)
(* null in a column that may not be null.                                  *)
THEOREM RawErrorsAreExplained == Spec => []RawErrorsExplained
PROOF BY AnswersHold, PTL

-----------------------------------------------------------------------------
(* Refinement. *)

LEMMA ViewTyped ==
  ASSUME TypeOK, NEW i \in Existing
  PROVE  /\ View[i] = [active |-> resources[i].isActive, terms |-> resources[i].timeZone]
         /\ View[i] \in Steps!Listed
         /\ View[i] # None
PROOF
<1>1. /\ i \in Ids /\ resources[i] # None
      /\ resources[i].isActive \in BOOLEAN
      /\ resources[i].timeZone \in KnownZones \cup {EmptyZone, WrongZone}
  BY RowFacts DEF Row
<1>2. View[i] = [active |-> resources[i].isActive, terms |-> resources[i].timeZone]
  BY <1>1 DEF View
<1> QED BY <1>1, <1>2, CatalogueAssumption DEF Steps!Listed

LEMMA StepsStep ==
  ASSUME TypeOK, Tracked, [Next]_vars
  PROVE  [Steps!Next]_View
PROOF
<1>1. resources \in [Ids -> Row \cup {None}]
  BY DEF TypeOK
<1>2. TypeOK'
  BY TypeStep
<1>3. /\ View = [i \in Ids |-> View[i]] /\ View' = [i \in Ids |-> View'[i]]
      /\ \A i \in Ids : resources'[i] = resources[i] => View'[i] = View[i]
  BY DEF View
<1>4. CASE UNCHANGED resources
  BY <1>4 DEF View
<1>5. ASSUME NEW q \in Requests, NEW i \in Ids, Creates(q, i)
      PROVE  Steps!Next
  <2>1. View[i] = None
    BY <1>5 DEF Creates, Existing, View
  <2>2. /\ \A j \in Ids : j # i => resources'[j] = resources[j]
        /\ resources'[i] = NewRow(msg[q]) /\ resources'[i] # None
    BY <1>1, <1>5, CatalogueAssumption DEF Creates
  <2>3. View'[i] \in Steps!Listed
    <3>1. i \in Existing'
      BY <2>2 DEF Existing
    <3>2. NewRow(msg[q]).isActive \in BOOLEAN
          /\ NewRow(msg[q]).timeZone \in KnownZones \cup {EmptyZone, WrongZone}
      BY <1>5 DEF Creates, Row
    <3>3. View'[i] = [active |-> NewRow(msg[q]).isActive, terms |-> NewRow(msg[q]).timeZone]
      BY <2>2 DEF View
    <3> QED BY <3>2, <3>3 DEF Steps!Listed
  <2>4. View' = [View EXCEPT ![i] = View'[i]]
    BY <1>3, <2>2
  <2> QED BY <2>1, <2>3, <2>4 DEF Steps!Next, Steps!Register
<1>6. ASSUME NEW q \in Requests, Changes(q)
      PROVE  Steps!Next
  <2> DEFINE i == msg[q].id
             new == Updated(q)
  <2>1. msg[q] \in Workload /\ i \in Existing
    BY <1>6 DEF Changes, Tracked, OnTrack, TypeOK
  <2>2. Consistent(resources[i])
    BY <2>1 DEF Tracked, ActivityConsistent
  <2>3. new \in Row /\ resources' = [resources EXCEPT ![i] = new] /\ i \in Ids
        /\ resources'[i] = new /\ new # None
    BY <1>1, <1>6, <2>1, RowFacts, CatalogueAssumption DEF Changes
  <2>4. \/ new.timeZone = resources[i].timeZone
        \/ new.isActive = resources[i].isActive
    BY <1>6, <2>1, <2>2, UpdatedTyped DEF Changes
  <2>5. View[i] = [active |-> resources[i].isActive, terms |-> resources[i].timeZone]
        /\ View[i] # None
    BY <2>1, ViewTyped
  <2>6. View'[i] = [active |-> new.isActive, terms |-> new.timeZone]
        /\ new.isActive \in BOOLEAN
        /\ new.timeZone \in KnownZones \cup {EmptyZone, WrongZone}
    BY <2>3 DEF View, Row
  <2> HIDE DEF new
  <2>7. View' = [View EXCEPT ![i] = View'[i]]
    BY <1>1, <1>3, <2>3
  <2>8. CASE new.timeZone = resources[i].timeZone
    <3>1. View' = [View EXCEPT ![i] = [active |-> new.isActive, terms |-> View[i].terms]]
      BY <2>5, <2>6, <2>7, <2>8
    <3> QED BY <2>3, <2>5, <2>6, <3>1 DEF Steps!Next, Steps!Switch
  <2>9. CASE new.isActive = resources[i].isActive
    <3>1. View' = [View EXCEPT ![i] = [active |-> View[i].active, terms |-> new.timeZone]]
      BY <2>5, <2>6, <2>7, <2>9
    <3> QED BY <2>3, <2>5, <2>6, <3>1 DEF Steps!Next, Steps!Change
  <2> QED BY <2>4, <2>8, <2>9
<1> QED BY <1>4, <1>5, <1>6, TableStep

(* What the catalogue's services do to it, statement by statement and in    *)
(* any interleaving, is one resource at a time registered, switched or     *)
(* changed.                                                               *)
THEOREM RefinesSteps == Spec => ImplementsSteps
PROOF
<1>1. TypeOK => Steps!Init
  <2> SUFFICES ASSUME TypeOK PROVE Steps!Init
    OBVIOUS
  <2>1. ASSUME NEW i \in Ids
        PROVE  View[i] \in Steps!Listed \cup {None}
    <3>1. CASE resources[i] = None
      BY <3>1 DEF View
    <3>2. CASE resources[i] # None
      BY <3>2, ViewTyped DEF Existing
    <3> QED BY <3>1, <3>2
  <2>2. View = [i \in Ids |-> View[i]]
    BY DEF View
  <2> QED BY <2>1, <2>2 DEF Steps!Init
<1>2. TypeOK /\ Tracked /\ [Next]_vars => [Steps!Next]_View
  BY StepsStep
<1> QED
  BY <1>1, <1>2, TypeCorrect, TrackedHolds, PTL DEF Spec, ImplementsSteps, Steps!Spec

=============================================================================
