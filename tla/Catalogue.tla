------------------------------ MODULE Catalogue -----------------------------
(***************************************************************************)
(* The catalogue of resources and resource types, statement by statement:  *)
(* ResourceService and ResourceTypeService, their tables with the          *)
(* constraints of migration 3, and migration 5, which installs types and,  *)
(* undone, removes those without resources.  No request uses a             *)
(* transaction, so that anything may happen between two of its statements. *)
(***************************************************************************)
EXTENDS FiniteSets

CONSTANTS
  Requests,    \* identities of the requests of a behaviour
  Workload,    \* what a request may ask for
  Ids,         \* ids of resources
  TypeIds,     \* ids of resource types
  Codes,       \* codes, of resources and of types
  Shipped,     \* codes of the types that migration 5 installs
  KnownZones,  \* time zones that Node knows, "UTC" among them
  UTC,
  EmptyZone,   \* the time zone "", which Node does not know
  WrongZone,   \* any other text that Node does not know
  Null,        \* null in a body, as opposed to a field left out
  Start,       \* contents of the two tables a behaviour may start from
  Crashes,     \* may a connection drop or the process die?
  None         \* SQL NULL, a field left out, no row

Ops == {"type", "create", "update", "deactivate", "activate"}

(* Route, path and body of a request.  timeZone stands for all columns that *)
(* a PATCH may set; the rest of a resource is its code and its type.       *)
Message ==
  [op : Ops,
   id : Ids \cup {None},
   code : Codes \cup {None},
   type : TypeIds \cup {None},
   timeZone : KnownZones \cup {EmptyZone, WrongZone, Null, None}]

TypeRow == [code : Codes, live : BOOLEAN]

(* deactivatedAt is the request whose clock was read for it.               *)
Row ==
  [code : Codes, type : TypeIds, timeZone : KnownZones \cup {EmptyZone, WrongZone},
   isActive : BOOLEAN, deactivatedAt : Requests \cup {None}]

ErrorCodes ==
  {"RESOURCE_NOT_FOUND", "RESOURCE_TYPE_NOT_FOUND", "DUPLICATE_CODE",
   "INVALID_TIME_ZONE", "INTERNAL_ERROR", "LOST"}

ASSUME CatalogueAssumption ==
  /\ Workload \subseteq Message
  /\ \A m \in Workload : /\ m.op \in {"type", "create"} => m.code # None
                         /\ m.op = "create" => m.type # None
                         /\ m.op \notin {"type", "create"} => m.id # None
  /\ UTC \in KnownZones
  /\ EmptyZone \notin KnownZones /\ WrongZone \notin KnownZones
  /\ Null \notin KnownZones \cup {EmptyZone, WrongZone}
  /\ Shipped \subseteq Codes
  /\ Crashes \in BOOLEAN
  /\ None \notin Requests /\ None \notin Ids /\ None \notin TypeIds /\ None \notin Codes
  /\ None \notin KnownZones \cup {EmptyZone, WrongZone, Null}
  /\ None \notin Row /\ None \notin TypeRow /\ None \notin Workload
  /\ None \notin [active : BOOLEAN, terms : KnownZones \cup {EmptyZone, WrongZone}]

(* The constraints of migration 3 on the two tables: codes are UNIQUE, the  *)
(* type of a resource REFERENCES a row, and of is_active and deactivated_at *)
(* one tells the other.                                                    *)
Uniquely(table, rows) ==
  \A a, b \in rows : table[a].code = table[b].code => a = b

Consistent(row) == row.isActive <=> row.deactivatedAt = None

Sound(s) ==
  LET typeRows == {t \in TypeIds : s.types[t] # None /\ s.types[t].live}
      rows == {i \in Ids : s.resources[i] # None}
  IN
  /\ s.types \in [TypeIds -> TypeRow \cup {None}]
  /\ s.resources \in [Ids -> Row \cup {None}]
  /\ Uniquely(s.types, typeRows) /\ Uniquely(s.resources, rows)
  /\ \A i \in rows : /\ s.resources[i].type \in typeRows
                     /\ Consistent(s.resources[i])
                     /\ s.resources[i].timeZone \in KnownZones

ASSUME StartAssumption == \A s \in Start : Sound(s)

VARIABLES
  types,      \* the table resource_type; the rows removed are not live
  resources,  \* the table resource
  pc,         \* the next statement of each request
  msg,        \* what it asks for
  reply       \* the answer it got

vars == <<types, resources, pc, msg, reply>>

LiveTypes == {t \in TypeIds : types[t] # None /\ types[t].live}
Existing == {i \in Ids : resources[i] # None}

Init ==
  /\ \E s \in Start : types = s.types /\ resources = s.resources
  /\ pc = [q \in Requests |-> "new"]
  /\ msg = [q \in Requests |-> None]
  /\ reply = [q \in Requests |-> "NONE"]

-----------------------------------------------------------------------------
(* Requests. *)

Continue(q, next) ==
  /\ pc' = [pc EXCEPT ![q] = next]
  /\ UNCHANGED reply

Answer(q, code) ==
  /\ pc' = [pc EXCEPT ![q] = "done"]
  /\ reply' = [reply EXCEPT ![q] = code]

Receive(q) ==
  /\ pc[q] = "new"
  /\ \E m \in Workload :
       /\ msg' = [msg EXCEPT ![q] = m]
       /\ Continue(q, CASE m.op = "type" -> "code"
                        [] m.op = "create" -> "type"
                        [] OTHER -> "find")
  /\ UNCHANGED <<types, resources>>

(* create of a resource: types.findById *)
FindType(q) ==
  /\ pc[q] = "type"
  /\ \/ msg[q].type \in LiveTypes /\ Continue(q, "code")
     \/ msg[q].type \notin LiveTypes /\ Answer(q, "RESOURCE_TYPE_NOT_FOUND")
  /\ UNCHANGED <<types, resources, msg>>

(* Mutant: types and resources share their codes. *)
CodeUsedAnywhere(q) ==
  \/ \E t \in LiveTypes : types[t].code = msg[q].code
  \/ \E i \in Existing : resources[i].code = msg[q].code

(* A type, or a resource, has the code that q wants. *)
CodeUsed(q) ==
  IF msg[q].op = "type" THEN \E t \in LiveTypes : types[t].code = msg[q].code
  ELSE \E i \in Existing : resources[i].code = msg[q].code

(* dto.timeZone ?? 'UTC' *)
ChosenZone(m) == IF m.timeZone \in {None, Null} THEN UTC ELSE m.timeZone

(* Mutant: the zone is tested for truth first, as in update. *)
InvalidUnlessEmpty(m) == m.op = "create" /\ m.timeZone = WrongZone

(* assertValidTimeZone of create *)
InvalidZone(m) == m.op = "create" /\ ChosenZone(m) \notin KnownZones

(* findByCode of both creations, and the check that awaits nothing. *)
FindCode(q) ==
  /\ pc[q] = "code"
  /\ \/ CodeUsed(q) /\ Answer(q, "DUPLICATE_CODE")
     \/ ~CodeUsed(q) /\ InvalidZone(msg[q]) /\ Answer(q, "INVALID_TIME_ZONE")
     \/ ~CodeUsed(q) /\ ~InvalidZone(msg[q]) /\ Continue(q, "insert")
  /\ UNCHANGED <<types, resources, msg>>

(* INSERT INTO resource_type *)
InsertType(q) ==
  /\ pc[q] = "insert" /\ msg[q].op = "type"
  /\ \/ CodeUsed(q) /\ Answer(q, "INTERNAL_ERROR") /\ UNCHANGED types
     \/ /\ ~CodeUsed(q)
        /\ \E t \in TypeIds :
             /\ types[t] = None
             /\ types' = [types EXCEPT ![t] = [code |-> msg[q].code, live |-> TRUE]]
        /\ Continue(q, "answer")
  /\ UNCHANGED <<resources, msg>>

(* The row of create: is_active and deactivated_at by default. *)
NewRow(m) ==
  [code |-> m.code, type |-> m.type, timeZone |-> ChosenZone(m),
   isActive |-> TRUE, deactivatedAt |-> None]

(* Mutant: the code is not unique. *)
RefusedByType(q) == msg[q].type \notin LiveTypes

(* Mutant: no foreign key. *)
RefusedByCode(q) == CodeUsed(q)

(* UNIQUE (code), and the foreign key to the type; NewRow is Consistent.   *)
Refused(q) == CodeUsed(q) \/ msg[q].type \notin LiveTypes

(* INSERT INTO resource *)
InsertResource(q) ==
  /\ pc[q] = "insert" /\ msg[q].op = "create"
  /\ \/ Refused(q) /\ Answer(q, "INTERNAL_ERROR") /\ UNCHANGED resources
     \/ /\ ~Refused(q)
        /\ \E i \in Ids \ Existing :
             resources' = [resources EXCEPT ![i] = NewRow(msg[q])]
        /\ Continue(q, "answer")
  /\ UNCHANGED <<types, msg>>

(* assertValidTimeZone of update, which tests the zone for truth first. *)
InvalidUpdate(m) == m.op = "update" /\ m.timeZone = WrongZone

(* deactivate of an inactive resource, activate of an active one. *)
Satisfied(m) ==
  \/ m.op = "deactivate" /\ ~resources[m.id].isActive
  \/ m.op = "activate" /\ resources[m.id].isActive

(* Mutant: update does not look at the zone. *)
FindOnly(q) ==
  /\ pc[q] = "find"
  /\ \/ msg[q].id \notin Existing /\ Answer(q, "RESOURCE_NOT_FOUND")
     \/ /\ msg[q].id \in Existing
        /\ \/ Satisfied(msg[q]) /\ Answer(q, "OK")
           \/ ~Satisfied(msg[q]) /\ Continue(q, "write")
  /\ UNCHANGED <<types, resources, msg>>

(* getOrFail, and the checks that follow it. *)
Find(q) ==
  /\ pc[q] = "find"
  /\ \/ msg[q].id \notin Existing /\ Answer(q, "RESOURCE_NOT_FOUND")
     \/ /\ msg[q].id \in Existing
        /\ \/ InvalidUpdate(msg[q]) /\ Answer(q, "INVALID_TIME_ZONE")
           \/ Satisfied(msg[q]) /\ Answer(q, "OK")
           \/ ~InvalidUpdate(msg[q]) /\ ~Satisfied(msg[q]) /\ Continue(q, "write")
  /\ UNCHANGED <<types, resources, msg>>

(* Mutant: activate leaves the date of the deactivation. *)
UpdatedFlagOnly(q) ==
  LET row == resources[msg[q].id] IN
  CASE msg[q].op = "deactivate" -> [row EXCEPT !.isActive = FALSE, !.deactivatedAt = q]
    [] msg[q].op = "activate" -> [row EXCEPT !.isActive = TRUE]
    [] msg[q].op = "update" /\ msg[q].timeZone # None ->
         [row EXCEPT !.timeZone = msg[q].timeZone]
    [] OTHER -> row

(* Mutant: update writes the resource as create would. *)
UpdatedEntity(q) ==
  LET row == resources[msg[q].id] IN
  CASE msg[q].op = "deactivate" -> [row EXCEPT !.isActive = FALSE, !.deactivatedAt = q]
    [] msg[q].op = "activate" -> [row EXCEPT !.isActive = TRUE, !.deactivatedAt = None]
    [] OTHER -> [row EXCEPT !.timeZone = ChosenZone(msg[q]),
                            !.isActive = TRUE, !.deactivatedAt = None]

(* The columns that each of the three UPDATEs sets. *)
Updated(q) ==
  LET row == resources[msg[q].id] IN
  CASE msg[q].op = "deactivate" -> [row EXCEPT !.isActive = FALSE, !.deactivatedAt = q]
    [] msg[q].op = "activate" -> [row EXCEPT !.isActive = TRUE, !.deactivatedAt = None]
    [] msg[q].op = "update" /\ msg[q].timeZone # None ->
         [row EXCEPT !.timeZone = msg[q].timeZone]
    [] OTHER -> row

(* NOT NULL of time_zone, and CHECK resource_deactivation_consistent. *)
Admissible(row) == row.timeZone # Null /\ Consistent(row)

(* UPDATE resource *)
Write(q) ==
  /\ pc[q] = "write"
  /\ \/ ~Admissible(Updated(q)) /\ Answer(q, "INTERNAL_ERROR") /\ UNCHANGED resources
     \/ /\ Admissible(Updated(q))
        /\ resources' = [resources EXCEPT ![msg[q].id] = Updated(q)]
        /\ Continue(q, "answer")
  /\ UNCHANGED <<types, msg>>

(* The answer leaves; update and activate read the row again for it.        *)
Report(q) ==
  /\ pc[q] = "answer"
  /\ Answer(q, "OK")
  /\ UNCHANGED <<types, resources, msg>>

(* The process dies or the connection drops: no answer. *)
Crash(q) ==
  /\ Crashes
  /\ pc[q] \notin {"new", "done"}
  /\ Answer(q, "LOST")
  /\ UNCHANGED <<types, resources, msg>>

-----------------------------------------------------------------------------
(* Migration 5, one transaction each way. *)

(* up: ON CONFLICT (code) DO NOTHING *)
InstallTypes ==
  LET missing == {c \in Shipped : \A t \in LiveTypes : types[t].code # c}
      unused == {t \in TypeIds : types[t] = None}
  IN
  /\ \E id \in [missing -> unused] :
       /\ \A c, d \in missing : id[c] = id[d] => c = d
       /\ types' = [t \in TypeIds |->
                      IF \E c \in missing : id[c] = t
                      THEN [code |-> CHOOSE c \in missing : id[c] = t, live |-> TRUE]
                      ELSE types[t]]
  /\ UNCHANGED <<resources, pc, msg, reply>>

(* down: DELETE of the shipped types that no resource has. *)
RemoveTypes ==
  /\ types' = [t \in TypeIds |->
                 IF /\ t \in LiveTypes
                    /\ types[t].code \in Shipped
                    /\ \A i \in Existing : resources[i].type # t
                 THEN [types[t] EXCEPT !.live = FALSE]
                 ELSE types[t]]
  /\ UNCHANGED <<resources, pc, msg, reply>>

-----------------------------------------------------------------------------

Proceed(q) ==
  \/ FindType(q) \/ FindCode(q) \/ InsertType(q) \/ InsertResource(q)
  \/ Find(q) \/ Write(q) \/ Report(q)

(* Every request is answered: a behaviour may end here. *)
Quiescent == (\A q \in Requests : pc[q] = "done") /\ UNCHANGED vars

Next ==
  \/ \E q \in Requests : Receive(q) \/ Proceed(q) \/ Crash(q)
  \/ InstallTypes \/ RemoveTypes
  \/ Quiescent

Spec == Init /\ [][Next]_vars

-----------------------------------------------------------------------------
(* Properties. *)

Labels == {"new", "type", "code", "insert", "find", "write", "answer", "done"}

TypeOK ==
  /\ types \in [TypeIds -> TypeRow \cup {None}]
  /\ resources \in [Ids -> Row \cup {None}]
  /\ pc \in [Requests -> Labels]
  /\ msg \in [Requests -> Workload \cup {None}]
  /\ reply \in [Requests -> ErrorCodes \cup {"NONE", "OK"}]

(* Between looking a code up and inserting it anything may be created: no   *)
(* code is used twice nevertheless, and no resource is of no type.         *)
CodesUnique ==
  Uniquely(types, LiveTypes) /\ Uniquely(resources, Existing)

TypesExist == \A i \in Existing : resources[i].type \in LiveTypes

(* A zone that Node does not know is kept out, so that availability and     *)
(* rules can compute with it: all but the empty one, which update lets by. *)
ZonesKnown ==
  \A i \in Existing :
    \/ resources[i].timeZone \in KnownZones
    \/ /\ resources[i].timeZone = EmptyZone
       /\ \E q \in Requests : /\ msg[q] # None
                              /\ msg[q].op = "update" /\ msg[q].id = i
                              /\ msg[q].timeZone = EmptyZone

(* Creations of one code, in any interleaving: at most one is answered with *)
(* success, and one that is refused for the code has lost against a row.   *)
Wants(q, op, code) == msg[q] # None /\ msg[q].op = op /\ msg[q].code = code

OneCreationPerCode ==
  \A c \in Codes :
    /\ \A p, q \in Requests :
         /\ p # q /\ Wants(p, "create", c) /\ Wants(q, "create", c)
         => ~(reply[p] = "OK" /\ reply[q] = "OK")
    /\ \A q \in Requests :
         Wants(q, "create", c) /\ reply[q] \in {"OK", "DUPLICATE_CODE"} =>
           \E i \in Existing : resources[i].code = c

(* Raw database errors reach a client only from an INSERT overtaken by      *)
(* another row with its code or by the removal of its type, and from a     *)
(* null in a column that may not be null: never from activating,           *)
(* deactivating or updating in any order.                                  *)
RawErrorsExplained ==
  \A q \in Requests :
    reply[q] = "INTERNAL_ERROR" =>
      \/ msg[q].op = "type"
      \/ /\ msg[q].op = "create"
         /\ \/ \E i \in Existing : resources[i].code = msg[q].code
            \/ msg[q].type \notin LiveTypes
      \/ msg[q].op = "update" /\ msg[q].timeZone = Null

(* What the rest of the program sees: no statement removes a resource, and  *)
(* none changes its activity together with something else.                 *)
View ==
  [i \in Ids |->
     IF resources[i] = None THEN None
     ELSE [active |-> resources[i].isActive, terms |-> resources[i].timeZone]]

Steps == INSTANCE CatalogueSteps
         WITH catalogue <- View, Resources <- Ids,
              Terms <- KnownZones \cup {EmptyZone, WrongZone}

ImplementsSteps == Steps!Spec

-----------------------------------------------------------------------------
(* An inductive invariant. *)

(* A handler stands where its operation leads, on a resource that it found. *)
OnTrack ==
  \A q \in Requests :
    /\ pc[q] # "new" => msg[q] # None
    /\ pc[q] = "new" => msg[q] = None
    /\ pc[q] = "type" => msg[q].op = "create"
    /\ pc[q] = "code" => msg[q].op \in {"type", "create"}
    /\ pc[q] = "insert" => /\ msg[q].op \in {"type", "create"}
                          /\ ~InvalidZone(msg[q])
    /\ pc[q] = "find" => msg[q].op \in {"update", "deactivate", "activate"}
    /\ pc[q] = "write" => /\ msg[q].op \in {"update", "deactivate", "activate"}
                         /\ msg[q].id \in Existing
                         /\ ~InvalidUpdate(msg[q])

ActivityConsistent == \A i \in Existing : Consistent(resources[i])

Tracked == OnTrack /\ ActivityConsistent

Inductive == TypeOK /\ Tracked

=============================================================================
