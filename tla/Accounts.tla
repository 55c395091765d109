------------------------------ MODULE Accounts ------------------------------
(***************************************************************************)
(* User administration: the guards in front of every route, the routes of  *)
(* UsersController, and the sessions of the identity provider.             *)
(*                                                                         *)
(* UserService uses no transaction.  Each action is one statement, which   *)
(* commits by itself, together with the code up to the next await; between *)
(* two statements of a request anything else may commit.                   *)
(***************************************************************************)
EXTENDS Naturals, FiniteSets

CONSTANTS
  None,             \* NULL
  Requests,         \* identities of the requests of a behaviour
  Ids,              \* identities of accounts
  Emails,           \* addresses
  Workload,         \* what a request may ask for
  InitialAccounts,  \* the table "user" a behaviour starts from
  Crashes,          \* may a connection drop or a process die?
  MaxTime           \* bound of the clock, in days

Roles == {"user", "admin"}

Ops == {"create", "update", "role", "ban", "unban"}

(* Parameters, body and caller of a request; None where a route has no     *)
(* such field, or an optional one is left out.                             *)
Message ==
  {m \in [op : Ops, caller : Ids, id : Ids \cup {None},
          email : Emails \cup {None}, role : Roles \cup {None},
          days : (Nat \ {0}) \cup {None}] :
     /\ m.op = "create" <=> m.id = None
     /\ m.op = "create" => m.email # None
     /\ m.op = "role" => m.role # None}

(* A row of "user": expires is banExpires. *)
Account == [email : Emails, role : Roles, banned : BOOLEAN,
            expires : Nat \cup {None}]

NewAccount(email) ==
  [email |-> email, role |-> "user", banned |-> FALSE, expires |-> None]

ASSUME AccountsAssumption ==
  /\ Workload \subseteq Message
  /\ InitialAccounts \in [Ids -> Account \cup {None}]
  /\ \A i, j \in Ids :
       /\ i # j /\ InitialAccounts[i] # None /\ InitialAccounts[j] # None
       => InitialAccounts[i].email # InitialAccounts[j].email
  /\ Crashes \in BOOLEAN /\ MaxTime \in Nat
  /\ None \notin Ids /\ None \notin Emails /\ None \notin Roles
  /\ None \notin Nat /\ None \notin Account /\ None \notin Message

VARIABLES
  accounts,  \* the table "user"
  sessions,  \* the accounts with a row in "session"
  signing,   \* the accounts whose sign-in has passed the check for a ban
  now,       \* the clock
  pc,        \* the next statement of each request
  msg,       \* what it asks for
  target,    \* the account it is about
  reply      \* the answer it got

vars == <<accounts, sessions, signing, now, pc, msg, target, reply>>
surroundings == <<sessions, signing, now>>
requests == <<pc, msg, target, reply>>

Existing == {i \in Ids : accounts[i] # None}

(* Those who pass both guards of an administrative route. *)
ActiveAdmins ==
  {i \in Existing : accounts[i].role = "admin" /\ ~accounts[i].banned}

Init ==
  /\ accounts = InitialAccounts
  /\ sessions = {}
  /\ signing = {}
  /\ now = 0
  /\ pc = [q \in Requests |-> "new"]
  /\ msg = [q \in Requests |-> None]
  /\ target = [q \in Requests |-> None]
  /\ reply = [q \in Requests |-> "NONE"]

-----------------------------------------------------------------------------
(* Requests. *)

Continue(q, next) ==
  /\ pc' = [pc EXCEPT ![q] = next]
  /\ UNCHANGED reply

Answer(q, code) ==
  /\ pc' = [pc EXCEPT ![q] = "done"]
  /\ reply' = [reply EXCEPT ![q] = code]

Receive(q) ==
  /\ pc[q] = "new"
  /\ \E m \in Workload :
       /\ msg' = [msg EXCEPT ![q] = m]
       /\ target' = [target EXCEPT ![q] = m.id]
  /\ Continue(q, "guard")
  /\ UNCHANGED <<accounts, surroundings>>

(* authenticate: a ban is looked up on every request; whether it has       *)
(* expired is not.                                                         *)
Authenticated(caller) == caller \in sessions /\ ~accounts[caller].banned

(* The error the two guards throw, or None. *)
GuardError(caller) ==
  IF ~Authenticated(caller) THEN "UNAUTHORIZED"
  ELSE IF accounts[caller].role # "admin" THEN "FORBIDDEN"
  ELSE None

(* AuthenticationGuard, then RolesGuard, which awaits nothing. *)
Guard(q) ==
  LET error == GuardError(msg[q].caller)
  IN
  /\ pc[q] = "guard"
  /\ \/ error # None /\ Answer(q, error)
     \/ error = None /\ Continue(q, IF msg[q].op = "create" THEN "provision" ELSE "find")
  /\ UNCHANGED <<accounts, surroundings, msg, target>>

(* The error create throws when the provider refuses the address; the      *)
(* provider gives every new account the role user.                         *)
Provision(q) ==
  /\ pc[q] = "provision"
  /\ \/ /\ \E j \in Existing : accounts[j].email = msg[q].email
        /\ Answer(q, "EMAIL_ALREADY_USED")
        /\ UNCHANGED <<accounts, target>>
     \/ /\ \A j \in Existing : accounts[j].email # msg[q].email
        /\ \E i \in Ids \ Existing :
             /\ accounts' = [accounts EXCEPT ![i] = NewAccount(msg[q].email)]
             /\ target' = [target EXCEPT ![q] = i]
        /\ Continue(q, IF msg[q].role = "admin" THEN "write" ELSE "report")
  /\ UNCHANGED <<surroundings, msg>>

(* Mutant: only a ban of oneself is refused. *)
BansSelf(m) == m.id = m.caller /\ m.op = "ban"

(* What updateRole and ban refuse to their own caller. *)
ActsOnSelf(m) ==
  /\ m.id = m.caller
  /\ m.op = "ban" \/ (m.op = "role" /\ m.role # "admin")

(* Mutant: nobody looks who asks. *)
FindAnybody(q) ==
  /\ pc[q] = "find"
  /\ \/ msg[q].id \notin Existing /\ Answer(q, "USER_NOT_FOUND")
     \/ /\ msg[q].id \in Existing
        /\ Continue(q, IF msg[q].op = "update" /\ msg[q].email # None
                       THEN "lookup" ELSE "write")
  /\ UNCHANGED <<accounts, surroundings, msg, target>>

(* getOrFail, and the checks that follow it. *)
Find(q) ==
  /\ pc[q] = "find"
  /\ \/ msg[q].id \notin Existing /\ Answer(q, "USER_NOT_FOUND")
     \/ msg[q].id \in Existing /\ ActsOnSelf(msg[q]) /\ Answer(q, "CANNOT_ACT_ON_SELF")
     \/ /\ msg[q].id \in Existing /\ ~ActsOnSelf(msg[q])
        /\ Continue(q, IF msg[q].op = "update" /\ msg[q].email # None
                       THEN "lookup" ELSE "write")
  /\ UNCHANGED <<accounts, surroundings, msg, target>>

(* Another account has the address that q wants to give its target. *)
EmailUsed(q) ==
  \E j \in Existing \ {target[q]} : accounts[j].email = msg[q].email

(* Mutant: the address is not looked up. *)
LookupNothing(q) ==
  /\ pc[q] = "lookup"
  /\ Continue(q, "write")
  /\ UNCHANGED <<accounts, surroundings, msg, target>>

(* findByEmail of update. *)
LookupEmail(q) ==
  /\ pc[q] = "lookup"
  /\ \/ EmailUsed(q) /\ Answer(q, "EMAIL_ALREADY_USED")
     \/ ~EmailUsed(q) /\ Continue(q, "write")
  /\ UNCHANGED <<accounts, surroundings, msg, target>>

(* An UPDATE of some columns of the target, and then the next statement. *)
Update(q, account, next) ==
  /\ accounts' = [accounts EXCEPT ![target[q]] = account]
  /\ Continue(q, next)

(* Mutant: the whole entity is saved, as it was before it was banned. *)
SaveProfile(q) ==
  /\ pc[q] = "write" /\ msg[q].op = "update"
  /\ Update(q, [accounts[target[q]] EXCEPT !.banned = FALSE], "report")
  /\ UNCHANGED <<surroundings, msg, target>>

(* Mutant: no unique index on the address. *)
OverwriteProfile(q) ==
  /\ pc[q] = "write" /\ msg[q].op = "update" /\ msg[q].email # None
  /\ Update(q, [accounts[target[q]] EXCEPT !.email = msg[q].email], "report")
  /\ UNCHANGED <<surroundings, msg, target>>

(* updateProfile: without an address only the name, which is left out.     *)
(* A refusal of the unique index is not translated.                        *)
UpdateProfile(q) ==
  LET old == accounts[target[q]]
  IN
  /\ pc[q] = "write" /\ msg[q].op = "update"
  /\ \/ /\ msg[q].email # None /\ EmailUsed(q)
        /\ Answer(q, "INTERNAL_ERROR")
        /\ UNCHANGED accounts
     \/ /\ msg[q].email # None /\ ~EmailUsed(q)
        /\ Update(q, [old EXCEPT !.email = msg[q].email], "report")
     \/ /\ msg[q].email = None
        /\ Update(q, old, "report")
  /\ UNCHANGED <<surroundings, msg, target>>

(* The UPDATE of updateRole, and of create with another role than user. *)
UpdateRole(q) ==
  /\ pc[q] = "write" /\ msg[q].op \in {"create", "role"}
  /\ Update(q, [accounts[target[q]] EXCEPT !.role = msg[q].role], "report")
  /\ UNCHANGED <<surroundings, msg, target>>

(* ban: the end is computed just before; a day does not pass in between. *)
Ban(q) ==
  LET until == IF msg[q].days = None THEN None ELSE now + msg[q].days
  IN
  /\ pc[q] = "write" /\ msg[q].op = "ban"
  /\ Update(q, [accounts[target[q]] EXCEPT !.banned = TRUE, !.expires = until],
            "revoke")
  /\ UNCHANGED <<surroundings, msg, target>>

RevokeSessions(q) ==
  /\ pc[q] = "revoke"
  /\ sessions' = sessions \ {target[q]}
  /\ Continue(q, "report")
  /\ UNCHANGED <<accounts, signing, now, msg, target>>

(* The ban of an account is over. *)
Lifted(account) == [account EXCEPT !.banned = FALSE, !.expires = None]

Unban(q) ==
  /\ pc[q] = "write" /\ msg[q].op = "unban"
  /\ Update(q, Lifted(accounts[target[q]]), "report")
  /\ UNCHANGED <<surroundings, msg, target>>

(* findOne: the account is read once more; accounts are never deleted. *)
Report(q) ==
  /\ pc[q] = "report"
  /\ Answer(q, "OK")
  /\ UNCHANGED <<accounts, surroundings, msg, target>>

(* The connection drops or the process dies; what was written stays. *)
Crash(q) ==
  /\ Crashes
  /\ pc[q] \notin {"new", "done"}
  /\ Answer(q, "LOST")
  /\ UNCHANGED <<accounts, surroundings, msg, target>>

-----------------------------------------------------------------------------
(* The identity provider and the clock. *)

(* A sign-in reads the account, lifts a ban that has expired, and stores   *)
(* its session later.                                                      *)
SignIn(i) ==
  /\ i \in Existing \ signing
  /\ \/ ~accounts[i].banned /\ UNCHANGED accounts
     \/ /\ accounts[i].banned /\ accounts[i].expires # None
        /\ accounts[i].expires < now
        /\ accounts' = [accounts EXCEPT ![i] = Lifted(accounts[i])]
  /\ signing' = signing \cup {i}
  /\ UNCHANGED <<sessions, now, requests>>

StoreSession(i) ==
  /\ i \in signing
  /\ signing' = signing \ {i}
  /\ sessions' = sessions \cup {i}
  /\ UNCHANGED <<accounts, now, requests>>

(* Signing out, or the end of seven days. *)
EndSession(i) ==
  /\ i \in sessions
  /\ sessions' = sessions \ {i}
  /\ UNCHANGED <<accounts, signing, now, requests>>

Tick ==
  /\ now < MaxTime
  /\ now' = now + 1
  /\ UNCHANGED <<accounts, sessions, signing, requests>>

Writes(q) ==
  UpdateProfile(q) \/ UpdateRole(q) \/ Ban(q) \/ Unban(q)

Request(q) ==
  \/ Receive(q) \/ Guard(q) \/ Provision(q) \/ Find(q) \/ LookupEmail(q)
  \/ Writes(q) \/ RevokeSessions(q) \/ Report(q) \/ Crash(q)

Provider(i) == SignIn(i) \/ StoreSession(i) \/ EndSession(i)

Next ==
  \/ \E q \in Requests : Request(q)
  \/ \E i \in Ids : Provider(i)
  \/ Tick

Spec == Init /\ [][Next]_vars

-----------------------------------------------------------------------------
(* Properties. *)

Labels == {"new", "guard", "provision", "find", "lookup", "write", "revoke",
           "report", "done"}

Codes == {"NONE", "OK", "UNAUTHORIZED", "FORBIDDEN", "USER_NOT_FOUND",
          "CANNOT_ACT_ON_SELF", "EMAIL_ALREADY_USED", "INTERNAL_ERROR", "LOST"}

(* Every variable has the shape the schema and the handlers give it;       *)
(* nobody signs in, and nothing is written, without an account.            *)
TypeOK ==
  /\ accounts \in [Ids -> Account \cup {None}]
  /\ signing \subseteq Existing
  /\ sessions \subseteq Existing
  /\ now \in 0 .. MaxTime
  /\ pc \in [Requests -> Labels]
  /\ msg \in [Requests -> Workload \cup {None}]
  /\ target \in [Requests -> Ids \cup {None}]
  /\ reply \in [Requests -> Codes]

(* However creations and updates interleave, no two accounts can be signed *)
(* in to with one address.                                                 *)
UniqueEmails ==
  \A i, j \in Existing : i # j => accounts[i].email # accounts[j].email

(* A step of q that changes the table of accounts. *)
WrittenBy(q) == pc[q] = "write" /\ pc'[q] \in {"revoke", "report"}

(* The check against acting on oneself does its work as long as requests   *)
(* do not race: the last active administrator is only ever removed by a    *)
(* request whose caller is not one any more, having been demoted or banned *)
(* while it was under way.                                                 *)
AdministratorsRemain ==
  [][ActiveAdmins # {} /\ ActiveAdmins' = {}
       => \E q \in Requests :
            WrittenBy(q) /\ msg[q].caller \notin ActiveAdmins]_accounts

(* A ban lasts until somebody lifts it or it expires: no other write that   *)
(* was under way undoes it.                                                *)
BansLast ==
  [][\A i \in Existing :
       accounts[i].banned /\ ~accounts'[i].banned
       => \/ accounts[i].expires # None /\ accounts[i].expires < now
          \/ \E q \in Requests :
               WrittenBy(q) /\ msg[q].op = "unban" /\ target[q] = i]_accounts

(* Another request gave, or was about to give, the account j the address   *)
(* that q asks for.                                                        *)
TakenByRequest(q, j) ==
  \E o \in Requests \ {q} :
    /\ pc[o] \in {"write", "revoke", "report", "done"}
    /\ msg[o].op \in {"create", "update"} /\ msg[o].email = msg[q].email
    /\ target[o] = j

(* The look-up before the UPDATE does its work as long as requests do not  *)
(* race: a raw database error (UserService.update does not translate the   *)
(* violation of the unique index) only ever reaches a client whose address *)
(* another request took after it was found free.                           *)
RawErrorsExplained ==
  [][\A q \in Requests :
       reply[q] # "INTERNAL_ERROR" /\ reply'[q] = "INTERNAL_ERROR"
       => \E j \in Existing \ {target[q]} :
            accounts[j].email = msg[q].email /\ TakenByRequest(q, j)]_reply

(* UsersController.updateRole and UserService.updateRole: refusing self-   *)
(* demotion keeps the system from being left "with nobody able to          *)
(* administer it".  Two administrators can demote or ban each other.       *)
SomebodyAdministers == ActiveAdmins # {}

-----------------------------------------------------------------------------
(* Why the properties hold. *)

(* Between the guard and its last statement a request has a target, and    *)
(* one that is about to write does not take its caller's own rights.       *)
OnTrack(q) ==
  /\ pc[q] \notin {"new", "done"} => msg[q] # None
  /\ pc[q] \in {"guard", "find", "lookup"} => target[q] = msg[q].id
  /\ pc[q] = "provision" => msg[q].op = "create"
  /\ pc[q] = "find" => msg[q].op # "create"
  /\ pc[q] = "lookup" => msg[q].op = "update" /\ msg[q].email # None
  /\ pc[q] \in {"lookup", "write"} =>
       /\ target[q] \in Existing
       /\ msg[q].op = "create" => msg[q].role = "admin"
       /\ msg[q].op # "create" => target[q] = msg[q].id /\ ~ActsOnSelf(msg[q])

(* Whoever has the address an update has found free got it meanwhile. *)
AddressesExplained ==
  \A q \in Requests :
    pc[q] = "write" /\ msg[q].op = "update" /\ msg[q].email # None =>
      \A j \in Existing \ {target[q]} :
        accounts[j].email = msg[q].email => TakenByRequest(q, j)

Inductive ==
  /\ TypeOK
  /\ UniqueEmails
  /\ AddressesExplained
  /\ \A q \in Requests : OnTrack(q)

=============================================================================
