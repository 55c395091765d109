--------------------------- MODULE AccountsProofs ---------------------------
(***************************************************************************)
(* Proofs that the properties of Accounts hold for every number of         *)
(* requests, accounts and addresses and every workload.                    *)
(***************************************************************************)
EXTENDS Accounts, TLAPS

(* What a message of the workload consists of. *)
LEMMA MessageFacts ==
  ASSUME NEW m \in Workload
  PROVE  /\ m # None
         /\ m.op \in Ops /\ m.caller \in Ids
         /\ m.id \in Ids \cup {None}
         /\ m.email \in Emails \cup {None}
         /\ m.role \in Roles \cup {None}
         /\ m.days \in (Nat \ {0}) \cup {None}
         /\ m.op = "create" => m.email \in Emails
         /\ m.op # "create" => m.id \in Ids
         /\ m.op = "role" => m.role \in Roles
PROOF BY AccountsAssumption DEF Message

(* The fields of the accounts that exist. *)
LEMMA AccountFacts ==
  ASSUME TypeOK, NEW i \in Existing
  PROVE  /\ i \in Ids /\ accounts[i] \in Account /\ accounts[i] # None
         /\ accounts[i] = [email |-> accounts[i].email, role |-> accounts[i].role,
                           banned |-> accounts[i].banned,
                           expires |-> accounts[i].expires]
PROOF BY DEF TypeOK, Existing, Account

-----------------------------------------------------------------------------
(* What a step may do to the table of accounts. *)

(* create inserts an account under an address nobody has. *)
Creates(q) ==
  /\ pc[q] = "provision"
  /\ msg[q].email \in Emails
  /\ \A j \in Existing : accounts[j].email # msg[q].email
  /\ \E i \in Ids \ Existing :
       accounts' = [accounts EXCEPT ![i] = NewAccount(msg[q].email)]

(* What the UPDATE of q makes of its target. *)
Written(q, account) ==
  LET old == accounts[target[q]]
  IN
  \/ /\ msg[q].op = "update"
     /\ \/ account = old
        \/ /\ msg[q].email \in Emails /\ ~EmailUsed(q)
           /\ account = [old EXCEPT !.email = msg[q].email]
  \/ /\ msg[q].op \in {"create", "role"}
     /\ msg[q].role \in Roles
     /\ account = [old EXCEPT !.role = msg[q].role]
  \/ /\ msg[q].op = "ban"
     /\ \E until \in Nat \cup {None} :
          account = [old EXCEPT !.banned = TRUE, !.expires = until]
  \/ msg[q].op = "unban" /\ account = Lifted(old)

Changes(q) ==
  /\ WrittenBy(q)
  /\ target[q] \in Existing
  /\ \E account \in Account :
       /\ Written(q, account)
       /\ accounts' = [accounts EXCEPT ![target[q]] = account]

Expires(i) ==
  /\ i \in Existing
  /\ accounts[i].banned /\ accounts[i].expires # None /\ accounts[i].expires < now
  /\ accounts' = [accounts EXCEPT ![i] = Lifted(accounts[i])]

(* Which requests change the table, and how. *)
LEMMA WriteKinds ==
  ASSUME Inductive, NEW q \in Requests, Writes(q)
  PROVE  Changes(q) \/ UNCHANGED accounts
PROOF
<1> USE DEF Inductive
<1>1. /\ pc[q] = "write" /\ msg[q] \in Workload /\ target[q] \in Existing
      /\ msg[q].op = "create" => msg[q].role = "admin"
      /\ now \in Nat /\ pc \in [Requests -> Labels]
  BY DEF Writes, UpdateProfile, UpdateRole, Ban, Unban, OnTrack, TypeOK
<1> DEFINE old == accounts[target[q]]
<1>2. /\ target[q] \in Ids /\ old \in Account
      /\ old = [email |-> old.email, role |-> old.role,
                banned |-> old.banned, expires |-> old.expires]
  BY <1>1, AccountFacts
<1>3. ASSUME UpdateProfile(q)
      PROVE  Changes(q) \/ UNCHANGED accounts
  <2>1. CASE msg[q].email # None /\ ~EmailUsed(q)
    <3>1. [old EXCEPT !.email = msg[q].email] \in Account
      BY <1>1, <1>2, <2>1, MessageFacts DEF Account
    <3>2. Written(q, [old EXCEPT !.email = msg[q].email])
      BY <1>1, <1>3, <2>1, MessageFacts DEF UpdateProfile, Written
    <3> QED
      BY <1>1, <1>3, <2>1, <3>1, <3>2
      DEF UpdateProfile, Update, Continue, Changes, WrittenBy
  <2>2. CASE msg[q].email = None
    BY <1>1, <1>2, <1>3, <2>2
    DEF UpdateProfile, Update, Continue, Changes, WrittenBy, Written
  <2> QED BY <1>3, <2>1, <2>2 DEF UpdateProfile
<1>4. ASSUME UpdateRole(q)
      PROVE  Changes(q)
  <2>1. msg[q].role \in Roles
    BY <1>1, <1>4, MessageFacts DEF UpdateRole, Roles
  <2>2. [old EXCEPT !.role = msg[q].role] \in Account
    BY <1>2, <2>1 DEF Account
  <2> QED
    BY <1>1, <1>4, <2>1, <2>2
    DEF UpdateRole, Update, Continue, Changes, WrittenBy, Written
<1>5. ASSUME Ban(q)
      PROVE  Changes(q)
  <2> DEFINE until == IF msg[q].days = None THEN None ELSE now + msg[q].days
  <2>1. until \in Nat \cup {None}
    BY <1>1, MessageFacts
  <2> HIDE DEF until
  <2>2. [old EXCEPT !.banned = TRUE, !.expires = until] \in Account
    BY <1>2, <2>1 DEF Account
  <2>3. Written(q, [old EXCEPT !.banned = TRUE, !.expires = until])
    BY <1>5, <2>1 DEF Ban, Written
  <2>4. /\ accounts' = [accounts EXCEPT ![target[q]] =
                          [old EXCEPT !.banned = TRUE, !.expires = until]]
        /\ pc' = [pc EXCEPT ![q] = "revoke"]
    BY <1>5 DEF Ban, Update, Continue, until
  <2> QED BY <1>1, <2>2, <2>3, <2>4 DEF Changes, WrittenBy
<1>6. ASSUME Unban(q)
      PROVE  Changes(q)
  <2>1. Lifted(old) \in Account
    BY <1>2 DEF Lifted, Account
  <2> QED
    BY <1>1, <1>6, <2>1
    DEF Unban, Update, Continue, Changes, WrittenBy, Written
<1> QED BY <1>3, <1>4, <1>5, <1>6 DEF Writes

LEMMA TableStep ==
  ASSUME Inductive, [Next]_vars
  PROVE  \/ UNCHANGED accounts
         \/ \E q \in Requests : Creates(q) \/ Changes(q)
         \/ \E i \in Ids : Expires(i)
PROOF
<1> USE DEF Inductive
<1>1. ASSUME NEW q \in Requests, Provision(q)
      PROVE  Creates(q) \/ UNCHANGED accounts
  <2>1. pc[q] = "provision" /\ msg[q] \in Workload /\ msg[q].op = "create"
    BY <1>1 DEF Provision, OnTrack, TypeOK
  <2> QED BY <1>1, <2>1, MessageFacts DEF Provision, Creates
<1>2. ASSUME NEW i \in Ids, SignIn(i)
      PROVE  Expires(i) \/ UNCHANGED accounts
  BY <1>2 DEF SignIn, Expires
<1>3. ASSUME NEW q \in Requests, Request(q)
      PROVE  Creates(q) \/ Changes(q) \/ UNCHANGED accounts
  BY <1>1, <1>3, WriteKinds
  DEF Request, Receive, Guard, Find, LookupEmail, RevokeSessions, Report, Crash
<1>4. ASSUME NEW i \in Ids, Provider(i)
      PROVE  Expires(i) \/ UNCHANGED accounts
  BY <1>2, <1>4 DEF Provider, StoreSession, EndSession
<1>5. ASSUME Tick \/ UNCHANGED vars
      PROVE  UNCHANGED accounts
  BY <1>5 DEF Tick, vars
<1> QED BY <1>3, <1>4, <1>5 DEF Next

(* Rows change only where these say so; accounts are never deleted. *)
LEMMA TableFacts ==
  ASSUME Inductive, [Next]_vars
  PROVE  /\ accounts' \in [Ids -> Account \cup {None}]
         /\ Existing \subseteq Existing'
PROOF
<1> USE DEF Inductive
<1>1. CASE UNCHANGED accounts
  BY <1>1 DEF TypeOK, Existing
<1>2. ASSUME NEW q \in Requests, Creates(q)
      PROVE  accounts' \in [Ids -> Account \cup {None}] /\ Existing \subseteq Existing'
  <2>1. NewAccount(msg[q].email) \in Account
    BY <1>2 DEF Creates, NewAccount, Account, Roles
  <2> QED BY <1>2, <2>1, AccountsAssumption DEF Creates, TypeOK, Existing
<1>3. ASSUME NEW q \in Requests, Changes(q)
      PROVE  accounts' \in [Ids -> Account \cup {None}] /\ Existing \subseteq Existing'
  BY <1>3, AccountsAssumption DEF Changes, TypeOK, Existing
<1>4. ASSUME NEW i \in Ids, Expires(i)
      PROVE  accounts' \in [Ids -> Account \cup {None}] /\ Existing \subseteq Existing'
  <2>1. Lifted(accounts[i]) \in Account
    BY <1>4, AccountFacts DEF Expires, Lifted, Account
  <2> QED BY <1>4, <2>1, AccountsAssumption DEF Expires, TypeOK, Existing
<1> QED BY <1>1, <1>2, <1>3, <1>4, TableStep

-----------------------------------------------------------------------------
(* The inductive invariant. *)

(* Every step preserves the shape of the variables. *)
LEMMA TypeStep ==
  ASSUME Inductive, [Next]_vars
  PROVE  TypeOK'
PROOF
<1> USE DEF Inductive
<1>1. accounts' \in [Ids -> Account \cup {None}] /\ Existing \subseteq Existing'
  BY TableFacts
<1>2. ASSUME NEW q \in Requests, Request(q)
      PROVE  /\ pc' \in [Requests -> Labels] /\ reply' \in [Requests -> Codes]
             /\ msg' \in [Requests -> Workload \cup {None}]
             /\ target' \in [Requests -> Ids \cup {None}]
             /\ sessions' \subseteq sessions /\ UNCHANGED <<signing, now>>
  <2>1. CASE Receive(q)
    BY <2>1, MessageFacts DEF Receive, Continue, TypeOK, Labels, surroundings
  <2>2. CASE Guard(q)
    <3>1. GuardError(msg[q].caller) \in Codes \cup {None}
      BY DEF GuardError, Codes
    <3> QED BY <2>2, <3>1 DEF Guard, Answer, Continue, TypeOK, Labels, surroundings
  <2>3. CASE Provision(q)
    BY <2>3 DEF Provision, Answer, Continue, TypeOK, Labels, Codes, surroundings
  <2>4. CASE Find(q) \/ LookupEmail(q)
    BY <2>4 DEF Find, LookupEmail, Answer, Continue, TypeOK, Labels, Codes, surroundings
  <2>5. CASE Writes(q)
    BY <2>5 DEF Writes, UpdateProfile, UpdateRole, Ban, Unban, Update, Answer,
                Continue, TypeOK, Labels, Codes, surroundings
  <2>6. CASE RevokeSessions(q) \/ Report(q) \/ Crash(q)
    BY <2>6 DEF RevokeSessions, Report, Crash, Answer, Continue, TypeOK, Labels,
                Codes, surroundings
  <2> QED BY <1>2, <2>1, <2>2, <2>3, <2>4, <2>5, <2>6 DEF Request
<1>3. ASSUME NEW i \in Ids, Provider(i)
      PROVE  /\ signing' \subseteq Existing /\ sessions' \subseteq Existing
             /\ UNCHANGED <<now, requests>>
  BY <1>3 DEF Provider, SignIn, StoreSession, EndSession, TypeOK
<1>4. ASSUME Tick
      PROVE  now' \in 0 .. MaxTime /\ UNCHANGED <<sessions, signing, requests>>
  BY <1>4, AccountsAssumption DEF Tick, TypeOK
<1>5. CASE UNCHANGED vars
  BY <1>5 DEF vars, TypeOK, Existing
<1> QED BY <1>1, <1>2, <1>3, <1>4, <1>5 DEF Next, TypeOK, requests

(* Every step preserves that the addresses differ. *)
LEMMA EmailStep ==
  ASSUME Inductive, [Next]_vars
  PROVE  UniqueEmails'
PROOF
<1> USE DEF Inductive
<1>1. CASE UNCHANGED accounts
  BY <1>1 DEF UniqueEmails, Existing
<1>2. ASSUME NEW q \in Requests, Creates(q)
      PROVE  UniqueEmails'
  <2>1. NewAccount(msg[q].email).email = msg[q].email
    BY DEF NewAccount
  <2> QED BY <1>2, <2>1 DEF Creates, UniqueEmails, TypeOK, Existing
<1>3. ASSUME NEW q \in Requests, Changes(q)
      PROVE  UniqueEmails'
  <2>1. PICK account \in Account :
          /\ Written(q, account)
          /\ accounts' = [accounts EXCEPT ![target[q]] = account]
    BY <1>3 DEF Changes
  <2>2. /\ target[q] \in Existing
        /\ accounts[target[q]] \in Account
    BY <1>3, AccountFacts DEF Changes
  <2>3. \/ account.email = accounts[target[q]].email
        \/ account.email = msg[q].email /\ ~EmailUsed(q)
    BY <2>1, <2>2 DEF Written, Lifted, Account
  <2> QED BY <2>1, <2>2, <2>3 DEF UniqueEmails, EmailUsed, TypeOK, Existing
<1>4. ASSUME NEW i \in Ids, Expires(i)
      PROVE  UniqueEmails'
  <2>1. Lifted(accounts[i]).email = accounts[i].email
    BY <1>4, AccountFacts DEF Expires, Lifted, Account
  <2> QED BY <1>4, <2>1 DEF Expires, UniqueEmails, TypeOK, Existing
<1> QED BY <1>1, <1>2, <1>3, <1>4, TableStep

(* A request that does not move stays on its track, whatever else happens. *)
LEMMA TrackStays ==
  ASSUME Inductive, [Next]_vars, NEW v \in Requests,
         pc'[v] = pc[v], msg'[v] = msg[v], target'[v] = target[v]
  PROVE  OnTrack(v)'
PROOF
<1>1. Existing \subseteq Existing'
  BY TableFacts
<1> QED BY <1>1 DEF Inductive, OnTrack, ActsOnSelf

(* Every step keeps every request on its track. *)
LEMMA TrackStep ==
  ASSUME Inductive, [Next]_vars, NEW v \in Requests
  PROVE  OnTrack(v)'
PROOF
<1> USE DEF Inductive
<1>1. Existing \subseteq Existing' /\ Existing \subseteq Ids
  BY TableFacts DEF Existing
<1>2. CASE UNCHANGED <<pc, msg, target>>
  BY <1>2, TrackStays
<1>3. ASSUME NEW q \in Requests, Request(q)
      PROVE  OnTrack(v)'
  <2>1. CASE v # q
    <3>1. pc'[v] = pc[v] /\ msg'[v] = msg[v] /\ target'[v] = target[v]
      BY <1>3, <2>1
      DEF Request, Receive, Guard, Provision, Find, LookupEmail, Writes,
          UpdateProfile, UpdateRole, Ban, Unban, Update, RevokeSessions, Report,
          Crash, Answer, Continue, TypeOK
    <3> QED BY <3>1, TrackStays
  <2>2. CASE v = q /\ Receive(q)
    <3>1. pc'[q] = "guard" /\ msg'[q] # None /\ target'[q] = msg'[q].id
      BY <2>2, MessageFacts DEF Receive, Continue, TypeOK
    <3> QED BY <2>2, <3>1 DEF OnTrack
  <2>3. CASE v = q /\ Guard(q)
    <3>1. /\ msg'[q] = msg[q] /\ msg[q] # None /\ target'[q] = target[q]
          /\ target[q] = msg[q].id
          /\ \/ pc'[q] = "done"
             \/ pc'[q] = "provision" /\ msg[q].op = "create"
             \/ pc'[q] = "find" /\ msg[q].op # "create"
      BY <2>3 DEF Guard, Answer, Continue, TypeOK, OnTrack
    <3> QED BY <2>3, <3>1 DEF OnTrack
  <2>4. CASE v = q /\ Provision(q)
    <3>1. msg'[q] = msg[q] /\ msg[q] # None /\ msg[q].op = "create"
      BY <2>4 DEF Provision, OnTrack
    <3>2. CASE pc'[q] = "write"
      <4>1. /\ msg[q].role = "admin"
            /\ msg[q].email \in Emails
        BY <2>4, <3>1, <3>2, MessageFacts
        DEF Provision, Answer, Continue, TypeOK
      <4>2. PICK i \in Ids \ Existing :
              /\ accounts' = [accounts EXCEPT ![i] = NewAccount(msg[q].email)]
              /\ target' = [target EXCEPT ![q] = i]
        BY <2>4, <3>2 DEF Provision, Answer, Continue, TypeOK
      <4>3. NewAccount(msg[q].email) # None
        <5>1. NewAccount(msg[q].email) \in Account
          BY <4>1 DEF NewAccount, Account, Roles
        <5> QED BY <5>1, AccountsAssumption
      <4>4. target'[q] \in Existing'
        BY <4>2, <4>3 DEF Existing, TypeOK
      <4> QED BY <2>4, <3>1, <3>2, <4>1, <4>4 DEF OnTrack
    <3>3. CASE pc'[q] # "write"
      <4>1. pc'[q] \in {"report", "done"}
        BY <2>4, <3>3 DEF Provision, Answer, Continue, TypeOK
      <4> QED BY <2>4, <3>1, <4>1 DEF OnTrack
    <3> QED BY <3>2, <3>3
  <2>5. CASE v = q /\ Find(q)
    <3>1. /\ msg'[q] = msg[q] /\ msg[q] # None /\ target'[q] = target[q]
          /\ target[q] = msg[q].id /\ msg[q].op # "create"
          /\ \/ pc'[q] = "done"
             \/ /\ msg[q].id \in Existing /\ ~ActsOnSelf(msg[q])
                /\ \/ pc'[q] = "lookup" /\ msg[q].op = "update" /\ msg[q].email # None
                   \/ pc'[q] = "write"
      BY <2>5 DEF Find, Answer, Continue, TypeOK, OnTrack
    <3> QED BY <1>1, <2>5, <3>1 DEF OnTrack, ActsOnSelf
  <2>6. CASE v = q /\ LookupEmail(q)
    <3>1. /\ msg'[q] = msg[q] /\ msg[q] # None /\ target'[q] = target[q]
          /\ target[q] \in Existing
          /\ msg[q].op = "update" /\ target[q] = msg[q].id /\ ~ActsOnSelf(msg[q])
          /\ pc'[q] \in {"done", "write"}
      BY <2>6 DEF LookupEmail, Answer, Continue, TypeOK, OnTrack
    <3> QED BY <1>1, <2>6, <3>1 DEF OnTrack, ActsOnSelf
  <2>7. CASE v = q /\ (Writes(q) \/ RevokeSessions(q) \/ Report(q) \/ Crash(q))
    <3>1. /\ msg'[q] = msg[q] /\ msg[q] # None
          /\ pc'[q] \in {"revoke", "report", "done"}
      BY <2>7
      DEF Writes, UpdateProfile, UpdateRole, Ban, Unban, Update, RevokeSessions,
          Report, Crash, Answer, Continue, TypeOK, OnTrack
    <3> QED BY <2>7, <3>1 DEF OnTrack
  <2> QED
    BY <1>3, <2>1, <2>2, <2>3, <2>4, <2>5, <2>6, <2>7 DEF Request
<1>4. ASSUME (\E i \in Ids : Provider(i)) \/ Tick \/ UNCHANGED vars
      PROVE  UNCHANGED <<pc, msg, target>>
  BY <1>4 DEF Provider, SignIn, StoreSession, EndSession, Tick, requests, vars
<1> QED BY <1>2, <1>3, <1>4 DEF Next

(* What was taken by a request stays taken by it. *)
LEMMA TakenStays ==
  ASSUME Inductive, [Next]_vars, NEW q \in Requests, msg'[q] = msg[q],
         NEW j, TakenByRequest(q, j)
  PROVE  TakenByRequest(q, j)'
PROOF
<1> USE DEF Inductive
<1>1. PICK o \in Requests \ {q} :
        /\ pc[o] \in {"write", "revoke", "report", "done"}
        /\ msg[o].op \in {"create", "update"} /\ msg[o].email = msg[q].email
        /\ target[o] = j
  BY DEF TakenByRequest
<1>2. /\ pc'[o] \in {"write", "revoke", "report", "done"}
      /\ msg'[o] = msg[o] /\ target'[o] = target[o]
  <2>1. ASSUME NEW r \in Requests, Request(r)
        PROVE  /\ pc'[o] \in {"write", "revoke", "report", "done"}
               /\ msg'[o] = msg[o] /\ target'[o] = target[o]
    BY <1>1, <2>1
    DEF Request, Receive, Guard, Provision, Find, LookupEmail, Writes,
        UpdateProfile, UpdateRole, Ban, Unban, Update, RevokeSessions, Report,
        Crash, Answer, Continue, TypeOK
  <2>2. ASSUME (\E i \in Ids : Provider(i)) \/ Tick \/ UNCHANGED vars
        PROVE  UNCHANGED <<pc, msg, target>>
    BY <2>2 DEF Provider, SignIn, StoreSession, EndSession, Tick, requests, vars
  <2> QED BY <1>1, <2>1, <2>2 DEF Next
<1> QED BY <1>1, <1>2 DEF TakenByRequest

(* A step of one request that gives an account another address, as the     *)
(* other requests see it.                                                  *)
LEMMA AddressGiven ==
  ASSUME Inductive, NEW o \in Requests, Request(o),
         NEW q \in Requests \ {o}, NEW j \in Existing',
         accounts'[j].email = msg[q].email,
         j \in Existing => accounts[j].email # msg[q].email
  PROVE  TakenByRequest(q, j)' /\ msg'[q] = msg[q]
PROOF
<1> USE DEF Inductive
<1>1. msg' = msg
  BY DEF Request, Receive, Guard, Provision, Find, LookupEmail, Writes,
         UpdateProfile, UpdateRole, Ban, Unban, Update, RevokeSessions, Report,
         Crash, Answer, Continue, Existing
<1>2. CASE Provision(o)
  <2>1. PICK i \in Ids \ Existing :
          /\ accounts' = [accounts EXCEPT ![i] = NewAccount(msg[o].email)]
          /\ target' = [target EXCEPT ![o] = i]
          /\ pc'[o] \in {"write", "report"} /\ msg[o].op = "create"
    BY <1>2 DEF Provision, Continue, Existing, TypeOK, OnTrack
  <2>2. j = i /\ target'[o] = i /\ msg[o].email = msg[q].email
    BY <2>1 DEF Existing, TypeOK, NewAccount
  <2> QED BY <1>1, <2>1, <2>2 DEF TakenByRequest
<1>3. CASE Writes(o)
  <2>1. Changes(o)
    BY <1>3, WriteKinds DEF Existing
  <2>2. PICK account \in Account :
          /\ Written(o, account)
          /\ accounts' = [accounts EXCEPT ![target[o]] = account]
    BY <2>1 DEF Changes
  <2>3. /\ target[o] \in Existing /\ accounts[target[o]] \in Account
        /\ pc'[o] \in {"revoke", "report"}
    BY <2>1, AccountFacts DEF Changes, WrittenBy
  <2>4. j = target[o] /\ account.email = msg[q].email
    BY <2>2, <2>3 DEF Existing, TypeOK
  <2>5. msg[o].op = "update" /\ msg[o].email = msg[q].email
    BY <2>2, <2>3, <2>4 DEF Written, Lifted, Account
  <2>6. target' = target
    BY <1>3 DEF Writes, UpdateProfile, UpdateRole, Ban, Unban
  <2> QED BY <1>1, <2>3, <2>4, <2>5, <2>6 DEF TakenByRequest
<1>4. CASE UNCHANGED accounts
  BY <1>4 DEF Existing
<1> QED
  BY <1>1, <1>2, <1>3, <1>4
  DEF Request, Receive, Guard, Find, LookupEmail, RevokeSessions, Report, Crash

(* Every step keeps that addresses are only taken by requests. *)
LEMMA AddressStep ==
  ASSUME Inductive, [Next]_vars
  PROVE  AddressesExplained'
PROOF
<1> USE DEF Inductive
<1>1. SUFFICES ASSUME NEW q \in Requests, pc'[q] = "write",
                      msg'[q].op = "update", msg'[q].email # None,
                      NEW j \in Existing' \ {target'[q]},
                      accounts'[j].email = msg'[q].email
               PROVE  TakenByRequest(q, j)'
  BY DEF AddressesExplained
<1>2. ASSUME pc[q] = "write", msg'[q] = msg[q], target'[q] = target[q],
             j \in Existing, accounts[j].email = msg[q].email
      PROVE  TakenByRequest(q, j)'
  BY <1>1, <1>2, TakenStays DEF AddressesExplained
<1>3. CASE Request(q)
  <2>1. LookupEmail(q) /\ ~EmailUsed(q)
    BY <1>1, <1>3
    DEF Request, Receive, Guard, Provision, Find, LookupEmail, Writes,
        UpdateProfile, UpdateRole, Ban, Unban, Update, RevokeSessions, Report,
        Crash, Answer, Continue, TypeOK, OnTrack
  <2> QED BY <1>1, <2>1 DEF LookupEmail, EmailUsed, Existing
<1>4. ASSUME NEW o \in Requests \ {q}, Request(o)
      PROVE  TakenByRequest(q, j)'
  <2>1. pc'[q] = pc[q] /\ msg'[q] = msg[q] /\ target'[q] = target[q]
    BY <1>4
    DEF Request, Receive, Guard, Provision, Find, LookupEmail, Writes,
        UpdateProfile, UpdateRole, Ban, Unban, Update, RevokeSessions, Report,
        Crash, Answer, Continue, TypeOK
  <2>2. CASE j \in Existing /\ accounts[j].email = msg[q].email
    BY <1>1, <1>2, <2>1, <2>2
  <2>3. CASE j \in Existing => accounts[j].email # msg[q].email
    BY <1>1, <1>4, <2>1, <2>3, AddressGiven
  <2> QED BY <2>2, <2>3
<1>5. ASSUME (\E i \in Ids : Provider(i)) \/ Tick \/ UNCHANGED vars
      PROVE  TakenByRequest(q, j)'
  <2>1. UNCHANGED <<pc, msg, target>>
    BY <1>5 DEF Provider, SignIn, StoreSession, EndSession, Tick, requests, vars
  <2>2. UNCHANGED accounts \/ \E i \in Ids : Expires(i)
    BY <1>5 DEF Provider, SignIn, StoreSession, EndSession, Tick, requests, vars,
                Expires
  <2>3. j \in Existing /\ accounts[j].email = msg[q].email
    <3>1. CASE UNCHANGED accounts
      BY <1>1, <2>1, <3>1 DEF Existing
    <3>2. ASSUME NEW i \in Ids, Expires(i)
          PROVE  j \in Existing /\ accounts[j].email = accounts'[j].email
      <4>1. Lifted(accounts[i]).email = accounts[i].email
        BY <3>2, AccountFacts DEF Expires, Lifted, Account
      <4> QED BY <3>2, <4>1 DEF Expires, TypeOK, Existing
    <3> QED BY <1>1, <2>1, <2>2, <3>1, <3>2
  <2> QED BY <1>1, <1>2, <2>1, <2>3
<1> QED BY <1>3, <1>4, <1>5 DEF Next

(* The strengthening holds in every reachable state. *)
THEOREM InductiveInvariant == Spec => []Inductive
PROOF
<1>1. Init => Inductive
  <2> SUFFICES ASSUME Init
               PROVE  Inductive
    OBVIOUS
  <2>1. TypeOK
    BY AccountsAssumption DEF Init, TypeOK, Labels, Codes, Existing
  <2>2. UniqueEmails
    BY AccountsAssumption DEF Init, UniqueEmails, Existing
  <2>3. \A q \in Requests : OnTrack(q)
    BY DEF Init, OnTrack
  <2>4. AddressesExplained
    BY DEF Init, AddressesExplained
  <2> QED BY <2>1, <2>2, <2>3, <2>4 DEF Inductive
<1>2. Inductive /\ [Next]_vars => Inductive'
  BY TypeStep, EmailStep, TrackStep, AddressStep DEF Inductive
<1> QED BY <1>1, <1>2, PTL DEF Spec

(* Every variable has its shape: of every request, account and session. *)
THEOREM TypeCorrect == Spec => []TypeOK
PROOF BY InductiveInvariant, PTL DEF Inductive

(* No interleaving of creations and updates gives one address to two       *)
(* accounts.                                                               *)
THEOREM EmailsAreUnique == Spec => []UniqueEmails
PROOF BY InductiveInvariant, PTL DEF Inductive

-----------------------------------------------------------------------------
(* The action properties. *)

(* A write of a request whose caller is still an active administrator      *)
(* leaves an active administrator: the caller, or the one it promotes.     *)
LEMMA AdministratorsStep ==
  ASSUME Inductive, [Next]_vars, ActiveAdmins # {}, ActiveAdmins' = {}
  PROVE  \E q \in Requests : WrittenBy(q) /\ msg[q].caller \notin ActiveAdmins
PROOF
<1> USE DEF Inductive
<1>1. ~ UNCHANGED accounts
  BY DEF ActiveAdmins, Existing
<1>2. ASSUME NEW q \in Requests, Creates(q)
      PROVE  ActiveAdmins \subseteq ActiveAdmins'
  BY <1>2, TableFacts DEF Creates, ActiveAdmins, Existing, TypeOK
<1>3. ASSUME NEW i \in Ids, Expires(i)
      PROVE  ActiveAdmins \subseteq ActiveAdmins'
  BY <1>3, TableFacts DEF Expires, ActiveAdmins, Existing, TypeOK
<1>4. ASSUME NEW q \in Requests, Changes(q), msg[q].caller \in ActiveAdmins
      PROVE  ActiveAdmins' # {}
  <2>1. PICK account \in Account :
          /\ Written(q, account)
          /\ accounts' = [accounts EXCEPT ![target[q]] = account]
    BY <1>4 DEF Changes
  <2>2. /\ target[q] \in Existing /\ accounts[target[q]] \in Account
        /\ pc[q] = "write" /\ OnTrack(q) /\ Existing \subseteq Existing'
    BY <1>4, AccountFacts, TableFacts DEF Changes, WrittenBy
  <2>3. CASE target[q] # msg[q].caller
    <3>1. accounts'[msg[q].caller] = accounts[msg[q].caller]
      BY <1>4, <2>1, <2>3 DEF ActiveAdmins, Existing, TypeOK
    <3> QED BY <1>4, <2>2, <3>1 DEF ActiveAdmins
  <2>4. CASE target[q] = msg[q].caller
    <3>1. accounts[target[q]].role = "admin" /\ ~accounts[target[q]].banned
      BY <1>4, <2>4 DEF ActiveAdmins
    <3>2. msg[q].op # "ban" /\ (msg[q].op = "role" => msg[q].role = "admin")
      BY <2>2, <2>4 DEF OnTrack, ActsOnSelf
    <3>3. account.role = "admin" /\ ~account.banned
      BY <2>1, <2>2, <3>1, <3>2 DEF Written, Lifted, Account, OnTrack
    <3>4. accounts'[target[q]] = account /\ target[q] \in Existing'
      BY <2>1, <2>2 DEF Existing, TypeOK
    <3> QED BY <3>3, <3>4 DEF ActiveAdmins
  <2> QED BY <2>3, <2>4
<1> QED BY <1>1, <1>2, <1>3, <1>4, TableStep DEF Changes

(* The last active administrator is only ever removed by a request whose   *)
(* caller has lost the role, or was banned, while it was under way.        *)
THEOREM AdministratorsKeepEachOther == Spec => AdministratorsRemain
PROOF
<1>1. Inductive /\ [Next]_vars
        => [ActiveAdmins # {} /\ ActiveAdmins' = {}
              => \E q \in Requests :
                   WrittenBy(q) /\ msg[q].caller \notin ActiveAdmins]_accounts
  BY AdministratorsStep
<1> QED BY <1>1, InductiveInvariant, PTL DEF Spec, AdministratorsRemain

(* The one statement whose raw error reaches a client. *)
LEMMA RawErrorStep ==
  ASSUME Inductive, [Next]_vars, NEW q \in Requests,
         reply[q] # "INTERNAL_ERROR", reply'[q] = "INTERNAL_ERROR"
  PROVE  \E j \in Existing \ {target[q]} :
           accounts[j].email = msg[q].email /\ TakenByRequest(q, j)
PROOF
<1> USE DEF Inductive
<1>1. ASSUME NEW o \in Requests, Request(o)
      PROVE  UpdateProfile(q) /\ EmailUsed(q) /\ msg[q].email # None
  <2>1. ASSUME NEW code, Answer(o, code)
        PROVE  o = q /\ code = "INTERNAL_ERROR"
    BY <2>1 DEF Answer, TypeOK
  <2>2. reply' # reply
    OBVIOUS
  <2>3. GuardError(msg[o].caller) \in {"UNAUTHORIZED", "FORBIDDEN", None}
    BY DEF GuardError
  <2>4. ~Guard(o)
    BY <2>1, <2>2, <2>3 DEF Guard, Continue
  <2>5. UpdateProfile(o)
    BY <1>1, <2>1, <2>2, <2>4
    DEF Request, Receive, Provision, Find, LookupEmail, Writes, UpdateRole, Ban,
        Unban, Update, RevokeSessions, Report, Crash, Continue
  <2>6. o = q /\ EmailUsed(o) /\ msg[o].email # None
    BY <2>1, <2>2, <2>5 DEF UpdateProfile, Update, Continue
  <2> QED BY <2>5, <2>6
<1>2. ASSUME (\E i \in Ids : Provider(i)) \/ Tick \/ UNCHANGED vars
      PROVE  FALSE
  BY <1>2 DEF Provider, SignIn, StoreSession, EndSession, Tick, requests, vars
<1>3. UpdateProfile(q) /\ EmailUsed(q) /\ msg[q].email # None
  BY <1>1, <1>2 DEF Next
<1> QED BY <1>3 DEF UpdateProfile, EmailUsed, AddressesExplained

(* A raw database error only reaches a client whose address another        *)
(* request took after the look-up.                                         *)
THEOREM RawErrorsAreExplained == Spec => RawErrorsExplained
PROOF
<1>1. Inductive /\ [Next]_vars
        => [\A q \in Requests :
              reply[q] # "INTERNAL_ERROR" /\ reply'[q] = "INTERNAL_ERROR"
              => \E j \in Existing \ {target[q]} :
                   accounts[j].email = msg[q].email /\ TakenByRequest(q, j)]_reply
  BY RawErrorStep
<1> QED BY <1>1, InductiveInvariant, PTL DEF Spec, RawErrorsExplained

(* Of all writes only an unban and a sign-in after the end lift a ban. *)
LEMMA BanStep ==
  ASSUME Inductive, [Next]_vars, NEW i \in Existing,
         accounts[i].banned, ~accounts'[i].banned
  PROVE  \/ accounts[i].expires # None /\ accounts[i].expires < now
         \/ \E q \in Requests :
              WrittenBy(q) /\ msg[q].op = "unban" /\ target[q] = i
PROOF
<1> USE DEF Inductive
<1>1. ~ UNCHANGED accounts
  OBVIOUS
<1>2. ~ \E q \in Requests : Creates(q)
  BY DEF Creates, Existing, TypeOK
<1>3. ASSUME NEW j \in Ids, Expires(j)
      PROVE  accounts[i].expires # None /\ accounts[i].expires < now
  BY <1>3 DEF Expires, Existing, TypeOK
<1>4. ASSUME NEW q \in Requests, Changes(q)
      PROVE  WrittenBy(q) /\ msg[q].op = "unban" /\ target[q] = i
  <2>1. PICK account \in Account :
          /\ Written(q, account)
          /\ accounts' = [accounts EXCEPT ![target[q]] = account]
    BY <1>4 DEF Changes
  <2>2. target[q] = i /\ accounts'[i] = account /\ accounts[i] \in Account
    BY <2>1, AccountFacts DEF Existing, TypeOK
  <2>3. msg[q].op = "unban"
    BY <2>1, <2>2 DEF Written, Account
  <2> QED BY <1>4, <2>2, <2>3 DEF Changes
<1> QED BY <1>1, <1>2, <1>3, <1>4, TableStep

(* No write that was under way undoes a ban. *)
THEOREM BansAreKept == Spec => BansLast
PROOF
<1>1. Inductive /\ [Next]_vars
        => [\A i \in Existing :
              accounts[i].banned /\ ~accounts'[i].banned
              => \/ accounts[i].expires # None /\ accounts[i].expires < now
                 \/ \E q \in Requests :
                      WrittenBy(q) /\ msg[q].op = "unban" /\ target[q] = i]_accounts
  BY BanStep
<1> QED BY <1>1, InductiveInvariant, PTL DEF Spec, BansLast

=============================================================================
