----------------------------- MODULE MCAccounts -----------------------------
(***************************************************************************)
(* A small instance of Accounts for TLC: two administrators, one of them   *)
(* perhaps banned for a day at the start, a user and a free identity.      *)
(***************************************************************************)
EXTENDS Accounts, TLC

CONSTANTS anna, bert, carl, dora, ea, eb, ec, ed

Asked(op, caller, id, email, role, days) ==
  [op |-> op, caller |-> caller, id |-> id, email |-> email, role |-> role,
   days |-> days]

Person(email, role) ==
  [email |-> email, role |-> role, banned |-> FALSE, expires |-> None]

TwoAdmins ==
  (anna :> Person(ea, "admin")) @@ (bert :> Person(eb, "admin"))
    @@ (carl :> Person(ec, "user")) @@ (dora :> None)

CreateUser(c, email, role) == Asked("create", c, None, email, role, None)
ChangeEmail(c, i, email) == Asked("update", c, i, email, None, None)
ChangeName(c, i) == Asked("update", c, i, None, None, None)
ChangeRole(c, i, role) == Asked("role", c, i, None, role, None)
BanFor(c, i, days) == Asked("ban", c, i, None, None, days)
LiftBan(c, i) == Asked("unban", c, i, None, None, None)

(* Every route, by and against administrators and others. *)
EveryRoute ==
  {CreateUser(anna, ed, "admin"), CreateUser(bert, ed, None),
   ChangeEmail(anna, carl, ed), ChangeEmail(bert, carl, ea), ChangeName(bert, anna),
   ChangeRole(anna, bert, "user"), ChangeRole(bert, anna, "user"),
   ChangeRole(bert, bert, "user"), ChangeRole(anna, carl, "admin"),
   BanFor(anna, anna, None), BanFor(bert, anna, 1), BanFor(anna, carl, None),
   LiftBan(anna, carl), LiftBan(bert, dora), LiftBan(carl, anna)}

(* The two administrators turn against each other. *)
Quarrel ==
  {ChangeRole(anna, bert, "user"), ChangeRole(bert, anna, "user"),
   BanFor(anna, bert, None)}

Symmetry == Permutations(Requests)

=============================================================================
