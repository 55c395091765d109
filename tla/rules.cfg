SPECIFICATION Spec
CONSTANTS
  None = None
  r1 = r1  r2 = r2
  u1 = u1  u2 = u2  admin = admin
  k1 = k1  k0 = k0  EmptyKey = k0
  i1 = i1  i2 = i2  i3 = i3  i4 = i4
  Slot = 2  MinLength = 2  MaxLength = 4  Skew = 1
  Requests = {q1, q2}
  Ids = {i1, i2, i3}
  Users = {u1, u2, admin}
  Admins = {admin}
  Resources = {r1}
  Keys = {}
  Parties = {1, 2, 3}
  Limit <- LimitTwo
  Terms <- BigOrLong
  Blocks <- BlockedAtFour
  PoolSize = 3
  InitialTables <- RulesTables
  InitialCatalogue <- FirstOpening
  CatalogueChanges = TRUE
  OutsideRows <- NoRows
  Crashes = FALSE
  MaxTime = 4
  Workload <- RulesWorkload
SYMMETRY Symmetry
INVARIANTS RowsAdmissible
PROPERTIES OwnersOnly
