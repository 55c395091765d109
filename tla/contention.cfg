SPECIFICATION Spec
CONSTANTS
  None = None
  r1 = r1  r2 = r2
  u1 = u1  u2 = u2  admin = admin
  k1 = k1  k0 = k0  EmptyKey = k0
  i1 = i1  i2 = i2  i3 = i3  i4 = i4
  Slot = 2  MinLength = 2  MaxLength = 4  Skew = 1
  Requests = {q1, q2, q3, q4}
  Ids = {i1, i2, i3, i4}
  Users = {u1, u2}
  Admins = {}
  Resources = {r1}
  Keys = {}
  Parties = {}
  Limit <- LimitOne
  Terms <- AnyTerms
  Blocks <- NoBlocks
  PoolSize = 4
  InitialTables <- ContentionTables
  InitialCatalogue <- AllActive
  CatalogueChanges = FALSE
  OutsideRows <- NoRows
  Crashes = TRUE
  MaxTime = 0
  Workload <- ContentionWorkload
SYMMETRY Symmetry
INVARIANTS RulesSuffice LimitRespected Inductive ConflictIsReal ExactlyOneWins
PROPERTIES CancelledIsFinal
