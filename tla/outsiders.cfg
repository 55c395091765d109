SPECIFICATION Spec
CONSTANTS
  None = None
  r1 = r1  r2 = r2
  u1 = u1  u2 = u2  admin = admin
  k1 = k1  k0 = k0  EmptyKey = k0
  i1 = i1  i2 = i2  i3 = i3  i4 = i4
  Slot = 2  MinLength = 2  MaxLength = 4  Skew = 1
  Requests = {q1, q2, q3}
  Ids = {i1, i2, i3}
  Users = {u1, u2}
  Admins = {}
  Resources = {r1, r2}
  Keys = {k1, k0}
  Parties = {}
  Limit <- LimitTwo
  Terms <- AnyTerms
  Blocks <- NoBlocks
  PoolSize = 3
  InitialTables <- OutsiderTables
  InitialCatalogue <- AllActive
  CatalogueChanges = FALSE
  OutsideRows <- OutsiderRows
  Crashes = TRUE
  MaxTime = 0
  Workload <- OutsiderWorkload
SYMMETRY Symmetry
INVARIANTS NoOverlap OneRowPerKey SameKeySameAnswer
PROPERTIES ImplementsTable OnlyOutsidersSurprise
