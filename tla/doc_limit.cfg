SPECIFICATION Spec
CONSTANTS
  None = None
  r1 = r1  r2 = r2
  u1 = u1  u2 = u2  admin = admin
  k1 = k1  k0 = k0  EmptyKey = k0
  i1 = i1  i2 = i2  i3 = i3  i4 = i4
  Slot = 2  MinLength = 2  MaxLength = 4  Skew = 1
  Requests = {q1, q2}
  Ids = {i1, i2, i3}
  Users = {u1, u2}
  Admins = {}
  Resources = {r1, r2}
  Keys = {}
  Parties = {}
  Limit <- LimitOne
  Terms <- AnyTerms
  Blocks <- NoBlocks
  PoolSize = 3
  InitialTables <- EmptyTables
  InitialCatalogue <- AllActive
  CatalogueChanges = FALSE
  OutsideRows <- NoRows
  Crashes = FALSE
  MaxTime = 0
  Workload <- TwoRooms
SYMMETRY Symmetry
INVARIANTS LimitRespected
