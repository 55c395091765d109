SPECIFICATION Spec
CONSTANTS
  None = None
  Null = Null
  UTC = UTC  Madrid = Madrid
  EmptyZone = EmptyZone  WrongZone = WrongZone
  i1 = i1  i2 = i2
  t1 = t1  t2 = t2
  room = room  car = car
  Requests = {q1, q2, q3}
  Ids = {i1, i2}
  TypeIds = {t1, t2}
  Codes = {room, car}
  Shipped = {car}
  KnownZones = {UTC, Madrid}
  Crashes = TRUE
  Workload <- MCWorkload
  Start <- MCStart
SYMMETRY Symmetry
INVARIANTS CodesUnique TypesExist Inductive ZonesKnown OneCreationPerCode RawErrorsExplained
PROPERTIES ImplementsSteps
