SPECIFICATION Spec
CONSTANTS
  None = None
  Slot = 15
  MinLength = 15
  MaxLength = 480
  DayLength = 1440
  WeekLength = 7
  Loaders = {p1, p2}
  Users <- USERS
  Resources <- MCResources
  Reservations <- RESERVATIONS
  ZoneNamed <- MCZoneNamed
  Types <- MCTypes
  Installed <- MCInstalled
  SignUps <- MCSignUps
  Outside <- MCOutside
  Cancellable <- MCCancellable
  Switched <- MCSwitched
  Instants <- MCInstants
  Crashes = TRUE
SYMMETRY Symmetry
INVARIANTS CompleteUnlessBrokenOff FailuresExplained OnTheHour Inductive
PROPERTIES OnlyAdds TwiceIsOnce ImplementsSteps
