SPECIFICATION Spec
CONSTANTS
  None = None
  Slot = 2
  MinLength = 2
  MaxLength = 6
  DayLength = 8
  WeekLength = 2
  Queries <- UntilNoon
  Zones <- OneYear
  Schedules <- MorningsOnly
  Closures <- NoClosures
  Bookings <- NoBookings
  MaxRange = 32
INVARIANT EveryDayWalked
