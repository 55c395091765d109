SPECIFICATION Spec
CONSTANTS
  None = None
  Slot = 2
  MinLength = 2
  MaxLength = 6
  DayLength = 8
  WeekLength = 2
  Queries <- MCQueries
  Zones <- MCZones
  Schedules <- MCSchedules
  Closures <- MCClosures
  Bookings <- MCBookings
  MaxRange = 32
INVARIANT GapsExact
INVARIANT WindowsComplete
INVARIANT SlotsKeepHours
INVARIANT NothingWithheld
INVARIANT StandingNotOffered
INVARIANT Inductive
