\* Days of eight ticks, weeks of two days, around a clock change.
SPECIFICATION Spec
CONSTANTS
  DayLength = 8
  WeekLength = 2
  Horizon = 2
  Companies <- MCCompanies
  Resources = {1, 2}
  Diaries <- MCDiaries
  Instants <- MCInstants
  Dates = {0, 1, 2}
  ServiceTimes = {0, 1, 3, 6}
  SlotInterval = 2
  Duration = 1
  CleanupBuffer = 1
  MinimumNotice = 1
  BookingHorizon = 9
INVARIANTS NextOpeningIsFirst DeadlineCountsOpenTime OfferMatchesTheDiary
\* A question is asked once.
CHECK_DEADLOCK FALSE
