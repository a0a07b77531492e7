\* Two customers contend for two adjacent times of one resource; clock
\* readings are current.
SPECIFICATION Spec
CONSTANTS
  Customers = {c1, c2}
  Services = {wash}
  Resources = {1}
  OpenStarts = {3, 5}
  Opens <- MCOpens
  Duration <- MCDuration
  Buffer <- MCBuffer
  DayLength = 100
  MinimumNotice = 1
  BookingHorizon = 9
  HoldDuration = 1
  DraftDuration = 2
  ChangeCutoff = 2
  Drafts = {d1, d2}
  Holds = {h1, h2}
  Bookings = {b1, b2}
  Requests = {r1, r2}
  ExpiryLimit = 1
  MaxLag = 0
  MaxTime = 2
  Nil = Nil
SYMMETRY Symmetry
INVARIANTS TypeOK HoldsClearOfAppointments CleanupRespected
CHECK_DEADLOCK FALSE
