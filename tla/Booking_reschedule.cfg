\* One customer books, moves and cancels around the cutoff; abandoned holds
\* are freed by the expiry job.
SPECIFICATION FairSpec
CONSTANTS
  Customers = {c1}
  Services = {wash}
  Resources = {1}
  OpenStarts = {3, 6}
  Opens <- MCOpens
  Duration <- MCDuration
  Buffer <- MCBuffer
  DayLength = 100
  MinimumNotice = 1
  BookingHorizon = 9
  HoldDuration = 2
  DraftDuration = 2
  ChangeCutoff = 2
  Drafts = {d1, d2}
  Holds = {h1, h2}
  Bookings = {b1}
  Requests = {r1}
  ExpiryLimit = 1
  MaxLag = 1
  MaxTime = 3
  Nil = Nil
INVARIANTS HistoryAndEvents
PROPERTIES HoldsEnd
CHECK_DEADLOCK FALSE
