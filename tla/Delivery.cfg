\* Two runs of the delivery task and two subscribers of one event.
SPECIFICATION FairSpec
CONSTANTS
  Events = {e1}
  EventType <- MCEventType
  Types = {confirmed, queued}
  Subscriptions = {s1, s2}
  Workers = {w1, w2}
  BatchSize = 2
  MaxAttempts = 2
  MaxMishaps = 1
  Idle = Idle
INVARIANTS TypeOK RepetitionsBounded
PROPERTIES EventsReachSubscribers ImplementsDeliveryContract
