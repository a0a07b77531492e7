\* Two tenants in one batch; a record of each.
SPECIFICATION FairSpec
CONSTANTS
  Tenants = {1, 2}
  Records = {r1}
  Periods = {0, 1}
  InitialPeriod = 0
  Workers = {w1}
  BatchSize = 2
  MaxDay = 1
  MaxVersion = 2
PROPERTIES PeriodInForce RecordsExpire
