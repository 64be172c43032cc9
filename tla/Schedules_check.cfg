SPECIFICATION FairSpec
CONSTANTS
  i = i
  q = q
  ti1 = ti1
  ti2 = ti2
  ti3 = ti3
  tq1 = tq1
  ri1 = ri1
  ri2 = ri2
  rq1 = rq1
  rq2 = rq2
  ci = ci
  ui1 = ui1
  ui2 = ui2
  cq = cq
  Schedules = {i}
  Ticks = {ti1, ti2}
  Runs = {ri1, ri2}
  Creates = {ci}
  Changes = {ui1}
  None = None
  Of <- OfThese
  Order <- OrderOfThese
  Budgets = {2}
  MaxFails = 1
  MaxCrashes = 1
INVARIANTS
  RunsAreCounted
  ScheduleIsAlive
PROPERTIES
  KeepsTicking
CHECK_DEADLOCK FALSE
