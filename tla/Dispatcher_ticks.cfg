SPECIFICATION Ticks
CONSTANTS
  t1 = t1
  t2 = t2
  t3 = t3
  t4 = t4
  w1 = w1
  w2 = w2
  w3 = w3
  p1 = p1
  p2 = p2
  e1 = e1
  e2 = e2
  i1 = i1
  i2 = i2
  k1 = k1
  m1 = m1
  m2 = m2
  Tasks = {t1, t2, t3, t4}
  ProjectOf <- Project
  Containers = {}
  Deps <- Chain
  Rank <- Order
  Deferred = {t2}
  Hibernating = {t4}
  Groomed = {t1, t2, t3}
  PlanFirst = {t1, t2}
  CrabEmitted = {t1}
  Failing = {t3}
  Workflows = {w1, w2, w3}
  NoTask = NoTask
  MaxTotal = 2
  MaxPerTick = 2
  MaxPerProject = 1
  GroomingOff = TRUE
  FaultSets <- Circumstances
  Execs = {e1, e2}
  WfIDs = {i1, i2}
  WfOf <- TwoIDs
  Containing <- Distinct
  Causes = {k1}
  Children = {m1, m2}
  QueryCap = 2
  MaxPostMortems = 1
  RecentFor = 3
  MarkerFor = 3
  MaxTime = 3
  Worlds <- AllWorlds
CHECK_DEADLOCK FALSE
INVARIANTS InvestigatedOnce FailuresInvestigated
PROPERTIES OneOrganismPerTask LimitsRespected EveryTaskIsDone
