SPECIFICATION MaintainedFairSpec
CONSTANTS
  a = a
  w1 = w1
  w2 = w2
  h1 = h1
  h2 = h2
  r1 = r1
  r2 = r2
  latex = latex
  text = text
  Null = Null
  CollectionIds = {a}
  Writers = {latex, text}
  Hosts = {h1, h2}
  Workers = {w1}
  HostOf <- OneHost
  Requests = {r1}
  Params <- BookParams
  WriterNames <- MCWriterNames
  WriterAliases <- MCAliases
  Lockout = 0
  MaxQueue = 0
  QueueCap = 2
  RedisFaults = {}
  MaxTime = 0
  MaxCrashes = 0
  c1 = c1
  Collectors = {c1}
  Tasks <- AnyTask
  FailedJobLifetime = 0
  JobLifetime = 0
  HasHscan = FALSE
  MaxRuns = 1
  BatchSize = 1
  MaxClears = 1
INVARIANTS PhantomNeverRenders NoStallWhileMaintained
PROPERTIES ImplementsMaintainedBoard WorkersReturn JobsSettleOrGo
