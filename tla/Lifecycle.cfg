SPECIFICATION FairSpec
CONSTANTS
  a = a
  w1 = w1
  w2 = w2
  h1 = h1
  h2 = h2
  r1 = r1
  r2 = r2
  latex = latex
  text = text
  Null = Null
  CollectionIds = {a}
  Writers = {latex, text}
  Hosts = {h1, h2}
  Workers = {w1, w2}
  HostOf <- OneHost
  Requests = {r1}
  Params <- ForcedParams
  WriterNames <- MCWriterNames
  WriterAliases <- MCAliases
  Lockout = 1
  MaxQueue = 0
  QueueCap = 2
  RedisFaults = {"EXEC", "HSET"}
  MaxTime = 1
  MaxCrashes = 1
INVARIANTS TypeOK PickupHasStatus NoSilentStall DownloadServable NoScratchLeak
PROPERTIES ImplementsBoard JobsSettle
