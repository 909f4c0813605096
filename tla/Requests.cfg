SPECIFICATION FairSpec
CONSTANTS
  a = a
  w1 = w1
  w2 = w2
  h1 = h1
  h2 = h2
  r1 = r1
  r2 = r2
  latex = latex
  text = text
  Null = Null
  CollectionIds = {a}
  Writers = {latex, text}
  Hosts = {h1, h2}
  Workers = {w1}
  HostOf <- OneHost
  Requests = {r1, r2}
  Params <- AllParams
  WriterNames <- MCWriterNames
  WriterAliases <- MCAliases
  Lockout = 0
  MaxQueue = 1
  QueueCap = 3
  RedisFaults = {"HGET", "LLEN", "EXEC"}
  MaxTime = 0
  MaxCrashes = 0
INVARIANT AdmissionBound
PROPERTY RequestsAnswered
