SPECIFICATION RetrievalFairSpec
CONSTANTS
  Ids = {"a1"}
  Nested = FALSE
  JobLifetime = 0
  JobFileLifetime = 3
  TempFileLifetime = 2
  MaxRunTime = 1
  MaxJobTime = 1
  MaxTime = 5
  Clients = {"c1"}
INVARIANTS RetrievalTypeOK NamedFilesExist
PROPERTIES CollectsOnlyUnused OldFilesGo DownloadsFailOnlyWithStatus ClientsAnswered
