SPECIFICATION Spec
CONSTANTS
  Ids = {"a1"}
  Nested = TRUE
  JobLifetime = 1
  JobFileLifetime = 4
  TempFileLifetime = 2
  MaxRunTime = 1
  MaxJobTime = 1
  MaxTime = 6
PROPERTY ArtifactLives
