SPECIFICATION FairSpec
CONSTANTS
  Types = {"gc", "frontend", "backend"}
  Count <- MCCount
  Pause = 2
CHECK_DEADLOCK FALSE
PROPERTY ShutdownCompletes
