SPECIFICATION FairSpec
CONSTANTS
  Threads = {"backend", "gc", "frontend"}
  Kind <- MCKind
  MaxErrors = 2
INVARIANTS TypeOK WorksOnce NeverDeaf NoLostWait
PROPERTIES StrandedWorkerReturns DrainingEnds
