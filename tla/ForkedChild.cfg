SPECIFICATION ChildFairSpec
CONSTANT Limit = 2
CHECK_DEADLOCK FALSE
INVARIANTS ChildTypeOK TimeoutIsOurs
PROPERTIES NoStraySignal ConnectedChildSettles
