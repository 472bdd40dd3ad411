SPECIFICATION FairSpec
CONSTANTS
    MaxPid = 3
    MaxSpace = 4
INVARIANTS LifecycleSound
PROPERTIES WaiterReturns Reclaimed
