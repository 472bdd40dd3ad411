SPECIFICATION Spec
CONSTANTS
    MaxTaskId = 3
    MaxTime = 1
    MaxTicks = 2
    MaxRenice = 1
    Weights = {1, 2}
    NICE_0_WEIGHT = 2
    BASE_SLICE = 1
    WaitQueues = {q1, q2}
    Policy = "Eevdf"
INVARIANTS QueuesConsistent AccountsExact
PROPERTIES TicksKept LagKept
