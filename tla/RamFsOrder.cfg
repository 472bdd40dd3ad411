CONSTANTS
    Task = {t1, t2}
    Name = {n1, n2}
    NoTask = NoTask
    MaxIno = 4
SPECIFICATION Spec
INVARIANT LockOrder
CHECK_DEADLOCK FALSE
