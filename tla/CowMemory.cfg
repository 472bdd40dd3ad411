SPECIFICATION MCSpec
CONSTANTS
    Space = {s1, s2}
    Page = {v1, v2}
    Frame = {f1, f2, f3}
    Value = {zero, one}
    Zero = zero
    Device = device
    NoFrame = none
    NoSpace = kernel
    MaxRef = 2
    HEAP_PAGES = 3
    STACK_PAGES = 2
    MAX_STACKS = 1
    Keys = {1, 2, 3}
    Values = {"u", "v"}
    Kinds = {"open", "chained", "static"}
    INITIAL_CAPACITY = 3
    CAPACITY = 2
    MAX_LOAD_FACTOR_PERCENT = 70
    MaxCapacity = 6
SYMMETRY Symmetry
INVARIANTS CountsExact Isolated TlbCoherent PagesSound MapsSound
PROPERTIES PrivateSpec MapContract
