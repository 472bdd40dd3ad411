SPECIFICATION MCSpec
CONSTANTS
    PAGE_SIZE = 2
    user_top = 14
    WORD = 8
    STACK_TOP = 256
    ARGUMENT_LIMIT = 192
    Programs <- MCExecutables
    Arguments <- MCArguments
    MIN_ADDRESS = 1
    StackPages = 1
    Hints = {0, 3, 4}
    Lengths = {1, 2}
    Breaks = {6, 11}
    Protections = {"Write", "Exec"}
    DevicePages = 2
    FailPages = {4}
    Frames = 6
    LARGE = 2
    GROWTH = 2
    PAGE = 2
    HeapStart = 3
    HeapTop = 14
    MapTop = 22
    Marks = {1, 2}
    Tasks = {1, 2}
    PageWords = 3
    UserPages = 2
    Wrap = 8
    CHUNK = 2
    PATH_MAX = 3
    MAX_ARGUMENTS = 3
    MAX_ARGUMENT_BYTES = 4
    MAX_TRANSFER = 2
    NotText = {2}
    FileSize = 3
    Words = {0, 1, 2}
    PageStates = {"none", "ro", "rw", "cow"}
    Addresses = {2, 4, 7}
    Counts = {0, 1, 3}
    MaxSystemCalls = 2
    Names = {"dev", "proc", "a", "b", "null", "mounts"}
    Limit = 4
    MaxNode = 7
    MaxPathCalls = 3
    Parked = Parked
INVARIANTS MemorySound ImagesSound BlocksKept BoundaryHolds CallsExact NamesSound
