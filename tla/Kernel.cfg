CONSTANTS
    None = None
    \* Frames
    frame_count = 8
    MAX_ORDER = 2
    DMA32_FRAMES = 4
    MAX_HOLD_RANGES = 2
    Usable = {0, 1, 2, 3, 4, 5, 6, 7}
    MetadataFrames = {}
    RefcountPages = 3
    StaleNodes = {}
    MaxHolds = 1
    MaxHeld = 2
    MaxRef = 2
    HoldRanges <- MCHoldRanges
    ReserveRanges <- MCReserveRanges
    Bounds <- MCBounds
    \* KernelHeap: three pages of four units, classes of one, two and four
    HEAP_UNITS = 12
    PAGE_UNITS = 4
    SMALL_REFILL_BLOCKS = 4
    MaxLive = 3
    \* KernelPaging: two pages to a large page, four to a gigabyte page
    MIB = 2
    GIB = 4
    PAGES = 8
    TableFrames = 17
    RemapFlags = {"UC"}
    MaxRemaps = 2
    KernelPages = {2, 6, 7}
    UserPages = {0, 1, 2, 4}
    \* HdaLink
    RING_ENTRIES = 4
    MaxCommands = 6
    MaxUnsolicited = 2
    \* Interrupts
    MAX_IOAPICS = 2
    MAX_OVERRIDES = 2
    Devices = {"d", "e"}
    COUNT = 1
    MaxCalls = 4
    \* Pci
    DEVICES = 2
    FUNCTIONS = 2
    BITS = 8
    PORT_BITS = 5
    CAPABILITIES = 3
    \* Clock
    LastYear = 2101
    Radix = 3
    Second = 3
    Tasks = {1, 2}
    MaxTime = 9
    \* Screen
    CAPACITY = 4
    COLS = 3
    ROWS = 2
    Printers = {"T", "S"}
    Shell = "S"
    Viewers = {"p", "q"}
    Kinds = {"Gop", "Bochs"}
    MaxPrints = 3
SPECIFICATION MCSpec
INVARIANTS
    FramesSound FramesServe HeapSound TablesSound InterruptsSound PciSound ClockSound CodecSound
    AnswersMatch ScreenSound
