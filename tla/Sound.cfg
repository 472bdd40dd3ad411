CONSTANTS
    PERIODS = 3
    PERIOD_BYTES = 2
    START_PERIODS = 2
    STALL_MS = 1
    Kinds = {"AC97", "HDA"}
    Procs = {"a", "b"}
    Writers = {"a"}
    Tuners = {"a"}
    Rates = {1, 2}
    DEFAULT = 1
    MaxWrite = 3
    NoProc = "none"
SPECIFICATION Spec
INVARIANTS SoundPlays
PROPERTIES PlaybackKept CallsReturn
