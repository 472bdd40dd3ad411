SPECIFICATION MCSpec
CONSTANTS
    KEY_BUFFER_CAPACITY = 2
    LINE_MAX = 4
    Readers = {"A", "B"}
    Keys <- MCKeys
    Serial <- MCSerial
    Buffers = {1, 4}
    MaxTyped = 3
    MaxPid = 4
    MaxCommands = 3
    MaxLine = 5
    Requested = {"/sbin/init", "/bin/sh"}
INVARIANTS ConsoleSound ShellsSound 
PROPERTIES ConsoleServes ShellReturns
