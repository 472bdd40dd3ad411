\* Two descriptions of one file.
CONSTANTS
    Task = {t1, t2}
    File = {f1}
    Desc = {d1, d2}
    NoTask = NoTask
    NoFile = NoFile
    MaxFds = 1
    Limit = 2
    MaxOffset = 0
SPECIFICATION Spec
PROPERTY AppendsAtEnd
