\* Directories: two tasks, a root and three more inodes, two names.  Open files: two files share a
\* limit of two bytes.  The models run apart, so names and descriptions can be the same model
\* values, and one set of permutations serves both.
CONSTANTS
    Task = {t1, t2}
    NoTask = NoTask
    Name = {n1, n2}
    MaxIno = 4
    File = {f1, f2}
    Desc = {n1, n2}
    NoFile = NoFile
    MaxFds = 1
    Limit = 2
    MaxOffset = 2
SPECIFICATION MCSpec
SYMMETRY Symmetry
INVARIANTS DirectoriesSound OpenFilesSound
