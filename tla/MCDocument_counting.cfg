\* Three concurrent deletions of two files by two users.
SPECIFICATION DocumentSpec
CONSTANTS
    u1 = u1  u2 = u2  d1 = d1  d2 = d2  d3 = d3  p1 = p1  f1 = f1  f2 = f2
    User <- MCUser
    File <- TwoFiles
    Chunks <- MCChunks
    Visibility = {"own"}
    Partition = {p1}
    MaxId = 4
    MaxTasks = 0
    Faulty = {"DeleteRecord"}
    Deleter <- MCDeleter
SYMMETRY DeleterSymmetry
CHECK_DEADLOCK FALSE
INVARIANTS
    ReferencedKept
    UnreferencedRemoved
