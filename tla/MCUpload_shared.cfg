\* Two users upload a document of two chunks, under a name of a supported or
\* of an unsupported type; MySQL calls fail and the server may crash.
SPECIFICATION UploadSpec
CONSTANTS
    u1 = u1  u2 = u2  w1 = w1  w2 = w2  p1 = p1  doc = doc
    User <- TwoUsers
    File <- DocOnly
    Chunks <- TwoChunks
    Visibility = {"own"}
    Partition = {p1}
    MaxId = 2
    MaxTasks = 2
    Faulty = {"MySQL"}
    Worker <- MCWorker
    Name = {"pdf", "exe"}
    Supported = {"pdf"}
    CanCrash = TRUE
SYMMETRY WorkerSymmetry
INVARIANTS
    UploadTypeOK
    UploadInv
    MarkedRecorded
    CompletedRecorded
    CompletedChecked
    CompletedStored
    CleanupAfterQueued
    TaskAfterMerge
