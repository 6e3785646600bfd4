\* Two users, no faults and no crash: is a reported chunk really stored?
SPECIFICATION UploadSpec
CONSTANTS
    u1 = u1  u2 = u2  w1 = w1  w2 = w2  p1 = p1  doc = doc
    User <- TwoUsers
    File <- DocOnly
    Chunks <- TwoChunks
    Visibility = {"own"}
    Partition = {p1}
    MaxId = 2
    MaxTasks = 2
    Faulty = {}
    Worker <- MCWorker
    Name = {"pdf", "exe"}
    Supported = {"pdf"}
    CanCrash = FALSE
INVARIANTS
    ReportedChunkStored
