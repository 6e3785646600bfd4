\* One user deletes a file while another uploads it; no faults.
SPECIFICATION IngestionSpec
CONSTANTS
    u1 = u1  u2 = u2  w1 = w1  w2 = w2  c1 = c1  p1 = p1  d1 = d1  doc = doc
    User <- TwoUsers
    File <- DocOnly
    Chunks <- OneEach
    Visibility = {"own"}
    Partition = {p1}
    MaxId = 2
    MaxTasks = 2
    Faulty = {}
    Worker <- OneWorker
    Name = {"pdf", "exe"}
    Supported = {"pdf"}
    CanCrash = FALSE
    Consumer <- MCConsumer
    MaxAttempts = 2
    EmbedConcurrency = 4
    TextChunks <- OneEach
    Images <- NoneEach
    MaxGeneration = 0
    Deleter <- OneDeleter
CHECK_DEADLOCK FALSE
INVARIANT
    CompletedObjectKept
