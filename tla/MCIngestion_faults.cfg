\* Calls fail and both processes crash; one user uploads, deletes and uploads
\* again while the first task may still wait.
SPECIFICATION FairIngestionSpec
CONSTANTS
    u1 = u1  u2 = u2  w1 = w1  w2 = w2  c1 = c1  p1 = p1  d1 = d1  doc = doc
    User <- OneUser
    File <- DocOnly
    Chunks <- OneEach
    Visibility = {"own"}
    Partition = {p1}
    MaxId = 2
    MaxTasks = 1
    Faulty = {"Redis", "Produce", "Cleanup", "CleanVectors", "Embed", "Process", "DeleteRecord", "CountReferences", "Removal"}
    Worker <- OneWorker
    Name = {"pdf", "exe"}
    Supported = {"pdf"}
    CanCrash = TRUE
    Consumer <- MCConsumer
    MaxAttempts = 1
    EmbedConcurrency = 4
    TextChunks <- OneEach
    Images <- NoneEach
    MaxGeneration = 1
    Deleter <- OneDeleter
CHECK_DEADLOCK FALSE
INVARIANT
    SearchableUploaded
PROPERTY
    TaskAnswered
