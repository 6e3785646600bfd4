\* Two consumers process a document twice; calls fail, a consumer may exit
\* and one process may crash.
SPECIFICATION FairPipelineSpec
CONSTANTS
    u1 = u1  c1 = c1  c2 = c2  p1 = p1  p2 = p2  doc = doc
    User <- MCUser
    File <- MCFile
    Chunks <- OneEach
    Visibility = {"own", "public"}
    MaxId = 1
    Consumer <- TwoConsumers
    Partition <- OnePartition
    MaxTasks = 2
    MaxAttempts = 2
    EmbedConcurrency = 2
    TextChunks <- TwoEach
    Images <- OneEach
    MaxGeneration = 1
    Faulty = {"MinIO", "Parser", "Vision", "MySQL", "Embed", "Commit", "Process", "Fetch"}
CHECK_DEADLOCK FALSE
INVARIANTS
    FinishedStatus
    SuccessIndexed
    NoDuplicateChunks
PROPERTY
    TasksSettle
