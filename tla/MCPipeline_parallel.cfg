\* Two tasks of one file in two partitions, no faults.
SPECIFICATION PipelineSpec
CONSTANTS
    u1 = u1  c1 = c1  c2 = c2  p1 = p1  p2 = p2  doc = doc
    User <- MCUser
    File <- MCFile
    Chunks <- OneEach
    Visibility = {"own", "public"}
    MaxId = 1
    Consumer <- TwoConsumers
    Partition <- TwoPartitions
    MaxTasks = 1
    MaxAttempts = 2
    EmbedConcurrency = 1
    TextChunks <- OneEach
    Images <- NoneEach
    MaxGeneration = 0
    Faulty = {}
CHECK_DEADLOCK FALSE
INVARIANT
    NoDuplicateChunks

