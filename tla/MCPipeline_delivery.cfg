\* Two consumers, crashes, rebalances, failing commits and exits.
SPECIFICATION PipelineSpec
CONSTANTS
    u1 = u1  c1 = c1  c2 = c2  p1 = p1  p2 = p2  doc = doc
    User <- MCUser
    File <- MCFile
    Chunks <- OneEach
    Visibility = {"own"}
    MaxId = 1
    Consumer <- TwoConsumers
    Partition <- OnePartition
    MaxTasks = 2
    MaxAttempts = 2
    EmbedConcurrency = 1
    TextChunks <- OneEach
    Images <- NoneEach
    MaxGeneration = 2
    Faulty = {"Parser", "StatusWrite", "Commit", "Group", "Process", "Fetch"}
CHECK_DEADLOCK FALSE
INVARIANTS
    InOrder
PROPERTY
    ImplementsQueue
