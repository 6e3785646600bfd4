SPECIFICATION FairConversationSpec
CONSTANTS
    User = {u1, u2}
    u1 = u1  u2 = u2
    c1 = c1  c2 = c2
    r1 = r1
    Connection = {c1, c2}
    UserOf <- MCUserOf
    Request = {r1}
    Keep = 2
    MaxChunks = 1
    MaxAsk = 2
    Faulty = {"Retrieve", "Exists", "Create", "Stream", "Save", "Archive", "Delete"}
    CanCrash = TRUE
INVARIANTS HistoryPaired OneCompletion SavedCompleted NoLateCut
PROPERTY QuestionsEnd
CHECK_DEADLOCK FALSE
