SPECIFICATION ConversationSpec
CONSTANTS
    User = {u1, u2}
    u1 = u1  u2 = u2
    c1 = c1  c2 = c2
    r1 = r1
    Connection = {c1, c2}
    UserOf <- MCUserOf
    Request = {r1}
    Keep = 2
    MaxChunks = 2
    MaxAsk = 2
    Faulty = {}
    CanCrash = FALSE
PROPERTY StopStops
CHECK_DEADLOCK FALSE
