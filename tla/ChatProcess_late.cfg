SPECIFICATION Spec
CONSTANTS
    s1 = s1
    s2 = s2
    s3 = s3
    w1 = w1
    k1 = k1
    Chats = {"a", "b"}
    GroupChats = {}
    Senders = {s1, s2, s3}
    Warmers = {}
    Killers = {}
    Reapers = {reaper}
    Closers = {}
    ChatOf <- ThreeChats
    MaxProcs = 2
    SerialSenders = TRUE
    PrimingInTime = FALSE
INVARIANT
    NoCrossTalk
PROPERTY
    AnswersLagByOne
SYMMETRY
    AlikeClients
CHECK_DEADLOCK FALSE
