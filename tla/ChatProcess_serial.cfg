SPECIFICATION Spec
CONSTANTS
    s1 = s1
    s2 = s2
    s3 = s3
    w1 = w1
    k1 = k1
    Chats = {"a", "g"}
    GroupChats = {"g"}
    Senders = {s1, s2}
    Warmers = {w1}
    Killers = {}
    Reapers = {reaper}
    Closers = {}
    ChatOf <- ThreeChats
    MaxProcs = 3
    SerialSenders = TRUE
    PrimingInTime = TRUE
INVARIANT
    OwnAnswer
PROPERTY
    ReapSparesTurns
CHECK_DEADLOCK FALSE
