SPECIFICATION FairSpec
CONSTANTS
    s1 = s1
    s2 = s2
    s3 = s3
    w1 = w1
    k1 = k1
    Chats = {"a", "g"}
    GroupChats = {"g"}
    Senders = {s1}
    Warmers = {w1}
    Killers = {k1}
    Reapers = {}
    Closers = {closer}
    ChatOf <- ThreeChats
    MaxProcs = 2
    SerialSenders = FALSE
    PrimingInTime = FALSE
INVARIANT
    NoStrayProcess
PROPERTIES
    CallsReturn
    BusyClears
CHECK_DEADLOCK FALSE
