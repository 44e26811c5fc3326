SPECIFICATION FairSpec
CONSTANTS
    r1 = r1
    r2 = r2
    Requests = {r1, r2}
    Conversation <- OneConversation
    Priming = "prime"
    TTL = 1
    Horizon = 3
INVARIANT
    LostOnlyLate
PROPERTY
    Settles
CHECK_DEADLOCK FALSE
