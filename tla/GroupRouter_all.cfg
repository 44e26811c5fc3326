SPECIFICATION FairSpec
CONSTANTS
    ann = ann
    bob = bob
    excel = excel
    claude = claude
    codex = codex
    tab1 = tab1
    tab2 = tab2
    tab3 = tab3
    Humans = {ann, bob}
    Clients = {excel}
    Claudes = {claude}
    Clis = {codex}
    Sockets = {tab1, tab2, tab3}
    NameOf <- TwoNames
    MaxObjects = 2
    MaxCalls = 5
    MaxFaults = 1
INVARIANTS
    ConversationAgrees
    ProcessesAccounted
PROPERTY
    CleanupCompletes
CHECK_DEADLOCK FALSE
