SPECIFICATION FairBus
CONSTANTS
    ann = ann
    excel = excel
    claude = claude
    codex = codex
    Everybody = Everybody
    Recipients = {Everybody, claude}
    Humans = {ann}
    Clients = {}
    Claudes = {claude}
    Clis = {codex}
    MaxLog = 2
    MaxBoxes = 3
    MaxTroubles = 1
INVARIANT
    EachGetsItsOwn
PROPERTIES
    AcceptedIsDispatched
    QueuesAreWorked
CHECK_DEADLOCK FALSE
