SPECIFICATION Spec
CONSTANTS
    p1 = p1
    p2 = p2
    p3 = p3
    s1 = s1
    s2 = s2
    None = None
    Procs = {p1, p2, p3}
    Sessions = {s1, s2}
    MaxTime = 1
    MaxSuffix = 1
    MaxCalls = 4
    MaxKills = 1
    Lengths = {1, 4, 9}
    Extract = 3
    Stub = 2
    Notice = 2
    Budgets <- AllBudgets
    MaxDepth = 2
SYMMETRY Alike
INVARIANTS
    AppendsKept
    LinksAgree
    OneArtifactPerWindow
    HandoverIsFair
PROPERTY
    FinalizedFrozen
CHECK_DEADLOCK FALSE
