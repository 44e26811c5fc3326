SPECIFICATION DatabaseSpec
CONSTANTS
    claude = claude
    codex = codex
    gemini = gemini
    q1 = q1
    q2 = q2
    c1 = c1
    c2 = c2
    d1 = d1
    d2 = d2
    Reviews = {claude, codex, gemini}
    MaxConcurrent = 2
    Faults = TRUE
    Interrupts = TRUE
    Tasks = {q1, q2}
    Contents = {c1, c2}
    NoFile = NoFile
    MaxId = 3
    MaxRequests = 3
    MaxFailures = 1
    Connectors = {"files"}
    Texts = {d1, d2}
    Paths = {1, 2}
    Below = {1}
    MaxTries = 1
    MaxTools = 3
    MaxEdits = 1
    MaxFaults = 1
    Files = {1, 2, 3}
    MaxStarts = 3
    MaxBreaks = 1
    First = 14
    MaxCalls = 2
    MaxOutages = 1
    LogEntries = {1, 2, 3}
    Bytes <- OneOrTwo
    Counts = {2}
    Chunk = 2
    MaxSize = 2
    MaxSeconds = 1
    MaxShort = 1
SYMMETRY Alike
INVARIANTS
    NoEarlySynthesis
    ScoreIsOfVotes
    CopyIsWhole
    ActiveIsLoaded
    IndexIsDirectory
    SchemaIsWhole
    CarriedOutOnce
    MarkersTakeEffect
    EntriesKept
    TailIsLast
CHECK_DEADLOCK FALSE
