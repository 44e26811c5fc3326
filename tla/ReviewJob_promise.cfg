SPECIFICATION CalmSpec
CONSTANTS
    claude = claude
    codex = codex
    gemini = gemini
    Reviews = {claude, codex, gemini}
    MaxConcurrent = 2
    Faults = FALSE
    Interrupts = FALSE
INVARIANT
    GatheredMeansComplete
PROPERTY
    KeepsPromise
CHECK_DEADLOCK FALSE
