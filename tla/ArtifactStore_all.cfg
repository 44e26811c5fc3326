SPECIFICATION FairSpec
CONSTANTS
    plain = plain
    secret = secret
    Artifacts = {plain, secret}
    Sensitive = {secret}
    Contents = {"one", "two"}
    NoContent = NoContent
    MaxRetries = 2
    BatchSize = 1
    MaxVersion = 2
    MaxOpen = 2
    MaxFaults = 1
INVARIANTS
    ChainIsContent
    StaleNeedsOvertaking
PROPERTY
    EmbeddingSettles
CHECK_DEADLOCK FALSE
