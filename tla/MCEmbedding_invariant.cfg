SPECIFICATION EmbeddingSpec
CONSTANTS
    Documents <- MCDocuments
    Configs <- MCConfigs
    LongText = 8
    LongestMaximum = 5
    BatchSize = 3
    MaxConcurrency = 2
    MaxText = 4
    MaxFailures = 2
INVARIANTS TypeOK ChunksAdvance RejectedOnlyOversized EmbeddingInv
CHECK_DEADLOCK FALSE
