SPECIFICATION EmbeddingSpec
CONSTANTS
    Documents <- MCDocuments
    Configs <- MCConfigs
    LongText = 8
    LongestMaximum = 5
    BatchSize = 3
    MaxConcurrency = 2
    MaxText = 4
    MaxFailures = 2
INVARIANTS WithinMaximum NoTextLost RecordsAligned
PROPERTIES CursorAdvances ContentSettles
CHECK_DEADLOCK FALSE
