\* Two requests and a batch of one, so that one waits while the other runs.
CONSTANTS
    Requests = {r1, r2}
    NumBlocks = 4
    BlockSize = 2
    BatchSizes = {1}
    SequenceBuckets = {3, 16}
    Shapes <- TwoShapes
    MaxBatch = 1
    PrefillChunk = 2
    MaxPrefillTokens = 3
    DecodePrefillChunk = 1
    ExecutorSuspends = TRUE
SPECIFICATION FairSpec
PROPERTY EngineUsesScheduler
PROPERTY ImplementsStream
PROPERTY CloseDrains
\* The loop really stops after close().
CHECK_DEADLOCK FALSE
