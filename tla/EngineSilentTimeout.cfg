\* A deadline that passes between the two expire() calls of one step.
CONSTANTS
    Requests = {r1, r2}
    NumBlocks = 4
    BlockSize = 2
    BatchSizes = {1}
    SequenceBuckets = {3, 16}
    Shapes <- TwoShapes
    MaxBatch = 2
    PrefillChunk = 2
    MaxPrefillTokens = 3
    DecodePrefillChunk = 1
    ExecutorSuspends = FALSE
SPECIFICATION Spec
INVARIANT EveryEndIsTold
\* The loop really stops after close().
CHECK_DEADLOCK FALSE
