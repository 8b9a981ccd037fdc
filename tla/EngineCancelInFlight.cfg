\* A client that leaves while the executor is awaited.
CONSTANTS
    Requests = {r1, r2}
    NumBlocks = 4
    BlockSize = 2
    BatchSizes = {1}
    SequenceBuckets = {3, 16}
    Shapes <- UntimedShapes
    MaxBatch = 2
    PrefillChunk = 2
    MaxPrefillTokens = 3
    DecodePrefillChunk = 1
    ExecutorSuspends = TRUE
SPECIFICATION Spec
INVARIANT FailureHasACause
\* The loop really stops after close().
CHECK_DEADLOCK FALSE
