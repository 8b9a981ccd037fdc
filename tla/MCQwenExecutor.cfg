\* Two of three requests in a batch over five blocks, so that a prompt of two
\* chunks is prefilled beside another request and blocks are reused; the executor
\* may raise at any work.
CONSTANTS
    Requests = {r1, r2, r3}
    NumBlocks = 5
    BlockSize = 2
    BatchSizes = {1}
    SequenceBuckets = {3, 16}
    Shapes <- ThreeShapes
    MaxBatch = 2
    PrefillChunk = 2
    MaxPrefillTokens = 3
    DecodePrefillChunk = 1
    ExecutorSuspends = FALSE
SYMMETRY RequestSymmetry
SPECIFICATION QwenSpec
INVARIANT PagesHoldOwnPrefix
INVARIANT DenseCacheFollowsPrefill
INVARIANT FailureHasACause
\* The loop really stops after close().
CHECK_DEADLOCK FALSE
