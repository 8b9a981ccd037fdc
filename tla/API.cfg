\* Two HTTP requests, streaming or collecting, in one batch, with an executor
\* that lets readers and clients act while it is awaited. No symmetry: a
\* property is temporal.
CONSTANTS
    Requests = {r1, r2}
    NumBlocks = 3
    BlockSize = 2
    BatchSizes = {1}
    SequenceBuckets = {3, 16}
    Shapes <- TwoShapes
    MaxBatch = 2
    PrefillChunk = 2
    MaxPrefillTokens = 3
    DecodePrefillChunk = 1
    ExecutorSuspends = TRUE
SPECIFICATION APIFairSpec
INVARIANT AnswersAreTruthful
INVARIANT LeavingReclaims
PROPERTY ReadersAreAnswered
\* The loop really stops after close().
CHECK_DEADLOCK FALSE
