\* Three requests, a batch of two, six blocks: a decode fills part of the batch,
\* a prefill is passed over, a third admission may be refused, and clients call
\* while the executor is awaited.
CONSTANTS
    Requests = {r1, r2, r3}
    NumBlocks = 6
    BlockSize = 2
    BatchSizes = {1}
    SequenceBuckets = {3, 16}
    Shapes <- ThreeShapes
    MaxBatch = 2
    PrefillChunk = 2
    MaxPrefillTokens = 3
    DecodePrefillChunk = 1
    ExecutorSuspends = TRUE
SYMMETRY RequestSymmetry
SPECIFICATION Spec
INVARIANT LoopNeverCrashes
INVARIANT EventsTellTheStory
INVARIANT NoStaleSlotIsReassigned
INVARIANT DecodeBatchIsCurrent
INVARIANT MetricsAddUp
PROPERTY NoIdleWork
\* The loop really stops after close().
CHECK_DEADLOCK FALSE
