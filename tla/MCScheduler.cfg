\* Three requests over six blocks, which hold two long ones or three short ones:
\* the batch of two leaves somebody out, and an admission may be refused.
CONSTANTS
    Requests = {r1, r2, r3}
    NumBlocks = 6
    BlockSize = 2
    BatchSizes = {1}
    SequenceBuckets = {3, 16}
    Shapes <- TwoShapes
    MaxBatch = 2
    PrefillChunk = 2
    MaxPrefillTokens = 3
    DecodePrefillChunk = 1
SYMMETRY RequestSymmetry
SPECIFICATION SchedSpec
INVARIANT PlanNeverRaises
INVARIANT QueuesMatchStates
INVARIANT ResourcesMatchStates
INVARIANT ReservationsHold
INVARIANT LengthMatchesProgress
INVARIANT WorksAreAligned
INVARIANT PlanWithinLimits
INVARIANT DecodeFirstRoundRobin
