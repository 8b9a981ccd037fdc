\* A batch of one, so that every other request waits, and three identifiers: one
\* may wait while the requests of the other two follow each other without end.
\* No deadlines, which would end any wait, and no symmetry: the property is
\* temporal.
CONSTANTS
    Requests = {r1, r2, r3}
    NumBlocks = 3
    BlockSize = 4
    BatchSizes = {1}
    SequenceBuckets = {3, 16}
    Shapes <- MixedShapes
    MaxBatch = 1
    PrefillChunk = 1
    MaxPrefillTokens = 3
    DecodePrefillChunk = 1
    ExecutorSuspends = TRUE
SPECIFICATION EndlessSpec
PROPERTY AcceptedRequestsEnd
\* The loop really stops after close().
CHECK_DEADLOCK FALSE
