\* Two sessions whose caches have just the room their steps need, or room for a
\* warmup besides; three layers, so that one is neither first nor last, and three
\* passes, so that a prefill follows a pass that raised in decode; launches with
\* sizes that are and are not multiples of their blocks.
CONSTANTS
    Sessions = {s1, s2}
    Context = 2
    Steps = 4
    Depth = 3
    MaxPasses = 3
    Capacities <- MCCapacities
    Launches <- MCLaunches
    Buckets <- MCBuckets
SYMMETRY SessionSymmetry
SPECIFICATION LearningSpec
INVARIANT CacheHoldsPrefix
INVARIANT PositionStaysInside
INVARIANT AnswersAreGreedy
INVARIANT FusionKeepsTheModel
INVARIANT LaunchIsExact
\* The callers stop after their steps, and a launch ends.
CHECK_DEADLOCK FALSE
