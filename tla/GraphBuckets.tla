---------------------------- MODULE GraphBuckets ----------------------------
(***************************************************************************)
(* Bucket selection of CUDAGraphBuckets (serving/graph_buckets.py). The    *)
(* code keeps both bucket lists strictly increasing, so a set says as much.*)
(***************************************************************************)
EXTENDS Integers

CONSTANTS BatchSizes,       \* batch_sizes
          SequenceBuckets   \* sequence_buckets

ASSUME BucketAssumption ==
    /\ BatchSizes \subseteq Nat
    /\ SequenceBuckets \subseteq Nat

NoGraph == <<>>             \* select returned None: run eagerly

\* The first bucket of an increasing list that is at least n.
IsFirstFit(x, buckets, n) ==
    /\ x \in buckets
    /\ x >= n
    /\ \A y \in buckets : y >= n => x <= y

\* select: the smallest batch size and the smallest sequence bucket that hold
\* the request, or None when either list is exhausted.
Select(batch, sequence) ==
    IF /\ \E b \in BatchSizes : b >= batch
       /\ \E s \in SequenceBuckets : s >= sequence
    THEN <<CHOOSE b \in BatchSizes : IsFirstFit(b, BatchSizes, batch),
           CHOOSE s \in SequenceBuckets : IsFirstFit(s, SequenceBuckets, sequence)>>
    ELSE NoGraph
=============================================================================
