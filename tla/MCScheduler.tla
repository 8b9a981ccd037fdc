---------------------------- MODULE MCScheduler ----------------------------
(* Small instances of Scheduler for TLC. *)
EXTENDS Scheduler, TLC

RequestSymmetry == Permutations(Requests)

Shape(prompt, max, prio, timed) ==
    [prompt |-> prompt, max |-> max, prio |-> prio, timed |-> timed, sampler |-> TRUE]

\* A long prompt of low priority, and a short one of high priority that decodes
\* longer and may time out. Six blocks hold two long requests or three short ones.
TwoShapes == {Shape(4, 2, 0, FALSE), Shape(1, 3, 1, TRUE)}
=============================================================================
