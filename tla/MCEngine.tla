----------------------------- MODULE MCEngine -----------------------------
(* Small instances of Engine for TLC. *)
EXTENDS Engine, TLC

RequestSymmetry == Permutations(Requests)

Shape(prompt, max, prio, timed, sampler) ==
    [prompt |-> prompt, max |-> max, prio |-> prio, timed |-> timed, sampler |-> sampler]

\* A long prompt of low priority that may time out, and a short one of high
\* priority that decodes longer. Six blocks hold two long requests or three
\* short ones, four blocks one long or two short ones.
TwoShapes == {Shape(4, 2, 0, TRUE, TRUE), Shape(1, 3, 1, FALSE, TRUE)}

\* A third one has a seed of which no sampler can be made.
ThreeShapes == TwoShapes \cup {Shape(1, 1, 1, FALSE, FALSE)}

\* The first two without deadlines.
UntimedShapes == {Shape(4, 2, 0, FALSE, TRUE), Shape(1, 3, 1, FALSE, TRUE)}
=============================================================================
