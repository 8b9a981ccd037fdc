--------------------------- MODULE MCQwenExecutor ---------------------------
(* Small instances of QwenExecutor for TLC. *)
EXTENDS QwenExecutor, TLC

RequestSymmetry == Permutations(Requests)

Shape(prompt, max, prio, timed, sampler) ==
    [prompt |-> prompt, max |-> max, prio |-> prio, timed |-> timed, sampler |-> sampler]

\* A prompt of two chunks that decodes once and may time out, a short one that
\* decodes twice, and one without a sampler. Their reservations are three, two
\* and one blocks, so five hold one of the first two each.
ThreeShapes == {Shape(4, 2, 0, TRUE, TRUE), Shape(1, 3, 1, FALSE, TRUE),
                Shape(1, 1, 1, FALSE, FALSE)}
=============================================================================
