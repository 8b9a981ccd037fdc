-------------------------- MODULE MCCompletionAPI --------------------------
(* Small instances of CompletionAPI for TLC. *)
EXTENDS CompletionAPI

Shape(prompt, max, prio, timed, sampler) ==
    [prompt |-> prompt, max |-> max, prio |-> prio, timed |-> timed, sampler |-> sampler]

\* The endpoints give every request a deadline. One shape that samples and
\* decodes is enough to read an answer in parts and to wait for it; the other
\* has no sampler, and a deadline too far away to pass.
TwoShapes == {Shape(1, 2, 0, TRUE, TRUE), Shape(1, 1, 0, FALSE, FALSE)}
=============================================================================
