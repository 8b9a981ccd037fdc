-------------------------- MODULE MCEndlessClients --------------------------
(* Small instances of EndlessClients for TLC. *)
EXTENDS EndlessClients

Shape(prompt, max, prio) ==
    [prompt |-> prompt, max |-> max, prio |-> prio, timed |-> FALSE, sampler |-> TRUE]

\* A prompt of two chunks, one that decodes, and one that is more important.
MixedShapes == {Shape(2, 1, 0), Shape(1, 2, 0), Shape(1, 2, 1)}
=============================================================================
