----------------------------- MODULE MCPagedKV -----------------------------
(* Small instances of PagedKV for TLC. *)
EXTENDS PagedKV, TLC

RequestSymmetry == Permutations(Requests)
=============================================================================
