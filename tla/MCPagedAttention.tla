-------------------------- MODULE MCPagedAttention --------------------------
(* Small instances of PagedAttention for TLC: accepted, refused and invalid
   calibrations, and explicit settings. *)
EXTENDS PagedAttention, TLC

RequestSymmetry == Permutations(Requests)

Profile == [gate |-> TRUE, block |-> 2, tile |-> 2, direct |-> {}, gather |-> TRUE,
            native |-> FALSE, qkv |-> {}, mlp |-> {1}]

ByPolicy(matched, row) ==
    [usesPolicy |-> TRUE, matched |-> matched, rows |-> {row}, settings |-> DefaultSettings]
BySettings(s) ==
    [usesPolicy |-> FALSE, matched |-> FALSE, rows |-> {}, settings |-> s]

MCDeployments ==
    {ByPolicy(TRUE, Profile), ByPolicy(FALSE, Profile),
     ByPolicy(TRUE, [Profile EXCEPT !.gate = FALSE]),
     ByPolicy(TRUE, [Profile EXCEPT !.native = TRUE, !.direct = {1}, !.tile = 1]),
     ByPolicy(TRUE, [Profile EXCEPT !.gather = FALSE, !.direct = {0}, !.tile = 4]),
     ByPolicy(TRUE, [Profile EXCEPT !.direct = {Layers}]),
     ByPolicy(TRUE, [Profile EXCEPT !.block = 4]),
     ByPolicy(TRUE, [Profile EXCEPT !.tile = 3]),
     BySettings(DefaultSettings),
     BySettings([DefaultSettings EXCEPT !.direct = TRUE]),
     BySettings([DefaultSettings EXCEPT !.layers = {{1}}, !.gather = FALSE]),
     [ByPolicy(TRUE, Profile) EXCEPT !.settings.direct = TRUE]}
=============================================================================
