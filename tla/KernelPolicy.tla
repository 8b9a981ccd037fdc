---------------------------- MODULE KernelPolicy ----------------------------
(***************************************************************************)
(* Which kernels a Qwen executor runs: select_qwen_policy of               *)
(* serving/kernel_policy.py, and the constructor of QwenPagedExecutor that *)
(* takes its policy or explicit settings. What raises is the empty set.    *)
(***************************************************************************)
EXTENDS Integers, FiniteSets

CONSTANTS Layers,        \* number of layers of the model
          DefaultBlock,  \* 16
          DefaultTile,   \* 128
          Tiles          \* {64, 128, 256}

ASSUME KernelAssumption ==
    /\ Layers \in Nat \ {0}
    /\ DefaultTile \in Tiles /\ Tiles \subseteq Nat \ {0}
    /\ DefaultBlock \in Nat \ {0}

LayerSet == 0 .. Layers - 1

\* A row of the calibration file: any numbers may have been written there.
Row == [gate : BOOLEAN, block : Nat, tile : Nat, direct : SUBSET Int,
        gather : BOOLEAN, native : BOOLEAN, qkv : SUBSET Int, mlp : SUBSET Int]

\* The exact kernels, for a model or an architecture nobody accepted.
Fallback == [block |-> DefaultBlock, tile |-> DefaultTile, direct |-> {},
             gather |-> FALSE, native |-> FALSE, qkv |-> {}, mlp |-> {},
             calibrated |-> FALSE]

\* block & (block - 1) = 0
PowerOfTwoOrZero(b) == b = 0 \/ \E k \in 0 .. b : b = 2^k

ValidRow(row) ==
    /\ row.direct \cup row.qkv \cup row.mlp \subseteq LayerSet
    /\ PowerOfTwoOrZero(row.block) /\ row.tile \in Tiles

\* matched: the model has the signature the file was calibrated for; rows: the
\* row of the device's architecture, at most one.
Calibrated(matched, rows) == matched /\ \E row \in rows : row.gate

SelectPolicy(matched, rows) ==
    IF ~Calibrated(matched, rows) THEN {Fallback}
    ELSE {[block |-> row.block, tile |-> row.tile, direct |-> row.direct,
           gather |-> row.gather, native |-> row.native, qkv |-> row.qkv,
           mlp |-> row.mlp, calibrated |-> TRUE] : row \in {x \in rows : ValidRow(x)}}

(***************************************************************************)
(* The executor's configuration.                                           *)
(***************************************************************************)
\* Explicit settings: direct_attention with its layers (at most one set),
\* attention_tile, fused_gather, native_gqa. These are the defaults.
DefaultSettings == [direct |-> FALSE, layers |-> {}, tile |-> DefaultTile,
                    gather |-> TRUE, native |-> FALSE]

FromPolicy(p, poolBlock) ==
    IF p.block = poolBlock
    THEN {[tile |-> p.tile, direct |-> p.direct, gather |-> p.gather,
           native |-> p.native, qkv |-> p.qkv, mlp |-> p.mlp]}
    ELSE {}

FromSettings(s) ==
    LET direct == IF s.layers # {} THEN UNION s.layers
                  ELSE IF s.direct THEN LayerSet ELSE {}
    IN IF s.tile \in Tiles /\ direct \subseteq LayerSet
       THEN {[tile |-> s.tile, direct |-> direct, gather |-> s.gather,
              native |-> s.native, qkv |-> {}, mlp |-> {}]}
       ELSE {}

\* A deployment: a policy for what the device and the model are, or none, and
\* explicit settings. A policy excludes explicit direct attention.
NewExecutor(d, poolBlock) ==
    IF ~d.usesPolicy THEN FromSettings(d.settings)
    ELSE IF d.settings.direct \/ d.settings.layers # {} THEN {}
    ELSE UNION {FromPolicy(p, poolBlock) : p \in SelectPolicy(d.matched, d.rows)}

\* How _forward_batch attends in a layer.
Path(ex, layer) ==
    IF layer \in ex.direct THEN "direct"
    ELSE IF ex.gather THEN "gather" ELSE "materialize"
=============================================================================
