---------------------------- MODULE MCLearning ----------------------------
(* One part of learning/ at a time, for TLC: sessions that decode over a static
   cache, passes with the fused residual norm, or the launch of a kernel, on
   grids small enough for every order of their programs. *)
EXTENDS StaticDecode, ResidualFusion, KernelLaunch, TLC

SessionSymmetry == Permutations(Sessions)

MCLaunches ==
    [kernel : {"elementwise"}, n : {1, 5, 8}, block : {1, 2, 4}]
    \cup [kernel : {"rowwise"}, rows : {1, 3}, n : {1, 3, 4}, block : {4, 8}, weighted : BOOLEAN,
            residual : BOOLEAN]
    \cup {l \in [kernel : {"tiled"}, m : {1, 3, 5}, n : {1, 3, 5}, k : {1, 3}, bm : {1, 2}, bn : {2},
            bk : {2}, group : {2, 3}, bucket : 1 .. 8, linear : BOOLEAN] :
            /\ IsTiled(l) /\ Cdiv(l.bucket, l.bm) * Cdiv(l.n, l.bn) <= 9}
    \cup {l \in [kernel : {"gemv"}, n : {1, 3, 5}, k : {1, 3, 5, 8}, bn : {2}, bk : {1, 2}, splits : {1, 2, 4},
            block : {4}, linear : BOOLEAN] :
            IsGemv(l) /\ Cdiv(l.n, l.bn) * l.splits <= 8}
    \cup [kernel : {"int4"}, n : {1, 3}, k : {4, 8}, bn : {2}, group : {2, 4}]
    \cup {l \in [kernel : {"attention"}, batch : {2}, heads : {1, 2}, sq : {1, 3}, sk : {1, 3}, d : {1, 2},
            bm : {2}, bn : {2}, causal : BOOLEAN, queries : [{0, 1} -> {1, 3}], keys : [{0, 1} -> {0, 2}]] :
            Cdiv(l.sq, l.bm) * l.batch * l.heads <= 4}
    \cup {l \in [kernel : {"rope"}, batch : {1, 2}, qheads : {1, 2}, kheads : {1}, s : {1, 2}, half : {1, 2}] :
            l.batch * (l.qheads + l.kheads) * l.s <= 8}
    \cup [kernel : {"warp"}, outputs : {1, 3, 5}, k : {1, 33, 64}, warps : {1, 2}, sms : {0, 1}, swiglu : BOOLEAN]
    \cup {l \in [kernel : {"splitkv"}, kvheads : {1, 2}, gqa : {1, 2}, s : {3, 4}, d : {1, 2}, tile : {1, 2},
            valid : {1, 3, 4}] : l.valid <= l.s /\ l.kvheads * l.gqa * Cdiv(l.s, l.tile) <= 8}
MCBuckets == {2, 4, 8}

FirstLaunch == CHOOSE l \in Launches : TRUE
FirstCapacity == CHOOSE c \in Capacities : TRUE
MCCapacities == {Context + Steps, Context + Steps + 1}

\* The fusion is idle once it has no pass left.
FusionIdle ==
    /\ pass = MaxPasses /\ decode = FALSE /\ pending = {} /\ layer = Depth
    /\ hidden = Zero /\ norms = <<>> /\ heard = <<>> /\ stage = "raised"

LaunchIdle == LaunchInit /\ launch = FirstLaunch
StaticIdle == StaticInit /\ capacity = FirstCapacity

LearningInit ==
    \/ StaticInit /\ FusionIdle /\ LaunchIdle
    \/ StaticIdle /\ FusionInit /\ LaunchIdle
    \/ StaticIdle /\ FusionIdle /\ LaunchInit

LearningNext ==
    \/ FusionIdle /\ LaunchIdle /\ StaticNext /\ UNCHANGED <<fusionVars, launchVars>>
    \/ StaticIdle /\ LaunchIdle /\ FusionNext /\ UNCHANGED <<decodeVars, launchVars>>
    \/ StaticIdle /\ FusionIdle /\ LaunchNext /\ UNCHANGED <<decodeVars, fusionVars>>

LearningSpec ==
    LearningInit /\ [][LearningNext]_<<decodeVars, fusionVars, launchVars>>
=============================================================================
