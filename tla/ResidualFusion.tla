---------------------------- MODULE ResidualFusion ----------------------------
(***************************************************************************)
(* install_decode_residual_norm of learning/12_decode_runtime: in a decode *)
(* pass a patched layer hands its MLP output and residual to the next one, *)
(* which adds them in its own input norm. The hand-over is state that      *)
(* outlives the layer's call, and the pass if it raises. Tensors are       *)
(* formal sums: how often each module's output of each pass was added.     *)
(***************************************************************************)
EXTENDS Integers, Sequences

CONSTANTS Depth,      \* number of layers
          MaxPasses   \* bound on forward passes

ASSUME FusionAssumption == Depth \in Nat \ {0} /\ MaxPasses \in Nat \ {0}

VARIABLES pass,      \* number of the forward pass
          decode,    \* state["decode"]
          pending,   \* state["pending"]: at most one <<mlp output, residual>>
          layer,     \* next layer of the pass, Depth when only the head is left
          hidden,    \* what the model's loop carries from layer to layer
          norms,     \* inputs of the two norms of each layer so far (history)
          heard,     \* what the observer was told in the pass: layer, output
          stage      \* "idle", "forward", "raised"

fusionVars == <<pass, decode, pending, layer, hidden, norms, heard, stage>>

Terms == (1 .. MaxPasses) \X {"embedding", "attention", "mlp"} \X (0 .. Depth - 1)
Sums == [Terms -> Nat]

Zero == [t \in Terms |-> 0]
One(term) == [t \in Terms |-> IF t = term THEN 1 ELSE 0]
Plus(a, b) == [t \in Terms |-> a[t] + b[t]]

Attention(i) == <<pass, "attention", i>>
MLP(i) == <<pass, "mlp", i>>

FusionInit ==
    /\ pass = 0 /\ decode = FALSE /\ pending = {} /\ layer = Depth /\ hidden = Zero
    /\ norms = <<>> /\ heard = <<>> /\ stage = "idle"

\* Mutant of Detect: what the pass before left pending is kept.
DetectKeepingPending ==
    /\ stage # "forward" /\ pass < MaxPasses
    /\ pass' = pass + 1
    /\ decode' \in BOOLEAN
    /\ layer' = 0 /\ hidden' = One(<<pass + 1, "embedding", 0>>)
    /\ norms' = <<>> /\ heard' = <<>> /\ stage' = "forward"
    /\ UNCHANGED pending

\* The model's pre-hook, before each pass, of one token or not.
Detect ==
    /\ stage # "forward" /\ pass < MaxPasses
    /\ pass' = pass + 1
    /\ decode' \in BOOLEAN
    /\ pending' = {}
    /\ layer' = 0 /\ hidden' = One(<<pass + 1, "embedding", 0>>)
    /\ norms' = <<>> /\ heard' = <<>> /\ stage' = "forward"

\* A call of the layer's own forward, in a prefill or for another shape.
OriginalLayer ==
    LET residual == Plus(hidden, One(Attention(layer)))
    IN /\ stage = "forward" /\ layer < Depth /\ ~decode
       /\ norms' = Append(norms, <<hidden, residual>>)
       /\ hidden' = Plus(residual, One(MLP(layer)))
       /\ layer' = layer + 1
       /\ UNCHANGED <<pass, decode, pending, heard, stage>>

\* What enters the input norm of a fused layer: what the layer before left for
\* it, whatever the model's loop carries.
Entering ==
    IF pending = {} THEN hidden
    ELSE LET p == CHOOSE p \in pending : TRUE IN Plus(p[1], p[2])

\* The observer hears of a layer from the next one, of the last from itself.
Told(output) ==
    LET told == IF pending = {} THEN heard ELSE Append(heard, <<layer - 1, Entering>>)
    IN IF layer + 1 = Depth THEN Append(told, <<layer, output>>) ELSE told

FusedLayer ==
    LET residual == Plus(Entering, One(Attention(layer)))
        output == Plus(residual, One(MLP(layer)))
    IN /\ stage = "forward" /\ layer < Depth /\ decode
       /\ norms' = Append(norms, <<Entering, residual>>)
       /\ heard' = Told(output)
       /\ IF layer + 1 = Depth THEN hidden' = output /\ pending' = {}
          ELSE hidden' = residual /\ pending' = {<<One(MLP(layer)), residual>>}
       /\ layer' = layer + 1
       /\ UNCHANGED <<pass, decode, stage>>

\* A kernel raises before the pending tensors are taken, or after.
LayerRaises ==
    /\ stage = "forward" /\ layer < Depth /\ stage' = "raised"
    /\ pending' \in {pending, {}}
    /\ UNCHANGED <<pass, decode, layer, hidden, norms, heard>>

\* The pass ends: the final norm and the head read hidden.
PassEnds ==
    /\ stage = "forward" /\ layer = Depth /\ stage' = "idle"
    /\ UNCHANGED <<pass, decode, pending, layer, hidden, norms, heard>>

FusionNext == Detect \/ OriginalLayer \/ FusedLayer \/ LayerRaises \/ PassEnds

FusionSpec == FusionInit /\ [][FusionNext]_fusionVars

\* The layers of a row of rmsnorm_acceptance.py: what was collected of a pass,
\* by the index of the layer.
LayerRow ==
    [i \in 0 .. Depth - 1 |->
        {heard[k][2] : k \in {j \in DOMAIN heard : heard[j][1] = i}}]

\* The model without the fusion: the inputs of layer i's two norms.
Input(i) ==
    [t \in Terms |-> IF /\ t[1] = pass
                        /\ IF t[2] = "embedding" THEN t[3] = 0 ELSE t[3] < i
                     THEN 1 ELSE 0]
AfterAttention(i) == Plus(Input(i), One(Attention(i)))

\* Fused or not, and whatever pass failed before, every norm gets the sum the
\* unfused model would give it, of this pass alone, and so does the head; a
\* decode pass that ends has told the observer each layer's output once, so that
\* rows of fused and of unfused layers compare like with like (decode_runtime.py,
\* rmsnorm_acceptance.py).
FusionKeepsTheModel ==
    /\ \A k \in DOMAIN norms : norms[k] = <<Input(k - 1), AfterAttention(k - 1)>>
    /\ (stage = "idle" /\ pass > 0) =>
          /\ Len(norms) = Depth /\ hidden = Input(Depth)
          /\ decode => /\ Len(heard) = Depth
                       /\ LayerRow = [i \in 0 .. Depth - 1 |-> {Input(i + 1)}]
=============================================================================
