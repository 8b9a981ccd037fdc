--------------------------- MODULE Evidence_proofs ---------------------------
(***************************************************************************)
(* Proofs about what candidates are judged by: the fused residual that a   *)
(* candidate runs with, the accuracy gate, and the release gate.           *)
(***************************************************************************)
EXTENDS ResidualFusion, AccuracyGate, ReleaseGate, SequenceTheorems, FiniteSetTheorems, TLAPS

-----------------------------------------------------------------------------
(***************************************************************************)
(* The residual fusion, for every depth of the model.                      *)
(***************************************************************************)
FusionTypeOK ==
    /\ pass \in 0 .. MaxPasses /\ decode \in BOOLEAN /\ layer \in 0 .. Depth
    /\ hidden \in Sums
    /\ norms \in Seq(Sums \X Sums) /\ heard \in Seq(Int \X Sums)
    /\ stage \in {"idle", "forward", "raised"}

NormsAreRight == \A k \in 1 .. Len(norms) : norms[k] = <<Input(k - 1), AfterAttention(k - 1)>>

HeardIsRight == \A k \in 1 .. Len(heard) : heard[k] = <<k - 1, Input(k)>>

\* Between two layers of a decode pass the sum is split over the two pending
\* tensors; everywhere else it is in hidden.
HandOver ==
    stage = "forward" =>
    /\ pass > 0 /\ Len(norms) = layer
    /\ IF decode /\ 0 < layer /\ layer < Depth
       THEN pending = {<<One(MLP(layer - 1)), AfterAttention(layer - 1)>>}
       ELSE pending = {} /\ hidden = Input(layer)
    /\ decode => /\ Len(heard) = IF layer = 0 \/ layer = Depth THEN layer ELSE layer - 1
                 /\ HeardIsRight

PassIsWhole ==
    (stage = "idle" /\ pass > 0) =>
    /\ Len(norms) = Depth /\ hidden = Input(Depth)
    /\ decode => Len(heard) = Depth /\ HeardIsRight

FusionInv == FusionTypeOK /\ NormsAreRight /\ HandOver /\ PassIsWhole

-----------------------------------------------------------------------------
(* Formal sums. *)

\* The sums a forward pass computes are formal sums.
LEMMA SumsAreSums ==
    /\ \A t : One(t) \in Sums
    /\ \A a, b \in Sums : Plus(a, b) \in Sums
    /\ \A i : Input(i) \in Sums
    /\ \A i : AfterAttention(i) \in Sums
    /\ Zero \in Sums
<1>1. \A t : One(t) \in Sums
  BY DEF One, Sums
<1>2. \A a, b \in Sums : Plus(a, b) \in Sums
  BY DEF Plus, Sums
<1>3. \A i : Input(i) \in Sums
  BY DEF Input, Sums
<1>4. \A i : AfterAttention(i) \in Sums
  BY <1>1, <1>2, <1>3 DEF AfterAttention
<1>5. Zero \in Sums
  BY DEF Zero, Sums
<1>6. QED  BY <1>1, <1>2, <1>3, <1>4, <1>5

\* The embedding alone enters the first layer.
LEMMA FirstInput ==
    ASSUME NEW p \in 1 .. MaxPasses
    PROVE  One(<<p, "embedding", 0>>) =
           [t \in Terms |-> IF /\ t[1] = p
                               /\ IF t[2] = "embedding" THEN t[3] = 0 ELSE t[3] < 0
                            THEN 1 ELSE 0]
<1>1. ASSUME NEW t \in Terms
      PROVE  t = <<p, "embedding", 0>> <=>
             t[1] = p /\ IF t[2] = "embedding" THEN t[3] = 0 ELSE t[3] < 0
  <2>1. PICK q \in 1 .. MaxPasses, kind \in {"embedding", "attention", "mlp"},
             j \in 0 .. Depth - 1 : t = <<q, kind, j>>
    BY <1>1 DEF Terms
  <2>2. t[1] = q /\ t[2] = kind /\ t[3] = j /\ ~(j < 0)
    BY <2>1, FusionAssumption
  <2>3. QED  BY <2>1, <2>2
<1>2. QED  BY <1>1 DEF One

\* A layer adds its attention and its MLP, in either order of the sum.
LEMMA NextInput ==
    ASSUME pass \in 1 .. MaxPasses, NEW i \in 0 .. Depth - 1
    PROVE  /\ Plus(AfterAttention(i), One(MLP(i))) = Input(i + 1)
           /\ Plus(One(MLP(i)), AfterAttention(i)) = Input(i + 1)
<1>1. ASSUME NEW t \in Terms
      PROVE  Input(i)[t] + One(Attention(i))[t] + One(MLP(i))[t] = Input(i + 1)[t]
  <2>1. PICK p \in 1 .. MaxPasses, kind \in {"embedding", "attention", "mlp"},
             j \in 0 .. Depth - 1 : t = <<p, kind, j>>
    BY <1>1 DEF Terms
  <2>2. /\ t[1] = p /\ t[2] = kind /\ t[3] = j
        /\ t = Attention(i) <=> p = pass /\ kind = "attention" /\ j = i
        /\ t = MLP(i) <=> p = pass /\ kind = "mlp" /\ j = i
    BY <2>1 DEF Attention, MLP
  <2>3. QED  BY <1>1, <2>1, <2>2 DEF Input, One
<1>2. \A t \in Terms : /\ AfterAttention(i)[t] = Input(i)[t] + One(Attention(i))[t]
                       /\ Input(i)[t] \in Nat /\ One(Attention(i))[t] \in Nat
                       /\ One(MLP(i))[t] \in Nat
  BY DEF AfterAttention, Plus, Input, One
<1>3. Plus(AfterAttention(i), One(MLP(i))) = Input(i + 1)
  <2>1. \A t \in Terms : AfterAttention(i)[t] + One(MLP(i))[t] = Input(i + 1)[t]
    BY <1>1, <1>2
  <2>2. QED  BY <2>1 DEF Plus, Input
<1>4. Plus(One(MLP(i)), AfterAttention(i)) = Input(i + 1)
  <2>1. \A t \in Terms : One(MLP(i))[t] + AfterAttention(i)[t] = Input(i + 1)[t]
    BY <1>1, <1>2
  <2>2. QED  BY <2>1 DEF Plus, Input
<1>5. QED  BY <1>3, <1>4

-----------------------------------------------------------------------------
\* Before the first pass nothing is pending.
LEMMA FusionStarts == FusionInit => FusionInv
<1> SUFFICES ASSUME FusionInit PROVE FusionInv
  OBVIOUS
<1>1. FusionTypeOK
  <2>1. Zero \in Sums
    BY SumsAreSums
  <2>2. <<>> \in Seq(Sums \X Sums) /\ <<>> \in Seq(Int \X Sums)
    OBVIOUS
  <2>3. 0 \in 0 .. MaxPasses /\ Depth \in 0 .. Depth
    BY FusionAssumption
  <2>4. QED  BY <2>1, <2>2, <2>3 DEF FusionInit, FusionTypeOK
<1>2. NormsAreRight
  BY DEF FusionInit, NormsAreRight
<1>3. HandOver /\ PassIsWhole
  BY DEF FusionInit, HandOver, PassIsWhole
<1>4. QED  BY <1>1, <1>2, <1>3 DEF FusionInv

\* The reference is about the current pass: a step within it keeps it.
LEMMA SamePass ==
    ASSUME pass' = pass
    PROVE  \A i : /\ Input(i)' = Input(i) /\ AfterAttention(i)' = AfterAttention(i)
                  /\ MLP(i)' = MLP(i) /\ Attention(i)' = Attention(i)
  BY DEF Input, AfterAttention, MLP, Attention, Plus, One

\* Detecting the pass opens it with the embedding alone.
LEMMA DetectKeeps == FusionInv /\ Detect => FusionInv'
<1> SUFFICES ASSUME FusionInv, Detect PROVE FusionInv'
  OBVIOUS
<1>1. pass' \in 1 .. MaxPasses
  BY FusionAssumption DEF FusionInv, FusionTypeOK, Detect
<1>2. hidden' = One(<<pass', "embedding", 0>>)
  BY DEF Detect, One
<1>3. hidden' = Input(0)'
  <2>1. Input(0)' = [t \in Terms |->
            IF /\ t[1] = pass'
               /\ IF t[2] = "embedding" THEN t[3] = 0 ELSE t[3] < 0
            THEN 1 ELSE 0]
    BY DEF Input
  <2>2. QED  BY <1>1, <1>2, <2>1, FirstInput
<1>4. FusionTypeOK'
  BY <1>1, <1>2, SumsAreSums, FusionAssumption DEF FusionInv, FusionTypeOK, Detect
<1>5. NormsAreRight'
  BY DEF Detect, NormsAreRight
<1>6. HandOver'
  BY <1>1, <1>3, FusionAssumption DEF Detect, HandOver, HeardIsRight
<1>7. PassIsWhole'
  BY DEF Detect, PassIsWhole
<1>8. QED  BY <1>4, <1>5, <1>6, <1>7 DEF FusionInv

\* What enters a layer is the reference's input, whether it was handed over or not.
LEMMA EnteringIsInput ==
    ASSUME FusionInv, stage = "forward", layer < Depth, decode
    PROVE  Entering = Input(layer)
<1>1. pass \in 1 .. MaxPasses /\ layer \in 0 .. Depth - 1
  BY FusionAssumption DEF FusionInv, FusionTypeOK, HandOver
<1>2. CASE layer = 0
  BY <1>2 DEF FusionInv, HandOver, Entering
<1>3. CASE layer # 0
  <2>1. pending = {<<One(MLP(layer - 1)), AfterAttention(layer - 1)>>}
    BY <1>1, <1>3 DEF FusionInv, HandOver
  <2>2. Entering = Plus(One(MLP(layer - 1)), AfterAttention(layer - 1))
    <3> DEFINE both == <<One(MLP(layer - 1)), AfterAttention(layer - 1)>>
    <3>1. pending # {} /\ (CHOOSE p \in pending : TRUE) = both
      <4> HIDE DEF both
      <4>1. pending = {both}
        BY <2>1 DEF both
      <4>2. QED  BY <4>1
    <3>2. both[1] = One(MLP(layer - 1)) /\ both[2] = AfterAttention(layer - 1)
      OBVIOUS
    <3> HIDE DEF both
    <3>3. Entering = Plus(both[1], both[2])
      BY <3>1 DEF Entering
    <3>4. QED  BY <3>2, <3>3
  <2>3. layer - 1 \in 0 .. Depth - 1 /\ (layer - 1) + 1 = layer
    BY <1>1, <1>3, FusionAssumption
  <2>4. QED  BY <1>1, <2>2, <2>3, NextInput
<1>4. QED  BY <1>2, <1>3

\* A layer of a prefill adds into hidden, as the model does.
LEMMA OriginalKeeps == FusionInv /\ OriginalLayer => FusionInv'
<1> SUFFICES ASSUME FusionInv, OriginalLayer PROVE FusionInv'
  OBVIOUS
<1>1. /\ pass \in 1 .. MaxPasses /\ layer \in 0 .. Depth - 1 /\ layer' = layer + 1
      /\ stage = "forward" /\ ~decode /\ hidden = Input(layer) /\ pending = {}
      /\ UNCHANGED <<pass, decode, pending, heard, stage>>
  BY FusionAssumption DEF FusionInv, FusionTypeOK, HandOver, OriginalLayer
<1>2. hidden' = Input(layer + 1)
  BY <1>1, NextInput DEF OriginalLayer, AfterAttention
<1>3. norms' = Append(norms, <<Input(layer), AfterAttention(layer)>>)
  BY <1>1 DEF OriginalLayer, AfterAttention
<1>4. FusionTypeOK'
  BY <1>1, <1>2, <1>3, SumsAreSums, FusionAssumption DEF FusionInv, FusionTypeOK
<1>5. Len(norms) = layer /\ norms \in Seq(Sums \X Sums)
  BY <1>1 DEF FusionInv, FusionTypeOK, HandOver
<1>6. NormsAreRight'
  BY <1>1, <1>3, <1>5, SamePass DEF FusionInv, NormsAreRight
<1>7. HandOver'
  BY <1>1, <1>2, <1>3, <1>5, SamePass DEF HandOver
<1>8. PassIsWhole'
  BY <1>1 DEF PassIsWhole
<1>9. QED  BY <1>4, <1>6, <1>7, <1>8 DEF FusionInv

\* A layer of a decode pass adds what the layer before left pending.
LEMMA FusedKeeps == FusionInv /\ FusedLayer => FusionInv'
<1> SUFFICES ASSUME FusionInv, FusedLayer PROVE FusionInv'
  OBVIOUS
<1>1. /\ pass \in 1 .. MaxPasses /\ layer \in 0 .. Depth - 1 /\ layer' = layer + 1
      /\ stage = "forward" /\ decode
      /\ UNCHANGED <<pass, decode, stage>>
  BY FusionAssumption DEF FusionInv, FusionTypeOK, HandOver, FusedLayer
<1>2. Entering = Input(layer)
  BY <1>1, FusionAssumption, EnteringIsInput
<1>3. /\ Len(norms) = layer /\ norms \in Seq(Sums \X Sums) /\ heard \in Seq(Int \X Sums)
      /\ Len(heard) = IF layer = 0 THEN 0 ELSE layer - 1
      /\ HeardIsRight
      /\ pending = {} <=> layer = 0
  <2>1. /\ Len(norms) = layer /\ norms \in Seq(Sums \X Sums) /\ heard \in Seq(Int \X Sums)
        /\ Len(heard) = IF layer = 0 \/ layer = Depth THEN layer ELSE layer - 1
        /\ HeardIsRight
    BY <1>1 DEF FusionInv, FusionTypeOK, HandOver
  <2>2. layer # 0 =>
            pending = {<<One(MLP(layer - 1)), AfterAttention(layer - 1)>>}
    BY <1>1, FusionAssumption DEF FusionInv, HandOver
  <2>3. layer = 0 => pending = {}
    BY <1>1 DEF FusionInv, HandOver
  <2>4. layer < Depth
    BY <1>1, FusionAssumption
  <2>5. pending = {} <=> layer = 0
    BY <2>2, <2>3
  <2>6. QED  BY <2>1, <2>4, <2>5
<1>4. /\ norms' = Append(norms, <<Input(layer), AfterAttention(layer)>>)
      /\ heard' = Told(Input(layer + 1))
      /\ IF layer + 1 = Depth THEN hidden' = Input(layer + 1) /\ pending' = {}
         ELSE hidden' = AfterAttention(layer)
              /\ pending' = {<<One(MLP(layer)), AfterAttention(layer)>>}
  BY <1>1, <1>2, NextInput DEF FusedLayer, AfterAttention
<1>5. FusionTypeOK'
  <2>1. heard' \in Seq(Int \X Sums)
    BY <1>1, <1>2, <1>3, <1>4, SumsAreSums DEF Told
  <2>2. QED
    BY <1>1, <1>3, <1>4, <2>1, SumsAreSums, FusionAssumption DEF FusionInv, FusionTypeOK
<1>6. NormsAreRight'
  BY <1>1, <1>3, <1>4, SamePass DEF FusionInv, NormsAreRight
<1>7. /\ Len(heard') = IF layer + 1 = Depth THEN Depth ELSE layer
      /\ \A k \in 1 .. Len(heard') : heard'[k] = <<k - 1, Input(k)>>
  <2> DEFINE told == IF pending = {} THEN heard ELSE Append(heard, <<layer - 1, Entering>>)
  <2>1. /\ told \in Seq(Int \X Sums) /\ Len(told) = layer
        /\ \A k \in 1 .. Len(told) : told[k] = <<k - 1, Input(k)>>
    <3>1. CASE layer = 0
      BY <1>3, <3>1 DEF HeardIsRight
    <3>2. CASE layer # 0
      BY <1>1, <1>2, <1>3, <3>2, SumsAreSums, SMTT(40) DEF HeardIsRight
    <3>3. QED  BY <3>1, <3>2
  <2>2. heard' = IF layer + 1 = Depth THEN Append(told, <<layer, Input(layer + 1)>>) ELSE told
    BY <1>4 DEF Told
  <2> HIDE DEF told
  <2>3. CASE layer + 1 = Depth
    <3>1. /\ heard' = Append(told, <<layer, Input(layer + 1)>>)
          /\ Len(heard') = layer + 1
          /\ heard'[layer + 1] = <<layer, Input(layer + 1)>>
          /\ \A k \in 1 .. layer : heard'[k] = told[k]
      BY <1>1, <2>1, <2>2, <2>3, SumsAreSums
    <3>2. ASSUME NEW k \in 1 .. Len(heard') PROVE heard'[k] = <<k - 1, Input(k)>>
      <4>1. CASE k = layer + 1
        BY <1>1, <3>1, <4>1
      <4>2. CASE k # layer + 1
        BY <1>1, <2>1, <3>1, <3>2, <4>2
      <4>3. QED  BY <4>1, <4>2
    <3>3. QED  BY <2>3, <3>1, <3>2
  <2>4. CASE layer + 1 # Depth
    BY <2>1, <2>2, <2>4
  <2>5. QED  BY <2>3, <2>4
<1>8. HandOver'
  <2>1. HeardIsRight'
    BY <1>1, <1>7, SamePass DEF HeardIsRight
  <2>2. pass' > 0 /\ Len(norms') = layer'
    BY <1>1, <1>3, <1>4
  <2>3. CASE layer + 1 = Depth
    BY <1>1, <1>4, <1>7, <2>1, <2>2, <2>3, SamePass DEF HandOver
  <2>4. CASE layer + 1 # Depth
    <3>1. 0 < layer' /\ layer' < Depth /\ layer' - 1 = layer
      BY <1>1, <2>4, FusionAssumption
    <3>2. (pending = {<<One(MLP(layer - 1)), AfterAttention(layer - 1)>>})'
      <4>1. pending' = {<<One(MLP(layer)), AfterAttention(layer)>>}
        BY <1>4, <2>4
      <4>2. One(MLP(layer)) = One(MLP(layer - 1))'
        BY <1>1, <3>1 DEF One, MLP
      <4>3. AfterAttention(layer) = AfterAttention(layer - 1)'
        BY <1>1, <3>1 DEF AfterAttention, Input, Plus, One, Attention
      <4>4. QED  BY <4>1, <4>2, <4>3
    <3>3. Len(heard') = layer' - 1 /\ decode' /\ layer' # 0 /\ layer' # Depth
      BY <1>1, <1>7, <2>4, <3>1
    <3>4. QED  BY <2>1, <2>2, <3>1, <3>2, <3>3 DEF HandOver
  <2>5. QED  BY <2>3, <2>4
<1>9. PassIsWhole'
  BY <1>1 DEF PassIsWhole
<1>10. QED  BY <1>5, <1>6, <1>8, <1>9 DEF FusionInv

\* A layer that raises leaves what was recorded as it was.
LEMMA RaiseKeeps == FusionInv /\ LayerRaises => FusionInv'
<1> SUFFICES ASSUME FusionInv, LayerRaises PROVE FusionInv'
  OBVIOUS
<1>1. stage' = "raised" /\ UNCHANGED <<pass, decode, layer, hidden, norms, heard>>
  BY DEF LayerRaises
<1>2. FusionTypeOK' /\ HandOver' /\ PassIsWhole'
  BY <1>1 DEF FusionInv, FusionTypeOK, HandOver, PassIsWhole
<1>3. NormsAreRight'
  BY <1>1, SamePass DEF FusionInv, NormsAreRight
<1>4. QED  BY <1>2, <1>3 DEF FusionInv

\* The end of a pass changes nothing that was computed.
LEMMA EndKeeps == FusionInv /\ PassEnds => FusionInv'
<1> SUFFICES ASSUME FusionInv, PassEnds PROVE FusionInv'
  OBVIOUS
<1>1. /\ stage = "forward" /\ layer = Depth /\ stage' = "idle"
      /\ UNCHANGED <<pass, decode, pending, layer, hidden, norms, heard>>
  BY DEF PassEnds
<1>2. FusionTypeOK' /\ HandOver'
  BY <1>1 DEF FusionInv, FusionTypeOK, HandOver
<1>3. NormsAreRight'
  BY <1>1, SamePass DEF FusionInv, NormsAreRight
<1>4. /\ Len(norms) = Depth /\ hidden = Input(Depth)
      /\ decode => Len(heard) = Depth /\ HeardIsRight
  BY <1>1, FusionAssumption DEF FusionInv, HandOver
<1>5. PassIsWhole'
  BY <1>1, <1>4, SamePass DEF PassIsWhole, HeardIsRight
<1>6. QED  BY <1>2, <1>3, <1>5 DEF FusionInv

\* Nothing changes when no layer runs.
LEMMA StutterKeeps == FusionInv /\ UNCHANGED fusionVars => FusionInv'
<1> SUFFICES ASSUME FusionInv, UNCHANGED fusionVars PROVE FusionInv'
  OBVIOUS
<1> USE DEF fusionVars
<1>1. FusionTypeOK'
  BY DEF FusionInv, FusionTypeOK
<1>2. NormsAreRight' /\ (HeardIsRight => HeardIsRight')
  BY SamePass DEF FusionInv, NormsAreRight, HeardIsRight
<1>3. HandOver' /\ PassIsWhole'
  BY <1>2, SamePass DEF FusionInv, HandOver, PassIsWhole, One
<1>4. QED  BY <1>1, <1>2, <1>3 DEF FusionInv

\* The inductive invariant of the hand-over (install_decode_residual_norm).
THEOREM FusionInvariant == FusionSpec => []FusionInv
<1>1. FusionInv /\ [FusionNext]_fusionVars => FusionInv'
  BY DetectKeeps, OriginalKeeps, FusedKeeps, RaiseKeeps, EndKeeps, StutterKeeps
  DEF FusionNext
<1>2. QED  BY FusionStarts, <1>1, PTL DEF FusionSpec

\* Whatever the number of layers and passes, fusing the residual additions into
\* the norms changes no sum, also after a pass that raised (decode_runtime.py).
THEOREM FusionIsTransparent == FusionSpec => []FusionKeepsTheModel
<1>1. FusionInv => FusionKeepsTheModel
  <2> SUFFICES ASSUME FusionInv PROVE FusionKeepsTheModel
    OBVIOUS
  <2>1. \A k \in DOMAIN norms : norms[k] = <<Input(k - 1), AfterAttention(k - 1)>>
    BY DEF FusionInv, FusionTypeOK, NormsAreRight
  <2>2. ASSUME stage = "idle", pass > 0, decode
        PROVE  LayerRow = [i \in 0 .. Depth - 1 |-> {Input(i + 1)}]
    <3>1. /\ DOMAIN heard = 1 .. Depth
          /\ \A k \in 1 .. Depth : heard[k][1] = k - 1 /\ heard[k][2] = Input(k)
      BY <2>2, FusionAssumption DEF FusionInv, FusionTypeOK, PassIsWhole, HeardIsRight
    <3>2. ASSUME NEW i \in 0 .. Depth - 1
          PROVE  {heard[k][2] : k \in {j \in DOMAIN heard : heard[j][1] = i}} = {Input(i + 1)}
      <4>1. {j \in DOMAIN heard : heard[j][1] = i} = {i + 1}
        BY <3>1, FusionAssumption
      <4>2. i + 1 \in 1 .. Depth
        BY FusionAssumption
      <4>3. QED  BY <3>1, <4>1, <4>2
    <3>3. QED  BY <3>2 DEF LayerRow
  <2>3. QED  BY <2>1, <2>2 DEF FusionInv, PassIsWhole, FusionKeepsTheModel
<1>2. QED  BY FusionInvariant, <1>1, PTL
-----------------------------------------------------------------------------
(***************************************************************************)
(* The accuracy gate, for every set of modules and every workload. The     *)
(* invariant relates the totals, the traces and the caches to what the     *)
(* candidate really did in the passes behind.                              *)
(***************************************************************************)
GateSpec == GateInit /\ [][GateNext]_gateVars

\* The pass at hand, and those behind it.
Here == <<prompt, step>>

Looping == phase \in {"model", "candidate", "compare", "loss", "next"}

Before == {q \in Workload : q[1] < prompt \/ (q[1] = prompt /\ q[2] < step)}

\* The passes the totals account for.
Compared ==
    CASE phase \in {"model", "candidate", "compare"} -> Before
      [] phase \in {"loss", "next", "report"} -> Before \cup {Here}
      [] OTHER -> {}

Alike(decoding) == {q \in Compared : (q[2] > 0 <=> decoding) /\ q \notin truth.flips}
Decoded == {q \in Compared : q[2] > 0}

\* The model's own greedy answers, and what a trace holds of one pass.
Greedy(k) == <<prompt>> \o [i \in 1 .. k |-> 0]

Recorded(names, output) ==
    [name \in {"layer", "detail"} |->
        IF name \in names /\ (Decoding \/ name = "layer") THEN <<output>> ELSE <<>>]

Distances == {"close", "apart", NaN}
Outputs == [at : Seq(Nat), far : Distances]
Traces == [enabled : BOOLEAN, detailed : BOOLEAN, values : [{"layer", "detail"} -> Seq(Outputs)]]

GateTypeOK ==
    /\ option \in Options
    /\ phase \in {"calibrate", "launch", "model", "candidate", "compare", "loss", "next",
                  "report", "ended"}
    /\ prompt \in Nat \ {0} /\ step \in Nat
    /\ cache \in [Sides -> Seq(Nat)]
    /\ trace \in [Sides -> Traces]
    /\ forced = 0
    /\ answer \in [token : {0, 1}, nan : BOOLEAN]
    /\ touched \in BOOLEAN
    /\ totals \in [prefill : Nat, decode : Nat, decodes : Nat,
                   nll : Int, losses : Nat, nllNaN : BOOLEAN, finite : BOOLEAN, layersClose : BOOLEAN, missing : Nat]
    /\ truth \in [passes : SUBSET Passes, flips : SUBSET Passes, nan : BOOLEAN,
                  apart : BOOLEAN, nll : Int, losses : Nat, unlike : BOOLEAN,
                  changed : SUBSET Passes]

\* The loops stay within the workload; both caches hold the model's answers so
\* far, as the candidate is fed the model's tokens.
ContextInv ==
    /\ Looping \/ phase = "report" =>
          /\ option.prompts > 0 /\ option.steps > 0
          /\ prompt <= option.prompts /\ step <= option.steps
    /\ phase = "report" => prompt = option.prompts /\ step = option.steps
    /\ phase \in {"calibrate", "launch"} => prompt = 1 /\ step = 0
    /\ phase \in {"model", "candidate"} /\ step > 0 => cache["candidate"] = Greedy(step - 1)
    /\ phase = "model" /\ step > 0 => cache["model"] = Greedy(step - 1)
    /\ phase \in {"candidate", "compare", "loss", "next"} => cache["model"] = Trajectory
    /\ phase \in {"compare", "loss", "next"} => cache["candidate"] = Trajectory

\* A trace that is compared holds this pass and no other.
TraceInv ==
    /\ \A s \in Sides : ~trace[s].enabled
    /\ phase \in {"candidate", "compare"} /\ Traced =>
          trace["model"].values = Recorded({"layer", "detail"}, [at |-> Trajectory, far |-> "close"])
    /\ phase = "compare" /\ Traced =>
          \E far \in Distances :
              /\ trace["candidate"].values = Recorded(Names, [at |-> Trajectory, far |-> far])
              /\ truth.nan => ~totals.finite \/ totals.nllNaN \/ answer.nan \/ far = NaN
              /\ truth.apart => ~totals.layersClose \/ far = "apart"

\* Nothing bad that happened has gone unnoticed, but for the pass being compared.
NoticeInv ==
    /\ ~truth.unlike
    /\ truth.nll = totals.nll /\ truth.losses = totals.losses
    /\ ~(phase = "compare" /\ Traced) =>
          /\ truth.nan => ~totals.finite \/ totals.nllNaN \/ (phase = "compare" /\ answer.nan)
          /\ truth.apart => ~totals.layersClose
    /\ option.candidate = "fast-residual-rms" /\ option.traced > 0 /\ <<1, 1>> \in Compared =>
          totals.missing > 0

\* The totals count the passes behind, those that agreed apart.
CountInv ==
    phase # "ended" =>
    /\ truth.passes = IF phase = "compare" THEN Compared \cup {Here} ELSE Compared
    /\ truth.flips \subseteq truth.passes
    /\ phase = "compare" => (Here \in truth.flips <=> answer.token = 1)
    /\ totals.prefill = Cardinality(Alike(FALSE))
    /\ totals.decode = Cardinality(Alike(TRUE))
    /\ totals.decodes = Cardinality(Decoded)

\* A calibrated candidate leaves the model in no pass that was measured: it
\* rounds differently in none, and a prompt that was measured at one step was
\* measured at all steps before.
CalibratedInv ==
    /\ phase = "calibrate" => calibration = {}
    /\ phase \in {"calibrate", "launch"} => installed = {} /\ truth.changed = {} /\ ~touched
    /\ touched => \E s \in 0 .. step : <<prompt, s>> \in differs
    /\ \A c \in calibration :
          /\ \A p, s \in Nat : <<p, s>> \in c.passes =>
                                \A t \in 0 .. s : <<p, t>> \in c.passes
          /\ c.passes \cap differs = {}
          /\ truth.changed \cap c.passes = {}

\* What acceptance stands for.
Evidence ==
    /\ truth.passes = Workload
    /\ Agrees(option.prompts - Cardinality(Flips(FALSE)), option.prompts)
    /\ Agrees(option.prompts * option.steps - Cardinality(Flips(TRUE)),
              option.prompts * option.steps)
    /\ ~truth.nan /\ ~truth.apart /\ MeanWithinTolerance(truth.nll, truth.losses)
    /\ ~(option.candidate = "fast-residual-rms" /\ option.traced > 0)

VerdictInv == verdict = "passed" => phase = "ended" /\ Evidence

GateInv ==
    /\ GateTypeOK /\ ContextInv /\ TraceInv /\ NoticeInv /\ CountInv /\ CalibratedInv
    /\ VerdictInv
-----------------------------------------------------------------------------
\* Contexts.

\* Two sequences with the same elements are the same.
LEMMA SameContext ==
    \A p, q \in Seq(Nat) : Len(p) = Len(q) /\ (\A i \in 1 .. Len(p) : p[i] = q[i]) => p = q
OBVIOUS

\* The contexts, as sequences.
LEMMA GreedyContext ==
    ASSUME NEW k \in Nat, prompt \in Nat
    PROVE  /\ Greedy(k) \in Seq(Nat) /\ Len(Greedy(k)) = k + 1
           /\ \A i \in 1 .. k + 1 : Greedy(k)[i] = IF i = 1 THEN prompt ELSE 0
<1> DEFINE zeros == [i \in 1 .. k |-> 0]
<1>1. zeros \in Seq(Nat) /\ Len(zeros) = k /\ \A i \in 1 .. k : zeros[i] = 0
  OBVIOUS
<1>2. <<prompt>> \in Seq(Nat) /\ Len(<<prompt>>) = 1 /\ <<prompt>>[1] = prompt
  OBVIOUS
<1> HIDE DEF zeros
<1>3. QED
  BY <1>1, <1>2 DEF Greedy, zeros

\* A prompt is a context, and the model's next answer makes the next one.
LEMMA ContextGrows ==
    ASSUME NEW k \in Nat, prompt \in Nat
    PROVE  Greedy(0) = <<prompt>> /\ Append(Greedy(k), 0) = Greedy(k + 1)
<1>1. Greedy(0) = <<prompt>>
  <2>1. /\ Greedy(0) \in Seq(Nat) /\ Len(Greedy(0)) = 1
        /\ \A i \in 1 .. 1 : Greedy(0)[i] = IF i = 1 THEN prompt ELSE 0
    <3>1. 0 \in Nat /\ 0 + 1 = 1
      OBVIOUS
    <3>2. QED
      BY <3>1, GreedyContext
  <2>2. <<prompt>> \in Seq(Nat) /\ Len(<<prompt>>) = 1 /\ <<prompt>>[1] = prompt
    OBVIOUS
  <2>3. QED
    BY <2>1, <2>2, SameContext
<1>2. Append(Greedy(k), 0) = Greedy(k + 1)
  <2>1. /\ Greedy(k) \in Seq(Nat) /\ Len(Greedy(k)) = k + 1
        /\ \A i \in 1 .. k + 1 : Greedy(k)[i] = IF i = 1 THEN prompt ELSE 0
    BY GreedyContext
  <2>2. /\ Greedy(k + 1) \in Seq(Nat) /\ Len(Greedy(k + 1)) = k + 2
        /\ \A i \in 1 .. k + 2 : Greedy(k + 1)[i] = IF i = 1 THEN prompt ELSE 0
    BY GreedyContext
  <2>3. /\ Append(Greedy(k), 0) \in Seq(Nat) /\ Len(Append(Greedy(k), 0)) = k + 2
        /\ \A i \in 1 .. k + 1 : Append(Greedy(k), 0)[i] = Greedy(k)[i]
        /\ Append(Greedy(k), 0)[k + 2] = 0
    BY <2>1
  <2>4. \A i \in 1 .. k + 2 : Append(Greedy(k), 0)[i] = Greedy(k + 1)[i]
    <3>1. ASSUME NEW i \in 1 .. k + 1
          PROVE  Append(Greedy(k), 0)[i] = Greedy(k + 1)[i]
      <4>1. i \in 1 .. k + 2
        OBVIOUS
      <4>2. Greedy(k)[i] = IF i = 1 THEN prompt ELSE 0
        BY <2>1
      <4>3. Greedy(k + 1)[i] = IF i = 1 THEN prompt ELSE 0
        BY <2>2, <4>1
      <4>4. QED
        BY <2>3, <4>2, <4>3
    <3>2. Append(Greedy(k), 0)[k + 2] = Greedy(k + 1)[k + 2]
      BY <2>2, <2>3
    <3>3. \A i \in 1 .. k + 2 : i \in 1 .. k + 1 \/ i = k + 2
      OBVIOUS
    <3>4. QED
      BY <3>1, <3>2, <3>3
  <2>5. QED
    BY <2>2, <2>3, <2>4, SameContext
<1>3. QED
  BY <1>1, <1>2

\* The context of a pass, by the number of its step.
LEMMA TrajectoryIsGreedy == Trajectory = Greedy(step)
BY DEF Trajectory, Greedy

\* A pass is fed the model's own answers, on both sides.
LEMMA FedTheModelsAnswers ==
    ASSUME GateTypeOK, ContextInv, NEW s \in Sides,
           (s = "model" /\ phase = "model") \/ (s = "candidate" /\ phase = "candidate")
    PROVE  Fed(s) = Trajectory /\ Trajectory \in Seq(Nat)
<1>1. prompt \in Nat /\ step \in Nat /\ forced = 0
  BY DEF GateTypeOK
<1>2. CASE step = 0
  <2>1. Fed(s) = <<prompt>>
    BY <1>2 DEF Fed, Decoding
  <2>2. QED
    BY <1>1, <1>2, <2>1, ContextGrows, GreedyContext, TrajectoryIsGreedy
<1>3. CASE step > 0
  <2>1. step - 1 \in Nat /\ (step - 1) + 1 = step
    BY <1>1, <1>3
  <2>2. cache[s] = Greedy(step - 1)
    BY <1>3 DEF ContextInv
  <2>3. Fed(s) = Append(Greedy(step - 1), 0)
    BY <1>1, <1>3, <2>2 DEF Fed, Decoding
  <2>4. Append(Greedy(step - 1), 0) = Greedy(step)
    <3>1. Append(Greedy(step - 1), 0) = Greedy((step - 1) + 1)
      BY <1>1, <2>1, ContextGrows
    <3>2. QED
      BY <2>1, <3>1
  <2>5. QED
    BY <1>1, <2>3, <2>4, GreedyContext, TrajectoryIsGreedy
<1>4. QED
  BY <1>1, <1>2, <1>3

-----------------------------------------------------------------------------
\* Traces.

\* A pass that is traced leaves one output under each name it calls, and a
\* trace that is not running is left alone.
LEMMA PassIsRecorded ==
    ASSUME NEW t \in Traces, NEW names, NEW output \in Outputs, step \in Nat
    PROVE  /\ End(Hooked(Begin(t, Decoding), names, output)) \in Traces
           /\ ~End(Hooked(Begin(t, Decoding), names, output)).enabled
           /\ End(Hooked(Begin(t, Decoding), names, output)).values = Recorded(names, output)
<1> DEFINE b == Begin(t, Decoding)
           h == Hooked(b, names, output)
<1>0. Decoding \in BOOLEAN
  BY DEF Decoding
<1>1. b = [enabled |-> TRUE, detailed |-> Decoding,
           values |-> [name \in {"layer", "detail"} |-> <<>>]]
  <2>1. Off.values = [name \in {"layer", "detail"} |-> <<>>]
    BY DEF Off
  <2>2. b = [t EXCEPT !.values = Off.values, !.enabled = TRUE, !.detailed = Decoding]
    BY DEF Begin
  <2>3. QED
    BY <2>1, <2>2 DEF Traces
<1>2. h = [enabled |-> TRUE, detailed |-> Decoding, values |-> Recorded(names, output)]
  <2>1. [name \in {"layer", "detail"} |->
            IF name \in names /\ (Decoding \/ name = "layer")
            THEN Append(<<>>, output) ELSE <<>>] = Recorded(names, output)
    BY DEF Recorded
  <2>2. [name \in DOMAIN b.values |->
            IF name \in names /\ (b.detailed \/ name = "layer")
            THEN Append(b.values[name], output) ELSE b.values[name]]
        = [name \in {"layer", "detail"} |->
            IF name \in names /\ (Decoding \/ name = "layer")
            THEN Append(<<>>, output) ELSE <<>>]
    BY <1>1
  <2> HIDE DEF b
  <2>3. h = [b EXCEPT !.values = Recorded(names, output)]
    BY <1>1, <2>1, <2>2 DEF Hooked
  <2>4. QED
    BY <1>1, <2>3
<1> HIDE DEF b, h
<1>3. End(h) = [enabled |-> FALSE, detailed |-> Decoding, values |-> Recorded(names, output)]
  <2>1. End(h) = [h EXCEPT !.enabled = FALSE]
    BY DEF End
  <2>2. QED
    BY <1>2, <2>1
<1>4. Recorded(names, output) \in [{"layer", "detail"} -> Seq(Outputs)]
  BY DEF Recorded
<1>5. QED
  BY <1>0, <1>3, <1>4 DEF Traces, h, b

\* What compare_traces sees of one pass.
LEMMA TracesCompared ==
    ASSUME GateTypeOK, NEW far \in Distances,
           trace["model"].values = Recorded({"layer", "detail"}, [at |-> Trajectory, far |-> "close"]),
           trace["candidate"].values = Recorded(Names, [at |-> Trajectory, far |-> far])
    PROVE  LET pair == <<[at |-> Trajectory, far |-> far], [at |-> Trajectory, far |-> "close"]>>
           IN  /\ Pairs("layer") = {pair}
               /\ Pairs("detail") \subseteq {pair}
               /\ Missing \in Nat
               /\ Decoding /\ Names = {"layer"} => Missing > 0
<1> DEFINE m == [at |-> Trajectory, far |-> "close"]
           c == [at |-> Trajectory, far |-> far]
           mv == trace["model"].values
           cv == trace["candidate"].values
<1>1. Names \in {{"layer"}, {"layer", "detail"}}
  BY DEF Names
<1>2. mv["layer"] = <<m>> /\ cv["layer"] = <<c>>
  BY <1>1 DEF Recorded
<1>3. mv["detail"] = (IF Decoding THEN <<m>> ELSE <<>>)
  BY DEF Recorded
<1>4. cv["detail"] = (IF Decoding /\ "detail" \in Names THEN <<c>> ELSE <<>>)
  BY DEF Recorded
<1> HIDE DEF m, c, mv, cv
<1>5. Pairs("layer") = {<<cv["layer"][i], mv["layer"][i]>> :
                           i \in DOMAIN cv["layer"] \cap DOMAIN mv["layer"]}
  BY DEF Pairs, mv, cv
<1>6. Pairs("detail") = {<<cv["detail"][i], mv["detail"][i]>> :
                           i \in DOMAIN cv["detail"] \cap DOMAIN mv["detail"]}
  BY DEF Pairs, mv, cv
<1>7. Pairs("layer") = {<<c, m>>}
  BY <1>2, <1>5
<1>8. Pairs("detail") \subseteq {<<c, m>>}
  BY <1>3, <1>4, <1>6
<1>9. /\ Len(cv["layer"]) = 1 /\ Len(mv["layer"]) = 1
      /\ Len(mv["detail"]) = (IF Decoding THEN 1 ELSE 0)
      /\ Len(cv["detail"]) = (IF Decoding /\ "detail" \in Names THEN 1 ELSE 0)
  BY <1>2, <1>3, <1>4
<1>10. Missing \in Nat /\ (Decoding /\ Names = {"layer"} => Missing > 0)
  <2> DEFINE size(n) == IF n < 0 THEN -n ELSE n
  <2>1. Missing = size(Len(cv["layer"]) - Len(mv["layer"])) + size(Len(cv["detail"]) - Len(mv["detail"]))
    BY DEF Missing, mv, cv
  <2>2. size(Len(cv["layer"]) - Len(mv["layer"])) = 0
    BY <1>9
  <2>3. size(Len(cv["detail"]) - Len(mv["detail"]))
            = IF Decoding /\ Names = {"layer"} THEN 1 ELSE 0
    BY <1>1, <1>9
  <2>4. Decoding \in BOOLEAN
    BY DEF Decoding, GateTypeOK
  <2> HIDE DEF size
  <2>5. Missing = 0 + (IF Decoding /\ Names = {"layer"} THEN 1 ELSE 0)
    BY <2>1, <2>2, <2>3, Zenon
  <2>6. QED
    BY <2>4, <2>5
<1>11. QED
  BY <1>7, <1>8, <1>10 DEF c, m

-----------------------------------------------------------------------------
\* Counting passes: how many an interval has, and a product.
LEMMA CountedFrom ==
    ASSUME NEW n \in Nat
    PROVE  /\ IsFiniteSet(1 .. n) /\ Cardinality(1 .. n) = n
           /\ IsFiniteSet(0 .. n)
BY FS_Interval

\* A product has as many pairs as the product of the sizes.
LEMMA PairsCounted ==
    ASSUME NEW A, NEW B, IsFiniteSet(A), IsFiniteSet(B)
    PROVE  /\ IsFiniteSet(A \X B)
           /\ Cardinality(A \X B) = Cardinality(A) * Cardinality(B)
BY FS_Product

\* The passes behind and the one at hand are in the workload.
LEMMA PassSets ==
    ASSUME GateTypeOK, Looping \/ phase = "report", ContextInv
    PROVE  /\ IsFiniteSet(Workload) /\ Workload \in SUBSET Passes
           /\ Before \subseteq Workload /\ Here \in Workload /\ Here \notin Before
<1>1. /\ option.prompts \in 1 .. MaxPrompts /\ option.steps \in 1 .. MaxSteps
      /\ MaxPrompts \in Nat /\ MaxSteps \in Nat
      /\ prompt \in 1 .. option.prompts /\ step \in 0 .. option.steps
  BY GateAssumption DEF GateTypeOK, Options, ContextInv
<1>2. IsFiniteSet(1 .. option.prompts) /\ IsFiniteSet(0 .. option.steps)
  BY <1>1, CountedFrom
<1>3. IsFiniteSet(Workload)
  BY <1>2, PairsCounted DEF Workload
<1>4. Workload \in SUBSET Passes
  BY <1>1 DEF Workload, Passes
<1>5. Here \in Workload
  BY <1>1 DEF Workload, Here
<1>6. Before \subseteq Workload /\ Here \notin Before
  BY <1>1 DEF Before, Here
<1>7. QED
  BY <1>3, <1>4, <1>5, <1>6

\* One more pass that belongs to a set, or does not.
LEMMA OneMorePass ==
    ASSUME NEW A, NEW x, IsFiniteSet(A), x \notin A
    PROVE  /\ Cardinality(A) \in Nat
           /\ Cardinality(A \cup {x}) = Cardinality(A) + 1
BY FS_AddElement, FS_CardinalityType

\* How many passes of each kind a workload has.
LEMMA WorkloadSizes ==
    ASSUME GateTypeOK
    PROVE  /\ IsFiniteSet(Workload)
           /\ Cardinality({q \in Workload : ~(q[2] > 0)}) = option.prompts
           /\ Cardinality({q \in Workload : q[2] > 0}) = option.prompts * option.steps
<1>1. option.prompts \in Nat /\ option.steps \in Nat
  BY GateAssumption DEF GateTypeOK, Options
<1>2. /\ IsFiniteSet(1 .. option.prompts) /\ Cardinality(1 .. option.prompts) = option.prompts
      /\ IsFiniteSet(1 .. option.steps) /\ Cardinality(1 .. option.steps) = option.steps
      /\ IsFiniteSet(0 .. option.steps)
  BY <1>1, CountedFrom
<1>3. IsFiniteSet({0}) /\ Cardinality({0}) = 1
  BY FS_Singleton
<1>4. {q \in Workload : ~(q[2] > 0)} = (1 .. option.prompts) \X {0}
  BY <1>1 DEF Workload
<1>5. {q \in Workload : q[2] > 0} = (1 .. option.prompts) \X (1 .. option.steps)
  BY <1>1 DEF Workload
<1>6. Cardinality((1 .. option.prompts) \X {0}) = option.prompts * 1
  <2>1. Cardinality((1 .. option.prompts) \X {0})
            = Cardinality(1 .. option.prompts) * Cardinality({0})
    BY <1>2, <1>3, PairsCounted
  <2>2. QED
    BY <1>2, <1>3, <2>1
<1>7. Cardinality((1 .. option.prompts) \X (1 .. option.steps)) = option.prompts * option.steps
  <2>1. Cardinality((1 .. option.prompts) \X (1 .. option.steps))
            = Cardinality(1 .. option.prompts) * Cardinality(1 .. option.steps)
    BY <1>2, PairsCounted
  <2>2. QED
    BY <1>2, <2>1
<1>8. IsFiniteSet(Workload)
  BY <1>2, PairsCounted DEF Workload
<1>9. option.prompts * 1 = option.prompts
  BY <1>1
<1>10. QED
  BY <1>4, <1>5, <1>6, <1>7, <1>8, <1>9, Zenon

\* When the last pass is compared, what agreed and what did not are all.
LEMMA WorkloadCounted ==
    ASSUME GateTypeOK, ContextInv, CountInv, phase = "report"
    PROVE  /\ truth.passes = Workload
           /\ totals.prefill = option.prompts - Cardinality(Flips(FALSE))
           /\ totals.decode = option.prompts * option.steps - Cardinality(Flips(TRUE))
           /\ totals.decodes = option.prompts * option.steps
<1>1. option.prompts \in Nat /\ option.steps \in Nat
      /\ prompt = option.prompts /\ step = option.steps
  BY GateAssumption DEF GateTypeOK, Options, ContextInv
<1>2. Compared = Workload
  <2>1. Compared = Before \cup {Here} /\ Here \in Workload /\ Before \subseteq Workload
    BY PassSets DEF Compared
  <2>2. ASSUME NEW q \in Workload PROVE q \in Before \/ q = Here
    <3>1. PICK p \in 1 .. option.prompts, s \in 0 .. option.steps : q = <<p, s>>
      BY DEF Workload
    <3>2. p < prompt \/ (p = prompt /\ s < step) \/ (p = prompt /\ s = step)
      BY <1>1
    <3>3. QED
      BY <3>1, <3>2 DEF Before, Here
  <2>3. QED
    BY <2>1, <2>2
<1>3. truth.passes = Workload /\ truth.flips \subseteq Workload
      /\ totals.prefill = Cardinality(Alike(FALSE))
      /\ totals.decode = Cardinality(Alike(TRUE))
      /\ totals.decodes = Cardinality(Decoded)
  BY <1>2 DEF CountInv
<1> DEFINE prefills == {q \in Workload : ~(q[2] > 0)}
           decodes == {q \in Workload : q[2] > 0}
<1>4. /\ Alike(FALSE) = prefills \ Flips(FALSE) /\ prefills \cap Flips(FALSE) = Flips(FALSE)
      /\ Alike(TRUE) = decodes \ Flips(TRUE) /\ decodes \cap Flips(TRUE) = Flips(TRUE)
      /\ Decoded = decodes
  BY <1>2, <1>3 DEF Alike, Flips, Decoded
<1>5. /\ IsFiniteSet(prefills) /\ IsFiniteSet(decodes)
      /\ Cardinality(prefills) = option.prompts
      /\ Cardinality(decodes) = option.prompts * option.steps
  BY WorkloadSizes, FS_Subset
<1> HIDE DEF prefills, decodes
<1>6. Cardinality(prefills \ Flips(FALSE)) = Cardinality(prefills) - Cardinality(Flips(FALSE))
  <2>1. Cardinality(prefills \ Flips(FALSE))
            = Cardinality(prefills) - Cardinality(prefills \cap Flips(FALSE))
    BY <1>5, FS_Difference, Zenon
  <2>2. QED
    BY <1>4, <2>1
<1>7. Cardinality(decodes \ Flips(TRUE)) = Cardinality(decodes) - Cardinality(Flips(TRUE))
  <2>1. Cardinality(decodes \ Flips(TRUE))
            = Cardinality(decodes) - Cardinality(decodes \cap Flips(TRUE))
    BY <1>5, FS_Difference, Zenon
  <2>2. QED
    BY <1>4, <2>1
<1>8. QED
  BY <1>3, <1>4, <1>5, <1>6, <1>7

-----------------------------------------------------------------------------
\* The steps.

\* The command line and an empty record satisfy the invariant.
LEMMA GateStarts == GateInit => GateInv
<1> SUFFICES ASSUME GateInit PROVE GateInv
  OBVIOUS
<1>1. /\ phase = "calibrate" /\ prompt = 1 /\ step = 0 /\ verdict = "running"
      /\ truth = [passes |-> {}, flips |-> {}, nan |-> FALSE, apart |-> FALSE,
                  nll |-> 0, losses |-> 0, unlike |-> FALSE, changed |-> {}]
      /\ totals = NoTotals /\ trace = [s \in Sides |-> Off]
      /\ option \in Options /\ calibration = {} /\ installed = {} /\ touched = FALSE
      /\ cache = [s \in Sides |-> <<>>] /\ forced = 0
      /\ answer = [token |-> 0, nan |-> FALSE]
  BY DEF GateInit
<1>2. Off \in Traces
  <2>1. Off = [enabled |-> FALSE, detailed |-> FALSE,
               values |-> [name \in {"layer", "detail"} |-> <<>>]]
    BY DEF Off
  <2>2. [name \in {"layer", "detail"} |-> <<>>] \in [{"layer", "detail"} -> Seq(Outputs)]
    OBVIOUS
  <2>3. QED
    BY <2>1, <2>2 DEF Traces
<1>3. Compared = {}
  BY <1>1 DEF Compared
<1>4. GateTypeOK
  <2>1. /\ totals \in [prefill : Nat, decode : Nat, decodes : Nat,
                       nll : Int, losses : Nat, nllNaN : BOOLEAN, finite : BOOLEAN, layersClose : BOOLEAN, missing : Nat]
        /\ truth \in [passes : SUBSET Passes, flips : SUBSET Passes, nan : BOOLEAN,
                      apart : BOOLEAN, nll : Int, losses : Nat, unlike : BOOLEAN,
                      changed : SUBSET Passes]
        /\ answer \in [token : {0, 1}, nan : BOOLEAN]
    BY <1>1 DEF NoTotals
  <2>2. trace \in [Sides -> Traces] /\ cache \in [Sides -> Seq(Nat)]
    BY <1>1, <1>2
  <2>3. /\ phase = "calibrate" /\ prompt \in Nat \ {0} /\ step \in Nat
        /\ touched \in BOOLEAN /\ option \in Options /\ forced = 0
    <3>1. /\ phase = "calibrate" /\ prompt = 1 /\ step = 0 /\ touched = FALSE
          /\ option \in Options /\ forced = 0
      BY DEF GateInit
    <3>2. touched \in BOOLEAN
      BY <3>1, Zenon
    <3>3. prompt \in Nat \ {0} /\ step \in Nat
      BY <3>1
    <3>4. QED
      BY <3>1, <3>2, <3>3, Zenon
  <2> QED
    BY <2>1, <2>2, <2>3 DEF GateTypeOK
<1>5. ContextInv
  BY <1>1 DEF ContextInv, Looping
<1>6. TraceInv
  BY <1>1 DEF TraceInv, Off
<1>7. NoticeInv
  BY <1>1, <1>3 DEF NoticeInv, NoTotals
<1>8. CountInv
  <2>1. Alike(FALSE) = {} /\ Alike(TRUE) = {} /\ Decoded = {}
    BY <1>3 DEF Alike, Decoded
  <2>2. Cardinality({}) = 0
    BY FS_EmptySet
  <2>3. QED
    BY <1>1, <1>3, <2>1, <2>2 DEF CountInv, NoTotals
<1>9. CalibratedInv
  BY <1>1 DEF CalibratedInv
<1>10. VerdictInv
  BY <1>1 DEF VerdictInv
<1>11. QED
  BY <1>4, <1>5, <1>6, <1>7, <1>8, <1>9, <1>10 DEF GateInv

\* A step that moves on without touching what was counted.
LEMMA CountsStand ==
    ASSUME CountInv, phase \notin {"compare", "ended"}, phase' \notin {"compare", "ended"},
           Compared' = Compared, UNCHANGED <<option, prompt, step>>,
           truth'.passes = truth.passes, truth'.flips = truth.flips,
           totals'.prefill = totals.prefill, totals'.decode = totals.decode,
           totals'.decodes = totals.decodes
    PROVE  CountInv'
<1>1. Alike(FALSE)' = Alike(FALSE) /\ Alike(TRUE)' = Alike(TRUE) /\ Decoded' = Decoded
  BY DEF Alike, Decoded
<1>2. QED
  BY <1>1 DEF CountInv

\* Calibrating touches nothing the gate has counted.
LEMMA CalibrateKeeps == GateInv /\ Calibrate => GateInv'
<1> SUFFICES ASSUME GateInv, Calibrate PROVE GateInv'
  OBVIOUS
<1> USE DEF GateInv
<1>1. /\ phase = "calibrate" /\ phase' = "launch"
      /\ UNCHANGED <<option, installed, prompt, step, cache, trace, forced, answer,
                     touched, totals, truth, verdict>>
  BY DEF Calibrate
<1>2. Compared = {} /\ Compared' = {}
  BY <1>1 DEF Compared
<1>3. GateTypeOK'
  BY ZenonT(40), <1>1 DEF GateTypeOK, Traces, Outputs
<1>4. ContextInv'
  BY <1>1 DEF ContextInv, Looping
<1>5. TraceInv'
  BY <1>1 DEF TraceInv
<1>6. NoticeInv'
  BY <1>1, <1>2 DEF NoticeInv
<1>7. CountInv'
  BY <1>1, <1>2, CountsStand
<1>8. CalibratedInv'
  <2>1. CASE UNCHANGED <<calibration, differs>>
    BY <1>1, <2>1 DEF CalibratedInv
  <2>2. CASE \E rounding \in SUBSET (Modules \X Passes), same \in BOOLEAN,
                shared \in SUBSET (1 .. MaxPrompts), steps \in 0 .. MaxSteps :
                \E safe \in SUBSET Unchanged(rounding, shared \X (0 .. steps)) :
                   /\ calibration' = {[sameModel |-> same, passes |-> shared \X (0 .. steps),
                                       modules |-> safe]}
                   /\ differs' = {p \in Passes : \E m \in safe : <<m, p>> \in rounding}
    <3>1. PICK rounding \in SUBSET (Modules \X Passes), same \in BOOLEAN,
               shared \in SUBSET (1 .. MaxPrompts), steps \in 0 .. MaxSteps :
             \E safe \in SUBSET Unchanged(rounding, shared \X (0 .. steps)) :
             /\ calibration' = {[sameModel |-> same, passes |-> shared \X (0 .. steps),
                                 modules |-> safe]}
             /\ differs' = {p \in Passes : \E m \in safe : <<m, p>> \in rounding}
      BY <2>2
    <3> DEFINE measured == shared \X (0 .. steps)
    <3>safe. PICK safe \in SUBSET Unchanged(rounding, measured) :
             /\ calibration' = {[sameModel |-> same, passes |-> measured, modules |-> safe]}
             /\ differs' = {p \in Passes : \E m \in safe : <<m, p>> \in rounding}
      BY <3>1
    <3>2. \A c \in calibration' : c.passes = measured
      BY <3>safe
    <3>3. \A p, s \in Nat : <<p, s>> \in measured => \A t \in 0 .. s : <<p, t>> \in measured
      BY GateAssumption
    <3>4. measured \cap differs' = {}
      BY <3>safe DEF Unchanged
    <3>5. installed' = {} /\ truth'.changed = {} /\ ~touched'
      BY <1>1 DEF CalibratedInv
    <3> HIDE DEF measured
    <3>6. QED
      BY <1>1, <3>2, <3>3, <3>4, <3>5 DEF CalibratedInv
  <2>3. QED
    BY <2>1, <2>2 DEF Calibrate
<1>9. VerdictInv'
  BY <1>1 DEF VerdictInv
<1>10. QED
  BY <1>3, <1>4, <1>5, <1>6, <1>7, <1>8, <1>9

\* At the launch the candidate replaces modules and nothing is compared yet.
LEMMA LoadModelsKeeps == GateInv /\ LoadModels => GateInv'
<1> SUFFICES ASSUME GateInv, LoadModels PROVE GateInv'
  OBVIOUS
<1> USE DEF GateInv
<1>1. /\ phase = "launch" /\ phase' \in {"ended", "model"}
      /\ UNCHANGED <<option, differs, calibration, prompt, step, cache, trace, forced,
                     answer, touched, totals, truth>>
      /\ verdict' \in {verdict, "raised"}
      /\ installed' \in {installed, Replaced}
      /\ phase' = "model" => ~Refused
  BY DEF LoadModels
<1>2. prompt = 1 /\ step = 0
  BY <1>1 DEF ContextInv
<1>3. Before' = {}
  <2>1. \A q \in Workload' : q[1] \in Nat /\ q[1] >= 1 /\ q[2] \in Nat
    BY DEF Workload
  <2>2. QED
    BY <1>1, <1>2, <2>1 DEF Before
<1>4. Compared = {} /\ Compared' = {}
  BY <1>1, <1>3 DEF Compared
<1>5. GateTypeOK'
  BY ZenonT(40), <1>1 DEF GateTypeOK, Traces, Outputs
<1>6. ContextInv'
  <2>1. option.prompts \in Nat /\ option.steps \in Nat
    BY GateAssumption DEF GateTypeOK, Options
  <2>2. phase' = "model" => option.prompts > 0 /\ option.steps > 0
    BY <1>1, <2>1 DEF Refused
  <2>3. QED
    BY <1>1, <1>2, <2>1, <2>2 DEF ContextInv, Looping
<1>7. TraceInv'
  BY <1>1 DEF TraceInv
<1>8. NoticeInv'
  BY <1>1, <1>4 DEF NoticeInv
<1>9. CountInv'
  <2>1. CASE phase' = "ended"
    BY <2>1 DEF CountInv
  <2>2. CASE phase' = "model"
    BY <1>1, <1>4, <2>2, CountsStand
  <2>3. QED
    BY <1>1, <2>1, <2>2
<1>10. CalibratedInv'
  BY <1>1 DEF CalibratedInv
<1>11. VerdictInv'
  BY <1>1 DEF VerdictInv
<1>12. QED
  BY <1>5, <1>6, <1>7, <1>8, <1>9, <1>10, <1>11

\* A pass that raises ends the program without a verdict.
LEMMA PassRaisesKeeps == GateInv /\ PassRaises => GateInv'
<1> SUFFICES ASSUME GateInv, PassRaises PROVE GateInv'
  OBVIOUS
<1> USE DEF GateInv
<1>1. /\ phase \in {"model", "candidate"} /\ phase' = "ended" /\ verdict' = "raised"
      /\ UNCHANGED <<option, differs, calibration, installed, prompt, step, cache, trace,
                     forced, answer, touched, totals, truth>>
  BY DEF PassRaises
<1>2. Compared' = {}
  BY <1>1 DEF Compared
<1>3. GateTypeOK'
  BY <1>1, ZenonT(40) DEF GateTypeOK, Traces, Outputs
<1>4. ContextInv'
  BY <1>1 DEF ContextInv, Looping
<1>5. TraceInv'
  BY <1>1 DEF TraceInv
<1>6. NoticeInv'
  BY <1>1, <1>2 DEF NoticeInv
<1>7. CountInv'
  BY <1>1 DEF CountInv
<1>8. CalibratedInv'
  BY <1>1 DEF CalibratedInv
<1>9. VerdictInv'
  BY <1>1 DEF VerdictInv
<1>10. QED
  BY <1>3, <1>4, <1>5, <1>6, <1>7, <1>8, <1>9

\* The model goes first: its pass is fed its own answers and recorded alone.
LEMMA ModelPassKeeps == GateInv /\ ModelPass => GateInv'
<1> SUFFICES ASSUME GateInv, ModelPass PROVE GateInv'
  OBVIOUS
<1> USE DEF GateInv
<1> DEFINE output == [at |-> Fed("model"), far |-> "close"]
<1>1. /\ phase = "model" /\ phase' = "candidate"
      /\ UNCHANGED <<option, differs, calibration, installed, prompt, step, forced,
                     answer, touched, totals, truth, verdict>>
      /\ cache' = [cache EXCEPT !["model"] = Fed("model")]
      /\ trace' = [trace EXCEPT !["model"] =
                      IF Traced THEN End(Hooked(Begin(@, Decoding), {"layer", "detail"}, output))
                      ELSE @]
  BY DEF ModelPass
<1>2. /\ Compared' = Compared /\ Trajectory' = Trajectory /\ Traced' = Traced
      /\ Decoding' = Decoding
  BY <1>1 DEF Compared, Before, Workload, Here, Trajectory, Traced, Decoding
<1>3. Fed("model") = Trajectory /\ Trajectory \in Seq(Nat)
  BY <1>1, FedTheModelsAnswers DEF Sides
<1>4. output \in Outputs /\ output = [at |-> Trajectory, far |-> "close"]
  BY <1>3 DEF Outputs, Distances
<1> DEFINE traced == End(Hooked(Begin(trace["model"], Decoding), {"layer", "detail"}, output))
<1>5. trace \in [Sides -> Traces] /\ cache \in [Sides -> Seq(Nat)] /\ step \in Nat
  BY DEF GateTypeOK
<1>6. /\ traced \in Traces /\ ~traced.enabled
      /\ traced.values = Recorded({"layer", "detail"}, output)
  <2>1. trace["model"] \in Traces
    BY <1>5 DEF Sides
  <2>2. QED
    BY <1>4, <1>5, <2>1, PassIsRecorded
<1> HIDE DEF output, traced
<1>7. /\ trace'["model"] = (IF Traced THEN traced ELSE trace["model"])
      /\ trace'["candidate"] = trace["candidate"]
      /\ trace' \in [Sides -> Traces]
  BY <1>1, <1>5, <1>6 DEF Sides, traced, output
<1>8. /\ cache'["model"] = Trajectory /\ cache'["candidate"] = cache["candidate"]
      /\ cache' \in [Sides -> Seq(Nat)]
  BY <1>1, <1>3, <1>5 DEF Sides
<1>9. GateTypeOK'
  BY <1>1, <1>7, <1>8 DEF GateTypeOK
<1>10. ContextInv'
  <2>1. Greedy(step - 1)' = Greedy(step - 1)
    BY <1>1 DEF Greedy
  <2>2. QED
    BY <1>1, <1>2, <1>8, <2>1 DEF ContextInv, Looping
<1>11. TraceInv'
  <2>1. \A s \in Sides : ~trace'[s].enabled
    BY <1>6, <1>7 DEF TraceInv, Sides
  <2>2. Traced => trace'["model"].values
            = Recorded({"layer", "detail"}, [at |-> Trajectory, far |-> "close"])
    BY <1>4, <1>6, <1>7
  <2>3. Recorded({"layer", "detail"}, [at |-> Trajectory, far |-> "close"])'
            = Recorded({"layer", "detail"}, [at |-> Trajectory, far |-> "close"])
    BY <1>2 DEF Recorded
  <2>4. QED
    BY <1>1, <1>2, <2>1, <2>2, <2>3 DEF TraceInv
<1>12. NoticeInv'
  BY <1>1, <1>2 DEF NoticeInv
<1>13. CountInv'
  BY <1>1, <1>2, CountsStand
<1>14. CalibratedInv'
  BY <1>1 DEF CalibratedInv
<1>15. VerdictInv'
  BY <1>1 DEF VerdictInv
<1>16. QED
  BY <1>9, <1>10, <1>11, <1>12, <1>13, <1>14, <1>15

\* A calibrated candidate leaves the model in a pass nobody measured.
LEMMA DiffersUnmeasured ==
    ASSUME GateTypeOK, CalibratedInv, Differs, NEW c \in calibration
    PROVE  <<prompt, step>> \notin c.passes
<1>1. prompt \in Nat /\ step \in Nat
  BY DEF GateTypeOK
<1>2. PICK s \in 0 .. step : <<prompt, s>> \in differs
  <2>1. CASE touched
    BY <2>1 DEF CalibratedInv
  <2>2. CASE <<prompt, step>> \in differs
    BY <1>1, <2>2
  <2>3. QED
    BY <2>1, <2>2 DEF Differs
<1>3. <<prompt, s>> \notin c.passes
  BY <1>2 DEF CalibratedInv
<1>4. QED
  BY <1>1, <1>2, <1>3 DEF CalibratedInv

\* The candidate follows; what it really did is what is now to be compared.
LEMMA CandidatePassKeeps == GateInv /\ CandidatePass => GateInv'
<1> SUFFICES ASSUME GateInv, CandidatePass PROVE GateInv'
  OBVIOUS
<1> USE DEF GateInv
<1>1. /\ phase = "candidate" /\ phase' = "compare"
      /\ UNCHANGED <<option, differs, calibration, installed, prompt, step, forced,
                     totals, verdict>>
      /\ touched' = (touched \/ Differs)
      /\ cache' = [cache EXCEPT !["candidate"] = Fed("candidate")]
  BY DEF CandidatePass
<1>2. PICK token \in IF Differs THEN {0, 1} ELSE {0},
           far \in IF Differs THEN {"close", "apart", NaN} ELSE {"close"},
           nan \in IF Differs THEN BOOLEAN ELSE {FALSE} :
          /\ answer' = [token |-> token, nan |-> nan]
          /\ trace' = [trace EXCEPT !["candidate"] =
                          IF Traced THEN End(Hooked(Begin(@, Decoding), Names,
                                                    [at |-> Fed("candidate"), far |-> far]))
                          ELSE @]
          /\ truth' =
                [truth EXCEPT !.passes = @ \cup {<<prompt, step>>},
                              !.flips = IF token = 1 THEN @ \cup {<<prompt, step>>} ELSE @,
                              !.nan = @ \/ nan \/ (Traced /\ far = NaN),
                              !.apart = @ \/ (Traced /\ far = "apart"),
                              !.changed = IF Differs THEN @ \cup {<<prompt, step>>} ELSE @]
  BY DEF CandidatePass
<1>drawn. token \in {0, 1} /\ far \in Distances /\ nan \in BOOLEAN
  BY <1>2 DEF Distances
<1> DEFINE output == [at |-> Fed("candidate"), far |-> far]
           traced == End(Hooked(Begin(trace["candidate"], Decoding), Names, output))
<1>3. /\ Compared' = Compared /\ Trajectory' = Trajectory /\ Traced' = Traced
      /\ Decoding' = Decoding /\ Names' = Names /\ Here' = Here
  BY <1>1 DEF Compared, Before, Workload, Here, Trajectory, Traced, Decoding, Names
<1>4. Fed("candidate") = Trajectory /\ Trajectory \in Seq(Nat)
  BY <1>1, FedTheModelsAnswers DEF Sides
<1>5. output \in Outputs /\ output = [at |-> Trajectory, far |-> far]
  BY <1>4, <1>drawn DEF Outputs
<1>6. /\ trace \in [Sides -> Traces] /\ cache \in [Sides -> Seq(Nat)] /\ step \in Nat
      /\ truth \in [passes : SUBSET Passes, flips : SUBSET Passes, nan : BOOLEAN,
                    apart : BOOLEAN, nll : Int, losses : Nat, unlike : BOOLEAN,
                    changed : SUBSET Passes]
      /\ touched \in BOOLEAN
  BY DEF GateTypeOK
<1>7. /\ traced \in Traces /\ ~traced.enabled
      /\ traced.values = Recorded(Names, output)
  <2>1. trace["candidate"] \in Traces
    BY <1>6 DEF Sides
  <2>2. QED
    BY <1>5, <1>6, <2>1, PassIsRecorded
<1>8. /\ trace'["candidate"] = (IF Traced THEN traced ELSE trace["candidate"])
      /\ trace'["model"] = trace["model"]
      /\ trace' \in [Sides -> Traces]
  <2>1. trace' = [trace EXCEPT !["candidate"] = IF Traced THEN traced ELSE trace["candidate"]]
    BY <1>2
  <2> HIDE DEF traced, output
  <2>2. QED
    BY <1>6, <1>7, <2>1 DEF Sides
<1> HIDE DEF output, traced
<1>9. /\ cache'["candidate"] = Trajectory /\ cache'["model"] = cache["model"]
      /\ cache' \in [Sides -> Seq(Nat)]
  BY <1>1, <1>4, <1>6 DEF Sides
<1>10. /\ Here \in Passes /\ Here \notin Before /\ Here = <<prompt, step>> /\ Compared = Before
  BY <1>1, PassSets DEF Looping, Here, Compared
<1>11. Traced \in BOOLEAN /\ Differs \in BOOLEAN
  BY <1>6 DEF Traced, Differs
<1>12. /\ truth'.passes = truth.passes \cup {Here}
       /\ truth'.flips = IF token = 1 THEN truth.flips \cup {Here} ELSE truth.flips
       /\ truth'.nan = (truth.nan \/ nan \/ (Traced /\ far = NaN))
       /\ truth'.apart = (truth.apart \/ (Traced /\ far = "apart"))
       /\ truth'.changed = IF Differs THEN truth.changed \cup {Here} ELSE truth.changed
       /\ truth'.nll = truth.nll /\ truth'.losses = truth.losses
       /\ truth'.unlike = truth.unlike
  BY <1>2, <1>6, <1>10
<1>13. truth' \in [passes : SUBSET Passes, flips : SUBSET Passes, nan : BOOLEAN,
                   apart : BOOLEAN, nll : Int, losses : Nat, unlike : BOOLEAN,
                   changed : SUBSET Passes]
  <2> DEFINE flips == IF token = 1 THEN truth.flips \cup {Here} ELSE truth.flips
             passes == truth.passes \cup {Here}
             changed == IF Differs THEN truth.changed \cup {Here} ELSE truth.changed
  <2>1. /\ flips \in SUBSET Passes /\ passes \in SUBSET Passes
        /\ changed \in SUBSET Passes
    BY <1>6, <1>10
  <2> HIDE DEF flips, passes, changed
  <2>2. truth' = [truth EXCEPT !.passes = passes, !.flips = flips,
                               !.nan = @ \/ nan \/ (Traced /\ far = NaN),
                               !.apart = @ \/ (Traced /\ far = "apart"),
                               !.changed = changed]
    BY <1>2, <1>10 DEF flips, passes, changed
  <2>3. QED
    BY <1>6, <1>11, <2>1, <2>2
<1>14. GateTypeOK'
  <2>1. touched' \in BOOLEAN
    BY <1>1, <1>6, <1>11
  <2>2. answer' \in [token : {0, 1}, nan : BOOLEAN]
    BY <1>2, <1>drawn
  <2>3. QED
    BY <1>1, <1>8, <1>9, <1>13, <2>1, <2>2 DEF GateTypeOK
<1>15. ContextInv'
  BY <1>1, <1>3, <1>9 DEF ContextInv, Looping
<1>16. TraceInv'
  <2>1. \A s \in Sides : ~trace'[s].enabled
    BY <1>7, <1>8 DEF TraceInv, Sides
  <2>2. Traced =>
            /\ trace'["model"].values
                 = Recorded({"layer", "detail"}, [at |-> Trajectory, far |-> "close"])
            /\ trace'["candidate"].values = Recorded(Names, [at |-> Trajectory, far |-> far])
    BY <1>1, <1>5, <1>7, <1>8 DEF TraceInv
  <2>3. /\ Recorded({"layer", "detail"}, [at |-> Trajectory, far |-> "close"])'
             = Recorded({"layer", "detail"}, [at |-> Trajectory, far |-> "close"])
        /\ \A f \in Distances : Recorded(Names, [at |-> Trajectory, far |-> f])'
             = Recorded(Names, [at |-> Trajectory, far |-> f])
    BY <1>3 DEF Recorded
  <2>4. Traced =>
            /\ truth'.nan => ~totals'.finite \/ totals'.nllNaN \/ answer'.nan \/ far = NaN
            /\ truth'.apart => ~totals'.layersClose \/ far = "apart"
    <3>1. /\ truth.nan => ~totals.finite \/ totals.nllNaN
          /\ truth.apart => ~totals.layersClose
      BY <1>1 DEF NoticeInv
    <3>2. answer'.nan = nan
      BY <1>2
    <3>3. QED
      BY <1>1, <1>12, <3>1, <3>2
  <2>5. far \in Distances
    BY <1>drawn
  <2>6. Traced => \E f \in Distances :
            /\ trace'["candidate"].values = Recorded(Names, [at |-> Trajectory, far |-> f])'
            /\ truth'.nan => ~totals'.finite \/ totals'.nllNaN \/ answer'.nan \/ f = NaN
            /\ truth'.apart => ~totals'.layersClose \/ f = "apart"
    BY <2>2, <2>3, <2>4, <2>5
  <2>7. QED
    BY <1>1, <1>3, <2>1, <2>2, <2>3, <2>6 DEF TraceInv
<1>17. NoticeInv'
  <2>1. /\ truth.nan => ~totals.finite \/ totals.nllNaN
        /\ truth.apart => ~totals.layersClose
        /\ ~truth.unlike /\ truth.nll = totals.nll /\ truth.losses = totals.losses
        /\ option.candidate = "fast-residual-rms" /\ option.traced > 0 /\ <<1, 1>> \in Compared =>
             totals.missing > 0
    BY <1>1 DEF NoticeInv
  <2>2. answer'.nan = nan
    BY <1>2
  <2>3. ~Traced => /\ truth'.nan => ~totals'.finite \/ totals'.nllNaN \/ answer'.nan
                   /\ truth'.apart => ~totals'.layersClose
    BY <1>1, <1>12, <2>1, <2>2
  <2>4. QED
    BY <1>1, <1>3, <1>12, <2>1, <2>3 DEF NoticeInv
<1>18. CountInv'
  <2>1. truth.passes = Compared /\ truth.flips \subseteq Compared
    BY <1>1 DEF CountInv
  <2>2. truth'.passes = Compared' \cup {Here'} /\ truth'.flips \subseteq truth'.passes
    BY <1>3, <1>12, <2>1
  <2>3. Here' \in truth'.flips <=> answer'.token = 1
    BY <1>2, <1>3, <1>10, <1>12, <2>1
  <2>4. \A q \in Compared : q \in truth'.flips <=> q \in truth.flips
    BY <1>10, <1>12
  <2>5. Alike(FALSE)' = Alike(FALSE) /\ Alike(TRUE)' = Alike(TRUE) /\ Decoded' = Decoded
    BY <1>3, <2>4 DEF Alike, Decoded
  <2>6. QED
    BY <1>1, <2>2, <2>3, <2>5 DEF CountInv
<1>19. CalibratedInv'
  <2>1. ASSUME touched' PROVE \E s \in 0 .. step : <<prompt, s>> \in differs
    <3>1. step \in 0 .. step
      BY <1>6
    <3>2. QED
      BY <1>1, <2>1, <3>1 DEF CalibratedInv, Differs
  <2>2. ASSUME NEW c \in calibration PROVE truth'.changed \cap c.passes = {}
    <3>1. truth.changed \cap c.passes = {}
      BY DEF CalibratedInv
    <3>2. Differs => Here \notin c.passes
      BY <1>10, DiffersUnmeasured
    <3>3. QED
      BY <1>12, <3>1, <3>2
  <2>3. QED
    BY <1>1, <2>1, <2>2 DEF CalibratedInv
<1>20. VerdictInv'
  BY <1>1 DEF VerdictInv
<1>21. QED
  BY <1>14, <1>15, <1>16, <1>17, <1>18, <1>19, <1>20

\* A pass compared is added to what it agreed in.
LEMMA PassCounted ==
    ASSUME GateTypeOK, ContextInv, CountInv, phase = "compare", phase' \in {"loss", "next"},
           UNCHANGED <<option, prompt, step>>,
           truth'.passes = truth.passes, truth'.flips = truth.flips
    PROVE  LET same == IF answer.token = 0 THEN 1 ELSE 0
           IN  /\ truth'.passes = Compared' /\ truth'.flips \subseteq truth'.passes
               /\ Cardinality(Alike(FALSE))' =
                    Cardinality(Alike(FALSE)) + (IF Decoding THEN 0 ELSE same)
               /\ Cardinality(Alike(TRUE))' =
                    Cardinality(Alike(TRUE)) + (IF Decoding THEN same ELSE 0)
               /\ Cardinality(Decoded)' = Cardinality(Decoded) + (IF Decoding THEN 1 ELSE 0)
               /\ Cardinality(Alike(FALSE)) \in Nat /\ Cardinality(Alike(TRUE)) \in Nat
               /\ Cardinality(Decoded) \in Nat
<1>1. /\ IsFiniteSet(Workload) /\ Before \subseteq Workload /\ Here \notin Before
      /\ Compared = Before
  BY PassSets DEF Looping, Compared
<1>2. Compared' = Compared \cup {Here}
  BY <1>1 DEF Compared, Before, Workload, Here
<1>3. /\ truth'.passes = Compared' /\ truth'.flips \subseteq truth'.passes
      /\ (Here \in truth'.flips <=> answer.token = 1) /\ truth'.flips = truth.flips
  BY <1>2 DEF CountInv
<1>4. answer.token \in {0, 1} /\ Here[2] = step /\ Decoding \in BOOLEAN
  BY DEF GateTypeOK, Here, Decoding
<1>5. IsFiniteSet(Compared) /\ Here \notin Compared
  BY <1>1, FS_Subset
<1>6. ASSUME NEW d \in BOOLEAN
      PROVE  Alike(d)' = IF answer.token = 0 /\ (Decoding <=> d)
                         THEN Alike(d) \cup {Here} ELSE Alike(d)
  BY <1>2, <1>3, <1>4 DEF Alike, Decoding
<1>7. Decoded' = IF Decoding THEN Decoded \cup {Here} ELSE Decoded
  BY <1>2, <1>4 DEF Decoded, Decoding
<1>8. \A d \in BOOLEAN : IsFiniteSet(Alike(d)) /\ Here \notin Alike(d)
  BY <1>5, FS_Subset DEF Alike
<1>9. IsFiniteSet(Decoded) /\ Here \notin Decoded
  BY <1>5, FS_Subset DEF Decoded
<1>10. ASSUME NEW d \in BOOLEAN
       PROVE  /\ Cardinality(Alike(d)) \in Nat
              /\ Cardinality(Alike(d) \cup {Here}) = Cardinality(Alike(d)) + 1
  BY <1>8, OneMorePass
<1>11. Cardinality(Decoded) \in Nat /\ Cardinality(Decoded \cup {Here}) = Cardinality(Decoded) + 1
  BY <1>9, OneMorePass
<1>12. /\ Alike(FALSE)' = IF answer.token = 0 /\ ~Decoding
                          THEN Alike(FALSE) \cup {Here} ELSE Alike(FALSE)
       /\ Alike(TRUE)' = IF answer.token = 0 /\ Decoding
                         THEN Alike(TRUE) \cup {Here} ELSE Alike(TRUE)
  BY <1>4, <1>6
<1>13. /\ Cardinality(Alike(FALSE)') = Cardinality(Alike(FALSE))
             + (IF answer.token = 0 /\ ~Decoding THEN 1 ELSE 0)
       /\ Cardinality(Alike(TRUE)') = Cardinality(Alike(TRUE))
             + (IF answer.token = 0 /\ Decoding THEN 1 ELSE 0)
       /\ Cardinality(Decoded') = Cardinality(Decoded) + (IF Decoding THEN 1 ELSE 0)
  <2>1. Cardinality(Alike(FALSE)') = Cardinality(Alike(FALSE))
             + (IF answer.token = 0 /\ ~Decoding THEN 1 ELSE 0)
    <3>1. /\ Cardinality(Alike(FALSE)) \in Nat
          /\ Cardinality(Alike(FALSE) \cup {Here}) = Cardinality(Alike(FALSE)) + 1
      BY <1>10
    <3>2. CASE answer.token = 0 /\ ~Decoding
      <4>1. Alike(FALSE)' = Alike(FALSE) \cup {Here}
        BY <1>12, <3>2
      <4>2. QED
        BY <3>1, <3>2, <4>1
    <3>3. CASE ~(answer.token = 0 /\ ~Decoding)
      <4>1. Alike(FALSE)' = Alike(FALSE)
        BY <1>12, <3>3
      <4>2. (IF answer.token = 0 /\ ~Decoding THEN 1 ELSE 0) = 0
        BY <3>3
      <4>3. \A n \in Nat : n + 0 = n
        OBVIOUS
      <4>4. QED
        BY <3>1, <4>1, <4>2, <4>3, Zenon
    <3>4. QED
      BY <3>2, <3>3
  <2>2. Cardinality(Alike(TRUE)') = Cardinality(Alike(TRUE))
             + (IF answer.token = 0 /\ Decoding THEN 1 ELSE 0)
    <3>1. /\ Cardinality(Alike(TRUE)) \in Nat
          /\ Cardinality(Alike(TRUE) \cup {Here}) = Cardinality(Alike(TRUE)) + 1
      BY <1>10
    <3>2. CASE answer.token = 0 /\ Decoding
      <4>1. Alike(TRUE)' = Alike(TRUE) \cup {Here}
        BY <1>12, <3>2
      <4>2. QED
        BY <3>1, <3>2, <4>1
    <3>3. CASE ~(answer.token = 0 /\ Decoding)
      <4>1. Alike(TRUE)' = Alike(TRUE)
        BY <1>12, <3>3
      <4>2. (IF answer.token = 0 /\ Decoding THEN 1 ELSE 0) = 0
        BY <3>3
      <4>3. \A n \in Nat : n + 0 = n
        OBVIOUS
      <4>4. QED
        BY <3>1, <4>1, <4>2, <4>3, Zenon
    <3>4. QED
      BY <3>2, <3>3
  <2>3. Cardinality(Decoded') = Cardinality(Decoded) + (IF Decoding THEN 1 ELSE 0)
    BY <1>7, <1>11
  <2>4. QED
    BY <2>1, <2>2, <2>3
<1>14. QED
  BY <1>3, <1>4, <1>10, <1>11, <1>13

\* What the totals become, and that nothing traced was of another context.
LEMMA TotalsCompared ==
    ASSUME GateTypeOK, ContextInv, TraceInv, phase = "compare", Traced
    PROVE  /\ Missing \in Nat
           /\ Decoding /\ Names = {"layer"} => Missing > 0
           /\ \E far \in Distances :
                /\ CompareTraces(totals) =
                      [totals EXCEPT !.missing = @ + Missing,
                                     !.finite = @ /\ far # NaN,
                                     !.layersClose = @ /\ far # "apart"]
                /\ truth.nan => ~totals.finite \/ totals.nllNaN \/ answer.nan \/ far = NaN
                /\ truth.apart => ~totals.layersClose \/ far = "apart"
           /\ \A x \in Pairs("layer") \cup Pairs("detail") :
                x[1].at = Trajectory /\ x[2].at = Trajectory
<1>1. PICK far \in Distances :
          /\ trace["candidate"].values = Recorded(Names, [at |-> Trajectory, far |-> far])
          /\ truth.nan => ~totals.finite \/ totals.nllNaN \/ answer.nan \/ far = NaN
          /\ truth.apart => ~totals.layersClose \/ far = "apart"
  BY DEF TraceInv
<1>2. trace["model"].values
          = Recorded({"layer", "detail"}, [at |-> Trajectory, far |-> "close"])
  BY DEF TraceInv
<1> DEFINE pair == <<[at |-> Trajectory, far |-> far], [at |-> Trajectory, far |-> "close"]>>
<1>3. /\ Pairs("layer") = {pair} /\ Pairs("detail") \subseteq {pair}
      /\ Missing \in Nat /\ (Decoding /\ Names = {"layer"} => Missing > 0)
  BY <1>1, <1>2, TracesCompared
<1>4. pair[1].far = far /\ pair[1].at = Trajectory /\ pair[2].at = Trajectory
  OBVIOUS
<1> HIDE DEF pair
<1>5. Pairs("layer") \cup Pairs("detail") = {pair}
  BY <1>3
<1>6. /\ (\A x \in Pairs("layer") \cup Pairs("detail") : x[1].far # NaN) = (far # NaN)
      /\ (\A x \in Pairs("layer") : x[1].far # "apart") = (far # "apart")
  BY <1>3, <1>4, <1>5
<1>7. CompareTraces(totals) =
          [totals EXCEPT !.missing = @ + Missing, !.finite = @ /\ far # NaN,
                         !.layersClose = @ /\ far # "apart"]
  BY <1>6 DEF CompareTraces
<1>8. QED
  BY <1>1, <1>3, <1>4, <1>5, <1>7

\* The comparison notices what happened in the pass, and counts it once.
LEMMA CompareKeeps == GateInv /\ Compare => GateInv'
<1> SUFFICES ASSUME GateInv, Compare PROVE GateInv'
  OBVIOUS
<1> USE DEF GateInv
<1> DEFINE same == IF answer.token = 0 THEN 1 ELSE 0
           traced == IF Traced THEN CompareTraces(totals) ELSE totals
           apart == \/ \E s \in Sides : cache[s] # Trajectory
                    \/ Traced /\ \E x \in Pairs("layer") \cup Pairs("detail") :
                                    x[1].at # Trajectory \/ x[2].at # Trajectory
<1>1. /\ phase = "compare" /\ phase' \in {"loss", "next"} /\ forced' = 0
      /\ UNCHANGED <<option, differs, calibration, installed, prompt, step, cache,
                     trace, answer, touched, verdict>>
      /\ totals' = [traced EXCEPT !.finite = @ /\ ~answer.nan,
                                  !.prefill = @ + (IF Decoding THEN 0 ELSE same),
                                  !.decode = @ + (IF Decoding THEN same ELSE 0),
                                  !.decodes = @ + (IF Decoding THEN 1 ELSE 0)]
      /\ truth' = [truth EXCEPT !.unlike = @ \/ apart]
  BY DEF Compare
<1>2. /\ totals \in [prefill : Nat, decode : Nat, decodes : Nat,
                     nll : Int, losses : Nat, nllNaN : BOOLEAN, finite : BOOLEAN, layersClose : BOOLEAN, missing : Nat]
      /\ truth \in [passes : SUBSET Passes, flips : SUBSET Passes, nan : BOOLEAN,
                    apart : BOOLEAN, nll : Int, losses : Nat, unlike : BOOLEAN,
                    changed : SUBSET Passes]
      /\ answer.nan \in BOOLEAN /\ answer.token \in {0, 1}
      /\ Traced \in BOOLEAN /\ Decoding \in BOOLEAN
  BY DEF GateTypeOK, Traced, Decoding
\* What comparing the traces makes of the totals.
<1>3. PICK gap \in Nat, far \in Distances :
          /\ traced = [totals EXCEPT !.missing = @ + gap, !.finite = @ /\ far # NaN,
                                     !.layersClose = @ /\ far # "apart"]
          /\ truth.nan => ~totals.finite \/ totals.nllNaN \/ answer.nan \/ far = NaN
          /\ truth.apart => ~totals.layersClose \/ far = "apart"
          /\ Traced /\ Decoding /\ Names = {"layer"} => gap > 0
  <2>1. CASE Traced
    <3>1. /\ Missing \in Nat
          /\ Decoding /\ Names = {"layer"} => Missing > 0
          /\ \E far \in Distances :
               /\ CompareTraces(totals) =
                     [totals EXCEPT !.missing = @ + Missing, !.finite = @ /\ far # NaN,
                                    !.layersClose = @ /\ far # "apart"]
               /\ truth.nan => ~totals.finite \/ totals.nllNaN \/ answer.nan \/ far = NaN
               /\ truth.apart => ~totals.layersClose \/ far = "apart"
      BY <1>1, <2>1, TotalsCompared
    <3>2. QED
      BY <2>1, <3>1
  <2>2. CASE ~Traced
    <3>1. /\ truth.nan => ~totals.finite \/ totals.nllNaN \/ answer.nan
          /\ truth.apart => ~totals.layersClose
      BY <1>1, <2>2 DEF NoticeInv
    <3>2. 0 \in Nat /\ "close" \in Distances /\ "close" # NaN /\ "close" # "apart"
      BY DEF Distances, NaN
    <3>3. totals = [totals EXCEPT !.missing = @ + 0, !.finite = @ /\ "close" # NaN,
                                  !.layersClose = @ /\ "close" # "apart"]
      <4>1. /\ totals.missing + 0 = totals.missing
            /\ (totals.finite /\ "close" # NaN) = totals.finite
            /\ (totals.layersClose /\ "close" # "apart") = totals.layersClose
        BY <1>2, <3>2
      <4>2. QED
        BY <1>2, <4>1
    <3>4. traced = totals
      BY <2>2
    <3> HIDE DEF traced
    <3>5. /\ traced = [totals EXCEPT !.missing = @ + 0, !.finite = @ /\ "close" # NaN,
                                      !.layersClose = @ /\ "close" # "apart"]
          /\ truth.nan => ~totals.finite \/ totals.nllNaN \/ answer.nan \/ "close" = NaN
          /\ truth.apart => ~totals.layersClose \/ "close" = "apart"
          /\ Traced /\ Decoding /\ Names = {"layer"} => 0 > 0
      BY <2>2, <3>1, <3>3, <3>4
    <3>6. QED
      BY <3>2, <3>5, Zenon
  <2>3. QED
    BY <2>1, <2>2
<1>4. ~apart
  <2>1. \A s \in Sides : cache[s] = Trajectory
    BY <1>1 DEF ContextInv, Sides
  <2>2. Traced => \A x \in Pairs("layer") \cup Pairs("detail") :
                     x[1].at = Trajectory /\ x[2].at = Trajectory
    BY <1>1, TotalsCompared
  <2>3. QED
    BY <2>1, <2>2
<1> HIDE DEF traced, apart
<1>5. truth' = truth
  <2>1. (truth.unlike \/ apart) = truth.unlike
    BY <1>2, <1>4
  <2>2. QED
    BY <1>1, <1>2, <2>1
<1>6. same \in Nat
  OBVIOUS
<1> HIDE DEF same
<1>7. /\ totals'.finite = (totals.finite /\ far # NaN /\ ~answer.nan)
      /\ totals'.layersClose = (totals.layersClose /\ far # "apart")
      /\ totals'.missing = totals.missing + gap
      /\ totals'.nll = totals.nll /\ totals'.losses = totals.losses
      /\ totals'.nllNaN = totals.nllNaN
      /\ totals'.prefill = totals.prefill + (IF Decoding THEN 0 ELSE same)
      /\ totals'.decode = totals.decode + (IF Decoding THEN same ELSE 0)
      /\ totals'.decodes = totals.decodes + (IF Decoding THEN 1 ELSE 0)
      /\ totals' \in [prefill : Nat, decode : Nat, decodes : Nat,
                      nll : Int, losses : Nat, nllNaN : BOOLEAN, finite : BOOLEAN, layersClose : BOOLEAN, missing : Nat]
  <2> DEFINE finite == totals.finite /\ far # NaN
             close == totals.layersClose /\ far # "apart"
             missing == totals.missing + gap
  <2>1. finite \in BOOLEAN /\ close \in BOOLEAN /\ missing \in Nat
    BY <1>2, <1>3
  <2>2. traced = [totals EXCEPT !.missing = missing, !.finite = finite, !.layersClose = close]
    BY <1>3
  <2> HIDE DEF finite, close, missing
  <2>3. /\ traced.finite = finite /\ traced.layersClose = close /\ traced.missing = missing
        /\ traced.nll = totals.nll /\ traced.losses = totals.losses
        /\ traced.nllNaN = totals.nllNaN
        /\ traced.prefill = totals.prefill /\ traced.decode = totals.decode
        /\ traced.decodes = totals.decodes
        /\ traced \in [prefill : Nat, decode : Nat, decodes : Nat,
                       nll : Int, losses : Nat, nllNaN : BOOLEAN, finite : BOOLEAN, layersClose : BOOLEAN, missing : Nat]
    BY <1>2, <2>1, <2>2
  <2> DEFINE known == finite /\ ~answer.nan
             started == totals.prefill + (IF Decoding THEN 0 ELSE same)
             matched == totals.decode + (IF Decoding THEN same ELSE 0)
             decodes == totals.decodes + (IF Decoding THEN 1 ELSE 0)
  <2>4. known \in BOOLEAN /\ started \in Nat /\ matched \in Nat /\ decodes \in Nat
    BY <1>2, <1>6, <2>1
  <2>5. totals' = [traced EXCEPT !.finite = known, !.prefill = started, !.decode = matched,
                                 !.decodes = decodes]
    BY <1>1, <2>3
  <2> HIDE DEF known, started, matched, decodes
  <2>6. /\ totals'.finite = known /\ totals'.layersClose = close /\ totals'.missing = missing
        /\ totals'.nll = totals.nll /\ totals'.losses = totals.losses
        /\ totals'.nllNaN = totals.nllNaN
        /\ totals'.prefill = started /\ totals'.decode = matched /\ totals'.decodes = decodes
        /\ totals' \in [prefill : Nat, decode : Nat, decodes : Nat,
                        nll : Int, losses : Nat, nllNaN : BOOLEAN, finite : BOOLEAN, layersClose : BOOLEAN, missing : Nat]
    BY <2>1, <2>3, <2>4, <2>5
  <2>7. QED
    BY <2>6 DEF finite, close, missing, known, started, matched, decodes
<1>8. /\ Trajectory' = Trajectory /\ Compared' = Before \cup {Here} /\ Compared = Before
  BY <1>1 DEF Compared, Before, Workload, Here, Trajectory
<1>9. GateTypeOK'
  BY <1>1, <1>5, <1>7 DEF GateTypeOK, Traces, Outputs
<1>10. ContextInv'
  BY <1>1, <1>8 DEF ContextInv, Looping
<1>11. TraceInv'
  BY <1>1 DEF TraceInv
<1>12. NoticeInv'
  <2>1. ~truth'.unlike /\ truth'.nll = totals'.nll /\ truth'.losses = totals'.losses
    BY <1>5, <1>7 DEF NoticeInv
  <2>2. /\ truth'.nan => ~totals'.finite \/ totals'.nllNaN
        /\ truth'.apart => ~totals'.layersClose
    BY <1>3, <1>5, <1>7
  <2>3. ASSUME option.candidate = "fast-residual-rms", option.traced > 0,
               <<1, 1>> \in Compared \cup {Here}
        PROVE  totals'.missing > 0
    <3>1. CASE <<1, 1>> \in Compared
      BY <1>2, <1>7, <2>3, <3>1 DEF NoticeInv
    <3>2. CASE <<1, 1>> = Here
      <4>1. prompt = 1 /\ step = 1
        BY <3>2 DEF Here
      <4>2. Traced /\ Decoding /\ Names = {"layer"}
        BY GateAssumption, <2>3, <4>1 DEF Traced, Decoding, Names, GateTypeOK, Options
      <4>3. QED
        BY <1>2, <1>3, <1>7, <4>2
    <3>3. QED
      BY <2>3, <3>1, <3>2
  <2>4. QED
    BY <1>1, <1>8, <2>1, <2>2, <2>3 DEF NoticeInv
<1>13. CountInv'
  <2>1. /\ truth'.passes = Compared' /\ truth'.flips \subseteq truth'.passes
        /\ Cardinality(Alike(FALSE))' =
             Cardinality(Alike(FALSE)) + (IF Decoding THEN 0 ELSE same)
        /\ Cardinality(Alike(TRUE))' =
             Cardinality(Alike(TRUE)) + (IF Decoding THEN same ELSE 0)
        /\ Cardinality(Decoded)' = Cardinality(Decoded) + (IF Decoding THEN 1 ELSE 0)
    BY <1>1, <1>5, PassCounted DEF same
  <2>2. /\ totals.prefill = Cardinality(Alike(FALSE))
        /\ totals.decode = Cardinality(Alike(TRUE))
        /\ totals.decodes = Cardinality(Decoded)
    BY <1>1 DEF CountInv
  <2>3. /\ totals'.prefill = Cardinality(Alike(FALSE))'
        /\ totals'.decode = Cardinality(Alike(TRUE))'
        /\ totals'.decodes = Cardinality(Decoded)'
    BY <1>7, <2>1, <2>2
  <2>4. phase' # "compare" /\ phase' # "ended"
    BY <1>1
  <2>5. QED
    BY <2>1, <2>3, <2>4, Zenon DEF CountInv
<1>14. CalibratedInv'
  BY <1>1, <1>5 DEF CalibratedInv
<1>15. VerdictInv'
  BY <1>1 DEF VerdictInv
<1>16. QED
  BY <1>9, <1>10, <1>11, <1>12, <1>13, <1>14, <1>15

\* The losses are taken with the hooks in place and the traces closed.
LEMMA LossPassKeeps == GateInv /\ LossPass => GateInv'
<1> SUFFICES ASSUME GateInv, LossPass PROVE GateInv'
  OBVIOUS
<1> USE DEF GateInv
<1>1. /\ phase = "loss" /\ phase' = "next"
      /\ UNCHANGED <<option, differs, calibration, installed, prompt, step, cache,
                     forced, answer, touched, verdict>>
      /\ trace' = [s \in Sides |-> Hooked(trace[s], {"layer", "detail"},
                                          [at |-> <<>>, far |-> "close"])]
  BY DEF LossPass
<1>2. /\ totals \in [prefill : Nat, decode : Nat, decodes : Nat,
                     nll : Int, losses : Nat, nllNaN : BOOLEAN, finite : BOOLEAN, layersClose : BOOLEAN, missing : Nat]
      /\ truth \in [passes : SUBSET Passes, flips : SUBSET Passes, nan : BOOLEAN,
                    apart : BOOLEAN, nll : Int, losses : Nat, unlike : BOOLEAN,
                    changed : SUBSET Passes]
      /\ trace \in [Sides -> Traces]
  BY DEF GateTypeOK
\* The hooks are in place and do not trace.
<1>3. trace' = trace
  <2>1. \A s \in Sides : Hooked(trace[s], {"layer", "detail"}, [at |-> <<>>, far |-> "close"])
            = trace[s]
    BY DEF TraceInv, Hooked
  <2>2. QED
    BY <1>1, <1>2, <2>1
\* One loss more is a number, or it is not.
<1>4. PICK nll \in Int, losses \in Nat, unknown \in BOOLEAN, nans \in BOOLEAN :
          /\ totals' = [totals EXCEPT !.nll = nll, !.losses = losses, !.nllNaN = unknown]
          /\ truth' = [truth EXCEPT !.nll = nll, !.losses = losses, !.nan = nans]
          /\ nans => truth.nan \/ unknown
          /\ totals.nllNaN => unknown
  <2>0. /\ totals.nll = truth.nll /\ totals.losses = truth.losses
        /\ totals.nll \in Int /\ totals.losses \in Nat /\ totals.losses + 1 \in Nat
        /\ totals.nllNaN \in BOOLEAN /\ truth.nan \in BOOLEAN
    BY <1>2 DEF NoticeInv
  <2>1. CASE UNCHANGED <<totals, truth>>
    <3>1. /\ totals' = [totals EXCEPT !.nll = totals.nll, !.losses = totals.losses,
                                      !.nllNaN = totals.nllNaN]
          /\ truth' = [truth EXCEPT !.nll = totals.nll, !.losses = totals.losses,
                                    !.nan = truth.nan]
      BY <1>2, <2>0, <2>1
    <3>2. QED
      BY <2>0, <3>1, Zenon
  <2>2. CASE \E loss \in IF Differs THEN LossChanges ELSE {0} :
                /\ totals' = [totals EXCEPT !.nll = @ + loss, !.losses = @ + 1]
                /\ truth' = [truth EXCEPT !.nll = @ + loss, !.losses = @ + 1]
    <3>1. PICK loss \in IF Differs THEN LossChanges ELSE {0} :
             /\ totals' = [totals EXCEPT !.nll = @ + loss, !.losses = @ + 1]
             /\ truth' = [truth EXCEPT !.nll = @ + loss, !.losses = @ + 1]
      BY <2>2
    <3>2. loss \in Int
      <4>1. (IF Differs THEN LossChanges ELSE {0}) \subseteq Int
        BY GateAssumption
      <4>2. QED
        BY <3>1, <4>1
    <3>3. totals.nll + loss \in Int
      BY <2>0, <3>2
    <3>4. /\ totals' = [totals EXCEPT !.nll = totals.nll + loss, !.losses = totals.losses + 1,
                                      !.nllNaN = totals.nllNaN]
          /\ truth' = [truth EXCEPT !.nll = totals.nll + loss, !.losses = totals.losses + 1,
                                    !.nan = truth.nan]
      BY <1>2, <2>0, <3>1
    <3>5. QED
      BY <2>0, <3>3, <3>4, Zenon
  <2>3. CASE /\ totals' = [totals EXCEPT !.nllNaN = TRUE, !.losses = @ + 1]
             /\ truth' = [truth EXCEPT !.nan = TRUE, !.losses = @ + 1]
    <3>1. /\ totals' = [totals EXCEPT !.nll = totals.nll, !.losses = totals.losses + 1,
                                      !.nllNaN = TRUE]
          /\ truth' = [truth EXCEPT !.nll = totals.nll, !.losses = totals.losses + 1,
                                    !.nan = TRUE]
      BY <1>2, <2>0, <2>3
    <3>2. TRUE \in BOOLEAN
      OBVIOUS
    <3>3. QED
      BY <2>0, <3>1, <3>2, Zenon
  <2>4. QED
    BY <2>1, <2>2, <2>3 DEF LossPass
<1>7. /\ totals' \in [prefill : Nat, decode : Nat, decodes : Nat,
                      nll : Int, losses : Nat, nllNaN : BOOLEAN,
                      finite : BOOLEAN, layersClose : BOOLEAN, missing : Nat]
      /\ truth' \in [passes : SUBSET Passes, flips : SUBSET Passes, nan : BOOLEAN,
                     apart : BOOLEAN, nll : Int, losses : Nat, unlike : BOOLEAN,
                     changed : SUBSET Passes]
  BY <1>2, <1>4
<1>8. /\ totals'.nll = nll /\ totals'.losses = losses /\ totals'.nllNaN = unknown
      /\ totals'.prefill = totals.prefill /\ totals'.decode = totals.decode
      /\ totals'.decodes = totals.decodes /\ totals'.finite = totals.finite
      /\ totals'.layersClose = totals.layersClose /\ totals'.missing = totals.missing
      /\ truth'.nll = nll /\ truth'.losses = losses /\ truth'.nan = nans
      /\ truth'.passes = truth.passes /\ truth'.flips = truth.flips
      /\ truth'.apart = truth.apart /\ truth'.unlike = truth.unlike
      /\ truth'.changed = truth.changed
  BY <1>2, <1>4
<1>9. Compared' = Compared /\ Trajectory' = Trajectory
  BY <1>1 DEF Compared, Before, Workload, Here, Trajectory
<1>10. GateTypeOK'
  BY <1>1, <1>3, <1>7 DEF GateTypeOK, Traces, Outputs
<1>11. ContextInv'
  BY <1>1, <1>9 DEF ContextInv, Looping
<1>12. TraceInv'
  BY <1>1, <1>3 DEF TraceInv
<1>13. NoticeInv'
  <2>1. truth'.nan => ~totals'.finite \/ totals'.nllNaN
    BY <1>1, <1>4, <1>8 DEF NoticeInv
  <2>2. truth'.nll = totals'.nll /\ truth'.losses = totals'.losses
    BY <1>8
  <2>3. QED
    BY <1>1, <1>8, <1>9, <2>1, <2>2 DEF NoticeInv
<1>14. CountInv'
  BY <1>1, <1>8, <1>9, CountsStand
<1>15. CalibratedInv'
  BY <1>1, <1>8 DEF CalibratedInv
<1>16. VerdictInv'
  BY <1>1 DEF VerdictInv
<1>17. QED
  BY <1>10, <1>11, <1>12, <1>13, <1>14, <1>15, <1>16

\* Moving on, the pass compared is behind.
LEMMA AdvanceKeeps == GateInv /\ Advance => GateInv'
<1> SUFFICES ASSUME GateInv, Advance PROVE GateInv'
  OBVIOUS
<1> USE DEF GateInv
<1>1. /\ phase = "next" /\ phase' \in {"model", "report"}
      /\ UNCHANGED <<option, differs, calibration, installed, cache, trace, forced,
                     answer, totals, truth, verdict>>
  BY DEF Advance
<1>2. \/ phase' = "model" /\ step < option.steps /\ step' = step + 1 /\ prompt' = prompt
         /\ touched' = touched
      \/ phase' = "model" /\ ~(step < option.steps) /\ prompt < option.prompts
         /\ prompt' = prompt + 1 /\ step' = 0 /\ touched' = FALSE
      \/ phase' = "report" /\ ~(step < option.steps) /\ ~(prompt < option.prompts)
         /\ prompt' = prompt /\ step' = step /\ touched' = touched
  BY DEF Advance
<1>3. /\ option.prompts \in Nat /\ option.steps \in Nat
      /\ prompt \in Nat \ {0} /\ step \in Nat
      /\ option.prompts > 0 /\ option.steps > 0
      /\ prompt <= option.prompts /\ step <= option.steps
  BY <1>1, GateAssumption DEF GateTypeOK, Options, ContextInv, Looping
<1>4. prompt' \in Nat \ {0} /\ step' \in Nat
  BY <1>2, <1>3
<1>5. Compared' = Compared
  <2>1. Compared = Before \cup {Here} /\ Here \in Workload /\ Before \subseteq Workload
    BY <1>1, PassSets DEF Looping, Compared
  <2>2. Workload' = Workload
    BY <1>1 DEF Workload
  <2>3. CASE phase' = "report"
    BY <1>1, <1>2, <2>1, <2>2, <2>3 DEF Compared, Before, Here
  <2>4. CASE phase' = "model"
    <3>1. ASSUME NEW q \in Workload
          PROVE  q \in Before' <=> q \in Before \/ q = Here
      <4>1. PICK p \in 1 .. option.prompts, s \in 0 .. option.steps : q = <<p, s>>
        BY DEF Workload
      <4>2. q = Here <=> p = prompt /\ s = step
        BY <4>1 DEF Here
      <4>3. p < prompt' \/ (p = prompt' /\ s < step')
              <=> p < prompt \/ (p = prompt /\ s < step) \/ (p = prompt /\ s = step)
        BY <1>2, <1>3, <2>4
      <4>4. QED
        BY <2>2, <4>1, <4>2, <4>3 DEF Before
    <3>2. Before' \subseteq Workload
      BY <2>2 DEF Before
    <3>3. Before' = Before \cup {Here}
      BY <2>1, <3>1, <3>2
    <3>4. Compared' = Before'
      BY <2>4 DEF Compared
    <3>5. QED
      BY <2>1, <3>3, <3>4
  <2>5. QED
    BY <1>1, <2>3, <2>4
<1>6. GateTypeOK'
  <2>1. touched' \in BOOLEAN
    BY <1>2 DEF GateTypeOK
  <2>2. QED
    BY ZenonT(40), <1>1, <1>4, <2>1 DEF GateTypeOK, Traces, Outputs
<1>7. ContextInv'
  <2>1. Looping' \/ phase' = "report" =>
            /\ option'.prompts > 0 /\ option'.steps > 0
            /\ prompt' <= option'.prompts /\ step' <= option'.steps
    BY <1>1, <1>2, <1>3
  <2>2. phase' = "report" => prompt' = option'.prompts /\ step' = option'.steps
    BY <1>1, <1>2, <1>3
  <2>3. ASSUME phase' = "model", step' > 0, NEW s \in Sides
        PROVE  cache'[s] = Greedy(step - 1)'
    <3>1. prompt' = prompt /\ step' = step + 1 /\ step' - 1 = step
      BY <1>2, <1>3, <2>3
    <3>2. cache[s] = Greedy(step)
      BY <1>1, TrajectoryIsGreedy DEF ContextInv, Sides
    <3>3. Greedy(step - 1)' = Greedy(step)
      BY <3>1 DEF Greedy
    <3>4. QED
      BY <1>1, <3>2, <3>3
  <2>4. QED
    BY <1>1, <2>1, <2>2, <2>3 DEF ContextInv, Sides
<1>8. TraceInv'
  BY <1>1 DEF TraceInv
<1>9. NoticeInv'
  BY <1>1, <1>5 DEF NoticeInv
<1>10. CountInv'
  <2>1. Alike(FALSE)' = Alike(FALSE) /\ Alike(TRUE)' = Alike(TRUE) /\ Decoded' = Decoded
    BY <1>1, <1>5 DEF Alike, Decoded
  <2>2. QED
    BY <1>1, <1>5, <2>1 DEF CountInv
<1>11. CalibratedInv'
  <2>1. ASSUME touched' PROVE \E s \in 0 .. step' : <<prompt', s>> \in differs
    <3>1. touched /\ prompt' = prompt /\ step' \in {step, step + 1}
      BY <1>2, <2>1
    <3>2. PICK s \in 0 .. step : <<prompt, s>> \in differs
      BY <3>1 DEF CalibratedInv
    <3>3. s \in 0 .. step'
      BY <1>3, <3>1
    <3>4. QED
      BY <3>1, <3>2, <3>3
  <2>2. QED
    BY <1>1, <2>1 DEF CalibratedInv
<1>12. VerdictInv'
  BY <1>1 DEF VerdictInv
<1>13. QED
  BY <1>6, <1>7, <1>8, <1>9, <1>10, <1>11, <1>12

\* A passing verdict is written over a workload that was compared in full.
LEMMA WriteVerdictKeeps == GateInv /\ WriteVerdict => GateInv'
<1> SUFFICES ASSUME GateInv, WriteVerdict PROVE GateInv'
  OBVIOUS
<1> USE DEF GateInv
<1>1. /\ phase = "report" /\ phase' = "ended"
      /\ verdict' = "passed" => GatePasses
      /\ UNCHANGED <<option, differs, calibration, installed, prompt, step, cache, trace,
                     forced, answer, touched, totals, truth>>
  BY DEF WriteVerdict
<1>2. Compared' = {}
  BY <1>1 DEF Compared
<1>3. GateTypeOK'
  BY <1>1, ZenonT(40) DEF GateTypeOK, Traces, Outputs
<1>4. ContextInv'
  BY <1>1 DEF ContextInv, Looping
<1>5. TraceInv'
  BY <1>1 DEF TraceInv
<1>6. NoticeInv'
  BY <1>1, <1>2 DEF NoticeInv
<1>7. CountInv'
  BY <1>1 DEF CountInv
<1>8. CalibratedInv'
  BY <1>1 DEF CalibratedInv
<1>9. VerdictInv'
  <2>1. SUFFICES ASSUME verdict' = "passed" PROVE Evidence'
    BY <1>1 DEF VerdictInv
  <2>2. GatePasses
    BY <1>1, <2>1
  <2>3. /\ truth.passes = Workload
        /\ totals.prefill = option.prompts - Cardinality(Flips(FALSE))
        /\ totals.decode = option.prompts * option.steps - Cardinality(Flips(TRUE))
        /\ totals.decodes = option.prompts * option.steps
    BY <1>1, WorkloadCounted
  <2>4. /\ Agrees(option.prompts - Cardinality(Flips(FALSE)), option.prompts)
        /\ Agrees(option.prompts * option.steps - Cardinality(Flips(TRUE)),
                  option.prompts * option.steps)
    BY <2>2, <2>3 DEF GatePasses
  <2>5. ~truth.nan /\ ~truth.apart /\ MeanWithinTolerance(truth.nll, truth.losses)
    BY <1>1, <2>2 DEF GatePasses, NoticeInv
  <2>6. ~(option.candidate = "fast-residual-rms" /\ option.traced > 0)
    <3>1. truth.passes = Compared
      BY <1>1 DEF CountInv
    <3>2. option.prompts \in Nat \ {0} /\ option.steps \in Nat \ {0}
      BY <1>1, GateAssumption DEF GateTypeOK, Options, ContextInv
    <3>3. <<1, 1>> \in Workload
      BY <3>2 DEF Workload
    <3>4. QED
      BY <2>2, <2>3, <3>1, <3>3 DEF GatePasses, NoticeInv
  <2>7. /\ Workload' = Workload
        /\ Flips(FALSE)' = Flips(FALSE) /\ Flips(TRUE)' = Flips(TRUE)
    BY <1>1 DEF Workload, Flips
  <2>8. QED
    BY <1>1, <2>3, <2>4, <2>5, <2>6, <2>7 DEF Evidence
<1>10. QED
  BY <1>3, <1>4, <1>5, <1>6, <1>7, <1>8, <1>9

\* Every step of the gate keeps the invariant.
LEMMA GateSteps == GateInv /\ [GateNext]_gateVars => GateInv'
<1> SUFFICES ASSUME GateInv, [GateNext]_gateVars PROVE GateInv'
  OBVIOUS
<1>1. ASSUME GateNext PROVE GateInv'
  BY <1>1, CalibrateKeeps, LoadModelsKeeps, ModelPassKeeps, CandidatePassKeeps,
     PassRaisesKeeps, CompareKeeps, LossPassKeeps, AdvanceKeeps, WriteVerdictKeeps
     DEF GateNext
<1>2. ASSUME UNCHANGED gateVars PROVE GateInv'
  <2>1. UNCHANGED <<option, differs, calibration, installed, phase, prompt, step, cache,
                    trace, forced, answer, touched, totals, truth, verdict>>
    BY <1>2 DEF gateVars
  <2>2. /\ Compared' = Compared /\ Trajectory' = Trajectory /\ Traced' = Traced
        /\ Here' = Here /\ Workload' = Workload
    BY <2>1 DEF Compared, Before, Workload, Here, Trajectory, Traced
  <2>3. GateTypeOK'
    <3>1. GateTypeOK
      BY DEF GateInv
    <3>2. /\ option' \in Options /\ prompt' \in Nat \ {0} /\ step' \in Nat
          /\ cache' \in [Sides -> Seq(Nat)] /\ trace' \in [Sides -> Traces] /\ forced' = 0
          /\ answer' \in [token : {0, 1}, nan : BOOLEAN]
      BY <2>1, <3>1 DEF GateTypeOK
    <3>3. phase' \in {"calibrate", "launch", "model", "candidate", "compare", "loss", "next",
                      "report", "ended"}
      BY <2>1, <3>1 DEF GateTypeOK
    <3>4. touched' \in BOOLEAN
      BY <2>1, <3>1, Zenon DEF GateTypeOK
    <3>5. totals' \in [prefill : Nat, decode : Nat, decodes : Nat,
                       nll : Int, losses : Nat, nllNaN : BOOLEAN, finite : BOOLEAN, layersClose : BOOLEAN, missing : Nat]
      BY <2>1, <3>1 DEF GateTypeOK
    <3>6. truth' \in [passes : SUBSET Passes, flips : SUBSET Passes, nan : BOOLEAN,
                      apart : BOOLEAN, nll : Int, losses : Nat, unlike : BOOLEAN,
                      changed : SUBSET Passes]
      BY <2>1, <3>1 DEF GateTypeOK
    <3>7. QED
      BY <3>2, <3>3, <3>4, <3>5, <3>6 DEF GateTypeOK
  <2>4. ContextInv'
    BY <2>1, <2>2 DEF GateInv, ContextInv, Looping, Greedy
  <2>5. TraceInv'
    BY ZenonT(40), <2>1, <2>2 DEF GateInv, TraceInv, Recorded, Names, Decoding
  <2>6. NoticeInv'
    BY <2>1, <2>2 DEF GateInv, NoticeInv
  <2>7. CountInv'
    <3>1. Alike(FALSE)' = Alike(FALSE) /\ Alike(TRUE)' = Alike(TRUE) /\ Decoded' = Decoded
      BY <2>1, <2>2 DEF Alike, Decoded
    <3>2. QED
      BY <2>1, <2>2, <3>1 DEF GateInv, CountInv
  <2>8. CalibratedInv'
    BY <2>1 DEF GateInv, CalibratedInv
  <2>9. VerdictInv'
    BY <2>1, <2>2 DEF GateInv, VerdictInv, Evidence, Flips
  <2>10. QED
    BY <2>3, <2>4, <2>5, <2>6, <2>7, <2>8, <2>9 DEF GateInv
<1>3. QED
  BY <1>1, <1>2

\* Whatever the models, the calibration and the workload, an accepted candidate
\* answered like the model over the whole workload, in the model's own contexts
\* and within the tolerances, however much of it was traced or teacher-forced;
\* and a calibrated candidate never leaves the model in a pass that was measured,
\* whichever passes of the gate's those are (qwen_accuracy_gate.py, main;
\* accuracy_utils.py; qwen_rms_sensitivity.py).
THEOREM AcceptancesAreEvidence == GateSpec => []AcceptanceIsEvidence
<1>1. GateInit => GateInv
  BY GateStarts
<1>2. GateInv /\ [GateNext]_gateVars => GateInv'
  BY GateSteps
<1>3. GateInv => AcceptanceIsEvidence
  BY DEF GateInv, NoticeInv, CalibratedInv, VerdictInv, Evidence, Workload,
         AcceptanceIsEvidence
<1>4. QED
  BY <1>1, <1>2, <1>3, PTL DEF GateSpec
-----------------------------------------------------------------------------
(***************************************************************************)
(* The release gate.                                                       *)
(***************************************************************************)
\* The tokens of a prompt's first k - 1 answers, behind the prompt.
History(s, p, k) ==
    [i \in 1 .. k |-> IF i = 1 THEN job[s].prompts[p] ELSE rows[s][p][i - 1].out.token]

\* What the capture has of a model at one position.
Outs == [token : {0, 1}, logits : {"close", "apart", "nan"}, layers : {"close", "nan"},
         loss : {-1, 0, 1, 2}]

\* What it keeps of one prompt: each position, with the text it followed.
Answer == Seq([at : Seq(Prompts \cup {0, 1}), out : Outs])

\* The types of the variables.
ReleaseTypeOK ==
    /\ job \in [Captures -> Jobs]
    /\ rows \in [Captures -> Seq(Answer)]
    /\ context \in [Captures -> Seq(Prompts \cup {0, 1})]
    /\ file \subseteq Captures /\ side \in Captures \cup {"both"}
    /\ released \in {"open", "raised", "refused", "passed"}

\* A capture's rows are those of its prompts, in order, each full but the last.
ShapeInv ==
    \A s \in Captures :
        /\ Len(rows[s]) <= Len(job[s].prompts)
        /\ rows[s] # <<>> => job[s].tokens > 0
        /\ \A p \in DOMAIN rows[s] :
              /\ Len(rows[s][p]) <= job[s].tokens
              /\ p < Len(rows[s]) => Len(rows[s][p]) = job[s].tokens

\* Each position was computed after the tokens of its prompt that were recorded
\* before it, and the next will be.
HistoryInv ==
    \A s \in Captures :
        /\ \A p \in DOMAIN rows[s] : \A k \in DOMAIN rows[s][p] :
              rows[s][p][k].at = History(s, p, k)
        /\ rows[s] # <<>> =>
              context[s] = History(s, Len(rows[s]), Len(rows[s][Len(rows[s])]) + 1)

\* The reference is its own measure.
ReferenceInv ==
    \A p \in DOMAIN rows["reference"] : \A k \in DOMAIN rows["reference"][p] :
        rows["reference"][p][k].out = Own

\* A saved file is complete, and its capture does not have the turn again.
FileInv ==
    /\ side = "reference" => file = {}
    /\ side = "candidate" => file \subseteq {"reference"}
    /\ \A s \in file : /\ rows[s] # <<>> /\ Len(rows[s]) = Len(job[s].prompts)
                       /\ \A p \in DOMAIN rows[s] : Len(rows[s][p]) = job[s].tokens

\* What the gate saw is still there.
PassedInv ==
    /\ released # "open" => side = "both"
    /\ released = "passed" =>
          /\ file = Captures /\ SameShape /\ TokenAgreement /\ LossKept /\ LayersKept
          /\ \A x \in Places : Close(Candidate(x).logits)

\* The inductive invariant of a release decision.
ReleaseInv ==
    ReleaseTypeOK /\ ShapeInv /\ HistoryInv /\ ReferenceInv /\ FileInv /\ PassedInv

\* What a job's prompts and counts are.
LEMMA JobFacts ==
    ASSUME NEW j \in Jobs
    PROVE  j.prompts \in Seq(Prompts) /\ j.tokens \in Nat
<1>1. PICK m \in 0 .. MaxPositions : j.prompts \in [1 .. m -> Prompts]
  BY DEF Jobs, BoundedSeq, SeqOf
<1>2. m \in Nat /\ j.tokens \in Nat
  BY ReleaseAssumption DEF Jobs
<1>3. QED
  BY <1>1, <1>2

\* A capture starts with nothing recorded.
LEMMA ReleaseInitInv == ReleaseInit => ReleaseInv
<1> SUFFICES ASSUME ReleaseInit PROVE ReleaseInv
  OBVIOUS
<1>1. \A s \in Captures : rows[s] = <<>> /\ context[s] = <<>> /\ job[s] \in Jobs
  BY DEF ReleaseInit
<1>2. ReleaseTypeOK
  BY DEF ReleaseInit, ReleaseTypeOK, Captures
<1>3. ShapeInv
  BY <1>1, JobFacts DEF ShapeInv
<1>4. HistoryInv
  BY <1>1 DEF HistoryInv
<1>5. ReferenceInv
  BY <1>1 DEF ReferenceInv, Captures
<1>6. FileInv /\ PassedInv
  BY DEF ReleaseInit, FileInv, PassedInv
<1>7. QED
  BY <1>2, <1>3, <1>4, <1>5, <1>6 DEF ReleaseInv

\* A capture that fails passes the turn.
LEMMA CaptureEndsKeepsInv == ReleaseInv /\ CaptureEnds => ReleaseInv'
<1> SUFFICES ASSUME ReleaseInv, CaptureEnds PROVE ReleaseInv'
  OBVIOUS
<1>1. /\ side \in Captures /\ side' = Following
      /\ UNCHANGED <<job, rows, context, file, released>>
  BY DEF CaptureEnds
<1>2. ReleaseTypeOK'
  BY <1>1 DEF ReleaseInv, ReleaseTypeOK, Following, Captures
<1>3. ShapeInv'
  BY <1>1 DEF ReleaseInv, ShapeInv
<1>4. HistoryInv'
  BY <1>1 DEF ReleaseInv, HistoryInv, History
<1>5. ReferenceInv'
  BY <1>1 DEF ReleaseInv, ReferenceInv
<1>6. FileInv'
  BY <1>1 DEF ReleaseInv, FileInv, Following, Captures
<1>7. PassedInv'
  BY <1>1 DEF ReleaseInv, PassedInv, Captures
<1>8. QED
  BY <1>2, <1>3, <1>4, <1>5, <1>6, <1>7 DEF ReleaseInv

\* A new prompt's history is the prompt; the rows before it stay.
LEMMA StartPromptKeepsInv == ReleaseInv /\ StartPrompt => ReleaseInv'
<1> SUFFICES ASSUME ReleaseInv, StartPrompt PROVE ReleaseInv'
  OBVIOUS
<1> DEFINE n == Len(rows[side])
<1>1. /\ side \in Captures /\ job[side] \in Jobs /\ job[side].tokens > 0
      /\ job[side].tokens \in Nat /\ job[side].prompts \in Seq(Prompts)
      /\ rows[side] \in Seq(Answer) /\ n \in Nat /\ n < Len(job[side].prompts)
      /\ rows[side] # <<>> => Len(rows[side][n]) = job[side].tokens
      /\ UNCHANGED <<job, file, side, released>>
  <2>1. /\ side \in Captures /\ job[side] \in Jobs /\ job[side].tokens > 0
        /\ rows[side] \in Seq(Answer) /\ n < Len(job[side].prompts)
        /\ UNCHANGED <<job, file, side, released>>
    BY DEF StartPrompt, ReleaseInv, ReleaseTypeOK
  <2>2. rows[side] # <<>> => Len(rows[side][n]) = job[side].tokens
    BY DEF StartPrompt, Last
  <2>3. QED
    BY <2>1, <2>2, JobFacts
<1>2. rows'[side] = Append(rows[side], <<>>) /\ context'[side] = <<job[side].prompts[n + 1]>>
  BY <1>1 DEF StartPrompt, ReleaseInv, ReleaseTypeOK
<1>3. \A s \in Captures : s # side => rows'[s] = rows[s] /\ context'[s] = context[s]
  BY <1>1 DEF StartPrompt, ReleaseInv, ReleaseTypeOK
<1>4. /\ Len(rows'[side]) = n + 1 /\ rows'[side][n + 1] = <<>> /\ DOMAIN rows'[side] = 1 .. n + 1
      /\ DOMAIN rows[side] = 1 .. n
      /\ \A p \in 1 .. n : rows'[side][p] = rows[side][p]
  BY <1>1, <1>2
<1>5. ReleaseTypeOK'
  <2>1. rows' = [rows EXCEPT ![side] = Append(@, <<>>)]
        /\ context' = [context EXCEPT ![side] = <<job[side].prompts[n + 1]>>]
    BY DEF StartPrompt
  <2>2. Append(rows[side], <<>>) \in Seq(Answer)
    BY <1>1 DEF Answer
  <2>3. <<job[side].prompts[n + 1]>> \in Seq(Prompts \cup {0, 1})
    BY <1>1
  <2>4. QED
    BY <1>1, <2>1, <2>2, <2>3 DEF ReleaseInv, ReleaseTypeOK
<1>6. ShapeInv'
  <2>1. ASSUME NEW s \in Captures, s # side
        PROVE  /\ Len(rows'[s]) <= Len(job'[s].prompts)
               /\ rows'[s] # <<>> => job'[s].tokens > 0
               /\ \A p \in DOMAIN rows'[s] :
                     /\ Len(rows'[s][p]) <= job'[s].tokens
                     /\ p < Len(rows'[s]) => Len(rows'[s][p]) = job'[s].tokens
    BY <1>1, <1>3, <2>1 DEF ReleaseInv, ShapeInv
  <2>2. /\ Len(rows'[side]) <= Len(job'[side].prompts)
        /\ job'[side].tokens > 0
    BY <1>1, <1>4
  <2>3. ASSUME NEW p \in DOMAIN rows'[side]
        PROVE  /\ Len(rows'[side][p]) <= job'[side].tokens
               /\ p < Len(rows'[side]) => Len(rows'[side][p]) = job'[side].tokens
    <3>1. CASE p = n + 1
      BY <1>1, <1>4, <3>1
    <3>2. CASE p \in 1 .. n
      <4>1. rows'[side][p] = rows[side][p] /\ p \in DOMAIN rows[side] /\ rows[side] # <<>>
        BY <1>1, <1>4, <3>2
      <4>2. p < n => Len(rows[side][p]) = job[side].tokens
        BY <1>1, <4>1 DEF ReleaseInv, ShapeInv
      <4>3. Len(rows[side][p]) = job[side].tokens
        BY <1>1, <3>2, <4>1, <4>2
      <4>4. QED
        BY <1>1, <4>1, <4>3
    <3>3. QED
      BY <1>1, <1>4, <2>3, <3>1, <3>2
  <2>4. QED
    BY <2>1, <2>2, <2>3 DEF ShapeInv
<1>7. HistoryInv'
  <2>1. ASSUME NEW s \in Captures, s # side
        PROVE  /\ \A p \in DOMAIN rows'[s] : \A k \in DOMAIN rows'[s][p] :
                     rows'[s][p][k].at = History(s, p, k)'
               /\ rows'[s] # <<>> =>
                     context'[s] = History(s, Len(rows[s]), Len(rows[s][Len(rows[s])]) + 1)'
    <3>1. rows'[s] = rows[s] /\ context'[s] = context[s] /\ job' = job
      BY <1>1, <1>3, <2>1
    <3>2. /\ \A p \in DOMAIN rows[s] : \A k \in DOMAIN rows[s][p] : rows[s][p][k].at = History(s, p, k)
          /\ rows[s] # <<>> => context[s] = History(s, Len(rows[s]), Len(rows[s][Len(rows[s])]) + 1)
      BY DEF ReleaseInv, HistoryInv
    <3>3. \A p, k : History(s, p, k)' = History(s, p, k)
      BY <3>1 DEF History
    <3>4. History(s, Len(rows[s]), Len(rows[s][Len(rows[s])]) + 1)'
            = History(s, Len(rows[s]), Len(rows[s][Len(rows[s])]) + 1)
      BY <3>1 DEF History
    <3>5. QED
      BY <3>1, <3>2, <3>3, <3>4
  <2>2. ASSUME NEW p \in DOMAIN rows'[side], NEW k \in DOMAIN rows'[side][p]
        PROVE  rows'[side][p][k].at = History(side, p, k)'
    <3>1. p \in 1 .. n
      BY <1>4, <2>2
    <3>2. rows'[side][p] = rows[side][p] /\ p \in DOMAIN rows[side] /\ k \in DOMAIN rows[side][p]
      BY <1>4, <2>2, <3>1
    <3>3. History(side, p, k)' = History(side, p, k)
      BY <1>1, <3>2 DEF History
    <3>4. QED
      BY <1>1, <3>2, <3>3 DEF ReleaseInv, HistoryInv
  <2>3. context'[side] = History(side, Len(rows[side]), Len(rows[side][Len(rows[side])]) + 1)'
    <3>1. Len(rows'[side]) = n + 1 /\ Len(rows'[side][Len(rows'[side])]) + 1 = 1 /\ job' = job /\ side' = side
      BY <1>1, <1>4
    <3>2. History(side, Len(rows[side]), Len(rows[side][Len(rows[side])]) + 1)'
            = [i \in 1 .. 1 |-> job[side].prompts[n + 1]]
      BY <3>1 DEF History
    <3>3. QED
      BY <1>2, <3>2
  <2>4. QED
    BY <2>1, <2>2, <2>3, <1>1 DEF HistoryInv
<1>8. ReferenceInv'
  <2>1. ASSUME NEW p \in DOMAIN rows'["reference"], NEW k \in DOMAIN rows'["reference"][p]
        PROVE  p \in DOMAIN rows["reference"] /\ rows'["reference"][p] = rows["reference"][p]
    <3>1. CASE side = "reference"
      BY <1>4, <2>1, <3>1
    <3>2. CASE side # "reference"
      BY <1>3, <2>1, <3>2 DEF Captures
    <3>3. QED
      BY <3>1, <3>2
  <2>2. QED
    BY <2>1 DEF ReleaseInv, ReferenceInv
<1>9. FileInv'
  <2>1. side \notin file
    BY <1>1 DEF ReleaseInv, FileInv, Captures
  <2>2. QED
    BY <1>1, <1>3, <2>1 DEF ReleaseInv, FileInv, ReleaseTypeOK
<1>10. PassedInv'
  BY <1>1 DEF ReleaseInv, PassedInv, Captures
<1>11. QED
  BY <1>5, <1>6, <1>7, <1>8, <1>9, <1>10 DEF ReleaseInv

\* A token is recorded with the context it was computed in, and joins it.
LEMMA CaptureTokenKeepsInv == ReleaseInv /\ CaptureToken => ReleaseInv'
<1> SUFFICES ASSUME ReleaseInv, CaptureToken PROVE ReleaseInv'
  OBVIOUS
<1>0. PICK n, k : n = Len(rows[side]) /\ k = Len(rows[side][n]) + 1
  OBVIOUS
<1> DEFINE row == rows[side][n]
<1>1. /\ side \in Captures /\ job[side] \in Jobs /\ job[side].tokens \in Nat
      /\ rows[side] \in Seq(Answer) /\ n \in Nat /\ n > 0 /\ n \in 1 .. n
      /\ row \in Answer /\ k \in Nat /\ k > 0 /\ k <= job[side].tokens
      /\ UNCHANGED <<job, file, side, released>>
  <2>1. /\ side \in Captures /\ job[side] \in Jobs /\ rows[side] \in Seq(Answer)
        /\ UNCHANGED <<job, file, side, released>>
    BY DEF CaptureToken, ReleaseInv, ReleaseTypeOK
  <2>2. rows[side] # <<>> /\ Len(row) < job[side].tokens
    BY <1>0 DEF CaptureToken, Last
  <2>3. job[side].tokens \in Nat /\ n \in Nat /\ n > 0 /\ n \in 1 .. n
    BY <1>0, <2>1, <2>2, JobFacts
  <2>4. row \in Answer
    BY <1>0, <2>1, <2>3
  <2>5. k \in Nat /\ k > 0 /\ k <= job[side].tokens
    BY <1>0, <2>2, <2>3, <2>4 DEF Answer
  <2>6. QED
    BY <2>1, <2>3, <2>4, <2>5
<1>2. PICK out \in Outcomes :
        /\ rows' = [rows EXCEPT ![side][n] = Append(@, [at |-> context[side], out |-> out])]
        /\ context' = [context EXCEPT ![side] = Append(@, out.token)]
  BY <1>0 DEF CaptureToken
<1> DEFINE new == [at |-> context[side], out |-> out]
<1>3. out \in Outs /\ out.token \in {0, 1} /\ (side = "reference" => out = Own)
  BY <1>2 DEF Outcomes, Outs, Own
<1>4. context[side] = History(side, n, k) /\ context[side] \in Seq(Prompts \cup {0, 1})
  <2>1. rows[side] # <<>>
    BY <1>0, <1>1
  <2>2. QED
    BY <1>0, <1>1, <2>1 DEF ReleaseInv, HistoryInv, ReleaseTypeOK
<1>5. new \in [at : Seq(Prompts \cup {0, 1}), out : Outs] /\ new.at = context[side] /\ new.out = out
  BY <1>3, <1>4
<1> HIDE DEF new
<1>6. /\ \A s \in Captures : s # side => rows'[s] = rows[s] /\ context'[s] = context[s]
      /\ rows'[side] = [rows[side] EXCEPT ![n] = Append(row, new)]
      /\ context'[side] = Append(context[side], out.token)
  BY <1>1, <1>2 DEF ReleaseInv, ReleaseTypeOK, new
<1>7. /\ Append(row, new) \in Answer /\ Len(Append(row, new)) = k /\ Append(row, new)[k] = new
      /\ \A j \in 1 .. k - 1 : Append(row, new)[j] = row[j]
      /\ DOMAIN Append(row, new) = 1 .. k /\ DOMAIN row = 1 .. k - 1
  BY <1>0, <1>1, <1>5 DEF Answer
<1>8. /\ Len(rows'[side]) = n /\ rows'[side][n] = Append(row, new)
      /\ DOMAIN rows'[side] = 1 .. n /\ DOMAIN rows[side] = 1 .. n
      /\ \A p \in 1 .. n : p # n => rows'[side][p] = rows[side][p]
      /\ rows'[side] \in Seq(Answer)
  BY <1>0, <1>1, <1>6, <1>7
<1> HIDE DEF row
<1>9. ReleaseTypeOK'
  <2>1. \A s \in Captures : rows'[s] \in Seq(Answer)
    BY <1>6, <1>8 DEF ReleaseInv, ReleaseTypeOK
  <2>2. \A s \in Captures : context'[s] \in Seq(Prompts \cup {0, 1})
    <3>1. Append(context[side], out.token) \in Seq(Prompts \cup {0, 1})
      BY <1>3, <1>4
    <3>2. QED
      BY <1>6, <3>1 DEF ReleaseInv, ReleaseTypeOK
  <2>3. /\ DOMAIN rows' = Captures /\ rows' = [s \in Captures |-> rows'[s]]
        /\ DOMAIN context' = Captures /\ context' = [s \in Captures |-> context'[s]]
    BY <1>2 DEF ReleaseInv, ReleaseTypeOK
  <2>4. rows' \in [Captures -> Seq(Answer)]
    BY <2>1, <2>3
  <2>5. context' \in [Captures -> Seq(Prompts \cup {0, 1})]
    BY <2>2, <2>3
  <2>6. QED
    BY <1>1, <2>4, <2>5 DEF ReleaseInv, ReleaseTypeOK
<1>10. ShapeInv'
  <2>1. ASSUME NEW s \in Captures, s # side
        PROVE  /\ Len(rows'[s]) <= Len(job'[s].prompts)
               /\ rows'[s] # <<>> => job'[s].tokens > 0
               /\ \A p \in DOMAIN rows'[s] :
                     /\ Len(rows'[s][p]) <= job'[s].tokens
                     /\ p < Len(rows'[s]) => Len(rows'[s][p]) = job'[s].tokens
    BY <1>1, <1>6, <2>1 DEF ReleaseInv, ShapeInv
  <2>2. Len(rows'[side]) <= Len(job'[side].prompts) /\ job'[side].tokens > 0
    BY <1>0, <1>1, <1>8 DEF ReleaseInv, ShapeInv
  <2>3. ASSUME NEW p \in DOMAIN rows'[side]
        PROVE  /\ Len(rows'[side][p]) <= job'[side].tokens
               /\ p < Len(rows'[side]) => Len(rows'[side][p]) = job'[side].tokens
    <3>1. CASE p = n
      BY <1>1, <1>7, <1>8, <3>1
    <3>2. CASE p # n
      <4>1. p \in DOMAIN rows[side] /\ rows'[side][p] = rows[side][p] /\ p < n
        BY <1>1, <1>8, <2>3, <3>2
      <4>2. QED
        BY <1>0, <1>1, <1>8, <4>1 DEF ReleaseInv, ShapeInv
    <3>3. QED
      BY <3>1, <3>2
  <2>4. QED
    BY <2>1, <2>2, <2>3 DEF ShapeInv
<1>11. \A p \in 1 .. n : \A i \in 1 .. k :
          (p # n => History(side, p, i)' = History(side, p, i)) /\ History(side, n, i)' = History(side, n, i)
  <2> TAKE p \in 1 .. n
  <2> TAKE i \in 1 .. k
  <2>1. \A j \in 1 .. i : j # 1 => j - 1 \in 1 .. k - 1
    BY <1>1
  <2>2. \A j \in 1 .. k - 1 : rows'[side][n][j] = rows[side][n][j]
    BY <1>7, <1>8 DEF row
  <2>3. History(side, n, i)' = History(side, n, i)
    BY <1>1, <2>1, <2>2 DEF History
  <2>4. p # n => History(side, p, i)' = History(side, p, i)
    BY <1>1, <1>8 DEF History
  <2>5. QED
    BY <2>3, <2>4
<1>12. HistoryInv'
  <2>1. ASSUME NEW s \in Captures, s # side
        PROVE  /\ \A p \in DOMAIN rows'[s] : \A j \in DOMAIN rows'[s][p] :
                     rows'[s][p][j].at = History(s, p, j)'
               /\ rows'[s] # <<>> =>
                     context'[s] = History(s, Len(rows[s]), Len(rows[s][Len(rows[s])]) + 1)'
    <3>1. rows'[s] = rows[s] /\ context'[s] = context[s] /\ job' = job
      BY <1>1, <1>6, <2>1
    <3>2. /\ \A p \in DOMAIN rows[s] : \A j \in DOMAIN rows[s][p] : rows[s][p][j].at = History(s, p, j)
          /\ rows[s] # <<>> => context[s] = History(s, Len(rows[s]), Len(rows[s][Len(rows[s])]) + 1)
      BY DEF ReleaseInv, HistoryInv
    <3>3. \A p, j : History(s, p, j)' = History(s, p, j)
      BY <3>1 DEF History
    <3>4. History(s, Len(rows[s]), Len(rows[s][Len(rows[s])]) + 1)'
            = History(s, Len(rows[s]), Len(rows[s][Len(rows[s])]) + 1)
      BY <3>1 DEF History
    <3>5. QED
      BY <3>1, <3>2, <3>3, <3>4
  <2>2. ASSUME NEW p \in DOMAIN rows'[side], NEW j \in DOMAIN rows'[side][p]
        PROVE  rows'[side][p][j].at = History(side, p, j)'
    <3>1. CASE p # n
      <4>1. rows'[side][p] = rows[side][p] /\ p \in DOMAIN rows[side] /\ j \in DOMAIN rows[side][p]
        BY <1>8, <2>2, <3>1
      <4>2. History(side, p, j)' = History(side, p, j)
        BY <1>1, <4>1 DEF History
      <4>3. QED
        BY <1>1, <4>1, <4>2 DEF ReleaseInv, HistoryInv
    <3>2. CASE p = n /\ j = k
      BY <1>1, <1>4, <1>5, <1>7, <1>8, <1>11, <3>2
    <3>3. CASE p = n /\ j # k
      <4>1. j \in 1 .. k - 1 /\ j \in 1 .. k /\ n \in 1 .. n /\ n \in DOMAIN rows[side]
        BY <1>1, <1>7, <1>8, <2>2, <3>3
      <4>2. rows'[side][p][j] = row[j] /\ j \in DOMAIN rows[side][n]
        BY <1>7, <1>8, <3>3, <4>1 DEF row
      <4>3. rows[side][n][j].at = History(side, n, j)
        BY <1>1, <4>1, <4>2 DEF ReleaseInv, HistoryInv
      <4>4. History(side, n, j)' = History(side, n, j)
        BY <1>11, <4>1
      <4>5. QED
        BY <3>3, <4>2, <4>3, <4>4 DEF row
    <3>4. QED
      BY <3>1, <3>2, <3>3
  <2>3. context'[side] = History(side, Len(rows[side]), Len(rows[side][Len(rows[side])]) + 1)'
    <3>1. Len(rows'[side]) = n /\ Len(rows'[side][Len(rows'[side])]) + 1 = k + 1 /\ job' = job /\ side' = side
      BY <1>1, <1>7, <1>8
    <3>2. History(side, Len(rows[side]), Len(rows[side][Len(rows[side])]) + 1)'
            = [i \in 1 .. k + 1 |-> IF i = 1 THEN job[side].prompts[n] ELSE rows'[side][n][i - 1].out.token]
      BY <3>1 DEF History
    <3>3. context[side] = [i \in 1 .. k |-> IF i = 1 THEN job[side].prompts[n] ELSE row[i - 1].out.token]
      BY <1>4 DEF History, row
    <3>4. context'[side] = [i \in 1 .. k + 1 |-> IF i = k + 1 THEN out.token ELSE context[side][i]]
      BY <1>1, <1>3, <1>4, <1>6, <3>3
    <3>5. rows'[side][n][k].out.token = out.token
      BY <1>5, <1>7, <1>8
    <3>6. \A i \in 1 .. k : i # 1 => rows'[side][n][i - 1] = row[i - 1]
      BY <1>1, <1>7, <1>8
    <3>7. \A i \in 1 .. k + 1 :
            (IF i = k + 1 THEN out.token ELSE context[side][i])
              = (IF i = 1 THEN job[side].prompts[n] ELSE rows'[side][n][i - 1].out.token)
      <4> TAKE i \in 1 .. k + 1
      <4>1. CASE i = k + 1
        <5>1. i # 1 /\ i - 1 = k
          BY <1>1, <4>1
        <5>2. QED
          BY <3>5, <4>1, <5>1
      <4>2. CASE i # k + 1
        <5>1. i \in 1 .. k
          BY <1>1, <4>2
        <5>2. QED
          BY <3>3, <3>6, <4>2, <5>1
      <4>3. QED
        BY <4>1, <4>2
    <3>8. QED
      BY <3>2, <3>4, <3>7
  <2>4. QED
    BY <2>1, <2>2, <2>3, <1>1 DEF HistoryInv
<1>13. ReferenceInv'
  <2>1. CASE side # "reference"
    BY <1>6, <2>1 DEF ReleaseInv, ReferenceInv, Captures
  <2>2. CASE side = "reference"
    <3> SUFFICES ASSUME NEW p \in DOMAIN rows'[side], NEW j \in DOMAIN rows'[side][p]
                 PROVE  rows'[side][p][j].out = Own
      BY <2>2 DEF ReferenceInv
    <3>1. CASE p # n
      BY <1>8, <2>2, <3>1 DEF ReleaseInv, ReferenceInv
    <3>2. CASE p = n /\ j = k
      BY <1>3, <1>5, <1>7, <1>8, <2>2, <3>2
    <3>3. CASE p = n /\ j # k
      <4>1. j \in 1 .. k - 1 /\ n \in DOMAIN rows[side] /\ rows'[side][p][j] = rows[side][n][j]
        BY <1>1, <1>7, <1>8, <3>3 DEF row
      <4>2. j \in DOMAIN rows[side][n]
        BY <1>7, <4>1 DEF row
      <4>3. QED
        BY <2>2, <4>1, <4>2 DEF ReleaseInv, ReferenceInv
    <3>4. QED
      BY <3>1, <3>2, <3>3
  <2>3. QED
    BY <2>1, <2>2
<1>14. FileInv'
  <2>1. side \notin file
    BY <1>1 DEF ReleaseInv, FileInv, Captures
  <2>2. QED
    BY <1>1, <1>6, <2>1 DEF ReleaseInv, FileInv, ReleaseTypeOK
<1>15. PassedInv'
  BY <1>1 DEF ReleaseInv, PassedInv, Captures
<1>16. QED
  BY <1>9, <1>10, <1>12, <1>13, <1>14, <1>15 DEF ReleaseInv

\* Only a complete capture is saved.
LEMMA SaveCaptureKeepsInv == ReleaseInv /\ SaveCapture => ReleaseInv'
<1> SUFFICES ASSUME ReleaseInv, SaveCapture PROVE ReleaseInv'
  OBVIOUS
<1>1. /\ side \in Captures /\ rows[side] # <<>> /\ Len(rows[side]) = Len(job[side].prompts)
      /\ Len(rows[side][Len(rows[side])]) = job[side].tokens
      /\ file' = file \cup {side} /\ side' = Following
      /\ UNCHANGED <<job, rows, context, released>>
  BY DEF SaveCapture, Last
<1>2. ReleaseTypeOK'
  BY <1>1 DEF ReleaseInv, ReleaseTypeOK, Following, Captures
<1>3. ShapeInv'
  BY <1>1 DEF ReleaseInv, ShapeInv
<1>4. HistoryInv'
  BY <1>1 DEF ReleaseInv, HistoryInv, History
<1>5. ReferenceInv'
  BY <1>1 DEF ReleaseInv, ReferenceInv
<1>6. \A p \in DOMAIN rows[side] : Len(rows[side][p]) = job[side].tokens
  <2>1. rows[side] \in Seq(Answer)
    BY <1>1 DEF ReleaseInv, ReleaseTypeOK
  <2>2. \A p \in DOMAIN rows[side] : p = Len(rows[side]) \/ p < Len(rows[side])
    BY <2>1
  <2>3. QED
    BY <1>1, <2>2 DEF ReleaseInv, ShapeInv
<1>7. FileInv'
  BY <1>1, <1>6 DEF ReleaseInv, FileInv, Following, Captures
<1>8. PassedInv'
  BY <1>1 DEF ReleaseInv, PassedInv, Captures
<1>9. QED
  BY <1>2, <1>3, <1>4, <1>5, <1>7, <1>8 DEF ReleaseInv

\* The gate changes nothing but its verdict.
LEMMA EvaluateKeepsInv == ReleaseInv /\ Evaluate => ReleaseInv'
<1> SUFFICES ASSUME ReleaseInv, Evaluate PROVE ReleaseInv'
  OBVIOUS
<1>1. UNCHANGED <<job, rows, context, file, side>> /\ side = "both" /\ released = "open"
  BY DEF Evaluate
<1>2. /\ released' \in {"raised", "refused", "passed"}
      /\ released' = "passed" =>
            /\ file = Captures /\ SameShape /\ TokenAgreement /\ LossKept /\ LayersKept
            /\ \A x \in Places : Close(Candidate(x).logits)
  BY DEF Evaluate
<1>3. ReleaseTypeOK'
  BY <1>1, <1>2 DEF ReleaseInv, ReleaseTypeOK
<1>4. ShapeInv' /\ ReferenceInv' /\ FileInv'
  BY <1>1 DEF ReleaseInv, ShapeInv, ReferenceInv, FileInv
<1>5. HistoryInv'
  BY <1>1 DEF ReleaseInv, HistoryInv, History
<1>6. /\ SameShape' = SameShape /\ TokenAgreement' = TokenAgreement /\ LossKept' = LossKept
      /\ LayersKept' = LayersKept
      /\ (\A x \in Places : Close(Candidate(x).logits))' = (\A x \in Places : Close(Candidate(x).logits))
  BY <1>1 DEF SameShape, TokenAgreement, LossKept, LayersKept, Count, Places, Positions, Candidate, Entry, Close
<1>7. PassedInv'
  BY <1>1, <1>2, <1>6 DEF PassedInv
<1>8. QED
  BY <1>3, <1>4, <1>5, <1>7 DEF ReleaseInv

\* Nothing moves in a stuttering step.
LEMMA ReleaseStutters == ReleaseInv /\ UNCHANGED releaseVars => ReleaseInv'
<1> SUFFICES ASSUME ReleaseInv, UNCHANGED releaseVars PROVE ReleaseInv'
  OBVIOUS
<1>1. UNCHANGED <<job, rows, context, file, side, released>>
  BY DEF releaseVars
<1>2. ReleaseTypeOK' /\ ShapeInv' /\ ReferenceInv' /\ FileInv'
  BY <1>1 DEF ReleaseInv, ReleaseTypeOK, ShapeInv, ReferenceInv, FileInv
<1>3. HistoryInv'
  BY <1>1 DEF ReleaseInv, HistoryInv, History
<1>4. PassedInv'
  <2>1. Places' = Places /\ \A x : Candidate(x)' = Candidate(x)
    BY <1>1, Zenon DEF Places, Positions, Candidate, Entry
  <2>2. /\ SameShape' = SameShape /\ TokenAgreement' = TokenAgreement
        /\ LossKept' = LossKept /\ LayersKept' = LayersKept
    BY <1>1, <2>1, Zenon DEF SameShape, TokenAgreement, LossKept, LayersKept, Count, Places,
                             Positions, Candidate, Entry
  <2>3. QED
    BY <1>1, <2>1, <2>2 DEF ReleaseInv, PassedInv
<1>5. QED
  BY <1>2, <1>3, <1>4 DEF ReleaseInv

\* What a verdict rests on.
THEOREM ReleaseInvariant == ReleaseSpec => []ReleaseInv
<1>1. ReleaseInit => ReleaseInv
  BY ReleaseInitInv
<1>2. ReleaseInv /\ [ReleaseNext]_releaseVars => ReleaseInv'
  BY CaptureEndsKeepsInv, StartPromptKeepsInv, CaptureTokenKeepsInv, SaveCaptureKeepsInv,
     EvaluateKeepsInv, ReleaseStutters DEF ReleaseNext
<1>3. QED
  BY <1>1, <1>2, PTL DEF ReleaseSpec

\* A complete file has an entry for each token of each prompt.
LEMMA CompletePositions ==
    ASSUME ReleaseInv, NEW s \in file
    PROVE  /\ Len(job[s].prompts) \in Nat \ {0} /\ job[s].tokens \in Nat \ {0}
           /\ Positions(s) = (1 .. Len(job[s].prompts)) \X (1 .. job[s].tokens)
           /\ \A x \in Positions(s) : /\ x[1] \in DOMAIN rows[s] /\ x[2] \in DOMAIN rows[s][x[1]]
                                      /\ Entry(s, x).out \in Outs
<1>1. /\ s \in Captures /\ rows[s] \in Seq(Answer) /\ job[s] \in Jobs
      /\ rows[s] # <<>> /\ Len(rows[s]) = Len(job[s].prompts) /\ job[s].tokens > 0
      /\ \A p \in DOMAIN rows[s] : Len(rows[s][p]) = job[s].tokens
  BY DEF ReleaseInv, ReleaseTypeOK, FileInv, ShapeInv
<1>2. Len(job[s].prompts) \in Nat \ {0} /\ job[s].tokens \in Nat \ {0}
  BY <1>1, JobFacts
<1>3. DOMAIN rows[s] = 1 .. Len(job[s].prompts)
  BY <1>1
<1>4. \A p \in DOMAIN rows[s] : rows[s][p] \in Answer /\ DOMAIN rows[s][p] = 1 .. job[s].tokens
  BY <1>1 DEF Answer
<1>5. Positions(s) = (1 .. Len(job[s].prompts)) \X (1 .. job[s].tokens)
  <2>1. ASSUME NEW x \in Positions(s)
        PROVE  x \in (1 .. Len(job[s].prompts)) \X (1 .. job[s].tokens)
    <3>1. PICK p \in DOMAIN rows[s] : x \in {p} \X DOMAIN rows[s][p]
      BY <2>1 DEF Positions
    <3>2. PICK k \in DOMAIN rows[s][p] : x = <<p, k>>
      BY <3>1
    <3>3. p \in 1 .. Len(job[s].prompts) /\ k \in 1 .. job[s].tokens
      BY <1>3, <1>4, <3>2
    <3>4. QED
      BY <3>2, <3>3
  <2>2. ASSUME NEW p \in 1 .. Len(job[s].prompts), NEW k \in 1 .. job[s].tokens
        PROVE  <<p, k>> \in Positions(s)
    <3>1. p \in DOMAIN rows[s]
      BY <1>3
    <3>2. <<p, k>> \in {p} \X DOMAIN rows[s][p]
      BY <1>4, <3>1
    <3>3. QED
      BY <3>1, <3>2 DEF Positions
  <2>3. QED
    BY <2>1, <2>2
<1>6. ASSUME NEW x \in Positions(s)
      PROVE  x[1] \in DOMAIN rows[s] /\ x[2] \in DOMAIN rows[s][x[1]] /\ Entry(s, x).out \in Outs
  <2>1. PICK p \in 1 .. Len(job[s].prompts), k \in 1 .. job[s].tokens : x = <<p, k>>
    BY <1>5
  <2>2. x[1] = p /\ x[2] = k
    BY <2>1
  <2>3. p \in DOMAIN rows[s] /\ k \in DOMAIN rows[s][p]
    BY <1>3, <1>4
  <2>4. rows[s][p] \in Seq([at : Seq(Prompts \cup {0, 1}), out : Outs])
    BY <1>4, <2>3 DEF Answer
  <2>5. rows[s][p][k] \in [at : Seq(Prompts \cup {0, 1}), out : Outs]
    <3> DEFINE S == [at : Seq(Prompts \cup {0, 1}), out : Outs]
               seq == rows[s][p]
    <3>1. seq \in Seq(S) /\ k \in DOMAIN seq
      BY <2>3, <2>4
    <3> HIDE DEF S, seq
    <3>2. k \in 1 .. Len(seq)
      BY <3>1
    <3>3. seq[k] \in S
      BY <3>1, <3>2, ElementOfSeq
    <3>4. QED
      BY <3>3 DEF S, seq
  <2>6. QED
    BY <2>2, <2>3, <2>5 DEF Entry
<1>7. QED
  BY <1>2, <1>5, <1>6

\* For the same prompts, a position of the candidate has the reference's history
\* exactly if no earlier token of its prompt differs.
LEMMA HistoriesMeet ==
    ASSUME ReleaseInv, file = Captures, Positions("reference") = Places, NEW x \in Places,
           job["reference"].prompts = job["candidate"].prompts
    PROVE  Entry("candidate", x).at = Entry("reference", x).at
             <=> {y \in Places : Candidate(y).token # 0 /\ y[1] = x[1] /\ y[2] < x[2]} = {}
<1> DEFINE p == x[1]
           k == x[2]
           P == Len(job["candidate"].prompts)
           T == job["candidate"].tokens
<1>1. /\ Places = (1 .. P) \X (1 .. T) /\ P \in Nat /\ T \in Nat
      /\ "candidate" \in Captures /\ "reference" \in Captures
  BY CompletePositions DEF Places, Captures
<1>2. p \in 1 .. P /\ k \in 1 .. T /\ x = <<p, k>>
  BY <1>1
<1>3. /\ p \in DOMAIN rows["candidate"] /\ k \in DOMAIN rows["candidate"][p]
      /\ p \in DOMAIN rows["reference"] /\ k \in DOMAIN rows["reference"][p]
  BY CompletePositions DEF Places, Captures
<1>4. Entry("candidate", x).at = History("candidate", p, k)
  BY <1>1, <1>3 DEF Entry, ReleaseInv, HistoryInv
<1>5. Entry("reference", x).at = History("reference", p, k)
  BY <1>1, <1>3 DEF Entry, ReleaseInv, HistoryInv
<1>6. \A j \in 1 .. T :
        /\ rows["candidate"][p][j].out = Candidate(<<p, j>>) /\ <<p, j>> \in Places
        /\ rows["reference"][p][j].out.token = 0
  <2> TAKE j \in 1 .. T
  <2>1. <<p, j>> \in Places
    BY <1>1, <1>2
  <2>2. p \in DOMAIN rows["reference"] /\ j \in DOMAIN rows["reference"][p]
    BY <2>1, CompletePositions, <1>1
  <2>3. rows["reference"][p][j].out = Own
    BY <2>2 DEF ReleaseInv, ReferenceInv
  <2>4. QED
    BY <2>1, <2>3 DEF Own, Candidate, Entry
<1> DEFINE before == {y \in Places : Candidate(y).token # 0 /\ y[1] = x[1] /\ y[2] < x[2]}
<1>7. ASSUME before = {}
      PROVE  History("candidate", p, k) = History("reference", p, k)
  <2>1. \A i \in 1 .. k : i # 1 =>
          rows["candidate"][p][i - 1].out.token = rows["reference"][p][i - 1].out.token
    <3> SUFFICES ASSUME NEW i \in 1 .. k, i # 1
                 PROVE  rows["candidate"][p][i - 1].out.token = rows["reference"][p][i - 1].out.token
      OBVIOUS
    <3>1. i - 1 \in 1 .. T /\ i - 1 < k
      BY <1>1, <1>2
    <3>2. Candidate(<<p, i - 1>>).token = 0
      BY <1>6, <1>7, <3>1
    <3>3. QED
      BY <1>6, <3>1, <3>2
  <2>2. QED
    BY <2>1 DEF History
<1>8. ASSUME NEW y \in before
      PROVE  History("candidate", p, k) # History("reference", p, k)
  <2>1. y \in Places /\ Candidate(y).token # 0 /\ y[1] = p /\ y[2] < k /\ y[2] \in 1 .. T /\ y = <<p, y[2]>>
    BY <1>1
  <2> DEFINE i == y[2] + 1
  <2>2. i \in 1 .. k /\ i # 1 /\ i - 1 = y[2]
    BY <1>1, <1>2, <2>1
  <2>3. rows["candidate"][p][i - 1].out.token # 0 /\ rows["reference"][p][i - 1].out.token = 0
    BY <1>6, <2>1, <2>2
  <2> HIDE DEF i
  <2>4. History("candidate", p, k)[i] # History("reference", p, k)[i]
    BY <2>2, <2>3 DEF History
  <2>5. QED
    BY <2>4
<1>9. QED
  BY <1>4, <1>5, <1>7, <1>8

\* What the gate compares carries over to what the property asks.
LEMMA PassedIsEvidence == ReleaseInv => ReleaseIsEvidence
<1> SUFFICES ASSUME ReleaseInv, released = "passed" PROVE ReleaseIsEvidence
  BY DEF ReleaseIsEvidence
<1>1. /\ file = Captures /\ SameShape /\ TokenAgreement /\ LossKept /\ LayersKept
      /\ \A x \in Places : Close(Candidate(x).logits)
  BY DEF ReleaseInv, PassedInv
<1> DEFINE P == Len(job["candidate"].prompts)
           T == job["candidate"].tokens
           diverged == {x \in Places : Candidate(x).token # 0}
<1>2. "candidate" \in file /\ "reference" \in file
  BY <1>1 DEF Captures
<1>3. /\ Places = (1 .. P) \X (1 .. T) /\ P \in Nat \ {0} /\ T \in Nat \ {0}
      /\ \A x \in Places : Candidate(x) \in Outs
  BY <1>2, CompletePositions DEF Places, Candidate
<1>4. Positions("reference") = Places
  <2>1. Len(job["reference"].prompts) = P /\ job["reference"].tokens = T
    BY <1>1 DEF SameShape
  <2>2. QED
    BY <1>2, <1>3, <2>1, CompletePositions
<1>5. Places # {}
  <2>1. <<1, 1>> \in Places
    BY <1>3
  <2>2. QED
    BY <2>1
<1>6. IsFiniteSet(Places) /\ Cardinality(Places) \in Nat
  <2>0. P \in Int /\ T \in Int /\ 1 \in Int
    BY <1>3
  <2> HIDE DEF P, T
  <2>1. IsFiniteSet(1 .. P) /\ IsFiniteSet(1 .. T)
    BY <2>0, FS_Interval
  <2>2. IsFiniteSet(Places)
    BY <1>3, <2>1, FS_Product
  <2>3. QED
    BY <2>2, FS_CardinalityType
<1>7. \A x \in Places : {Candidate(x).logits, Candidate(x).layers} = {"close"}
  BY <1>1 DEF Close, LayersKept
<1>8. 100 * Cardinality(diverged) <= Cardinality(Places)
  <2> DEFINE kept == {x \in Places : Candidate(x)["token"] = 0}
  <2>1. diverged = Places \ kept /\ Places \cap kept = kept
    OBVIOUS
  <2> HIDE DEF kept, diverged
  <2>2. Cardinality(diverged) = Cardinality(Places) - Cardinality(kept)
    <3>1. Cardinality(Places \ kept) = Cardinality(Places) - Cardinality(Places \cap kept)
      BY <1>6, FS_Difference
    <3>2. QED
      BY <2>1, <3>1
  <2>3. IsFiniteSet(kept)
    <3>1. kept \subseteq Places
      BY <2>1
    <3>2. QED
      BY <1>6, <3>1, FS_Subset
  <2>4. Cardinality(kept) \in Nat
    BY <2>3, FS_CardinalityType
  <2>5. 100 * Cardinality(kept) >= 99 * Cardinality(Places)
    BY <1>1 DEF TokenAgreement, Count, kept
  <2>6. QED
    BY <1>6, <2>2, <2>4, <2>5
<1>9. LET worse(k) == Cardinality({x \in Places : Candidate(x).loss = k})
      IN  worse(1) + 2 * worse(2) - worse(-1) <= Cardinality(Places)
  <2>1. \A k : {x \in Places : Candidate(x).loss = k} = {x \in Places : Candidate(x)["loss"] = k}
    OBVIOUS
  <2>2. Count("loss", 1) + 2 * Count("loss", 2) - Count("loss", -1) <= Cardinality(Places)
    BY <1>1 DEF LossKept
  <2>3. QED
    BY <2>1, <2>2 DEF Count
<1>10. ASSUME NEW x \in Places, job["reference"].prompts = job["candidate"].prompts
       PROVE  Entry("candidate", x).at = Entry("reference", x).at
                <=> {y \in diverged : y[1] = x[1] /\ y[2] < x[2]} = {}
  <2>1. {y \in diverged : y[1] = x[1] /\ y[2] < x[2]}
          = {y \in Places : Candidate(y).token # 0 /\ y[1] = x[1] /\ y[2] < x[2]}
    OBVIOUS
  <2>2. QED
    BY <1>1, <1>4, <1>10, <2>1, HistoriesMeet
<1>11. job["candidate"].layers = job["reference"].layers
  BY <1>1 DEF LayersKept
<1>12. QED
  BY <1>4, <1>5, <1>7, <1>8, <1>9, <1>10, <1>11 DEF ReleaseIsEvidence

\* A candidate passes the release gate only on evidence.
THEOREM ReleasesAreEvidence == ReleaseSpec => []ReleaseIsEvidence
BY ReleaseInvariant, PassedIsEvidence, PTL
=============================================================================
