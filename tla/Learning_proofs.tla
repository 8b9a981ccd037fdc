-------------------------- MODULE Learning_proofs --------------------------
(***************************************************************************)
(* The tools of learning/. The decode runtime: for every number of         *)
(* sessions, prompt length, number of steps and capacity with room for     *)
(* them, caches hold their own prefix, no write passes their end, and      *)
(* callers get the greedy continuation. The kernels: for every    *)
(* launch the launchers accept, of any sizes, each cell of the output is   *)
(* stored once, with the terms PyTorch would sum.                          *)
(***************************************************************************)
EXTENDS StaticDecode, KernelLaunch, TLAPS

-----------------------------------------------------------------------------
(***************************************************************************)
(* The decode runtime.                                                     *)
(***************************************************************************)

\* Steps of the position so far: the caller's answers and a graph's warmup.
Taken(s) == Len(answers[s]) + (IF s \in graphs THEN 1 ELSE 0)

\* What relates the fields of one session.
SessionInv(s) ==
    /\ s \notin ready => answers[s] = <<>> /\ s \notin graphs
    /\ s \in graphs => Fused /\ RoomForWarmup
    /\ Len(answers[s]) <= Steps
    /\ s \in ready =>
         /\ position[s] = Context + Taken(s)
         /\ PrefixIsRight(s, position[s])
         /\ open[s] = 0 .. position[s] - 1
         /\ ~Fused => cumulative[s] = position[s]
         /\ IF s \in graphs THEN graphToken[s] = position[s] ELSE token[s] = position[s]
    /\ \A i \in DOMAIN answers[s] :
         /\ answers[s][i] \in {Context + i, Context + i + 1}
         /\ answers[s][i] = Context + i + 1 => s \in graphs
         /\ answers[s][i] <= position[s]
         /\ i > 1 => answers[s][i] > answers[s][i - 1]

StaticInv == StaticTypeOK /\ \A s \in Sessions : SessionInv(s)

\* A step whose input stands at the position is right: it writes the entry of
\* the position inside the cache and yields the next token.
LEMMA StepIsRight ==
    ASSUME NEW s \in ready, StaticInv, NEW t, t = position[s],
           position[s] < capacity
    PROVE  /\ position[s] \in Positions
           /\ Landing(WriteSlot(s)) = position[s]
           /\ NewEntry(s, t) = position[s]
           /\ OpenAfter(s) = 0 .. position[s]
           /\ NextToken(s, t) = position[s] + 1
<1>0. s \in Sessions /\ position[s] \in Nat
  BY DEF StaticInv, StaticTypeOK
<1>cap. capacity \in Nat
  BY CapacityAssumption DEF StaticInv, StaticTypeOK
<1>1. SessionInv(s)
  BY <1>0 DEF StaticInv
<1>2. position[s] \in Positions
  BY <1>0, <1>cap DEF Positions
<1>3. WriteSlot(s) = position[s]
  BY <1>1 DEF SessionInv, WriteSlot
<1>4. position[s] % capacity = position[s]
  BY <1>0, <1>cap
<1>5. Landing(WriteSlot(s)) = position[s]
  BY <1>3, <1>4 DEF Landing
<1>6. NewEntry(s, t) = position[s]
  BY <1>1, <1>3 DEF SessionInv, NewEntry
<1>7. OpenAfter(s) = 0 .. position[s]
  BY <1>0, <1>1, <1>2 DEF SessionInv, OpenAfter
<1>8. Attended(s) = 0 .. position[s]
  BY <1>7 DEF Attended
<1>9. NextToken(s, t) = position[s] + 1
  BY <1>0, <1>6, <1>8 DEF NextToken, Wrong
<1> QED
  BY <1>2, <1>5, <1>6, <1>7, <1>9

\* There is room for one more step, and for the warmup of a graph.
LEMMA RoomForStep ==
    ASSUME NEW s \in ready, StaticInv, StepsLeft(s) \/ (s \notin graphs /\ RoomForWarmup)
    PROVE  position[s] < capacity
<1>1. /\ s \in Sessions /\ SessionInv(s) /\ Len(answers[s]) \in Nat
      /\ Context \in Nat /\ Steps \in Nat /\ capacity \in Nat /\ capacity >= Context + Steps
  BY CapacityAssumption, SessionsAssumption DEF StaticInv, StaticTypeOK
<1>2. CASE s \in graphs
  <2>1. Len(answers[s]) < Steps
    BY <1>2 DEF StepsLeft
  <2>2. position[s] = Context + Len(answers[s]) + 1
    BY <1>1, <1>2 DEF SessionInv, Taken
  <2>3. capacity > Context + Steps
    BY <1>1, <1>2 DEF SessionInv, RoomForWarmup
  <2> QED
    BY <1>1, <2>1, <2>2, <2>3
<1>3. CASE s \notin graphs
  <2>1. position[s] = Context + Len(answers[s])
    BY <1>1, <1>3 DEF SessionInv, Taken
  <2>2. Len(answers[s]) < Steps \/ (Len(answers[s]) <= Steps /\ capacity > Context + Steps)
    BY <1>1, <1>3 DEF SessionInv, StepsLeft, RoomForWarmup
  <2> QED
    BY <1>1, <2>1, <2>2
<1> QED
  BY <1>2, <1>3

\* What a forward pass for the right input leaves behind, in its session and in
\* the others.
LEMMA ForwardIsRight ==
    ASSUME NEW s \in ready, StaticInv, NEW t, t = position[s],
           position[s] < capacity, Forward(s, t)
    PROVE  /\ kv' \in [Sessions -> [Positions -> Positions \cup {Wrong}]]
           /\ open' \in [Sessions -> SUBSET Positions]
           /\ position' \in [Sessions -> Nat]
           /\ cumulative' \in [Sessions -> Nat]
           /\ position'[s] = position[s] + 1
           /\ \A p \in 0 .. position[s] : kv'[s][p] = p
           /\ open'[s] = 0 .. position[s]
           /\ ~Fused => cumulative'[s] = position[s] + 1
           /\ \A q \in Sessions \ {s} :
                 /\ kv'[q] = kv[q]
                 /\ open'[q] = open[q]
                 /\ position'[q] = position[q]
                 /\ cumulative'[q] = cumulative[q]
<1>0. s \in Sessions /\ position[s] \in Nat /\ SessionInv(s) /\ StaticTypeOK
  BY DEF StaticInv, StaticTypeOK
<1>1. /\ position[s] \in Positions
      /\ Landing(WriteSlot(s)) = position[s]
      /\ NewEntry(s, t) = position[s]
      /\ OpenAfter(s) = 0 .. position[s]
  BY StepIsRight
<1>2. /\ kv' = [kv EXCEPT ![s][position[s]] = position[s]]
      /\ open' = [open EXCEPT ![s] = 0 .. position[s]]
      /\ position' = [position EXCEPT ![s] = position[s] + 1]
      /\ cumulative' = [cumulative EXCEPT ![s] = IF Fused THEN cumulative[s] ELSE cumulative[s] + 1]
  BY <1>1 DEF Forward
<1>3. kv' = [kv EXCEPT ![s] = [kv[s] EXCEPT ![position[s]] = position[s]]]
  BY <1>2
<1>4. [kv[s] EXCEPT ![position[s]] = position[s]] \in [Positions -> Positions \cup {Wrong}]
  BY <1>0, <1>1 DEF StaticTypeOK
<1>5. kv' \in [Sessions -> [Positions -> Positions \cup {Wrong}]]
  BY <1>0, <1>3, <1>4 DEF StaticTypeOK
<1>6. 0 .. position[s] \in SUBSET Positions
  <2>1. capacity \in Nat
    BY <1>0, CapacityAssumption DEF StaticTypeOK
  <2> QED
    BY <1>0, <1>1, <2>1 DEF Positions
<1>7. open' \in [Sessions -> SUBSET Positions]
  BY <1>0, <1>2, <1>6 DEF StaticTypeOK
<1>8. position' \in [Sessions -> Nat] /\ cumulative' \in [Sessions -> Nat]
  BY <1>0, <1>2 DEF StaticTypeOK
<1>9. kv'[s] = [kv[s] EXCEPT ![position[s]] = position[s]]
  BY <1>0, <1>3 DEF StaticTypeOK
<1>10. \A p \in 0 .. position[s] : kv'[s][p] = p
  <2> SUFFICES ASSUME NEW p \in 0 .. position[s] PROVE kv'[s][p] = p
    OBVIOUS
  <2>1. p \in Positions /\ kv[s] \in [Positions -> Positions \cup {Wrong}]
    BY <1>0, <1>6 DEF StaticTypeOK
  <2>2. CASE p = position[s]
    BY <1>9, <2>1, <2>2
  <2>3. CASE p # position[s]
    <3>1. p \in 0 .. position[s] - 1
      BY <1>0, <2>3
    <3> QED
      BY <1>0, <1>9, <2>1, <2>3, <3>1 DEF SessionInv, PrefixIsRight
  <2> QED
    BY <2>2, <2>3
<1> QED
  BY <1>0, <1>2, <1>3, <1>5, <1>7, <1>8, <1>10 DEF StaticTypeOK, SessionInv

-----------------------------------------------------------------------------
\* The runtime starts in the invariant.
LEMMA InitEstablishesInv == StaticInit => StaticInv
<1> SUFFICES ASSUME StaticInit PROVE StaticInv
  OBVIOUS
<1>1. StaticTypeOK
  BY DEF StaticInit, StaticTypeOK, Paths
<1>2. ASSUME NEW s \in Sessions PROVE SessionInv(s)
  <2>1. answers[s] = <<>> /\ s \notin ready /\ s \notin graphs
    BY DEF StaticInit
  <2>2. Len(answers[s]) <= Steps /\ DOMAIN answers[s] = {}
    BY <2>1, SessionsAssumption
  <2> QED
    BY <2>1, <2>2 DEF SessionInv
<1> QED
  BY <1>1, <1>2 DEF StaticInv

\* A session whose fields a step leaves alone stays as it is, also when the
\* fused path takes the model over.
LEMMA OthersKeepInv ==
    ASSUME NEW q \in Sessions, SessionInv(q), path' = path \/ Fused', capacity' = capacity,
           q \in ready' <=> q \in ready, q \in graphs' <=> q \in graphs,
           kv'[q] = kv[q], open'[q] = open[q], position'[q] = position[q],
           cumulative'[q] = cumulative[q], answers'[q] = answers[q],
           token'[q] = token[q], graphToken'[q] = graphToken[q]
    PROVE  SessionInv(q)'
<1>1. Fused => Fused'
  BY DEF Fused
<1>2. Taken(q)' = Taken(q)
  BY DEF Taken
<1>3. PrefixIsRight(q, position[q]) => PrefixIsRight(q, position[q])'
  BY DEF PrefixIsRight
<1>4. ~Fused' => ~Fused
  BY <1>1
<1>5. RoomForWarmup' = RoomForWarmup
  BY DEF RoomForWarmup
<1> QED
  BY <1>1, <1>2, <1>3, <1>4, <1>5 DEF SessionInv

\* Installing the static cache keeps the invariant.
LEMMA InstallKeepsInv == StaticInv /\ Install => StaticInv'
<1> SUFFICES ASSUME StaticInv, Install PROVE StaticInv'
  OBVIOUS
<1>1. Fused' /\ path' \in Paths
  BY DEF Install, Fused
<1>2. StaticTypeOK'
  BY <1>1 DEF StaticInv, StaticTypeOK, Install, sessionVars, Positions
<1>3. ASSUME NEW q \in Sessions PROVE SessionInv(q)'
  BY <1>1, OthersKeepInv DEF StaticInv, Install, sessionVars
<1> QED
  BY <1>2, <1>3 DEF StaticInv

\* Preparing a generation keeps the invariant.
LEMMA PrepareKeepsInv ==
    ASSUME NEW s \in Sessions, StaticInv, Prepare(s) PROVE StaticInv'
<1>1. /\ Context \in Nat \ {0} /\ capacity \in Nat /\ Context <= capacity
      /\ capacity' = capacity /\ Positions' = Positions
  BY CapacityAssumption, SessionsAssumption DEF StaticInv, StaticTypeOK, Prepare, Positions
<1>2. 0 .. Context - 1 \in SUBSET Positions
  BY <1>1 DEF Positions
<1>3. [p \in Positions |-> IF p < Context THEN p ELSE Wrong]
        \in [Positions -> Positions \cup {Wrong}]
  OBVIOUS
<1>4. StaticTypeOK'
  BY <1>1, <1>2, <1>3 DEF StaticInv, StaticTypeOK, Prepare, MakeMask
<1>5. SessionInv(s)'
  <2>1. answers[s] = <<>> /\ s \notin graphs
    BY DEF StaticInv, SessionInv, Prepare
  <2>2. answers'[s] = <<>> /\ s \notin graphs' /\ DOMAIN answers'[s] = {} /\ Len(answers'[s]) = 0
    BY <2>1 DEF Prepare
  <2>3. /\ position'[s] = Context /\ cumulative'[s] = Context /\ token'[s] = Context
        /\ open'[s] = 0 .. Context - 1
        /\ kv'[s] = [p \in Positions |-> IF p < Context THEN p ELSE Wrong]
    BY DEF Prepare, StaticInv, StaticTypeOK, MakeMask
  <2>4. PrefixIsRight(s, position[s])'
    BY <1>1, <1>2, <2>3 DEF PrefixIsRight
  <2>5. position'[s] = Context + Taken(s)'
    BY <1>1, <2>2, <2>3 DEF Taken
  <2> QED
    BY <2>2, <2>3, <2>4, <2>5, SessionsAssumption DEF SessionInv
<1>6. ASSUME NEW q \in Sessions, q # s PROVE SessionInv(q)'
  BY <1>6, OthersKeepInv DEF Prepare, StaticInv, StaticTypeOK
<1> QED
  BY <1>4, <1>5, <1>6 DEF StaticInv

\* A step that hands the next token to the caller extends the answers rightly.
LEMMA AnswerIsRight ==
    ASSUME NEW s \in ready, StaticInv, StepsLeft(s), graphs' = graphs,
           position'[s] = position[s] + 1,
           answers' = [answers EXCEPT ![s] = Append(@, position[s] + 1)]
    PROVE  /\ answers' \in [Sessions -> Seq(Nat \cup {Wrong})]
           /\ Len(answers'[s]) <= Steps
           /\ position'[s] = Context + Taken(s)'
           /\ \A i \in DOMAIN answers'[s] :
                 /\ answers'[s][i] \in {Context + i, Context + i + 1}
                 /\ answers'[s][i] = Context + i + 1 => s \in graphs'
                 /\ answers'[s][i] <= position'[s]
                 /\ i > 1 => answers'[s][i] > answers'[s][i - 1]
<1> DEFINE n == Len(answers[s])
<1>1. /\ s \in Sessions /\ SessionInv(s)
      /\ answers[s] \in Seq(Nat \cup {Wrong}) /\ position[s] \in Nat /\ n \in Nat
      /\ Context \in Nat /\ Steps \in Nat
  BY SessionsAssumption DEF StaticInv, StaticTypeOK
<1>2. answers'[s] = Append(answers[s], position[s] + 1)
  BY <1>1 DEF StaticInv, StaticTypeOK
<1>3. position[s] + 1 \in Nat \cup {Wrong}
  BY <1>1
<1>4. /\ answers'[s] \in Seq(Nat \cup {Wrong})
      /\ Len(answers'[s]) = n + 1
      /\ DOMAIN answers'[s] = 1 .. n + 1 /\ DOMAIN answers[s] = 1 .. n
      /\ answers'[s][n + 1] = position[s] + 1
      /\ \A i \in 1 .. n : answers'[s][i] = answers[s][i]
  BY <1>1, <1>2, <1>3
<1>5. answers' \in [Sessions -> Seq(Nat \cup {Wrong})]
  BY <1>1, <1>2, <1>4 DEF StaticInv, StaticTypeOK
<1>6. n < Steps
  BY DEF StepsLeft
<1>7. \/ s \in graphs /\ position[s] = Context + n + 1
      \/ s \notin graphs /\ position[s] = Context + n
  <2>1. position[s] = Context + (n + (IF s \in graphs THEN 1 ELSE 0))
    BY <1>1 DEF SessionInv, Taken
  <2>2. CASE s \in graphs
    BY <1>1, <2>1, <2>2
  <2>3. CASE s \notin graphs
    BY <1>1, <2>1, <2>3
  <2> QED
    BY <2>2, <2>3
<1>8. position'[s] = Context + Taken(s)'
  <2>1. Taken(s)' = (n + 1) + (IF s \in graphs THEN 1 ELSE 0)
    BY <1>4 DEF Taken
  <2>2. CASE s \in graphs
    <3>1. Taken(s)' = (n + 1) + 1
      BY <2>1, <2>2
    <3>2. position'[s] = (Context + n + 1) + 1
      BY <1>7, <2>2
    <3> QED
      BY <1>1, <3>1, <3>2
  <2>3. CASE s \notin graphs
    <3>1. Taken(s)' = (n + 1) + 0
      BY <2>1, <2>3
    <3>2. position'[s] = (Context + n) + 1
      BY <1>7, <2>3
    <3> QED
      BY <1>1, <3>1, <3>2
  <2> QED
    BY <2>2, <2>3
<1>9. ASSUME NEW i \in DOMAIN answers'[s]
      PROVE  /\ answers'[s][i] \in {Context + i, Context + i + 1}
             /\ answers'[s][i] = Context + i + 1 => s \in graphs'
             /\ answers'[s][i] <= position'[s]
             /\ i > 1 => answers'[s][i] > answers'[s][i - 1]
  <2>1. CASE i \in 1 .. n
    <3>1. /\ answers[s][i] \in {Context + i, Context + i + 1}
          /\ answers[s][i] = Context + i + 1 => s \in graphs
          /\ answers[s][i] <= position[s]
          /\ i > 1 => answers[s][i] > answers[s][i - 1]
      BY <1>1, <1>4, <2>1 DEF SessionInv
    <3>2. answers'[s][i] = answers[s][i]
      BY <1>4, <2>1
    <3>3. i > 1 => answers'[s][i - 1] = answers[s][i - 1]
      BY <1>1, <1>4, <2>1
    <3>4. answers'[s][i] <= position'[s]
      BY <1>1, <2>1, <3>1, <3>2
    <3> QED
      BY <3>1, <3>2, <3>3, <3>4
  <2>2. CASE i = n + 1
    <3>1. answers'[s][i] = position[s] + 1
      BY <1>4, <2>2
    <3>2. i > 1 => answers'[s][i - 1] = answers[s][n] /\ answers[s][n] <= position[s] /\ answers[s][n] \in Int
      <4> SUFFICES ASSUME i > 1
                   PROVE  answers'[s][i - 1] = answers[s][n] /\ answers[s][n] <= position[s] /\ answers[s][n] \in Int
        OBVIOUS
      <4>1. n \in 1 .. n /\ i - 1 = n
        BY <1>1, <2>2
      <4>2. answers[s][n] \in {Context + n, Context + n + 1} /\ answers[s][n] <= position[s]
        BY <1>1, <1>4, <4>1 DEF SessionInv
      <4> QED
        BY <1>1, <1>4, <4>1, <4>2
    <3>3. answers'[s][i] \in {Context + i, Context + i + 1}
      <4>1. answers'[s][i] = (Context + n + 1) + 1 \/ answers'[s][i] = (Context + n) + 1
        BY <1>7, <3>1
      <4> QED
        BY <1>1, <2>2, <4>1
    <3>4. answers'[s][i] = Context + i + 1 => s \in graphs'
      BY <1>1, <1>7, <2>2, <3>1
    <3>5. i > 1 => answers'[s][i] > answers'[s][i - 1]
      BY <1>1, <3>1, <3>2
    <3> QED
      BY <1>1, <3>1, <3>3, <3>4, <3>5
  <2> QED
    BY <1>1, <1>4, <2>1, <2>2
<1> QED
  BY <1>1, <1>4, <1>5, <1>6, <1>8, <1>9

\* An eager step keeps the invariant.
LEMMA EagerStepKeepsInv ==
    ASSUME NEW s \in Sessions, StaticInv, EagerStep(s) PROVE StaticInv'
<1>1. s \in ready /\ s \notin graphs /\ StepsLeft(s) /\ Forward(s, token[s])
  BY DEF EagerStep
<1>2. position[s] < capacity
  BY <1>1, RoomForStep
<1>3. token[s] = position[s]
  BY <1>1 DEF StaticInv, SessionInv
<1>4. NextToken(s, token[s]) = position[s] + 1
  BY <1>1, <1>2, <1>3, StepIsRight
<1>5. /\ kv' \in [Sessions -> [Positions -> Positions \cup {Wrong}]]
      /\ open' \in [Sessions -> SUBSET Positions]
      /\ position' \in [Sessions -> Nat]
      /\ cumulative' \in [Sessions -> Nat]
      /\ position'[s] = position[s] + 1
      /\ \A p \in 0 .. position[s] : kv'[s][p] = p
      /\ open'[s] = 0 .. position[s]
      /\ ~Fused => cumulative'[s] = position[s] + 1
      /\ \A q \in Sessions \ {s} :
            /\ kv'[q] = kv[q]
            /\ open'[q] = open[q]
            /\ position'[q] = position[q]
            /\ cumulative'[q] = cumulative[q]
  BY <1>1, <1>2, <1>3, ForwardIsRight
<1>6. /\ token' = [token EXCEPT ![s] = position[s] + 1]
      /\ answers' = [answers EXCEPT ![s] = Append(@, position[s] + 1)]
      /\ path' = path /\ ready' = ready /\ graphToken' = graphToken /\ graphs' = graphs
      /\ capacity' = capacity /\ Positions' = Positions
  BY <1>4 DEF EagerStep, Positions
<1>7. position[s] \in Nat
  BY DEF StaticInv, StaticTypeOK
<1>8. /\ answers' \in [Sessions -> Seq(Nat \cup {Wrong})]
      /\ Len(answers'[s]) <= Steps
      /\ position'[s] = Context + Taken(s)'
      /\ \A i \in DOMAIN answers'[s] :
            /\ answers'[s][i] \in {Context + i, Context + i + 1}
            /\ answers'[s][i] = Context + i + 1 => s \in graphs'
            /\ answers'[s][i] <= position'[s]
            /\ i > 1 => answers'[s][i] > answers'[s][i - 1]
  BY <1>1, <1>5, <1>6, AnswerIsRight
<1>9. StaticTypeOK'
  BY <1>5, <1>6, <1>7, <1>8 DEF StaticInv, StaticTypeOK
<1>10. SessionInv(s)'
  <2>1. position'[s] - 1 = position[s]
    BY <1>5, <1>7
  <2>2. PrefixIsRight(s, position[s])'
    BY <1>5, <2>1 DEF PrefixIsRight
  <2>3. token'[s] = position'[s]
    BY <1>5, <1>6 DEF StaticInv, StaticTypeOK
  <2>4. Fused' = Fused /\ RoomForWarmup' = RoomForWarmup
    BY <1>6 DEF Fused, RoomForWarmup
  <2> QED
    BY <1>1, <1>5, <1>6, <1>8, <2>1, <2>2, <2>3, <2>4 DEF SessionInv
<1>11. ASSUME NEW q \in Sessions, q # s PROVE SessionInv(q)'
  BY <1>5, <1>6, <1>11, OthersKeepInv DEF StaticInv, StaticTypeOK
<1> QED
  BY <1>9, <1>10, <1>11 DEF StaticInv

\* Capturing a graph keeps the invariant.
LEMMA BuildGraphKeepsInv ==
    ASSUME NEW s \in Sessions, StaticInv, BuildGraph(s) PROVE StaticInv'
<1>1. Fused /\ RoomForWarmup /\ s \in ready /\ s \notin graphs /\ Forward(s, token[s])
  BY DEF BuildGraph
<1>2. position[s] < capacity
  BY <1>1, RoomForStep
<1>3. token[s] = position[s]
  BY <1>1 DEF StaticInv, SessionInv
<1>4. NextToken(s, token[s]) = position[s] + 1
  BY <1>1, <1>2, <1>3, StepIsRight
<1>5. /\ kv' \in [Sessions -> [Positions -> Positions \cup {Wrong}]]
      /\ open' \in [Sessions -> SUBSET Positions]
      /\ position' \in [Sessions -> Nat]
      /\ cumulative' \in [Sessions -> Nat]
      /\ position'[s] = position[s] + 1
      /\ \A p \in 0 .. position[s] : kv'[s][p] = p
      /\ open'[s] = 0 .. position[s]
      /\ \A q \in Sessions \ {s} :
            /\ kv'[q] = kv[q]
            /\ open'[q] = open[q]
            /\ position'[q] = position[q]
            /\ cumulative'[q] = cumulative[q]
  BY <1>1, <1>2, <1>3, ForwardIsRight
<1>6. /\ graphToken' = [graphToken EXCEPT ![s] = position[s] + 1]
      /\ graphs' = graphs \cup {s}
      /\ path' = path /\ ready' = ready /\ token' = token /\ answers' = answers
      /\ capacity' = capacity /\ Positions' = Positions
  BY <1>4 DEF BuildGraph, Positions
<1>7. position[s] \in Nat /\ Len(answers[s]) \in Nat /\ Context \in Nat /\ SessionInv(s)
  BY SessionsAssumption DEF StaticInv, StaticTypeOK
<1>8. StaticTypeOK'
  BY <1>5, <1>6, <1>7 DEF StaticInv, StaticTypeOK
<1>9. SessionInv(s)'
  <2>1. position'[s] - 1 = position[s]
    BY <1>5, <1>7
  <2>2. PrefixIsRight(s, position[s])'
    BY <1>5, <2>1 DEF PrefixIsRight
  <2>3. graphToken'[s] = position'[s] /\ s \in graphs' /\ Fused' /\ RoomForWarmup'
    BY <1>1, <1>5, <1>6 DEF StaticInv, StaticTypeOK, Fused, RoomForWarmup
  <2>4. position'[s] = Context + Taken(s)'
    <3>1. position[s] = Context + Len(answers[s])
      BY <1>1, <1>7 DEF SessionInv, Taken
    <3>2. Taken(s)' = Len(answers[s]) + 1
      BY <1>6, <2>3 DEF Taken
    <3> QED
      BY <1>5, <1>7, <3>1, <3>2
  <2>5. ASSUME NEW i \in DOMAIN answers'[s]
        PROVE  /\ answers'[s][i] \in {Context + i, Context + i + 1}
               /\ answers'[s][i] <= position'[s]
               /\ i > 1 => answers'[s][i] > answers'[s][i - 1]
    <3>1. /\ answers[s][i] \in {Context + i, Context + i + 1}
          /\ answers[s][i] <= position[s]
          /\ i > 1 => answers[s][i] > answers[s][i - 1]
      BY <1>6, <1>7 DEF SessionInv
    <3>2. i \in Nat
      BY <1>6 DEF StaticInv, StaticTypeOK
    <3>3. answers'[s][i] <= position'[s]
      BY <1>5, <1>6, <1>7, <3>1, <3>2
    <3> QED
      BY <1>6, <3>1, <3>3
  <2>6. Len(answers'[s]) <= Steps
    BY <1>6, <1>7 DEF SessionInv
  <2> QED
    BY <1>1, <1>5, <1>6, <2>1, <2>2, <2>3, <2>4, <2>5, <2>6 DEF SessionInv
<1>10. ASSUME NEW q \in Sessions, q # s PROVE SessionInv(q)'
  BY <1>5, <1>6, <1>10, OthersKeepInv DEF StaticInv, StaticTypeOK
<1> QED
  BY <1>8, <1>9, <1>10 DEF StaticInv
\* Replaying a graph keeps the invariant.
LEMMA ReplayKeepsInv ==
    ASSUME NEW s \in Sessions, StaticInv, Replay(s) PROVE StaticInv'
<1>1. s \in ready /\ s \in graphs /\ StepsLeft(s) /\ Forward(s, graphToken[s])
  BY DEF Replay, ReplayInput, StaticInv, SessionInv
<1>2. position[s] < capacity
  BY <1>1, RoomForStep
<1>3. graphToken[s] = position[s]
  BY <1>1 DEF StaticInv, SessionInv
<1>4. NextToken(s, graphToken[s]) = position[s] + 1
  BY <1>1, <1>2, <1>3, StepIsRight
<1>5. /\ kv' \in [Sessions -> [Positions -> Positions \cup {Wrong}]]
      /\ open' \in [Sessions -> SUBSET Positions]
      /\ position' \in [Sessions -> Nat]
      /\ cumulative' \in [Sessions -> Nat]
      /\ position'[s] = position[s] + 1
      /\ \A p \in 0 .. position[s] : kv'[s][p] = p
      /\ open'[s] = 0 .. position[s]
      /\ ~Fused => cumulative'[s] = position[s] + 1
      /\ \A q \in Sessions \ {s} :
            /\ kv'[q] = kv[q]
            /\ open'[q] = open[q]
            /\ position'[q] = position[q]
            /\ cumulative'[q] = cumulative[q]
  BY <1>1, <1>2, <1>3, ForwardIsRight
<1>6. /\ graphToken' = [graphToken EXCEPT ![s] = position[s] + 1]
      /\ answers' = [answers EXCEPT ![s] = Append(@, position[s] + 1)]
      /\ path' = path /\ ready' = ready /\ token' = token /\ graphs' = graphs
      /\ capacity' = capacity /\ Positions' = Positions
  BY <1>4 DEF Replay, ReplayInput, Positions
<1>7. position[s] \in Nat
  BY DEF StaticInv, StaticTypeOK
<1>8. /\ answers' \in [Sessions -> Seq(Nat \cup {Wrong})]
      /\ Len(answers'[s]) <= Steps
      /\ position'[s] = Context + Taken(s)'
      /\ \A i \in DOMAIN answers'[s] :
            /\ answers'[s][i] \in {Context + i, Context + i + 1}
            /\ answers'[s][i] = Context + i + 1 => s \in graphs'
            /\ answers'[s][i] <= position'[s]
            /\ i > 1 => answers'[s][i] > answers'[s][i - 1]
  BY <1>1, <1>5, <1>6, AnswerIsRight
<1>9. StaticTypeOK'
  BY <1>5, <1>6, <1>7, <1>8 DEF StaticInv, StaticTypeOK
<1>10. SessionInv(s)'
  <2>1. position'[s] - 1 = position[s]
    BY <1>5, <1>7
  <2>2. PrefixIsRight(s, position[s])'
    BY <1>5, <2>1 DEF PrefixIsRight
  <2>3. graphToken'[s] = position'[s]
    BY <1>5, <1>6 DEF StaticInv, StaticTypeOK
  <2>4. Fused' /\ s \in ready' /\ RoomForWarmup'
    BY <1>1, <1>6 DEF Fused, StaticInv, SessionInv, RoomForWarmup
  <2> QED
    BY <1>1, <1>5, <1>6, <1>8, <2>1, <2>2, <2>3, <2>4 DEF SessionInv
<1>11. ASSUME NEW q \in Sessions, q # s PROVE SessionInv(q)'
  BY <1>5, <1>6, <1>11, OthersKeepInv DEF StaticInv, StaticTypeOK
<1> QED
  BY <1>9, <1>10, <1>11 DEF StaticInv

-----------------------------------------------------------------------------
\* The inductive invariant: every session's position counts its steps, what lies
\* before it is right, and so is the token it decodes next.
THEOREM StaticInvariant == StaticSpec => []StaticInv
<1>1. StaticInit => StaticInv
  BY InitEstablishesInv
<1>2. StaticInv /\ [StaticNext]_decodeVars => StaticInv'
  <2> SUFFICES ASSUME StaticInv, [StaticNext]_decodeVars PROVE StaticInv'
    OBVIOUS
  <2>1. CASE Install
    BY <2>1, InstallKeepsInv
  <2>2. ASSUME NEW s \in Sessions, Prepare(s) PROVE StaticInv'
    BY <2>2, PrepareKeepsInv
  <2>3. ASSUME NEW s \in Sessions, EagerStep(s) PROVE StaticInv'
    BY <2>3, EagerStepKeepsInv
  <2>4. ASSUME NEW s \in Sessions, BuildGraph(s) PROVE StaticInv'
    BY <2>4, BuildGraphKeepsInv
  <2>5. ASSUME NEW s \in Sessions, Replay(s) PROVE StaticInv'
    BY <2>5, ReplayKeepsInv
  <2>6. CASE UNCHANGED decodeVars
    <3>1. StaticTypeOK'
      BY <2>6 DEF StaticInv, StaticTypeOK, decodeVars, sessionVars, Positions
    <3>2. ASSUME NEW q \in Sessions PROVE SessionInv(q)'
      BY <2>6, OthersKeepInv DEF StaticInv, decodeVars, sessionVars
    <3> QED
      BY <3>1, <3>2 DEF StaticInv
  <2> QED
    BY <2>1, <2>2, <2>3, <2>4, <2>5, <2>6 DEF StaticNext
<1> QED
  BY <1>1, <1>2, PTL DEF StaticSpec

\* The state is always well typed; in particular no entry, mask bit or token
\* lies outside its buffer.
THEOREM StaticTypeCorrect == StaticSpec => []StaticTypeOK
<1>1. StaticInv => StaticTypeOK
  BY DEF StaticInv
<1> QED
  BY <1>1, StaticInvariant, PTL

\* static_kv.py: whoever wrote them and whenever the fused path took over, the
\* entries before the position are the session's own and the mask opens those.
THEOREM CachesHoldPrefixes == StaticSpec => []CacheHoldsPrefix
<1>1. StaticInv => CacheHoldsPrefix
  <2> SUFFICES ASSUME StaticInv, NEW s \in ready
               PROVE  PrefixIsRight(s, position[s]) /\ open[s] = 0 .. position[s] - 1
    BY DEF CacheHoldsPrefix
  <2> QED
    BY DEF StaticInv, StaticTypeOK, SessionInv
<1> QED
  BY <1>1, StaticInvariant, PTL

\* The unchecked position of the kernels never passes the end of the cache, also
\* of one that has exactly the room the steps need.
THEOREM PositionsStayInside == StaticSpec => []PositionStaysInside
<1>1. StaticInv => PositionStaysInside
  <2> SUFFICES ASSUME StaticInv, NEW s \in ready PROVE position[s] <= capacity
    BY DEF PositionStaysInside
  <2>1. /\ SessionInv(s) /\ Len(answers[s]) \in Nat
        /\ Context \in Nat /\ Steps \in Nat /\ capacity \in Nat /\ capacity >= Context + Steps
    BY CapacityAssumption, SessionsAssumption DEF StaticInv, StaticTypeOK
  <2>2. \/ position[s] = Context + Len(answers[s]) + 1 /\ capacity > Context + Steps
        \/ position[s] = Context + Len(answers[s])
    <3>1. position[s] = Context + (Len(answers[s]) + (IF s \in graphs THEN 1 ELSE 0))
      BY <2>1 DEF SessionInv, Taken
    <3>2. CASE s \in graphs
      BY <2>1, <3>1, <3>2 DEF SessionInv, RoomForWarmup
    <3>3. CASE s \notin graphs
      BY <2>1, <3>1, <3>3
    <3> QED
      BY <3>2, <3>3
  <2>3. Len(answers[s]) <= Steps
    BY <2>1 DEF SessionInv
  <2> QED
    BY <2>1, <2>2, <2>3
<1> QED
  BY <1>1, StaticInvariant, PTL

\* Eager loop or replayed graph: the caller gets the greedy continuation, but for
\* the token the graph's warmup swallows.
THEOREM AnswersFollowGreedily == StaticSpec => []AnswersAreGreedy
<1>1. StaticInv => AnswersAreGreedy
  BY DEF StaticInv, SessionInv, AnswersAreGreedy
<1> QED
  BY <1>1, StaticInvariant, PTL

-----------------------------------------------------------------------------
(***************************************************************************)
(* Kernels: addresses, masked loops and grids.                             *)
(***************************************************************************)

\* Integer division and remainder.
LEMMA DivMod ==
    ASSUME NEW a \in Int, NEW b \in Nat \ {0}
    PROVE  /\ a \div b \in Int
           /\ a % b \in 0 .. b - 1
           /\ a = b * (a \div b) + (a % b)
OBVIOUS

\* Dividing by a common factor.
LEMMA CancelFactor ==
    ASSUME NEW b \in Nat \ {0}, NEW x \in Int, NEW y \in Int, x * b < y * b + b
    PROVE  x <= y
<1>1. SUFFICES ASSUME x >= y + 1 PROVE FALSE
  OBVIOUS
<1>2. x * b >= (y + 1) * b
  BY <1>1
<1>3. (y + 1) * b = y * b + b
  OBVIOUS
<1>4. QED
  BY <1>2, <1>3

\* Block and lane are those of one address only.
LEMMA OneAddress ==
    ASSUME NEW b \in Nat \ {0}, NEW x \in Int, NEW y \in Int,
           NEW i \in 0 .. b - 1, NEW j \in 0 .. b - 1, x * b + i = y * b + j
    PROVE  x = y /\ i = j
<1>1. x * b \in Int /\ y * b \in Int
  OBVIOUS
<1>2. x * b < y * b + b /\ y * b < x * b + b
  BY <1>1
<1>3. x <= y /\ y <= x
  BY <1>2, CancelFactor
<1>4. x = y
  BY <1>3
<1>5. QED
  BY <1>1, <1>4

\* The quotient of a natural number is one, and below n in n blocks.
LEMMA Quotient ==
    ASSUME NEW a \in Nat, NEW b \in Nat \ {0}
    PROVE  /\ a \div b \in Nat /\ a % b \in 0 .. b - 1
           /\ a = (a \div b) * b + (a % b)
           /\ \A n \in Int : a < n * b => a \div b <= n - 1
<1>1. a \div b \in Int /\ a % b \in 0 .. b - 1 /\ a = (a \div b) * b + (a % b)
  BY DivMod
<1>2. (a \div b) * b \in Int /\ 0 * b = 0
  BY <1>1
<1>3. 0 * b < (a \div b) * b + b
  BY <1>1, <1>2
<1>4. 0 <= a \div b
  BY <1>1, <1>3, CancelFactor
<1>5. ASSUME NEW n \in Int, a < n * b PROVE a \div b <= n - 1
  <2>1. (n - 1) * b + b = n * b /\ n * b \in Int
    OBVIOUS
  <2>2. (a \div b) * b < (n - 1) * b + b
    BY <1>1, <1>2, <1>5, <2>1
  <2>3. QED
    BY <1>1, <2>2, CancelFactor
<1>6. QED
  BY <1>1, <1>4, <1>5

\* Quotient and remainder of an address put together from them.
LEMMA Address ==
    ASSUME NEW b \in Nat \ {0}, NEW q \in Nat, NEW t \in 0 .. b - 1
    PROVE  q * b + t \in Nat /\ (q * b + t) \div b = q /\ (q * b + t) % b = t
<1> DEFINE a == q * b + t
<1>1. a \in Nat
  OBVIOUS
<1>2. (a \div b) * b + (a % b) = q * b + t /\ a \div b \in Int /\ a % b \in 0 .. b - 1
  BY <1>1, Quotient
<1> DEFINE x == a \div b
           i == a % b
<1>3. x * b + i = q * b + t /\ x \in Int /\ i \in 0 .. b - 1
  BY <1>2
<1> HIDE DEF x, i
<1>4. x = q /\ i = t
  BY <1>3, OneAddress
<1>5. QED
  BY <1>1, <1>4 DEF x, i

\* An address below a product lies in one of its blocks.
LEMMA AddressBelow ==
    ASSUME NEW b \in Nat \ {0}, NEW n \in Nat, NEW q \in 0 .. n - 1, NEW t \in 0 .. b - 1
    PROVE  q * b + t \in 0 .. n * b - 1
<1>1. q * b \in Nat /\ n * b \in Nat /\ (q + 1) * b = q * b + b
  OBVIOUS
<1>2. (q + 1) * b <= n * b
  OBVIOUS
<1>3. QED
  BY <1>1, <1>2

\* ceil counts the blocks that cover.
LEMMA CdivCovers ==
    ASSUME NEW a \in Nat, NEW b \in Nat \ {0}
    PROVE  Cdiv(a, b) \in Nat /\ a <= Cdiv(a, b) * b
<1> DEFINE c == a + b - 1
<1>1. c \in Nat /\ a = c - b + 1
  OBVIOUS
<1>2. c \div b \in Nat /\ c % b \in 0 .. b - 1 /\ c = (c \div b) * b + (c % b)
  BY <1>1, Quotient
<1>3. (c \div b) * b \in Nat
  BY <1>2
<1>4. a <= (c \div b) * b
  BY <1>1, <1>2, <1>3
<1>5. QED
  BY <1>2, <1>4 DEF Cdiv

\* No block and lane are counted beyond a dimension they lie in.
LEMMA BlockExists ==
    ASSUME NEW n \in Nat, NEW b \in Nat \ {0}, NEW x \in 0 .. n - 1
    PROVE  /\ x \div b \in 0 .. Cdiv(n, b) - 1 /\ x % b \in Lanes(b)
           /\ (x \div b) * b + (x % b) = x
<1>1. Cdiv(n, b) \in Nat /\ n <= Cdiv(n, b) * b /\ Cdiv(n, b) * b \in Nat
  BY CdivCovers
<1>2. x \in Nat /\ x < Cdiv(n, b) * b
  BY <1>1
<1>3. x \div b \in Nat /\ x \div b <= Cdiv(n, b) - 1
  <2>1. x \div b \in Nat /\ \A m \in Int : x < m * b => x \div b <= m - 1
    BY <1>2, Quotient
  <2>2. QED
    BY <1>1, <1>2, <2>1
<1>4. x % b \in 0 .. b - 1 /\ x = (x \div b) * b + (x % b)
  BY <1>2, Quotient
<1>5. QED
  BY <1>1, <1>3, <1>4 DEF Lanes

-----------------------------------------------------------------------------
\* A flat index is a natural number.
LEMMA FlatIsNat ==
    ASSUME NEW n \in Size, NEW q \in Nat, NEW i \in Lanes(n)
    PROVE  Flat(q, n, i) \in Nat
<1>1. n \in Nat \ {0} /\ i \in 0 .. n - 1
  BY DEF Lanes, Size
<1>2. QED
  BY <1>1, Address DEF Flat

\* It is below the size of what it indexes.
LEMMA FlatIsBelow ==
    ASSUME NEW n \in Size, NEW m \in Nat, NEW q \in Lanes(m), NEW i \in Lanes(n)
    PROVE  Flat(q, n, i) \in Lanes(m * n)
<1>1. n \in Nat \ {0} /\ i \in 0 .. n - 1 /\ q \in 0 .. m - 1
  BY DEF Lanes, Size
<1>2. QED
  BY <1>1, AddressBelow DEF Flat, Lanes

\* It is that of one block and lane only.
LEMMA FlatIsUnique ==
    ASSUME NEW n \in Size, NEW q \in Nat, NEW r \in Nat,
           NEW i \in Lanes(n), NEW j \in Lanes(n), Flat(q, n, i) = Flat(r, n, j)
    PROVE  q = r /\ i = j
<1>1. n \in Nat \ {0} /\ i \in 0 .. n - 1 /\ j \in 0 .. n - 1 /\ q \in Int /\ r \in Int
  BY DEF Lanes, Size
<1>2. QED
  BY <1>1, OneAddress DEF Flat

\* Quotient and remainder of a flat index.
LEMMA FlatParts ==
    ASSUME NEW n \in Size, NEW q \in Nat, NEW i \in Lanes(n)
    PROVE  Flat(q, n, i) \div n = q /\ Flat(q, n, i) % n = i
<1>1. n \in Nat \ {0} /\ i \in 0 .. n - 1
  BY DEF Lanes, Size
<1>2. QED
  BY <1>1, Address DEF Flat

\* Every natural number is the flat index of its quotient and remainder.
LEMMA FlatOfParts ==
    ASSUME NEW n \in Size, NEW x \in Nat
    PROVE  /\ x \div n \in Nat /\ x % n \in Lanes(n)
           /\ Flat(x \div n, n, x % n) = x
           /\ \A m \in Nat : x < m * n => x \div n \in Lanes(m)
<1>1. n \in Nat \ {0}
  BY DEF Size
<1>2. /\ x \div n \in Nat /\ x % n \in 0 .. n - 1
      /\ x = (x \div n) * n + (x % n)
      /\ \A m \in Int : x < m * n => x \div n <= m - 1
  BY <1>1, Quotient
<1> DEFINE y == x \div n
<1>3. y \in Nat /\ \A m \in Int : x < m * n => y <= m - 1
  BY <1>2
<1> HIDE DEF y
<1>4. \A m \in Nat : x < m * n => y \in 0 .. m - 1
  BY <1>3
<1>5. QED
  BY <1>2, <1>4 DEF Flat, Lanes, y

\* Every index of a product of dimensions is a flat one.
LEMMA FlatExists ==
    ASSUME NEW n \in Size, NEW m \in Nat, NEW x \in Lanes(m * n)
    PROVE  \E q \in Lanes(m), i \in Lanes(n) : Flat(q, n, i) = x
<1>1. x \in Nat /\ x < m * n
  <2>1. m * n \in Nat
    BY DEF Size
  <2>2. QED
    BY <2>1 DEF Lanes
<1>2. QED
  BY <1>1, FlatOfParts

\* The lanes of one program are below its dimension; so are places of a loop.
LEMMA OwnFacts ==
    ASSUME NEW n \in Nat, NEW b \in Size, NEW p \in Nat, NEW i \in Own(p, n, b)
    PROVE  i \in Lanes(b) /\ Flat(p, b, i) \in Lanes(n)
<1>1. i \in Lanes(b) /\ Flat(p, b, i) < n
  BY DEF Own
<1>2. Flat(p, b, i) \in Nat
  BY <1>1, FlatIsNat
<1>3. QED
  BY <1>1, <1>2 DEF Lanes

\* The number of blocks is natural.
LEMMA CdivIsNat == ASSUME NEW n \in Nat, NEW b \in Size PROVE Cdiv(n, b) \in Nat
BY CdivCovers DEF Size

\* Each index of a dimension is that of a program and a lane of its grid.
LEMMA OwnExists ==
    ASSUME NEW n \in Nat, NEW b \in Size, NEW x \in Lanes(n)
    PROVE  \E p \in Lanes(Cdiv(n, b)) : \E i \in Own(p, n, b) : Flat(p, b, i) = x
<1>0. b \in Nat \ {0} /\ x \in 0 .. n - 1 /\ x < n
  BY DEF Size, Lanes
<1>1. /\ x \div b \in 0 .. Cdiv(n, b) - 1 /\ x % b \in Lanes(b)
      /\ (x \div b) * b + (x % b) = x
  BY <1>0, BlockExists
<1>2. Flat(x \div b, b, x % b) = x
  BY <1>1 DEF Flat
<1>3. x % b \in Own(x \div b, n, b)
  BY <1>0, <1>1, <1>2 DEF Own
<1>4. QED
  BY <1>1, <1>2, <1>3 DEF Lanes

\* A masked loop meets every index of the dimension once, and no other.
LEMMA LoopIsExact ==
    ASSUME NEW n \in Nat, NEW b \in Size
    PROVE  /\ \A o \in Loop(n, b) : Place(o, b) \in Lanes(n)
           /\ \A o, w \in Loop(n, b) : Place(o, b) = Place(w, b) => o = w
           /\ \A x \in Lanes(n) : \E o \in Loop(n, b) : Place(o, b) = x
<1>0. Cdiv(n, b) \in Nat
  BY CdivIsNat
<1>1. ASSUME NEW o \in Loop(n, b)
      PROVE  /\ o[1] \in Nat /\ o[2] \in Own(o[1], n, b) /\ o[2] \in Lanes(b) /\ o = <<o[1], o[2]>>
             /\ Place(o, b) = Flat(o[1], b, o[2])
  BY <1>0 DEF Loop, Place, Own
<1>2. ASSUME NEW o \in Loop(n, b) PROVE Place(o, b) \in Lanes(n)
  BY <1>1, OwnFacts
<1>3. ASSUME NEW o \in Loop(n, b), NEW w \in Loop(n, b), Place(o, b) = Place(w, b)
      PROVE  o = w
  <2>1. Flat(o[1], b, o[2]) = Flat(w[1], b, w[2])
    BY <1>1, <1>3
  <2>2. o[1] = w[1] /\ o[2] = w[2]
    BY <1>1, <2>1, FlatIsUnique
  <2>3. QED
    BY <1>1, <2>2
<1>4. ASSUME NEW x \in Lanes(n) PROVE \E o \in Loop(n, b) : Place(o, b) = x
  <2>1. PICK p \in Lanes(Cdiv(n, b)) : \E i \in Own(p, n, b) : Flat(p, b, i) = x
    BY OwnExists
  <2>2. PICK i \in Own(p, n, b) : Flat(p, b, i) = x
    BY <2>1
  <2>3. i \in Lanes(b) /\ Flat(p, b, i) < n
    BY DEF Own
  <2>4. Place(<<p, i>>, b) = x /\ <<p, i>> \in Loop(n, b)
    BY <2>2, <2>3 DEF Place, Loop, Lanes
  <2>5. QED
    BY <2>4
<1>5. QED
  BY <1>2, <1>3, <1>4

\* What programs and lanes store is each at an address of its own.
LEMMA OwnIsUnique ==
    ASSUME NEW n \in Nat, NEW b \in Size, NEW p \in Nat, NEW q \in Nat,
           NEW i \in Own(p, n, b), NEW j \in Own(q, n, b), Flat(p, b, i) = Flat(q, b, j)
    PROVE  p = q /\ i = j
<1>1. i \in Lanes(b) /\ j \in Lanes(b)
  BY DEF Own
<1>2. QED
  BY <1>1, FlatIsUnique

\* A block that covers a dimension is one program with all its lanes.
LEMMA OneBlock ==
    ASSUME NEW n \in Nat, NEW b \in Size, b >= n
    PROVE  Own(0, n, b) = Lanes(n)
BY DEF Own, Lanes, Flat, Size

\* A value of one term.
LEMMA OneTerm == \A tag, t : SumOf({<<tag, t>>}, {t})
BY DEF SumOf

-----------------------------------------------------------------------------
\* Stores of a grid, program by program, that are exactly an output.
Exact(F, R) ==
    /\ \A p \in DOMAIN F : \A s \in F[p] : \E r \in R : s.cell = r.cell /\ SumOf(s.value, r.terms)
    /\ \A p, q \in DOMAIN F : \A s \in F[p], t \in F[q] : s.cell = t.cell => s = t
    /\ \A r \in R : \E p \in DOMAIN F : \E s \in F[p] : s.cell = r.cell

\* What adds each index of a loop once is a sum over the dimension.
LEMMA SumOverLoop ==
    ASSUME NEW O, NEW T, NEW f, NEW value,
           value = {<<o, f[o]>> : o \in O},
           \A o, w \in O : f[o] = f[w] => o = w,
           T = {f[o] : o \in O}
    PROVE  SumOf(value, T)
<1>1. ASSUME NEW u \in value, NEW v \in value, u[2] = v[2] PROVE u = v
  <2>1. PICK o \in O : u = <<o, f[o]>>
    OBVIOUS
  <2>2. PICK w \in O : v = <<w, f[w]>>
    OBVIOUS
  <2>3. f[o] = f[w]
    BY <1>1, <2>1, <2>2
  <2>4. QED
    BY <2>1, <2>2, <2>3
<1>2. ASSUME NEW v \in value PROVE v[2] \in T
  OBVIOUS
<1>3. ASSUME NEW t \in T PROVE \E v \in value : v[2] = t
  <2>1. PICK o \in O : t = f[o]
    OBVIOUS
  <2>2. <<o, f[o]>> \in value /\ <<o, f[o]>>[2] = t
    BY <2>1
  <2>3. QED
    BY <2>2
<1>4. {v[2] : v \in value} = T
  BY <1>2, <1>3
<1>5. QED
  BY <1>1, <1>4 DEF SumOf

-----------------------------------------------------------------------------
(***************************************************************************)
(* Elementwise and row kernels.                                            *)
(***************************************************************************)

\* A grid over one dimension whose lanes store one index each: value v, where
\* the output has the terms T.
LaneStores(F, n, b, v) ==
    /\ DOMAIN F = 0 .. Cdiv(n, b) - 1
    /\ \A p \in DOMAIN F : \A s \in F[p] :
          \E i \in Own(p, n, b) : s = Store(<<p, i>>, Flat(p, b, i), v[Flat(p, b, i)])
    /\ \A p \in DOMAIN F : \A i \in Own(p, n, b) :
          Store(<<p, i>>, Flat(p, b, i), v[Flat(p, b, i)]) \in F[p]
LaneOutput(R, n, T) ==
    /\ \A r \in R : \E x \in Lanes(n) : r = Output(x, T[x])
    /\ \A x \in Lanes(n) : Output(x, T[x]) \in R
LaneSums(n, v, T) == \A x \in Lanes(n) : SumOf(v[x], T[x])

\* Such a grid stores each index once.
LEMMA LanesAreExact ==
    ASSUME NEW n \in Nat, NEW b \in Size, NEW v, NEW T, NEW F, NEW R,
           LaneStores(F, n, b, v), LaneOutput(R, n, T), LaneSums(n, v, T)
    PROVE  Exact(F, R)
<1>0. DOMAIN F \subseteq Nat /\ DOMAIN F = Lanes(Cdiv(n, b))
  BY CdivIsNat DEF LaneStores, Lanes
<1>1. ASSUME NEW p \in DOMAIN F, NEW s \in F[p]
      PROVE  \E r \in R : s.cell = r.cell /\ SumOf(s.value, r.terms)
  <2>1. PICK i \in Own(p, n, b) : s = Store(<<p, i>>, Flat(p, b, i), v[Flat(p, b, i)])
    BY DEF LaneStores
  <2>2. Flat(p, b, i) \in Lanes(n)
    BY <1>0, OwnFacts
  <2>3. Output(Flat(p, b, i), T[Flat(p, b, i)]) \in R
    BY <2>2 DEF LaneOutput
  <2>4. SumOf(v[Flat(p, b, i)], T[Flat(p, b, i)])
    BY <2>2 DEF LaneSums
  <2>5. QED
    BY <2>1, <2>3, <2>4 DEF Store, Output
<1>2. ASSUME NEW p \in DOMAIN F, NEW q \in DOMAIN F, NEW s \in F[p], NEW t \in F[q], s.cell = t.cell
      PROVE  s = t
  <2>1. PICK i \in Own(p, n, b) : s = Store(<<p, i>>, Flat(p, b, i), v[Flat(p, b, i)])
    BY DEF LaneStores
  <2>2. PICK j \in Own(q, n, b) : t = Store(<<q, j>>, Flat(q, b, j), v[Flat(q, b, j)])
    BY DEF LaneStores
  <2>3. Flat(p, b, i) = Flat(q, b, j)
    BY <1>2, <2>1, <2>2 DEF Store
  <2>4. p = q /\ i = j
    BY <1>0, <2>3, OwnIsUnique
  <2>5. QED
    BY <2>1, <2>2, <2>4
<1>3. ASSUME NEW r \in R PROVE \E p \in DOMAIN F : \E s \in F[p] : s.cell = r.cell
  <2>1. PICK x \in Lanes(n) : r = Output(x, T[x])
    BY DEF LaneOutput
  <2>2. PICK p \in Lanes(Cdiv(n, b)) : \E i \in Own(p, n, b) : Flat(p, b, i) = x
    BY OwnExists
  <2>3. PICK i \in Own(p, n, b) : Flat(p, b, i) = x
    BY <2>2
  <2>4. Store(<<p, i>>, Flat(p, b, i), v[Flat(p, b, i)]) \in F[p] /\ p \in DOMAIN F
    BY <1>0 DEF LaneStores
  <2>5. QED
    BY <2>1, <2>3, <2>4 DEF Store, Output
<1>4. QED
  BY <1>1, <1>2, <1>3 DEF Exact

\* What the programs of the first grid of a launch store.
Programs(l) == [p \in Grid(l) |-> Stores(l, p)]

\* The sizes of an elementwise launch.
LEMMA ElementwiseSizes ==
    ASSUME NEW l, IsElementwise(l)
    PROVE  l.kernel = "elementwise" /\ l.n \in Size /\ l.block \in Size /\ l.n \in Nat
BY DEF IsElementwise, Size

\* Elementwise kernels: each element once.
LEMMA ElementwiseExact ==
    ASSUME NEW l, IsElementwise(l)
    PROVE  Exact(Programs(l), Reference(l))
<1>0. l.kernel = "elementwise" /\ l.n \in Size /\ l.block \in Size /\ l.n \in Nat
  BY ElementwiseSizes
<1> DEFINE v == [c \in Lanes(l.n) |-> {<<<<c % l.block>>, <<c>>>>}]
           T == [c \in Lanes(l.n) |-> {<<c>>}]
<1>1. \A c \in Lanes(l.n) : v[c] = {<<<<c % l.block>>, <<c>>>>} /\ T[c] = {<<c>>}
  OBVIOUS
<1> HIDE DEF v, T
<1>2. ASSUME NEW p \in Nat, NEW i \in Own(p, l.n, l.block)
      PROVE  v[Flat(p, l.block, i)] = {<<<<i>>, <<Flat(p, l.block, i)>>>>}
  <2>1. Flat(p, l.block, i) \in Lanes(l.n) /\ i \in Lanes(l.block)
    BY <1>0, OwnFacts
  <2>2. Flat(p, l.block, i) % l.block = i
    BY <1>0, <2>1, FlatParts
  <2>3. QED
    BY <1>1, <2>1, <2>2
<1>3. LaneSums(l.n, v, T)
  <2>1. ASSUME NEW c \in Lanes(l.n) PROVE SumOf(v[c], T[c])
    <3>1. v[c] = {<<<<c % l.block>>, <<c>>>>} /\ T[c] = {<<c>>}
      BY <1>1
    <3>2. SumOf({<<<<c % l.block>>, <<c>>>>}, {<<c>>})
      BY OneTerm
    <3>3. QED
      BY <3>1, <3>2
  <2>2. QED
    BY <2>1 DEF LaneSums
<1>4. LaneOutput(Reference(l), l.n, T)
  <2>1. Reference(l) = ElementwiseOutput(l)
    BY <1>0 DEF Reference
  <2>2. QED
    BY <1>1, <2>1 DEF LaneOutput, ElementwiseOutput
<1>5. LaneStores(Programs(l), l.n, l.block, v)
  <2> DEFINE g == 0 .. Cdiv(l.n, l.block) - 1
  <2>1. DOMAIN Programs(l) = g /\ \A p \in g : Programs(l)[p] = ElementwiseStores(l, p)
    BY <1>0 DEF Programs, Grid, Stores
  <2>2. ASSUME NEW p \in g
        PROVE  /\ \A s \in ElementwiseStores(l, p) : \E i \in Own(p, l.n, l.block) :
                     s = Store(<<p, i>>, Flat(p, l.block, i), v[Flat(p, l.block, i)])
               /\ \A i \in Own(p, l.n, l.block) :
                     Store(<<p, i>>, Flat(p, l.block, i), v[Flat(p, l.block, i)]) \in ElementwiseStores(l, p)
    <3>1. p \in Nat
      BY <1>0, CdivIsNat
    <3>2. QED
      BY <1>2, <3>1 DEF ElementwiseStores
  <2>3. QED
    BY <2>1, <2>2 DEF LaneStores
<1>6. QED
  BY <1>0, <1>3, <1>4, <1>5, LanesAreExact

\* Terms of one and of two addresses differ.
LEMMA Lengths == \A a, b, c : <<a>> # <<b, c>>
<1>1. ASSUME NEW a, NEW b, NEW c, <<a>> = <<b, c>> PROVE FALSE
  <2>1. Len(<<a>>) = 1 /\ Len(<<b, c>>) = 2
    OBVIOUS
  <2>2. QED
    BY <1>1, <2>1
<1>2. QED
  BY <1>1

\* Each element of a row is reduced once, and once scaled by its weight.
LEMMA RowIsExact ==
    ASSUME NEW l, l.n \in Size, l.block \in Size, Own(0, l.n, l.block) = Lanes(l.n),
           NEW row \in Nat, NEW i \in Lanes(l.n)
    PROVE  SumOf(RowValue(l, row, i), RowTerms(l, row, i))
<1> DEFINE reduced == {<<<<j>>, <<Flat(row, l.n, j)>>>> : j \in Lanes(l.n)}
           scaled == <<<<i>>, Scaled(l, row, i)>>
           read == {<<Flat(row, l.n, j)>> : j \in Lanes(l.n)}
           last == Scaled(l, row, i)
<1>1. /\ RowValue(l, row, i) = reduced \cup {scaled}
      /\ RowTerms(l, row, i) = read \cup {last} /\ scaled[2] = last
  BY DEF RowValue, RowTerms
<1>2. /\ \A u \in reduced : \E j \in Lanes(l.n) : u = <<<<j>>, <<Flat(row, l.n, j)>>>>
      /\ \A u \in reduced : u[2] \in read
      /\ \A t \in read : \E u \in reduced : u[2] = t
  <2>1. \A u \in reduced : \E j \in Lanes(l.n) : u = <<<<j>>, <<Flat(row, l.n, j)>>>>
    OBVIOUS
  <2>2. ASSUME NEW u \in reduced PROVE u[2] \in read
    <3>1. PICK j \in Lanes(l.n) : u = <<<<j>>, <<Flat(row, l.n, j)>>>>
      BY <2>1
    <3>2. QED
      BY <3>1
  <2>3. ASSUME NEW t \in read PROVE \E u \in reduced : u[2] = t
    <3>1. PICK j \in Lanes(l.n) : t = <<Flat(row, l.n, j)>>
      OBVIOUS
    <3>2. <<<<j>>, <<Flat(row, l.n, j)>>>> \in reduced
      OBVIOUS
    <3>3. QED
      BY <3>1, <3>2
  <2>4. QED
    BY <2>1, <2>2, <2>3
<1>3. \A u \in reduced : u[2] # last
  BY <1>2, Lengths DEF Scaled
<1>4. ASSUME NEW u \in reduced, NEW w \in reduced, u[2] = w[2] PROVE u = w
  <2>1. PICK j \in Lanes(l.n) : u = <<<<j>>, <<Flat(row, l.n, j)>>>>
    BY <1>2
  <2>2. PICK k \in Lanes(l.n) : w = <<<<k>>, <<Flat(row, l.n, k)>>>>
    BY <1>2
  <2>3. Flat(row, l.n, j) = Flat(row, l.n, k)
    BY <1>4, <2>1, <2>2
  <2>4. j = k
    BY <2>3, FlatIsUnique
  <2>5. QED
    BY <2>1, <2>2, <2>4
<1> HIDE DEF reduced, scaled, read, last
<1>5. {u[2] : u \in RowValue(l, row, i)} = RowTerms(l, row, i)
  BY <1>1, <1>2
<1>6. \A u, w \in RowValue(l, row, i) : u[2] = w[2] => u = w
  BY <1>1, <1>3, <1>4
<1>7. QED
  BY <1>5, <1>6 DEF SumOf

\* What a row kernel stores of element i of a row: the result, k being 0, and
\* the sum with the residual, k being 1.
RowKinds(l) == IF l.residual THEN {0, 1} ELSE {0}
RowAt(l, row, k) == IF k = 0 THEN row ELSE l.rows + row
RowStore(l, row, k, i) ==
    Store(<<row, i>>, Flat(RowAt(l, row, k), l.n, i),
          IF k = 0 THEN RowValue(l, row, i) ELSE {<<<<i>>, <<Flat(row, l.n, i)>>>>})
RowOutput(l, row, k, i) ==
    Output(Flat(RowAt(l, row, k), l.n, i),
           IF k = 0 THEN RowTerms(l, row, i) ELSE {<<Flat(row, l.n, i)>>})

\* The kernel and PyTorch write the same elements, and they are all different.
LEMMA RowsAreTold ==
    ASSUME NEW l, IsRowwise(l)
    PROVE  /\ \A p \in Lanes(l.rows) : \A s \in RowwiseStores(l, p) :
                 \E k \in RowKinds(l), i \in Lanes(l.n) : s = RowStore(l, p, k, i)
           /\ \A p \in Lanes(l.rows), k \in RowKinds(l), i \in Lanes(l.n) :
                 RowStore(l, p, k, i) \in RowwiseStores(l, p)
           /\ \A r \in RowwiseOutput(l) : \E p \in Lanes(l.rows), k \in RowKinds(l), i \in Lanes(l.n) :
                 r = RowOutput(l, p, k, i)
           /\ \A p \in Lanes(l.rows), k \in RowKinds(l), i \in Lanes(l.n) :
                 RowOutput(l, p, k, i) \in RowwiseOutput(l)
<1> DEFINE R == Lanes(l.rows)
           N == Lanes(l.n)
<1>0. l.n \in Size /\ l.n \in Nat /\ l.block \in Size /\ l.block >= l.n /\ l.residual \in BOOLEAN
  BY DEF IsRowwise, Size
<1>1. Own(0, l.n, l.block) = N
  BY <1>0, OneBlock
<1>2. /\ \A p, i : RowStore(l, p, 0, i) = Store(<<p, i>>, Flat(p, l.n, i), RowValue(l, p, i))
      /\ \A p, i : RowOutput(l, p, 0, i) = Output(Flat(p, l.n, i), RowTerms(l, p, i))
      /\ \A p, i : RowStore(l, p, 1, i) =
            Store(<<p, i>>, Flat(l.rows + p, l.n, i), {<<<<i>>, <<Flat(p, l.n, i)>>>>})
      /\ \A p, i : RowOutput(l, p, 1, i) = Output(Flat(l.rows + p, l.n, i), {<<Flat(p, l.n, i)>>})
  BY DEF RowStore, RowOutput, RowAt
<1>3. RowKinds(l) \subseteq {0, 1} /\ 0 \in RowKinds(l) /\ (1 \in RowKinds(l) <=> l.residual)
  BY <1>0 DEF RowKinds
<1>4. \A p : RowwiseStores(l, p) =
            {RowStore(l, p, 0, i) : i \in N}
            \cup (IF l.residual THEN {RowStore(l, p, 1, i) : i \in N} ELSE {})
  <2> TAKE p
  <2> HIDE DEF N
  <2>1. {Store(<<p, i>>, Flat(p, l.n, i), RowValue(l, p, i)) : i \in N}
          = {RowStore(l, p, 0, i) : i \in N}
    BY <1>2
  <2>2. ResidualStores(l, p) = {RowStore(l, p, 1, i) : i \in N}
    <3>1. ResidualStores(l, p) =
            {Store(<<p, i>>, Flat(l.rows + p, l.n, i), {<<<<i>>, <<Flat(p, l.n, i)>>>>}) : i \in N}
      BY <1>1 DEF ResidualStores
    <3>2. QED
      BY <1>2, <3>1
  <2>3. RowwiseStores(l, p) =
          {Store(<<p, i>>, Flat(p, l.n, i), RowValue(l, p, i)) : i \in N}
          \cup (IF l.residual THEN ResidualStores(l, p) ELSE {})
    BY <1>1 DEF RowwiseStores
  <2>4. QED
    BY <2>1, <2>2, <2>3
<1>5. RowwiseOutput(l) =
            {RowOutput(l, o[1], 0, o[2]) : o \in R \X N}
            \cup {RowOutput(l, o[1], 1, o[2]) : o \in IF l.residual THEN R \X N ELSE {}}
  <2> DEFINE S == IF l.residual THEN R \X N ELSE {}
  <2>1. {Output(Flat(o[1], l.n, o[2]), RowTerms(l, o[1], o[2])) : o \in R \X N}
          = {RowOutput(l, o[1], 0, o[2]) : o \in R \X N}
    BY <1>2
  <2>2. {Output(Flat(l.rows + o[1], l.n, o[2]), {<<Flat(o[1], l.n, o[2])>>}) : o \in S}
          = {RowOutput(l, o[1], 1, o[2]) : o \in S}
    <3> HIDE DEF S
    <3>1. QED
      BY <1>2
  <2>3. QED
    BY <2>1, <2>2 DEF RowwiseOutput
<1> HIDE DEF R, N
<1>6. ASSUME NEW p \in R, NEW s \in RowwiseStores(l, p)
      PROVE  \E k \in RowKinds(l), i \in N : s = RowStore(l, p, k, i)
  BY <1>3, <1>4
<1>7. ASSUME NEW p \in R, NEW k \in RowKinds(l), NEW i \in N
      PROVE  RowStore(l, p, k, i) \in RowwiseStores(l, p)
  <2>1. CASE k = 0
    BY <1>4, <2>1
  <2>2. CASE k = 1
    BY <1>3, <1>4, <2>2
  <2>3. QED
    BY <1>3, <2>1, <2>2
<1>8. ASSUME NEW r \in RowwiseOutput(l)
      PROVE  \E p \in R, k \in RowKinds(l), i \in N : r = RowOutput(l, p, k, i)
  <2>1. CASE \E o \in R \X N : r = RowOutput(l, o[1], 0, o[2])
    <3>1. PICK o \in R \X N : r = RowOutput(l, o[1], 0, o[2])
      BY <2>1
    <3>2. QED
      BY <1>3, <3>1
  <2>2. CASE l.residual /\ \E o \in R \X N : r = RowOutput(l, o[1], 1, o[2])
    <3>1. PICK o \in R \X N : r = RowOutput(l, o[1], 1, o[2])
      BY <2>2
    <3>2. QED
      BY <1>3, <2>2, <3>1
  <2>3. QED
    BY <1>5, <2>1, <2>2
<1>9. ASSUME NEW p \in R, NEW k \in RowKinds(l), NEW i \in N
      PROVE  RowOutput(l, p, k, i) \in RowwiseOutput(l)
  <2> DEFINE o == <<p, i>>
  <2>1. o \in R \X N /\ o[1] = p /\ o[2] = i
    OBVIOUS
  <2> HIDE DEF o
  <2>2. CASE k = 0
    BY <1>5, <2>1, <2>2
  <2>3. CASE k = 1
    BY <1>3, <1>5, <2>1, <2>3
  <2>4. QED
    BY <1>3, <2>2, <2>3
<1>10. QED
  BY <1>6, <1>7, <1>8, <1>9 DEF R, N

\* Row kernels: every row and column once, over the row's own elements, and the
\* sum with the residual.
LEMMA RowwiseExact ==
    ASSUME NEW l, IsRowwise(l)
    PROVE  Exact(Programs(l), Reference(l))
<1> DEFINE R == Lanes(l.rows)
           N == Lanes(l.n)
           K == RowKinds(l)
<1>0. /\ l.n \in Size /\ l.block \in Size /\ l.rows \in Nat /\ l.n \in Nat
      /\ l.kernel = "rowwise" /\ l.block >= l.n /\ R \subseteq Nat /\ K \subseteq {0, 1}
  BY DEF IsRowwise, Size, Lanes, RowKinds
<1>1. Own(0, l.n, l.block) = N
  BY <1>0, OneBlock
<1>2. /\ DOMAIN Programs(l) = R
      /\ \A p \in R : Programs(l)[p] = RowwiseStores(l, p)
      /\ Reference(l) = RowwiseOutput(l)
  BY <1>0 DEF Programs, Grid, Stores, Reference, Lanes
<1>3. /\ \A p \in R : \A s \in RowwiseStores(l, p) : \E k \in K, i \in N : s = RowStore(l, p, k, i)
      /\ \A p \in R, k \in K, i \in N : RowStore(l, p, k, i) \in RowwiseStores(l, p)
      /\ \A r \in RowwiseOutput(l) : \E p \in R, k \in K, i \in N : r = RowOutput(l, p, k, i)
      /\ \A p \in R, k \in K, i \in N : RowOutput(l, p, k, i) \in RowwiseOutput(l)
  BY RowsAreTold
<1>4. ASSUME NEW p \in R, NEW k \in K, NEW i \in N
      PROVE  /\ RowStore(l, p, k, i).cell = RowOutput(l, p, k, i).cell
             /\ SumOf(RowStore(l, p, k, i).value, RowOutput(l, p, k, i).terms)
  <2>1. SumOf(RowValue(l, p, i), RowTerms(l, p, i))
    BY <1>0, <1>1, RowIsExact
  <2>2. SumOf({<<<<i>>, <<Flat(p, l.n, i)>>>>}, {<<Flat(p, l.n, i)>>})
    BY OneTerm
  <2>3. QED
    BY <2>1, <2>2 DEF RowStore, RowOutput, Store, Output
<1>5. ASSUME NEW p \in R, NEW q \in R, NEW k \in K, NEW m \in K, NEW i \in N, NEW j \in N,
             RowStore(l, p, k, i).cell = RowStore(l, q, m, j).cell
      PROVE  p = q /\ k = m /\ i = j
  <2> DEFINE a == RowAt(l, p, k)
             b == RowAt(l, q, m)
  <2>1. a \in Nat /\ b \in Nat /\ (a = b => p = q /\ k = m)
    BY <1>0 DEF RowAt, Lanes
  <2>2. Flat(a, l.n, i) = Flat(b, l.n, j)
    BY <1>5 DEF RowStore, Store
  <2> HIDE DEF a, b
  <2>3. a = b /\ i = j
    BY <1>0, <2>1, <2>2, FlatIsUnique
  <2>4. QED
    BY <2>1, <2>3
<1> HIDE DEF R, N, K
<1>6. ASSUME NEW p \in R, NEW s \in RowwiseStores(l, p)
      PROVE  \E r \in RowwiseOutput(l) : s.cell = r.cell /\ SumOf(s.value, r.terms)
  <2>1. PICK k \in K, i \in N : s = RowStore(l, p, k, i)
    BY <1>3
  <2>2. QED
    BY <1>3, <1>4, <2>1
<1>7. ASSUME NEW p \in R, NEW q \in R,
             NEW s \in RowwiseStores(l, p), NEW t \in RowwiseStores(l, q), s.cell = t.cell
      PROVE  s = t
  <2>1. PICK k \in K, i \in N : s = RowStore(l, p, k, i)
    BY <1>3
  <2>2. PICK m \in K, j \in N : t = RowStore(l, q, m, j)
    BY <1>3
  <2>3. p = q /\ k = m /\ i = j
    BY <1>5, <1>7, <2>1, <2>2
  <2>4. QED
    BY <2>1, <2>2, <2>3
<1>8. ASSUME NEW r \in RowwiseOutput(l)
      PROVE  \E p \in R : \E s \in RowwiseStores(l, p) : s.cell = r.cell
  <2>1. PICK p \in R, k \in K, i \in N : r = RowOutput(l, p, k, i)
    BY <1>3
  <2>2. RowStore(l, p, k, i) \in RowwiseStores(l, p) /\ RowStore(l, p, k, i).cell = r.cell
    BY <1>3, <1>4, <2>1
  <2>3. QED
    BY <2>2
<1>9. QED
  BY <1>2, <1>6, <1>7, <1>8 DEF Exact

-----------------------------------------------------------------------------
(***************************************************************************)
(* Dot products and INT4.                                                  *)
(***************************************************************************)

\* The products of a dot product are told apart by their place in the row.
LEMMA ProductsDiffer ==
    ASSUME NEW l, l.k \in Size, NEW row \in Nat, NEW col,
           NEW j \in Lanes(l.k), NEW k \in Lanes(l.k),
           Product(l, row, col, j) = Product(l, row, col, k)
    PROVE  j = k
<1>1. Flat(row, l.k, j) = Flat(row, l.k, k)
  BY DEF Product
<1>2. QED
  BY <1>1, FlatIsUnique

\* A dot product meets every k once.
LEMMA DotIsExact ==
    ASSUME NEW l, l.k \in Size, l.bk \in Size, NEW row \in Nat, NEW col
    PROVE  SumOf(Dot(l, row, col), DotTerms(l, row, col))
<1> DEFINE O == Loop(l.k, l.bk)
           f == [o \in O |-> Product(l, row, col, Place(o, l.bk))]
<1>0. l.k \in Nat
  BY DEF Size
<1>1. Dot(l, row, col) = {<<o, f[o]>> : o \in O}
  BY DEF Dot
<1>2. ASSUME NEW o \in O, NEW w \in O, f[o] = f[w] PROVE o = w
  <2>1. Place(o, l.bk) \in Lanes(l.k) /\ Place(w, l.bk) \in Lanes(l.k)
    BY <1>0, LoopIsExact
  <2>2. Place(o, l.bk) = Place(w, l.bk)
    BY <1>2, <2>1, ProductsDiffer
  <2>3. QED
    BY <1>0, <2>2, LoopIsExact
<1>3. DotTerms(l, row, col) = {f[o] : o \in O}
  BY <1>0, LoopIsExact DEF DotTerms
<1> HIDE DEF f, O
<1>4. QED
  BY <1>1, <1>2, <1>3, SumOverLoop

\* Decode projections of one grid: each output once, over all of K.
LEMMA GemvExact ==
    ASSUME NEW l, IsGemv(l), ~TwoGrids(l)
    PROVE  Exact(Programs(l), Reference(l))
<1>0. /\ l.kernel = "gemv" /\ l.n \in Size /\ l.n \in Nat /\ l.bn \in Size
      /\ l.k \in Size /\ l.bk \in Size
  BY DEF IsGemv, Size
<1> DEFINE v == [c \in Lanes(l.n) |-> Dot(l, 0, c)]
           T == [c \in Lanes(l.n) |-> DotTerms(l, 0, c)]
<1>1. \A c \in Lanes(l.n) : v[c] = Dot(l, 0, c) /\ T[c] = DotTerms(l, 0, c)
  OBVIOUS
<1> HIDE DEF v, T
<1>2. LaneSums(l.n, v, T)
  <2>1. ASSUME NEW c \in Lanes(l.n) PROVE SumOf(v[c], T[c])
    <3>1. SumOf(Dot(l, 0, c), DotTerms(l, 0, c))
      BY <1>0, DotIsExact
    <3>2. QED
      BY <1>1, <3>1
  <2>2. QED
    BY <2>1 DEF LaneSums
<1>3. LaneOutput(Reference(l), l.n, T)
  <2>1. Reference(l) = GemvOutput(l)
    BY <1>0 DEF Reference
  <2>2. QED
    BY <1>1, <2>1 DEF LaneOutput, GemvOutput
<1>4. LaneStores(Programs(l), l.n, l.bn, v)
  <2> DEFINE g == 0 .. Cdiv(l.n, l.bn) - 1
  <2>1. DOMAIN Programs(l) = g /\ \A p \in g : Programs(l)[p] = GemvStores(l, p)
    BY <1>0 DEF Programs, Grid, Stores
  <2>2. ASSUME NEW p \in g
        PROVE  /\ \A s \in GemvStores(l, p) : \E i \in Own(p, l.n, l.bn) :
                     s = Store(<<p, i>>, Flat(p, l.bn, i), v[Flat(p, l.bn, i)])
               /\ \A i \in Own(p, l.n, l.bn) :
                     Store(<<p, i>>, Flat(p, l.bn, i), v[Flat(p, l.bn, i)]) \in GemvStores(l, p)
    <3>1. p \in Nat
      BY <1>0, CdivIsNat
    <3>2. \A i \in Own(p, l.n, l.bn) : v[Flat(p, l.bn, i)] = Dot(l, 0, Flat(p, l.bn, i))
      BY <1>0, <1>1, <3>1, OwnFacts
    <3>3. QED
      BY <3>2 DEF GemvStores
  <2>3. QED
    BY <2>1, <2>2 DEF LaneStores
<1>5. QED
  BY <1>0, <1>2, <1>3, <1>4, LanesAreExact

\* A group of columns is as many pairs, and a row as many bytes.
LEMMA Int4Sizes ==
    ASSUME NEW l, IsInt4(l)
    PROVE  /\ l.kernel = "int4" /\ l.n \in Size /\ l.n \in Nat /\ l.bn \in Size
           /\ l.k \in Size /\ l.group \in Size
           /\ l.group \div 2 \in Size /\ l.group = (l.group \div 2) * 2
           /\ l.k \div l.group \in Nat /\ l.k = (l.k \div l.group) * l.group
           /\ RowBytes(l) = (l.k \div l.group) * (l.group \div 2)
           /\ RowBytes(l) \in Size /\ l.k = RowBytes(l) * 2
<1>0. /\ l.kernel = "int4" /\ l.n \in Size /\ l.n \in Nat /\ l.bn \in Size
      /\ l.k \in Size /\ l.group \in Size /\ l.k \in Nat /\ l.group \in Nat \ {0}
      /\ l.group % 2 = 0 /\ l.k % l.group = 0
  BY DEF IsInt4, Size
<1> DEFINE h == l.group \div 2
           g == l.k \div l.group
<1>1. h \in Size /\ l.group = h * 2 /\ h \in Nat
  BY <1>0 DEF Size
<1>2. g \in Nat /\ l.k = g * l.group + 0
  BY <1>0, Quotient
<1>3. l.k = g * l.group
  BY <1>0, <1>2
<1> HIDE DEF h, g
<1>4. g * (h * 2) = (g * h) * 2 /\ g * h \in Nat
  BY <1>1, <1>2
<1>5. l.k = (g * h) * 2
  BY <1>1, <1>3, <1>4
<1>6. RowBytes(l) = g * h
  BY <1>4, <1>5 DEF RowBytes
<1>7. g * h # 0
  BY <1>0, <1>5 DEF Size
<1>8. RowBytes(l) \in Size
  BY <1>4, <1>6, <1>7 DEF Size
<1>9. QED
  BY <1>0, <1>1, <1>2, <1>3, <1>5, <1>6, <1>8 DEF h, g

\* A pair of nibbles, and which of the two, are a column of the group; the
\* term is that of the column.
LEMMA NibbleIsColumn ==
    ASSUME NEW l, IsInt4(l), NEW row \in Nat, NEW o \in Int4Loop(l)
    PROVE  LET c == Flat(o[1], l.group, Flat(o[2], 2, o[3]))
           IN  /\ o[1] \in Lanes(l.k \div l.group) /\ o[2] \in Lanes(l.group \div 2)
               /\ o[3] \in Lanes(2) /\ o = <<o[1], o[2], o[3]>>
               /\ Flat(o[2], 2, o[3]) \in Lanes(l.group) /\ c \in Lanes(l.k)
               /\ Int4Term(l, row, o) =
                     <<Flat(row, l.k, c), Flat(row, l.k \div l.group, c \div l.group), c>>
<1> DEFINE g == l.k \div l.group
           h == l.group \div 2
           pair == Flat(o[2], 2, o[3])
           c == Flat(o[1], l.group, pair)
           w == Flat(o[1], h, o[2])
<1>0. /\ h \in Size /\ h \in Nat /\ l.group = h * 2 /\ l.group \in Size
      /\ g \in Nat /\ l.k = g * l.group
      /\ RowBytes(l) = g * h /\ RowBytes(l) \in Size /\ 2 \in Size
  BY Int4Sizes DEF Size
<1>1. /\ o[1] \in Lanes(g) /\ o[2] \in Lanes(h) /\ o[3] \in Lanes(2)
      /\ o = <<o[1], o[2], o[3]>>
  BY DEF Int4Loop, Lanes
<1>2. o[1] \in Nat /\ o[2] \in Nat /\ o[3] \in Nat
  BY <1>0, <1>1 DEF Lanes, Size
<1> HIDE DEF g, h
<1>3. pair \in Lanes(l.group)
  BY <1>0, <1>1, FlatIsBelow
<1> HIDE DEF pair
<1>4. c \in Lanes(l.k) /\ c \div l.group = o[1]
  <2>1. c \in Lanes(g * l.group)
    BY <1>0, <1>1, <1>3, FlatIsBelow
  <2>2. c \div l.group = o[1]
    BY <1>0, <1>2, <1>3, FlatParts
  <2>3. QED
    BY <1>0, <2>1, <2>2
<1>5. w \in Lanes(RowBytes(l))
  BY <1>0, <1>1, FlatIsBelow
<1>6. Flat(w, 2, o[3]) = c
  <2>1. (o[1] * h + o[2]) * 2 + o[3] = o[1] * (h * 2) + (o[2] * 2 + o[3])
    BY <1>0, <1>2
  <2>2. QED
    BY <1>0, <2>1 DEF Flat, pair
<1> HIDE DEF w, c
<1>7. Nibble(l, Flat(row, RowBytes(l), w), o[3]) = Flat(row, l.k, c)
  <2>1. /\ Flat(row, RowBytes(l), w) \div RowBytes(l) = row
        /\ Flat(row, RowBytes(l), w) % RowBytes(l) = w
    BY <1>0, <1>5, FlatParts
  <2>2. QED
    BY <1>6, <2>1 DEF Nibble
<1>8. Int4Term(l, row, o) = <<Flat(row, l.k, c), Flat(row, g, o[1]), c>>
  BY <1>7 DEF Int4Term, w, h, g, c, pair
<1>9. QED
  BY <1>1, <1>3, <1>4, <1>8 DEF g, h, c, pair

\* Each column of a row is met by one nibble of one byte.
LEMMA Int4DotIsExact ==
    ASSUME NEW l, IsInt4(l), NEW row \in Nat
    PROVE  SumOf(Int4Dot(l, row), Int4Terms(l, row))
<1> DEFINE O == Int4Loop(l)
           f == [o \in O |-> Int4Term(l, row, o)]
           column(o) == Flat(o[1], l.group, Flat(o[2], 2, o[3]))
<1>0. /\ l.group \in Size /\ 2 \in Size /\ l.group \div 2 \in Size
      /\ l.group = (l.group \div 2) * 2
      /\ l.k \div l.group \in Nat /\ l.k = (l.k \div l.group) * l.group
  BY Int4Sizes DEF Size
<1>1. Int4Dot(l, row) = {<<o, f[o]>> : o \in O}
  BY DEF Int4Dot
<1>2. ASSUME NEW o \in O, NEW w \in O, f[o] = f[w] PROVE o = w
  <2>1. Flat(o[1], l.group, Flat(o[2], 2, o[3])) = Flat(w[1], l.group, Flat(w[2], 2, w[3]))
    BY <1>2, NibbleIsColumn
  <2>2. /\ o[1] \in Nat /\ o[2] \in Nat /\ w[1] \in Nat /\ w[2] \in Nat
        /\ o[3] \in Lanes(2) /\ w[3] \in Lanes(2)
        /\ Flat(o[2], 2, o[3]) \in Lanes(l.group) /\ Flat(w[2], 2, w[3]) \in Lanes(l.group)
        /\ o = <<o[1], o[2], o[3]>> /\ w = <<w[1], w[2], w[3]>>
    BY <1>0, NibbleIsColumn DEF Lanes, Size
  <2>3. o[1] = w[1] /\ Flat(o[2], 2, o[3]) = Flat(w[2], 2, w[3])
    BY <1>0, <2>1, <2>2, FlatIsUnique
  <2>4. o[2] = w[2] /\ o[3] = w[3]
    BY <1>0, <2>2, <2>3, FlatIsUnique
  <2>5. QED
    BY <2>2, <2>3, <2>4
<1>3. ASSUME NEW o \in O PROVE f[o] \in Int4Terms(l, row)
  BY NibbleIsColumn DEF Int4Terms
<1>4. ASSUME NEW t \in Int4Terms(l, row) PROVE \E o \in O : f[o] = t
  <2>1. PICK c \in Lanes(l.k) :
            t = <<Flat(row, l.k, c), Flat(row, l.k \div l.group, c \div l.group), c>>
    BY DEF Int4Terms
  <2>2. PICK g \in Lanes(l.k \div l.group), r \in Lanes(l.group) : Flat(g, l.group, r) = c
    BY <1>0, FlatExists
  <2>3. PICK p \in Lanes(l.group \div 2), high \in Lanes(2) : Flat(p, 2, high) = r
    <3>1. l.group \div 2 \in Nat /\ r \in Lanes((l.group \div 2) * 2)
      BY <1>0 DEF Size
    <3>2. QED
      BY <1>0, <3>1, FlatExists
  <2>4. <<g, p, high>> \in O
    BY DEF Int4Loop, Lanes
  <2>5. f[<<g, p, high>>] = t
    BY <2>1, <2>2, <2>3, <2>4, NibbleIsColumn
  <2>6. QED
    BY <2>4, <2>5
<1> HIDE DEF f, O
<1>5. Int4Terms(l, row) = {f[o] : o \in O}
  BY <1>3, <1>4
<1>6. QED
  BY <1>1, <1>2, <1>5, SumOverLoop

\* Packed projections: each output once, over every column of its row.
LEMMA Int4Exact ==
    ASSUME NEW l, IsInt4(l)
    PROVE  Exact(Programs(l), Reference(l))
<1>0. l.kernel = "int4" /\ l.n \in Size /\ l.n \in Nat /\ l.bn \in Size
  BY Int4Sizes
<1> DEFINE v == [c \in Lanes(l.n) |-> Int4Dot(l, c)]
           T == [c \in Lanes(l.n) |-> Int4Terms(l, c)]
<1>1. \A c \in Lanes(l.n) : v[c] = Int4Dot(l, c) /\ T[c] = Int4Terms(l, c)
  OBVIOUS
<1> HIDE DEF v, T
<1>2. LaneSums(l.n, v, T)
  <2>1. ASSUME NEW c \in Lanes(l.n) PROVE SumOf(v[c], T[c])
    <3>1. c \in Nat
      BY <1>0 DEF Lanes
    <3>2. SumOf(Int4Dot(l, c), Int4Terms(l, c))
      BY <3>1, Int4DotIsExact
    <3>3. QED
      BY <1>1, <3>2
  <2>2. QED
    BY <2>1 DEF LaneSums
<1>3. LaneOutput(Reference(l), l.n, T)
  <2>1. Reference(l) = Int4Output(l)
    BY <1>0 DEF Reference
  <2>2. QED
    BY <1>1, <2>1 DEF LaneOutput, Int4Output
<1>4. LaneStores(Programs(l), l.n, l.bn, v)
  <2> DEFINE g == 0 .. Cdiv(l.n, l.bn) - 1
  <2>1. DOMAIN Programs(l) = g /\ \A p \in g : Programs(l)[p] = Int4Stores(l, p)
    BY <1>0 DEF Programs, Grid, Stores
  <2>2. ASSUME NEW p \in g
        PROVE  /\ \A s \in Int4Stores(l, p) : \E i \in Own(p, l.n, l.bn) :
                     s = Store(<<p, i>>, Flat(p, l.bn, i), v[Flat(p, l.bn, i)])
               /\ \A i \in Own(p, l.n, l.bn) :
                     Store(<<p, i>>, Flat(p, l.bn, i), v[Flat(p, l.bn, i)]) \in Int4Stores(l, p)
    <3>1. p \in Nat
      BY <1>0, CdivIsNat
    <3>2. \A i \in Own(p, l.n, l.bn) : v[Flat(p, l.bn, i)] = Int4Dot(l, Flat(p, l.bn, i))
      BY <1>0, <1>1, <3>1, OwnFacts
    <3>3. QED
      BY <3>2 DEF Int4Stores
  <2>3. QED
    BY <2>1, <2>2 DEF LaneStores
<1>5. QED
  BY <1>0, <1>2, <1>3, <1>4, LanesAreExact

-----------------------------------------------------------------------------
(***************************************************************************)
(* Tiles in groups.                                                        *)
(***************************************************************************)

\* A larger dimension has no fewer blocks.
LEMMA CdivGrows ==
    ASSUME NEW b \in Size, NEW m \in Nat, NEW n \in Nat, m <= n
    PROVE  Cdiv(m, b) <= Cdiv(n, b)
<1> DEFINE x == m + b - 1
           y == n + b - 1
<1>1. b \in Nat \ {0} /\ x \in Nat /\ y \in Nat /\ x <= y
  BY DEF Size
<1>2. /\ x \div b \in Nat /\ x % b \in 0 .. b - 1 /\ x = (x \div b) * b + (x % b)
      /\ y \div b \in Nat /\ y % b \in 0 .. b - 1 /\ y = (y \div b) * b + (y % b)
  BY <1>1, Quotient
<1> DEFINE u == x \div b
           v == y \div b
<1>3. u \in Nat /\ v \in Nat /\ u * b <= x /\ y < v * b + b /\ u * b \in Nat /\ v * b \in Nat
  <2>1. u * b \in Nat /\ v * b \in Nat
    BY <1>1, <1>2
  <2>2. QED
    BY <1>1, <1>2, <2>1
<1>4. u * b < v * b + b
  BY <1>1, <1>3
<1> HIDE DEF u, v
<1>5. u <= v
  BY <1>1, <1>3, <1>4, CancelFactor
<1>6. QED
  BY <1>5 DEF Cdiv, u, v

-----------------------------------------------------------------------------
\* Tiles in groups: rows of tiles in a grid of m by n, the height of group g.
HeightOf(m, group, g) == Min2(m - g * group, group)
TileIn(m, n, group, p) ==
    LET g == p \div (group * n)
        h == HeightOf(m, group, g)
    IN <<g * group + (p % h), (p % (group * n)) \div h>>

\* Where a program stands: its group, its place there and the group's height.
LEMMA GroupOfProgram ==
    ASSUME NEW m \in Nat, NEW n \in Nat, NEW group \in Size, NEW p \in Lanes(m * n)
    PROVE  LET per == group * n
               g == p \div per
               h == HeightOf(m, group, g)
           IN  /\ per \in Size /\ g \in Nat /\ p % per \in Lanes(per)
               /\ p = Flat(g, per, p % per)
               /\ h \in Size /\ h <= group /\ g * group \in Nat /\ g * group + h <= m
               /\ p % per < n * h
<1> DEFINE per == group * n
           g == p \div per
           u == p % per
           h == HeightOf(m, group, g)
<1>0. group \in Nat /\ group >= 1 /\ p \in Nat /\ p < m * n /\ m * n \in Nat
  <2>1. m * n \in Nat
    OBVIOUS
  <2>2. QED
    BY <2>1 DEF Size, Lanes
<1>1. n # 0
  <2>1. n = 0 => m * n = 0
    OBVIOUS
  <2>2. QED
    BY <1>0, <2>1
<1>2. per \in Size
  <2>1. per \in Nat /\ per >= n
    BY <1>0
  <2>2. QED
    BY <1>1, <2>1 DEF Size
<1> HIDE DEF per
<1>3. g \in Nat /\ u \in Lanes(per) /\ Flat(g, per, u) = p
  BY <1>0, <1>2, FlatOfParts
<1> HIDE DEF g, u
<1>4. g * per = (g * group) * n /\ g * group \in Nat
  BY <1>0, <1>3 DEF per
<1> DEFINE first == g * group
<1>5. first * n <= p /\ p = first * n + u /\ first \in Nat /\ first * n \in Nat /\ u \in Nat /\ u < per
  <2>1. first \in Nat /\ first * n \in Nat
    BY <1>4
  <2>2. u \in Nat /\ u < per
    BY <1>2, <1>3 DEF Lanes, Size
  <2>3. p = g * per + u
    BY <1>3 DEF Flat
  <2>4. QED
    BY <1>4, <2>1, <2>2, <2>3
<1> HIDE DEF first
<1>6. first < m
  <2>1. first * n < m * n
    BY <1>0, <1>5
  <2>2. (m - 1) * n + n = m * n /\ (m - 1) * n \in Int
    OBVIOUS
  <2>3. n \in Nat \ {0} /\ first \in Int /\ m - 1 \in Int
    BY <1>1, <1>5
  <2>4. first * n < (m - 1) * n + n
    BY <2>1, <2>2
  <2>5. first <= m - 1
    BY <2>3, <2>4, CancelFactor
  <2>6. QED
    BY <1>5, <2>5
<1>7. h \in Size /\ h <= group /\ first + h <= m
  BY <1>0, <1>5, <1>6 DEF HeightOf, Min2, Size, first
<1>8. u < n * h
  <2>1. CASE h = group
    BY <1>0, <1>5, <2>1 DEF per
  <2>2. CASE h = m - first
    <3>1. n * (m - first) = m * n - first * n
      BY <1>5
    <3>2. QED
      BY <1>0, <1>5, <2>2, <3>1
  <2>3. h = group \/ h = m - first
    BY DEF HeightOf, Min2, first
  <2>4. QED
    BY <2>1, <2>2, <2>3
<1>9. QED
  BY <1>2, <1>3, <1>4, <1>7, <1>8 DEF per, g, u, h, first

\* A program's tile lies in the grid.
LEMMA TileInGrid ==
    ASSUME NEW m \in Nat, NEW n \in Nat, NEW group \in Size, NEW p \in Lanes(m * n)
    PROVE  LET g == p \div (group * n)
               h == HeightOf(m, group, g)
               t == TileIn(m, n, group, p)
           IN  /\ p % h \in Lanes(h) /\ p % h \in Lanes(group)
               /\ t = <<Flat(g, group, p % h), (p % (group * n)) \div h>>
               /\ t[1] \in Lanes(m) /\ t[2] \in Lanes(n)
<1> DEFINE per == group * n
           g == p \div per
           u == p % per
           h == HeightOf(m, group, g)
<1>1. /\ per \in Size /\ g \in Nat /\ u \in Lanes(per)
      /\ h \in Size /\ h <= group /\ g * group \in Nat /\ g * group + h <= m
      /\ u < n * h
  BY GroupOfProgram
<1> HIDE DEF g, u, h
<1>2. p \in Nat /\ u \in Nat /\ group \in Nat
  <2>1. m * n \in Nat
    OBVIOUS
  <2>2. QED
    BY <1>1, <2>1 DEF Lanes, Size
<1>3. p % h \in Lanes(h)
  BY <1>1, <1>2, FlatOfParts
<1>4. u \div h \in Lanes(n)
  BY <1>1, <1>2, FlatOfParts
<1> DEFINE t == p % h
<1> HIDE DEF t
<1>5. t \in Lanes(group) /\ g * group + t \in Lanes(m)
  <2>1. t \in Lanes(h)
    BY <1>3 DEF t
  <2>2. QED
    BY <1>1, <1>2, <2>1 DEF Lanes, Size
<1>6. TileIn(m, n, group, p) = <<g * group + t, u \div h>>
  BY DEF TileIn, per, g, u, h, t
<1>7. QED
  BY <1>3, <1>4, <1>5, <1>6 DEF Flat, t, per, g, u, h

\* No two programs compute one tile: within a column of a group the programs
\* are consecutive, so their remainders differ.
LEMMA TilesDiffer ==
    ASSUME NEW m \in Nat, NEW n \in Nat, NEW group \in Size,
           NEW p \in Lanes(m * n), NEW q \in Lanes(m * n),
           TileIn(m, n, group, p) = TileIn(m, n, group, q)
    PROVE  p = q
<1> DEFINE per == group * n
           g == p \div per
           u == p % per
           h == HeightOf(m, group, g)
           gq == q \div per
           w == q % per
           hq == HeightOf(m, group, gq)
<1>1. /\ g \in Nat /\ gq \in Nat /\ u \in Lanes(per) /\ w \in Lanes(per)
      /\ per \in Size /\ h \in Size /\ p = Flat(g, per, u) /\ q = Flat(gq, per, w)
  BY GroupOfProgram
<1>2. /\ p % h \in Lanes(group) /\ q % hq \in Lanes(group)
      /\ TileIn(m, n, group, p) = <<Flat(g, group, p % h), u \div h>>
      /\ TileIn(m, n, group, q) = <<Flat(gq, group, q % hq), w \div hq>>
  BY TileInGrid
<1> HIDE DEF g, gq, u, w, per, h, hq
<1>3. Flat(g, group, p % h) = Flat(gq, group, q % hq) /\ u \div h = w \div hq
  <2> DEFINE a == Flat(g, group, p % h)
             b == Flat(gq, group, q % hq)
             x == u \div h
             y == w \div hq
  <2>1. TileIn(m, n, group, p) = <<a, x>> /\ TileIn(m, n, group, q) = <<b, y>>
    BY <1>2
  <2> HIDE DEF a, b, x, y
  <2>2. <<a, x>> = <<b, y>>
    BY <2>1
  <2>3. a = b /\ x = y
    BY <2>2
  <2>4. QED
    BY <2>3 DEF a, b, x, y
<1>4. g = gq /\ p % h = q % hq
  <2> DEFINE i == p % h
             j == q % hq
  <2>1. i \in Lanes(group) /\ j \in Lanes(group) /\ Flat(g, group, i) = Flat(gq, group, j)
    BY <1>2, <1>3
  <2> HIDE DEF i, j
  <2>2. g = gq /\ i = j
    BY <1>1, <2>1, FlatIsUnique
  <2>3. QED
    BY <2>2 DEF i, j
<1>5. h = hq
  BY <1>4 DEF h, hq
<1>6. p % h = q % h /\ u \div h = w \div h
  BY <1>3, <1>4, <1>5
<1>7. p \in Nat /\ q \in Nat /\ u \in Nat /\ w \in Nat /\ h \in Nat \ {0}
  <2>1. m * n \in Nat
    OBVIOUS
  <2>2. QED
    BY <1>1, <2>1 DEF Lanes, Size
<1>8. /\ p = (p \div h) * h + (p % h) /\ q = (q \div h) * h + (q % h)
      /\ u = (u \div h) * h + (u % h) /\ w = (w \div h) * h + (w % h)
      /\ p \div h \in Nat /\ q \div h \in Nat /\ u \div h \in Nat
      /\ p % h \in 0 .. h - 1 /\ u % h \in 0 .. h - 1 /\ w % h \in 0 .. h - 1
  BY <1>7, Quotient
<1> DEFINE a == p \div h
           b == q \div h
           c == u \div h
           i == p % h
           j == u % h
           k == w % h
<1>9. /\ p = a * h + i /\ q = b * h + i /\ u = c * h + j /\ w = c * h + k
      /\ a \in Nat /\ b \in Nat /\ c \in Nat
      /\ i \in 0 .. h - 1 /\ j \in 0 .. h - 1 /\ k \in 0 .. h - 1
  BY <1>6, <1>8
<1> HIDE DEF a, b, c, i, j, k
<1>10. p - q = u - w
  <2>1. p = g * per + u /\ q = g * per + w /\ g * per \in Nat
    BY <1>1, <1>4 DEF Flat, Size
  <2>2. QED
    BY <1>7, <2>1
<1>11. a * h \in Nat /\ b * h \in Nat /\ c * h \in Nat
  BY <1>7, <1>9
<1>12. a * h - b * h = j - k
  BY <1>7, <1>9, <1>10, <1>11
<1>13. a * h < b * h + h /\ b * h < a * h + h
  BY <1>7, <1>9, <1>11, <1>12
<1>14. a <= b /\ b <= a
  BY <1>7, <1>9, <1>13, CancelFactor
<1>15. a = b
  BY <1>9, <1>14
<1>16. QED
  BY <1>9, <1>15

\* Every tile is computed: among the programs of its column some remainder
\* is its row.
LEMMA TileExists ==
    ASSUME NEW m \in Nat, NEW n \in Nat, NEW group \in Size,
           NEW r \in Lanes(m), NEW c \in Lanes(n)
    PROVE  \E p \in Lanes(m * n) : TileIn(m, n, group, p) = <<r, c>>
<1> DEFINE per == group * n
           g == r \div group
           t == r % group
           first == g * group
           h == HeightOf(m, group, g)
           base == g * per + c * h
           z == (t - base) % h
           p == base + z
           u == c * h + z
<1>0. group \in Nat /\ group >= 1 /\ r \in Nat /\ r < m /\ c \in Nat /\ c < n
  BY DEF Size, Lanes
<1>1. g \in Nat /\ t \in Lanes(group) /\ Flat(g, group, t) = r
  BY <1>0, FlatOfParts
<1> HIDE DEF g, t
<1>2. first \in Nat /\ r = first + t /\ t \in Nat /\ t < group /\ per \in Nat
  <2>1. first \in Nat /\ per \in Nat
    BY <1>0, <1>1
  <2>2. QED
    BY <1>0, <1>1, <2>1 DEF Flat, Lanes
<1>3. h \in Size /\ h \in Nat \ {0} /\ t \in 0 .. h - 1 /\ h <= group /\ first + h <= m
  BY <1>0, <1>2 DEF HeightOf, Min2, Size
<1> HIDE DEF h
<1>4. c * h \in Nat /\ g * per \in Nat /\ base \in Nat
  BY <1>0, <1>1, <1>2, <1>3
<1>5. z \in 0 .. h - 1 /\ t - base = h * ((t - base) \div h) + z /\ (t - base) \div h \in Int
  <2>1. t - base \in Int
    BY <1>2, <1>4
  <2>2. QED
    BY <1>3, <2>1, DivMod
<1> DEFINE y == (t - base) \div h
<1>6. y \in Int /\ t - base = h * y + z /\ z \in Nat /\ z < h
  BY <1>3, <1>5
<1> HIDE DEF z, y
<1>7. p \in Nat
  BY <1>4, <1>6
<1>8. p = (0 - y) * h + t
  <2>1. (0 - y) * h = 0 - h * y /\ h * y \in Int
    BY <1>3, <1>6
  <2>2. QED
    BY <1>2, <1>4, <1>6, <2>1
<1>9. p % h = t
  <2> DEFINE x == p \div h
             i == p % h
  <2>1. x \in Nat /\ i \in 0 .. h - 1 /\ p = x * h + i
    BY <1>3, <1>7, Quotient
  <2> DEFINE k == 0 - y
  <2>2. x * h + i = k * h + t /\ k \in Int /\ x \in Int
    BY <1>6, <1>8, <2>1
  <2> HIDE DEF x, i, p, k
  <2>3. i = t
    BY <1>3, <2>1, <2>2, OneAddress
  <2>4. QED
    BY <2>3 DEF i
<1>10. n * h <= per /\ c * h + h <= n * h /\ n * h \in Nat
  <2>1. n * h <= n * group
    BY <1>0, <1>3
  <2>2. (c + 1) * h <= n * h
    BY <1>0, <1>3
  <2>3. (c + 1) * h = c * h + h /\ n * h \in Nat
    BY <1>0, <1>3
  <2>4. n * group = group * n
    BY <1>0
  <2>5. QED
    BY <2>1, <2>2, <2>3, <2>4
<1>11. u \in Nat /\ u < n * h /\ u < per
  BY <1>2, <1>3, <1>4, <1>6, <1>10
<1>12. per \in Size /\ u \in Lanes(per)
  BY <1>2, <1>11 DEF Size, Lanes
<1>13. p = Flat(g, per, u)
  BY <1>0, <1>2, <1>4, <1>6 DEF Flat
<1>14. p \div per = g /\ p % per = u
  <2> HIDE DEF p, u, per
  <2>1. QED
    BY <1>1, <1>12, <1>13, FlatParts
<1>15. u \div h = c
  <2>1. u = Flat(c, h, z)
    BY DEF Flat
  <2>2. z \in Lanes(h)
    BY <1>3, <1>6 DEF Lanes
  <2> HIDE DEF u
  <2>3. QED
    BY <1>0, <1>3, <2>1, <2>2, FlatParts
<1>16. p \in Lanes(m * n)
  <2>1. g * per = first * n
    BY <1>0, <1>1
  <2>2. (first + h) * n <= m * n
    BY <1>0, <1>2, <1>3
  <2>3. (first + h) * n = first * n + n * h /\ first * n \in Nat /\ m * n \in Nat
    BY <1>0, <1>2, <1>3
  <2>4. p = g * per + u
    BY <1>13 DEF Flat
  <2>5. p < m * n
    BY <1>10, <1>11, <2>1, <2>2, <2>3, <2>4
  <2>6. QED
    BY <1>7, <2>3, <2>5 DEF Lanes
<1>17. TileIn(m, n, group, p) = <<first + t, c>>
  <2> HIDE DEF p, u, per
  <2>1. TileIn(m, n, group, p) = <<g * group + (p % h), (p % per) \div h>>
    BY <1>14 DEF TileIn, h, per
  <2>2. QED
    BY <1>9, <1>14, <1>15, <2>1
<1>18. QED
  BY <1>2, <1>16, <1>17

\* The tile of a program of a tiled kernel.
LEMMA TileOfIsTileIn ==
    \A l, p : TileOf(l, p) = TileIn(Cdiv(l.bucket, l.bm), Cdiv(l.n, l.bn), l.group, p)
BY DEF TileOf, TileIn, HeightOf

\* Tiled kernels: every output once, over all of K.
LEMMA TiledExact ==
    ASSUME NEW l, IsTiled(l)
    PROVE  Exact(Programs(l), Reference(l))
<1>0. /\ l.kernel = "tiled" /\ l.m \in Nat /\ l.n \in Nat /\ l.n \in Size /\ l.bm \in Size
      /\ l.bn \in Size /\ l.k \in Size /\ l.bk \in Size /\ l.group \in Size
      /\ l.bucket \in Nat /\ l.m <= l.bucket
  <2>1. /\ l.kernel = "tiled" /\ l.m \in Size /\ l.n \in Size /\ l.bm \in Size
        /\ l.bn \in Size /\ l.k \in Size /\ l.bk \in Size /\ l.group \in Size
        /\ l.bucket = l.m \/ IsBucketOf(l.bucket, l.m)
    BY DEF IsTiled
  <2>2. l.m \in Nat /\ l.n \in Nat
    BY <2>1 DEF Size
  <2>3. CASE l.bucket = l.m
    BY <2>1, <2>2, <2>3
  <2>4. CASE IsBucketOf(l.bucket, l.m)
    <3>1. l.bucket \in Size /\ l.m <= l.bucket
      BY <2>4, BucketsAssumption DEF IsBucketOf
    <3>2. l.bucket \in Nat
      BY <3>1 DEF Size
    <3>3. QED
      BY <2>1, <2>2, <3>1, <3>2
  <2>5. QED
    BY <2>1, <2>3, <2>4
<1> DEFINE cm == Cdiv(l.bucket, l.bm)
           cn == Cdiv(l.n, l.bn)
           row(t, o) == Flat(t[1], l.bm, o[1])
           col(t, o) == Flat(t[2], l.bn, o[2])
           G == Lanes(cm * cn)
           LanesOf(t) == Own(t[1], l.m, l.bm) \X Own(t[2], l.n, l.bn)
<1>1. cm \in Nat /\ cn \in Nat
  BY <1>0, CdivIsNat
<1>2. /\ DOMAIN Programs(l) = G
      /\ \A p \in G : Programs(l)[p] = TileStores(l, p, TileOf(l, p))
      /\ Reference(l) = TiledOutput(l)
  BY <1>0 DEF Programs, Grid, Stores, TiledStores, Reference, Lanes
<1>3. ASSUME NEW p \in G
      PROVE  /\ TileOf(l, p)[1] \in Lanes(cm) /\ TileOf(l, p)[2] \in Lanes(cn)
             /\ TileOf(l, p) = <<TileOf(l, p)[1], TileOf(l, p)[2]>>
             /\ TileOf(l, p)[1] \in Nat /\ TileOf(l, p)[2] \in Nat
  <2> DEFINE t == TileIn(cm, cn, l.group, p)
  <2>1. t[1] \in Lanes(cm) /\ t[2] \in Lanes(cn)
    BY <1>0, <1>1, TileInGrid
  <2>2. t = <<t[1], t[2]>>
    BY DEF TileIn
  <2>3. TileOf(l, p) = t
    BY TileOfIsTileIn
  <2> HIDE DEF t, cm, cn
  <2>4. t[1] \in Nat /\ t[2] \in Nat
    BY <1>1, <2>1 DEF Lanes
  <2>5. QED
    BY <2>1, <2>2, <2>3, <2>4
<1>4. ASSUME NEW p \in G, NEW q \in G, TileOf(l, p) = TileOf(l, q) PROVE p = q
  <2>1. TileIn(cm, cn, l.group, p) = TileIn(cm, cn, l.group, q)
    BY <1>4, TileOfIsTileIn
  <2>2. QED
    BY <1>0, <1>1, <2>1, TilesDiffer
<1>5. \A r \in Lanes(cm), c \in Lanes(cn) : \E p \in G : TileOf(l, p) = <<r, c>>
  <2>1. ASSUME NEW r \in Lanes(cm), NEW c \in Lanes(cn)
        PROVE  \E p \in G : TileOf(l, p) = <<r, c>>
    <3>1. PICK p \in G : TileIn(cm, cn, l.group, p) = <<r, c>>
      BY <1>0, <1>1, TileExists
    <3>2. QED
      BY <3>1, TileOfIsTileIn
  <2>2. QED
    BY <2>1
<1>6. ASSUME NEW p \in G, NEW o \in LanesOf(TileOf(l, p))
      PROVE  /\ row(TileOf(l, p), o) \in Lanes(l.m) /\ col(TileOf(l, p), o) \in Lanes(l.n)
             /\ row(TileOf(l, p), o) \in Nat /\ o[1] \in Lanes(l.bm) /\ o[2] \in Lanes(l.bn)
             /\ o = <<o[1], o[2]>>
  <2>1. /\ o[1] \in Own(TileOf(l, p)[1], l.m, l.bm) /\ o[2] \in Own(TileOf(l, p)[2], l.n, l.bn)
        /\ o = <<o[1], o[2]>>
    OBVIOUS
  <2>2. row(TileOf(l, p), o) \in Lanes(l.m) /\ o[1] \in Lanes(l.bm)
    BY <1>0, <1>3, <2>1, OwnFacts
  <2>3. col(TileOf(l, p), o) \in Lanes(l.n) /\ o[2] \in Lanes(l.bn)
    BY <1>0, <1>3, <2>1, OwnFacts
  <2> HIDE DEF row, col
  <2>4. QED
    BY <1>0, <2>1, <2>2, <2>3 DEF Lanes
<1>7. /\ \A p \in G : \A s \in TileStores(l, p, TileOf(l, p)) : \E o \in LanesOf(TileOf(l, p)) :
            s = Store(<<p, o[1], o[2]>>, Flat(row(TileOf(l, p), o), l.n, col(TileOf(l, p), o)),
                      Dot(l, row(TileOf(l, p), o), col(TileOf(l, p), o)))
      /\ \A p \in G : \A o \in LanesOf(TileOf(l, p)) :
            Store(<<p, o[1], o[2]>>, Flat(row(TileOf(l, p), o), l.n, col(TileOf(l, p), o)),
                  Dot(l, row(TileOf(l, p), o), col(TileOf(l, p), o))) \in TileStores(l, p, TileOf(l, p))
  BY DEF TileStores
<1> HIDE DEF cm, cn, row, col, LanesOf
<1>8. ASSUME NEW r \in Lanes(l.m), NEW c \in Lanes(l.n)
      PROVE  Output(Flat(r, l.n, c), DotTerms(l, r, c)) \in TiledOutput(l)
  <2>1. <<r, c>> \in Lanes(l.m) \X Lanes(l.n)
    OBVIOUS
  <2>2. QED
    BY <2>1 DEF TiledOutput
<1>9. ASSUME NEW p \in G, NEW s \in TileStores(l, p, TileOf(l, p))
      PROVE  \E r \in TiledOutput(l) : s.cell = r.cell /\ SumOf(s.value, r.terms)
  <2> DEFINE t == TileOf(l, p)
  <2>1. PICK o \in LanesOf(t) :
            s = Store(<<p, o[1], o[2]>>, Flat(row(t, o), l.n, col(t, o)), Dot(l, row(t, o), col(t, o)))
    BY <1>7
  <2>2. row(t, o) \in Lanes(l.m) /\ col(t, o) \in Lanes(l.n) /\ row(t, o) \in Nat
    BY <1>6
  <2> HIDE DEF t
  <2>3. SumOf(Dot(l, row(t, o), col(t, o)), DotTerms(l, row(t, o), col(t, o)))
    BY <1>0, <2>2, DotIsExact
  <2>4. QED
    BY <1>8, <2>1, <2>2, <2>3 DEF Store, Output
<1>10. ASSUME NEW p \in G, NEW q \in G, NEW s \in TileStores(l, p, TileOf(l, p)),
              NEW v \in TileStores(l, q, TileOf(l, q)), s.cell = v.cell
       PROVE  s = v
  <2> DEFINE t == TileOf(l, p)
             w == TileOf(l, q)
  <2>1. PICK o \in LanesOf(t) :
            s = Store(<<p, o[1], o[2]>>, Flat(row(t, o), l.n, col(t, o)), Dot(l, row(t, o), col(t, o)))
    BY <1>7
  <2>2. PICK x \in LanesOf(w) :
            v = Store(<<q, x[1], x[2]>>, Flat(row(w, x), l.n, col(w, x)), Dot(l, row(w, x), col(w, x)))
    BY <1>7
  <2>3. /\ row(t, o) \in Nat /\ row(w, x) \in Nat /\ col(t, o) \in Lanes(l.n) /\ col(w, x) \in Lanes(l.n)
        /\ o[1] \in Lanes(l.bm) /\ x[1] \in Lanes(l.bm) /\ o[2] \in Lanes(l.bn) /\ x[2] \in Lanes(l.bn)
        /\ o = <<o[1], o[2]>> /\ x = <<x[1], x[2]>>
    BY <1>6
  <2>4. /\ t[1] \in Nat /\ t[2] \in Nat /\ t = <<t[1], t[2]>>
        /\ w[1] \in Nat /\ w[2] \in Nat /\ w = <<w[1], w[2]>>
    BY <1>3
  <2> HIDE DEF t, w
  <2>5. Flat(row(t, o), l.n, col(t, o)) = Flat(row(w, x), l.n, col(w, x))
    BY <1>10, <2>1, <2>2 DEF Store
  <2>6. row(t, o) = row(w, x) /\ col(t, o) = col(w, x)
    BY <1>0, <2>3, <2>5, FlatIsUnique
  <2>7. t[1] = w[1] /\ o[1] = x[1]
    BY <1>0, <2>3, <2>4, <2>6, FlatIsUnique DEF row
  <2>8. t[2] = w[2] /\ o[2] = x[2]
    BY <1>0, <2>3, <2>4, <2>6, FlatIsUnique DEF col
  <2>9. p = q
    BY <1>4, <2>4, <2>7, <2>8 DEF t, w
  <2>10. o = x
    BY <2>3, <2>7, <2>8
  <2>11. QED
    BY <2>1, <2>2, <2>9, <2>10 DEF t, w
<1>11. ASSUME NEW y \in TiledOutput(l)
       PROVE  \E p \in G : \E s \in TileStores(l, p, TileOf(l, p)) : s.cell = y.cell
  <2>1. PICK z \in Lanes(l.m) \X Lanes(l.n) : y = Output(Flat(z[1], l.n, z[2]), DotTerms(l, z[1], z[2]))
    BY DEF TiledOutput
  <2>2. PICK r \in Lanes(Cdiv(l.m, l.bm)) : \E i \in Own(r, l.m, l.bm) : Flat(r, l.bm, i) = z[1]
    BY <1>0, OwnExists
  <2>3. PICK i \in Own(r, l.m, l.bm) : Flat(r, l.bm, i) = z[1]
    BY <2>2
  <2>4. PICK c \in Lanes(cn) : \E j \in Own(c, l.n, l.bn) : Flat(c, l.bn, j) = z[2]
    BY <1>0, OwnExists DEF cn
  <2>5. PICK j \in Own(c, l.n, l.bn) : Flat(c, l.bn, j) = z[2]
    BY <2>4
  <2>6. r \in Lanes(cm)
    <3>1. Cdiv(l.m, l.bm) <= cm /\ Cdiv(l.m, l.bm) \in Nat
      BY <1>0, CdivGrows, CdivIsNat DEF cm
    <3>2. QED
      BY <1>1, <3>1 DEF Lanes
  <2>7. PICK p \in G : TileOf(l, p) = <<r, c>>
    BY <1>5, <2>6
  <2>8. <<i, j>> \in LanesOf(<<r, c>>)
    BY DEF LanesOf
  <2>9. row(<<r, c>>, <<i, j>>) = z[1] /\ col(<<r, c>>, <<i, j>>) = z[2]
    BY <2>3, <2>5 DEF row, col
  <2> DEFINE o == <<i, j>>
             t == <<r, c>>
             s == Store(<<p, o[1], o[2]>>, Flat(row(t, o), l.n, col(t, o)), Dot(l, row(t, o), col(t, o)))
  <2>10. s \in TileStores(l, p, TileOf(l, p))
    BY <1>7, <2>7, <2>8
  <2>11. s.cell = y.cell
    BY <2>1, <2>9 DEF Store, Output
  <2>12. QED
    BY <2>10, <2>11
<1>12. QED
  BY <1>2, <1>9, <1>10, <1>11 DEF Exact

-----------------------------------------------------------------------------
(***************************************************************************)
(* Attention.                                                              *)
(***************************************************************************)

\* Nested products, as addresses of rows write them.
LEMMA Distributes ==
    ASSUME NEW a \in Int, NEW b \in Int, NEW c \in Int
    PROVE  (a + b) * c = a * c + b * c
OBVIOUS

\* A query's sum meets each key it attends to once.
LEMMA AttentionSumIsExact ==
    ASSUME NEW l, l.sk \in Size, l.bn \in Size, NEW head \in Nat,
           NEW batch, NEW query, NEW i
    PROVE  SumOf(AttentionSum(l, batch, head, query, i), AttentionTerms(l, batch, head, query, i))
<1> DEFINE O == {x \in Loop(l.sk, l.bn) : Attends(l, batch, query, Place(x, l.bn))}
           f == [o \in O |-> Weighs(l, head, query, Place(o, l.bn), i)]
<1>0. l.sk \in Nat
  BY DEF Size
<1>1. AttentionSum(l, batch, head, query, i) = {<<o, f[o]>> : o \in O}
  BY DEF AttentionSum
<1>2. ASSUME NEW o \in O, NEW w \in O, f[o] = f[w] PROVE o = w
  <2>1. Place(o, l.bn) \in Lanes(l.sk) /\ Place(w, l.bn) \in Lanes(l.sk)
    BY <1>0, LoopIsExact
  <2>2. Flat(head, l.sk, Place(o, l.bn)) = Flat(head, l.sk, Place(w, l.bn))
    BY <1>2 DEF Weighs
  <2>3. Place(o, l.bn) = Place(w, l.bn)
    BY <2>1, <2>2, FlatIsUnique
  <2>4. QED
    BY <1>0, <2>3, LoopIsExact
<1>3. ASSUME NEW o \in O PROVE f[o] \in AttentionTerms(l, batch, head, query, i)
  <2>1. Place(o, l.bn) \in Lanes(l.sk)
    BY <1>0, LoopIsExact
  <2>2. QED
    BY <2>1 DEF AttentionTerms
<1>4. ASSUME NEW t \in AttentionTerms(l, batch, head, query, i) PROVE \E o \in O : f[o] = t
  <2>1. PICK key \in Lanes(l.sk) : Attends(l, batch, query, key) /\ t = Weighs(l, head, query, key, i)
    BY DEF AttentionTerms
  <2>2. PICK o \in Loop(l.sk, l.bn) : Place(o, l.bn) = key
    BY <1>0, LoopIsExact
  <2>3. QED
    BY <2>1, <2>2
<1> HIDE DEF f, O
<1>5. AttentionTerms(l, batch, head, query, i) = {f[o] : o \in O}
  BY <1>3, <1>4
<1>6. QED
  BY <1>1, <1>2, <1>5, SumOverLoop

\* The cell of an element of a head's query, and its store.
QueryCell(l, head, query, i) == Flat(Flat(head, l.sq, query), l.d, i)
QueryStore(l, p, o) ==
    Store(<<p[1], p[2], o[1], o[2]>>, QueryCell(l, p[2], Flat(p[1], l.bm, o[1]), o[2]),
          AttentionSum(l, p[2] \div l.heads, p[2], Flat(p[1], l.bm, o[1]), o[2]))

\* Attention: each query of each head once, over the keys it may attend to.
LEMMA AttentionExact ==
    ASSUME NEW l, IsAttention(l)
    PROVE  Exact(Programs(l), Reference(l))
<1>0. /\ l.kernel = "attention" /\ l.batch \in Size /\ l.heads \in Size /\ l.sq \in Size
      /\ l.sk \in Size /\ l.d \in Size /\ l.bm \in Size /\ l.bn \in Size
  BY DEF IsAttention
<1>1. l.batch \in Nat /\ l.sq \in Nat /\ l.d \in Nat /\ l.heads \in Nat /\ l.batch * l.heads \in Nat
  BY <1>0 DEF Size
<1> DEFINE G == Lanes(Cdiv(l.sq, l.bm)) \X Lanes(l.batch * l.heads)
           K(p) == Queries(l, p) \X Lanes(l.d)
           query(p, o) == Flat(p[1], l.bm, o[1])
<1>2. /\ DOMAIN Programs(l) = G /\ \A p \in G : Programs(l)[p] = AttentionStores(l, p)
      /\ Reference(l) = AttentionOutput(l)
  BY <1>0 DEF Programs, Grid, Stores, Reference, Lanes
<1>3. ASSUME NEW p \in G
      PROVE  /\ p = <<p[1], p[2]>> /\ p[1] \in Nat /\ p[2] \in Nat /\ p[2] \in Lanes(l.batch * l.heads)
             /\ p[2] \div l.heads \in Lanes(l.batch)
             /\ \E h \in Lanes(l.heads) : Flat(p[2] \div l.heads, l.heads, h) = p[2]
  <2>1. p = <<p[1], p[2]>> /\ p[1] \in Lanes(Cdiv(l.sq, l.bm)) /\ p[2] \in Lanes(l.batch * l.heads)
    OBVIOUS
  <2>2. p[1] \in Nat /\ p[2] \in Nat /\ p[2] < l.batch * l.heads
    BY <1>0, <1>1, <2>1, CdivIsNat DEF Lanes
  <2>3. /\ p[2] \div l.heads \in Lanes(l.batch) /\ p[2] % l.heads \in Lanes(l.heads)
        /\ Flat(p[2] \div l.heads, l.heads, p[2] % l.heads) = p[2]
    BY <1>0, <1>1, <2>2, FlatOfParts
  <2>4. QED
    BY <2>1, <2>2, <2>3
<1>4. ASSUME NEW p \in G, NEW o \in K(p)
      PROVE  /\ o = <<o[1], o[2]>> /\ o[1] \in Own(p[1], l.sq, l.bm) /\ o[1] \in Lanes(l.bm)
             /\ o[2] \in Lanes(l.d) /\ query(p, o) \in Lanes(l.sq)
             /\ query(p, o) < l.queries[p[2] \div l.heads]
  <2>1. /\ o = <<o[1], o[2]>> /\ o[1] \in Own(p[1], l.sq, l.bm) /\ o[2] \in Lanes(l.d)
        /\ query(p, o) < l.queries[p[2] \div l.heads]
    BY DEF Queries
  <2>2. o[1] \in Lanes(l.bm) /\ query(p, o) \in Lanes(l.sq)
    BY <1>0, <1>1, <1>3, <2>1, OwnFacts
  <2>3. QED
    BY <2>1, <2>2
<1>5. ASSUME NEW p \in G
      PROVE  /\ \A s \in AttentionStores(l, p) : \E o \in K(p) : s = QueryStore(l, p, o)
             /\ \A o \in K(p) : QueryStore(l, p, o) \in AttentionStores(l, p)
  <2>1. ASSUME NEW o \in K(p)
        PROVE  p[2] * l.sq * l.d + query(p, o) * l.d + o[2] = QueryCell(l, p[2], query(p, o), o[2])
    <3> DEFINE q == query(p, o)
    <3>1. q \in Nat /\ p[2] \in Nat /\ o[2] \in Nat
      BY <1>1, <1>3, <1>4 DEF Lanes
    <3> HIDE DEF q
    <3>2. p[2] * l.sq \in Int
      BY <1>1, <3>1
    <3>3. (p[2] * l.sq + q) * l.d = p[2] * l.sq * l.d + q * l.d
      BY <1>1, <3>1, <3>2, Distributes
    <3>4. QED
      BY <3>3 DEF QueryCell, Flat, q
  <2>2. QED
    BY <2>1 DEF AttentionStores, QueryStore
<1> HIDE DEF K, query
<1>6. ASSUME NEW p \in G, NEW s \in AttentionStores(l, p)
      PROVE  \E r \in AttentionOutput(l) : s.cell = r.cell /\ SumOf(s.value, r.terms)
  <2>1. PICK o \in K(p) : s = QueryStore(l, p, o)
    BY <1>5
  <2> DEFINE b == p[2] \div l.heads
             q == query(p, o)
  <2>2. PICK h \in Lanes(l.heads) : Flat(b, l.heads, h) = p[2]
    BY <1>3
  <2>3. b \in Lanes(l.batch) /\ q \in Lanes(l.sq) /\ o[2] \in Lanes(l.d) /\ q < l.queries[b]
    BY <1>3, <1>4
  <2>4. s = Store(<<p[1], p[2], o[1], o[2]>>, QueryCell(l, p[2], q, o[2]),
                  AttentionSum(l, b, p[2], q, o[2]))
    BY <2>1 DEF QueryStore, query
  <2> HIDE DEF b, q
  <2>5. Output(QueryCell(l, p[2], q, o[2]), AttentionTerms(l, b, p[2], q, o[2])) \in AttentionOutput(l)
    <3> DEFINE z == <<b, h, q, o[2]>>
    <3>1. z \in Lanes(l.batch) \X Lanes(l.heads) \X Lanes(l.sq) \X Lanes(l.d) /\ z[3] < l.queries[z[1]]
      BY <2>3
    <3>2. z[1] = b /\ z[2] = h /\ z[3] = q /\ z[4] = o[2]
      OBVIOUS
    <3> HIDE DEF z
    <3>3. Output(Flat(Flat(Flat(z[1], l.heads, z[2]), l.sq, z[3]), l.d, z[4]),
                 AttentionTerms(l, z[1], Flat(z[1], l.heads, z[2]), z[3], z[4])) \in AttentionOutput(l)
      BY <3>1 DEF AttentionOutput
    <3>4. QED
      BY <2>2, <3>2, <3>3 DEF QueryCell
  <2>6. SumOf(AttentionSum(l, b, p[2], q, o[2]), AttentionTerms(l, b, p[2], q, o[2]))
    BY <1>0, <1>3, AttentionSumIsExact
  <2>7. QED
    BY <2>4, <2>5, <2>6 DEF Store, Output
<1>7. ASSUME NEW p \in G, NEW q \in G, NEW s \in AttentionStores(l, p), NEW t \in AttentionStores(l, q),
             s.cell = t.cell
      PROVE  s = t
  <2>1. PICK o \in K(p) : s = QueryStore(l, p, o)
    BY <1>5
  <2>2. PICK w \in K(q) : t = QueryStore(l, q, w)
    BY <1>5
  <2> DEFINE x == query(p, o)
             y == query(q, w)
  <2>3. /\ x \in Lanes(l.sq) /\ y \in Lanes(l.sq) /\ o[2] \in Lanes(l.d) /\ w[2] \in Lanes(l.d)
        /\ o[1] \in Lanes(l.bm) /\ w[1] \in Lanes(l.bm) /\ o = <<o[1], o[2]>> /\ w = <<w[1], w[2]>>
    BY <1>4
  <2>4. /\ p[1] \in Nat /\ p[2] \in Nat /\ q[1] \in Nat /\ q[2] \in Nat
        /\ p = <<p[1], p[2]>> /\ q = <<q[1], q[2]>>
    BY <1>3
  <2>5. QueryCell(l, p[2], x, o[2]) = QueryCell(l, q[2], y, w[2])
    BY <1>7, <2>1, <2>2 DEF QueryStore, Store, query
  <2> HIDE DEF x, y
  <2>6. Flat(p[2], l.sq, x) \in Nat /\ Flat(q[2], l.sq, y) \in Nat
    BY <1>0, <2>3, <2>4, FlatIsNat
  <2>7. Flat(p[2], l.sq, x) = Flat(q[2], l.sq, y) /\ o[2] = w[2]
    BY <1>0, <2>3, <2>5, <2>6, FlatIsUnique DEF QueryCell
  <2>8. p[2] = q[2] /\ x = y
    BY <1>0, <2>3, <2>4, <2>7, FlatIsUnique
  <2>9. p[1] = q[1] /\ o[1] = w[1]
    BY <1>0, <2>3, <2>4, <2>8, FlatIsUnique DEF x, y, query
  <2>10. p = q
    BY <2>4, <2>8, <2>9
  <2>11. o = w
    BY <2>3, <2>7, <2>9
  <2>12. QED
    BY <2>1, <2>2, <2>10, <2>11
<1>8. ASSUME NEW r \in AttentionOutput(l)
      PROVE  \E p \in G : \E s \in AttentionStores(l, p) : s.cell = r.cell
  <2>1. PICK z \in Lanes(l.batch) \X Lanes(l.heads) \X Lanes(l.sq) \X Lanes(l.d) :
            /\ z[3] < l.queries[z[1]]
            /\ r = Output(Flat(Flat(Flat(z[1], l.heads, z[2]), l.sq, z[3]), l.d, z[4]),
                          AttentionTerms(l, z[1], Flat(z[1], l.heads, z[2]), z[3], z[4]))
    BY DEF AttentionOutput
  <2>2. z[1] \in Lanes(l.batch) /\ z[2] \in Lanes(l.heads) /\ z[3] \in Lanes(l.sq) /\ z[4] \in Lanes(l.d)
    OBVIOUS
  <2> DEFINE head == Flat(z[1], l.heads, z[2])
  <2>3. head \in Lanes(l.batch * l.heads) /\ head \div l.heads = z[1]
    <3>1. z[1] \in Nat
      BY <1>1, <2>2 DEF Lanes
    <3>2. head \in Lanes(l.batch * l.heads)
      BY <1>0, <1>1, <2>2, FlatIsBelow
    <3>3. head \div l.heads = z[1]
      BY <1>0, <2>2, <3>1, FlatParts
    <3>4. QED
      BY <3>2, <3>3
  <2>4. PICK x \in Lanes(Cdiv(l.sq, l.bm)) : \E i \in Own(x, l.sq, l.bm) : Flat(x, l.bm, i) = z[3]
    BY <1>0, <1>1, <2>2, OwnExists
  <2>5. PICK i \in Own(x, l.sq, l.bm) : Flat(x, l.bm, i) = z[3]
    BY <2>4
  <2> DEFINE p == <<x, head>>
             o == <<i, z[4]>>
  <2>6. p \in G /\ p[1] = x /\ p[2] = head
    BY <2>3
  <2>7. o \in K(p) /\ o[1] = i /\ o[2] = z[4]
    BY <2>1, <2>2, <2>3, <2>5, <2>6 DEF K, Queries
  <2> HIDE DEF p, o
  <2>8. QueryStore(l, p, o) \in AttentionStores(l, p)
    BY <1>5, <2>6, <2>7
  <2>9. QueryStore(l, p, o).cell = r.cell
    BY <2>1, <2>5, <2>6, <2>7 DEF QueryStore, QueryCell, Store, Output
  <2>10. QED
    BY <2>6, <2>8, <2>9
<1>9. QED
  BY <1>2, <1>6, <1>7, <1>8 DEF Exact

-----------------------------------------------------------------------------
(***************************************************************************)
(* RoPE.                                                                   *)
(***************************************************************************)

\* An element of half a head: its cell, and what RoPE stores there.
HalfCell(l, row, side, i) == Flat(Flat(row, 2, side), l.half, i)
TensorRow(l, row) == IF row < QRows(l) THEN row ELSE row - QRows(l)
Turned(l, row, pos, i) == Rotation(row * (2 * l.half) + i, l.half, Flat(pos, l.half, i))
HalfStore(l, row, side, i) ==
    Store(<<row, side, i>>, HalfCell(l, row, side, i),
          {<<<<side>>, Turned(l, row, TensorRow(l, row) % l.s, i)>>})
HalfOutput(l, row, pos, side, i) ==
    Output(HalfCell(l, row, side, i), {Turned(l, row, pos, i)})

\* The sizes of a launch of RoPE, and its rows.
LEMMA RopeSizes ==
    ASSUME NEW l, IsRope(l)
    PROVE  /\ l.kernel = "rope" /\ l.s \in Size /\ l.half \in Size /\ l.batch \in Size
           /\ l.qheads \in Size /\ l.kheads \in Size
           /\ l.s \in Nat /\ l.half \in Nat /\ l.batch \in Nat /\ l.qheads \in Nat /\ l.kheads \in Nat
           /\ QRows(l) \in Nat /\ KRows(l) \in Nat
<1>1. /\ l.kernel = "rope" /\ l.s \in Size /\ l.half \in Size /\ l.batch \in Size
      /\ l.qheads \in Size /\ l.kheads \in Size
  BY DEF IsRope
<1>2. l.s \in Nat /\ l.half \in Nat /\ l.batch \in Nat /\ l.qheads \in Nat /\ l.kheads \in Nat
  BY <1>1 DEF Size
<1>3. QRows(l) \in Nat /\ KRows(l) \in Nat
  BY <1>2 DEF QRows, KRows
<1>4. QED
  BY <1>1, <1>2, <1>3

\* An address counted from the start of its row.
LEMMA HalfCellAddress ==
    ASSUME NEW l, l.half \in Nat, NEW row \in Nat, NEW side \in Nat, NEW i \in Nat
    PROVE  row * (2 * l.half) + side * l.half + i = HalfCell(l, row, side, i)
<1>1. (row * 2 + side) * l.half = (row * 2) * l.half + side * l.half
  BY Distributes
<1>2. (row * 2) * l.half = row * (2 * l.half)
  OBVIOUS
<1>3. QED
  BY <1>1, <1>2 DEF HalfCell, Flat

\* What the kernel stores for a row, of Q or of K.
LEMMA RopeRowIsHalfStore ==
    ASSUME NEW l, IsRope(l), NEW row \in Nat, NEW side \in {0, 1}, NEW i \in Lanes(l.half)
    PROVE  RopeRow(l, row, side, i) = HalfStore(l, row, side, i)
<1> DEFINE start == (IF row < QRows(l) THEN 0 ELSE QRows(l) * (2 * l.half)) + TensorRow(l, row) * (2 * l.half)
<1>0. l.half \in Nat /\ QRows(l) \in Nat /\ i \in Nat /\ side \in Nat
  BY RopeSizes DEF Lanes
<1>1. start = row * (2 * l.half)
  <2>1. CASE row < QRows(l)
    BY <1>0, <2>1 DEF TensorRow
  <2>2. CASE ~(row < QRows(l))
    <3> DEFINE x == row - QRows(l)
    <3>1. x \in Nat /\ row = QRows(l) + x
      BY <1>0, <2>2
    <3>2. 2 * l.half \in Int
      BY <1>0
    <3>3. TensorRow(l, row) = x
      BY <2>2 DEF TensorRow
    <3> HIDE DEF x
    <3>4. (QRows(l) + x) * (2 * l.half) = QRows(l) * (2 * l.half) + x * (2 * l.half)
      BY <1>0, <3>1, <3>2, Distributes
    <3>5. QED
      BY <2>2, <3>1, <3>3, <3>4
  <2>3. QED
    BY <2>1, <2>2
<1>2. RopeRow(l, row, side, i) =
          Store(<<row, side, i>>, start + side * l.half + i,
                {<<<<side>>, Rotation(start + i, l.half, Flat(TensorRow(l, row) % l.s, l.half, i))>>})
  BY DEF RopeRow, TensorRow
<1> HIDE DEF start
<1>3. start + side * l.half + i = HalfCell(l, row, side, i)
  BY <1>0, <1>1, HalfCellAddress
<1>4. QED
  BY <1>1, <1>2, <1>3 DEF HalfStore, Turned

\* The n rows of a tensor that begins after first rows.
HalvesOf(l, R, first, n) ==
    /\ \A r \in R : \E x \in Lanes(n), side \in {0, 1}, i \in Lanes(l.half) :
          r = HalfOutput(l, first + x, x % l.s, side, i)
    /\ \A x \in Lanes(n), side \in {0, 1}, i \in Lanes(l.half) :
          HalfOutput(l, first + x, x % l.s, side, i) \in R

\* What PyTorch rotates of one tensor.
LEMMA RotatedIsHalves ==
    ASSUME NEW l, IsRope(l), NEW first \in Nat, NEW heads \in Size
    PROVE  HalvesOf(l, Rotated(l, first * (2 * l.half), heads), first, l.batch * heads * l.s)
<1>0. /\ l.half \in Nat /\ l.s \in Size /\ l.batch \in Nat /\ l.s \in Nat /\ heads \in Nat
      /\ l.batch * heads \in Nat
  BY RopeSizes DEF Size
<1> DEFINE base == first * (2 * l.half)
           z(b, h, t) == Flat(Flat(b, heads, h), l.s, t)
           D == Lanes(l.batch) \X Lanes(heads) \X Lanes(l.s) \X {0, 1} \X Lanes(l.half)
           R(o) == Output(base + z(o[1], o[2], o[3]) * (2 * l.half) + o[4] * l.half + o[5],
                          {Rotation(base + z(o[1], o[2], o[3]) * (2 * l.half) + o[5], l.half,
                                    Flat(o[3], l.half, o[5]))})
<1>1. ASSUME NEW b \in Lanes(l.batch), NEW h \in Lanes(heads), NEW t \in Lanes(l.s)
      PROVE  z(b, h, t) \in Lanes(l.batch * heads * l.s) /\ z(b, h, t) \in Nat /\ z(b, h, t) % l.s = t
  <2>1. Flat(b, heads, h) \in Lanes(l.batch * heads)
    BY <1>0, FlatIsBelow
  <2>2. Flat(b, heads, h) \in Nat
    BY <1>0, <2>1 DEF Lanes
  <2>3. z(b, h, t) \in Lanes(l.batch * heads * l.s)
    BY <1>0, <2>1, FlatIsBelow
  <2>4. z(b, h, t) \in Nat /\ z(b, h, t) % l.s = t
    BY <1>0, <2>2, FlatIsNat, FlatParts
  <2>5. QED
    BY <2>3, <2>4
<1>2. ASSUME NEW x \in Nat, NEW t, NEW side \in {0, 1}, NEW i \in Lanes(l.half)
      PROVE  Output(base + x * (2 * l.half) + side * l.half + i,
                    {Rotation(base + x * (2 * l.half) + i, l.half, Flat(t, l.half, i))})
             = HalfOutput(l, first + x, t, side, i)
  <2>1. i \in Nat /\ side \in Nat /\ first + x \in Nat /\ 2 * l.half \in Int
    BY <1>0 DEF Lanes
  <2>2. (first + x) * (2 * l.half) = base + x * (2 * l.half)
    BY <2>1, Distributes
  <2>3. (first + x) * (2 * l.half) + side * l.half + i = HalfCell(l, first + x, side, i)
    BY <1>0, <2>1, HalfCellAddress
  <2>4. QED
    BY <2>2, <2>3 DEF HalfOutput, Turned
<1>3. /\ \A r \in Rotated(l, base, heads) : \E o \in D : r = R(o)
      /\ \A o \in D : R(o) \in Rotated(l, base, heads)
  BY DEF Rotated
<1>4. ASSUME NEW o \in D
      PROVE  /\ o[1] \in Lanes(l.batch) /\ o[2] \in Lanes(heads) /\ o[3] \in Lanes(l.s)
             /\ o[4] \in {0, 1} /\ o[5] \in Lanes(l.half)
             /\ R(o) = HalfOutput(l, first + z(o[1], o[2], o[3]), o[3], o[4], o[5])
  <2>1. /\ o[1] \in Lanes(l.batch) /\ o[2] \in Lanes(heads) /\ o[3] \in Lanes(l.s)
        /\ o[4] \in {0, 1} /\ o[5] \in Lanes(l.half)
    OBVIOUS
  <2>2. z(o[1], o[2], o[3]) \in Nat
    BY <1>1, <2>1
  <2> HIDE DEF z, base
  <2>3. R(o) = HalfOutput(l, first + z(o[1], o[2], o[3]), o[3], o[4], o[5])
    BY <1>2, <2>1, <2>2
  <2>4. QED
    BY <2>1, <2>3
<1> HIDE DEF R
<1>5. ASSUME NEW r \in Rotated(l, base, heads)
      PROVE  \E x \in Lanes(l.batch * heads * l.s), side \in {0, 1}, i \in Lanes(l.half) :
                r = HalfOutput(l, first + x, x % l.s, side, i)
  <2>1. PICK o \in D : r = R(o)
    BY <1>3
  <2> DEFINE x == z(o[1], o[2], o[3])
  <2>2. /\ o[4] \in {0, 1} /\ o[5] \in Lanes(l.half) /\ r = HalfOutput(l, first + x, o[3], o[4], o[5])
        /\ x \in Lanes(l.batch * heads * l.s) /\ x % l.s = o[3]
    BY <1>1, <1>4, <2>1
  <2> HIDE DEF x
  <2>3. QED
    BY <2>2
<1>6. ASSUME NEW x \in Lanes(l.batch * heads * l.s), NEW side \in {0, 1}, NEW i \in Lanes(l.half)
      PROVE  HalfOutput(l, first + x, x % l.s, side, i) \in Rotated(l, base, heads)
  <2>1. PICK y \in Lanes(l.batch * heads), t \in Lanes(l.s) : Flat(y, l.s, t) = x
    BY <1>0, FlatExists
  <2>2. PICK b \in Lanes(l.batch), h \in Lanes(heads) : Flat(b, heads, h) = y
    BY <1>0, FlatExists
  <2>3. z(b, h, t) = x /\ x % l.s = t
    BY <1>1, <2>1, <2>2
  <2> DEFINE o == <<b, h, t, side, i>>
  <2>4. o \in D /\ o[1] = b /\ o[2] = h /\ o[3] = t /\ o[4] = side /\ o[5] = i
    OBVIOUS
  <2> HIDE DEF o, z
  <2>5. R(o) = HalfOutput(l, first + x, t, side, i)
    BY <1>4, <2>3, <2>4
  <2>6. QED
    BY <1>3, <2>3, <2>4, <2>5
<1>7. QED
  BY <1>5, <1>6 DEF HalvesOf

\* What RoPE has to compute, row by row of Q and then of K.
LEMMA RopeOutputIsHalves ==
    ASSUME NEW l, IsRope(l)
    PROVE  LET rows == Lanes(QRows(l) + KRows(l))
           IN  /\ \A r \in RopeOutput(l) : \E row \in rows, side \in {0, 1}, i \in Lanes(l.half) :
                     r = HalfOutput(l, row, TensorRow(l, row) % l.s, side, i)
               /\ \A row \in rows, side \in {0, 1}, i \in Lanes(l.half) :
                     HalfOutput(l, row, TensorRow(l, row) % l.s, side, i) \in RopeOutput(l)
<1> DEFINE rows == Lanes(QRows(l) + KRows(l))
<1>0. /\ QRows(l) \in Nat /\ KRows(l) \in Nat /\ l.qheads \in Size /\ l.kheads \in Size /\ l.half \in Nat
      /\ QRows(l) = l.batch * l.qheads * l.s /\ KRows(l) = l.batch * l.kheads * l.s
  BY RopeSizes DEF QRows, KRows
<1>1. RopeOutput(l) = Rotated(l, 0 * (2 * l.half), l.qheads) \cup Rotated(l, QRows(l) * (2 * l.half), l.kheads)
  BY <1>0 DEF RopeOutput
<1>2. ASSUME NEW x \in Lanes(QRows(l)) PROVE 0 + x \in rows /\ TensorRow(l, 0 + x) = x
  BY <1>0 DEF Lanes, TensorRow
<1>3. ASSUME NEW x \in Lanes(KRows(l)) PROVE QRows(l) + x \in rows /\ TensorRow(l, QRows(l) + x) = x
  BY <1>0 DEF Lanes, TensorRow
<1>4. ASSUME NEW row \in rows
      PROVE  \/ row \in Lanes(QRows(l)) /\ row = 0 + row
             \/ \E x \in Lanes(KRows(l)) : row = QRows(l) + x
  <2>1. row \in Nat /\ row < QRows(l) + KRows(l)
    BY <1>0 DEF Lanes
  <2>2. CASE row < QRows(l)
    BY <1>0, <2>1, <2>2 DEF Lanes
  <2>3. CASE ~(row < QRows(l))
    <3>1. row - QRows(l) \in Lanes(KRows(l)) /\ row = QRows(l) + (row - QRows(l))
      BY <1>0, <2>1, <2>3 DEF Lanes
    <3>2. QED
      BY <3>1
  <2>4. QED
    BY <2>2, <2>3
<1>5. /\ \A r \in Rotated(l, 0 * (2 * l.half), l.qheads) :
             \E x \in Lanes(QRows(l)), side \in {0, 1}, i \in Lanes(l.half) :
                r = HalfOutput(l, 0 + x, x % l.s, side, i)
      /\ \A x \in Lanes(QRows(l)), side \in {0, 1}, i \in Lanes(l.half) :
             HalfOutput(l, 0 + x, x % l.s, side, i) \in Rotated(l, 0 * (2 * l.half), l.qheads)
  <2>1. 0 \in Nat
    OBVIOUS
  <2>2. HalvesOf(l, Rotated(l, 0 * (2 * l.half), l.qheads), 0, l.batch * l.qheads * l.s)
    BY <1>0, <2>1, RotatedIsHalves
  <2>3. HalvesOf(l, Rotated(l, 0 * (2 * l.half), l.qheads), 0, QRows(l))
    BY <1>0, <2>2
  <2>4. QED
    BY <2>3 DEF HalvesOf
<1>6. /\ \A r \in Rotated(l, QRows(l) * (2 * l.half), l.kheads) :
             \E x \in Lanes(KRows(l)), side \in {0, 1}, i \in Lanes(l.half) :
                r = HalfOutput(l, QRows(l) + x, x % l.s, side, i)
      /\ \A x \in Lanes(KRows(l)), side \in {0, 1}, i \in Lanes(l.half) :
             HalfOutput(l, QRows(l) + x, x % l.s, side, i) \in Rotated(l, QRows(l) * (2 * l.half), l.kheads)
  <2>1. HalvesOf(l, Rotated(l, QRows(l) * (2 * l.half), l.kheads), QRows(l), l.batch * l.kheads * l.s)
    BY <1>0, RotatedIsHalves
  <2>2. HalvesOf(l, Rotated(l, QRows(l) * (2 * l.half), l.kheads), QRows(l), KRows(l))
    BY <1>0, <2>1
  <2>3. QED
    BY <2>2 DEF HalvesOf
<1> HIDE DEF rows
<1>7. ASSUME NEW r \in RopeOutput(l)
      PROVE  \E row \in rows, side \in {0, 1}, i \in Lanes(l.half) :
                r = HalfOutput(l, row, TensorRow(l, row) % l.s, side, i)
  <2>1. CASE r \in Rotated(l, 0 * (2 * l.half), l.qheads)
    <3>1. PICK x \in Lanes(QRows(l)), side \in {0, 1}, i \in Lanes(l.half) :
              r = HalfOutput(l, 0 + x, x % l.s, side, i)
      BY <1>5, <2>1
    <3>2. QED
      BY <1>2, <3>1
  <2>2. CASE r \in Rotated(l, QRows(l) * (2 * l.half), l.kheads)
    <3>1. PICK x \in Lanes(KRows(l)), side \in {0, 1}, i \in Lanes(l.half) :
              r = HalfOutput(l, QRows(l) + x, x % l.s, side, i)
      BY <1>6, <2>2
    <3>2. QED
      BY <1>3, <3>1
  <2>3. QED
    BY <1>1, <2>1, <2>2
<1>8. ASSUME NEW row \in rows, NEW side \in {0, 1}, NEW i \in Lanes(l.half)
      PROVE  HalfOutput(l, row, TensorRow(l, row) % l.s, side, i) \in RopeOutput(l)
  <2>1. CASE row \in Lanes(QRows(l)) /\ row = 0 + row
    BY <1>1, <1>2, <1>5, <2>1
  <2>2. CASE \E x \in Lanes(KRows(l)) : row = QRows(l) + x
    BY <1>1, <1>3, <1>6, <2>2
  <2>3. QED
    BY <1>4, <2>1, <2>2
<1>9. QED
  BY <1>7, <1>8 DEF rows

\* RoPE: both halves of every row of Q and K once, by its own position.
LEMMA RopeExact ==
    ASSUME NEW l, IsRope(l)
    PROVE  Exact(Programs(l), Reference(l))
<1> DEFINE rows == Lanes(QRows(l) + KRows(l))
<1>0. /\ l.kernel = "rope" /\ l.half \in Size /\ QRows(l) \in Nat /\ KRows(l) \in Nat /\ 2 \in Size
  BY RopeSizes DEF Size
<1>1. /\ DOMAIN Programs(l) = rows /\ \A p \in rows : Programs(l)[p] = RopeStores(l, p)
      /\ Reference(l) = RopeOutput(l)
  BY <1>0 DEF Programs, Grid, Stores, Reference, Lanes
<1>2. rows \subseteq Nat
  BY <1>0 DEF Lanes
<1>3. ASSUME NEW row \in rows
      PROVE  /\ \A s \in RopeStores(l, row) : \E side \in {0, 1}, i \in Lanes(l.half) :
                   s = HalfStore(l, row, side, i)
             /\ \A side \in {0, 1}, i \in Lanes(l.half) : HalfStore(l, row, side, i) \in RopeStores(l, row)
  <2>1. ASSUME NEW s \in RopeStores(l, row)
        PROVE  \E side \in {0, 1}, i \in Lanes(l.half) : s = HalfStore(l, row, side, i)
    <3>1. PICK o \in {0, 1} \X Lanes(l.half) : s = RopeRow(l, row, o[1], o[2])
      BY DEF RopeStores
    <3>2. o[1] \in {0, 1} /\ o[2] \in Lanes(l.half)
      OBVIOUS
    <3>3. s = HalfStore(l, row, o[1], o[2])
      BY <1>2, <3>1, <3>2, RopeRowIsHalfStore
    <3>4. QED
      BY <3>2, <3>3
  <2>2. ASSUME NEW side \in {0, 1}, NEW i \in Lanes(l.half)
        PROVE  HalfStore(l, row, side, i) \in RopeStores(l, row)
    <3>1. RopeRow(l, row, side, i) \in RopeStores(l, row)
      <4>1. <<side, i>> \in {0, 1} \X Lanes(l.half)
        OBVIOUS
      <4>2. QED
        BY <4>1 DEF RopeStores
    <3>2. QED
      BY <1>2, <3>1, RopeRowIsHalfStore
  <2>3. QED
    BY <2>1, <2>2
<1>4. /\ \A r \in RopeOutput(l) : \E row \in rows, side \in {0, 1}, i \in Lanes(l.half) :
             r = HalfOutput(l, row, TensorRow(l, row) % l.s, side, i)
      /\ \A row \in rows, side \in {0, 1}, i \in Lanes(l.half) :
             HalfOutput(l, row, TensorRow(l, row) % l.s, side, i) \in RopeOutput(l)
  BY RopeOutputIsHalves
<1> HIDE DEF rows
<1>5. ASSUME NEW p \in rows, NEW s \in RopeStores(l, p)
      PROVE  \E r \in RopeOutput(l) : s.cell = r.cell /\ SumOf(s.value, r.terms)
  <2>1. PICK side \in {0, 1}, i \in Lanes(l.half) : s = HalfStore(l, p, side, i)
    BY <1>3
  <2> DEFINE t == Turned(l, p, TensorRow(l, p) % l.s, i)
  <2>2. s.cell = HalfCell(l, p, side, i) /\ s.value = {<<<<side>>, t>>}
    BY <2>1 DEF HalfStore, Store
  <2>3. Output(HalfCell(l, p, side, i), {t}) \in RopeOutput(l)
    BY <1>4 DEF HalfOutput
  <2> HIDE DEF t
  <2>4. SumOf({<<<<side>>, t>>}, {t})
    BY OneTerm
  <2>5. QED
    BY <2>2, <2>3, <2>4 DEF Output
<1>6. ASSUME NEW p \in rows, NEW q \in rows, NEW s \in RopeStores(l, p), NEW t \in RopeStores(l, q),
             s.cell = t.cell
      PROVE  s = t
  <2>1. PICK side \in {0, 1}, i \in Lanes(l.half) : s = HalfStore(l, p, side, i)
    BY <1>3
  <2>2. PICK edge \in {0, 1}, j \in Lanes(l.half) : t = HalfStore(l, q, edge, j)
    BY <1>3
  <2>3. HalfCell(l, p, side, i) = HalfCell(l, q, edge, j)
    BY <1>6, <2>1, <2>2 DEF HalfStore, Store
  <2>4. side \in Lanes(2) /\ edge \in Lanes(2)
    BY DEF Lanes
  <2>5. Flat(p, 2, side) \in Nat /\ Flat(q, 2, edge) \in Nat
    BY <1>0, <1>2, <2>4, FlatIsNat
  <2>6. Flat(p, 2, side) = Flat(q, 2, edge) /\ i = j
    BY <1>0, <2>3, <2>5, FlatIsUnique DEF HalfCell
  <2>7. p = q /\ side = edge
    BY <1>0, <1>2, <2>4, <2>6, FlatIsUnique
  <2>8. QED
    BY <2>1, <2>2, <2>6, <2>7
<1>7. ASSUME NEW r \in RopeOutput(l) PROVE \E p \in rows : \E s \in RopeStores(l, p) : s.cell = r.cell
  <2>1. PICK row \in rows, side \in {0, 1}, i \in Lanes(l.half) :
            r = HalfOutput(l, row, TensorRow(l, row) % l.s, side, i)
    BY <1>4
  <2>2. HalfStore(l, row, side, i) \in RopeStores(l, row)
    BY <1>3
  <2>3. QED
    BY <2>1, <2>2 DEF HalfStore, HalfOutput, Store, Output
<1>8. QED
  BY <1>1, <1>5, <1>6, <1>7 DEF Exact

-----------------------------------------------------------------------------
(***************************************************************************)
(* Warps.                                                                  *)
(***************************************************************************)

\* Five steps of a shuffle bring every lane's sum to lane 0, along one way each.
LEMMA LanesOfWarp ==
    /\ \A b \in Bits : LaneOf(b) \in Lanes(32)
    /\ \A b, c \in Bits : LaneOf(b) = LaneOf(c) => b = c
    /\ \A x \in Lanes(32) : \E b \in Bits : LaneOf(b) = x
<1>1. ASSUME NEW b \in Bits
      PROVE  /\ b = <<b[1], b[2], b[3], b[4], b[5]>>
             /\ b[1] \in 0 .. 1 /\ b[2] \in 0 .. 1 /\ b[3] \in 0 .. 1 /\ b[4] \in 0 .. 1 /\ b[5] \in 0 .. 1
  BY DEF Bits
<1>2. ASSUME NEW b \in Bits PROVE LaneOf(b) \in Lanes(32)
  BY <1>1 DEF LaneOf, Lanes
<1>3. ASSUME NEW b \in Bits, NEW c \in Bits, LaneOf(b) = LaneOf(c) PROVE b = c
  <2>1. b[1] = c[1] /\ b[2] = c[2] /\ b[3] = c[3] /\ b[4] = c[4] /\ b[5] = c[5]
    BY <1>1, <1>3 DEF LaneOf
  <2>2. QED
    BY <1>1, <2>1
<1>4. ASSUME NEW x \in Lanes(32) PROVE \E b \in Bits : LaneOf(b) = x
  <2>0. x \in 0 .. 31
    BY DEF Lanes
  <2>1. PICK b1 \in {0, 1} : x - b1 * 16 \in 0 .. 15
    BY <2>0
  <2>2. PICK b2 \in {0, 1} : x - b1 * 16 - b2 * 8 \in 0 .. 7
    BY <2>0, <2>1
  <2>3. PICK b3 \in {0, 1} : x - b1 * 16 - b2 * 8 - b3 * 4 \in 0 .. 3
    BY <2>0, <2>2
  <2>4. PICK b4 \in {0, 1} : x - b1 * 16 - b2 * 8 - b3 * 4 - b4 * 2 \in 0 .. 1
    BY <2>0, <2>3
  <2>5. PICK b5 \in {0, 1} : x = b1 * 16 + b2 * 8 + b3 * 4 + b4 * 2 + b5
    BY <2>0, <2>4
  <2> DEFINE b == <<b1, b2, b3, b4, b5>>
  <2>6. b \in Bits /\ b[1] = b1 /\ b[2] = b2 /\ b[3] = b3 /\ b[4] = b4 /\ b[5] = b5
    BY DEF Bits
  <2> HIDE DEF b
  <2>7. LaneOf(b) = x
    BY <2>5, <2>6 DEF LaneOf
  <2>8. QED
    BY <2>6, <2>7
<1>5. QED
  BY <1>2, <1>3, <1>4

\* A warp meets each column of its row once.
LEMMA WarpSumIsExact ==
    ASSUME NEW l, IsWarp(l), NEW row
    PROVE  SumOf(WarpSum(l, row), WarpTerms(l, row))
<1> DEFINE O == WarpLoop(l)
           f == [o \in O |-> WarpTerm(l, row, WarpPlace(o))]
<1>0. l.k \in Nat /\ 32 \in Size /\ Cdiv(l.k, 32) \in Nat
  <2>1. l.k \in Nat /\ 32 \in Size
    BY DEF IsWarp, Size
  <2>2. QED
    BY <2>1, CdivIsNat
<1>1. ASSUME NEW o \in O
      PROVE  /\ o = <<o[1], o[2]>> /\ o[1] \in Bits /\ o[2] \in Nat /\ LaneOf(o[1]) \in Lanes(32)
             /\ WarpPlace(o) = Flat(o[2], 32, LaneOf(o[1])) /\ WarpPlace(o) \in Lanes(l.k)
  <2>1. o = <<o[1], o[2]>> /\ o[1] \in Bits /\ o[2] \in 0 .. Cdiv(l.k, 32) - 1 /\ WarpPlace(o) < l.k
    BY DEF WarpLoop
  <2>2. o[2] \in Nat /\ LaneOf(o[1]) \in Lanes(32)
    BY <1>0, <2>1, LanesOfWarp
  <2>3. LaneOf(o[1]) \in Nat
    BY <2>2 DEF Lanes
  <2>4. WarpPlace(o) = Flat(o[2], 32, LaneOf(o[1])) /\ WarpPlace(o) \in Nat
    BY <2>2, <2>3 DEF WarpPlace, Flat
  <2>5. QED
    BY <1>0, <2>1, <2>2, <2>4 DEF Lanes
<1>2. ASSUME NEW x \in Lanes(l.k) PROVE \E o \in O : WarpPlace(o) = x
  <2>1. PICK q \in Lanes(Cdiv(l.k, 32)) : \E i \in Own(q, l.k, 32) : Flat(q, 32, i) = x
    BY <1>0, OwnExists
  <2>2. PICK i \in Own(q, l.k, 32) : Flat(q, 32, i) = x
    BY <2>1
  <2>3. i \in Lanes(32) /\ q \in Nat /\ q \in 0 .. Cdiv(l.k, 32) - 1 /\ x < l.k
    BY <1>0 DEF Own, Lanes
  <2>4. PICK b \in Bits : LaneOf(b) = i
    BY <2>3, LanesOfWarp
  <2> DEFINE o == <<b, q>>
  <2>5. o[1] = b /\ o[2] = q /\ o \in Bits \X (0 .. Cdiv(l.k, 32) - 1)
    BY <2>3
  <2> HIDE DEF o
  <2>6. i \in Nat
    BY <2>3 DEF Lanes
  <2>7. WarpPlace(o) = x
    BY <2>2, <2>3, <2>4, <2>5, <2>6 DEF WarpPlace, Flat
  <2>8. QED
    BY <2>3, <2>5, <2>7 DEF WarpLoop
<1>3. ASSUME NEW o \in O, NEW w \in O, f[o] = f[w] PROVE o = w
  <2>1. WarpPlace(o) = WarpPlace(w)
    BY <1>3 DEF WarpTerm
  <2>2. o[2] = w[2] /\ LaneOf(o[1]) = LaneOf(w[1])
    BY <1>0, <1>1, <2>1, FlatIsUnique
  <2>3. o[1] = w[1]
    BY <1>1, <2>2, LanesOfWarp
  <2>4. QED
    BY <1>1, <2>2, <2>3
<1>4. WarpSum(l, row) = {<<o, f[o]>> : o \in O}
  BY DEF WarpSum
<1>5. ASSUME NEW o \in O PROVE f[o] \in WarpTerms(l, row)
  BY <1>1 DEF WarpTerms
<1>6. ASSUME NEW t \in WarpTerms(l, row) PROVE \E o \in O : f[o] = t
  <2>1. PICK x \in Lanes(l.k) : t = WarpTerm(l, row, x)
    BY DEF WarpTerms
  <2>2. PICK o \in O : WarpPlace(o) = x
    BY <1>2
  <2>3. QED
    BY <2>1, <2>2
<1> HIDE DEF f, O
<1>7. WarpTerms(l, row) = {f[o] : o \in O}
  BY <1>5, <1>6
<1>8. QED
  BY <1>3, <1>4, <1>7, SumOverLoop

\* A launch has at least one block, and its rows are counted through all warps.
LEMMA WarpRowAddress ==
    ASSUME NEW l, IsWarp(l)
    PROVE  /\ WarpBlocks(l) \in Size /\ WarpBlocks(l) * l.warps \in Size
           /\ \A p \in Lanes(WarpBlocks(l)) \X Lanes(l.warps), turn \in Nat :
                 /\ Flat(p[1], l.warps, p[2]) \in Lanes(WarpBlocks(l) * l.warps)
                 /\ WarpRow(l, p, turn) = Flat(turn, WarpBlocks(l) * l.warps, Flat(p[1], l.warps, p[2]))
<1>0. l.outputs \in Size /\ l.warps \in Size /\ l.sms \in Nat /\ l.outputs \in Nat /\ l.warps \in Nat \ {0}
  BY DEF IsWarp, Size
<1>1. Cdiv(l.outputs, l.warps) \in Size
  <2>1. Cdiv(l.outputs, l.warps) \in Nat /\ l.outputs <= Cdiv(l.outputs, l.warps) * l.warps
    BY <1>0, CdivCovers
  <2>2. Cdiv(l.outputs, l.warps) # 0
    <3>1. ASSUME Cdiv(l.outputs, l.warps) = 0 PROVE FALSE
      <4>1. 0 * l.warps = 0
        BY <1>0
      <4>2. QED
        BY <1>0, <2>1, <3>1, <4>1 DEF Size
    <3>2. QED
      BY <3>1
  <2>3. QED
    BY <2>1, <2>2 DEF Size
<1>2. WarpBlocks(l) \in Size
  BY <1>0, <1>1 DEF WarpBlocks, Min2, Size
<1> DEFINE b == WarpBlocks(l)
<1> HIDE DEF b
<1>3. b \in Nat /\ b * l.warps \in Size
  <2>1. b \in Nat \ {0}
    BY <1>2 DEF b, Size
  <2>2. b * l.warps \in Nat /\ b * l.warps # 0
    BY <1>0, <2>1
  <2>3. QED
    BY <2>1, <2>2 DEF Size
<1>4. ASSUME NEW p \in Lanes(b) \X Lanes(l.warps), NEW turn \in Nat
      PROVE  /\ Flat(p[1], l.warps, p[2]) \in Lanes(b * l.warps)
             /\ WarpRow(l, p, turn) = Flat(turn, b * l.warps, Flat(p[1], l.warps, p[2]))
  <2>1. p[1] \in Lanes(b) /\ p[2] \in Lanes(l.warps)
    OBVIOUS
  <2>2. Flat(p[1], l.warps, p[2]) \in Lanes(b * l.warps)
    BY <1>0, <1>3, <2>1, FlatIsBelow
  <2>3. p[1] \in Nat /\ p[2] \in Nat /\ p[1] * l.warps \in Nat /\ turn * (b * l.warps) \in Nat
    <3>1. p[1] \in Nat /\ p[2] \in Nat /\ b * l.warps \in Nat
      BY <1>0, <1>3, <2>1 DEF Lanes, Size
    <3>2. QED
      BY <1>0, <3>1
  <2>4. WarpRow(l, p, turn) = Flat(turn, b * l.warps, Flat(p[1], l.warps, p[2]))
    BY <2>3 DEF WarpRow, Flat, b
  <2>5. QED
    BY <2>2, <2>4
<1>5. QED
  BY <1>2, <1>3, <1>4 DEF b

\* Warp projections: each output once, also where a warp strides over several.
LEMMA WarpExact ==
    ASSUME NEW l, IsWarp(l)
    PROVE  Exact(Programs(l), Reference(l))
<1> DEFINE G == Lanes(WarpBlocks(l)) \X Lanes(l.warps)
           N == WarpBlocks(l) * l.warps
<1>0. /\ l.kernel = "warp" /\ l.outputs \in Nat /\ l.warps \in Size /\ l.warps \in Nat
      /\ WarpBlocks(l) \in Size /\ WarpBlocks(l) \in Nat /\ N \in Size
  BY WarpRowAddress DEF IsWarp, Size
<1>1. /\ DOMAIN Programs(l) = G /\ \A p \in G : Programs(l)[p] = WarpStores(l, p)
      /\ Reference(l) = WarpOutput(l)
  BY <1>0 DEF Programs, Grid, Stores, Reference, Lanes
<1>2. ASSUME NEW p \in G, NEW r \in WarpRows(l, p)
      PROVE  r \in Lanes(l.outputs) /\ \E turn \in Nat : r = WarpRow(l, p, turn)
  <2>1. PICK turn \in 0 .. l.outputs : r = WarpRow(l, p, turn) /\ r < l.outputs
    BY DEF WarpRows
  <2>2. turn \in Nat
    BY <1>0
  <2>3. r \in Nat
    <3>1. /\ Flat(p[1], l.warps, p[2]) \in Lanes(N)
          /\ r = Flat(turn, N, Flat(p[1], l.warps, p[2]))
      BY <2>1, <2>2, WarpRowAddress
    <3> HIDE DEF N
    <3>2. QED
      BY <1>0, <2>2, <3>1, FlatIsNat
  <2>4. QED
    BY <1>0, <2>1, <2>2, <2>3 DEF Lanes
<1>3. ASSUME NEW p \in G, NEW q \in G, NEW r \in WarpRows(l, p), r \in WarpRows(l, q) PROVE p = q
  <2>1. PICK t \in Nat : r = WarpRow(l, p, t)
    BY <1>2
  <2>2. PICK u \in Nat : r = WarpRow(l, q, u)
    BY <1>2, <1>3
  <2> DEFINE x == Flat(p[1], l.warps, p[2])
             y == Flat(q[1], l.warps, q[2])
  <2>3. x \in Lanes(N) /\ y \in Lanes(N) /\ Flat(t, N, x) = Flat(u, N, y)
    BY <2>1, <2>2, WarpRowAddress
  <2>4. x = y
    <3> HIDE DEF x, y, N
    <3>1. QED
      BY <1>0, <2>3, FlatIsUnique
  <2>5. /\ p = <<p[1], p[2]>> /\ q = <<q[1], q[2]>> /\ p[1] \in Nat /\ q[1] \in Nat
        /\ p[2] \in Lanes(l.warps) /\ q[2] \in Lanes(l.warps)
    BY <1>0 DEF Lanes
  <2>6. p[1] = q[1] /\ p[2] = q[2]
    BY <1>0, <2>4, <2>5, FlatIsUnique
  <2>7. QED
    BY <2>5, <2>6
<1>4. ASSUME NEW r \in Lanes(l.outputs) PROVE \E p \in G : r \in WarpRows(l, p)
  <2>1. r \in Nat /\ r < l.outputs
    BY <1>0 DEF Lanes
  <2>2. r < l.outputs * N
    <3>1. N \in Nat /\ N >= 1
      BY <1>0 DEF Size
    <3> HIDE DEF N
    <3>2. l.outputs * N >= l.outputs * 1
      BY <1>0, <3>1
    <3>3. l.outputs * 1 = l.outputs /\ l.outputs * N \in Nat
      BY <1>0, <3>1
    <3>4. QED
      BY <1>0, <2>1, <3>2, <3>3
  <2> DEFINE turn == r \div N
             x == r % N
  <2>3. turn \in Nat /\ x \in Lanes(N) /\ Flat(turn, N, x) = r /\ turn \in Lanes(l.outputs)
    BY <1>0, <2>1, <2>2, FlatOfParts
  <2> HIDE DEF turn, x
  <2>4. PICK b \in Lanes(WarpBlocks(l)), w \in Lanes(l.warps) : Flat(b, l.warps, w) = x
    BY <1>0, <2>3, FlatExists
  <2> DEFINE p == <<b, w>>
  <2>5. p \in G /\ p[1] = b /\ p[2] = w
    OBVIOUS
  <2> HIDE DEF p
  <2>6. WarpRow(l, p, turn) = r
    BY <2>3, <2>4, <2>5, WarpRowAddress
  <2>7. turn \in 0 .. l.outputs
    BY <1>0, <2>3 DEF Lanes
  <2>8. r \in WarpRows(l, p)
    BY <2>1, <2>6, <2>7 DEF WarpRows
  <2>9. QED
    BY <2>5, <2>8
<1> HIDE DEF G
<1>5. ASSUME NEW p \in G, NEW s \in WarpStores(l, p)
      PROVE  \E r \in WarpOutput(l) : s.cell = r.cell /\ SumOf(s.value, r.terms)
  <2>1. PICK row \in WarpRows(l, p) : s = Store(<<p[1], p[2], row>>, row, WarpSum(l, row))
    BY DEF WarpStores
  <2>2. Output(row, WarpTerms(l, row)) \in WarpOutput(l)
    BY <1>2 DEF WarpOutput
  <2>3. SumOf(WarpSum(l, row), WarpTerms(l, row))
    BY WarpSumIsExact
  <2>4. QED
    BY <2>1, <2>2, <2>3 DEF Store, Output
<1>6. ASSUME NEW p \in G, NEW q \in G, NEW s \in WarpStores(l, p), NEW t \in WarpStores(l, q), s.cell = t.cell
      PROVE  s = t
  <2>1. PICK row \in WarpRows(l, p) : s = Store(<<p[1], p[2], row>>, row, WarpSum(l, row))
    BY DEF WarpStores
  <2>2. PICK r \in WarpRows(l, q) : t = Store(<<q[1], q[2], r>>, r, WarpSum(l, r))
    BY DEF WarpStores
  <2>3. row = r
    BY <1>6, <2>1, <2>2 DEF Store
  <2>4. p = q
    BY <1>3, <2>3
  <2>5. QED
    BY <2>1, <2>2, <2>3, <2>4
<1>7. ASSUME NEW r \in WarpOutput(l) PROVE \E p \in G : \E s \in WarpStores(l, p) : s.cell = r.cell
  <2>1. PICK x \in Lanes(l.outputs) : r = Output(x, WarpTerms(l, x))
    BY DEF WarpOutput
  <2>2. PICK p \in G : x \in WarpRows(l, p)
    BY <1>4
  <2>3. Store(<<p[1], p[2], x>>, x, WarpSum(l, x)) \in WarpStores(l, p)
    BY <2>2 DEF WarpStores
  <2>4. QED
    BY <2>1, <2>3 DEF Store, Output
<1>8. QED
  BY <1>1, <1>5, <1>6, <1>7 DEF Exact

-----------------------------------------------------------------------------
(***************************************************************************)
(* Split-K: two grids.                                                     *)
(***************************************************************************)

\* The stores of a grid of programs.
StoresOf(l) == UNION {Stores(l, p) : p \in Grid(l)}
\* What the programs of the second grid store.
Merges(l) == [p \in MergeGrid(l) |-> MergeStores(l, p)]

\* A cell of the workspace that only one value was stored to holds it.
LEMMA HeldIs ==
    ASSUME NEW cell, NEW V, \E y \in partials : y.cell = cell,
           \A y \in partials : y.cell = cell => y.value = V
    PROVE  Held(cell) = V
<1> DEFINE W == {x.value : x \in {y \in partials : y.cell = cell}}
<1>1. W = {V}
  OBVIOUS
<1>2. Held(cell) = UNION W
  BY DEF Held
<1>3. QED
  BY <1>1, <1>2

\* What the splits hold of disjoint parts of the terms sums to all of them.
LEMMA GatherIsExact ==
    ASSUME NEW S, NEW cells, NEW V, NEW T, DOMAIN cells = S,
           \A s \in S : Held(cells[s]) = V[s],
           \A s \in S : \A v \in V[s] : v[2] \in T,
           \A s, t \in S : \A u \in V[s], v \in V[t] : u[2] = v[2] => s = t /\ u = v,
           \A x \in T : \E s \in S : \E v \in V[s] : v[2] = x
    PROVE  SumOf(Gather(cells), T)
<1>1. /\ \A g \in Gather(cells) : \E s \in S : \E v \in V[s] : g = <<<<s, v[1]>>, v[2]>>
      /\ \A s \in S : \A v \in V[s] : <<<<s, v[1]>>, v[2]>> \in Gather(cells)
  BY DEF Gather
<1>2. ASSUME NEW g \in Gather(cells), NEW h \in Gather(cells), g[2] = h[2] PROVE g = h
  <2>1. PICK s \in S : \E v \in V[s] : g = <<<<s, v[1]>>, v[2]>>
    BY <1>1
  <2>2. PICK u \in V[s] : g = <<<<s, u[1]>>, u[2]>>
    BY <2>1
  <2>3. PICK t \in S : \E v \in V[t] : h = <<<<t, v[1]>>, v[2]>>
    BY <1>1
  <2>4. PICK v \in V[t] : h = <<<<t, v[1]>>, v[2]>>
    BY <2>3
  <2>5. u[2] = v[2]
    BY <1>2, <2>2, <2>4
  <2>6. s = t /\ u = v
    BY <2>5
  <2>7. QED
    BY <2>2, <2>4, <2>6
<1>3. ASSUME NEW g \in Gather(cells) PROVE g[2] \in T
  <2>1. PICK s \in S : \E v \in V[s] : g = <<<<s, v[1]>>, v[2]>>
    BY <1>1
  <2>2. PICK v \in V[s] : g = <<<<s, v[1]>>, v[2]>>
    BY <2>1
  <2>3. QED
    BY <2>2
<1>4. ASSUME NEW x \in T PROVE \E g \in Gather(cells) : g[2] = x
  <2>1. PICK s \in S : \E v \in V[s] : v[2] = x
    OBVIOUS
  <2>2. PICK v \in V[s] : v[2] = x
    BY <2>1
  <2>3. <<<<s, v[1]>>, v[2]>> \in Gather(cells)
    BY <1>1
  <2>4. QED
    BY <2>2, <2>3
<1>5. {g[2] : g \in Gather(cells)} = T
  BY <1>3, <1>4
<1>6. QED
  BY <1>2, <1>5 DEF SumOf

-----------------------------------------------------------------------------
\* The sizes of a projection in splits, which together cover K.
LEMMA SplitSizes ==
    ASSUME NEW l, IsGemv(l)
    PROVE  /\ l.kernel = "gemv" /\ l.n \in Size /\ l.n \in Nat /\ l.bn \in Size /\ l.block \in Size
           /\ l.k \in Size /\ l.k \in Nat /\ l.bk \in Size /\ l.splits \in Nat
           /\ SplitSize(l) \in Size /\ SplitSize(l) \in Nat /\ l.k <= l.splits * SplitSize(l)
<1>0. /\ l.kernel = "gemv" /\ l.n \in Size /\ l.n \in Nat /\ l.bn \in Size /\ l.block \in Size
      /\ l.k \in Size /\ l.k \in Nat /\ l.bk \in Size /\ l.splits \in Size /\ l.splits \in Nat
  BY DEF IsGemv, Size
<1> DEFINE c == Cdiv(l.k, l.splits)
<1>1. c \in Nat /\ l.k <= c * l.splits
  BY <1>0, CdivCovers DEF Size
<1> HIDE DEF c
<1>2. c # 0
  BY <1>0, <1>1 DEF Size
<1>3. c * l.splits = l.splits * c
  BY <1>0, <1>1
<1>4. QED
  BY <1>0, <1>1, <1>2, <1>3 DEF SplitSize, Size, c

\* A split sums its own columns of K, each once, and the splits all of them.
LEMMA SplitLoopFacts ==
    ASSUME NEW l, IsGemv(l)
    PROVE  /\ \A s \in Lanes(l.splits) : \A o \in SplitLoop(l, s) : SplitPlace(l, s, o) \in Lanes(l.k)
           /\ \A s, t \in Lanes(l.splits) : \A o \in SplitLoop(l, s), w \in SplitLoop(l, t) :
                 SplitPlace(l, s, o) = SplitPlace(l, t, w) => s = t /\ o = w
           /\ \A x \in Lanes(l.k) : \E s \in Lanes(l.splits) : \E o \in SplitLoop(l, s) :
                 SplitPlace(l, s, o) = x
<1> DEFINE z == SplitSize(l)
<1>0. /\ z \in Size /\ z \in Nat /\ l.k \in Nat /\ l.k <= l.splits * z /\ l.splits \in Nat
      /\ l.bk \in Size
  BY SplitSizes
<1>1. ASSUME NEW s \in Lanes(l.splits), NEW o \in SplitLoop(l, s)
      PROVE  /\ o \in Loop(z, l.bk) /\ Place(o, l.bk) \in Lanes(z)
             /\ SplitPlace(l, s, o) = Flat(s, z, Place(o, l.bk))
             /\ SplitPlace(l, s, o) \in Lanes(l.k)
  <2>0. s \in Nat
    BY DEF Lanes
  <2>1. /\ o \in (0 .. Cdiv(z, l.bk) - 1) \X Lanes(l.bk)
        /\ SplitPlace(l, s, o) < Min2((s + 1) * z, l.k)
        /\ SplitPlace(l, s, o) = s * z + Place(o, l.bk)
    BY DEF SplitLoop, SplitPlace
  <2>2. Place(o, l.bk) \in Nat
    <3>1. o[1] \in Nat /\ o[2] \in Lanes(l.bk)
      BY <1>0, <2>1, CdivIsNat
    <3>2. QED
      BY <1>0, <3>1, FlatIsNat DEF Place
  <2>3. (s + 1) * z = s * z + z /\ s * z \in Nat
    BY <1>0, <2>0
  <2> HIDE DEF z
  <2>4. Place(o, l.bk) < z /\ SplitPlace(l, s, o) < l.k /\ SplitPlace(l, s, o) \in Nat
    BY <1>0, <2>1, <2>2, <2>3 DEF Min2
  <2>5. o \in Loop(z, l.bk)
    BY <2>1, <2>4 DEF Loop
  <2>6. Place(o, l.bk) \in Lanes(z)
    BY <1>0, <2>2, <2>4 DEF Lanes
  <2>7. SplitPlace(l, s, o) = Flat(s, z, Place(o, l.bk))
    BY <2>1 DEF Flat
  <2>8. SplitPlace(l, s, o) \in Lanes(l.k)
    BY <1>0, <2>4 DEF Lanes
  <2>9. QED
    BY <2>5, <2>6, <2>7, <2>8
<1> HIDE DEF z
<1>2. ASSUME NEW s \in Lanes(l.splits), NEW t \in Lanes(l.splits),
             NEW o \in SplitLoop(l, s), NEW w \in SplitLoop(l, t),
             SplitPlace(l, s, o) = SplitPlace(l, t, w)
      PROVE  s = t /\ o = w
  <2>1. Flat(s, z, Place(o, l.bk)) = Flat(t, z, Place(w, l.bk))
    BY <1>1, <1>2
  <2>2. /\ Place(o, l.bk) \in Lanes(z) /\ Place(w, l.bk) \in Lanes(z) /\ s \in Nat /\ t \in Nat
        /\ o \in Loop(z, l.bk) /\ w \in Loop(z, l.bk)
    BY <1>1 DEF Lanes
  <2> DEFINE a == Place(o, l.bk)
             b == Place(w, l.bk)
  <2>3. a \in Lanes(z) /\ b \in Lanes(z) /\ Flat(s, z, a) = Flat(t, z, b)
    BY <2>1, <2>2
  <2> HIDE DEF a, b
  <2>4. s = t /\ a = b
    BY <1>0, <2>2, <2>3, FlatIsUnique
  <2>5. Place(o, l.bk) = Place(w, l.bk)
    BY <2>4 DEF a, b
  <2>6. QED
    BY <1>0, <2>2, <2>4, <2>5, LoopIsExact
<1>3. ASSUME NEW x \in Lanes(l.k)
      PROVE  \E s \in Lanes(l.splits) : \E o \in SplitLoop(l, s) : SplitPlace(l, s, o) = x
  <2>0. l.splits * z \in Nat /\ x \in Lanes(l.splits * z) /\ x < l.k /\ x \in Nat
    BY <1>0 DEF Lanes
  <2>1. PICK s \in Lanes(l.splits), i \in Lanes(z) : Flat(s, z, i) = x
    BY <1>0, <2>0, FlatExists
  <2>2. PICK o \in Loop(z, l.bk) : Place(o, l.bk) = i
    BY <1>0, LoopIsExact
  <2>3. SplitPlace(l, s, o) = x
    BY <2>1, <2>2 DEF SplitPlace, Flat, z
  <2>4. x < Min2((s + 1) * z, l.k)
    <3>1. s \in Nat /\ i \in Nat /\ i < z
      BY <1>0 DEF Lanes
    <3>2. (s + 1) * z = s * z + z /\ s * z \in Nat /\ x = s * z + i
      BY <1>0, <2>1, <3>1 DEF Flat
    <3>3. QED
      BY <1>0, <2>0, <3>1, <3>2 DEF Min2
  <2>5. o \in SplitLoop(l, s)
    BY <2>2, <2>3, <2>4 DEF SplitLoop, Loop, z
  <2>6. QED
    BY <2>3, <2>5
<1>4. QED
  BY <1>1, <1>2, <1>3

\* When the first grid has ended, the workspace holds each split's sum.
LEMMA SplitKHeld ==
    ASSUME NEW l, IsGemv(l), TwoGrids(l), partials = StoresOf(l),
           NEW s \in Lanes(l.splits), NEW c \in Lanes(l.n)
    PROVE  Held(Flat(s, l.n, c)) = SplitDot(l, s, c)
<1> DEFINE G == Lanes(Cdiv(l.n, l.bn)) \X Lanes(l.splits)
<1>0. /\ l.kernel = "gemv" /\ l.n \in Size /\ l.n \in Nat /\ l.bn \in Size /\ l.splits \in Nat
      /\ s \in Nat /\ Cdiv(l.n, l.bn) \in Nat
  BY SplitSizes, CdivIsNat DEF Lanes
<1>1. /\ \A y \in partials : \E p \in G : y \in SplitKStores(l, p)
      /\ \A p \in G : \A y \in SplitKStores(l, p) : y \in partials
  <2>1. Grid(l) = G /\ \A p : Stores(l, p) = SplitKStores(l, p)
    BY <1>0 DEF Grid, Stores, Lanes
  <2>2. QED
    BY <2>1 DEF StoresOf
<1>2. \E y \in partials : y.cell = Flat(s, l.n, c)
  <2>1. PICK q \in Lanes(Cdiv(l.n, l.bn)) : \E i \in Own(q, l.n, l.bn) : Flat(q, l.bn, i) = c
    BY <1>0, OwnExists
  <2>2. PICK i \in Own(q, l.n, l.bn) : Flat(q, l.bn, i) = c
    BY <2>1
  <2>3. DEFINE p == <<q, s>>
  <2>4. p \in G /\ p[1] = q /\ p[2] = s
    OBVIOUS
  <2> HIDE DEF p
  <2>5. Store(<<p[1], p[2], i>>, Flat(p[2], l.n, Flat(p[1], l.bn, i)),
              SplitDot(l, p[2], Flat(p[1], l.bn, i))) \in SplitKStores(l, p)
    BY <2>4 DEF SplitKStores
  <2>6. QED
    BY <1>1, <2>2, <2>4, <2>5 DEF Store
<1>3. ASSUME NEW y \in partials, y.cell = Flat(s, l.n, c) PROVE y.value = SplitDot(l, s, c)
  <2>1. PICK p \in G : y \in SplitKStores(l, p)
    BY <1>1
  <2>2. PICK i \in Own(p[1], l.n, l.bn) :
            y = Store(<<p[1], p[2], i>>, Flat(p[2], l.n, Flat(p[1], l.bn, i)),
                      SplitDot(l, p[2], Flat(p[1], l.bn, i)))
    BY <2>1 DEF SplitKStores
  <2>3. p[1] \in Nat /\ p[2] \in Nat
    BY <1>0 DEF Lanes
  <2>4. Flat(p[1], l.bn, i) \in Lanes(l.n)
    BY <1>0, <2>3, OwnFacts
  <2>5. Flat(p[2], l.n, Flat(p[1], l.bn, i)) = Flat(s, l.n, c)
    BY <1>3, <2>2 DEF Store
  <2> DEFINE r == p[2]
             d == Flat(p[1], l.bn, i)
  <2>6. r \in Nat /\ d \in Lanes(l.n) /\ Flat(r, l.n, d) = Flat(s, l.n, c)
    BY <2>3, <2>4, <2>5
  <2> HIDE DEF r, d
  <2>7. r = s /\ d = c
    BY <1>0, <2>6, FlatIsUnique
  <2>8. y.value = SplitDot(l, r, d)
    BY <2>2 DEF Store, r, d
  <2>9. QED
    BY <2>7, <2>8
<1>4. QED
  BY <1>2, <1>3, HeldIs

\* The sums of the splits are together one dot product.
LEMMA SplitDotIsExact ==
    ASSUME NEW l, IsGemv(l), TwoGrids(l), partials = StoresOf(l), NEW c \in Lanes(l.n)
    PROVE  SumOf(Gather([s \in 0 .. l.splits - 1 |-> Flat(s, l.n, c)]), DotTerms(l, 0, c))
<1> DEFINE S == 0 .. l.splits - 1
           cells == [s \in S |-> Flat(s, l.n, c)]
           V == [s \in S |-> SplitDot(l, s, c)]
           T == DotTerms(l, 0, c)
<1>0. l.k \in Size /\ S = Lanes(l.splits) /\ 0 \in Nat
  BY SplitSizes DEF Lanes
<1>1. \A s \in S : Held(cells[s]) = V[s]
  BY <1>0, SplitKHeld
<1>2. DOMAIN cells = S /\ \A s \in S : V[s] = SplitDot(l, s, c)
  OBVIOUS
<1> HIDE DEF cells, V
<1>3. /\ \A s \in S : \A v \in V[s] : \E o \in SplitLoop(l, s) :
            v = <<o, Product(l, 0, c, SplitPlace(l, s, o))>>
      /\ \A s \in S : \A o \in SplitLoop(l, s) :
            <<o, Product(l, 0, c, SplitPlace(l, s, o))>> \in V[s]
  BY <1>2 DEF SplitDot
<1>4. /\ \A t \in T : \E k \in Lanes(l.k) : t = Product(l, 0, c, k)
      /\ \A k \in Lanes(l.k) : Product(l, 0, c, k) \in T
  BY DEF DotTerms
<1> HIDE DEF T
<1>5. ASSUME NEW s \in S, NEW v \in V[s] PROVE v[2] \in T
  <2>1. PICK o \in SplitLoop(l, s) : v = <<o, Product(l, 0, c, SplitPlace(l, s, o))>>
    BY <1>3
  <2>2. SplitPlace(l, s, o) \in Lanes(l.k)
    BY <1>0, SplitLoopFacts
  <2>3. QED
    BY <1>4, <2>1, <2>2
<1>6. ASSUME NEW s \in S, NEW t \in S, NEW u \in V[s], NEW v \in V[t], u[2] = v[2]
      PROVE  s = t /\ u = v
  <2>1. PICK o \in SplitLoop(l, s) : u = <<o, Product(l, 0, c, SplitPlace(l, s, o))>>
    BY <1>3
  <2>2. PICK w \in SplitLoop(l, t) : v = <<w, Product(l, 0, c, SplitPlace(l, t, w))>>
    BY <1>3
  <2>3. SplitPlace(l, s, o) \in Lanes(l.k) /\ SplitPlace(l, t, w) \in Lanes(l.k)
    BY <1>0, SplitLoopFacts
  <2>4. Product(l, 0, c, SplitPlace(l, s, o)) = Product(l, 0, c, SplitPlace(l, t, w))
    BY <1>6, <2>1, <2>2
  <2>5. SplitPlace(l, s, o) = SplitPlace(l, t, w)
    BY <1>0, <2>3, <2>4, ProductsDiffer
  <2>0. \A i, j \in Lanes(l.splits) : \A a \in SplitLoop(l, i), b \in SplitLoop(l, j) :
            SplitPlace(l, i, a) = SplitPlace(l, j, b) => i = j /\ a = b
    BY SplitLoopFacts
  <2>6. s = t /\ o = w
    BY <1>0, <2>0, <2>5
  <2>7. QED
    BY <2>1, <2>2, <2>6
<1>7. ASSUME NEW x \in T PROVE \E s \in S : \E v \in V[s] : v[2] = x
  <2>1. PICK k \in Lanes(l.k) : x = Product(l, 0, c, k)
    BY <1>4
  <2>2. PICK s \in S : \E o \in SplitLoop(l, s) : SplitPlace(l, s, o) = k
    BY <1>0, SplitLoopFacts
  <2>3. PICK o \in SplitLoop(l, s) : SplitPlace(l, s, o) = k
    BY <2>2
  <2>4. <<o, Product(l, 0, c, SplitPlace(l, s, o))>> \in V[s]
    BY <1>3
  <2>5. QED
    BY <2>1, <2>3, <2>4
<1> HIDE DEF S
<1>8. SumOf(Gather(cells), T)
  BY <1>1, <1>2, <1>5, <1>6, <1>7, GatherIsExact
<1>9. QED
  BY <1>8 DEF cells, T, S

\* Split-K: the second grid stores each output once, over all of K.
LEMMA SplitKExact ==
    ASSUME NEW l, IsGemv(l), TwoGrids(l), partials = StoresOf(l)
    PROVE  Exact(Merges(l), Reference(l))
<1>0. l.kernel = "gemv" /\ l.n \in Nat /\ l.block \in Size
  BY SplitSizes
<1> DEFINE sum(c) == Gather([s \in 0 .. l.splits - 1 |-> Flat(s, l.n, c)])
           v == [c \in Lanes(l.n) |-> sum(c)]
           T == [c \in Lanes(l.n) |-> DotTerms(l, 0, c)]
<1>1. \A c \in Lanes(l.n) : v[c] = sum(c) /\ T[c] = DotTerms(l, 0, c)
  OBVIOUS
<1> HIDE DEF v, T
<1>2. LaneSums(l.n, v, T)
  <2>1. ASSUME NEW c \in Lanes(l.n) PROVE SumOf(v[c], T[c])
    <3>1. SumOf(sum(c), DotTerms(l, 0, c))
      BY SplitDotIsExact
    <3>2. v[c] = sum(c) /\ T[c] = DotTerms(l, 0, c)
      BY <1>1
    <3> HIDE DEF sum
    <3>3. QED
      BY <3>1, <3>2
  <2>2. QED
    BY <2>1 DEF LaneSums
<1>3. LaneOutput(Reference(l), l.n, T)
  <2>1. Reference(l) = GemvOutput(l)
    BY <1>0 DEF Reference
  <2>2. QED
    BY <1>1, <2>1 DEF LaneOutput, GemvOutput
<1>4. LaneStores(Merges(l), l.n, l.block, v)
  <2> DEFINE g == 0 .. Cdiv(l.n, l.block) - 1
  <2>1. DOMAIN Merges(l) = g /\ \A p \in g : Merges(l)[p] = MergeStores(l, p)
    BY <1>0 DEF Merges, MergeGrid
  <2>2. ASSUME NEW p \in g
        PROVE  /\ \A s \in MergeStores(l, p) : \E i \in Own(p, l.n, l.block) :
                     s = Store(<<p, i>>, Flat(p, l.block, i), v[Flat(p, l.block, i)])
               /\ \A i \in Own(p, l.n, l.block) :
                     Store(<<p, i>>, Flat(p, l.block, i), v[Flat(p, l.block, i)]) \in MergeStores(l, p)
    <3>1. p \in Nat
      BY <1>0, CdivIsNat
    <3>2. \A i \in Own(p, l.n, l.block) : v[Flat(p, l.block, i)] = sum(Flat(p, l.block, i))
      BY <1>0, <1>1, <3>1, OwnFacts
    <3>3. MergeStores(l, p) = {Store(<<p, i>>, Flat(p, l.block, i), sum(Flat(p, l.block, i))) :
                                  i \in Own(p, l.n, l.block)}
      BY <1>0 DEF MergeStores
    <3> HIDE DEF sum
    <3>4. QED
      BY <3>2, <3>3
  <2>3. QED
    BY <2>1, <2>2 DEF LaneStores
<1>5. QED
  BY <1>0, <1>2, <1>3, <1>4, LanesAreExact

-----------------------------------------------------------------------------
(***************************************************************************)
(* Attention over a split cache.                                           *)
(***************************************************************************)

\* The heads of the cache's readers.
Heads(l) == l.kvheads * l.gqa

\* The sizes of a split cache: as many splits as tiles cover it.
LEMMA SplitKVSizes ==
    ASSUME NEW l, IsSplitKV(l)
    PROVE  /\ l.kernel = "splitkv" /\ l.d \in Size /\ l.s \in Size /\ l.s \in Nat
           /\ l.tile \in Size /\ l.gqa \in Size /\ l.valid \in Nat /\ l.valid <= l.s
           /\ Heads(l) \in Nat /\ KVSplits(l) \in Nat /\ Lanes(l.valid) \subseteq Lanes(l.s)
<1>0. /\ l.kernel = "splitkv" /\ l.d \in Size /\ l.s \in Size /\ l.s \in Nat /\ l.kvheads \in Nat
      /\ l.tile \in Size /\ l.gqa \in Size /\ l.gqa \in Nat /\ l.valid \in Nat /\ l.valid <= l.s
  BY DEF IsSplitKV, Size
<1>1. KVSplits(l) \in Nat
  BY <1>0, CdivIsNat DEF KVSplits
<1>2. Heads(l) \in Nat
  BY <1>0 DEF Heads
<1>3. QED
  BY <1>0, <1>1, <1>2 DEF Lanes

\* The terms of a head at one dimension differ in their position.
LEMMA CacheTermsDiffer ==
    ASSUME NEW l, IsSplitKV(l), NEW head \in Nat, NEW i \in Lanes(l.d),
           NEW t \in Lanes(l.valid), NEW u \in Lanes(l.valid),
           CacheTerm(l, head, t, i) = CacheTerm(l, head, u, i)
    PROVE  t = u
<1> DEFINE h == head \div l.gqa
           a == Flat(h, l.s, t)
           b == Flat(h, l.s, u)
<1>0. l.d \in Size /\ l.s \in Size /\ t \in Lanes(l.s) /\ u \in Lanes(l.s) /\ l.gqa \in Size
  BY SplitKVSizes
<1>1. h \in Nat
  BY <1>0, FlatOfParts
<1> HIDE DEF h
<1>2. a \in Nat /\ b \in Nat
  BY <1>0, <1>1, FlatIsNat
<1>3. Flat(a, l.d, i) = Flat(b, l.d, i)
  BY DEF CacheTerm, h
<1>4. a = b
  <2> HIDE DEF a, b
  <2>1. QED
    BY <1>0, <1>2, <1>3, FlatIsUnique
<1>5. QED
  BY <1>0, <1>1, <1>4, FlatIsUnique

\* When the first grid has ended, the workspace holds each tile's sum.
LEMMA SplitKVHeld ==
    ASSUME NEW l, IsSplitKV(l), partials = StoresOf(l),
           NEW head \in Lanes(Heads(l)), NEW split \in Lanes(KVSplits(l)), NEW i \in Lanes(l.d)
    PROVE  Held(Flat(Flat(head, KVSplits(l), split), l.d, i)) = CacheSum(l, head, split, i)
<1> DEFINE n == KVSplits(l)
           G == Lanes(Heads(l)) \X Lanes(n)
           cell == Flat(Flat(head, n, split), l.d, i)
<1>0. /\ l.kernel = "splitkv" /\ l.d \in Size /\ Heads(l) \in Nat /\ n \in Nat /\ n \in Size
      /\ head \in Nat /\ split \in Nat
  BY SplitKVSizes DEF Lanes, Size
<1>1. /\ \A y \in partials : \E p \in G : y \in SplitKVStores(l, p)
      /\ \A p \in G : \A y \in SplitKVStores(l, p) : y \in partials
  <2>1. Grid(l) = G /\ \A p : Stores(l, p) = SplitKVStores(l, p)
    BY <1>0 DEF Grid, Stores, Lanes, Heads
  <2>2. QED
    BY <2>1 DEF StoresOf
<1>2. \E y \in partials : y.cell = cell
  <2> DEFINE p == <<head, split>>
  <2>1. p \in G /\ p[1] = head /\ p[2] = split
    OBVIOUS
  <2> HIDE DEF p
  <2>2. Store(<<p[1], p[2], i>>, Flat(Flat(p[1], KVSplits(l), p[2]), l.d, i),
              CacheSum(l, p[1], p[2], i)) \in SplitKVStores(l, p)
    BY DEF SplitKVStores
  <2>3. QED
    BY <1>1, <2>1, <2>2 DEF Store
<1>3. ASSUME NEW y \in partials, y.cell = cell PROVE y.value = CacheSum(l, head, split, i)
  <2>1. PICK p \in G : y \in SplitKVStores(l, p)
    BY <1>1
  <2>2. PICK j \in Lanes(l.d) :
            y = Store(<<p[1], p[2], j>>, Flat(Flat(p[1], KVSplits(l), p[2]), l.d, j),
                      CacheSum(l, p[1], p[2], j))
    BY <2>1 DEF SplitKVStores
  <2> DEFINE g == p[1]
             r == p[2]
  <2>3. g \in Nat /\ r \in Nat /\ r \in Lanes(n)
    BY <1>0 DEF Lanes
  <2>4. /\ y.cell = Flat(Flat(g, n, r), l.d, j) /\ y.value = CacheSum(l, g, r, j)
    BY <2>2 DEF Store
  <2> HIDE DEF n, g, r
  <2>5. Flat(g, n, r) \in Nat /\ Flat(head, n, split) \in Nat
    BY <1>0, <2>3, FlatIsNat DEF n
  <2> DEFINE a == Flat(g, n, r)
             b == Flat(head, n, split)
  <2>6. a \in Nat /\ b \in Nat /\ Flat(a, l.d, j) = Flat(b, l.d, i)
    BY <1>3, <2>4, <2>5
  <2>7. a = b /\ j = i
    <3> HIDE DEF a, b
    <3>1. l.d \in Size /\ i \in Lanes(l.d) /\ j \in Lanes(l.d)
      BY <1>0
    <3>2. QED
      BY <2>6, <3>1, FlatIsUnique
  <2>8. split \in Lanes(n)
    BY DEF n
  <2>9. g = head /\ r = split
    BY <1>0, <2>3, <2>7, <2>8, FlatIsUnique
  <2>10. QED
    BY <2>4, <2>7, <2>9
<1>4. QED
  BY <1>2, <1>3, HeldIs

\* The sums of the splits are together that over the valid positions.
LEMMA SplitKVSumIsExact ==
    ASSUME NEW l, IsSplitKV(l), partials = StoresOf(l),
           NEW head \in Lanes(Heads(l)), NEW i \in Lanes(l.d)
    PROVE  SumOf(Gather([s \in 0 .. KVSplits(l) - 1 |-> Flat(Flat(head, KVSplits(l), s), l.d, i)]),
                 CacheTerms(l, head, i))
<1> DEFINE S == 0 .. KVSplits(l) - 1
           cells == [s \in S |-> Flat(Flat(head, KVSplits(l), s), l.d, i)]
           V == [s \in S |-> CacheSum(l, head, s, i)]
           T == CacheTerms(l, head, i)
           term(x) == CacheTerm(l, head, x, i)
<1>0. /\ S = Lanes(KVSplits(l)) /\ l.tile \in Size /\ l.valid \in Nat /\ l.s \in Nat
      /\ head \in Nat /\ S \subseteq Nat
  BY SplitKVSizes DEF Lanes
<1>1. \A s \in S : Held(cells[s]) = V[s]
  BY <1>0, SplitKVHeld
<1>2. DOMAIN cells = S /\ \A s \in S : V[s] = CacheSum(l, head, s, i)
  OBVIOUS
<1> HIDE DEF cells, V
<1>3. /\ \A s \in S : \A v \in V[s] : \E t \in Own(s, l.valid, l.tile) :
            v = <<<<t>>, term(Flat(s, l.tile, t))>>
      /\ \A s \in S : \A t \in Own(s, l.valid, l.tile) : <<<<t>>, term(Flat(s, l.tile, t))>> \in V[s]
  BY <1>2 DEF CacheSum, Own
<1>4. /\ \A x \in T : \E t \in Lanes(l.valid) : x = term(t)
      /\ \A t \in Lanes(l.valid) : term(t) \in T
  BY DEF CacheTerms
<1>5. \A t, u \in Lanes(l.valid) : term(t) = term(u) => t = u
  BY <1>0, CacheTermsDiffer
<1> HIDE DEF T, term
<1>6. ASSUME NEW s \in S, NEW v \in V[s] PROVE v[2] \in T
  <2>1. PICK t \in Own(s, l.valid, l.tile) : v = <<<<t>>, term(Flat(s, l.tile, t))>>
    BY <1>3
  <2>2. Flat(s, l.tile, t) \in Lanes(l.valid)
    BY <1>0, OwnFacts
  <2>3. QED
    BY <1>4, <2>1, <2>2
<1>7. ASSUME NEW s \in S, NEW r \in S, NEW u \in V[s], NEW v \in V[r], u[2] = v[2]
      PROVE  s = r /\ u = v
  <2>1. PICK t \in Own(s, l.valid, l.tile) : u = <<<<t>>, term(Flat(s, l.tile, t))>>
    BY <1>3
  <2>2. PICK w \in Own(r, l.valid, l.tile) : v = <<<<w>>, term(Flat(r, l.tile, w))>>
    BY <1>3
  <2>3. Flat(s, l.tile, t) \in Lanes(l.valid) /\ Flat(r, l.tile, w) \in Lanes(l.valid)
    BY <1>0, OwnFacts
  <2>4. term(Flat(s, l.tile, t)) = term(Flat(r, l.tile, w))
    BY <1>7, <2>1, <2>2
  <2>5. Flat(s, l.tile, t) = Flat(r, l.tile, w)
    BY <1>5, <2>3, <2>4
  <2>6. s = r /\ t = w
    BY <1>0, <2>5, OwnIsUnique
  <2>7. QED
    BY <2>1, <2>2, <2>6
<1>8. ASSUME NEW x \in T PROVE \E s \in S : \E v \in V[s] : v[2] = x
  <2>1. PICK k \in Lanes(l.valid) : x = term(k)
    BY <1>4
  <2>2. k \in Lanes(l.s) /\ k < l.valid
    BY <1>0, SplitKVSizes DEF Lanes
  <2>0. S = Lanes(Cdiv(l.s, l.tile))
    BY <1>0 DEF KVSplits
  <2> HIDE DEF S
  <2>3. PICK s \in S : \E t \in Own(s, l.s, l.tile) : Flat(s, l.tile, t) = k
    BY <1>0, <2>0, <2>2, OwnExists
  <2>4. PICK t \in Own(s, l.s, l.tile) : Flat(s, l.tile, t) = k
    BY <2>3
  <2>5. t \in Own(s, l.valid, l.tile)
    BY <2>2, <2>4 DEF Own
  <2>6. <<<<t>>, term(Flat(s, l.tile, t))>> \in V[s]
    BY <1>3, <2>5
  <2>7. QED
    BY <2>1, <2>4, <2>6
<1> HIDE DEF S
<1>9. SumOf(Gather(cells), T)
  BY <1>1, <1>2, <1>6, <1>7, <1>8, GatherIsExact
<1>10. QED
  BY <1>9 DEF cells, T, S

\* Split attention: the second grid stores each dimension of each head once.
LEMMA SplitKVExact ==
    ASSUME NEW l, IsSplitKV(l), partials = StoresOf(l)
    PROVE  Exact(Merges(l), Reference(l))
<1> DEFINE sum(p, i) ==
               Gather([s \in 0 .. KVSplits(l) - 1 |-> Flat(Flat(p, KVSplits(l), s), l.d, i)])
           H == Lanes(Heads(l))
           D == Lanes(l.d)
<1>0. l.kernel = "splitkv" /\ l.d \in Size /\ Heads(l) \in Nat /\ H \subseteq Nat
  BY SplitKVSizes DEF Lanes
<1>1. /\ DOMAIN Merges(l) = H /\ \A p \in H : Merges(l)[p] = MergeStores(l, p)
      /\ Reference(l) = SplitKVOutput(l)
  BY <1>0 DEF Merges, MergeGrid, Reference, Lanes, Heads
<1>2. \A p \in H, i \in D : SumOf(sum(p, i), CacheTerms(l, p, i))
  BY SplitKVSumIsExact
<1>3. \A p : MergeStores(l, p) = {Store(<<p, i>>, Flat(p, l.d, i), sum(p, i)) : i \in D}
  BY <1>0 DEF MergeStores
<1> HIDE DEF sum
<1>4. /\ \A p \in H : \A s \in MergeStores(l, p) :
            \E i \in D : s = Store(<<p, i>>, Flat(p, l.d, i), sum(p, i))
      /\ \A p \in H, i \in D : Store(<<p, i>>, Flat(p, l.d, i), sum(p, i)) \in MergeStores(l, p)
  BY <1>3
<1>5. /\ \A r \in SplitKVOutput(l) : \E p \in H, i \in D :
            r = Output(Flat(p, l.d, i), CacheTerms(l, p, i))
      /\ \A p \in H, i \in D : Output(Flat(p, l.d, i), CacheTerms(l, p, i)) \in SplitKVOutput(l)
  <2>1. SplitKVOutput(l) = {Output(Flat(o[1], l.d, o[2]), CacheTerms(l, o[1], o[2])) : o \in H \X D}
    BY DEF SplitKVOutput, Heads
  <2>2. ASSUME NEW p \in H, NEW i \in D
        PROVE  Output(Flat(p, l.d, i), CacheTerms(l, p, i)) \in SplitKVOutput(l)
    <3>1. <<p, i>> \in H \X D
      OBVIOUS
    <3>2. QED
      BY <2>1, <3>1
  <2>3. ASSUME NEW r \in SplitKVOutput(l)
        PROVE  \E p \in H, i \in D : r = Output(Flat(p, l.d, i), CacheTerms(l, p, i))
    <3>1. PICK o \in H \X D : r = Output(Flat(o[1], l.d, o[2]), CacheTerms(l, o[1], o[2]))
      BY <2>1
    <3>2. QED
      BY <3>1
  <2>4. QED
    BY <2>2, <2>3
<1> HIDE DEF H, D
<1>6. ASSUME NEW p \in H, NEW s \in MergeStores(l, p)
      PROVE  \E r \in SplitKVOutput(l) : s.cell = r.cell /\ SumOf(s.value, r.terms)
  <2>1. PICK i \in D : s = Store(<<p, i>>, Flat(p, l.d, i), sum(p, i))
    BY <1>4
  <2>2. SumOf(sum(p, i), CacheTerms(l, p, i))
    BY <1>2
  <2>3. QED
    BY <1>5, <2>1, <2>2 DEF Store, Output
<1>7. ASSUME NEW p \in H, NEW q \in H, NEW s \in MergeStores(l, p), NEW t \in MergeStores(l, q),
             s.cell = t.cell
      PROVE  s = t
  <2>1. PICK i \in D : s = Store(<<p, i>>, Flat(p, l.d, i), sum(p, i))
    BY <1>4
  <2>2. PICK j \in D : t = Store(<<q, j>>, Flat(q, l.d, j), sum(q, j))
    BY <1>4
  <2>3. Flat(p, l.d, i) = Flat(q, l.d, j)
    BY <1>7, <2>1, <2>2 DEF Store
  <2>4. p = q /\ i = j
    BY <1>0, <2>3, FlatIsUnique DEF D
  <2>5. QED
    BY <2>1, <2>2, <2>4
<1>8. ASSUME NEW r \in SplitKVOutput(l)
      PROVE  \E p \in H : \E s \in MergeStores(l, p) : s.cell = r.cell
  <2>1. PICK p \in H, i \in D : r = Output(Flat(p, l.d, i), CacheTerms(l, p, i))
    BY <1>5
  <2>2. Store(<<p, i>>, Flat(p, l.d, i), sum(p, i)) \in MergeStores(l, p)
    BY <1>4
  <2>3. QED
    BY <2>1, <2>2 DEF Store, Output
<1>9. QED
  BY <1>1, <1>6, <1>7, <1>8 DEF Exact

-----------------------------------------------------------------------------
(***************************************************************************)
(* A launch.                                                               *)
(***************************************************************************)

\* What the first and the second grid have stored are the stores of the
\* programs that have run, and the second starts from a full workspace.
LaunchInv ==
    /\ launch \in Launches /\ merging \in BOOLEAN
    /\ left \subseteq IF merging THEN MergeGrid(launch) ELSE Grid(launch)
    /\ ~TwoGrids(launch) =>
          /\ ~merging
          /\ stored = UNION {Stores(launch, p) : p \in Grid(launch) \ left}
    /\ TwoGrids(launch) /\ ~merging =>
          /\ partials = UNION {Stores(launch, p) : p \in Grid(launch) \ left}
          /\ stored = {}
    /\ TwoGrids(launch) /\ merging =>
          /\ partials = StoresOf(launch)
          /\ stored = UNION {MergeStores(launch, p) : p \in MergeGrid(launch) \ left}

\* Nothing has run.
LEMMA LaunchInitInv == LaunchInit => LaunchInv
<1> SUFFICES ASSUME LaunchInit PROVE LaunchInv
  OBVIOUS
<1>1. /\ launch \in Launches /\ left = Grid(launch) /\ merging = FALSE
      /\ partials = {} /\ stored = {}
  BY DEF LaunchInit
<1>2. Grid(launch) \ left = {}
  BY <1>1
<1>3. UNION {Stores(launch, p) : p \in Grid(launch) \ left} = {}
  BY <1>2
<1>4. QED
  BY <1>1, <1>3 DEF LaunchInv

\* The stores of the programs that have run, when one more has.
LEMMA OneMoreProgram ==
    ASSUME NEW G, NEW L, L \subseteq G, NEW p \in L, NEW F
    PROVE  UNION {F[q] : q \in G \ (L \ {p})} = (UNION {F[q] : q \in G \ L}) \cup F[p]
OBVIOUS

\* A program of the first grid.
LEMMA RunKeepsInv ==
    ASSUME LaunchInv, NEW p \in left, RunProgram(p) \/ RunPartial(p)
    PROVE  LaunchInv'
<1> DEFINE G == Grid(launch)
           F == [q \in G |-> Stores(launch, q)]
           done(L) == UNION {Stores(launch, q) : q \in G \ L}
<1>0. launch' = launch /\ merging' = merging /\ left' = left \ {p} /\ ~merging /\ left \subseteq G
  BY DEF LaunchInv, RunProgram, RunPartial
<1>1. done(left \ {p}) = done(left) \cup Stores(launch, p)
  <2>1. \A L \in SUBSET G : done(L) = UNION {F[q] : q \in G \ L}
    OBVIOUS
  <2>2. F[p] = Stores(launch, p) /\ left \in SUBSET G /\ left \ {p} \in SUBSET G
    BY <1>0
  <2> HIDE DEF F, G, done
  <2>3. UNION {F[q] : q \in G \ (left \ {p})} = (UNION {F[q] : q \in G \ left}) \cup F[p]
    BY <1>0, OneMoreProgram
  <2>4. QED
    BY <2>1, <2>2, <2>3
<1>2. CASE RunProgram(p)
  <2>1. ~TwoGrids(launch) /\ stored' = stored \cup Stores(launch, p) /\ stored = done(left)
    BY <1>2 DEF RunProgram, LaunchInv
  <2>2. stored' = done(left \ {p})
    BY <1>1, <2>1
  <2>3. QED
    BY <1>0, <2>1, <2>2 DEF LaunchInv
<1>3. CASE RunPartial(p)
  <2>1. /\ TwoGrids(launch) /\ partials' = partials \cup Stores(launch, p) /\ partials = done(left)
        /\ stored = {} /\ stored' = stored
    BY <1>0, <1>3 DEF RunPartial, LaunchInv
  <2>2. partials' = done(left \ {p})
    BY <1>1, <2>1
  <2>3. QED
    BY <1>0, <2>1, <2>2 DEF LaunchInv
<1>4. QED
  BY <1>2, <1>3

\* The second grid is launched.
LEMMA MergeStartsWell ==
    ASSUME LaunchInv, LaunchMerge
    PROVE  LaunchInv'
<1>1. /\ TwoGrids(launch) /\ ~merging /\ left = {} /\ merging' = TRUE /\ left' = MergeGrid(launch)
      /\ launch' = launch /\ partials' = partials /\ stored' = stored
  BY DEF LaunchMerge
<1>2. partials = StoresOf(launch) /\ stored = {}
  <2>1. partials = UNION {Stores(launch, p) : p \in Grid(launch) \ left} /\ stored = {}
    BY <1>1 DEF LaunchInv
  <2>2. Grid(launch) \ left = Grid(launch)
    BY <1>1
  <2>3. QED
    BY <2>1, <2>2 DEF StoresOf
<1>3. UNION {MergeStores(launch, p) : p \in MergeGrid(launch) \ MergeGrid(launch)} = {}
  OBVIOUS
<1>4. UNION {MergeStores(launch, p)' : p \in (MergeGrid(launch) \ left)'} = {}
  BY <1>1
<1>5. (UNION {MergeStores(launch, p) : p \in MergeGrid(launch) \ left})' = {}
  BY <1>1, <1>4
<1>6. StoresOf(launch)' = StoresOf(launch)
  BY <1>1 DEF StoresOf
<1>7. QED
  BY <1>1, <1>2, <1>5, <1>6 DEF LaunchInv

\* A program of the second grid reads a workspace nobody writes any more.
LEMMA MergeKeepsInv ==
    ASSUME LaunchInv, NEW p \in left, RunMerge(p)
    PROVE  LaunchInv'
<1> DEFINE G == MergeGrid(launch)
           F == [q \in G |-> MergeStores(launch, q)]
           done(L) == UNION {MergeStores(launch, q) : q \in G \ L}
<1>0. /\ launch' = launch /\ merging /\ merging' = merging /\ left' = left \ {p} /\ left \subseteq G
      /\ partials' = partials /\ stored' = stored \cup MergeStores(launch, p)
  BY DEF LaunchInv, RunMerge
<1>1. done(left \ {p}) = done(left) \cup MergeStores(launch, p)
  <2>1. \A L \in SUBSET G : done(L) = UNION {F[q] : q \in G \ L}
    OBVIOUS
  <2>2. F[p] = MergeStores(launch, p) /\ left \in SUBSET G /\ left \ {p} \in SUBSET G
    BY <1>0
  <2> HIDE DEF F, G, done
  <2>3. UNION {F[q] : q \in G \ (left \ {p})} = (UNION {F[q] : q \in G \ left}) \cup F[p]
    BY <1>0, OneMoreProgram
  <2>4. QED
    BY <2>1, <2>2, <2>3
<1>2. TwoGrids(launch) /\ partials = StoresOf(launch) /\ stored = done(left)
  BY <1>0 DEF LaunchInv
<1>3. \A q : MergeStores(launch, q)' = MergeStores(launch, q)
  BY <1>0 DEF MergeStores, Gather, Held
<1>4. (UNION {MergeStores(launch, q) : q \in MergeGrid(launch) \ left})' = done(left \ {p})
  BY <1>0, <1>3
<1>5. stored' = done(left \ {p})
  BY <1>0, <1>1, <1>2
<1>6. StoresOf(launch)' = StoresOf(launch)
  BY <1>0 DEF StoresOf
<1>7. QED
  BY <1>0, <1>2, <1>4, <1>5, <1>6 DEF LaunchInv

\* A step that changes nothing.
LEMMA LaunchStutters == LaunchInv /\ UNCHANGED launchVars => LaunchInv'
<1> SUFFICES ASSUME LaunchInv, UNCHANGED launchVars PROVE LaunchInv'
  OBVIOUS
<1>1. launch' = launch /\ left' = left /\ partials' = partials /\ merging' = merging /\ stored' = stored
  BY DEF launchVars
<1>2. \A q : MergeStores(launch, q)' = MergeStores(launch, q)
  BY <1>1 DEF MergeStores, Gather, Held
<1>3. (UNION {MergeStores(launch, q) : q \in MergeGrid(launch) \ left})'
        = UNION {MergeStores(launch, q) : q \in MergeGrid(launch) \ left}
  BY <1>1, <1>2
<1>4. StoresOf(launch)' = StoresOf(launch)
  BY <1>1 DEF StoresOf
<1>5. QED
  BY <1>1, <1>3, <1>4 DEF LaunchInv

-----------------------------------------------------------------------------
\* A launch of one grid is exact whatever it computes.
LEMMA OneGridIsExact ==
    ASSUME NEW l \in Launches, ~TwoGrids(l)
    PROVE  Exact(Programs(l), Reference(l))
<1>1. IsLaunch(l)
  BY LaunchesAssumption
<1>2. ~IsSplitKV(l)
  BY DEF IsSplitKV, TwoGrids
<1>3. QED
  BY <1>1, <1>2, ElementwiseExact, RowwiseExact, TiledExact, GemvExact, Int4Exact, AttentionExact,
     RopeExact, WarpExact DEF IsLaunch

\* One of two grids is, once the first has ended.
LEMMA SecondGridIsExact ==
    ASSUME NEW l \in Launches, TwoGrids(l), partials = StoresOf(l)
    PROVE  Exact(Merges(l), Reference(l))
<1>1. IsLaunch(l)
  BY LaunchesAssumption
<1>2. l.kernel \in {"gemv", "splitkv"}
  BY DEF TwoGrids
<1>3. IsGemv(l) \/ IsSplitKV(l)
  BY <1>1, <1>2 DEF IsLaunch, IsElementwise, IsRowwise, IsTiled, IsInt4, IsAttention, IsRope, IsWarp
<1>4. QED
  BY <1>3, SplitKExact, SplitKVExact

\* What has been stored of an output while the programs of L have yet to run.
Right(st, R, L) ==
    /\ \A s \in st : \E r \in R : s.cell = r.cell /\ SumOf(s.value, r.terms)
    /\ \A s, t \in st : s.cell = t.cell => s = t
    /\ L = {} => \A r \in R : \E s \in st : s.cell = r.cell

\* Any of the stores of such a grid are sound, and all of them complete.
LEMMA StoresAreExact ==
    ASSUME NEW F, NEW R, Exact(F, R), NEW L, NEW st,
           st = UNION {F[p] : p \in DOMAIN F \ L}
    PROVE  Right(st, R, L)
<1>1. \A s \in st : \E p \in DOMAIN F : s \in F[p]
  OBVIOUS
<1>2. ASSUME NEW s \in st PROVE \E r \in R : s.cell = r.cell /\ SumOf(s.value, r.terms)
  BY <1>1 DEF Exact
<1>3. ASSUME NEW s \in st, NEW t \in st, s.cell = t.cell PROVE s = t
  BY <1>1, <1>3 DEF Exact
<1>4. ASSUME L = {}, NEW r \in R PROVE \E s \in st : s.cell = r.cell
  <2>1. PICK p \in DOMAIN F : \E s \in F[p] : s.cell = r.cell
    BY DEF Exact
  <2>2. PICK s \in F[p] : s.cell = r.cell
    BY <2>1
  <2>3. s \in st
    BY <1>4
  <2>4. QED
    BY <2>2, <2>3
<1>5. QED
  BY <1>2, <1>3, <1>4 DEF Right

\* The invariant says the output is right.
LEMMA InvIsExact == LaunchInv => LaunchIsExact
<1> SUFFICES ASSUME LaunchInv PROVE LaunchIsExact
  OBVIOUS
<1> DEFINE R == Reference(launch)
<1>0. launch \in Launches
  BY DEF LaunchInv
<1>1. CASE ~TwoGrids(launch)
  <2> DEFINE F == Programs(launch)
  <2>1. Exact(F, R)
    BY <1>0, <1>1, OneGridIsExact
  <2>2. DOMAIN F = Grid(launch) /\ \A p \in Grid(launch) : F[p] = Stores(launch, p)
    BY DEF Programs
  <2>3. stored = UNION {Stores(launch, p) : p \in Grid(launch) \ left}
    BY <1>1 DEF LaunchInv
  <2> HIDE DEF F, R
  <2>4. stored = UNION {F[p] : p \in DOMAIN F \ left}
    BY <2>2, <2>3
  <2>5. Right(stored, R, left)
    BY <2>1, <2>4, StoresAreExact
  <2>6. QED
    BY <2>5 DEF LaunchIsExact, Finished, R, Right
<1>2. CASE TwoGrids(launch) /\ merging
  <2> DEFINE F == Merges(launch)
  <2>1. partials = StoresOf(launch)
    BY <1>2 DEF LaunchInv
  <2>2. Exact(F, R)
    BY <1>0, <1>2, <2>1, SecondGridIsExact
  <2>3. DOMAIN F = MergeGrid(launch) /\ \A p \in MergeGrid(launch) : F[p] = MergeStores(launch, p)
    BY DEF Merges
  <2>4. stored = UNION {MergeStores(launch, p) : p \in MergeGrid(launch) \ left}
    BY <1>2 DEF LaunchInv
  <2> HIDE DEF F, R
  <2>5. stored = UNION {F[p] : p \in DOMAIN F \ left}
    BY <2>3, <2>4
  <2>6. Right(stored, R, left)
    BY <2>2, <2>5, StoresAreExact
  <2>7. QED
    BY <2>6 DEF LaunchIsExact, Finished, R, Right
<1>3. CASE TwoGrids(launch) /\ ~merging
  <2>1. stored = {} /\ ~Finished
    BY <1>3 DEF LaunchInv, Finished
  <2>2. QED
    BY <2>1 DEF LaunchIsExact
<1>4. QED
  BY <1>1, <1>2, <1>3

\* Whatever the order of the programs, LaunchInv holds.
THEOREM LaunchInvariant == LaunchSpec => []LaunchInv
<1>1. LaunchInv /\ [LaunchNext]_launchVars => LaunchInv'
  <2> SUFFICES ASSUME LaunchInv, [LaunchNext]_launchVars PROVE LaunchInv'
    OBVIOUS
  <2>1. CASE LaunchMerge
    BY <2>1, MergeStartsWell
  <2>2. CASE \E p \in left : RunProgram(p) \/ RunPartial(p) \/ RunMerge(p)
    <3>1. PICK p \in left : RunProgram(p) \/ RunPartial(p) \/ RunMerge(p)
      BY <2>2
    <3>2. QED
      BY <3>1, RunKeepsInv, MergeKeepsInv
  <2>3. CASE UNCHANGED launchVars
    BY <2>3, LaunchStutters
  <2>4. QED
    BY <2>1, <2>2, <2>3 DEF LaunchNext
<1>2. QED
  BY <1>1, LaunchInitInv, PTL DEF LaunchSpec

\* Every launch the launchers accept, of any size, in whatever order its
\* programs run: each cell of the output is stored once, and with the terms
\* PyTorch would sum, each added once.
THEOREM LaunchesAreExact == LaunchSpec => []LaunchIsExact
<1>1. QED
  BY LaunchInvariant, InvIsExact, PTL
=============================================================================
