----------------------------- MODULE Qwen_proofs -----------------------------
(***************************************************************************)
(* Proofs about the serving engine with the executor of this repository,   *)
(* whose coroutines never suspend: planned work is committed or fails for  *)
(* a reason, and pages and dense caches hold what their request computed.  *)
(***************************************************************************)
EXTENDS QwenExecutor, Engine_proofs

-----------------------------------------------------------------------------
\* The inductive invariant.

\* Requests whose works of the running phase are executed but not committed.
Written ==
    CASE pc = "commit_decode" -> RowsFrom(plan.decode, row)
      [] pc = "commit_prefill" -> RowsFrom(plan.prefill, row)
      [] pc = "sample" -> RowsFrom(plan.prefill, row + 1)
      [] OTHER -> {}

\* The tokens of a request that its committed work has put into the pool.
Committed(r) == len[r] - inflight[r].count

\* Works that are planned and neither committed nor failed: during a step of an
\* executor that does not suspend, nothing can happen to their requests.
DecodeLeft(i) ==
    \/ Planning
    \/ pc \in {"decode", "decoding"}
    \/ pc = "commit_decode" /\ row <= i

PrefillLeft(i) ==
    \/ Planning
    \/ pc \in {"decode", "decoding", "commit_decode", "prefill", "prefilling"}
    \/ pc = "commit_prefill" /\ row <= i
    \/ pc = "sample" /\ row < i

DecodeStands(w) ==
    /\ state[w.id] = "DECODE"
    /\ inflight[w.id] = [kind |-> "decode", count |-> 1]
    /\ len[w.id] = w.pos + 1
    /\ w.slot = Slot(table[w.id], w.pos)

PrefillStands(w) ==
    /\ state[w.id] = "PREFILL"
    /\ inflight[w.id] = [kind |-> "prefill", count |-> w.count]
    /\ w.start = cursor[w.id]
    /\ w.slots = Slots(table[w.id], w.start, w.count)

WorksStand ==
    /\ \A i \in DOMAIN plan.decode : DecodeLeft(i) => DecodeStands(plan.decode[i])
    /\ \A i \in DOMAIN plan.prefill : PrefillLeft(i) => PrefillStands(plan.prefill[i])
    /\ pc = "sample" => SampleCommits(plan.prefill[row].id)
    /\ pc = "failing" => PlannedIds \subseteq blamed

\* What the pages, the dense caches and the cache's keys hold of one request.
HoldsInv(r) ==
    /\ Unfinished(r) => OwnPrefix(r, Committed(r))
    /\ r \in Written => OwnPrefix(r, len[r])
    /\ state[r] = "PREFILL" /\ r \notin Written /\ ~(pc = "failing" /\ r \in PlannedIds) =>
          dense[r] = OwnTokens(r, 0, Committed(r))
    /\ state[r] = "PREFILL" /\ r \in Written => dense[r] = OwnTokens(r, 0, len[r])
    /\ r \in cache => \/ Unfinished(r) /\ ngen[r] <= 1
                      \/ state[r] = "TIMED_OUT" /\ ~Ended(events[r])
    /\ r \in cache /\ r \in Written => state[r] = "PREFILL"
    /\ dense[r] # <<>> => r \in cache

HoldsAll == \A r \in Requests : HoldsInv(r)

-----------------------------------------------------------------------------
\* Works that are planned stand until their turn comes.

\* A step that leaves a request alone.
Untouched(r) ==
    /\ state'[r] = state[r] /\ inflight'[r] = inflight[r] /\ cursor'[r] = cursor[r]
    /\ len'[r] = len[r] /\ table'[r] = table[r]

\* A work whose request is untouched still stands.
LEMMA StandFrame ==
    ASSUME NEW w, Untouched(w.id)
    PROVE  /\ DecodeStands(w) => DecodeStands(w)'
           /\ PrefillStands(w) => PrefillStands(w)'
BY DEF Untouched, DecodeStands, PrefillStands, Slot, Slots

\* The works of an unchanged plan, when the left ones are left alone.
LEMMA StandsKept ==
    ASSUME WorksStand, plan'.decode = plan.decode, plan'.prefill = plan.prefill,
           \A i \in DOMAIN plan.decode :
              DecodeLeft(i)' => DecodeLeft(i) /\ Untouched(plan.decode[i].id),
           \A i \in DOMAIN plan.prefill :
              PrefillLeft(i)' => PrefillLeft(i) /\ Untouched(plan.prefill[i].id),
           pc' = "sample" => SampleCommits(plan.prefill[row].id)',
           pc' = "failing" => (PlannedIds \subseteq blamed)'
    PROVE  WorksStand'
<1>1. ASSUME NEW i \in DOMAIN plan'.decode, DecodeLeft(i)' PROVE DecodeStands(plan.decode[i])'
  <2>1. PICK w : w = plan.decode[i]
    OBVIOUS
  <2>2. DecodeStands(w) /\ Untouched(w.id)
    BY <1>1, <2>1 DEF WorksStand
  <2>3. DecodeStands(w)'
    BY <2>2, StandFrame
  <2>4. w = plan'.decode[i]
    BY <2>1
  <2>5. QED
    BY <2>3, <2>4
<1>2. ASSUME NEW i \in DOMAIN plan'.prefill, PrefillLeft(i)' PROVE PrefillStands(plan.prefill[i])'
  <2>1. PICK w : w = plan.prefill[i]
    OBVIOUS
  <2>2. PrefillStands(w) /\ Untouched(w.id)
    BY <1>2, <2>1 DEF WorksStand
  <2>3. PrefillStands(w)'
    BY <2>2, StandFrame
  <2>4. w = plan'.prefill[i]
    BY <2>1
  <2>5. QED
    BY <2>3, <2>4
<1>3. QED
  BY <1>1, <1>2 DEF WorksStand

\* Where nothing is executed, nothing is left.
LEMMA PausesStand ==
    ASSUME EngineInv, WorksStand,
           \/ \E r \in Requests, s \in Shapes : ClientSubmit(r, s)
           \/ \E r \in Requests : ClientCancel(r) \/ ClockAdvances(r) \/ FailOne(r)
           \/ \E r \in Requests : StepExpire(r) \/ StepPlanExpire(r)
           \/ Close \/ Wake \/ LoopTop \/ StepExpired \/ StepPlanBegin
           \/ CommitPrefillEnd \/ FailingEnd
    PROVE  WorksStand'
<1>0. PhaseInv
  BY DEF EngineInv
<1>1. ~Planning'
  BY <1>0, NeverSuspends
     DEF Planning, PhaseInv, Yields, ClientSubmit, Submit, ClientCancel, Cancel, ClockAdvances,
         DeadlinePasses, FailOne, Fail, StepExpire, StepPlanExpire, ExpireOne, Close, Wake,
         LoopTop, ExpireBegin, StepExpired, ExpireEnd, StepPlanBegin, PlanBegin,
         CommitPrefillEnd, FailingEnd, schedVars, planVars
<1>2. /\ pc' \in {"sleep", "stopped", "top", "expire", "plan", "failing", "crashed"}
      /\ pc' = "failing" => pc = "failing" /\ UNCHANGED <<plan, blamed>>
  BY NeverSuspends
     DEF Yields, ClientSubmit, ClientCancel, ClockAdvances, engineVars, FailOne, Fail,
         StepExpire, StepPlanExpire, Close, Wake, LoopTop, StepExpired, StepPlanBegin,
         CommitPrefillEnd, FailingEnd, planVars
<1>3. pc' = "failing" => PlannedIds' = PlannedIds
  BY <1>2 DEF PlannedIds
<1>4. QED
  BY <1>1, <1>2, <1>3 DEF WorksStand, DecodeLeft, PrefillLeft

\* plan() plans what stands.
LEMMA PlanningStands ==
    ASSUME EngineInv, WorksStand, StepPlan
    PROVE  WorksStand'
<1>0. SchedInv /\ PlansInv /\ PlanInv /\ KVInv /\ PhaseInv /\ pc = "plan"
  BY DEF EngineInv, SchedInv, StepPlan
<1>1. /\ state \in [Requests -> States]
      /\ inflight \in [Requests -> [kind : {"none", "prefill", "decode"}, count : Nat]]
      /\ plan.decode \in Seq(DecodeWorks) /\ plan.prefill \in Seq(PrefillWorks)
  BY <1>0 DEF SchedInv, ControlTypeOK, PlanInv
<1>2. CASE PlanSort
  <2>1. plan'.decode = <<>> /\ plan'.prefill = <<>> /\ pc' = "plan"
    BY <1>2 DEF StepPlan, PlanSort, NoPlan
  <2>2. QED
    BY <2>1 DEF WorksStand
<1>3. CASE PlanDecodeEnd \/ PlanEnd
  <2>1. /\ plan'.decode = plan.decode /\ plan'.prefill = plan.prefill
        /\ UNCHANGED <<kvVars, requestVars, queueVars>> /\ Planning
        /\ pc' \in {"plan", "sleep", "decode"}
    BY <1>0, <1>3, PlanEndKeepsWorks DEF StepPlan, PlanDecodeEnd, PlanEnd, Planning
  <2>2. \A r : Untouched(r)
    BY <2>1 DEF kvVars, requestVars, queueVars, Untouched
  <2>3. QED
    BY <2>1, <2>2, StandsKept DEF DecodeLeft, PrefillLeft
<1>4. CASE PlanDecode
  <2>1. PICK w \in DecodeWorks :
            /\ phase = "plan_decode" /\ phase' = phase
            /\ state[w.id] = "DECODE" /\ Idle(w.id)
            /\ w.pos = len[w.id] /\ w.slot = Slot(table'[w.id], len[w.id])
            /\ plan.prefill = <<>>
            /\ plan'.decode = Append(plan.decode, w)
            /\ plan'.prefill = plan.prefill
            /\ inflight' = [inflight EXCEPT ![w.id] = [kind |-> "decode", count |-> 1]]
            /\ Reserve(w.id, 1)
            /\ UNCHANGED requestVars
    BY <1>0, <1>4, PlanDecodeEffect
  <2>2. w.id \in Requests /\ Planning /\ w.id \notin PlannedIds /\ pc' = "plan"
    BY <1>0, <2>1 DEF DecodeWorks, Planning, PlansInv, StepPlan
  <2>3. /\ len'[w.id] = len[w.id] + 1
        /\ \A r \in Requests : r # w.id => len'[r] = len[r] /\ table'[r] = table[r]
    BY <1>0, <2>1, <2>2, ReserveFrame
  <2>4. DecodeStands(w)'
    <3>1. state'[w.id] = "DECODE"
      BY <2>1 DEF requestVars
    <3>2. inflight'[w.id] = [kind |-> "decode", count |-> 1]
      BY <1>1, <2>1, <2>2
    <3>3. len'[w.id] = w.pos + 1 /\ w.slot = Slot(table'[w.id], w.pos)
      BY <2>1, <2>3
    <3>4. QED
      BY <3>1, <3>2, <3>3 DEF DecodeStands, Slot
  <2>5. ASSUME NEW r \in Requests, r # w.id PROVE Untouched(r)
    <3>1. inflight'[r] = inflight[r]
      BY <1>1, <2>1, <2>5
    <3>2. QED
      BY <2>1, <2>3, <2>5, <3>1 DEF Untouched, requestVars
  <2>6. ASSUME NEW i \in DOMAIN plan'.decode PROVE DecodeStands(plan.decode[i])'
    <3>1. PICK v : v = plan'.decode[i]
      OBVIOUS
    <3>2. CASE v = w
      BY <2>4, <3>1, <3>2
    <3>3. CASE i \in DOMAIN plan.decode /\ v = plan.decode[i]
      <4>1. v.id \in Requests /\ v.id # w.id
        BY <1>0, <2>2, <3>3, WorksNameRequests DEF PlannedIds
      <4>2. DecodeStands(v)
        BY <2>2, <3>3 DEF WorksStand, DecodeLeft
      <4>3. DecodeStands(v)'
        BY <2>5, <4>1, <4>2, StandFrame
      <4>4. QED
        BY <3>1, <4>3
    <3>4. QED
      BY <1>1, <2>1, <3>1, <3>2, <3>3, AppendWork
  <2>7. DOMAIN plan'.prefill = {}
    BY <2>1
  <2>8. QED
    BY <2>2, <2>6, <2>7 DEF WorksStand
<1>5. CASE PlanPrefill
  <2>0. /\ phase = "plan_prefill" /\ phase' = phase /\ UNCHANGED requestVars
        /\ pc' = "plan" /\ Planning
    BY <1>0, <1>5, PlanPrefillEffect DEF StepPlan, Planning
  <2>1. CASE UNCHANGED <<kvVars, inflight, plan>>
    <3>1. \A r : Untouched(r)
      BY <2>0, <2>1 DEF kvVars, requestVars, Untouched
    <3>2. QED
      BY <2>0, <2>1, <3>1, StandsKept DEF DecodeLeft, PrefillLeft
  <2>2. ASSUME NEW w \in PrefillWorks,
               /\ state[w.id] = "PREFILL" /\ Idle(w.id)
               /\ w.start = cursor[w.id]
               /\ w.slots = Slots(table'[w.id], len[w.id], w.count)
               /\ plan'.decode = plan.decode
               /\ plan'.prefill = Append(plan.prefill, w)
               /\ inflight' = [inflight EXCEPT ![w.id] = [kind |-> "prefill", count |-> w.count]]
               /\ Reserve(w.id, w.count)
        PROVE  WorksStand'
    <3>1. w.id \in Requests /\ w.count \in Nat /\ w.id \notin PlannedIds
      BY <1>0, <2>0, <2>2 DEF PrefillWorks, PlansInv
    <3>2. \A r \in Requests : r # w.id => len'[r] = len[r] /\ table'[r] = table[r]
      BY <1>0, <2>2, <3>1, ReserveFrame
    <3>3. PrefillStands(w)'
      <4>1. state'[w.id] = "PREFILL" /\ w.start = cursor'[w.id]
        BY <2>0, <2>2 DEF requestVars
      <4>2. inflight'[w.id] = [kind |-> "prefill", count |-> w.count]
        BY <1>1, <2>2, <3>1
      <4>3. len[w.id] = w.start
        <5>1. len[w.id] = cursor[w.id] + inflight[w.id].count /\ inflight[w.id].count = 0
          BY <1>0, <2>2, <3>1 DEF SchedInv, RequestInv, Idle, NoWork
        <5>2. cursor[w.id] \in Nat
          BY <1>0, <3>1 DEF SchedInv, ControlTypeOK
        <5>3. QED
          BY <2>2, <5>1, <5>2
      <4>4. w.slots = Slots(table'[w.id], w.start, w.count)
        BY <2>2, <4>3
      <4>5. QED
        BY <4>1, <4>2, <4>4 DEF PrefillStands, Slots, Slot
    <3>4. ASSUME NEW r \in Requests, r # w.id PROVE Untouched(r)
      <4>1. inflight'[r] = inflight[r]
        BY <1>1, <2>2, <3>4
      <4>2. QED
        BY <2>0, <3>2, <3>4, <4>1 DEF Untouched, requestVars
    <3>5. ASSUME NEW i \in DOMAIN plan'.decode PROVE DecodeStands(plan.decode[i])'
      <4>1. PICK v : v = plan'.decode[i]
        OBVIOUS
      <4>2. i \in DOMAIN plan.decode /\ v = plan.decode[i]
        BY <2>2, <4>1
      <4>3. v.id \in Requests /\ v.id # w.id
        BY <1>0, <3>1, <4>2, WorksNameRequests DEF PlannedIds
      <4>4. DecodeStands(v)
        BY <2>0, <4>2 DEF WorksStand, DecodeLeft
      <4>5. DecodeStands(v)'
        BY <3>4, <4>3, <4>4, StandFrame
      <4>6. QED
        BY <4>1, <4>5
    <3>6. ASSUME NEW i \in DOMAIN plan'.prefill PROVE PrefillStands(plan.prefill[i])'
      <4>1. PICK v : v = plan'.prefill[i]
        OBVIOUS
      <4>2. CASE v = w
        BY <3>3, <4>1, <4>2
      <4>3. CASE i \in DOMAIN plan.prefill /\ v = plan.prefill[i]
        <5>1. v.id \in Requests /\ v.id # w.id
          BY <1>0, <3>1, <4>3, WorksNameRequests DEF PlannedIds
        <5>2. PrefillStands(v)
          BY <2>0, <4>3 DEF WorksStand, PrefillLeft
        <5>3. PrefillStands(v)'
          BY <3>4, <5>1, <5>2, StandFrame
        <5>4. QED
          BY <4>1, <5>3
      <4>4. QED
        BY <1>1, <2>2, <4>1, <4>2, <4>3, AppendWork
    <3>7. QED
      BY <2>0, <3>5, <3>6 DEF WorksStand
  <2>3. QED
    BY <1>0, <1>5, <2>1, <2>2, PlanPrefillEffect
<1>6. QED
  BY <1>2, <1>3, <1>4, <1>5 DEF StepPlan, PlanStep

\* Executor calls start, return or raise.
LEMMA CallsStand ==
    ASSUME EngineInv, HandoverInv, WorksStand,
           \/ StartDecode \/ DecodeReturns \/ DecodeRaises \/ CommitDecodeEnd
           \/ StartPrefill \/ PrefillReturns \/ PrefillRaises \/ SampleRaises
    PROVE  WorksStand'
<1>0. SchedInv /\ PhaseInv /\ UNCHANGED schedVars /\ plan' = plan
  BY DEF EngineInv, StartDecode, DecodeReturns, DecodeRaises, CommitDecodeEnd, StartPrefill,
         PrefillReturns, PrefillRaises, SampleRaises, ExecutionRaises, schedVars, planVars
<1>1. \A r : Untouched(r)
  BY <1>0 DEF schedVars, kvVars, requestVars, queueVars, Untouched
<1>2. ~Planning /\ ~Planning' /\ PlannedIds' = PlannedIds
  <2>1. pc # "plan"
    BY DEF StartDecode, DecodeReturns, DecodeRaises, CommitDecodeEnd, StartPrefill,
           PrefillReturns, PrefillRaises, SampleRaises
  <2>2. pc # "plan" => ~Planning
    BY <1>0 DEF PhaseInv, Planning
  <2>3. phase' = phase
    BY <1>0 DEF schedVars, planVars
  <2>4. QED
    BY <1>0, <2>1, <2>2, <2>3 DEF Planning, PlannedIds
<1>3. pc' = "failing" => PlannedIds \subseteq blamed'
  <2>1. ~StartDecode \/ pc' # "failing"
    <3>1. StartDecode => GraphHolds
      BY DEF HandoverInv, StartDecode
    <3>2. StartDecode => MetadataAccepts(DecodeIds, TableWidth)
      BY <1>0, <3>1, WidthHolds
    <3>3. QED
      BY <3>2 DEF StartDecode
  <2>2. QED
    BY <2>1 DEF DecodeReturns, DecodeRaises, CommitDecodeEnd, StartPrefill, PrefillReturns,
                PrefillRaises, SampleRaises, ExecutionRaises
<1>4. pc' # "sample"
  BY DEF StartDecode, DecodeReturns, DecodeRaises, CommitDecodeEnd, StartPrefill,
         PrefillReturns, PrefillRaises, SampleRaises, ExecutionRaises
<1>5. ASSUME NEW i \in DOMAIN plan.decode, DecodeLeft(i)' PROVE DecodeLeft(i)
  BY <1>2, <1>5
     DEF DecodeLeft, StartDecode, DecodeReturns, DecodeRaises, CommitDecodeEnd, StartPrefill,
         PrefillReturns, PrefillRaises, SampleRaises, ExecutionRaises
<1>6. ASSUME NEW i \in DOMAIN plan.prefill, PrefillLeft(i)' PROVE PrefillLeft(i)
  BY <1>2, <1>6
     DEF PrefillLeft, StartDecode, DecodeReturns, DecodeRaises, CommitDecodeEnd, StartPrefill,
         PrefillReturns, PrefillRaises, SampleRaises, ExecutionRaises
<1>7. QED
  BY <1>0, <1>1, <1>2, <1>3, <1>4, <1>5, <1>6, StandsKept

\* What committing a token does to the requests.
LEMMA AppendTokenFrame ==
    ASSUME SchedInv, NEW r \in Requests, NEW stopped \in BOOLEAN, AppendToken(r, stopped)
    PROVE  /\ plan' = plan /\ phase' = phase
           /\ ngen'[r] = ngen[r] + 1
           /\ inflight'[r] = NoWork
           /\ \/ state'[r] = "FINISHED"
              \/ state'[r] = state[r] /\ UNCHANGED <<table, len>>
           /\ \A q \in Requests : q # r => Untouched(q) /\ ngen'[q] = ngen[q]
<1>0. /\ state \in [Requests -> States] /\ ngen \in [Requests -> Nat]
      /\ inflight \in [Requests -> [kind : {"none", "prefill", "decode"}, count : Nat]]
      /\ KVInv
  BY DEF SchedInv, ControlTypeOK
<1>1. /\ plan' = plan /\ phase' = phase /\ cursor' = cursor
      /\ ngen' = [ngen EXCEPT ![r] = @ + 1]
  BY DEF AppendToken, planVars
<1>2. /\ ngen'[r] = ngen[r] + 1
      /\ \A q \in Requests : q # r => ngen'[q] = ngen[q]
  BY <1>0, <1>1
<1>3. CASE stopped \/ ngen[r] + 1 >= shape[r].max
  <2>1. state' = [state EXCEPT ![r] = "FINISHED"] /\ Cleanup(r)
    BY <1>3 DEF AppendToken
  <2>2. len' = [len EXCEPT ![r] = 0] /\ inflight' = [inflight EXCEPT ![r] = NoWork]
    BY <2>1, CleanupEffect
  <2>3. \A q \in Requests : q # r => table'[q] = table[q]
    BY <1>0, <2>1 DEF Cleanup, Release, KVInv, KVTypeOK, kvVars
  <2>4. \A q \in Requests : q # r => len'[q] = len[q]
    BY <1>0, <2>2 DEF KVInv, KVTypeOK
  <2>5. /\ state'[r] = "FINISHED" /\ inflight'[r] = NoWork
        /\ \A q \in Requests : q # r => state'[q] = state[q] /\ inflight'[q] = inflight[q]
    BY <1>0, <2>1, <2>2
  <2>6. QED
    BY <1>1, <1>2, <2>3, <2>4, <2>5 DEF Untouched
<1>4. CASE ~(stopped \/ ngen[r] + 1 >= shape[r].max)
  <2>1. UNCHANGED <<kvVars, state>> /\ inflight' = [inflight EXCEPT ![r] = NoWork]
    BY <1>4 DEF AppendToken
  <2>2. QED
    BY <1>0, <1>1, <1>2, <2>1 DEF Untouched, kvVars
<1>5. QED
  BY <1>3, <1>4

\* Decoded rows are committed one by one.
LEMMA DecodeCommitStands ==
    ASSUME EngineInv, WorksStand, CommitDecode
    PROVE  /\ WorksStand'
           /\ row \in DOMAIN plan.decode
           /\ row' = row + 1 /\ pc' = pc /\ plan' = plan
           /\ \E stopped \in BOOLEAN :
                 /\ AppendToken(plan.decode[row].id, stopped)
                 /\ RecordToken(plan.decode[row].id, stopped)
<1>0. /\ SchedInv /\ PhaseInv /\ WorksDistinct /\ row \in Nat /\ row > 0 /\ pc = "commit_decode"
      /\ \A i \in DOMAIN plan.decode : plan.decode[i].id \in Requests
      /\ \A i \in DOMAIN plan.prefill : plan.prefill[i].id \in Requests
      /\ DOMAIN plan.decode = 1 .. Len(plan.decode)
      /\ row <= Len(plan.decode)
  <2>1. PlanInv /\ plan.decode \in Seq(DecodeWorks)
    BY DEF EngineInv, SchedInv, PlanInv
  <2>2. QED
    BY <2>1, WorksNameRequests
       DEF EngineInv, SchedInv, PlansInv, EngineTypeOK, CommitInv, CommitDecode
<1>1. row \in DOMAIN plan.decode
  BY <1>0
<1>2. PICK r \in Requests : r = plan.decode[row].id
  BY <1>0, <1>1
<1>3. DecodeCommits(r)
  <2>1. DecodeLeft(row)
    BY <1>0 DEF DecodeLeft
  <2>2. QED
    BY <1>1, <1>2, <2>1 DEF WorksStand, DecodeStands, DecodeCommits
<1>4. PICK stopped \in BOOLEAN : AppendToken(r, stopped) /\ RecordToken(r, stopped)
  BY <1>2, <1>3 DEF CommitDecode, CompleteDecode
<1>5. row' = row + 1 /\ pc' = pc
  BY <1>2, <1>3 DEF CommitDecode
<1>6. /\ plan' = plan /\ phase' = phase
      /\ \A q \in Requests : q # r => Untouched(q)
  BY <1>0, <1>4, AppendTokenFrame
<1>7. ~Planning /\ ~Planning'
  BY <1>0, <1>6 DEF PhaseInv, Planning
<1>8. ASSUME NEW i \in DOMAIN plan.decode, DecodeLeft(i)'
      PROVE  DecodeLeft(i) /\ Untouched(plan.decode[i].id)
  <2>1. row + 1 <= i
    BY <1>0, <1>5, <1>7, <1>8 DEF DecodeLeft
  <2>2. row <= i /\ i # row
    BY <1>0, <2>1
  <2>3. plan.decode[i].id # r
    BY <1>0, <1>1, <1>2, <2>2 DEF WorksDistinct
  <2>4. QED
    BY <1>0, <1>6, <2>2, <2>3 DEF DecodeLeft
<1>9. ASSUME NEW i \in DOMAIN plan.prefill, PrefillLeft(i)'
      PROVE  PrefillLeft(i) /\ Untouched(plan.prefill[i].id)
  <2>1. plan.prefill[i].id # r
    BY <1>0, <1>1, <1>2 DEF WorksDistinct
  <2>2. QED
    BY <1>0, <1>6, <2>1 DEF PrefillLeft
<1>10. WorksStand'
  BY <1>0, <1>5, <1>6, <1>8, <1>9, StandsKept
<1>11. QED
  BY <1>1, <1>2, <1>4, <1>5, <1>6, <1>10
\* What a prefill row finds when its turn comes.
LEMMA PrefillRow ==
    ASSUME EngineInv, (pc = "commit_prefill" /\ row <= Len(plan.prefill)) \/ pc = "sample"
    PROVE  /\ SchedInv /\ PhaseInv /\ WorksDistinct /\ row \in DOMAIN plan.prefill
           /\ row \in Nat /\ phase = "idle"
           /\ plan.prefill[row] \in PrefillWorks
           /\ \A i \in DOMAIN plan.prefill : plan.prefill[i].id \in Requests /\ i \in Nat
<1>1. PlanInv /\ plan.prefill \in Seq(PrefillWorks)
  BY DEF EngineInv, SchedInv, PlanInv
<1>2. SchedInv /\ PhaseInv /\ WorksDistinct /\ row \in Nat /\ phase = "idle"
  BY DEF EngineInv, PlansInv, EngineTypeOK, PhaseInv
<1>3. DOMAIN plan.prefill = 1 .. Len(plan.prefill)
  BY <1>1
<1>4. row \in DOMAIN plan.prefill
  BY <1>2, <1>3 DEF EngineInv, CommitInv
<1>5. QED
  BY <1>1, <1>2, <1>3, <1>4, WorksNameRequests

\* Prefilled rows are committed one by one.
LEMMA PrefillCommitStands ==
    ASSUME EngineInv, WorksStand, CommitPrefill
    PROVE  /\ WorksStand'
           /\ CompletePrefill(plan.prefill[row].id, plan.prefill[row].count)
           /\ \/ state'[plan.prefill[row].id] = "DECODE" /\ pc' = "sample" /\ row' = row
              \/ state'[plan.prefill[row].id] # "DECODE" /\ pc' = pc /\ row' = row + 1
<1>0. /\ SchedInv /\ PhaseInv /\ WorksDistinct /\ row \in DOMAIN plan.prefill
      /\ row \in Nat /\ phase = "idle" /\ pc = "commit_prefill"
      /\ \A i \in DOMAIN plan.prefill : plan.prefill[i].id \in Requests /\ i \in Nat
      /\ plan.prefill[row] \in PrefillWorks
  BY PrefillRow DEF CommitPrefill
<1>1. PICK w \in PrefillWorks : w = plan.prefill[row]
  BY <1>0
<1>2. w.id \in Requests /\ w.count \in Nat
  BY DEF PrefillWorks
<1>3. PrefillStands(w)
  BY <1>0, <1>1 DEF WorksStand, PrefillLeft
<1>4. PrefillCommits(w.id, w.count)
  <2>1. /\ state[w.id] = "PREFILL"
        /\ inflight[w.id] = [kind |-> "prefill", count |-> w.count]
    BY <1>3 DEF PrefillStands
  <2>2. inflight[w.id].count = w.count /\ ~Idle(w.id)
    BY <2>1 DEF Idle, NoWork
  <2>3. /\ len[w.id] = cursor[w.id] + w.count /\ len[w.id] <= shape[w.id].prompt
        /\ w.count > 0
    BY <1>0, <1>2, <2>1, <2>2 DEF SchedInv, RequestInv
  <2>4. shape[w.id].prompt \in Nat /\ cursor[w.id] \in Nat
    BY <1>0, <1>2, <2>1, ShapeTypes DEF SchedInv, ControlTypeOK, Unfinished, Active
  <2>5. w.count \in 1 .. RemainingPrompt(w.id)
    BY <1>2, <2>3, <2>4 DEF RemainingPrompt
  <2>6. QED
    BY <2>1, <2>5 DEF PrefillCommits
<1>5. /\ CompletePrefill(w.id, w.count)
      /\ \/ state'[w.id] = "DECODE" /\ pc' = "sample" /\ row' = row
         \/ state'[w.id] # "DECODE" /\ pc' = pc /\ row' = row + 1
  BY <1>1, <1>4 DEF CommitPrefill
<1>6. /\ plan' = plan /\ phase' = phase /\ ngen' = ngen /\ UNCHANGED kvVars
      /\ inflight' = [inflight EXCEPT ![w.id] = NoWork]
      /\ cursor' = [cursor EXCEPT ![w.id] = @ + w.count]
      /\ state' = state \/ state' = [state EXCEPT ![w.id] = "DECODE"]
  BY <1>5 DEF CompletePrefill, planVars
<1>7. \A q \in Requests : q # w.id => Untouched(q)
  <2>1. /\ state \in [Requests -> States] /\ cursor \in [Requests -> Nat]
        /\ inflight \in [Requests -> [kind : {"none", "prefill", "decode"}, count : Nat]]
    BY <1>0 DEF SchedInv, ControlTypeOK
  <2>2. QED
    BY <1>6, <2>1 DEF Untouched, kvVars
<1>8. ~Planning /\ ~Planning'
  BY <1>0, <1>6 DEF Planning
<1>9. pc' = "sample" => SampleCommits(w.id)'
  <2>1. /\ inflight \in [Requests -> [kind : {"none", "prefill", "decode"}, count : Nat]]
        /\ ngen[w.id] = 0
    BY <1>0, <1>2, <1>3 DEF SchedInv, ControlTypeOK, RequestInv, PrefillStands
  <2>2. inflight'[w.id] = NoWork /\ ngen'[w.id] = 0
    BY <1>2, <1>6, <2>1
  <2>3. QED
    BY <1>0, <1>5, <2>2 DEF SampleCommits, Idle
<1>10. ASSUME NEW i \in DOMAIN plan.decode, DecodeLeft(i)'
      PROVE  DecodeLeft(i) /\ Untouched(plan.decode[i].id)
  BY <1>0, <1>5, <1>8, <1>10 DEF DecodeLeft
<1>11. ASSUME NEW i \in DOMAIN plan.prefill, PrefillLeft(i)'
      PROVE  PrefillLeft(i) /\ Untouched(plan.prefill[i].id)
  <2>1. row < i
    <3>1. i \in Nat
      BY <1>0
    <3>2. row' = row + 1 /\ pc' = "commit_prefill" => row + 1 <= i
      BY <1>8, <1>11 DEF PrefillLeft
    <3>3. row' = row /\ pc' = "sample" => row < i
      BY <1>8, <1>11 DEF PrefillLeft
    <3>4. QED
      BY <1>0, <1>5, <3>1, <3>2, <3>3
  <2>2. row <= i /\ i # row
    BY <1>0, <2>1
  <2>3. plan.prefill[i].id # w.id
    BY <1>0, <1>1, <2>2 DEF WorksDistinct
  <2>4. QED
    BY <1>0, <1>7, <2>2, <2>3 DEF PrefillLeft
<1>12. pc' = "sample" => SampleCommits(plan.prefill[row].id)'
  <2>1. pc' = "sample" => w = plan'.prefill[row']
    BY <1>0, <1>1, <1>5, <1>6
  <2>2. QED
    BY <1>9, <2>1 DEF SampleCommits, Idle
<1>13. pc' # "failing"
  BY <1>0, <1>5
<1>14. WorksStand'
  BY <1>6, <1>10, <1>11, <1>12, <1>13, StandsKept
<1>15. QED
  BY <1>1, <1>5, <1>14

\* The last chunk's row gets its first token.
LEMMA SampleStands ==
    ASSUME EngineInv, WorksStand, SampleFirst
    PROVE  /\ WorksStand'
           /\ SampleCommits(plan.prefill[row].id)
           /\ pc' = "commit_prefill" /\ row' = row + 1
           /\ \E stopped \in BOOLEAN :
                 /\ AppendToken(plan.prefill[row].id, stopped)
                 /\ RecordToken(plan.prefill[row].id, stopped)
<1>0. /\ SchedInv /\ PhaseInv /\ WorksDistinct /\ row \in DOMAIN plan.prefill
      /\ row \in Nat /\ phase = "idle" /\ pc = "sample"
      /\ \A i \in DOMAIN plan.prefill : plan.prefill[i].id \in Requests /\ i \in Nat
  BY PrefillRow DEF SampleFirst
<1>1. PICK r \in Requests : r = plan.prefill[row].id
  BY <1>0
<1>2. SampleCommits(r)
  BY <1>0, <1>1 DEF WorksStand
<1>3. PICK stopped \in BOOLEAN : AppendToken(r, stopped) /\ RecordToken(r, stopped)
  BY <1>1, <1>2 DEF SampleFirst, CompletePrefillSample
<1>4. pc' = "commit_prefill" /\ row' = row + 1
  BY <1>1, <1>2 DEF SampleFirst
<1>5. /\ plan' = plan /\ phase' = phase
      /\ \A q \in Requests : q # r => Untouched(q)
  BY <1>0, <1>3, AppendTokenFrame
<1>6. ~Planning /\ ~Planning'
  BY <1>0, <1>5 DEF Planning
<1>7. ASSUME NEW i \in DOMAIN plan.decode, DecodeLeft(i)'
      PROVE  DecodeLeft(i) /\ Untouched(plan.decode[i].id)
  BY <1>4, <1>6, <1>7 DEF DecodeLeft
<1>8. ASSUME NEW i \in DOMAIN plan.prefill, PrefillLeft(i)'
      PROVE  PrefillLeft(i) /\ Untouched(plan.prefill[i].id)
  <2>1. row + 1 <= i /\ i \in Nat
    BY <1>0, <1>4, <1>6, <1>8 DEF PrefillLeft
  <2>2. row < i /\ i # row
    BY <1>0, <2>1
  <2>3. plan.prefill[i].id # r
    BY <1>0, <1>1, <2>2 DEF WorksDistinct
  <2>4. QED
    BY <1>0, <1>5, <2>2, <2>3 DEF PrefillLeft
<1>9. WorksStand'
  BY <1>4, <1>5, <1>7, <1>8, StandsKept
<1>10. QED
  BY <1>1, <1>2, <1>3, <1>4, <1>9

\* Every step keeps the planned works standing.
LEMMA WorksNextStand == EngineInv /\ HandoverInv /\ WorksStand /\ [Next]_vars => WorksStand'
<1> SUFFICES ASSUME EngineInv, HandoverInv, WorksStand, [Next]_vars
             PROVE  WorksStand'
  OBVIOUS
<1>1. CASE UNCHANGED vars
  BY SMTT(30), <1>1 DEF vars, engineVars, schedVars, kvVars, requestVars, queueVars, planVars,
              WorksStand, DecodeLeft, PrefillLeft, DecodeStands, PrefillStands, SampleCommits,
              PlannedIds, Planning, Idle, Slot, Slots
<1>2. CASE Next
  <2>1. CASE \/ StartDecode \/ DecodeReturns \/ DecodeRaises \/ CommitDecodeEnd
             \/ StartPrefill \/ PrefillReturns \/ PrefillRaises \/ SampleRaises
    BY <2>1, CallsStand
  <2>2. CASE CommitDecode \/ CommitPrefill \/ SampleFirst \/ StepPlan
    BY <2>2, DecodeCommitStands, PrefillCommitStands, SampleStands, PlanningStands
  <2>3. QED
    BY <1>2, <2>1, <2>2, PausesStand DEF Next, LoopStep, ClientStep
<1>3. QED
  BY <1>1, <1>2

\* The planned works stand in every reachable state.
LEMMA WorksInvariant == Spec => []WorksStand
<1>1. Init => WorksStand
  BY DEF Init, SchedInit, NoPlan, WorksStand
<1>2. QED
  BY <1>1, WorksNextStand, EngineInvariant, HandoverInvariant, PTL DEF Spec

-----------------------------------------------------------------------------
\* Failures.

\* A request fails only when an executor call or a sampler of its own step
\* raised, or a request of its plan has no sampler: the planning and committing
\* around it never fail anybody.
THEOREM FailuresHaveCauses == Spec => []FailureHasACause
<1>1. Init => FailureHasACause
  BY DEF Init, SchedInit, FailureHasACause
<1>2. ASSUME EngineInv, WorksStand, FailureHasACause, [Next]_vars
      PROVE  FailureHasACause'
  <2>1. blamed \subseteq blamed'
    BY <1>2
       DEF Next, LoopStep, ClientStep, vars, engineVars, ClientSubmit, ClientCancel,
           ClockAdvances, Close, Wake, LoopTop, StepExpire, StepExpired, StepPlanBegin,
           StepPlanExpire, StepPlan, StartDecode, DecodeReturns, DecodeRaises, CommitDecode,
           CommitDecodeEnd, SampleRaises, ExecutionRaises, StartPrefill, PrefillReturns,
           PrefillRaises, CommitPrefill, SampleFirst, CommitPrefillEnd, FailOne, FailingEnd
  <2>2. ASSUME NEW r \in Requests, state'[r] = "FAILED", state[r] # "FAILED"
        PROVE  r \in blamed'
    <3>0. SchedInv /\ state \in [Requests -> States]
      BY <1>2 DEF EngineInv, SchedInv, ControlTypeOK
    <3>1. ASSUME NEW q \in Requests, NEW s \in Shapes, ClientSubmit(q, s) PROVE FALSE
      BY <2>2, <3>0, <3>1 DEF ClientSubmit, Submit
    <3>2. ASSUME NEW q \in Requests, ClientCancel(q) \/ StepExpire(q) \/ StepPlanExpire(q)
          PROVE  FALSE
      BY <2>2, <3>0, <3>2
         DEF ClientCancel, Cancel, StepExpire, StepPlanExpire, ExpireOne, Terminate
    <3>3. CASE \/ Close \/ Wake \/ LoopTop \/ StepExpired \/ StepPlanBegin \/ StartDecode
               \/ DecodeReturns \/ DecodeRaises \/ CommitDecodeEnd \/ SampleRaises
               \/ StartPrefill \/ PrefillReturns \/ PrefillRaises \/ CommitPrefillEnd
               \/ FailingEnd \/ UNCHANGED vars
               \/ \E q \in Requests : ClockAdvances(q)
      BY <2>2, <3>3
         DEF Close, Wake, LoopTop, ExpireBegin, StepExpired, ExpireEnd, StepPlanBegin,
             PlanBegin, StartDecode, DecodeReturns, DecodeRaises, CommitDecodeEnd, SampleRaises,
             StartPrefill, PrefillReturns, PrefillRaises, CommitPrefillEnd, FailingEnd,
             ExecutionRaises, ClockAdvances, DeadlinePasses, schedVars, requestVars, vars
    <3>4. CASE StepPlan
      BY <2>2, <3>4 DEF StepPlan, PlanStep, PlanSort, PlanDecode, PlanDecodeEnd, PlanPrefill,
                        PlanEnd, PlanRaises, requestVars
    <3>5. CASE CommitDecode
      <4>1. PICK q \in Requests : q = plan.decode[row].id
        BY <1>2, <3>0, <3>5, WorksNameRequests, DecodeCommitStands DEF SchedInv
      <4>2. PICK stopped \in BOOLEAN : AppendToken(q, stopped)
        BY <1>2, <3>5, <4>1, DecodeCommitStands
      <4>3. QED
        BY <2>2, <3>0, <4>1, <4>2 DEF AppendToken
    <3>6. CASE SampleFirst
      <4>1. PICK q \in Requests : q = plan.prefill[row].id
        BY <1>2, <3>6, PrefillRow DEF SampleFirst
      <4>2. PICK stopped \in BOOLEAN : AppendToken(q, stopped)
        BY <1>2, <3>6, <4>1, SampleStands
      <4>3. QED
        BY <2>2, <3>0, <4>1, <4>2 DEF AppendToken
    <3>7. CASE CommitPrefill
      <4>1. PICK w : w = plan.prefill[row]
        OBVIOUS
      <4>2. w.id \in Requests
        BY <1>2, <3>7, <4>1, PrefillRow DEF CommitPrefill
      <4>3. CompletePrefill(w.id, w.count)
        BY <1>2, <3>7, <4>1, PrefillCommitStands
      <4>4. QED
        BY <2>2, <3>0, <4>2, <4>3 DEF CompletePrefill
    <3>8. ASSUME NEW q \in Requests, FailOne(q) PROVE r \in blamed'
      <4>1. q = r
        BY <2>2, <3>0, <3>8 DEF FailOne, Fail, Terminate
      <4>2. r \in PlannedIds /\ pc = "failing"
        BY <3>8, <4>1 DEF FailOne, FailTargets
      <4>3. QED
        BY <1>2, <2>1, <4>2 DEF WorksStand
    <3>9. QED
      BY <1>2, <3>1, <3>2, <3>3, <3>4, <3>5, <3>6, <3>7, <3>8 DEF Next, LoopStep, ClientStep
  <2>3. QED
    BY <1>2, <2>1, <2>2 DEF FailureHasACause
<1>3. QED
  BY <1>1, <1>2, EngineInvariant, WorksInvariant, PTL DEF Spec

-----------------------------------------------------------------------------
\* Steps that execute nothing leave what is held alone.

\* Planned work that is about to fail.
Doomed(r) == pc = "failing" /\ r \in PlannedIds

\* Dropping the dense caches of ended requests keeps the others.
LEMMA PoppedKeeps ==
    ASSUME NEW r \in Requests, dense[r] # <<>> => r \in cache, dense' = Popped(dense)
    PROVE  /\ dense'[r] # <<>> => r \in cache'
           /\ (r \in cache => r \in cache') => dense'[r] = dense[r]
BY DEF Popped

\* A request that is left alone keeps its cells.
LEMMA HoldsFrame ==
    ASSUME NEW r \in Requests, HoldsInv(r), OffDevice, Untouched(r), ngen'[r] = ngen[r],
           events'[r] = events[r], r \in cache' <=> r \in cache,
           r \in Written' => r \in Written,
           r \in Written => r \in Written' \/ Doomed(r)',
           Doomed(r) /\ state[r] = "PREFILL" => Doomed(r)'
    PROVE  HoldsInv(r)'
<1>1. dense'[r] = dense[r] /\ cells' = cells
  BY PoppedKeeps DEF HoldsInv, OffDevice
<1>2. \A n : OwnPrefix(r, n) => OwnPrefix(r, n)'
  BY <1>1 DEF OwnPrefix, Slot, Untouched
<1>3. Committed(r)' = Committed(r) /\ len'[r] = len[r]
  BY DEF Committed, Untouched
<1>4. /\ Unfinished(r)' => OwnPrefix(r, Committed(r))'
      /\ r \in Written' => OwnPrefix(r, len[r])'
  BY <1>2, <1>3 DEF HoldsInv, Untouched, Unfinished, OwnPrefix
<1>5. QED
  BY <1>1, <1>3, <1>4 DEF HoldsInv, Untouched, Unfinished, Doomed, OwnTokens

\* What is executed was planned.
LEMMA WrittenIsPlanned == Written \subseteq PlannedIds
BY DEF Written, RowsFrom, PlannedIds

\* Outside the commits no row is written and still to be committed.
LEMMA NothingWritten ==
    pc \notin {"commit_decode", "commit_prefill", "sample"} => Written = {}
BY DEF Written

\* Steps that change no request.
LEMMA PausesHold ==
    ASSUME EngineInv, HoldsAll, OffDevice,
           \/ Close \/ Wake \/ LoopTop \/ StepExpired \/ StepPlanBegin \/ StartDecode
           \/ CommitDecodeEnd \/ SampleRaises \/ StartPrefill \/ CommitPrefillEnd \/ FailingEnd
           \/ pc = "plan" /\ pc' \notin {"commit_decode", "commit_prefill", "sample", "failing"}
              /\ UNCHANGED <<kvVars, requestVars, inflight, events, cache>>
           \/ \E r \in Requests : ClockAdvances(r)
    PROVE  HoldsAll'
<1>0. /\ UNCHANGED <<kvVars, requestVars, inflight, events, cache>>
      /\ UNCHANGED plan \/ pc = "plan"
  BY DEF Close, Wake, LoopTop, ExpireBegin, StepExpired, ExpireEnd, StepPlanBegin, PlanBegin,
         StartDecode, CommitDecodeEnd, SampleRaises, ExecutionRaises, StartPrefill,
         CommitPrefillEnd, FailingEnd, ClockAdvances, DeadlinePasses, schedVars, planVars,
         queueVars, engineVars
<1>2. \/ pc' \notin {"commit_decode", "commit_prefill", "sample"}
      \/ pc' = pc /\ row' = row /\ plan' = plan
  BY DEF Close, Wake, LoopTop, StepExpired, StepPlanBegin, StartDecode, CommitDecodeEnd,
         SampleRaises, ExecutionRaises, StartPrefill, CommitPrefillEnd, FailingEnd,
         ClockAdvances, schedVars, planVars, engineVars
<1>3. \A r \in Requests : r \in Written' => r \in Written
  <2>1. CASE pc' \notin {"commit_decode", "commit_prefill", "sample"}
    BY <2>1 DEF Written
  <2>2. CASE pc' = pc /\ row' = row /\ plan' = plan
    BY <2>2 DEF Written, RowsFrom
  <2>3. QED
    BY <1>2, <2>1, <2>2
<1>4. ASSUME NEW r \in Requests, r \in Written PROVE r \in Written' \/ Doomed(r)'
  <2>1. pc \in {"commit_decode", "commit_prefill", "sample"} /\ plan' = plan /\ r \in PlannedIds
    BY <1>0, <1>4, WrittenIsPlanned DEF Written
  <2>2. CASE pc' = pc /\ row' = row
    BY <1>4, <2>1, <2>2 DEF Written, RowsFrom
  <2>3. CASE pc' = "failing"
    BY <2>1, <2>3 DEF Doomed, PlannedIds
  <2>4. CASE CommitDecodeEnd
    <3>1. plan.decode \in Seq(DecodeWorks) /\ row \in Nat
      BY DEF EngineInv, SchedInv, PlanInv, EngineTypeOK
    <3>2. RowsFrom(plan.decode, row) = {}
      BY <2>4, <3>1 DEF CommitDecodeEnd, RowsFrom
    <3>3. QED
      BY <1>4, <2>4, <3>2 DEF CommitDecodeEnd, Written
  <2>5. CASE CommitPrefillEnd
    <3>1. plan.prefill \in Seq(PrefillWorks) /\ row \in Nat
      BY DEF EngineInv, SchedInv, PlanInv, EngineTypeOK
    <3>2. RowsFrom(plan.prefill, row) = {}
      BY <2>5, <3>1 DEF CommitPrefillEnd, RowsFrom
    <3>3. QED
      BY <1>4, <2>5, <3>2 DEF CommitPrefillEnd, Written
  <2>6. QED
    BY <2>1, <2>2, <2>3, <2>4, <2>5
       DEF Close, Wake, LoopTop, StepExpired, StepPlanBegin, StartDecode, SampleRaises,
           ExecutionRaises, StartPrefill, FailingEnd, ClockAdvances, engineVars
<1>5. ASSUME NEW r \in Requests, Doomed(r), state[r] = "PREFILL" PROVE Doomed(r)'
  <2>1. pc = "failing" /\ r \in PlannedIds /\ plan' = plan
    BY <1>0, <1>5 DEF Doomed
  <2>2. ~FailingEnd
    BY <1>5, <2>1 DEF FailingEnd, FailTargets, Unfinished, Active
  <2>3. pc' = "failing"
    BY <2>1, <2>2
       DEF Close, Wake, LoopTop, StepExpired, StepPlanBegin, StartDecode, SampleRaises,
           CommitDecodeEnd, CommitPrefillEnd, StartPrefill, ClockAdvances, engineVars
  <2>4. QED
    BY <2>1, <2>3 DEF Doomed, PlannedIds
<1>6. ASSUME NEW r \in Requests PROVE HoldsInv(r)'
  <2>1. /\ Untouched(r) /\ ngen'[r] = ngen[r] /\ events'[r] = events[r]
        /\ (r \in cache' <=> r \in cache)
    BY <1>0 DEF Untouched, kvVars, requestVars
  <2>2. HoldsInv(r)
    BY DEF HoldsAll
  <2>3. QED
    BY <1>3, <1>4, <1>5, <2>1, <2>2, HoldsFrame
<1>7. QED
  BY <1>6 DEF HoldsAll

\* Blocks are added at the end of a table, so the slots it has stay.
LEMMA ReserveKeepsSlots ==
    ASSUME KVInv, NEW r \in Requests, NEW n \in Nat, Reserve(r, n), r \in live,
           NEW p \in 0 .. len[r] - 1
    PROVE  Slot(table'[r], p) = Slot(table[r], p)
<1>1. PICK s \in [1 .. Additional(r, n) -> free] : table' = [table EXCEPT ![r] = @ \o s]
  BY DEF Reserve
<1>2. \A i \in DOMAIN table[r] : table'[r][i] = table[r][i]
  BY <1>1, ReserveEffect
<1>3. len[r] \in Nat /\ Len(table[r]) = BlocksForTokens(len[r]) /\ table[r] \in Seq(Blocks)
  BY DEF KVInv, KVTypeOK, TableFitsLength
<1>4. p \div BlockSize + 1 \in 1 .. BlocksForTokens(len[r])
  BY <1>3, PositionInTable
<1>5. p \div BlockSize + 1 \in DOMAIN table[r]
  BY <1>3, <1>4
<1>6. QED
  BY <1>2, <1>5 DEF Slot

\* A request that gets work keeps what it holds.
LEMMA PlannedHolds ==
    ASSUME EngineInv, HoldsAll, OffDevice, Planning, pc = "plan", pc' = "plan",
           UNCHANGED <<requestVars, events, cache>>,
           NEW r \in Requests, NEW kind, NEW n \in Nat, Idle(r), r \in live, Reserve(r, n),
           inflight' = [inflight EXCEPT ![r] = [kind |-> kind, count |-> n]]
    PROVE  HoldsAll'
<1>0. /\ KVInv /\ len[r] \in Nat
      /\ inflight \in [Requests -> [kind : {"none", "prefill", "decode"}, count : Nat]]
  BY DEF EngineInv, SchedInv, ControlTypeOK, KVInv, KVTypeOK
<1>1. /\ len'[r] = len[r] + n
      /\ \A q \in Requests : q # r => len'[q] = len[q] /\ table'[q] = table[q]
  BY <1>0, ReserveFrame
<1>2. /\ inflight'[r].count = n /\ inflight[r].count = 0
      /\ \A q \in Requests : q # r => inflight'[q] = inflight[q]
  BY <1>0 DEF Idle, NoWork
<1>3. Written = {} /\ Written' = {}
  BY DEF Written
<1>4. \A q : ~Doomed(q) /\ ~Doomed(q)'
  BY DEF Doomed
<1>5. Committed(r) = len[r] /\ Committed(r)' = len[r]
  BY <1>0, <1>1, <1>2 DEF Committed
<1>6. HoldsInv(r)'
  <2>1. HoldsInv(r)
    BY DEF HoldsAll
  <2>2. dense'[r] = dense[r] /\ cells' = cells
    BY <2>1, PoppedKeeps DEF HoldsInv, OffDevice
  <2>3. OwnPrefix(r, len[r]) => \A p \in 0 .. len[r] - 1 : cells'[Slot(table'[r], p)] = <<r, p>>
    BY <1>0, <2>2, ReserveKeepsSlots DEF OwnPrefix
  <2>4. Unfinished(r)' => OwnPrefix(r, Committed(r))'
    BY <1>5, <2>1, <2>3 DEF HoldsInv, Unfinished, requestVars, OwnPrefix
  <2>5. state'[r] = "PREFILL" => dense'[r] = OwnTokens(r, 0, len[r])
    BY <1>3, <1>4, <1>5, <2>1, <2>2 DEF HoldsInv, Doomed, requestVars
  <2>6. QED
    BY <1>3, <1>5, <2>1, <2>2, <2>4, <2>5 DEF HoldsInv, Unfinished, requestVars, OwnTokens
<1>7. ASSUME NEW q \in Requests, q # r PROVE HoldsInv(q)'
  <2>1. Untouched(q) /\ ngen'[q] = ngen[q] /\ events'[q] = events[q] /\ cache' = cache
    BY <1>1, <1>2, <1>7 DEF Untouched, requestVars
  <2>2. HoldsInv(q)
    BY DEF HoldsAll
  <2>3. QED
    BY <1>3, <1>4, <2>1, <2>2, HoldsFrame
<1>8. QED
  BY <1>6, <1>7 DEF HoldsAll

\* Planning extends tables and leaves the cells alone.
LEMMA PlanningHolds ==
    ASSUME EngineInv, HoldsAll, OffDevice, StepPlan
    PROVE  HoldsAll'
<1>0. SchedInv /\ pc = "plan" /\ UNCHANGED <<events, cache>>
  BY DEF EngineInv, StepPlan
<1>1. CASE PlanSort \/ PlanDecodeEnd \/ PlanEnd
  <2>1. /\ UNCHANGED <<kvVars, requestVars, inflight>>
        /\ pc' \in {"plan", "sleep", "decode", "crashed"}
    BY <1>1 DEF StepPlan, PlanSort, PlanDecodeEnd, PlanEnd, queueVars
  <2>2. QED
    BY <1>0, <2>1, PausesHold
<1>2. CASE PlanDecode
  <2>1. PICK w \in DecodeWorks :
            /\ phase = "plan_decode" /\ phase' = phase
            /\ Idle(w.id) /\ w.id \in live
            /\ inflight' = [inflight EXCEPT ![w.id] = [kind |-> "decode", count |-> 1]]
            /\ Reserve(w.id, 1)
            /\ UNCHANGED requestVars
    BY <1>0, <1>2, PlanDecodeEffect
  <2>2. w.id \in Requests /\ Planning /\ pc' = "plan"
    BY <2>1 DEF DecodeWorks, Planning, StepPlan
  <2>3. QED
    BY <1>0, <2>1, <2>2, PlannedHolds
<1>3. CASE PlanPrefill
  <2>0. /\ phase = "plan_prefill" /\ phase' = phase /\ UNCHANGED requestVars
        /\ pc' = "plan" /\ Planning
    BY <1>0, <1>3, PlanPrefillEffect DEF StepPlan, Planning
  <2>1. CASE UNCHANGED <<kvVars, inflight, plan>>
    BY <1>0, <2>0, <2>1, PausesHold
  <2>2. ASSUME NEW w \in PrefillWorks, Idle(w.id), w.id \in live,
               inflight' = [inflight EXCEPT ![w.id] = [kind |-> "prefill", count |-> w.count]],
               Reserve(w.id, w.count)
        PROVE  HoldsAll'
    <3>1. w.id \in Requests /\ w.count \in Nat
      BY DEF PrefillWorks
    <3>2. QED
      BY <1>0, <2>0, <2>2, <3>1, PlannedHolds
  <2>3. QED
    BY <1>0, <1>3, <2>1, <2>2, PlanPrefillEffect
<1>4. QED
  BY <1>1, <1>2, <1>3 DEF StepPlan, PlanStep

\* A request that ends early loses its pages and its dense cache.
LEMMA EndsHold ==
    ASSUME EngineInv, StoriesInv, HoldsAll, OffDevice, NEW r \in Requests,
           ClientCancel(r) \/ StepExpire(r) \/ StepPlanExpire(r) \/ FailOne(r)
    PROVE  HoldsAll'
<1>0. /\ SchedInv /\ KVInv /\ state \in [Requests -> States]
      /\ inflight \in [Requests -> [kind : {"none", "prefill", "decode"}, count : Nat]]
      /\ len \in [Requests -> Nat] /\ table \in [Requests -> Seq(Blocks)]
      /\ events \in [Requests -> Seq(Events)]
  BY DEF EngineInv, SchedInv, ControlTypeOK, KVInv, KVTypeOK, EngineTypeOK
<1>1. PICK final \in Terminal \ {"FINISHED", "REJECTED"} : Terminate(r, final)
  BY DEF ClientCancel, Cancel, StepExpire, StepPlanExpire, ExpireOne, FailOne, Fail, Terminal
<1>2. /\ pc' = pc /\ plan' = plan
      /\ pc \notin {"commit_decode", "commit_prefill", "sample"}
  BY NeverSuspends
     DEF ClientCancel, Cancel, Yields, StepExpire, StepPlanExpire, ExpireOne, FailOne, Fail,
         planVars, engineVars
<1>3. Written = {} /\ Written' = {} /\ \A q \in Requests : Doomed(q) <=> Doomed(q)'
  BY <1>2, NothingWritten DEF Written, Doomed, PlannedIds
<1>4. /\ state'[r] = final
      /\ cursor' = cursor /\ ngen' = ngen
      /\ \A q \in Requests : q # r =>
            /\ state'[q] = state[q] /\ inflight'[q] = inflight[q]
            /\ len'[q] = len[q] /\ table'[q] = table[q]
  BY <1>0, <1>1 DEF Terminate, Cleanup, Release, kvVars
<1>5. /\ \A q \in Requests : q # r => events'[q] = events[q] /\ (q \in cache' <=> q \in cache)
      /\ r \notin cache' \/ (StepPlanExpire(r) /\ events' = events /\ cache' = cache)
  BY <1>0 DEF ClientCancel, StepExpire, StepPlanExpire, FailOne, FinishEvent, engineVars
<1>6. HoldsInv(r)'
  <2>1. HoldsInv(r)
    BY DEF HoldsAll
  <2>2. final \notin Active /\ final # "PREFILL"
    BY DEF Terminal, Active
  <2>3. dense'[r] # <<>> => r \in cache'
    BY <2>1, PoppedKeeps DEF HoldsInv, OffDevice
  <2>4. StepPlanExpire(r) => final = "TIMED_OUT" /\ ~Ended(events[r])
    <3>1. StepPlanExpire(r) => state' = [state EXCEPT ![r] = "TIMED_OUT"] /\ Unfinished(r)
      BY DEF StepPlanExpire, ExpireOne, Expired, Terminate
    <3>2. StoryInv(r)
      BY DEF StoriesInv
    <3>3. QED
      BY <1>0, <1>4, <3>1, <3>2 DEF StoryInv, Unfinished, Active
  <2>5. r \in cache' => state'[r] = "TIMED_OUT" /\ ~Ended(events'[r])
    BY <1>4, <1>5, <2>4
  <2>6. QED
    BY <1>3, <1>4, <2>2, <2>3, <2>5 DEF HoldsInv, Unfinished
<1>7. ASSUME NEW q \in Requests, q # r PROVE HoldsInv(q)'
  <2>1. Untouched(q) /\ ngen'[q] = ngen[q] /\ events'[q] = events[q]
        /\ (q \in cache' <=> q \in cache)
    BY <1>4, <1>5, <1>7 DEF Untouched
  <2>2. HoldsInv(q)
    BY DEF HoldsAll
  <2>3. QED
    BY <1>3, <2>1, <2>2, HoldsFrame
<1>8. QED
  BY <1>6, <1>7 DEF HoldsAll

\* A new request holds nothing yet.
LEMMA SubmitHolds ==
    ASSUME EngineInv, HoldsAll, OffDevice, NEW r \in Requests, NEW s \in Shapes,
           ClientSubmit(r, s)
    PROVE  HoldsAll'
<1>0. /\ SchedInv /\ Submit(r, s) /\ state[r] = "NEW" /\ state \in [Requests -> States]
      /\ pc' = pc /\ cache' = cache /\ events' = events /\ cursor' = cursor /\ ngen' = ngen
      /\ inflight' = inflight /\ plan' = plan
      /\ table' = table /\ len' = len
  BY DEF EngineInv, SchedInv, ControlTypeOK, ClientSubmit, Submit, Create, kvVars, planVars
<1>1. pc \notin {"commit_decode", "commit_prefill", "sample", "failing"}
  BY NeverSuspends DEF ClientSubmit, Yields
<1>2. Written = {} /\ Written' = {} /\ \A q \in Requests : ~Doomed(q) /\ ~Doomed(q)'
  BY <1>0, <1>1, NothingWritten DEF Written, Doomed
<1>3. /\ state'[r] \in {"PREFILL", "REJECTED"}
      /\ \A q \in Requests : q # r => state'[q] = state[q]
  BY <1>0 DEF Submit
<1>4. HoldsInv(r)'
  <2>1. HoldsInv(r)
    BY DEF HoldsAll
  <2>2. r \notin cache
    BY <1>0, <2>1 DEF HoldsInv, Unfinished, Active
  <2>3. dense'[r] = <<>>
    BY <1>0, <2>2 DEF OffDevice, Popped
  <2>4. Committed(r)' = 0
    BY <1>0, NewRequest DEF Committed, Idle, NoWork
  <2>5. OwnPrefix(r, Committed(r))'
    BY <2>4 DEF OwnPrefix
  <2>6. OwnTokens(r, 0, Committed(r)) ' = <<>>
    BY <2>4 DEF OwnTokens
  <2>7. QED
    BY <1>0, <1>2, <1>3, <2>2, <2>3, <2>5, <2>6 DEF HoldsInv
<1>5. ASSUME NEW q \in Requests, q # r PROVE HoldsInv(q)'
  <2>1. Untouched(q) /\ ngen'[q] = ngen[q] /\ events'[q] = events[q]
        /\ (q \in cache' <=> q \in cache)
    BY <1>0, <1>3, <1>5 DEF Untouched
  <2>2. HoldsInv(q)
    BY DEF HoldsAll
  <2>3. QED
    BY <1>2, <2>1, <2>2, HoldsFrame
<1>6. QED
  BY <1>4, <1>5 DEF HoldsAll

-----------------------------------------------------------------------------
\* Commits.

\* Recording a token touches the events and the cache of its request only.
LEMMA TokenRecorded ==
    ASSUME EngineInv, NEW r \in Requests, NEW stopped \in BOOLEAN, RecordToken(r, stopped)
    PROVE  /\ \A q \in Requests : q # r => events'[q] = events[q] /\ (q \in cache' <=> q \in cache)
           /\ r \in cache' => r \in cache /\ state'[r] # "FINISHED"
<1>1. events \in [Requests -> Seq(Events)]
  BY DEF EngineInv, EngineTypeOK
<1>2. QED
  BY <1>1 DEF RecordToken

\* The rows that wait behind the first one.
LEMMA RowsBehind ==
    ASSUME NEW works, NEW n \in DOMAIN works, DOMAIN works = 1 .. Len(works), Len(works) \in Nat,
           \A i, j \in DOMAIN works : works[i].id = works[j].id => i = j
    PROVE  /\ works[n].id \notin RowsFrom(works, n + 1)
           /\ works[n].id \in RowsFrom(works, n)
           /\ \A r : r # works[n].id => (r \in RowsFrom(works, n) <=> r \in RowsFrom(works, n + 1))
<1>1. RowsFrom(works, n) = {works[n].id} \cup RowsFrom(works, n + 1)
  BY NextRow
<1>2. works[n].id \notin RowsFrom(works, n + 1)
  BY DEF RowsFrom
<1>3. QED
  BY <1>1, <1>2

\* A decode that commits counts the token its row has written.
LEMMA DecodeCommitHolds ==
    ASSUME EngineInv, WorksStand, HoldsAll, OffDevice, CommitDecode
    PROVE  HoldsAll'
<1>0. /\ row \in DOMAIN plan.decode /\ row' = row + 1 /\ pc = "commit_decode" /\ pc' = pc
      /\ plan' = plan
  BY DecodeCommitStands DEF CommitDecode
<1>1. /\ SchedInv /\ WorksDistinct /\ DOMAIN plan.decode = 1 .. Len(plan.decode)
      /\ Len(plan.decode) \in Nat
      /\ plan.decode[row].id \in Requests
      /\ inflight \in [Requests -> [kind : {"none", "prefill", "decode"}, count : Nat]]
      /\ len \in [Requests -> Nat]
  <2>1. PlanInv /\ plan.decode \in Seq(DecodeWorks)
    BY DEF EngineInv, SchedInv, PlanInv
  <2>2. plan.decode[row].id \in Requests
    BY <1>0, <2>1, WorksNameRequests
  <2>3. SchedInv /\ WorksDistinct
    BY DEF EngineInv, PlansInv
  <2>4. len \in [Requests -> Nat]
    BY <2>3 DEF SchedInv, KVInv, KVTypeOK
  <2>5. inflight \in [Requests -> [kind : {"none", "prefill", "decode"}, count : Nat]]
    BY <2>3 DEF SchedInv, ControlTypeOK
  <2>6. QED
    BY <2>1, <2>2, <2>3, <2>4, <2>5
<1>2. PICK r \in Requests : r = plan.decode[row].id
  BY <1>1
<1>3. PICK stopped \in BOOLEAN : AppendToken(r, stopped) /\ RecordToken(r, stopped)
  BY <1>2, DecodeCommitStands
<1>4. state[r] = "DECODE"
  BY <1>0, <1>2 DEF WorksStand, DecodeStands, DecodeLeft, CommitDecode
<1>5. Written = RowsFrom(plan.decode, row) /\ Written' = RowsFrom(plan.decode, row + 1)
  BY <1>0 DEF Written, RowsFrom
<1>6. /\ r \notin Written' /\ r \in Written
      /\ \A q \in Requests : q # r => (q \in Written' <=> q \in Written)
  BY <1>0, <1>1, <1>2, <1>5, RowsBehind DEF WorksDistinct
<1>7. /\ inflight'[r] = NoWork
      /\ state'[r] = "FINISHED" \/ (state'[r] = state[r] /\ UNCHANGED <<table, len>>)
      /\ \A q \in Requests : q # r => Untouched(q) /\ ngen'[q] = ngen[q]
  BY <1>1, <1>3, AppendTokenFrame
<1>8. /\ \A q \in Requests : q # r => events'[q] = events[q] /\ (q \in cache' <=> q \in cache)
      /\ r \in cache' => r \in cache
  BY <1>3, TokenRecorded
<1>9. \A q : ~Doomed(q) /\ ~Doomed(q)'
  BY <1>0 DEF Doomed
<1>10. HoldsInv(r)'
  <2>1. HoldsInv(r)
    BY DEF HoldsAll
  <2>2. r \notin cache /\ OwnPrefix(r, len[r])
    BY <1>4, <1>6, <2>1 DEF HoldsInv
  <2>3. dense'[r] # <<>> => r \in cache'
    BY <2>1, PoppedKeeps DEF HoldsInv, OffDevice
  <2>4. Unfinished(r)' => OwnPrefix(r, Committed(r))'
    <3>1. SUFFICES ASSUME Unfinished(r)' PROVE OwnPrefix(r, Committed(r))'
      OBVIOUS
    <3>2. UNCHANGED <<table, len>> /\ cells' = cells
      BY <1>7, <3>1 DEF Unfinished, Active, OffDevice
    <3>3. Committed(r)' = len[r]
      BY <1>1, <1>2, <1>7, <3>2 DEF Committed, NoWork
    <3>4. QED
      BY <2>2, <3>2, <3>3 DEF OwnPrefix, Slot
  <2>5. QED
    BY <1>4, <1>6, <1>7, <1>8, <2>2, <2>3, <2>4 DEF HoldsInv
<1>11. ASSUME NEW q \in Requests, q # r PROVE HoldsInv(q)'
  <2>1. HoldsInv(q)
    BY DEF HoldsAll
  <2>2. QED
    BY <1>6, <1>7, <1>8, <1>9, <1>11, <2>1, HoldsFrame
<1>12. QED
  BY <1>10, <1>11 DEF HoldsAll

\* A prefill that commits counts the tokens its chunk has written.
LEMMA PrefillCommitHolds ==
    ASSUME EngineInv, WorksStand, HoldsAll, OffDevice, CommitPrefill
    PROVE  HoldsAll'
<1>0. /\ SchedInv /\ PhaseInv /\ WorksDistinct /\ row \in DOMAIN plan.prefill
      /\ pc = "commit_prefill" /\ UNCHANGED <<events, cache>>
      /\ plan.prefill[row] \in PrefillWorks
      /\ DOMAIN plan.prefill = 1 .. Len(plan.prefill) /\ Len(plan.prefill) \in Nat
      /\ inflight \in [Requests -> [kind : {"none", "prefill", "decode"}, count : Nat]]
      /\ len \in [Requests -> Nat] /\ state \in [Requests -> States]
      /\ cursor \in [Requests -> Nat]
  <2>1. PlanInv /\ plan.prefill \in Seq(PrefillWorks)
    BY DEF EngineInv, SchedInv, PlanInv
  <2>2. QED
    BY SMTT(30), <2>1, PrefillRow DEF CommitPrefill, EngineInv, SchedInv, ControlTypeOK, KVInv, KVTypeOK
<1>1. PICK w \in PrefillWorks : w = plan.prefill[row]
  BY <1>0
<1>2. w.id \in Requests
  BY DEF PrefillWorks
<1>3. /\ CompletePrefill(w.id, w.count)
      /\ \/ pc' = "sample" /\ row' = row
         \/ pc' = pc /\ row' = row + 1
  BY <1>1, PrefillCommitStands
<1>4. /\ plan' = plan /\ ngen' = ngen /\ UNCHANGED kvVars
      /\ inflight' = [inflight EXCEPT ![w.id] = NoWork]
      /\ cursor' = [cursor EXCEPT ![w.id] = @ + w.count]
      /\ state' = state \/ state' = [state EXCEPT ![w.id] = "DECODE"]
      /\ state[w.id] = "PREFILL"
  BY <1>3 DEF CompletePrefill, PrefillCommits, planVars
<1>5. Written = RowsFrom(plan.prefill, row) /\ Written' = RowsFrom(plan.prefill, row + 1)
  <2>1. Written = RowsFrom(plan.prefill, row)
    BY <1>0 DEF Written
  <2>2. CASE pc' = "sample" /\ row' = row
    BY <1>4, <2>1, <2>2 DEF Written, RowsFrom
  <2>3. CASE pc' = pc /\ row' = row + 1
    <3>1. pc' = "commit_prefill" /\ plan' = plan
      BY <1>0, <1>4, <2>3
    <3>2. Written' = RowsFrom(plan.prefill, row')
      BY <3>1 DEF Written, RowsFrom
    <3>3. QED
      BY <2>1, <2>3, <3>2
  <2>4. QED
    BY <1>3, <2>2, <2>3
<1>6. /\ w.id \notin Written' /\ w.id \in Written
      /\ \A q \in Requests : q # w.id => (q \in Written' <=> q \in Written)
  BY <1>0, <1>1, <1>5, RowsBehind DEF WorksDistinct
<1>7. \A q : ~Doomed(q) /\ ~Doomed(q)'
  BY <1>0, <1>3 DEF Doomed
<1>8. HoldsInv(w.id)'
  <2>1. HoldsInv(w.id)
    BY <1>2 DEF HoldsAll
  <2>2. dense'[w.id] = dense[w.id] /\ cells' = cells
    BY <1>0, <1>2, <2>1, PoppedKeeps DEF HoldsInv, OffDevice
  <2>3. /\ OwnPrefix(w.id, len[w.id])
        /\ dense[w.id] = OwnTokens(w.id, 0, len[w.id])
    BY <1>4, <1>6, <2>1 DEF HoldsInv
  <2>4. Committed(w.id)' = len[w.id] /\ len' = len /\ table' = table
    BY <1>0, <1>2, <1>4 DEF Committed, NoWork, kvVars
  <2>5. OwnPrefix(w.id, Committed(w.id))'
    BY <2>2, <2>3, <2>4 DEF OwnPrefix, Slot
  <2>6. (dense[w.id] = OwnTokens(w.id, 0, Committed(w.id)))'
    BY <2>2, <2>3, <2>4 DEF OwnTokens
  <2>7. w.id \in cache => ngen[w.id] <= 1
    BY <1>4, <2>1 DEF HoldsInv
  <2>8. state'[w.id] \in {"PREFILL", "DECODE"}
    BY <1>0, <1>2, <1>4
  <2>9. QED
    BY <1>0, <1>4, <1>6, <2>1, <2>2, <2>5, <2>6, <2>7, <2>8 DEF HoldsInv, Unfinished, Active
<1>9. ASSUME NEW q \in Requests, q # w.id PROVE HoldsInv(q)'
  <2>1. HoldsInv(q)
    BY DEF HoldsAll
  <2>2. Untouched(q) /\ ngen'[q] = ngen[q] /\ events'[q] = events[q] /\ cache' = cache
    BY <1>0, <1>4, <1>9 DEF Untouched, kvVars
  <2>3. QED
    BY <1>6, <1>7, <1>9, <2>1, <2>2, HoldsFrame
<1>10. QED
  BY <1>8, <1>9 DEF HoldsAll

\* The first token is sampled from a prompt that is wholly written.
LEMMA SampleHolds ==
    ASSUME EngineInv, WorksStand, HoldsAll, OffDevice, SampleFirst
    PROVE  HoldsAll'
<1>0. /\ SchedInv /\ WorksDistinct /\ row \in DOMAIN plan.prefill /\ pc = "sample"
      /\ pc' = "commit_prefill" /\ row' = row + 1
      /\ plan.prefill[row].id \in Requests
      /\ DOMAIN plan.prefill = 1 .. Len(plan.prefill) /\ Len(plan.prefill) \in Nat
      /\ len \in [Requests -> Nat] /\ ngen \in [Requests -> Nat]
  <2>1. PlanInv /\ plan.prefill \in Seq(PrefillWorks)
    BY DEF EngineInv, SchedInv, PlanInv
  <2>2. pc = "sample" /\ pc' = "commit_prefill" /\ row' = row + 1
    BY SampleStands DEF SampleFirst
  <2>3. /\ SchedInv /\ WorksDistinct /\ row \in DOMAIN plan.prefill
        /\ plan.prefill[row].id \in Requests
    BY <2>2, PrefillRow
  <2>4. len \in [Requests -> Nat] /\ ngen \in [Requests -> Nat]
    BY <2>3 DEF SchedInv, ControlTypeOK, KVInv, KVTypeOK
  <2>5. QED
    BY <2>1, <2>2, <2>3, <2>4
<1>1. PICK r \in Requests : r = plan.prefill[row].id
  BY <1>0
<1>2. SampleCommits(r)
  BY <1>1, SampleStands
<1>3. PICK stopped \in BOOLEAN : AppendToken(r, stopped) /\ RecordToken(r, stopped)
  BY <1>1, SampleStands
<1>4. /\ plan' = plan
      /\ inflight'[r] = NoWork /\ ngen'[r] = ngen[r] + 1
      /\ state'[r] = "FINISHED" \/ (state'[r] = state[r] /\ UNCHANGED <<table, len>>)
      /\ \A q \in Requests : q # r => Untouched(q) /\ ngen'[q] = ngen[q]
  BY <1>0, <1>3, AppendTokenFrame
<1>5. Written' = Written /\ Written = RowsFrom(plan.prefill, row + 1)
  <2>1. Written = RowsFrom(plan.prefill, row + 1)
    BY <1>0 DEF Written
  <2>2. Written' = RowsFrom(plan.prefill, row')
    BY <1>0, <1>4 DEF Written, RowsFrom
  <2>3. QED
    BY <1>0, <2>1, <2>2
<1>6. r \notin Written'
  BY <1>0, <1>1, <1>5, RowsBehind DEF WorksDistinct
<1>7. /\ \A q \in Requests : q # r => events'[q] = events[q] /\ (q \in cache' <=> q \in cache)
      /\ r \in cache' => r \in cache /\ state'[r] # "FINISHED"
  BY <1>3, TokenRecorded
<1>8. \A q : ~Doomed(q) /\ ~Doomed(q)'
  BY <1>0 DEF Doomed
<1>9. state[r] = "DECODE" /\ ngen[r] = 0 /\ inflight[r] = NoWork
  BY <1>2 DEF SampleCommits, Idle
<1>10. HoldsInv(r)'
  <2>1. HoldsInv(r)
    BY DEF HoldsAll
  <2>2. dense'[r] # <<>> => r \in cache'
    BY <2>1, PoppedKeeps DEF HoldsInv, OffDevice
  <2>3. Unfinished(r)' => OwnPrefix(r, Committed(r))'
    <3>1. SUFFICES ASSUME Unfinished(r)' PROVE OwnPrefix(r, Committed(r))'
      OBVIOUS
    <3>2. UNCHANGED <<table, len>> /\ cells' = cells
      BY <1>4, <3>1 DEF Unfinished, Active, OffDevice
    <3>3. Committed(r)' = Committed(r)
      BY <1>4, <1>9, <3>2 DEF Committed
    <3>4. OwnPrefix(r, Committed(r))
      BY <1>9, <2>1 DEF HoldsInv, Unfinished, Active
    <3>5. QED
      BY <3>2, <3>3, <3>4 DEF OwnPrefix, Slot
  <2>4. r \in cache' => Unfinished(r)' /\ ngen'[r] <= 1
    BY <1>4, <1>7, <1>9 DEF Unfinished, Active
  <2>5. QED
    BY <1>4, <1>6, <1>9, <2>2, <2>3, <2>4 DEF HoldsInv
<1>11. ASSUME NEW q \in Requests, q # r PROVE HoldsInv(q)'
  <2>1. HoldsInv(q)
    BY DEF HoldsAll
  <2>2. QED
    BY <1>4, <1>5, <1>7, <1>8, <1>11, <2>1, HoldsFrame
<1>12. QED
  BY <1>10, <1>11 DEF HoldsAll

-----------------------------------------------------------------------------
\* What the device writes.

\* A position within the length has a cell.
LEMMA OwnCell ==
    ASSUME KVInv, NEW r \in Requests, NEW p \in 0 .. len[r] - 1
    PROVE  Slot(table[r], p) \in Cells
<1>1. len[r] \in Nat /\ Len(table[r]) = BlocksForTokens(len[r]) /\ table[r] \in Seq(Blocks)
  BY DEF KVInv, KVTypeOK, TableFitsLength
<1>2. /\ p \div BlockSize + 1 \in 1 .. BlocksForTokens(len[r])
      /\ p % BlockSize \in 0 .. BlockSize - 1
  BY <1>1, PositionInTable
<1>3. table[r][p \div BlockSize + 1] \in Blocks
  BY <1>1, <1>2
<1>4. QED
  BY <1>2, <1>3 DEF Slot, Cells

\* The cells of positions that are planned and not committed.
InFlightCell(c) ==
    \E r \in Requests : \E p \in 0 .. len[r] - 1 : Committed(r) <= p /\ c = Slot(table[r], p)

\* Writing there leaves what is committed alone.
LEMMA CommittedKept ==
    ASSUME SchedInv, UNCHANGED schedVars,
           \A c \in Cells : InFlightCell(c) \/ cells'[c] = cells[c],
           NEW r \in Requests, OwnPrefix(r, Committed(r))
    PROVE  OwnPrefix(r, Committed(r))'
<1>0. /\ KVInv /\ NoSlotAliasing /\ len[r] \in Nat /\ inflight[r].count \in Nat
  BY NoAliasing DEF SchedInv, ControlTypeOK, KVInv, KVTypeOK
<1>1. ASSUME NEW p \in 0 .. Committed(r) - 1
      PROVE  cells'[Slot(table[r], p)] = <<r, p>>
  <2>1. p \in 0 .. len[r] - 1 /\ ~(Committed(r) <= p)
    BY <1>0, <1>1 DEF Committed
  <2>2. Slot(table[r], p) \in Cells
    BY <1>0, <2>1, OwnCell
  <2>3. ~InFlightCell(Slot(table[r], p))
    BY <1>0, <2>1 DEF InFlightCell, NoSlotAliasing
  <2>4. cells[Slot(table[r], p)] = <<r, p>>
    BY <1>1 DEF OwnPrefix
  <2>5. QED
    BY <2>2, <2>3, <2>4
<1>2. Committed(r)' = Committed(r) /\ table' = table
  BY DEF Committed, schedVars, kvVars, queueVars
<1>3. QED
  BY <1>1, <1>2 DEF OwnPrefix, Slot

\* Rows the executor decodes.
LEMMA DecodeRows ==
    ASSUME EngineInv, WorksStand, pc = "decoding", NEW w \in {plan.decode[i] : i \in DOMAIN plan.decode}
    PROVE  /\ w.id \in Requests /\ w.pos \in 0 .. len[w.id] - 1 /\ w.pos \in Nat
           /\ state[w.id] = "DECODE"
           /\ len[w.id] = w.pos + 1 /\ Committed(w.id) = w.pos
           /\ w.slot = Slot(table[w.id], w.pos)
           /\ InFlightCell(w.slot)
           /\ w.id \in DecodeIds /\ w.id \in PlannedIds
<1>1. PICK i \in DOMAIN plan.decode : w = plan.decode[i]
  OBVIOUS
<1>2. w \in DecodeWorks /\ w.id \in DecodeIds /\ w.id \in PlannedIds
  BY <1>1, WorksNameRequests DEF EngineInv, SchedInv, DecodeIds, PlannedIds
<1>3. w.id \in Requests /\ w.pos \in Nat
  BY <1>2 DEF DecodeWorks
<1>4. DecodeStands(w)
  BY <1>1 DEF WorksStand, DecodeLeft
<1>5. /\ state[w.id] = "DECODE" /\ inflight[w.id].count = 1
      /\ len[w.id] = w.pos + 1
      /\ w.slot = Slot(table[w.id], w.pos)
  BY <1>4 DEF DecodeStands
<1>6. Committed(w.id) = w.pos /\ w.pos \in 0 .. len[w.id] - 1
  BY <1>3, <1>5 DEF Committed
<1>7. InFlightCell(w.slot)
  BY <1>3, <1>5, <1>6 DEF InFlightCell
<1>8. QED
  BY <1>2, <1>3, <1>5, <1>6, <1>7

\* A decode writes only to cells that are in flight.
LEMMA DecodeSlotsInFlight ==
    ASSUME EngineInv, WorksStand, pc = "decoding", NEW c \in DecodeSlots
    PROVE  InFlightCell(c)
BY DecodeRows DEF DecodeSlots

\* A request the decode batch does not touch.
LEMMA BystanderHolds ==
    ASSUME SchedInv, NEW r \in Requests, HoldsInv(r), UNCHANGED <<schedVars, events>>,
           Unfinished(r) => OwnPrefix(r, Committed(r))',
           r \notin Written', r \notin Written, ~Doomed(r),
           r \in cache' <=> r \in cache,
           dense'[r] = dense[r]
    PROVE  HoldsInv(r)'
<1>1. Committed(r)' = Committed(r) /\ UNCHANGED requestVars
  BY DEF Committed, schedVars, kvVars, queueVars
<1>2. QED
  BY <1>1 DEF HoldsInv, Unfinished, requestVars, Doomed, OwnTokens

\* A decode that returns has written one cell per row, and no other.
LEMMA DecodeReturnsHolds ==
    ASSUME EngineInv, WorksStand, HoldsAll, QwenDecodeReturns
    PROVE  HoldsAll'
<1>0. /\ SchedInv /\ KVInv /\ NoSlotAliasing /\ WorksDistinct
      /\ pc = "decoding" /\ pc' = "commit_decode" /\ row' = 1 /\ cache' = cache \ DecodeIds
      /\ UNCHANGED <<schedVars, events>>
      /\ plan.decode \in Seq(DecodeWorks)
  BY NoAliasing DEF EngineInv, SchedInv, PlanInv, PlansInv, QwenDecodeReturns, DecodeReturns
<1>1. Written = {} /\ Written' = DecodeIds /\ plan' = plan
  <2>1. plan' = plan
    BY <1>0 DEF schedVars, planVars
  <2>2. RowsFrom(plan.decode, 1) = DecodeIds
    BY <1>0 DEF RowsFrom, DecodeIds
  <2>3. QED
    BY <1>0, <2>1, <2>2 DEF Written, RowsFrom
<1>2. \A c \in Cells : InFlightCell(c) \/ cells'[c] = cells[c]
  BY <1>0, DecodeSlotsInFlight DEF QwenDecodeReturns
<1>3. ASSUME NEW r \in Requests, Unfinished(r) PROVE OwnPrefix(r, Committed(r))'
  BY <1>0, <1>2, <1>3, CommittedKept DEF HoldsAll, HoldsInv
<1>4. ASSUME NEW r \in Requests PROVE dense'[r] # <<>> => r \in cache'
  BY DEF QwenDecodeReturns, Popped
<1>5. ASSUME NEW r \in Requests, r \in DecodeIds PROVE HoldsInv(r)'
  <2>1. PICK w \in {plan.decode[i] : i \in DOMAIN plan.decode} : w.id = r
    BY <1>5 DEF DecodeIds
  <2>2. /\ w.pos \in 0 .. len[r] - 1 /\ w.pos \in Nat
        /\ state[r] = "DECODE" /\ len[r] = w.pos + 1 /\ Committed(r) = w.pos
        /\ w.slot = Slot(table[r], w.pos)
    BY <1>0, <2>1, DecodeRows
  <2>3. w.slot \in Cells /\ w.slot \in DecodeSlots
    BY <1>0, <2>1, <2>2, OwnCell DEF DecodeSlots
  <2>4. ASSUME NEW v \in {plan.decode[i] : i \in DOMAIN plan.decode}, v.slot = w.slot
        PROVE  v = w
    <3>1. /\ v.id \in Requests /\ v.pos \in 0 .. len[v.id] - 1
          /\ v.slot = Slot(table[v.id], v.pos)
      BY <1>0, DecodeRows
    <3>2. Slot(table[v.id], v.pos) = Slot(table[r], w.pos)
      BY <2>2, <2>4, <3>1
    <3>3. NoSlotAliasing
      BY <1>0
    <3>4. v.id = r
      BY <2>2, <3>1, <3>2, <3>3 DEF NoSlotAliasing
    <3>5. QED
      BY <1>0, <2>1, <3>4 DEF WorksDistinct
  <2>5. (CHOOSE v \in {plan.decode[i] : i \in DOMAIN plan.decode} : v.slot = w.slot) = w
    BY <2>1, <2>4
  <2>6. cells'[w.slot] = DecodeEntry(w)
    BY <2>3, <2>5 DEF QwenDecodeReturns
  <2>7. OwnPrefix(r, w.pos)
    BY <2>2 DEF HoldsAll, HoldsInv, Unfinished, Active
  <2>8. cells'[w.slot] = <<r, w.pos>>
    BY <2>1, <2>6, <2>7 DEF DecodeEntry
  <2>9. OwnPrefix(r, Committed(r))'
    BY <1>3, <2>2 DEF Unfinished, Active
  <2>10. Committed(r)' = w.pos /\ len'[r] = w.pos + 1 /\ table' = table /\ state'[r] = "DECODE"
    BY <1>0, <2>2 DEF Committed, schedVars, kvVars, queueVars, requestVars
  <2>11. OwnPrefix(r, len[r])'
    <3>1. ASSUME NEW p \in 0 .. len'[r] - 1 PROVE cells'[Slot(table'[r], p)] = <<r, p>>
      <4>1. p \in 0 .. w.pos - 1 \/ p = w.pos
        BY <2>2, <2>10, <3>1
      <4>2. CASE p \in 0 .. w.pos - 1
        BY <2>9, <2>10, <4>2 DEF OwnPrefix, Slot
      <4>3. CASE p = w.pos
        BY <2>2, <2>8, <2>10, <4>3
      <4>4. QED
        BY <4>1, <4>2, <4>3
    <3>2. QED
      BY <3>1 DEF OwnPrefix, Slot
  <2>12. r \notin cache'
    BY <1>0, <1>5
  <2>13. QED
    BY <1>4, <2>9, <2>10, <2>11, <2>12 DEF HoldsInv
<1>6. ASSUME NEW r \in Requests, r \notin DecodeIds PROVE HoldsInv(r)'
  <2>1. HoldsInv(r)
    BY DEF HoldsAll
  <2>2. r \in cache' <=> r \in cache
    BY <1>0, <1>6
  <2>3. dense'[r] = dense[r]
    BY <2>1, <2>2 DEF HoldsInv, QwenDecodeReturns, Popped
  <2>4. QED
    BY <1>0, <1>1, <1>3, <1>6, <2>1, <2>2, <2>3, BystanderHolds DEF Doomed
<1>7. QED
  BY <1>5, <1>6 DEF HoldsAll

\* A decode that raises may have written its own cells only.
LEMMA DecodeRaisesHolds ==
    ASSUME EngineInv, WorksStand, HoldsAll, QwenDecodeRaises
    PROVE  HoldsAll'
<1>0. /\ SchedInv /\ pc = "decoding" /\ pc' = "failing"
      /\ UNCHANGED <<schedVars, events>> /\ plan' = plan
  BY DEF EngineInv, QwenDecodeRaises, DecodeRaises, ExecutionRaises, schedVars, planVars
<1>1. Written = {} /\ Written' = {}
  BY <1>0 DEF Written
<1>2. PICK dropped \in SUBSET DecodeIds : cache' = cache \ dropped
  BY DEF QwenDecodeRaises, DecodeRaises
<1>3. \A c \in Cells : InFlightCell(c) \/ cells'[c] = cells[c]
  BY <1>0, DecodeSlotsInFlight DEF QwenDecodeRaises
<1>4. ASSUME NEW r \in Requests, Unfinished(r) PROVE OwnPrefix(r, Committed(r))'
  BY <1>0, <1>3, <1>4, CommittedKept DEF HoldsAll, HoldsInv
<1>5. ASSUME NEW r \in Requests, r \notin PlannedIds PROVE HoldsInv(r)'
  <2>1. HoldsInv(r)
    BY DEF HoldsAll
  <2>2. r \in cache' <=> r \in cache
    BY <1>2, <1>5 DEF DecodeIds, PlannedIds
  <2>3. dense'[r] = dense[r]
    BY <2>1, <2>2 DEF HoldsInv, QwenDecodeRaises, Popped
  <2>4. QED
    BY <1>0, <1>1, <1>4, <2>1, <2>2, <2>3, BystanderHolds DEF Doomed
<1>6. ASSUME NEW r \in Requests, r \in PlannedIds PROVE HoldsInv(r)'
  <2>1. HoldsInv(r) /\ r \in PlannedIds'
    BY <1>0, <1>6 DEF HoldsAll, PlannedIds
  <2>2. dense'[r] # <<>> => r \in cache'
    BY DEF QwenDecodeRaises, Popped
  <2>3. r \in cache' => r \in cache
    BY <1>2
  <2>4. Unfinished(r)' => OwnPrefix(r, Committed(r))'
    BY <1>0, <1>4 DEF Unfinished, schedVars, requestVars
  <2>5. QED
    BY <1>0, <1>1, <2>1, <2>2, <2>3, <2>4 DEF HoldsInv, Unfinished, schedVars, requestVars
<1>7. QED
  BY <1>5, <1>6 DEF HoldsAll

\* A chunk continues the tokens before it.
LEMMA OwnTokensJoin ==
    ASSUME NEW r \in Requests, NEW a \in Nat, NEW b \in Nat
    PROVE  /\ OwnTokens(r, 0, a) \o OwnTokens(r, a, b) = OwnTokens(r, 0, a + b)
           /\ \A i \in 1 .. b : OwnTokens(r, 0, a + b)[a + i] = <<r, a + i - 1>>
<1> DEFINE S == Requests \X Nat
           u == OwnTokens(r, 0, a)
           v == OwnTokens(r, a, b)
           x == OwnTokens(r, 0, a + b)
<1>1. /\ u \in Seq(S) /\ Len(u) = a /\ \A i \in 1 .. a : u[i] = <<r, i - 1>>
  <2>1. u \in [1 .. a -> S]
    BY DEF OwnTokens
  <2>2. QED
    BY <2>1, SeqFromFunction DEF OwnTokens
<1>2. /\ v \in Seq(S) /\ Len(v) = b /\ \A i \in 1 .. b : v[i] = <<r, a + i - 1>>
  <2>1. v \in [1 .. b -> S]
    BY DEF OwnTokens
  <2>2. QED
    BY <2>1, SeqFromFunction DEF OwnTokens
<1>3. /\ x \in Seq(S) /\ Len(x) = a + b /\ \A i \in 1 .. a + b : x[i] = <<r, i - 1>>
  <2>1. x \in [1 .. a + b -> S]
    BY DEF OwnTokens
  <2>2. QED
    BY <2>1, SeqFromFunction DEF OwnTokens
<1> HIDE DEF S, u, v, x
<1>4. /\ u \o v \in Seq(S) /\ Len(u \o v) = a + b
      /\ \A i \in 1 .. a : (u \o v)[i] = u[i]
      /\ \A i \in 1 .. b : (u \o v)[a + i] = v[i]
  <2>1. /\ u \o v \in Seq(S)
        /\ Len(u \o v) = Len(u) + Len(v)
        /\ \A i \in 1 .. Len(u) : (u \o v)[i] = u[i]
        /\ \A i \in 1 .. Len(v) : (u \o v)[Len(u) + i] = v[i]
    <3>1. u \in Seq(S) /\ v \in Seq(S)
      BY <1>1, <1>2
    <3>2. QED
      BY <3>1, ConcatProperties
  <2>2. Len(u) = a /\ Len(v) = b
    BY <1>1, <1>2
  <2>3. QED
    BY <2>1, <2>2
<1>5. ASSUME NEW i \in 1 .. a + b PROVE (u \o v)[i] = x[i]
  <2>1. CASE i \in 1 .. a
    BY <1>1, <1>3, <1>4, <2>1
  <2>2. CASE i \notin 1 .. a
    <3>1. PICK j \in 1 .. b : i = a + j
      <4>1. i - a \in 1 .. b /\ i = a + (i - a)
        BY <2>2
      <4>2. QED
        BY <4>1
    <3>2. QED
      <4>1. (u \o v)[a + j] = <<r, a + j - 1>> /\ x[a + j] = <<r, a + j - 1>>
        BY <1>2, <1>3, <1>4
      <4>2. QED
        BY <3>1, <4>1
  <2>3. QED
    BY <2>1, <2>2
<1>6. u \o v = x
  <2>1. \A p \in Seq(S), q \in Seq(S) :
           Len(p) = Len(q) /\ (\A i \in 1 .. Len(p) : p[i] = q[i]) => p = q
    OBVIOUS
  <2>2. QED
    BY <1>3, <1>4, <1>5, <2>1
<1>7. \A i \in 1 .. b : x[a + i] = <<r, a + i - 1>>
  BY <1>3
<1>8. QED
  BY <1>6, <1>7 DEF u, v, x

\* Rows the executor prefills, and what it computes for them.
LEMMA PrefillRows ==
    ASSUME EngineInv, WorksStand, HoldsAll, pc = "prefilling", NEW k \in DOMAIN plan.prefill,
           NEW w, w = plan.prefill[k]
    PROVE  /\ w.id \in Requests /\ w.start \in Nat /\ w.count \in Nat
           /\ state[w.id] = "PREFILL" /\ ngen[w.id] = 0
           /\ len[w.id] = w.start + w.count /\ Committed(w.id) = w.start
           /\ w.slots = Slots(table[w.id], w.start, w.count)
           /\ w.id \in PrefillIds /\ w.id \in PlannedIds
           /\ DenseAfter(w) = OwnTokens(w.id, 0, len[w.id])
           /\ \A i \in 1 .. w.count : ScatterEntry(w, i) = <<w.id, w.start + i - 1>>
<1>1. w \in PrefillWorks /\ w.id \in PrefillIds /\ w.id \in PlannedIds
  BY WorksNameRequests DEF EngineInv, SchedInv, PrefillIds, PlannedIds
<1>2. w.id \in Requests /\ w.start \in Nat /\ w.count \in Nat
  BY <1>1 DEF PrefillWorks
<1>3. /\ state[w.id] = "PREFILL" /\ inflight[w.id].count = w.count
      /\ w.start = cursor[w.id]
      /\ w.slots = Slots(table[w.id], w.start, w.count)
  <2>1. PrefillStands(w)
    BY DEF WorksStand, PrefillLeft
  <2>2. QED
    BY <2>1 DEF PrefillStands
<1>4. /\ ngen[w.id] = 0 /\ len[w.id] = w.start + w.count
  BY <1>2, <1>3 DEF EngineInv, SchedInv, RequestInv
<1>5. Committed(w.id) = w.start
  BY <1>2, <1>3, <1>4 DEF Committed
<1>6. dense[w.id] = OwnTokens(w.id, 0, w.start)
  <2>1. w.id \notin Written /\ ~Doomed(w.id)
    BY DEF Written, Doomed
  <2>2. QED
    BY <1>2, <1>3, <1>5, <2>1 DEF HoldsAll, HoldsInv, Doomed
<1>7. DenseAfter(w) = OwnTokens(w.id, 0, len[w.id])
  <2>1. DenseAfter(w) = OwnTokens(w.id, 0, w.start) \o OwnTokens(w.id, w.start, w.count)
    BY <1>6 DEF DenseAfter
  <2>2. QED
    <3>1. OwnTokens(w.id, 0, w.start) \o OwnTokens(w.id, w.start, w.count)
             = OwnTokens(w.id, 0, w.start + w.count)
      BY <1>2, OwnTokensJoin
    <3>2. QED
      BY <1>4, <2>1, <3>1
<1>8. \A i \in 1 .. w.count : ScatterEntry(w, i) = <<w.id, w.start + i - 1>>
  <2>1. DenseAfter(w) = OwnTokens(w.id, 0, w.start + w.count)
    BY <1>4, <1>7
  <2>2. QED
    <3>1. \A i \in 1 .. w.count :
             OwnTokens(w.id, 0, w.start + w.count)[w.start + i] = <<w.id, w.start + i - 1>>
      BY <1>2, OwnTokensJoin
    <3>2. QED
      BY <2>1, <3>1 DEF ScatterEntry
<1>9. QED
  BY <1>1, <1>2, <1>3, <1>4, <1>5, <1>7, <1>8

\* The slots of the works of a plan.
LEMMA ChunkSlots ==
    ASSUME EngineInv, WorksStand, HoldsAll, pc = "prefilling", NEW k \in DOMAIN plan.prefill,
           NEW i \in DOMAIN plan.prefill[k].slots
    PROVE  LET w == plan.prefill[k] IN
           /\ i \in 1 .. w.count /\ w.start + i - 1 \in 0 .. len[w.id] - 1
           /\ w.slots[i] = Slot(table[w.id], w.start + i - 1)
           /\ InFlightCell(w.slots[i]) /\ w.slots[i] \in Cells
<1> DEFINE w == plan.prefill[k]
<1>1. /\ w.id \in Requests /\ w.start \in Nat /\ w.count \in Nat
      /\ len[w.id] = w.start + w.count /\ Committed(w.id) = w.start
      /\ w.slots = Slots(table[w.id], w.start, w.count)
  BY PrefillRows
<1>2. i \in 1 .. w.count /\ w.slots[i] = Slot(table[w.id], w.start + i - 1)
  BY <1>1 DEF Slots
<1>3. w.start + i - 1 \in 0 .. len[w.id] - 1 /\ w.start <= w.start + i - 1
  BY <1>1, <1>2
<1>4. InFlightCell(w.slots[i])
  BY <1>1, <1>2, <1>3 DEF InFlightCell
<1>5. w.slots[i] \in Cells
  BY <1>1, <1>2, <1>3, OwnCell DEF EngineInv, SchedInv
<1>6. QED
  BY <1>2, <1>3, <1>4, <1>5

\* No two positions that are prefilled share a cell.
LEMMA ChunkSlotsDistinct ==
    ASSUME EngineInv, WorksStand, HoldsAll, pc = "prefilling",
           NEW k \in DOMAIN plan.prefill, NEW i \in DOMAIN plan.prefill[k].slots,
           NEW j \in DOMAIN plan.prefill, NEW m \in DOMAIN plan.prefill[j].slots,
           plan.prefill[k].slots[i] = plan.prefill[j].slots[m]
    PROVE  k = j /\ i = m
<1>1. NoSlotAliasing /\ WorksDistinct
  BY NoAliasing DEF EngineInv, SchedInv, PlansInv
<1>2. PICK v, w : v = plan.prefill[k] /\ w = plan.prefill[j]
  OBVIOUS
<1>3. /\ i \in 1 .. v.count /\ v.start + i - 1 \in 0 .. len[v.id] - 1
      /\ v.slots[i] = Slot(table[v.id], v.start + i - 1)
      /\ m \in 1 .. w.count /\ w.start + m - 1 \in 0 .. len[w.id] - 1
      /\ w.slots[m] = Slot(table[w.id], w.start + m - 1)
  BY <1>2, ChunkSlots
<1>4. v.id \in Requests /\ w.id \in Requests /\ v.start \in Nat /\ w.start \in Nat
  BY <1>2, PrefillRows
<1>5. Slot(table[v.id], v.start + i - 1) = Slot(table[w.id], w.start + m - 1)
  BY <1>2, <1>3
<1>6. v.id = w.id /\ v.start + i - 1 = w.start + m - 1
  BY <1>1, <1>3, <1>4, <1>5 DEF NoSlotAliasing
<1>7. k = j
  BY <1>1, <1>2, <1>6 DEF WorksDistinct
<1>8. QED
  BY <1>2, <1>3, <1>4, <1>6, <1>7

\* A prefill writes the tokens of its chunks, to cells in flight only.
LEMMA ScatteredCells ==
    ASSUME EngineInv, WorksStand, HoldsAll, pc = "prefilling",
           NEW n, 1 .. n \subseteq DOMAIN plan.prefill
    PROVE  /\ \A c \in Cells : InFlightCell(c) \/ Scattered(n)[c] = cells[c]
           /\ \A k \in 1 .. n : \A i \in DOMAIN plan.prefill[k].slots :
                 Scattered(n)[plan.prefill[k].slots[i]]
                    = <<plan.prefill[k].id, plan.prefill[k].start + i - 1>>
<1>1. ASSUME NEW c \in Cells PROVE InFlightCell(c) \/ Scattered(n)[c] = cells[c]
  <2>1. CASE \E k \in 1 .. n : \E i \in DOMAIN plan.prefill[k].slots : plan.prefill[k].slots[i] = c
    BY <2>1, ChunkSlots
  <2>2. CASE ~\E k \in 1 .. n : \E i \in DOMAIN plan.prefill[k].slots : plan.prefill[k].slots[i] = c
    BY <2>2 DEF Scattered
  <2>3. QED
    BY <2>1, <2>2
<1>2. ASSUME NEW k \in 1 .. n, NEW i \in DOMAIN plan.prefill[k].slots
      PROVE  Scattered(n)[plan.prefill[k].slots[i]]
                = <<plan.prefill[k].id, plan.prefill[k].start + i - 1>>
  <2> DEFINE c == plan.prefill[k].slots[i]
             j == CHOOSE x \in 1 .. n :
                     \E y \in DOMAIN plan.prefill[x].slots : plan.prefill[x].slots[y] = c
             m == CHOOSE y \in DOMAIN plan.prefill[j].slots : plan.prefill[j].slots[y] = c
  <2>1. k \in DOMAIN plan.prefill /\ c \in Cells /\ i \in 1 .. plan.prefill[k].count
    BY ChunkSlots
  <2>2. j \in 1 .. n /\ \E y \in DOMAIN plan.prefill[j].slots : plan.prefill[j].slots[y] = c
    OBVIOUS
  <2>3. m \in DOMAIN plan.prefill[j].slots /\ plan.prefill[j].slots[m] = c
    BY <2>2
  <2>4. j \in DOMAIN plan.prefill
    BY <2>2
  <2>5. Scattered(n)[c] = ScatterEntry(plan.prefill[j], m)
    BY <2>1 DEF Scattered
  <2> HIDE DEF j, m
  <2>6. j = k /\ m = i
    BY <2>1, <2>3, <2>4, ChunkSlotsDistinct
  <2>7. ScatterEntry(plan.prefill[k], i) = <<plan.prefill[k].id, plan.prefill[k].start + i - 1>>
    BY <2>1, PrefillRows
  <2>8. QED
    BY <2>5, <2>6, <2>7
<1>3. QED
  BY <1>1, <1>2

\* The dense caches after some works.
LEMMA DenseCells ==
    ASSUME EngineInv, WorksStand, HoldsAll, pc = "prefilling",
           NEW n, 1 .. n \subseteq DOMAIN plan.prefill, NEW r \in Requests
    PROVE  /\ (\E k \in 1 .. n : plan.prefill[k].id = r) =>
                 DenseAfterWorks(n)[r] = OwnTokens(r, 0, len[r])
           /\ (\A k \in 1 .. n : plan.prefill[k].id # r) => DenseAfterWorks(n)[r] = dense[r]
<1>1. CASE \A k \in 1 .. n : plan.prefill[k].id # r
  BY <1>1 DEF DenseAfterWorks
<1>2. CASE \E k \in 1 .. n : plan.prefill[k].id = r
  <2> DEFINE j == CHOOSE k \in 1 .. n : plan.prefill[k].id = r
  <2>1. j \in DOMAIN plan.prefill /\ plan.prefill[j].id = r
    BY <1>2
  <2>2. DenseAfterWorks(n)[r] = DenseAfter(plan.prefill[j])
    BY <1>2 DEF DenseAfterWorks
  <2> HIDE DEF j
  <2>3. DenseAfter(plan.prefill[j]) = OwnTokens(r, 0, len[r])
    BY <2>1, PrefillRows
  <2>4. QED
    BY <1>2, <2>2, <2>3
<1>3. QED
  BY <1>1, <1>2

\* A prefill that returns has written every chunk.
LEMMA PrefillReturnsHolds ==
    ASSUME EngineInv, WorksStand, HoldsAll, QwenPrefillReturns
    PROVE  HoldsAll'
<1> DEFINE n == Len(plan.prefill)
<1>0. /\ SchedInv /\ pc = "prefilling" /\ pc' = "commit_prefill" /\ row' = 1
      /\ cache' = cache \cup PrefillIds
      /\ UNCHANGED <<schedVars, events>> /\ plan' = plan
      /\ cells' = Scattered(n) /\ dense' = DenseAfterWorks(n)
  BY DEF EngineInv, QwenPrefillReturns, PrefillReturns, schedVars, planVars
<1>1. 1 .. n = DOMAIN plan.prefill /\ plan.prefill \in Seq(PrefillWorks)
  <2>1. plan.prefill \in Seq(PrefillWorks)
    BY DEF EngineInv, SchedInv, PlanInv
  <2>2. QED
    BY <2>1
<1>2. 1 .. n \subseteq DOMAIN plan.prefill
  BY <1>1
<1> HIDE DEF n
<1>3. Written = {} /\ Written' = PrefillIds
  <2>1. \A i \in DOMAIN plan.prefill : 1 <= i
    BY <1>1
  <2>2. RowsFrom(plan.prefill, 1) = PrefillIds
    BY <2>1 DEF RowsFrom, PrefillIds
  <2>3. QED
    BY <1>0, <2>2 DEF Written, RowsFrom
<1>4. \A c \in Cells : InFlightCell(c) \/ cells'[c] = cells[c]
  BY <1>0, <1>2, ScatteredCells
<1>5. ASSUME NEW r \in Requests, Unfinished(r) PROVE OwnPrefix(r, Committed(r))'
  BY <1>0, <1>4, <1>5, CommittedKept DEF HoldsAll, HoldsInv
<1>6. ASSUME NEW r \in Requests, r \notin PrefillIds PROVE HoldsInv(r)'
  <2>1. HoldsInv(r)
    BY DEF HoldsAll
  <2>2. r \in cache' <=> r \in cache
    BY <1>0, <1>6
  <2>3. dense'[r] = dense[r]
    BY <1>0, <1>2, <1>6, DenseCells DEF PrefillIds
  <2>4. QED
    BY <1>0, <1>3, <1>5, <1>6, <2>1, <2>2, <2>3, BystanderHolds DEF Doomed
<1>7. ASSUME NEW r \in Requests, r \in PrefillIds PROVE HoldsInv(r)'
  <2>1. PICK k \in DOMAIN plan.prefill : plan.prefill[k].id = r
    BY <1>7 DEF PrefillIds
  <2>2. PICK w : w = plan.prefill[k]
    OBVIOUS
  <2>3. /\ w.id = r /\ w.start \in Nat /\ w.count \in Nat
        /\ state[r] = "PREFILL" /\ ngen[r] = 0
        /\ len[r] = w.start + w.count /\ Committed(r) = w.start
        /\ w.slots = Slots(table[r], w.start, w.count)
    BY <1>0, <2>1, <2>2, PrefillRows
  <2>4. \A i \in DOMAIN w.slots : cells'[w.slots[i]] = <<r, w.start + i - 1>>
    <3>1. \A x \in 1 .. n : \A i \in DOMAIN plan.prefill[x].slots :
             Scattered(n)[plan.prefill[x].slots[i]]
                = <<plan.prefill[x].id, plan.prefill[x].start + i - 1>>
      BY <1>0, <1>2, ScatteredCells
    <3>2. k \in 1 .. n
      BY <1>1
    <3>3. QED
      BY <1>0, <2>1, <2>2, <3>1, <3>2
  <2>5. OwnPrefix(r, Committed(r))'
    BY <1>5, <2>3 DEF Unfinished, Active
  <2>6. /\ Committed(r)' = w.start /\ len'[r] = w.start + w.count /\ table' = table
        /\ state'[r] = "PREFILL" /\ ngen'[r] = 0
    BY <1>0, <2>3 DEF Committed, schedVars, kvVars, queueVars, requestVars
  <2>7. OwnPrefix(r, len[r])'
    <3>1. ASSUME NEW p \in 0 .. len'[r] - 1 PROVE cells'[Slot(table'[r], p)] = <<r, p>>
      <4>1. CASE p \in 0 .. w.start - 1
        BY <2>5, <2>6, <4>1 DEF OwnPrefix, Slot
      <4>2. CASE p \notin 0 .. w.start - 1
        <5>1. PICK i \in 1 .. w.count : p = w.start + i - 1
          <6>1. p - w.start + 1 \in 1 .. w.count /\ p = w.start + (p - w.start + 1) - 1
            BY <2>3, <2>6, <4>2
          <6>2. QED
            BY <6>1
        <5>2. i \in DOMAIN w.slots /\ w.slots[i] = Slot(table[r], p)
          BY <2>3, <5>1 DEF Slots
        <5>3. QED
          BY <2>4, <2>6, <5>1, <5>2 DEF Slot
      <4>3. QED
        BY <4>1, <4>2
    <3>2. QED
      BY <3>1 DEF OwnPrefix, Slot
  <2>8. dense'[r] = OwnTokens(r, 0, len[r])
    BY <1>0, <1>1, <1>2, <2>1, DenseCells
  <2>9. r \in cache'
    BY <1>0, <1>7
  <2>10. (dense[r] = OwnTokens(r, 0, len[r]))'
    BY <2>3, <2>6, <2>8 DEF OwnTokens
  <2>11. r \in Written'
    BY <1>3, <1>7
  <2>12. QED
    BY <2>5, <2>6, <2>7, <2>9, <2>10, <2>11 DEF HoldsInv, Unfinished, Active
<1>8. QED
  BY <1>6, <1>7 DEF HoldsAll

\* A prefill that raises may have written some of its chunks.
LEMMA PrefillRaisesHolds ==
    ASSUME EngineInv, WorksStand, HoldsAll, QwenPrefillRaises
    PROVE  HoldsAll'
<1>0. /\ SchedInv /\ pc = "prefilling" /\ pc' = "failing"
      /\ UNCHANGED <<schedVars, events>> /\ plan' = plan
      /\ plan.prefill \in Seq(PrefillWorks)
  BY DEF EngineInv, SchedInv, PlanInv, QwenPrefillRaises, PrefillRaises, ExecutionRaises,
         schedVars, planVars
<1>1. Written = {} /\ Written' = {}
  BY <1>0 DEF Written
<1>2. PICK n \in DOMAIN plan.prefill :
          LET r == plan.prefill[n].id
              slots == {plan.prefill[n].slots[i] : i \in DOMAIN plan.prefill[n].slots}
          IN \/ /\ cache' = cache \cup {plan.prefill[i].id : i \in 1 .. n - 1}
                /\ cells' = Scattered(n - 1)
                /\ \E torn \in {dense[r]} \cup ({Append(dense[r], Garbage)} \ {<<Garbage>>}) :
                      dense' = [DenseAfterWorks(n - 1) EXCEPT ![r] = torn]
             \/ /\ cache' = cache \cup {plan.prefill[i].id : i \in 1 .. n}
                /\ dense' = DenseAfterWorks(n)
                /\ \E torn \in SUBSET slots :
                      cells' = [c \in Cells |-> IF c \in torn THEN Garbage ELSE Scattered(n - 1)[c]]
  BY DEF QwenPrefillRaises
<1>3. /\ n \in Nat /\ 1 .. n \subseteq DOMAIN plan.prefill /\ 1 .. n - 1 \subseteq DOMAIN plan.prefill
      /\ n \in 1 .. n
  BY <1>0
<1>4. PICK r \in Requests : r = plan.prefill[n].id
  BY <1>0, PrefillRows
<1>5. /\ r \in PlannedIds
      /\ \A i \in 1 .. n : plan.prefill[i].id \in PlannedIds
  BY <1>3, <1>4 DEF PlannedIds
<1>6. \A c \in Cells : InFlightCell(c) \/ cells'[c] = cells[c]
  <2>1. \A c \in Cells : InFlightCell(c) \/ Scattered(n - 1)[c] = cells[c]
    BY <1>0, <1>3, ScatteredCells
  <2>2. CASE cells' = Scattered(n - 1)
    BY <2>1, <2>2
  <2>3. ASSUME NEW torn \in SUBSET {plan.prefill[n].slots[i] : i \in DOMAIN plan.prefill[n].slots},
               cells' = [c \in Cells |-> IF c \in torn THEN Garbage ELSE Scattered(n - 1)[c]]
        PROVE  \A c \in Cells : InFlightCell(c) \/ cells'[c] = cells[c]
    <3>1. \A c \in torn : InFlightCell(c)
      BY <1>0, ChunkSlots
    <3>2. QED
      BY <2>1, <2>3, <3>1
  <2>4. QED
    BY <1>2, <2>2, <2>3
<1>7. ASSUME NEW q \in Requests, Unfinished(q) PROVE OwnPrefix(q, Committed(q))'
  BY <1>0, <1>6, <1>7, CommittedKept DEF HoldsAll, HoldsInv
<1>8. /\ \A q \in cache : q \in cache'
      /\ \A q \in cache' : q \in cache \/ \E i \in 1 .. n : q = plan.prefill[i].id
  <2>1. CASE cache' = cache \cup {plan.prefill[i].id : i \in 1 .. n - 1}
    <3>1. \A i \in 1 .. n - 1 : i \in 1 .. n
      BY <1>3
    <3>2. QED
      BY <2>1, <3>1
  <2>2. CASE cache' = cache \cup {plan.prefill[i].id : i \in 1 .. n}
    BY <2>2
  <2>3. QED
    BY <1>2, <2>1, <2>2
<1>9. PICK m \in {n - 1, n} :
          \/ m = n /\ dense' = DenseAfterWorks(m) /\ \A i \in 1 .. m : plan.prefill[i].id \in cache'
          \/ /\ m = n - 1 /\ \A i \in 1 .. m : plan.prefill[i].id \in cache'
             /\ \E torn : /\ dense' = [DenseAfterWorks(m) EXCEPT ![r] = torn]
                          /\ torn = dense[r] \/ (torn = Append(dense[r], Garbage) /\ torn # <<Garbage>>)
  BY <1>2, <1>3, <1>4
<1>10. 1 .. m \subseteq DOMAIN plan.prefill /\ \A i \in 1 .. m : i \in 1 .. n
  BY <1>3, <1>9
<1>11. ASSUME NEW q \in Requests, q \notin PlannedIds PROVE HoldsInv(q)'
  <2>1. HoldsInv(q)
    BY DEF HoldsAll
  <2>2. q \in cache' <=> q \in cache
    BY <1>5, <1>8, <1>11
  <2>3. DenseAfterWorks(m)[q] = dense[q]
    BY <1>0, <1>5, <1>10, <1>11, DenseCells
  <2>4. dense'[q] = dense[q]
    <3>1. DenseAfterWorks(m) = [x \in Requests |-> DenseAfterWorks(m)[x]] /\ q # r
      BY <1>5, <1>11 DEF DenseAfterWorks
    <3>2. ASSUME NEW torn, dense' = [DenseAfterWorks(m) EXCEPT ![r] = torn]
          PROVE  dense'[q] = dense[q]
      BY <2>3, <3>1, <3>2
    <3>3. QED
      BY <1>9, <2>3, <3>2
  <2>5. QED
    BY <1>0, <1>1, <1>7, <2>1, <2>2, <2>4, BystanderHolds DEF Doomed
<1>12. ASSUME NEW q \in Requests, q \in PlannedIds PROVE HoldsInv(q)'
  <2>1. HoldsInv(q) /\ q \in PlannedIds'
    BY <1>0, <1>12 DEF HoldsAll, PlannedIds
  <2>2. dense'[q] # <<>> => q \in cache'
    <3>1. (\A k \in 1 .. m : plan.prefill[k].id # q) => DenseAfterWorks(m)[q] = dense[q]
      BY <1>0, <1>10, DenseCells
    <3>2. dense[q] # <<>> => q \in cache'
      BY <1>8, <2>1 DEF HoldsInv
    <3>3. DenseAfterWorks(m)[q] # <<>> => q \in cache'
      BY <1>9, <3>1, <3>2
    <3>4. CASE dense' = DenseAfterWorks(m)
      BY <3>3, <3>4
    <3>5. ASSUME NEW torn, dense' = [DenseAfterWorks(m) EXCEPT ![r] = torn],
                 torn = dense[r] \/ (torn = Append(dense[r], Garbage) /\ torn # <<Garbage>>)
          PROVE  dense'[q] # <<>> => q \in cache'
      <4>1. CASE q # r
        <5>1. DenseAfterWorks(m) = [x \in Requests |-> DenseAfterWorks(m)[x]]
          BY DEF DenseAfterWorks
        <5>2. QED
          BY <3>3, <3>5, <4>1, <5>1
      <4>2. CASE q = r
        <5>1. dense'[r] = torn
          BY <3>5 DEF DenseAfterWorks
        <5>2. Append(<<>>, Garbage) = <<Garbage>>
          OBVIOUS
        <5>3. torn # <<>> => dense[r] # <<>>
          BY <3>5, <5>2
        <5>4. QED
          BY <3>2, <4>2, <5>1, <5>3
      <4>3. QED
        BY <4>1, <4>2
    <3>6. QED
      BY <1>9, <3>4, <3>5
  <2>3. q \in cache' => q \in cache \/ (state[q] = "PREFILL" /\ ngen[q] = 0)
    <3>1. \A i \in 1 .. n : state[plan.prefill[i].id] = "PREFILL" /\ ngen[plan.prefill[i].id] = 0
      BY <1>0, <1>3, PrefillRows
    <3>2. QED
      BY <1>8, <3>1
  <2>4. Unfinished(q)' => OwnPrefix(q, Committed(q))'
    BY <1>0, <1>7 DEF Unfinished, schedVars, requestVars
  <2>5. QED
    BY <1>0, <1>1, <2>1, <2>2, <2>3, <2>4
       DEF HoldsInv, Unfinished, Active, schedVars, requestVars
<1>13. QED
  BY <1>11, <1>12 DEF HoldsAll

-----------------------------------------------------------------------------
\* Every step of the engine with this executor.

\* Every step of the executor is a step of the engine, or none.
LEMMA ExecutorStepsEngine == [QwenNext]_qwenVars => [Next]_vars
<1>1. QwenNext => Next
  <2>1. EngineStepOffDevice => LoopStep
    BY DEF EngineStepOffDevice, LoopStep
  <2>2. QED
    BY <2>1 DEF QwenNext, QwenDecodeReturns, QwenDecodeRaises, QwenPrefillReturns,
                QwenPrefillRaises, Next, LoopStep
<1>2. UNCHANGED qwenVars => UNCHANGED vars
  BY DEF qwenVars
<1>3. QED
  BY <1>1, <1>2

\* Every step keeps the cells of every request.
LEMMA HoldsNext ==
    EngineInv /\ StoriesInv /\ WorksStand /\ HoldsAll /\ [QwenNext]_qwenVars => HoldsAll'
<1> SUFFICES ASSUME EngineInv, StoriesInv, WorksStand, HoldsAll, [QwenNext]_qwenVars
             PROVE  HoldsAll'
  OBVIOUS
<1>1. CASE UNCHANGED qwenVars
  <2>1. /\ UNCHANGED <<pc, row, plan, state, ngen, events, cache, table, len, inflight>>
        /\ UNCHANGED <<cells, dense>>
    BY <1>1 DEF qwenVars, vars, engineVars, schedVars, kvVars, requestVars, queueVars, planVars
  <2>2. Written' = Written /\ PlannedIds' = PlannedIds
    BY <2>1 DEF Written, RowsFrom, PlannedIds
  <2>3. QED
    BY <2>1, <2>2 DEF HoldsAll, HoldsInv, Committed, OwnPrefix, OwnTokens, Slot, Unfinished
<1>2. CASE QwenDecodeReturns \/ QwenDecodeRaises \/ QwenPrefillReturns \/ QwenPrefillRaises
  BY <1>2, DecodeReturnsHolds, DecodeRaisesHolds, PrefillReturnsHolds, PrefillRaisesHolds
<1>3. CASE EngineStepOffDevice /\ OffDevice
  <2>1. CASE StepPlan
    BY <1>3, <2>1, PlanningHolds
  <2>2. CASE CommitDecode \/ CommitPrefill \/ SampleFirst
    BY <1>3, <2>2, DecodeCommitHolds, PrefillCommitHolds, SampleHolds
  <2>3. CASE \E r \in Requests : StepExpire(r) \/ StepPlanExpire(r) \/ FailOne(r)
    BY <1>3, <2>3, EndsHold
  <2>4. QED
    BY <1>3, <2>1, <2>2, <2>3, PausesHold DEF EngineStepOffDevice
<1>4. CASE ClientStep /\ OffDevice
  <2>1. CASE \E r \in Requests, s \in Shapes : ClientSubmit(r, s)
    BY <1>4, <2>1, SubmitHolds
  <2>2. CASE \E r \in Requests : ClientCancel(r)
    BY <1>4, <2>2, EndsHold
  <2>3. CASE Close \/ \E r \in Requests : ClockAdvances(r)
    BY <1>4, <2>3, PausesHold
  <2>4. QED
    BY <1>4, <2>1, <2>2, <2>3 DEF ClientStep
<1>5. QED
  BY <1>1, <1>2, <1>3, <1>4 DEF QwenNext

\* The invariants of the engine and of the cells, in every reachable state.
LEMMA QwenInvariant == QwenSpec => [](EngineInv /\ StoriesInv /\ WorksStand /\ HoldsAll)
<1>1. QwenInit => Init
  BY DEF QwenInit
<1>2. QwenInit => HoldsAll
  BY DEF QwenInit, Init, SchedInit, KVInit, HoldsAll, HoldsInv, Written, Unfinished, Active
<1>3. QwenSpec => Spec
  BY <1>1, ExecutorStepsEngine, PTL DEF QwenSpec, Spec
<1>4. QED
  BY <1>2, <1>3, HoldsNext, EngineInvariant, StoriesInvariant, WorksInvariant, PTL DEF QwenSpec

\* Whatever is planned, reused, refused or raised around it, every committed
\* position of an active request holds the keys and values of its own token,
\* computed from its own prefix, for any pool, batch and request shapes.
THEOREM PagesAreOwn == QwenSpec => []PagesHoldOwnPrefix
<1>1. HoldsAll => PagesHoldOwnPrefix
  BY DEF HoldsAll, HoldsInv, Committed, PagesHoldOwnPrefix
<1>2. QED
  BY <1>1, QwenInvariant, PTL

\* Between two steps the dense cache of a prefilling request is exactly the
\* committed part of its prompt, and no dense cache outlives the prefill, except
\* that of a request timed out by plan().
THEOREM DenseCachesFollow == QwenSpec => []DenseCacheFollowsPrefill
<1>1. EngineInv /\ HoldsAll => DenseCacheFollowsPrefill
  <2> SUFFICES ASSUME EngineInv, HoldsAll, ~Executing, NEW r \in Requests
               PROVE  /\ state[r] = "PREFILL" => dense[r] = OwnTokens(r, 0, cursor[r])
                      /\ dense[r] # <<>> => \/ Unfinished(r) /\ ngen[r] <= 1
                                            \/ state[r] = "TIMED_OUT" /\ ~Closed(r)
    BY DEF DenseCacheFollowsPrefill
  <2>1. r \notin Written /\ ~Doomed(r) /\ HoldsInv(r)
    BY DEF Executing, Written, Doomed, HoldsAll
  <2>2. state[r] = "PREFILL" => Committed(r) = cursor[r]
    <3>1. state[r] = "PREFILL" => len[r] = cursor[r] + inflight[r].count
      BY DEF EngineInv, SchedInv, RequestInv
    <3>2. cursor[r] \in Nat /\ inflight[r].count \in Nat
      BY DEF EngineInv, SchedInv, ControlTypeOK
    <3>3. QED
      BY <3>1, <3>2 DEF Committed
  <2>3. QED
    BY <2>1, <2>2 DEF HoldsInv, Doomed, Closed, Ended
<1>2. QED
  BY <1>1, QwenInvariant, PTL
=============================================================================
