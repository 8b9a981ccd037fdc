---------------------------- MODULE Engine_proofs ----------------------------
(***************************************************************************)
(* Proofs about the serving engine, for every set of requests, pool,       *)
(* bucket table and limit. It uses the scheduler as the scheduler expects, *)
(* so all that is proved of the scheduler holds in the engine; then what   *)
(* the engine itself promises, and what clients are told: the events of    *)
(* their queues, the counters, the abstract stream they see, and what the  *)
(* completion endpoints answer.                                            *)
(***************************************************************************)
EXTENDS CompletionAPI, Scheduler_proofs

-----------------------------------------------------------------------------
\* The inductive invariant.

\* The types of the engine's own variables.
Events == {Token, "stop", "length", "error", "cancelled", "timeout"}

Counters == [submitted : Nat, rejected : Nat, cancelled : Nat, timed_out : Nat,
             failed : Nat, completed : Nat, generated_tokens : Nat]

EngineTypeOK ==
    /\ pc \in PCs
    /\ row \in Nat
    /\ stopping \in BOOLEAN
    /\ events \in [Requests -> Seq(Events)]
    /\ metrics \in Counters
    /\ cache \in SUBSET Requests
    /\ blamed \in SUBSET Requests

\* The loops of plan() and expire() run only where the engine calls them.
PhaseInv ==
    /\ pc = "expire" => phase = "expire"
    /\ pc = "plan" => phase \in {"idle", "plan_expire", "plan_decode", "plan_prefill"}
    /\ pc \notin {"expire", "plan"} => phase = "idle"
    /\ pc # "crashed"

\* Works of the plan that are not committed yet.
RowsFrom(works, n) == {works[i].id : i \in {j \in DOMAIN works : n <= j}}

Pending ==
    CASE pc \in {"decode", "decoding", "failing"} -> PlannedIds
      [] pc = "commit_decode" -> RowsFrom(plan.decode, row) \cup PrefillIds
      [] pc \in {"prefill", "prefilling"} -> PrefillIds
      [] pc = "commit_prefill" -> RowsFrom(plan.prefill, row)
      [] pc = "sample" -> RowsFrom(plan.prefill, row + 1)
      [] OTHER -> {}

InPlan == pc = "plan" /\ phase # "idle"

\* Between two steps nothing is in flight; during a step, only works of the plan
\* that are still to be committed or failed. A request that lacks its first token
\* is the one being sampled, or is about to fail.
CommitInv ==
    /\ ~InPlan => \A r \in Requests : ~Idle(r) => r \in Pending
    /\ \A r \in Requests : AwaitsFirstSample(r) =>
          \/ pc = "sample" /\ r = plan.prefill[row].id
          \/ pc = "failing" /\ r \in PlannedIds
    /\ pc = "sample" => row \in DOMAIN plan.prefill
    /\ pc \in {"commit_decode", "commit_prefill", "sample"} => row > 0

EngineInv ==
    /\ SchedInv
    /\ PlansInv
    /\ OrderInv
    /\ SlotsInv
    /\ EngineTypeOK
    /\ PhaseInv
    /\ CommitInv

-----------------------------------------------------------------------------
\* The engine's steps are steps of the scheduler's specification.

\* Every step of the engine is a step of the scheduler, or none.
LEMMA EngineStepsScheduler ==
    ASSUME EngineInv, [Next]_vars
    PROVE  [SchedNext]_schedVars
<1>1. CASE UNCHANGED vars
  BY <1>1 DEF vars
<1>2. CASE \E r \in Requests, s \in Shapes : ClientSubmit(r, s)
  BY <1>2 DEF ClientSubmit, SchedNext
<1>3. CASE \E r \in Requests : ClientCancel(r) \/ ClockAdvances(r)
  BY <1>3 DEF ClientCancel, ClockAdvances, SchedNext
<1>4. CASE \/ Close \/ Wake \/ StartDecode \/ DecodeReturns \/ DecodeRaises \/ CommitDecodeEnd
           \/ SampleRaises \/ StartPrefill \/ PrefillReturns \/ PrefillRaises
           \/ CommitPrefillEnd \/ FailingEnd
  BY <1>4 DEF Close, Wake, StartDecode, DecodeReturns, DecodeRaises, CommitDecodeEnd,
              SampleRaises, StartPrefill, PrefillReturns, PrefillRaises, CommitPrefillEnd,
              FailingEnd, ExecutionRaises
<1>5. CASE LoopTop
  BY <1>5 DEF LoopTop, SchedNext
<1>6. CASE StepExpired
  BY <1>6 DEF StepExpired, SchedNext
<1>7. CASE StepPlanBegin
  <2>1. CASE NothingInFlight
    <3>1. PlanBegin
      BY <1>7, <2>1 DEF StepPlanBegin
    <3>2. \A r \in Requests : ~AwaitsFirstSample(r)
      BY <1>7 DEF StepPlanBegin, EngineInv, CommitInv
    <3>3. QED
      BY <3>1, <3>2 DEF SchedNext
  <2>2. CASE ~NothingInFlight
    BY <1>7, <2>2 DEF StepPlanBegin
  <2>3. QED
    BY <2>1, <2>2
<1>8. CASE StepPlan
  BY <1>8 DEF StepPlan, SchedNext
<1>9. CASE CommitDecode
  <2>1. CASE DecodeCommits(plan.decode[row].id)
    <3>1. row \in DOMAIN plan.decode
      BY <1>9 DEF CommitDecode, EngineInv, EngineTypeOK, CommitInv, SchedInv, PlanInv
    <3>2. plan.decode[row].id \in Requests
      BY <3>1, WorksNameRequests DEF EngineInv, SchedInv
    <3>3. \E stopped \in BOOLEAN : CompleteDecode(plan.decode[row].id, stopped)
      BY <1>9, <2>1 DEF CommitDecode
    <3>4. QED
      BY <3>2, <3>3 DEF SchedNext, CommitStep
  <2>2. CASE ~DecodeCommits(plan.decode[row].id)
    BY <1>9, <2>2 DEF CommitDecode
  <2>3. QED
    BY <2>1, <2>2
<1>10. CASE CommitPrefill
  <2>1. CASE PrefillCommits(plan.prefill[row].id, plan.prefill[row].count)
    <3>1. row \in DOMAIN plan.prefill
      BY <1>10 DEF CommitPrefill, EngineInv, EngineTypeOK, CommitInv, SchedInv, PlanInv
    <3>2. plan.prefill[row].id \in Requests
      BY <3>1, WorksNameRequests DEF EngineInv, SchedInv
    <3>3. CompletePrefill(plan.prefill[row].id, plan.prefill[row].count)
      BY <1>10, <2>1 DEF CommitPrefill
    <3>4. inflight[plan.prefill[row].id].count = plan.prefill[row].count
      BY <2>1 DEF PrefillCommits
    <3>5. QED
      BY <3>2, <3>3, <3>4 DEF SchedNext, CommitStep
  <2>2. CASE ~PrefillCommits(plan.prefill[row].id, plan.prefill[row].count)
    BY <1>10, <2>2 DEF CommitPrefill
  <2>3. QED
    BY <2>1, <2>2
<1>11. CASE SampleFirst
  <2>1. CASE SampleCommits(plan.prefill[row].id)
    <3>1. plan.prefill[row].id \in Requests
      BY <1>11, WorksNameRequests DEF SampleFirst, EngineInv, CommitInv, SchedInv
    <3>2. \E stopped \in BOOLEAN : CompletePrefillSample(plan.prefill[row].id, stopped)
      BY <1>11, <2>1 DEF SampleFirst
    <3>3. QED
      BY <3>1, <3>2 DEF SchedNext, CommitStep
  <2>2. CASE ~SampleCommits(plan.prefill[row].id)
    BY <1>11, <2>2 DEF SampleFirst
  <2>3. QED
    BY <2>1, <2>2
<1>12. CASE \E r \in Requests : StepExpire(r) \/ StepPlanExpire(r)
  BY <1>12 DEF StepExpire, StepPlanExpire, SchedNext
<1>13. CASE \E r \in Requests : FailOne(r)
  BY <1>13 DEF FailOne, FailTargets, SchedNext
<1>14. QED
  BY <1>1, <1>2, <1>3, <1>4, <1>5, <1>6, <1>7, <1>8, <1>9, <1>10, <1>11, <1>12, <1>13
     DEF Next, LoopStep, ClientStep

\* So the scheduler's invariants hold under the engine.
LEMMA SchedulerPartKept ==
    ASSUME EngineInv, [Next]_vars
    PROVE  SchedInv' /\ PlansInv' /\ OrderInv' /\ SlotsInv'
BY EngineStepsScheduler, SchedNextInv, PlansNextInv, OrderNextInv, SlotsNextInv DEF EngineInv

-----------------------------------------------------------------------------
\* The types of the engine's variables.

\* One event more.
LEMMA TellTyped ==
    ASSUME EngineTypeOK, NEW r \in Requests, NEW e \in Events,
           events' = [events EXCEPT ![r] = Append(@, e)]
    PROVE  events' \in [Requests -> Seq(Events)]
BY DEF EngineTypeOK

\* One count more.
LEMMA CountTyped ==
    ASSUME NEW m \in Counters
    PROVE  /\ [m EXCEPT !.submitted = @ + 1] \in Counters
           /\ [m EXCEPT !.rejected = @ + 1] \in Counters
           /\ [m EXCEPT !.cancelled = @ + 1] \in Counters
           /\ [m EXCEPT !.timed_out = @ + 1] \in Counters
           /\ [m EXCEPT !.failed = @ + 1] \in Counters
           /\ [m EXCEPT !.generated_tokens = @ + 1, !.completed = @ + 1] \in Counters
           /\ [m EXCEPT !.generated_tokens = @ + 1, !.completed = @] \in Counters
<1>1. [m EXCEPT !.submitted = @ + 1] \in Counters
  BY DEF Counters
<1>2. [m EXCEPT !.rejected = @ + 1] \in Counters
  BY DEF Counters
<1>3. [m EXCEPT !.cancelled = @ + 1] \in Counters
  BY DEF Counters
<1>4. [m EXCEPT !.timed_out = @ + 1] \in Counters
  BY DEF Counters
<1>5. [m EXCEPT !.failed = @ + 1] \in Counters
  BY DEF Counters
<1>6. ASSUME NEW a \in Nat, NEW b \in Nat
      PROVE  [m EXCEPT !.generated_tokens = a, !.completed = b] \in Counters
  <2>1. [m EXCEPT !.generated_tokens = a] \in Counters
    BY DEF Counters
  <2>2. \A k \in Counters : [k EXCEPT !.completed = b] \in Counters
    BY DEF Counters
  <2>3. [m EXCEPT !.generated_tokens = a, !.completed = b]
          = [[m EXCEPT !.generated_tokens = a] EXCEPT !.completed = b]
    OBVIOUS
  <2>4. QED
    BY <2>1, <2>2, <2>3
<1>7. m.generated_tokens + 1 \in Nat /\ m.completed \in Nat /\ m.completed + 1 \in Nat
  BY DEF Counters
<1>8. QED
  BY <1>1, <1>2, <1>3, <1>4, <1>5, <1>6, <1>7

\* Recording a token keeps the types.
LEMMA RecordTokenTyped ==
    ASSUME EngineTypeOK, NEW r \in Requests, NEW stopped \in BOOLEAN, RecordToken(r, stopped)
    PROVE  /\ events' \in [Requests -> Seq(Events)]
           /\ metrics' \in Counters
           /\ cache' \in SUBSET Requests
<1>1. metrics' \in Counters
  <2>1. metrics \in Counters
    BY DEF EngineTypeOK
  <2>2. \/ metrics' = [metrics EXCEPT !.generated_tokens = @ + 1, !.completed = @ + 1]
        \/ metrics' = [metrics EXCEPT !.generated_tokens = @ + 1, !.completed = @]
    BY DEF RecordToken
  <2>3. QED
    BY <2>1, <2>2, CountTyped
<1>2. cache' \in SUBSET Requests
  BY DEF RecordToken, EngineTypeOK
<1>3. events' \in [Requests -> Seq(Events)]
  <2>1. <<Token, FinishReason(stopped)>> \in Seq(Events) /\ Token \in Events
    BY DEF Events, FinishReason
  <2>2. events[r] \o <<Token, FinishReason(stopped)>> \in Seq(Events)
    BY <2>1 DEF EngineTypeOK
  <2>3. Append(events[r], Token) \in Seq(Events)
    BY <2>1 DEF EngineTypeOK
  <2>4. \/ events' = [events EXCEPT ![r] = events[r] \o <<Token, FinishReason(stopped)>>]
        \/ events' = [events EXCEPT ![r] = Append(events[r], Token)]
    BY DEF RecordToken
  <2>5. QED
    BY <2>2, <2>3, <2>4 DEF EngineTypeOK
<1>4. QED
  BY <1>1, <1>2, <1>3

\* Every step of the engine keeps its types.
LEMMA EngineTypesKept ==
    ASSUME EngineInv, [Next]_vars
    PROVE  EngineTypeOK'
<1>0. EngineTypeOK /\ PlannedIds \subseteq Requests
  BY WorksNameRequests DEF EngineInv, SchedInv
<1>1. CASE UNCHANGED vars
  BY <1>0, <1>1 DEF vars, engineVars, EngineTypeOK
<1>2. ASSUME NEW r \in Requests, NEW s \in Shapes, ClientSubmit(r, s) PROVE EngineTypeOK'
  <2>1. metrics' \in Counters
    <3>1. \/ metrics' = [metrics EXCEPT !.rejected = @ + 1]
          \/ metrics' = [metrics EXCEPT !.submitted = @ + 1]
          \/ metrics' = metrics
      BY <1>2 DEF ClientSubmit
    <3>2. QED
      BY <1>0, <3>1, CountTyped DEF EngineTypeOK
  <2>2. QED
    BY <1>0, <1>2, <2>1 DEF ClientSubmit, EngineTypeOK
<1>3. ASSUME NEW r \in Requests,
             ClientCancel(r) \/ StepExpire(r) \/ FailOne(r)
      PROVE  EngineTypeOK'
  <2>1. metrics' \in Counters
    <3>1. \/ metrics' = [metrics EXCEPT !.cancelled = @ + 1]
          \/ metrics' = [metrics EXCEPT !.timed_out = @ + 1]
          \/ metrics' = [metrics EXCEPT !.failed = @ + 1]
      BY <1>3 DEF ClientCancel, StepExpire, FailOne
    <3>2. QED
      BY <1>0, <3>1, CountTyped DEF EngineTypeOK
  <2>2. \E e \in Events : events' = [events EXCEPT ![r] = Append(@, e)]
    BY <1>3 DEF ClientCancel, StepExpire, FailOne, FinishEvent, Events
  <2>3. cache' = cache \ {r} /\ UNCHANGED <<pc, row, stopping, blamed>>
    BY <1>3 DEF ClientCancel, StepExpire, FailOne, FinishEvent
  <2>4. QED
    BY <1>0, <2>1, <2>2, <2>3, TellTyped DEF EngineTypeOK
<1>4. ASSUME NEW r \in Requests, ClockAdvances(r) \/ StepPlanExpire(r) PROVE EngineTypeOK'
  BY <1>0, <1>4 DEF ClockAdvances, StepPlanExpire, engineVars, EngineTypeOK
<1>5. CASE \/ Close \/ Wake \/ LoopTop \/ StepExpired \/ StepPlanBegin \/ StepPlan
           \/ StartDecode \/ CommitDecodeEnd \/ StartPrefill \/ CommitPrefill
           \/ CommitPrefillEnd \/ FailingEnd
  <2>1. pc' \in PCs
    BY <1>0, <1>5 DEF Close, Wake, LoopTop, StepExpired, StepPlanBegin, StepPlan, StartDecode,
                      CommitDecodeEnd, StartPrefill, CommitPrefill, CommitPrefillEnd,
                      FailingEnd, EngineTypeOK, PCs
  <2>2. row' \in Nat /\ stopping' \in BOOLEAN
    <3>1. CASE CommitPrefill
      <4>1. row' = row \/ row' = row + 1
        BY <3>1 DEF CommitPrefill
      <4>2. QED
        BY <1>0, <3>1, <4>1 DEF CommitPrefill, EngineTypeOK
    <3>2. CASE ~CommitPrefill
      BY <1>0, <1>5, <3>2 DEF Close, Wake, LoopTop, StepExpired, StepPlanBegin, StepPlan,
                              StartDecode, CommitDecodeEnd, StartPrefill, CommitPrefillEnd,
                              FailingEnd, EngineTypeOK
    <3>3. QED
      BY <3>1, <3>2
  <2>3. UNCHANGED <<events, metrics, cache, blamed>>
    BY <1>5 DEF Close, Wake, LoopTop, StepExpired, StepPlanBegin, StepPlan, StartDecode,
                CommitDecodeEnd, StartPrefill, CommitPrefill, CommitPrefillEnd, FailingEnd
  <2>4. QED
    BY <1>0, <2>1, <2>2, <2>3 DEF EngineTypeOK
<1>6. CASE DecodeReturns \/ PrefillReturns
  <2>1. PrefillIds \subseteq Requests
    BY <1>0 DEF PrefillIds, PlannedIds
  <2>2. QED
    BY <1>0, <1>6, <2>1 DEF DecodeReturns, PrefillReturns, EngineTypeOK, PCs
<1>7. CASE DecodeRaises \/ PrefillRaises \/ SampleRaises
  <2>1. /\ pc' = "failing" /\ blamed' = blamed \cup PlannedIds
        /\ UNCHANGED <<row, stopping, events, metrics>>
    BY <1>7 DEF DecodeRaises, PrefillRaises, SampleRaises, ExecutionRaises
  <2>2. cache' \in SUBSET Requests
    <3>1. CASE DecodeRaises \/ SampleRaises
      BY <1>0, <3>1 DEF DecodeRaises, SampleRaises, EngineTypeOK
    <3>2. CASE PrefillRaises
      <4>1. PICK n \in 0 .. Len(plan.prefill) :
                cache' = cache \cup {plan.prefill[i].id : i \in 1 .. n}
        BY <3>2 DEF PrefillRaises
      <4>2. DOMAIN plan.prefill = 1 .. Len(plan.prefill) /\ Len(plan.prefill) \in Nat
        BY WorksNameRequests DEF EngineInv, SchedInv
      <4>3. \A i \in 1 .. n : plan.prefill[i].id \in Requests
        BY <4>2, WorksNameRequests DEF EngineInv, SchedInv
      <4>4. QED
        BY <1>0, <4>1, <4>3 DEF EngineTypeOK
    <3>3. QED
      BY <1>7, <3>1, <3>2
  <2>3. QED
    BY <1>0, <2>1, <2>2 DEF EngineTypeOK, PCs
<1>8. CASE CommitDecode
  <2>1. row \in DOMAIN plan.decode
    BY <1>8 DEF CommitDecode, EngineInv, EngineTypeOK, CommitInv, SchedInv, PlanInv
  <2>2. plan.decode[row].id \in Requests
    BY <2>1, WorksNameRequests DEF EngineInv, SchedInv
  <2>3. CASE DecodeCommits(plan.decode[row].id)
    <3>1. PICK stopped \in BOOLEAN : RecordToken(plan.decode[row].id, stopped)
      BY <1>8, <2>3 DEF CommitDecode
    <3>2. row' = row + 1 /\ UNCHANGED <<pc, stopping, blamed>>
      BY <1>8, <2>3 DEF CommitDecode
    <3>3. QED
      BY <1>0, <2>2, <3>1, <3>2, RecordTokenTyped DEF EngineTypeOK
  <2>4. CASE ~DecodeCommits(plan.decode[row].id)
    BY <1>0, <1>8, <2>4 DEF CommitDecode, EngineTypeOK, PCs
  <2>5. QED
    BY <2>3, <2>4
<1>9. CASE SampleFirst
  <2>2. plan.prefill[row].id \in Requests
    BY <1>9, WorksNameRequests DEF SampleFirst, EngineInv, CommitInv, SchedInv
  <2>3. CASE SampleCommits(plan.prefill[row].id)
    <3>1. PICK stopped \in BOOLEAN : RecordToken(plan.prefill[row].id, stopped)
      BY <1>9, <2>3 DEF SampleFirst
    <3>2. row' = row + 1 /\ pc' = "commit_prefill" /\ UNCHANGED <<stopping, blamed>>
      BY <1>9, <2>3 DEF SampleFirst
    <3>3. QED
      BY <1>0, <2>2, <3>1, <3>2, RecordTokenTyped DEF EngineTypeOK, PCs
  <2>4. CASE ~SampleCommits(plan.prefill[row].id)
    BY <1>0, <1>9, <2>4 DEF SampleFirst, EngineTypeOK, PCs
  <2>5. QED
    BY <2>3, <2>4
<1>10. QED
  BY <1>1, <1>2, <1>3, <1>4, <1>5, <1>6, <1>7, <1>8, <1>9 DEF Next, LoopStep, ClientStep

-----------------------------------------------------------------------------
\* Where the loops of plan() and expire() run.

\* Every step keeps the phase of the plan that of the loop, and never raises.
LEMMA PhaseKept ==
    ASSUME EngineInv, [Next]_vars
    PROVE  PhaseInv'
<1>0. PhaseInv /\ phase' # "raised" /\ phase' \in Phases
  BY SchedulerPartKept DEF EngineInv, SchedInv, LoopInv, ControlTypeOK
<1>1. CASE UNCHANGED vars
  BY <1>0, <1>1 DEF vars, schedVars, planVars, engineVars, PhaseInv
<1>2. CASE \/ \E r \in Requests, s \in Shapes : ClientSubmit(r, s)
           \/ \E r \in Requests : ClientCancel(r) \/ FailOne(r) \/ ClockAdvances(r)
           \/ \E r \in Requests : StepExpire(r) \/ StepPlanExpire(r)
  <2>1. UNCHANGED <<pc, phase>>
    BY <1>2 DEF ClientSubmit, Submit, ClientCancel, Cancel, FailOne, Fail, ClockAdvances,
                DeadlinePasses, StepExpire, StepPlanExpire, ExpireOne, engineVars, planVars
  <2>2. QED
    BY <1>0, <2>1 DEF PhaseInv
<1>3. CASE \/ Close \/ Wake \/ StartDecode \/ DecodeReturns \/ DecodeRaises \/ CommitDecodeEnd
           \/ SampleRaises \/ StartPrefill \/ PrefillReturns \/ PrefillRaises
           \/ CommitPrefillEnd \/ FailingEnd
  <2>1. phase' = phase
    BY <1>3 DEF Close, Wake, StartDecode, DecodeReturns, DecodeRaises, CommitDecodeEnd,
                SampleRaises, StartPrefill, PrefillReturns, PrefillRaises,
                CommitPrefillEnd, FailingEnd, ExecutionRaises, schedVars, planVars
  <2>2. \/ pc' = pc
        \/ pc \notin {"expire", "plan"} /\ pc' \notin {"expire", "plan", "crashed"}
    BY <1>3 DEF Close, Wake, StartDecode, DecodeReturns, DecodeRaises, CommitDecodeEnd,
                SampleRaises, StartPrefill, PrefillReturns, PrefillRaises,
                CommitPrefillEnd, FailingEnd, ExecutionRaises
  <2>3. QED
    BY <1>0, <2>1, <2>2 DEF PhaseInv
<1>4. CASE LoopTop
  BY <1>0, <1>4 DEF LoopTop, ExpireBegin, PhaseInv, schedVars, planVars
<1>5. CASE StepExpired
  BY <1>0, <1>5 DEF StepExpired, ExpireEnd, PhaseInv
<1>6. CASE StepPlanBegin
  <2>1. pc = "plan" /\ phase = "idle"
    BY <1>6 DEF StepPlanBegin, PlanBegin
  <2>2. NothingInFlight
    BY <2>1 DEF EngineInv, CommitInv, InPlan, Pending, NothingInFlight
  <2>3. QED
    BY <1>6, <2>2 DEF StepPlanBegin, PlanBegin, PhaseInv
<1>7. CASE StepPlan
  BY <1>0, <1>7 DEF StepPlan, PhaseInv, Phases, PlanStep, PlanSort, PlanDecode, PlanDecodeEnd,
                    PlanPrefill, PlanEnd, PlanRaises
<1>8. CASE CommitDecode \/ CommitPrefill \/ SampleFirst
  <2>1. phase = "idle" /\ phase' = phase
    BY <1>0, <1>8 DEF CommitDecode, CommitPrefill, SampleFirst, PhaseInv, CompleteDecode,
                      CompletePrefill, CompletePrefillSample, AppendToken, planVars, schedVars
  <2>2. pc' \notin {"expire", "plan", "crashed"}
    BY <1>8 DEF CommitDecode, CommitPrefill, SampleFirst
  <2>3. QED
    BY <2>1, <2>2 DEF PhaseInv
<1>9. QED
  BY <1>1, <1>2, <1>3, <1>4, <1>5, <1>6, <1>7, <1>8 DEF Next, LoopStep, ClientStep

-----------------------------------------------------------------------------
\* What is in flight.

\* Where the pending works are, place by place.
LEMMA PendingAt ==
    /\ pc \in {"decode", "decoding", "failing"} => Pending = PlannedIds
    /\ pc = "commit_decode" => Pending = RowsFrom(plan.decode, row) \cup PrefillIds
    /\ pc \in {"prefill", "prefilling"} => Pending = PrefillIds
    /\ pc = "commit_prefill" => Pending = RowsFrom(plan.prefill, row)
    /\ pc = "sample" => Pending = RowsFrom(plan.prefill, row + 1)
    /\ pc \in {"sleep", "top", "expire", "plan", "stopped", "crashed"} => Pending = {}
BY DEF Pending

\* A step is never about more than its plan.
LEMMA PendingIsPlanned == Pending \subseteq PlannedIds
<1>1. /\ \A n : RowsFrom(plan.decode, n) \subseteq PlannedIds
      /\ \A n : RowsFrom(plan.prefill, n) \subseteq PlannedIds
      /\ PrefillIds \subseteq PlannedIds
  BY DEF RowsFrom, PlannedIds, PrefillIds
<1>2. QED
  BY <1>1 DEF Pending

\* A call that starts no work keeps the invariant.
LEMMA CommitUndisturbed ==
    ASSUME CommitInv, UNCHANGED <<pc, row, plan>>, InPlan' <=> InPlan,
           \A r \in Requests : Idle(r) => Idle(r)',
           \A r \in Requests : AwaitsFirstSample(r)' => AwaitsFirstSample(r)
    PROVE  CommitInv'
<1>1. Pending' = Pending /\ PlannedIds' = PlannedIds
  BY DEF Pending, PlannedIds, PrefillIds, RowsFrom
<1>2. QED
  BY <1>1 DEF CommitInv

\* What the end of a request does to work in flight.
LEMMA TerminateEffect ==
    ASSUME SchedInv, NEW r \in Requests, NEW final \in Terminal, Terminate(r, final)
    PROVE  /\ \A q \in Requests : Idle(q) => Idle(q)'
           /\ \A q \in Requests : AwaitsFirstSample(q)' => AwaitsFirstSample(q)
           /\ state' = [state EXCEPT ![r] = final]
           /\ ngen' = ngen
<1>1. /\ state' = [state EXCEPT ![r] = final] /\ ngen' = ngen
      /\ inflight' = [inflight EXCEPT ![r] = NoWork]
  BY DEF Terminate, Cleanup
<1>2. state \in [Requests -> States] /\ DOMAIN inflight = Requests /\ final # "DECODE"
  BY DEF SchedInv, ControlTypeOK, Terminal
<1>3. QED
  BY <1>1, <1>2 DEF Idle, AwaitsFirstSample

\* Clients and deadlines take nothing from the work in flight that is still pending.
LEMMA ClientsKeepCommits ==
    ASSUME EngineInv,
           \/ \E r \in Requests, s \in Shapes : ClientSubmit(r, s)
           \/ \E r \in Requests : ClientCancel(r) \/ FailOne(r) \/ ClockAdvances(r)
           \/ \E r \in Requests : StepExpire(r) \/ StepPlanExpire(r)
           \/ Close
    PROVE  CommitInv'
<1>0. SchedInv /\ CommitInv
  BY DEF EngineInv
<1>1. ASSUME NEW r \in Requests, NEW s \in Shapes, ClientSubmit(r, s) PROVE CommitInv'
  <2>1. Submit(r, s) /\ state[r] = "NEW" /\ UNCHANGED <<pc, row, plan, phase, inflight, ngen>>
    BY <1>1 DEF ClientSubmit, Submit, planVars
  <2>2. state' = [state EXCEPT ![r] = "PREFILL"] \/ state' = [state EXCEPT ![r] = "REJECTED"]
    BY <2>1 DEF Submit
  <2>3. state \in [Requests -> States]
    BY <1>0 DEF SchedInv, ControlTypeOK
  <2>4. \A q \in Requests : AwaitsFirstSample(q)' => AwaitsFirstSample(q)
    BY <2>1, <2>2, <2>3 DEF AwaitsFirstSample
  <2>5. QED
    BY <1>0, <2>1, <2>4, CommitUndisturbed DEF InPlan, Idle
<1>2. ASSUME NEW r \in Requests,
             ClientCancel(r) \/ FailOne(r) \/ StepExpire(r) \/ StepPlanExpire(r)
      PROVE  CommitInv'
  <2>1. /\ \E final \in Terminal : Terminate(r, final)
        /\ UNCHANGED <<pc, row, plan, phase>>
    BY <1>2 DEF ClientCancel, Cancel, FailOne, Fail, StepExpire, StepPlanExpire, ExpireOne,
                engineVars, planVars, Terminal
  <2>2. QED
    BY <1>0, <2>1, TerminateEffect, CommitUndisturbed DEF InPlan
<1>3. CASE Close \/ \E r \in Requests : ClockAdvances(r)
  <2>1. UNCHANGED <<pc, row, plan, phase, inflight, state, ngen>>
    BY <1>3 DEF Close, ClockAdvances, DeadlinePasses, schedVars, planVars, queueVars,
                requestVars, engineVars
  <2>2. QED
    BY <1>0, <2>1, CommitUndisturbed DEF InPlan, Idle, AwaitsFirstSample
<1>4. QED
  BY <1>1, <1>2, <1>3

\* Steps of the loop that call the executor or nobody.
LEMMA ControlKeepsCommits ==
    ASSUME EngineInv,
           \/ Wake \/ StartDecode \/ DecodeReturns \/ DecodeRaises \/ CommitDecodeEnd
           \/ SampleRaises \/ StartPrefill \/ PrefillReturns \/ PrefillRaises
           \/ CommitPrefillEnd \/ FailingEnd
    PROVE  CommitInv'
<1>0. /\ CommitInv /\ row \in Nat
      /\ \A r \in Requests : ~Unfinished(r) => Idle(r)
      /\ DOMAIN plan.decode = 1 .. Len(plan.decode) /\ Len(plan.decode) \in Nat
      /\ DOMAIN plan.prefill = 1 .. Len(plan.prefill) /\ Len(plan.prefill) \in Nat
  BY WorksNameRequests DEF EngineInv, EngineTypeOK, SchedInv, RequestInv
<1>1. UNCHANGED <<plan, phase, inflight, state, ngen>>
  BY DEF Wake, StartDecode, DecodeReturns, DecodeRaises, CommitDecodeEnd, SampleRaises,
         StartPrefill, PrefillReturns, PrefillRaises, CommitPrefillEnd, FailingEnd,
         ExecutionRaises, schedVars, planVars, queueVars, requestVars
<1>2. /\ \A r \in Requests : Idle(r)' <=> Idle(r)
      /\ \A r \in Requests : AwaitsFirstSample(r)' <=> AwaitsFirstSample(r)
      /\ PlannedIds' = PlannedIds /\ PrefillIds' = PrefillIds
  BY <1>1 DEF Idle, AwaitsFirstSample, PlannedIds, PrefillIds
<1>3. ~InPlan /\ ~InPlan'
  BY DEF Wake, StartDecode, DecodeReturns, DecodeRaises, CommitDecodeEnd, SampleRaises,
         StartPrefill, PrefillReturns, PrefillRaises, CommitPrefillEnd, FailingEnd,
         ExecutionRaises, InPlan
<1>4. \A r \in Requests : ~Idle(r) => r \in Pending
  BY <1>0, <1>3 DEF CommitInv
<1>5. /\ RowsFrom(plan.decode, 1) = DecodeIds
      /\ RowsFrom(plan.prefill, 1) = PrefillIds
      /\ PlannedIds = DecodeIds \cup PrefillIds
  <2>1. /\ {j \in DOMAIN plan.decode : 1 <= j} = DOMAIN plan.decode
        /\ {j \in DOMAIN plan.prefill : 1 <= j} = DOMAIN plan.prefill
    BY <1>0
  <2>2. QED
    BY <2>1 DEF RowsFrom, DecodeIds, PrefillIds, PlannedIds
<1>6. /\ \A r \in Requests : ~Idle(r)' => r \in Pending'
      /\ pc' # "sample"
      /\ pc' \in {"commit_decode", "commit_prefill"} => row' > 0
  <2>1. CASE Wake
    BY <1>2, <1>4, <2>1 DEF Wake, Pending
  <2>2. CASE StartDecode
    <3>1. plan.decode = <<>> => DecodeIds = {}
      BY DEF DecodeIds
    <3>2. pc = "decode" /\ Pending = PlannedIds
      BY <2>2, PendingAt DEF StartDecode
    <3>3. \/ pc' = "prefill" /\ plan.decode = <<>> /\ Pending' = PrefillIds
          \/ pc' \in {"decoding", "failing"} /\ Pending' = PlannedIds
      BY <1>2, <2>2 DEF StartDecode, Pending
    <3>4. QED
      BY <1>2, <1>4, <1>5, <3>1, <3>2, <3>3
  <2>3. CASE DecodeReturns
    <3>1. pc' = "commit_decode" /\ row' = 1 /\ Pending = PlannedIds
      BY <2>3, PendingAt DEF DecodeReturns
    <3>2. Pending' = RowsFrom(plan.decode, 1) \cup PrefillIds
      BY <1>1, <1>2, <3>1 DEF Pending, RowsFrom
    <3>3. QED
      BY <1>2, <1>4, <1>5, <3>1, <3>2
  <2>4. CASE DecodeRaises \/ SampleRaises \/ PrefillRaises
    <3>1. pc' = "failing"
      BY <2>4 DEF DecodeRaises, SampleRaises, PrefillRaises, ExecutionRaises
    <3>2. Pending' = PlannedIds
      BY <1>2, <3>1 DEF Pending
    <3>3. QED
      BY <1>2, <1>4, <3>1, <3>2, PendingIsPlanned
  <2>5. CASE CommitDecodeEnd
    <3>1. pc = "commit_decode" /\ row > Len(plan.decode) /\ pc' = "prefill"
      BY <2>5 DEF CommitDecodeEnd
    <3>2. RowsFrom(plan.decode, row) = {}
      BY <1>0, <3>1 DEF RowsFrom
    <3>3. Pending = PrefillIds /\ Pending' = PrefillIds
      BY <1>2, <3>1, <3>2 DEF Pending
    <3>4. QED
      BY <1>2, <1>4, <3>1, <3>3
  <2>6. CASE StartPrefill
    <3>1. Pending = PrefillIds
      BY <2>6, PendingAt DEF StartPrefill
    <3>2. plan.prefill = <<>> => PrefillIds = {}
      BY DEF PrefillIds
    <3>3. \/ pc' = "top" /\ PrefillIds = {}
          \/ pc' = "prefilling"
      BY <2>6, <3>2 DEF StartPrefill
    <3>4. pc' = "prefilling" => Pending' = PrefillIds
      BY <1>2 DEF Pending
    <3>5. QED
      BY <1>2, <1>4, <3>1, <3>3, <3>4
  <2>7. CASE PrefillReturns
    <3>1. pc' = "commit_prefill" /\ row' = 1 /\ Pending = PrefillIds
      BY <2>7, PendingAt DEF PrefillReturns
    <3>2. Pending' = RowsFrom(plan.prefill, 1)
      BY <1>1, <3>1 DEF Pending, RowsFrom
    <3>3. QED
      BY <1>2, <1>4, <1>5, <3>1, <3>2
  <2>8. CASE CommitPrefillEnd
    <3>1. pc = "commit_prefill" /\ row > Len(plan.prefill) /\ pc' = "top"
      BY <2>8 DEF CommitPrefillEnd
    <3>2. RowsFrom(plan.prefill, row) = {}
      BY <1>0, <3>1 DEF RowsFrom
    <3>3. QED
      BY <1>2, <1>4, <3>1, <3>2, PendingAt
  <2>9. CASE FailingEnd
    <3>1. pc' = "top" /\ FailTargets = {} /\ Pending = PlannedIds
      BY <2>9, PendingAt DEF FailingEnd
    <3>2. \A r \in Requests : r \in PlannedIds => Idle(r)
      BY <1>0, <3>1 DEF FailTargets
    <3>3. QED
      BY <1>2, <1>4, <3>1, <3>2
  <2>10. QED
    BY <2>1, <2>2, <2>3, <2>4, <2>5, <2>6, <2>7, <2>8, <2>9
<1>7. \A r \in Requests : AwaitsFirstSample(r)' => pc' = "failing" /\ r \in PlannedIds'
  <2> SUFFICES ASSUME NEW r \in Requests, AwaitsFirstSample(r)
               PROVE  pc' = "failing" /\ r \in PlannedIds
    BY <1>2
  <2>1. CASE pc = "sample" /\ r = plan.prefill[row].id
    <3>1. r \in PlannedIds
      BY <1>0, <2>1 DEF CommitInv, PlannedIds
    <3>2. pc' = "failing"
      BY <2>1 DEF Wake, StartDecode, DecodeReturns, DecodeRaises, CommitDecodeEnd, SampleRaises,
                  StartPrefill, PrefillReturns, PrefillRaises, CommitPrefillEnd, FailingEnd,
                  ExecutionRaises
    <3>3. QED
      BY <3>1, <3>2
  <2>2. CASE pc = "failing" /\ r \in PlannedIds
    <3>1. FailTargets = {}
      BY <2>2 DEF Wake, StartDecode, DecodeReturns, DecodeRaises, CommitDecodeEnd, SampleRaises,
                  StartPrefill, PrefillReturns, PrefillRaises, CommitPrefillEnd, FailingEnd
    <3>2. Unfinished(r)
      BY DEF AwaitsFirstSample, Unfinished, Active
    <3>3. QED
      BY <2>2, <3>1, <3>2 DEF FailTargets
  <2>3. QED
    BY <1>0, <2>1, <2>2 DEF CommitInv
<1>8. QED
  BY <1>3, <1>6, <1>7 DEF CommitInv
\* A step that is going to fail covers whatever was pending.
LEMMA FailingCovers ==
    ASSUME pc' = "failing", UNCHANGED schedVars, ~InPlan,
           \A q \in Requests : ~Idle(q) => q \in Pending,
           \A q \in Requests : AwaitsFirstSample(q) => q \in PlannedIds
    PROVE  CommitInv'
<1>1. UNCHANGED <<plan, inflight, state, ngen>>
  BY DEF schedVars, requestVars, queueVars, planVars
<1>2. PlannedIds' = PlannedIds
  BY <1>1 DEF PlannedIds
<1>3. Pending' = PlannedIds
  BY <1>2 DEF Pending
<1>4. /\ \A q \in Requests : Idle(q)' <=> Idle(q)
      /\ \A q \in Requests : AwaitsFirstSample(q)' <=> AwaitsFirstSample(q)
  BY <1>1 DEF Idle, AwaitsFirstSample
<1>5. QED
  BY <1>2, <1>3, <1>4, PendingIsPlanned DEF CommitInv

\* The end of plan() adds the graph bucket, nothing else.
LEMMA PlanEndKeepsWorks ==
    ASSUME PlanInv, PlanEnd
    PROVE  plan'.decode = plan.decode /\ plan'.prefill = plan.prefill
<1>1. plan' = [plan EXCEPT !.graph = plan'.graph]
  BY DEF PlanInv, PlanEnd
<1>2. plan = [decode |-> plan.decode, prefill |-> plan.prefill, graph |-> plan.graph]
  BY DEF PlanInv
<1>3. QED
  BY <1>1, <1>2

\* Where the loops of plan() start and end.
LEMMA PlanningKeepsCommits ==
    ASSUME EngineInv, [Next]_vars, LoopTop \/ StepExpired \/ StepPlanBegin \/ StepPlan
    PROVE  CommitInv'
<1>0. /\ CommitInv /\ SchedInv /\ SchedInv' /\ PhaseInv' /\ PlansInv /\ PlanInv
  BY SchedulerPartKept, PhaseKept DEF EngineInv, SchedInv
<1>1. pc \in {"top", "expire", "plan"}
  BY DEF LoopTop, StepExpired, StepPlanBegin, StepPlan
<1>2. \A r \in Requests : ~AwaitsFirstSample(r)
  BY <1>0, <1>1 DEF CommitInv
<1>3. CASE LoopTop \/ StepExpired \/ StepPlanBegin
  <2>1. UNCHANGED <<plan, inflight, state, ngen>>
    BY <1>3 DEF LoopTop, ExpireBegin, StepExpired, ExpireEnd, StepPlanBegin, PlanBegin,
                schedVars, requestVars, queueVars, planVars
  <2>2. \A r \in Requests : ~AwaitsFirstSample(r)' /\ (Idle(r)' <=> Idle(r))
    BY <1>2, <2>1 DEF AwaitsFirstSample, Idle
  <2>3. pc' \in {"stopped", "expire", "plan", "crashed"}
    BY <1>3 DEF LoopTop, StepExpired, StepPlanBegin
  <2>4. ~InPlan
    BY <1>3 DEF LoopTop, StepExpired, StepPlanBegin, PlanBegin, InPlan
  <2>5. \A r \in Requests : Idle(r)
    BY <1>0, <1>1, <2>4, PendingAt DEF CommitInv
  <2>6. QED
    BY <2>2, <2>3, <2>5 DEF CommitInv
<1>4. CASE StepPlan
  <2>1. /\ phase' # "raised"
        /\ pc' = IF phase' # "idle" THEN "plan" ELSE IF PlannedIds = {} THEN "sleep" ELSE "decode"
    BY <1>0, <1>4 DEF StepPlan, SchedInv, LoopInv
  <2>2. CASE phase' # "idle"
    <3>1. InPlan' /\ pc' = "plan"
      BY <2>1, <2>2 DEF InPlan
    <3>2. \A r \in Requests : ~AwaitsFirstSample(r)'
      BY <1>2, <1>4 DEF StepPlan, PlanStep, PlanSort, PlanDecode, PlanDecodeEnd, PlanPrefill,
                        PlanEnd, PlanRaises, requestVars, AwaitsFirstSample
    <3>3. QED
      BY <3>1, <3>2 DEF CommitInv
  <2>3. CASE phase' = "idle"
    <3>1. PlanEnd
      BY <1>4, <2>3 DEF StepPlan, PlanStep, PlanSort, PlanDecode, PlanDecodeEnd, PlanPrefill,
                        PlanRaises
    <3>2. /\ phase = "plan_prefill"
          /\ UNCHANGED <<inflight, state, ngen>>
      BY <3>1 DEF PlanEnd, requestVars, queueVars
    <3>3. plan'.decode = plan.decode /\ plan'.prefill = plan.prefill
      BY <1>0, <3>1, PlanEndKeepsWorks
    <3>4. PlannedIds' = PlannedIds
      BY <3>3 DEF PlannedIds
    <3>5. \A r \in Requests : r \in PlannedIds <=> ~Idle(r)
      BY <1>0, <3>2 DEF PlansInv, Planning
    <3>6. \A r \in Requests : ~AwaitsFirstSample(r)' /\ (Idle(r)' <=> Idle(r))
      BY <1>2, <3>2 DEF AwaitsFirstSample, Idle
    <3>7. \/ pc' = "sleep" /\ PlannedIds = {}
          \/ pc' = "decode"
      BY <2>1, <2>3
    <3>8. pc' = "decode" => Pending' = PlannedIds'
      BY DEF Pending
    <3>9. QED
      BY <3>4, <3>5, <3>6, <3>7, <3>8 DEF CommitInv
  <2>4. QED
    BY <2>2, <2>3
<1>5. QED
  BY <1>3, <1>4

\* The works that are left once one of them is committed.
LEMMA NextRow ==
    ASSUME NEW works, NEW n \in DOMAIN works, DOMAIN works = 1 .. Len(works), Len(works) \in Nat
    PROVE  RowsFrom(works, n) = {works[n].id} \cup RowsFrom(works, n + 1)
<1>1. {j \in DOMAIN works : n <= j} = {n} \cup {j \in DOMAIN works : n + 1 <= j}
  OBVIOUS
<1>2. QED
  BY <1>1 DEF RowsFrom

\* One more token leaves no work of the request in flight.
LEMMA AppendTokenEffect ==
    ASSUME SchedInv, NEW r \in Requests, NEW stopped \in BOOLEAN, AppendToken(r, stopped)
    PROVE  /\ UNCHANGED <<phase, plan>>
           /\ inflight' = [inflight EXCEPT ![r] = NoWork]
           /\ ngen' = [ngen EXCEPT ![r] = @ + 1]
           /\ Idle(r)'
           /\ \A q \in Requests \ {r} : Idle(q)' <=> Idle(q)
           /\ \A q \in Requests : AwaitsFirstSample(q)' => AwaitsFirstSample(q) /\ q # r
<1>1. UNCHANGED <<phase, plan>> /\ ngen' = [ngen EXCEPT ![r] = @ + 1]
  BY DEF AppendToken, planVars
<1>2. /\ inflight' = [inflight EXCEPT ![r] = NoWork]
      /\ state' = state \/ state' = [state EXCEPT ![r] = "FINISHED"]
  BY DEF AppendToken, Cleanup
<1>3. /\ ngen \in [Requests -> Nat] /\ state \in [Requests -> States]
      /\ DOMAIN inflight = Requests
  BY DEF SchedInv, ControlTypeOK
<1>4. Idle(r)' /\ \A q \in Requests \ {r} : Idle(q)' <=> Idle(q)
  BY <1>2, <1>3 DEF Idle
<1>5. \A q \in Requests : AwaitsFirstSample(q)' => AwaitsFirstSample(q) /\ q # r
  BY <1>1, <1>2, <1>3 DEF AwaitsFirstSample
<1>6. QED
  BY <1>1, <1>2, <1>4, <1>5

\* Committing a decode takes its row from what is pending.
LEMMA DecodeCommitKeepsCommits ==
    ASSUME EngineInv, CommitDecode
    PROVE  CommitInv'
<1>0. /\ CommitInv /\ SchedInv /\ pc = "commit_decode" /\ row \in DOMAIN plan.decode
      /\ DOMAIN plan.decode = 1 .. Len(plan.decode) /\ Len(plan.decode) \in Nat
  BY WorksNameRequests DEF CommitDecode, EngineInv, EngineTypeOK, CommitInv, SchedInv
<1>r. PICK r \in Requests : r = plan.decode[row].id
  BY <1>0, WorksNameRequests DEF SchedInv
<1>1. /\ \A q \in Requests : ~Idle(q) => q \in Pending
      /\ \A q \in Requests : ~AwaitsFirstSample(q)
      /\ ~InPlan
  BY <1>0 DEF CommitInv, InPlan
<1>2. CASE DecodeCommits(r)
  <2>1. PICK stopped \in BOOLEAN : CompleteDecode(r, stopped)
    BY <1>r, <1>2 DEF CommitDecode
  <2>2. row' = row + 1 /\ pc' = pc
    BY <1>r, <1>2 DEF CommitDecode
  <2>3. /\ UNCHANGED plan /\ Idle(r)'
        /\ \A q \in Requests \ {r} : Idle(q)' <=> Idle(q)
        /\ \A q \in Requests : AwaitsFirstSample(q)' => AwaitsFirstSample(q)
    BY <1>0, <2>1, AppendTokenEffect DEF CompleteDecode
  <2>4. Pending = {r} \cup Pending'
    <3>1. Pending = RowsFrom(plan.decode, row) \cup PrefillIds
      BY <1>0, PendingAt
    <3>2. Pending' = RowsFrom(plan.decode, row + 1) \cup PrefillIds
      BY <1>0, <2>2, <2>3 DEF Pending, RowsFrom, PrefillIds
    <3>3. RowsFrom(plan.decode, row) = {r} \cup RowsFrom(plan.decode, row + 1)
      BY <1>0, <1>r, NextRow
    <3>4. QED
      BY <3>1, <3>2, <3>3
  <2>5. QED
    BY <1>0, <1>1, <2>2, <2>3, <2>4 DEF CommitInv
<1>3. CASE ~DecodeCommits(r)
  <2>1. pc' = "failing" /\ UNCHANGED schedVars
    BY <1>r, <1>3 DEF CommitDecode
  <2>2. QED
    BY <1>1, <2>1, FailingCovers
<1>4. QED
  BY <1>2, <1>3

\* Committing a prefill takes its row from what is pending.
LEMMA PrefillCommitKeepsCommits ==
    ASSUME EngineInv, CommitPrefill
    PROVE  CommitInv'
<1>0. /\ CommitInv /\ SchedInv /\ pc = "commit_prefill" /\ row \in DOMAIN plan.prefill
      /\ DOMAIN plan.prefill = 1 .. Len(plan.prefill) /\ Len(plan.prefill) \in Nat
  BY WorksNameRequests DEF CommitPrefill, EngineInv, EngineTypeOK, CommitInv, SchedInv
<1>r. PICK r \in Requests : r = plan.prefill[row].id
  BY <1>0, WorksNameRequests DEF SchedInv
<1>1. /\ \A q \in Requests : ~Idle(q) => q \in Pending
      /\ \A q \in Requests : ~AwaitsFirstSample(q)
      /\ ~InPlan
  BY <1>0 DEF CommitInv, InPlan
<1>n. PICK n : n = plan.prefill[row].count
  OBVIOUS
<1>2. CASE PrefillCommits(r, n)
  <2>1. /\ CompletePrefill(r, n)
        /\ IF state'[r] = "DECODE" THEN pc' = "sample" /\ row' = row
                                   ELSE row' = row + 1 /\ pc' = pc
    BY <1>r, <1>n, <1>2 DEF CommitPrefill
  <2>2. /\ UNCHANGED <<plan, ngen>>
        /\ inflight' = [inflight EXCEPT ![r] = NoWork]
        /\ state' = state \/ state' = [state EXCEPT ![r] = "DECODE"]
    BY <2>1 DEF CompletePrefill, planVars
  <2>3. state \in [Requests -> States] /\ DOMAIN inflight = Requests
    BY <1>0 DEF SchedInv, ControlTypeOK
  <2>4. Idle(r)' /\ \A q \in Requests \ {r} : Idle(q)' <=> Idle(q)
    BY <2>2, <2>3 DEF Idle
  <2>5. \A q \in Requests : AwaitsFirstSample(q)' => q = r /\ state'[r] = "DECODE"
    BY <1>1, <2>2, <2>3 DEF AwaitsFirstSample
  <2>6. Pending = {r} \cup Pending'
    <3>1. Pending = RowsFrom(plan.prefill, row)
      BY <1>0, PendingAt
    <3>2. Pending' = RowsFrom(plan.prefill, row + 1)
      BY <1>0, <2>1, <2>2 DEF Pending, RowsFrom
    <3>3. QED
      BY <1>0, <1>r, <3>1, <3>2, NextRow
  <2>7. \A q \in Requests : ~Idle(q)' => q \in Pending'
    BY <1>1, <2>4, <2>6
  <2>8. row' > 0 /\ (pc' = "sample" => row' \in DOMAIN plan'.prefill /\ r = plan'.prefill[row'].id)
    BY <1>0, <1>r, <2>1, <2>2 DEF CommitInv
  <2>9. state'[r] = "DECODE" => pc' = "sample"
    BY <2>1
  <2>10. QED
    BY <2>5, <2>7, <2>8, <2>9 DEF CommitInv
<1>3. CASE ~PrefillCommits(r, n)
  <2>1. pc' = "failing" /\ UNCHANGED schedVars
    BY <1>r, <1>n, <1>3 DEF CommitPrefill
  <2>2. QED
    BY <1>1, <2>1, FailingCovers
<1>4. QED
  BY <1>2, <1>3

\* Sampling a first token leaves the pending prefills alone.
LEMMA SampleKeepsCommits ==
    ASSUME EngineInv, SampleFirst
    PROVE  CommitInv'
<1>0. /\ CommitInv /\ SchedInv /\ pc = "sample" /\ row \in DOMAIN plan.prefill /\ row \in Nat
      /\ DOMAIN plan.prefill = 1 .. Len(plan.prefill) /\ Len(plan.prefill) \in Nat
  BY WorksNameRequests DEF SampleFirst, EngineInv, EngineTypeOK, CommitInv, SchedInv
<1>r. PICK r \in Requests : r = plan.prefill[row].id
  BY <1>0, WorksNameRequests DEF SchedInv
<1>1. /\ \A q \in Requests : ~Idle(q) => q \in Pending
      /\ \A q \in Requests : AwaitsFirstSample(q) => q = r
      /\ ~InPlan
  BY <1>0, <1>r DEF CommitInv, InPlan
<1>2. CASE SampleCommits(r)
  <2>1. PICK stopped \in BOOLEAN : CompletePrefillSample(r, stopped)
    BY <1>r, <1>2 DEF SampleFirst
  <2>2. row' = row + 1 /\ pc' = "commit_prefill"
    BY <1>r, <1>2 DEF SampleFirst
  <2>3. /\ UNCHANGED plan /\ Idle(r)'
        /\ \A q \in Requests \ {r} : Idle(q)' <=> Idle(q)
        /\ \A q \in Requests : AwaitsFirstSample(q)' => AwaitsFirstSample(q) /\ q # r
    BY <1>0, <2>1, AppendTokenEffect DEF CompletePrefillSample
  <2>4. Pending' = Pending
    <3>1. Pending = RowsFrom(plan.prefill, row + 1)
      BY <1>0, PendingAt
    <3>2. Pending' = RowsFrom(plan.prefill, row + 1)
      BY <2>2, <2>3 DEF Pending, RowsFrom
    <3>3. QED
      BY <3>1, <3>2
  <2>5. QED
    BY <1>0, <1>1, <2>2, <2>3, <2>4 DEF CommitInv
<1>3. CASE ~SampleCommits(r)
  <2>1. pc' = "failing" /\ UNCHANGED schedVars
    BY <1>r, <1>3 DEF SampleFirst
  <2>2. r \in PlannedIds
    BY <1>0, <1>r DEF PlannedIds
  <2>3. QED
    BY <1>1, <2>1, <2>2, FailingCovers
<1>4. QED
  BY <1>2, <1>3

\* Every step keeps the work in flight that of the pending rows.
LEMMA CommitsKept ==
    ASSUME EngineInv, [Next]_vars
    PROVE  CommitInv'
<1>1. CASE UNCHANGED vars
  <2>1. UNCHANGED <<pc, row, plan, phase, inflight, state, ngen>>
    BY <1>1 DEF vars, schedVars, requestVars, queueVars, planVars, engineVars
  <2>2. QED
    BY <2>1, CommitUndisturbed DEF EngineInv, InPlan, Idle, AwaitsFirstSample
<1>2. QED
  BY <1>1, ClientsKeepCommits, ControlKeepsCommits, PlanningKeepsCommits,
     DecodeCommitKeepsCommits, PrefillCommitKeepsCommits, SampleKeepsCommits
     DEF Next, LoopStep, ClientStep

-----------------------------------------------------------------------------
\* The engine's invariant.

\* The engine starts in the invariant.
LEMMA EngineInitInv == Init => EngineInv
<1> SUFFICES ASSUME Init PROVE EngineInv
  OBVIOUS
<1>1. SchedInv /\ PlansInv
  BY SchedInitInv, PlansInitInv DEF Init
<1>2. phase = "idle" /\ inflight = [r \in Requests |-> NoWork] /\ state = [r \in Requests |-> "NEW"]
  BY DEF Init, SchedInit
<1>3. OrderInv /\ SlotsInv
  BY <1>2 DEF OrderInv, SlotsInv, Planning
<1>4. EngineTypeOK
  <2>1. <<>> \in Seq(Events)
    OBVIOUS
  <2>2. events \in [Requests -> Seq(Events)]
    BY <2>1 DEF Init
  <2>3. metrics \in Counters
    BY DEF Init, ZeroMetrics, Counters
  <2>4. QED
    BY <2>2, <2>3 DEF Init, EngineTypeOK, PCs
<1>5. PhaseInv
  BY <1>2 DEF Init, PhaseInv
<1>6. CommitInv
  BY <1>2 DEF Init, CommitInv, Idle, AwaitsFirstSample
<1>7. QED
  BY <1>1, <1>3, <1>4, <1>5, <1>6 DEF EngineInv

\* Every step of the engine keeps the invariant.
LEMMA EngineNextInv == EngineInv /\ [Next]_vars => EngineInv'
BY SchedulerPartKept, EngineTypesKept, PhaseKept, CommitsKept DEF EngineInv

\* The invariant of the engine, in every reachable state.
LEMMA EngineInvariant == Spec => []EngineInv
BY EngineInitInv, EngineNextInv, PTL DEF Spec

\* The types of the scheduler's and the engine's variables hold in every state.
THEOREM EngineTyped == Spec => []TypeOK
<1>1. ASSUME metrics \in Counters PROVE metrics \in [DOMAIN ZeroMetrics -> Nat]
  BY <1>1 DEF Counters, ZeroMetrics
<1>2. EngineInv => SchedTypeOK
  BY DEF EngineInv, SchedInv, KVInv, ControlTypeOK, PlanInv, QueueInv, SchedTypeOK
<1>3. EngineInv => TypeOK
  BY <1>1, <1>2 DEF EngineInv, EngineTypeOK, Events, TypeOK
<1>4. QED
  BY <1>3, EngineInvariant, PTL

\* Whatever clients do and wherever the executor suspends, every call the engine
\* makes is one the scheduler's specification allows, so that everything proved
\* of SchedSpec holds in the engine.
THEOREM EngineFollowsScheduler == Spec => EngineUsesScheduler
<1>1. EngineInv /\ [Next]_vars => [SchedNext]_schedVars
  BY EngineStepsScheduler
<1>2. QED
  BY <1>1, EngineInvariant, PTL DEF Spec, EngineUsesScheduler

\* No exception escapes the serving loop: plan() is never called with work in
\* flight, and never runs short of blocks or of an input token.
THEOREM EngineNeverCrashes == Spec => []LoopNeverCrashes
<1>1. EngineInv => LoopNeverCrashes
  BY DEF EngineInv, PhaseInv, LoopNeverCrashes
<1>2. QED
  BY <1>1, EngineInvariant, PTL

\* A sequence without positions is empty.
LEMMA EmptyList ==
    ASSUME NEW S, NEW q \in Seq(S), DOMAIN q = {}
    PROVE  q = <<>>
<1>1. DOMAIN q = 1 .. Len(q) /\ Len(q) \in Nat
  OBVIOUS
<1>2. Len(q) = 0
  <2>1. ~(1 \in 1 .. Len(q))
    BY <1>1
  <2>2. QED
    BY <1>1, <2>1
<1>3. QED
  BY <1>2

\* The loop goes to sleep only when no request is active: a plan is empty only if
\* both queues are, so no accepted request waits for the next client call.
THEOREM SleepsOnlyWhenQuiet == Spec => NoIdleWork
<1> DEFINE Sleeps == pc = "plan" /\ pc' = "sleep"
<1>1. EngineInv /\ [Next]_vars => (Sleeps => Quiet)
  <2> SUFFICES ASSUME EngineInv, [Next]_vars, Sleeps PROVE Quiet
    OBVIOUS
  <2>0. SchedInv /\ PlansInv /\ OrderInv
    BY DEF EngineInv
  <2>1. StepPlan
    BY DEF Next, LoopStep, ClientStep, vars, engineVars, ClientSubmit, ClientCancel, Close,
           ClockAdvances, Wake, LoopTop, StepExpire, StepExpired, StepPlanBegin, StepPlanExpire,
           StartDecode, DecodeReturns, DecodeRaises, CommitDecode, CommitDecodeEnd, SampleRaises,
           StartPrefill, PrefillReturns, PrefillRaises, CommitPrefill, SampleFirst,
           CommitPrefillEnd, FailOne, FailingEnd, ExecutionRaises
  <2>2. phase' = "idle" /\ PlannedIds = {}
    BY <2>1 DEF StepPlan
  <2>3. PlanEnd
    BY <2>1, <2>2 DEF StepPlan, PlanStep, PlanSort, PlanDecode, PlanDecodeEnd, PlanPrefill,
                      PlanRaises
  <2>4. phase = "plan_prefill" /\ todo = 0
    BY <2>3 DEF PlanEnd
  <2>5. /\ plan.decode \in Seq(DecodeWorks) /\ plan.prefill \in Seq(PrefillWorks)
        /\ decodeQ \in Seq(Requests) /\ prefillQ \in Seq(Requests)
        /\ \A r \in Requests : state[r] = "PREFILL" <=> Has(prefillQ, r)
        /\ \A r \in Requests : state[r] = "DECODE" <=> Has(decodeQ, r)
    BY <2>0, Queues DEF SchedInv, PlanInv
  <2>6. plan.decode = <<>>
    <3>1. DOMAIN plan.decode = {}
      BY <2>2 DEF PlannedIds
    <3>2. QED
      BY <2>5, <3>1, EmptyList
  <2>7. plan.prefill = <<>>
    <3>1. DOMAIN plan.prefill = {}
      BY <2>2 DEF PlannedIds
    <3>2. QED
      BY <2>5, <3>1, EmptyList
  <2>8. prefillQ = <<>>
    BY <2>0, <2>4, <2>6, <2>7 DEF OrderInv
  <2>9. decodeQ = <<>>
    <3>1. Len(plan.decode) = 0
      BY <2>6
    <3>2. MinOf(Len(decodeQ), MaxBatch) = 0
      BY <2>0, <2>4, <3>1 DEF OrderInv
    <3>3. Len(decodeQ) = 0
      BY <2>5, <3>2, LimitsAssumption DEF MinOf
    <3>4. QED
      BY <2>5, <3>3
  <2>10. \A r \in Requests : ~Has(prefillQ, r) /\ ~Has(decodeQ, r)
    BY <2>8, <2>9 DEF Has
  <2>11. QED
    BY <2>5, <2>10 DEF Quiet, Unfinished, Active
<1>2. QED
  BY <1>1, EngineInvariant, PTL DEF Spec, NoIdleWork

-----------------------------------------------------------------------------
\* What the executor is handed.

\* A finite set has a member with the greatest value.
LEMMA Greatest ==
    ASSUME NEW S, IsFiniteSet(S), S # {}, NEW f, \A x \in S : f[x] \in Int
    PROVE  \E m \in S : \A x \in S : f[x] <= f[m]
<1> DEFINE above(x) == {y \in S : f[x] <= f[y]}
           T == {above(x) : x \in S}
<1>1. IsWellFoundedOn(StrictSubsetOrdering(S), FiniteSubsetsOf(S))
  BY FS_StrictSubsetOrderingWellFounded
<1>2. T \subseteq FiniteSubsetsOf(S) /\ T # {}
  <2>1. \A x \in S : above(x) \in SUBSET S
    OBVIOUS
  <2>2. \A x \in S : IsFiniteSet(above(x))
    BY <2>1, FS_Subset
  <2>3. QED
    BY <2>1, <2>2 DEF FiniteSubsetsOf
<1>3. PICK t \in T : \A u \in T : ~(<<u, t>> \in StrictSubsetOrdering(S))
  BY <1>1, <1>2, WFMin
<1>4. PICK m \in S : t = above(m)
  OBVIOUS
<1>5. ASSUME NEW x \in S, ~(f[x] <= f[m]) PROVE FALSE
  <2>1. above(x) \subseteq above(m)
    BY <1>5
  <2>2. m \in above(m) /\ m \notin above(x)
    BY <1>5
  <2>3. above(x) # above(m)
    BY <2>2
  <2>4. above(x) \in SUBSET S /\ above(m) \in SUBSET S
    OBVIOUS
  <2> HIDE DEF above
  <2>5. <<above(x), above(m)>> \in StrictSubsetOrdering(S)
    BY <2>1, <2>3, <2>4 DEF StrictSubsetOrdering
  <2>6. above(x) \in T
    OBVIOUS
  <2>7. QED
    BY <1>3, <1>4, <2>5, <2>6
<1>6. QED
  BY <1>5

\* A chosen bucket holds what it was chosen for.
LEMMA SelectHolds ==
    ASSUME NEW b, NEW n \in Nat, NEW graph, graph = Select(b, n), graph # NoGraph
    PROVE  graph[2] \in Nat /\ n <= graph[2]
<1>1. PICK top \in SequenceBuckets : top >= n
  BY DEF Select
<1> DEFINE fits == {y \in SequenceBuckets : n <= y /\ y <= top}
           neg == [y \in fits |-> 0 - y]
<1>2. SequenceBuckets \subseteq Nat
  BY BucketAssumption
<1>3. IsFiniteSet(fits) /\ fits # {}
  <2>1. IsFiniteSet(0 .. top)
    BY <1>2, FS_Interval
  <2>2. fits \in SUBSET (0 .. top)
    <3>1. ASSUME NEW y \in fits PROVE y \in 0 .. top
      <4>1. y \in Nat /\ top \in Nat /\ y <= top
        BY <1>2
      <4>2. QED
        BY <4>1
    <3>2. QED
      BY <3>1
  <2>3. top \in fits
    BY <1>1, <1>2
  <2>4. QED
    BY <2>1, <2>2, <2>3, FS_Subset
<1>4. \A y \in fits : neg[y] \in Int
  BY <1>2
<1>5. \E m \in fits : \A y \in fits : neg[y] <= neg[m]
  <2> HIDE DEF fits, neg
  <2>1. QED
    BY <1>3, <1>4, Greatest
<1>6. \E m \in SequenceBuckets : IsFirstFit(m, SequenceBuckets, n)
  <2>1. PICK m \in fits : \A y \in fits : neg[y] <= neg[m]
    BY <1>5
  <2>2. m \in Nat /\ n <= m /\ m <= top /\ m \in SequenceBuckets /\ top \in Nat
    BY <1>2
  <2>3. ASSUME NEW y \in SequenceBuckets, y >= n PROVE m <= y
    <3>1. y \in Nat
      BY <1>2
    <3>2. CASE y <= top
      <4>1. y \in fits
        BY <2>3, <3>2
      <4>2. 0 - y <= 0 - m
        BY <2>1, <4>1
      <4>3. QED
        BY <2>2, <3>1, <4>2
    <3>3. CASE ~(y <= top)
      BY <2>2, <3>1, <3>3
    <3>4. QED
      BY <3>2, <3>3
  <2>4. IsFirstFit(m, SequenceBuckets, n)
    BY <2>2, <2>3 DEF IsFirstFit
  <2>5. QED
    BY <2>2, <2>4
<1>7. graph[2] = CHOOSE s \in SequenceBuckets : IsFirstFit(s, SequenceBuckets, n)
  BY DEF Select, NoGraph
<1>8. graph[2] \in SequenceBuckets /\ IsFirstFit(graph[2], SequenceBuckets, n)
  BY <1>6, <1>7
<1>9. QED
  BY <1>2, <1>8 DEF IsFirstFit

\* The block-table width in use is that of some table, and fits the pool.
LEMMA UsedWidthBounds ==
    ASSUME SchedInv, NEW ids \in SUBSET Requests
    PROVE  /\ UsedWidth(ids) \in 0 .. NumBlocks
           /\ ids = {} \/ \E r \in ids : UsedWidth(ids) = Len(table[r])
           /\ ids = {} => UsedWidth(ids) = 0
<1> DEFINE widths == [r \in ids |-> Len(table[r])]
<1>1. \A r \in ids : Len(table[r]) \in 0 .. NumBlocks
  <2> TAKE r \in ids
  <2>1. Len(table[r]) <= reserved[r]
    BY TablesWithinReservations
  <2>2. reserved[r] \in 0 .. NumBlocks /\ Len(table[r]) \in Nat
    BY DEF SchedInv, ControlTypeOK, KVInv, KVTypeOK
  <2>3. QED
    BY <2>1, <2>2, PoolTypes
<1>2. CASE ids = {}
  BY <1>2, PoolTypes DEF UsedWidth
<1>3. CASE ids # {}
  <2>1. IsFiniteSet(ids)
    BY RequestsAssumption, FS_Subset
  <2>2. \A r \in ids : widths[r] \in Int
    BY <1>1
  <2>3. \E m \in ids : \A r \in ids : widths[r] <= widths[m]
    <3> HIDE DEF widths
    <3>1. QED
      BY <1>3, <2>1, <2>2, Greatest
  <2>4. \E w \in {Len(table[r]) : r \in ids} : \A r \in ids : Len(table[r]) <= w
    BY <2>3
  <2>5. UsedWidth(ids) = CHOOSE w \in {Len(table[r]) : r \in ids} : \A r \in ids : Len(table[r]) <= w
    BY <1>3 DEF UsedWidth
  <2>6. UsedWidth(ids) \in {Len(table[r]) : r \in ids}
    BY <2>4, <2>5
  <2>7. QED
    BY <1>1, <1>3, <2>6
<1>4. QED
  BY <1>2, <1>3

\* The plan's graph bucket, if any, holds every decoding request.
GraphHolds == plan.graph = NoGraph \/ (plan.graph[2] \in Nat /\ \A r \in DecodeIds : len[r] <= plan.graph[2])

\* so the metadata of the batch is accepted.
LEMMA WidthHolds ==
    ASSUME SchedInv, GraphHolds
    PROVE  MetadataAccepts(DecodeIds, TableWidth)
<1>1. DecodeIds \in SUBSET Requests
  BY WorksNameRequests DEF SchedInv, DecodeIds, PlannedIds
<1>2. /\ UsedWidth(DecodeIds) \in 0 .. NumBlocks /\ NumBlocks \in Nat
      /\ DecodeIds = {} \/ \E r \in DecodeIds : UsedWidth(DecodeIds) = Len(table[r])
      /\ DecodeIds = {} => UsedWidth(DecodeIds) = 0
  BY <1>1, UsedWidthBounds, PoolTypes
<1>3. CASE plan.graph = NoGraph
  BY <1>2, <1>3 DEF MetadataAccepts, TableWidth
<1>4. CASE plan.graph # NoGraph
  <2> DEFINE need == BlocksForTokens(plan.graph[2])
  <2>1. plan.graph[2] \in Nat /\ \A r \in DecodeIds : len[r] <= plan.graph[2]
    BY <1>4 DEF GraphHolds
  <2>2. need \in Nat
    BY <2>1, BlocksForTokensMonotone
  <2>3. UsedWidth(DecodeIds) <= need
    <3>1. CASE DecodeIds = {}
      BY <1>2, <2>2, <3>1
    <3>2. CASE DecodeIds # {}
      <4>1. PICK r \in DecodeIds : UsedWidth(DecodeIds) = Len(table[r])
        BY <1>2, <3>2
      <4>2. r \in Requests /\ len[r] \in Nat /\ Len(table[r]) = BlocksForTokens(len[r])
        BY <1>1 DEF SchedInv, KVInv, KVTypeOK, TableFitsLength
      <4>3. BlocksForTokens(len[r]) <= need
        BY <2>1, <4>2, BlocksForTokensMonotone
      <4>4. QED
        BY <4>1, <4>2, <4>3
    <3>3. QED
      BY <3>1, <3>2
  <2>4. TableWidth = MinOf(NumBlocks, need)
    BY <1>4 DEF TableWidth
  <2> HIDE DEF need
  <2>5. QED
    BY <1>2, <2>2, <2>3, <2>4 DEF MetadataAccepts, MinOf
<1>5. QED
  BY <1>3, <1>4

-----------------------------------------------------------------------------
\* The slots of a plan, from its end to the end of the step.

\* When the decode batch is built, tables, lengths and bucket are those of the
\* plan; and until the step is over, a slot of the plan lies in a block of its
\* request or, once that request ended, in a free one.
HandoverInv ==
    /\ pc = "decode" =>
          /\ \A i \in DOMAIN plan.decode :
                LET w == plan.decode[i] IN
                /\ len[w.id] = w.pos + 1
                /\ Slot(table[w.id], w.pos) = w.slot
          /\ GraphHolds
    /\ Executing =>
          \A r \in PlannedIds : \A slot \in PlannedSlots(r) : slot[1] \in BlocksOf(r) \cup free

\* A plan that is complete names slots its requests own, and its bucket holds
\* the longest of them.
LEMMA PlanHandsOver ==
    ASSUME EngineInv, PlanEnd
    PROVE  HandoverInv'
<1>0. /\ SchedInv /\ SlotsInv /\ PlanInv /\ KVInv /\ phase = "plan_prefill"
      /\ UNCHANGED kvVars
  BY DEF EngineInv, SchedInv, PlanEnd
<1>1. plan'.decode = plan.decode /\ plan'.prefill = plan.prefill
  BY <1>0, PlanEndKeepsWorks
<1>2. UNCHANGED <<len, table, free>>
  BY <1>0 DEF kvVars
<1>3. /\ \A i \in DOMAIN plan.decode :
            LET w == plan.decode[i] IN
            len[w.id] = w.pos + 1 /\ w.slot = Slot(table[w.id], w.pos)
      /\ \A i \in DOMAIN plan.prefill :
            LET w == plan.prefill[i] IN
            /\ w.count <= len[w.id]
            /\ w.slots = Slots(table[w.id], len[w.id] - w.count, w.count)
  BY <1>0 DEF SlotsInv, Planning
<1>4. /\ \A i \in DOMAIN plan.decode : plan.decode[i] \in DecodeWorks
      /\ \A i \in DOMAIN plan.prefill : plan.prefill[i] \in PrefillWorks
      /\ \A i \in DOMAIN plan.decode : plan.decode[i].id \in Requests
      /\ \A i \in DOMAIN plan.prefill : plan.prefill[i].id \in Requests
  BY <1>0, WorksNameRequests
<1>5. len \in [Requests -> Nat]
  BY <1>0 DEF KVInv, KVTypeOK
<1>6. ASSUME NEW i \in DOMAIN plan.decode
      PROVE  plan.decode[i].slot[1] \in BlocksOf(plan.decode[i].id)
  <2> DEFINE r == plan.decode[i].id
             n == plan.decode[i].pos
  <2>1. r \in Requests /\ n \in Nat /\ len[r] = n + 1
    BY <1>3, <1>4 DEF DecodeWorks
  <2>2. n \in 0 .. len[r] - 1
    BY <2>1
  <2>3. Slot(table[r], n)[1] \in BlocksOf(r)
    BY <1>0, <2>1, <2>2, SlotOwned
  <2>4. QED
    BY <1>3, <2>3
<1>7. ASSUME NEW i \in DOMAIN plan.prefill, NEW k \in DOMAIN plan.prefill[i].slots
      PROVE  plan.prefill[i].slots[k][1] \in BlocksOf(plan.prefill[i].id)
  <2> DEFINE r == plan.prefill[i].id
             n == plan.prefill[i].count
             p == len[r] - n + k - 1
  <2>1. r \in Requests /\ n \in Nat /\ n <= len[r] /\ len[r] \in Nat
    BY <1>3, <1>4, <1>5 DEF PrefillWorks
  <2>2. plan.prefill[i].slots = [j \in 1 .. n |-> Slot(table[r], len[r] - n + j - 1)]
    BY <1>3 DEF Slots
  <2>3. k \in 1 .. n /\ plan.prefill[i].slots[k] = Slot(table[r], p)
    BY <2>2
  <2>4. p \in 0 .. len[r] - 1
    BY <2>1, <2>3
  <2>5. Slot(table[r], p)[1] \in BlocksOf(r)
    <3> HIDE DEF p
    <3>1. QED
      BY <1>0, <2>1, <2>4, SlotOwned
  <2>6. QED
    BY <2>3, <2>5
<1>8. \A r \in PlannedIds : \A slot \in PlannedSlots(r) : slot[1] \in BlocksOf(r)
  BY <1>6, <1>7 DEF PlannedSlots
<1>9. /\ PlannedIds' = PlannedIds
      /\ \A r \in PlannedIds : PlannedSlots(r)' = PlannedSlots(r)
      /\ \A r : BlocksOf(r)' = BlocksOf(r)
  BY <1>1, <1>2 DEF PlannedIds, PlannedSlots, BlocksOf
<1>10. GraphHolds'
  <2> DEFINE longest == CHOOSE n \in {len[r] : r \in DecodeIds} : \A r \in DecodeIds : len[r] <= n
             graph == IF DecodeIds = {} THEN NoGraph ELSE Select(Len(plan.decode), longest)
  <2>1. plan' = [plan EXCEPT !.graph = graph]
    BY DEF PlanEnd, DecodeIds
  <2>2. plan = [decode |-> plan.decode, prefill |-> plan.prefill, graph |-> plan.graph]
    BY <1>0 DEF PlanInv
  <2>3. plan'.graph = graph
    <3> HIDE DEF graph
    <3>1. QED
      BY <2>1, <2>2
  <2>4. DecodeIds' = DecodeIds /\ DecodeIds \in SUBSET Requests
    BY <1>1, <1>4 DEF DecodeIds
  <2>5. CASE graph = NoGraph
    BY <2>3, <2>5 DEF GraphHolds
  <2>6. CASE graph # NoGraph
    <3>1. DecodeIds # {} /\ graph = Select(Len(plan.decode), longest)
      BY <2>6
    <3>2. IsFiniteSet(DecodeIds) /\ \A r \in DecodeIds : len[r] \in Int
      BY <1>5, <2>4, RequestsAssumption, FS_Subset
    <3>3. \E m \in DecodeIds : \A r \in DecodeIds : len[r] <= len[m]
      BY <3>1, <3>2, Greatest
    <3>4. \E n \in {len[r] : r \in DecodeIds} : \A r \in DecodeIds : len[r] <= n
      BY <3>3
    <3>5. longest \in {len[r] : r \in DecodeIds} /\ \A r \in DecodeIds : len[r] <= longest
      BY <3>4
    <3>6. longest \in Nat
      BY <1>5, <2>4, <3>5
    <3> HIDE DEF longest
    <3>7. graph[2] \in Nat /\ longest <= graph[2]
      <4> HIDE DEF graph
      <4>1. QED
        BY <2>6, <3>1, <3>6, SelectHolds
    <3>8. \A r \in DecodeIds : len[r] <= graph[2]
      <4> HIDE DEF graph
      <4>1. \A r \in DecodeIds : len[r] \in Nat
        BY <1>5, <2>4
      <4>2. QED
        BY <3>5, <3>6, <3>7, <4>1
    <3>9. QED
      BY <1>2, <2>3, <2>4, <3>7, <3>8 DEF GraphHolds
  <2>7. QED
    BY <2>5, <2>6
<1>11. QED
  BY <1>1, <1>2, <1>3, <1>8, <1>9, <1>10 DEF HandoverInv

\* What a step does to the pool while a plan is executed: at most it makes a
\* request known or releases one.
LEMMA PoolWhileExecuting ==
    ASSUME EngineInv, [Next]_vars, Executing', ~PlanEnd
    PROVE  /\ Executing
           /\ UNCHANGED plan
           /\ UNCHANGED kvVars \/ \E q \in Requests : Create(q) \/ Release(q)
           /\ pc' = "decode" => pc = "decode" /\ UNCHANGED kvVars
<1>0. PhaseInv /\ SchedInv /\ CommitInv /\ row \in Nat
  BY DEF EngineInv, EngineTypeOK
<1>1. CASE UNCHANGED vars
  BY <1>1 DEF vars, schedVars, planVars, engineVars, Executing
<1>2. CASE \E r \in Requests, s \in Shapes : ClientSubmit(r, s)
  BY <1>2 DEF ClientSubmit, Submit, planVars, kvVars, Executing, Yields
<1>3. CASE \E r \in Requests : ClientCancel(r) \/ FailOne(r)
  BY <1>3 DEF ClientCancel, Cancel, FailOne, Fail, Terminate, Cleanup, planVars, Executing,
              Yields
<1>4. CASE \/ \E r \in Requests : ClockAdvances(r) \/ StepExpire(r) \/ StepPlanExpire(r)
           \/ Wake \/ LoopTop \/ StepExpired \/ StepPlanBegin \/ CommitPrefillEnd \/ FailingEnd
  BY <1>4 DEF ClockAdvances, StepExpire, StepPlanExpire, Wake, LoopTop, StepExpired,
              StepPlanBegin, CommitPrefillEnd, FailingEnd, engineVars, Executing
<1>5. CASE Close
  BY <1>5 DEF Close, schedVars, planVars, Executing, Yields
<1>6. CASE StepPlan
  <2>1. pc' = "decode" => phase' = "idle"
    BY <1>6 DEF StepPlan
  <2>2. pc' \in {"crashed", "plan", "sleep", "decode"}
    BY <1>6 DEF StepPlan
  <2>3. phase' # "idle"
    BY <1>6 DEF StepPlan, PlanStep, PlanSort, PlanDecode, PlanDecodeEnd, PlanPrefill, PlanRaises
  <2>4. QED
    BY <2>1, <2>2, <2>3 DEF Executing
<1>7. CASE \/ StartDecode \/ DecodeReturns \/ DecodeRaises \/ CommitDecodeEnd
           \/ SampleRaises \/ StartPrefill \/ PrefillReturns \/ PrefillRaises
  BY <1>7 DEF StartDecode, DecodeReturns, DecodeRaises, CommitDecodeEnd, SampleRaises,
              StartPrefill, PrefillReturns, PrefillRaises, ExecutionRaises, schedVars, planVars,
              Executing
<1>8. CASE CommitDecode \/ SampleFirst
  <2>1. Executing /\ pc # "decode" /\ pc' # "decode"
    BY <1>8 DEF CommitDecode, SampleFirst, Executing
  <2>2. CASE UNCHANGED schedVars
    BY <2>1, <2>2 DEF schedVars, planVars
  <2>3. CASE ~UNCHANGED schedVars
    <3>1. PICK r, stopped : r \in Requests /\ stopped \in BOOLEAN /\ AppendToken(r, stopped)
      <4>1. CASE CommitDecode
        <5>1. plan.decode[row].id \in Requests
          BY <1>0, <4>1, WorksNameRequests DEF CommitDecode, CommitInv, SchedInv
        <5>2. QED
          BY <2>3, <4>1, <5>1 DEF CommitDecode, CompleteDecode
      <4>2. CASE SampleFirst
        <5>1. plan.prefill[row].id \in Requests
          BY <1>0, <4>2, WorksNameRequests DEF SampleFirst, CommitInv, SchedInv
        <5>2. QED
          BY <2>3, <4>2, <5>1 DEF SampleFirst, CompletePrefillSample
      <4>3. QED
        BY <1>8, <4>1, <4>2
    <3>2. QED
      BY <2>1, <3>1 DEF AppendToken, Cleanup, planVars
  <2>4. QED
    BY <2>2, <2>3
<1>9. CASE CommitPrefill
  BY <1>9 DEF CommitPrefill, CompletePrefill, schedVars, planVars, kvVars, Executing
<1>10. QED
  BY <1>1, <1>2, <1>3, <1>4, <1>5, <1>6, <1>7, <1>8, <1>9 DEF Next, LoopStep, ClientStep

\* A release moves blocks to the heap only.
LEMMA BlocksStayOrGoFree ==
    ASSUME KVInv, UNCHANGED kvVars \/ \E q \in Requests : Create(q) \/ Release(q), NEW r \in Requests
    PROVE  BlocksOf(r) \cup free \subseteq (BlocksOf(r) \cup free)'
<1>1. CASE UNCHANGED kvVars \/ \E q \in Requests : Create(q)
  BY <1>1 DEF kvVars, Create, BlocksOf
<1>2. ASSUME NEW q \in Requests, Release(q) PROVE BlocksOf(r) \cup free \subseteq (BlocksOf(r) \cup free)'
  <2>1. CASE q \in live
    <3>1. free' = free \cup BlocksOf(q) /\ table' = [table EXCEPT ![q] = <<>>]
      BY <1>2, <2>1 DEF Release
    <3>2. DOMAIN table = Requests
      BY DEF KVInv, KVTypeOK
    <3>3. r # q => BlocksOf(r)' = BlocksOf(r)
      BY <3>1, <3>2 DEF BlocksOf
    <3>4. QED
      BY <3>1, <3>3
  <2>2. CASE q \notin live
    BY <1>2, <2>2 DEF Release, kvVars, BlocksOf
  <2>3. QED
    BY <2>1, <2>2
<1>3. QED
  BY <1>1, <1>2

\* Every step keeps what the loop hands to the executor current.
LEMMA HandoverNextInv == EngineInv /\ HandoverInv /\ [Next]_vars => HandoverInv'
<1> SUFFICES ASSUME EngineInv, HandoverInv, [Next]_vars PROVE HandoverInv'
  OBVIOUS
<1>1. CASE ~Executing'
  BY <1>1 DEF HandoverInv, Executing
<1>2. CASE PlanEnd
  BY <1>2, PlanHandsOver
<1>3. CASE Executing' /\ ~PlanEnd
  <2>1. /\ Executing
        /\ UNCHANGED plan
        /\ UNCHANGED kvVars \/ \E q \in Requests : Create(q) \/ Release(q)
        /\ pc' = "decode" => pc = "decode" /\ UNCHANGED kvVars
    BY <1>3, PoolWhileExecuting
  <2>2. /\ PlannedIds' = PlannedIds /\ DecodeIds' = DecodeIds
        /\ \A r \in PlannedIds : PlannedSlots(r)' = PlannedSlots(r)
    BY <2>1 DEF PlannedIds, PlannedSlots, DecodeIds
  <2>3. KVInv /\ PlannedIds \subseteq Requests
    BY WorksNameRequests DEF EngineInv, SchedInv
  <2>4. ASSUME NEW r \in PlannedIds, NEW slot \in PlannedSlots(r)
        PROVE  slot[1] \in (BlocksOf(r) \cup free)'
    <3>1. slot[1] \in BlocksOf(r) \cup free
      BY <2>1, <2>4 DEF HandoverInv
    <3>2. BlocksOf(r) \cup free \subseteq (BlocksOf(r) \cup free)'
      BY <2>1, <2>3, BlocksStayOrGoFree
    <3>3. QED
      BY <3>1, <3>2
  <2>5. pc' = "decode" =>
          /\ \A i \in DOMAIN plan'.decode :
                LET w == plan'.decode[i] IN
                len'[w.id] = w.pos + 1 /\ Slot(table'[w.id], w.pos) = w.slot
          /\ GraphHolds'
    BY <2>1, <2>2 DEF HandoverInv, GraphHolds, kvVars
  <2>6. QED
    BY <2>2, <2>4, <2>5 DEF HandoverInv
<1>4. QED
  BY <1>1, <1>2, <1>3

\* What is handed to the executor is current in every reachable state.
LEMMA HandoverInvariant == Spec => []HandoverInv
<1>1. Init => HandoverInv
  BY DEF Init, HandoverInv, Executing
<1>2. QED
  BY <1>1, HandoverNextInv, EngineInvariant, PTL DEF Spec

\* The metadata of a decode batch is never refused and never stale: the width of
\* the chosen graph bucket holds every table, for any list of buckets, and each
\* length counts exactly the slot the step is going to write.
THEOREM DecodeBatchesAreCurrent == Spec => []DecodeBatchIsCurrent
<1>1. EngineInv /\ HandoverInv => DecodeBatchIsCurrent
  <2> SUFFICES ASSUME EngineInv, HandoverInv, pc = "decode"
               PROVE  /\ MetadataAccepts(DecodeIds, TableWidth)
                      /\ \A i \in DOMAIN plan.decode :
                            LET w == plan.decode[i] IN
                            len[w.id] = w.pos + 1 /\ Slot(table[w.id], w.pos) = w.slot
    BY DEF DecodeBatchIsCurrent
  <2>1. MetadataAccepts(DecodeIds, TableWidth)
    BY WidthHolds DEF EngineInv, HandoverInv
  <2>2. QED
    BY <2>1 DEF HandoverInv
<1>2. QED
  BY <1>1, EngineInvariant, HandoverInvariant, PTL

\* A request cancelled while the executor runs leaves slots the kernels may
\* still write; until the step ends no other request owns any of them.
THEOREM StaleSlotsStayUnassigned == Spec => []NoStaleSlotIsReassigned
<1>1. EngineInv /\ HandoverInv => NoStaleSlotIsReassigned
  <2> SUFFICES ASSUME EngineInv, HandoverInv, Executing,
                      NEW r \in PlannedIds \cup live, NEW q \in PlannedIds \cup live, r # q,
                      NEW slot \in PlannedSlots(r)
               PROVE  slot[1] \notin BlocksOf(q)
    BY DEF NoStaleSlotIsReassigned
  <2>1. r \in PlannedIds
    BY DEF PlannedSlots, PlannedIds
  <2>2. slot[1] \in BlocksOf(r) \cup free
    BY <2>1 DEF HandoverInv
  <2>3. /\ r \in Requests /\ q \in Requests /\ OneOwnerPerBlock /\ free \subseteq Blocks
    BY WorksNameRequests DEF EngineInv, SchedInv, KVInv, KVTypeOK
  <2>4. slot[1] \in BlocksOf(r) => slot[1] \notin BlocksOf(q)
    BY <2>3 DEF OneOwnerPerBlock, BlocksOf
  <2>5. slot[1] \in free => slot[1] \notin BlocksOf(q)
    BY <2>3 DEF OneOwnerPerBlock, BlocksOf
  <2>6. QED
    BY <2>2, <2>4, <2>5
<1>2. QED
  BY <1>1, EngineInvariant, HandoverInvariant, PTL

-----------------------------------------------------------------------------
\* What a step of the engine does to states, tokens, events and counters.

\* Nothing.
Still == UNCHANGED <<state, shape, ngen, events, metrics>>

\* A request is admitted or refused.
Opens(r) ==
    /\ state[r] = "NEW"
    /\ \E s \in Shapes :
          /\ shape' = [shape EXCEPT ![r] = s]
          /\ \/ /\ state' = [state EXCEPT ![r] = "PREFILL"]
                /\ s.sampler
                /\ metrics' = [metrics EXCEPT !.submitted = @ + 1]
             \/ /\ state' = [state EXCEPT ![r] = "PREFILL"]
                /\ ~s.sampler
                /\ metrics' = metrics
             \/ /\ state' = [state EXCEPT ![r] = "REJECTED"]
                /\ metrics' = [metrics EXCEPT !.rejected = @ + 1]
    /\ UNCHANGED <<ngen, events>>

\* A request goes on to decode, or plan() times it out.
Moves(r) ==
    /\ Unfinished(r)
    /\ \/ state[r] = "PREFILL" /\ state' = [state EXCEPT ![r] = "DECODE"]
       \/ state' = [state EXCEPT ![r] = "TIMED_OUT"]
    /\ UNCHANGED <<shape, ngen, events, metrics>>

\* A request ends early and is told so.
Aborts(r) ==
    /\ Unfinished(r)
    /\ \/ /\ state' = [state EXCEPT ![r] = "CANCELLED"]
          /\ events' = [events EXCEPT ![r] = Append(@, "cancelled")]
          /\ metrics' = [metrics EXCEPT !.cancelled = @ + 1]
       \/ /\ state' = [state EXCEPT ![r] = "TIMED_OUT"]
          /\ events' = [events EXCEPT ![r] = Append(@, "timeout")]
          /\ metrics' = [metrics EXCEPT !.timed_out = @ + 1]
       \/ /\ state' = [state EXCEPT ![r] = "FAILED"]
          /\ events' = [events EXCEPT ![r] = Append(@, "error")]
          /\ metrics' = [metrics EXCEPT !.failed = @ + 1]
    /\ UNCHANGED <<shape, ngen>>

\* A request gets a token, perhaps its last one.
Emits(r) ==
    /\ state[r] = "DECODE"
    /\ ngen' = [ngen EXCEPT ![r] = @ + 1]
    /\ \/ /\ ngen[r] + 1 < shape[r].max
          /\ state' = state
          /\ events' = [events EXCEPT ![r] = Append(@, Token)]
          /\ metrics' = [metrics EXCEPT !.generated_tokens = @ + 1]
       \/ \E reason \in {"stop", "length"} :
             /\ reason = "length" => ngen[r] + 1 = shape[r].max
             /\ state' = [state EXCEPT ![r] = "FINISHED"]
             /\ events' = [events EXCEPT ![r] = @ \o <<Token, reason>>]
             /\ metrics' = [metrics EXCEPT !.generated_tokens = @ + 1, !.completed = @ + 1]
    /\ UNCHANGED shape

\* A token that is recorded.
LEMMA RecordsToken ==
    ASSUME EngineInv, NEW r \in Requests, NEW stopped \in BOOLEAN,
           SampleCommits(r) \/ DecodeCommits(r),
           AppendToken(r, stopped), RecordToken(r, stopped)
    PROVE  Emits(r)
<1>1. /\ state[r] = "DECODE" /\ state \in [Requests -> States] /\ ngen[r] \in Nat
      /\ RequestInv(r) /\ ngen[r] < shape[r].max
      /\ metrics \in Counters
  BY DEF SampleCommits, DecodeCommits, EngineInv, SchedInv, ControlTypeOK, RequestInv,
         EngineTypeOK
<1>2. shape[r].max \in Nat
  BY <1>1, ShapesAssumption DEF RequestInv, Unfinished, Active
<1>3. ngen' = [ngen EXCEPT ![r] = @ + 1] /\ shape' = shape
  BY DEF AppendToken
<1>4. CASE stopped \/ ngen[r] + 1 >= shape[r].max
  <2>1. state' = [state EXCEPT ![r] = "FINISHED"]
    BY <1>4 DEF AppendToken
  <2>2. state'[r] = "FINISHED"
    BY <1>1, <2>1
  <2>3. /\ events' = [events EXCEPT ![r] = @ \o <<Token, FinishReason(stopped)>>]
        /\ metrics' = [metrics EXCEPT !.generated_tokens = @ + 1, !.completed = @ + 1]
    BY <2>2 DEF RecordToken
  <2>4. /\ FinishReason(stopped) \in {"stop", "length"}
        /\ FinishReason(stopped) = "length" => ngen[r] + 1 = shape[r].max
    BY <1>1, <1>2, <1>4 DEF FinishReason
  <2>5. QED
    BY <1>1, <1>3, <2>1, <2>3, <2>4 DEF Emits
<1>5. CASE ~(stopped \/ ngen[r] + 1 >= shape[r].max)
  <2>1. state' = state /\ ngen[r] + 1 < shape[r].max
    BY <1>1, <1>2, <1>5 DEF AppendToken
  <2>2. state'[r] # "FINISHED"
    BY <1>1, <2>1
  <2>3. /\ events' = [events EXCEPT ![r] = Append(@, Token)]
        /\ metrics' = [metrics EXCEPT !.generated_tokens = @ + 1, !.completed = @]
    BY <2>2 DEF RecordToken
  <2>4. metrics' = [metrics EXCEPT !.generated_tokens = @ + 1]
    BY <1>1, <2>3 DEF Counters
  <2>5. QED
    BY <1>1, <1>3, <2>1, <2>3, <2>4 DEF Emits
<1>6. QED
  BY <1>4, <1>5

\* What a step of the engine does to the requests: it opens, moves, aborts or emits
\* one of them, or leaves them all as they are.
LEMMA StepEffect ==
    ASSUME EngineInv, [Next]_vars
    PROVE  Still \/ \E r \in Requests : Opens(r) \/ Moves(r) \/ Aborts(r) \/ Emits(r)
<1>0. state \in [Requests -> States]
  BY DEF EngineInv, SchedInv, ControlTypeOK
<1>1. CASE UNCHANGED vars
  BY <1>1 DEF vars, schedVars, requestVars, engineVars, Still
<1>2. ASSUME NEW r \in Requests, NEW s \in Shapes, ClientSubmit(r, s) PROVE Opens(r)
  <2>1. Submit(r, s) /\ state[r] = "NEW" /\ UNCHANGED <<ngen, events>>
    BY <1>2 DEF ClientSubmit, Submit
  <2>2. \/ state' = [state EXCEPT ![r] = "PREFILL"] \/ state' = [state EXCEPT ![r] = "REJECTED"]
    BY <2>1 DEF Submit
  <2>3. /\ state'[r] = "REJECTED" => metrics' = [metrics EXCEPT !.rejected = @ + 1]
        /\ state'[r] # "REJECTED" /\ s.sampler => metrics' = [metrics EXCEPT !.submitted = @ + 1]
        /\ state'[r] # "REJECTED" /\ ~s.sampler => metrics' = metrics
    BY <1>2 DEF ClientSubmit
  <2>4. shape' = [shape EXCEPT ![r] = s]
    BY <2>1 DEF Submit
  <2>5. CASE state' = [state EXCEPT ![r] = "PREFILL"]
    <3>1. state'[r] # "REJECTED"
      BY <1>0, <2>5
    <3>2. QED
      BY ZenonT(40), <2>1, <2>3, <2>4, <2>5, <3>1 DEF Opens
  <2>6. CASE state' = [state EXCEPT ![r] = "REJECTED"]
    <3>1. state'[r] = "REJECTED"
      BY <1>0, <2>6
    <3>2. QED
      BY ZenonT(40), <2>1, <2>3, <2>4, <2>6, <3>1 DEF Opens
  <2>7. QED
    BY <2>2, <2>5, <2>6
<1>3. ASSUME NEW r \in Requests, ClientCancel(r) PROVE Aborts(r)
  BY <1>3 DEF ClientCancel, Cancel, Terminate, FinishEvent, Aborts
<1>4. ASSUME NEW r \in Requests, StepExpire(r) PROVE Aborts(r)
  BY <1>4 DEF StepExpire, ExpireOne, Expired, Terminate, FinishEvent, Aborts
<1>5. ASSUME NEW r \in Requests, FailOne(r) PROVE Aborts(r)
  BY <1>5 DEF FailOne, FailTargets, Fail, Terminate, FinishEvent, Aborts
<1>6. ASSUME NEW r \in Requests, StepPlanExpire(r) PROVE Moves(r)
  BY <1>6 DEF StepPlanExpire, ExpireOne, Expired, Terminate, engineVars, Moves
<1>7. CASE \/ Close \/ Wake \/ LoopTop \/ StepExpired \/ StepPlanBegin \/ StartDecode
           \/ DecodeReturns \/ DecodeRaises \/ CommitDecodeEnd \/ SampleRaises \/ StartPrefill
           \/ PrefillReturns \/ PrefillRaises \/ CommitPrefillEnd \/ FailingEnd
           \/ \E r \in Requests : ClockAdvances(r)
  BY <1>7 DEF Close, Wake, LoopTop, ExpireBegin, StepExpired, ExpireEnd, StepPlanBegin, PlanBegin,
              StartDecode, DecodeReturns, DecodeRaises, CommitDecodeEnd, SampleRaises,
              StartPrefill, PrefillReturns, PrefillRaises, CommitPrefillEnd, FailingEnd,
              ExecutionRaises, ClockAdvances, DeadlinePasses, schedVars, requestVars,
              engineVars, Still
<1>8. CASE StepPlan
  BY <1>8 DEF StepPlan, PlanStep, PlanSort, PlanDecode, PlanDecodeEnd, PlanPrefill, PlanEnd,
              PlanRaises, requestVars, Still
<1>9. CASE CommitDecode
  <2>1. PICK r \in Requests : r = plan.decode[row].id
    BY <1>9, WorksNameRequests DEF CommitDecode, EngineInv, EngineTypeOK, CommitInv, SchedInv
  <2>2. CASE DecodeCommits(r)
    <3>1. PICK stopped \in BOOLEAN : CompleteDecode(r, stopped) /\ RecordToken(r, stopped)
      BY <1>9, <2>1, <2>2 DEF CommitDecode
    <3>2. Emits(r)
      BY <2>2, <3>1, RecordsToken DEF CompleteDecode
    <3>3. QED
      BY <3>2
  <2>3. CASE ~DecodeCommits(r)
    BY <1>9, <2>1, <2>3 DEF CommitDecode, schedVars, requestVars, Still
  <2>4. QED
    BY <2>2, <2>3
<1>10. CASE SampleFirst
  <2>1. PICK r \in Requests : r = plan.prefill[row].id
    BY <1>10, WorksNameRequests DEF SampleFirst, EngineInv, CommitInv, SchedInv
  <2>2. CASE SampleCommits(r)
    <3>1. PICK stopped \in BOOLEAN : CompletePrefillSample(r, stopped) /\ RecordToken(r, stopped)
      BY <1>10, <2>1, <2>2 DEF SampleFirst
    <3>2. Emits(r)
      BY <2>2, <3>1, RecordsToken DEF CompletePrefillSample
    <3>3. QED
      BY <3>2
  <2>3. CASE ~SampleCommits(r)
    BY <1>10, <2>1, <2>3 DEF SampleFirst, schedVars, requestVars, Still
  <2>4. QED
    BY <2>2, <2>3
<1>11. CASE CommitPrefill
  <2>1. PICK r \in Requests : r = plan.prefill[row].id
    BY <1>11, WorksNameRequests DEF CommitPrefill, EngineInv, EngineTypeOK, CommitInv, SchedInv
  <2>2. PICK n : n = plan.prefill[row].count
    OBVIOUS
  <2>3. UNCHANGED <<events, metrics>>
    BY <1>11 DEF CommitPrefill
  <2>4. CASE PrefillCommits(r, n)
    <3>1. CompletePrefill(r, n)
      BY <1>11, <2>1, <2>2, <2>4 DEF CommitPrefill
    <3>2. UNCHANGED <<shape, ngen>> /\ state[r] = "PREFILL"
      BY <2>4, <3>1 DEF CompletePrefill, PrefillCommits
    <3>3. state' = state \/ state' = [state EXCEPT ![r] = "DECODE"]
      BY <3>1 DEF CompletePrefill
    <3>4. QED
      BY <2>3, <3>2, <3>3 DEF Still, Moves, Unfinished, Active
  <2>5. CASE ~PrefillCommits(r, n)
    BY <1>11, <2>1, <2>2, <2>3, <2>5 DEF CommitPrefill, schedVars, requestVars, Still
  <2>6. QED
    BY <2>4, <2>5
<1>12. QED
  BY <1>1, <1>2, <1>3, <1>4, <1>5, <1>6, <1>7, <1>8, <1>9, <1>10, <1>11
     DEF Next, LoopStep, ClientStep

-----------------------------------------------------------------------------
\* Event queues.

Tokens(q) == {i \in DOMAIN q : q[i] = Token}
Ended(q) == q # <<>> /\ q[Len(q)] # Token
EndsOnce(q) == \A i \in DOMAIN q : q[i] # Token => i = Len(q)

\* One more event on a queue that has not ended.
LEMMA Tell ==
    ASSUME NEW q \in Seq(Events), EndsOnce(q), ~Ended(q), NEW e \in Events,
           NEW u, u = Append(q, e)
    PROVE  /\ u \in Seq(Events) /\ u # <<>> /\ u[Len(u)] = e
           /\ EndsOnce(u)
           /\ Ended(u) <=> e # Token
           /\ Cardinality(Tokens(u)) = Cardinality(Tokens(q)) + (IF e = Token THEN 1 ELSE 0)
<1>1. /\ u \in Seq(Events) /\ Len(u) = Len(q) + 1 /\ Len(q) \in Nat
      /\ DOMAIN q = 1 .. Len(q) /\ DOMAIN u = 1 .. Len(q) + 1
      /\ \A i \in 1 .. Len(q) : u[i] = q[i]
      /\ u[Len(q) + 1] = e
  OBVIOUS
<1>2. \A i \in 1 .. Len(q) : q[i] = Token
  <2> SUFFICES ASSUME NEW i \in 1 .. Len(q), q[i] # Token PROVE FALSE
    OBVIOUS
  <2>1. i = Len(q)
    BY <1>1 DEF EndsOnce
  <2>2. q # <<>>
    BY <1>1
  <2>3. QED
    BY <2>1, <2>2 DEF Ended
<1>3. EndsOnce(u)
  BY <1>1, <1>2 DEF EndsOnce
<1>4. u # <<>> /\ (Ended(u) <=> e # Token)
  BY <1>1 DEF Ended
<1>5. Tokens(q) = 1 .. Len(q)
  BY <1>1, <1>2 DEF Tokens
<1>6. Tokens(u) = IF e = Token THEN Tokens(q) \cup {Len(q) + 1} ELSE Tokens(q)
  BY <1>1, <1>2, <1>5 DEF Tokens
<1>7. IsFiniteSet(Tokens(q)) /\ Len(q) + 1 \notin Tokens(q) /\ Cardinality(Tokens(q)) \in Nat
  BY <1>1, <1>5, FS_Interval, FS_CardinalityType
<1>8. Cardinality(Tokens(u)) = Cardinality(Tokens(q)) + (IF e = Token THEN 1 ELSE 0)
  <2>1. CASE e = Token
    <3>1. Tokens(u) = Tokens(q) \cup {Len(q) + 1}
      BY <1>6, <2>1
    <3>2. Cardinality(Tokens(u)) = Cardinality(Tokens(q)) + 1
      BY <1>7, <3>1, FS_AddElement
    <3>3. QED
      BY <2>1, <3>2
  <2>2. CASE e # Token
    <3>1. Tokens(u) = Tokens(q)
      BY <1>6, <2>2
    <3>2. QED
      BY <1>7, <2>2, <3>1
  <2>3. QED
    BY <2>1, <2>2
<1>9. QED
  BY <1>1, <1>3, <1>4, <1>8

\* A last token is two events.
LEMMA TellLast ==
    ASSUME NEW q \in Seq(Events), EndsOnce(q), ~Ended(q),
           NEW e \in Events, e # Token, NEW u, u = q \o <<Token, e>>
    PROVE  /\ u \in Seq(Events) /\ u # <<>> /\ u[Len(u)] = e
           /\ EndsOnce(u)
           /\ Ended(u)
           /\ Cardinality(Tokens(u)) = Cardinality(Tokens(q)) + 1
<1> DEFINE v == Append(q, Token)
<1>1. Token \in Events
  BY DEF Events
<1>2. /\ v \in Seq(Events) /\ EndsOnce(v) /\ ~Ended(v)
      /\ Cardinality(Tokens(v)) = Cardinality(Tokens(q)) + 1
  BY <1>1, Tell
<1>3. u = Append(v, e)
  BY <1>1
<1> HIDE DEF v
<1>4. Cardinality(Tokens(v)) + 0 = Cardinality(Tokens(v))
  <2>1. IsFiniteSet(Tokens(v))
    <3>1. Len(v) \in Nat /\ DOMAIN v = 1 .. Len(v)
      BY <1>2
    <3>2. IsFiniteSet(1 .. Len(v))
      BY <3>1, FS_Interval
    <3>3. Tokens(v) \in SUBSET (1 .. Len(v))
      BY <3>1 DEF Tokens
    <3>4. QED
      BY <3>2, <3>3, FS_Subset
  <2>2. Cardinality(Tokens(v)) \in Nat
    BY <2>1, FS_CardinalityType
  <2>3. QED
    BY <2>2
<1>5. /\ u \in Seq(Events) /\ u # <<>> /\ u[Len(u)] = e /\ EndsOnce(u) /\ Ended(u)
      /\ Cardinality(Tokens(u)) = Cardinality(Tokens(v)) + 0
  BY <1>2, <1>3, Tell
<1>6. QED
  BY <1>2, <1>4, <1>5

-----------------------------------------------------------------------------
\* What a client was told, request by request.

StoryInv(r) ==
    /\ Cardinality(Tokens(events[r])) = ngen[r]
    /\ EndsOnce(events[r])
    /\ state[r] \in {"FINISHED", "CANCELLED", "FAILED"} => Ended(events[r])
    /\ Ended(events[r]) =>
          \/ state[r] = "FINISHED" /\ events[r][Len(events[r])] \in {"stop", "length"}
          \/ state[r] = "CANCELLED" /\ events[r][Len(events[r])] = "cancelled"
          \/ state[r] = "TIMED_OUT" /\ events[r][Len(events[r])] = "timeout"
          \/ state[r] = "FAILED" /\ events[r][Len(events[r])] = "error"

StoriesInv == \A r \in Requests : StoryInv(r)

\* A request that is left alone keeps its story.
LEMMA StoryFrame ==
    ASSUME NEW q, StoryInv(q), state'[q] = state[q], ngen'[q] = ngen[q], events'[q] = events[q]
    PROVE  StoryInv(q)'
BY DEF StoryInv

\* Every step keeps the events of a request in line with its state.
LEMMA StoriesNextInv == EngineInv /\ StoriesInv /\ [Next]_vars => StoriesInv'
<1> SUFFICES ASSUME EngineInv, StoriesInv, [Next]_vars PROVE StoriesInv'
  OBVIOUS
<1>0. /\ state \in [Requests -> States] /\ ngen \in [Requests -> Nat]
      /\ events \in [Requests -> Seq(Events)]
      /\ "cancelled" \in Events /\ "timeout" \in Events /\ "error" \in Events
      /\ "stop" \in Events /\ "length" \in Events /\ Token \in Events /\ Token = "token"
  BY DEF EngineInv, SchedInv, ControlTypeOK, EngineTypeOK, Events, Token
<1>1. CASE Still
  BY <1>1, StoryFrame DEF Still, StoriesInv
<1>2. ASSUME NEW r \in Requests, Opens(r) \/ Moves(r) PROVE StoriesInv'
  <2>1. StoryInv(r)'
    BY <1>0, <1>2 DEF Opens, Moves, Unfinished, Active, StoriesInv, StoryInv
  <2>2. \A q \in Requests \ {r} : StoryInv(q)'
    BY <1>0, <1>2, StoryFrame DEF Opens, Moves, StoriesInv
  <2>3. QED
    BY <2>1, <2>2 DEF StoriesInv
<1>3. ASSUME NEW r \in Requests, Aborts(r) \/ Emits(r) PROVE StoriesInv'
  <2>1. \A q \in Requests \ {r} : StoryInv(q)'
    BY <1>0, <1>3, StoryFrame DEF Aborts, Emits, StoriesInv
  <2>2. StoryInv(r) /\ EndsOnce(events[r]) /\ ~Ended(events[r]) /\ events[r] \in Seq(Events)
    BY <1>0, <1>3 DEF Aborts, Emits, Unfinished, Active, StoriesInv, StoryInv
  <2>3. ASSUME Aborts(r) PROVE StoryInv(r)'
    <3>1. PICK e \in {"cancelled", "timeout", "error"} :
              /\ events'[r] = Append(events[r], e)
              /\ \/ state'[r] = "CANCELLED" /\ e = "cancelled"
                 \/ state'[r] = "TIMED_OUT" /\ e = "timeout"
                 \/ state'[r] = "FAILED" /\ e = "error"
      BY <1>0, <2>3 DEF Aborts
    <3>2. e \in Events /\ e # Token
      BY <1>0
    <3>3. /\ events'[r] # <<>> /\ events'[r][Len(events'[r])] = e /\ EndsOnce(events'[r])
          /\ Ended(events'[r])
          /\ Cardinality(Tokens(events'[r])) = Cardinality(Tokens(events[r])) + 0
      BY ZenonT(40), <2>2, <3>1, <3>2, Tell
    <3>4. ngen'[r] = ngen[r] /\ ngen[r] \in Nat
      BY <1>0, <2>3 DEF Aborts
    <3>5. Cardinality(Tokens(events'[r])) = ngen'[r]
      BY <2>2, <3>3, <3>4 DEF StoryInv
    <3>6. QED
      BY <3>1, <3>3, <3>5 DEF StoryInv
  <2>4. ASSUME Emits(r) PROVE StoryInv(r)'
    <3>1. ngen'[r] = ngen[r] + 1
      BY <1>0, <2>4 DEF Emits
    <3>2. CASE state' = state /\ events' = [events EXCEPT ![r] = Append(@, Token)]
      <4>1. events'[r] = Append(events[r], Token) /\ state'[r] = "DECODE"
        BY <1>0, <2>4, <3>2 DEF Emits
      <4>2. /\ EndsOnce(events'[r]) /\ ~Ended(events'[r])
            /\ Cardinality(Tokens(events'[r])) = Cardinality(Tokens(events[r])) + 1
        BY <1>0, <2>2, <4>1, Tell
      <4>3. QED
        BY <2>2, <3>1, <4>1, <4>2 DEF StoryInv
    <3>3. ASSUME NEW reason \in {"stop", "length"},
                 /\ state' = [state EXCEPT ![r] = "FINISHED"]
                 /\ events' = [events EXCEPT ![r] = @ \o <<Token, reason>>]
          PROVE  StoryInv(r)'
      <4>1. events'[r] = events[r] \o <<Token, reason>> /\ state'[r] = "FINISHED"
        BY <1>0, <3>3
      <4>2. reason \in Events /\ reason # Token
        BY <1>0
      <4>3. /\ EndsOnce(events'[r]) /\ Ended(events'[r])
            /\ events'[r][Len(events'[r])] = reason
            /\ Cardinality(Tokens(events'[r])) = Cardinality(Tokens(events[r])) + 1
        BY <2>2, <4>1, <4>2, TellLast
      <4>4. QED
        BY <2>2, <3>1, <4>1, <4>3 DEF StoryInv
    <3>4. QED
      BY <2>4, <3>2, <3>3 DEF Emits
  <2>5. QED
    BY <1>3, <2>1, <2>3, <2>4 DEF StoriesInv
<1>4. QED
  BY <1>1, <1>2, <1>3, StepEffect

\* Nobody has a story at the start.
LEMMA StoriesInitInv == Init => StoriesInv
<1> SUFFICES ASSUME Init, NEW r \in Requests PROVE StoryInv(r)
  BY DEF StoriesInv
<1>1. events[r] = <<>> /\ ngen[r] = 0 /\ state[r] = "NEW"
  BY DEF Init, SchedInit
<1>2. Tokens(events[r]) = {} /\ EndsOnce(events[r]) /\ ~Ended(events[r])
  BY <1>1 DEF Tokens, EndsOnce, Ended
<1>3. QED
  BY <1>1, <1>2, FS_EmptySet DEF StoryInv

\* The events tell the state in every reachable state.
LEMMA StoriesInvariant == Spec => []StoriesInv
BY StoriesInitInv, StoriesNextInv, EngineInvariant, PTL DEF Spec

\* What a client hears is the truth: one token event per generated token, at most
\* one terminal event, of the kind of the request's end, nothing after it, and
\* no end untold but a timeout that plan() found.
THEOREM ClientsHearTheStory == Spec => []EventsTellTheStory
<1>1. StoriesInv => EventsTellTheStory
  <2> SUFFICES ASSUME StoriesInv, NEW r \in Requests
               PROVE  /\ Cardinality(Tokens(events[r])) = ngen[r]
                      /\ EndsOnce(events[r])
                      /\ state[r] \in {"FINISHED", "CANCELLED", "FAILED"} => Ended(events[r])
                      /\ Ended(events[r]) => /\ state[r] \in DOMAIN FinalEvent
                                             /\ events[r][Len(events[r])] \in FinalEvent[state[r]]
    BY DEF EventsTellTheStory, Closed, Tokens, EndsOnce, Ended
  <2>1. StoryInv(r)
    BY DEF StoriesInv
  <2>2. /\ DOMAIN FinalEvent = {"FINISHED", "CANCELLED", "TIMED_OUT", "FAILED"}
        /\ FinalEvent["FINISHED"] = {"stop", "length"}
        /\ FinalEvent["CANCELLED"] = {"cancelled"}
        /\ FinalEvent["TIMED_OUT"] = {"timeout"}
        /\ FinalEvent["FAILED"] = {"error"}
    BY DEF FinalEvent
  <2>3. QED
    BY <2>1, <2>2 DEF StoryInv
<1>2. QED
  BY <1>1, StoriesInvariant, PTL

-----------------------------------------------------------------------------
\* The counters.

Of(st) == {r \in Requests : state[r] = st}
Accepted == {r \in Requests : state[r] \notin {"NEW", "REJECTED"} /\ shape[r].sampler}
ToldLate == {r \in Requests : Ended(events[r]) /\ state[r] = "TIMED_OUT"}

CountsInv ==
    /\ metrics.submitted = Cardinality(Accepted)
    /\ metrics.rejected = Cardinality(Of("REJECTED"))
    /\ metrics.completed = Cardinality(Of("FINISHED"))
    /\ metrics.cancelled = Cardinality(Of("CANCELLED"))
    /\ metrics.failed = Cardinality(Of("FAILED"))
    /\ metrics.timed_out = Cardinality(ToldLate)

\* A set of requests that gets one more member.
LEMMA OneMore ==
    ASSUME NEW S \in SUBSET Requests, NEW r \in Requests, r \notin S
    PROVE  Cardinality(S \cup {r}) = Cardinality(S) + 1
BY RequestsAssumption, FS_Subset, FS_AddElement

\* Every step counts what it does to a request, once.
LEMMA CountsNextInv == EngineInv /\ StoriesInv /\ CountsInv /\ [Next]_vars => CountsInv'
<1> SUFFICES ASSUME EngineInv, StoriesInv, CountsInv, [Next]_vars PROVE CountsInv'
  OBVIOUS
<1>0. /\ state \in [Requests -> States] /\ metrics \in Counters
      /\ events \in [Requests -> Seq(Events)]
      /\ shape \in [Requests -> Shapes \cup {NoShape}]
  BY DEF EngineInv, SchedInv, ControlTypeOK, EngineTypeOK
<1>1. CASE Still
  BY <1>1 DEF Still, CountsInv, Of, Accepted, ToldLate
<1>2. ASSUME NEW r \in Requests, Opens(r) PROVE CountsInv'
  <2>1. state[r] = "NEW" /\ events' = events
    BY <1>2 DEF Opens
  <2>0. PICK s \in Shapes :
           /\ shape' = [shape EXCEPT ![r] = s]
           /\ \/ /\ state' = [state EXCEPT ![r] = "PREFILL"]
                 /\ s.sampler
                 /\ metrics' = [metrics EXCEPT !.submitted = @ + 1]
              \/ /\ state' = [state EXCEPT ![r] = "PREFILL"]
                 /\ ~s.sampler
                 /\ metrics' = metrics
              \/ /\ state' = [state EXCEPT ![r] = "REJECTED"]
                 /\ metrics' = [metrics EXCEPT !.rejected = @ + 1]
    BY <1>2 DEF Opens
  <2>2. CASE /\ state' = [state EXCEPT ![r] = "PREFILL"]
             /\ s.sampler
             /\ metrics' = [metrics EXCEPT !.submitted = @ + 1]
    <3>1. Accepted' = Accepted \cup {r} /\ r \notin Accepted
      BY <1>0, <2>0, <2>1, <2>2 DEF Accepted
    <3>2. /\ Of("REJECTED")' = Of("REJECTED") /\ Of("FINISHED")' = Of("FINISHED")
          /\ Of("CANCELLED")' = Of("CANCELLED") /\ Of("FAILED")' = Of("FAILED")
      BY <1>0, <2>1, <2>2 DEF Of, Accepted, Active
    <3>3. ToldLate' = ToldLate
      BY <1>0, <2>1, <2>2 DEF ToldLate
    <3>4. Cardinality(Accepted') = Cardinality(Accepted) + 1
      BY <3>1, OneMore DEF Accepted
    <3>5. /\ metrics'.submitted = metrics.submitted + 1
          /\ metrics'.rejected = metrics.rejected /\ metrics'.completed = metrics.completed
          /\ metrics'.cancelled = metrics.cancelled /\ metrics'.failed = metrics.failed
          /\ metrics'.timed_out = metrics.timed_out
      BY <1>0, <2>2 DEF Counters
    <3>6. QED
      BY <3>2, <3>3, <3>4, <3>5 DEF CountsInv
  <2>3. CASE /\ state' = [state EXCEPT ![r] = "REJECTED"]
             /\ metrics' = [metrics EXCEPT !.rejected = @ + 1]
    <3>1. Accepted' = Accepted
      BY <1>0, <2>0, <2>1, <2>3 DEF Accepted
    <3>2. /\ Of("REJECTED")' = Of("REJECTED") \cup {r} /\ r \notin Of("REJECTED")
          /\ Of("FINISHED")' = Of("FINISHED")
          /\ Of("CANCELLED")' = Of("CANCELLED") /\ Of("FAILED")' = Of("FAILED")
      BY <1>0, <2>1, <2>3 DEF Of, Accepted, Active
    <3>3. ToldLate' = ToldLate
      BY <1>0, <2>1, <2>3 DEF ToldLate
    <3>4. Cardinality(Of("REJECTED")') = Cardinality(Of("REJECTED")) + 1
      BY <3>2, OneMore DEF Of
    <3>5. /\ metrics'.rejected = metrics.rejected + 1
          /\ metrics'.submitted = metrics.submitted /\ metrics'.completed = metrics.completed
          /\ metrics'.cancelled = metrics.cancelled /\ metrics'.failed = metrics.failed
          /\ metrics'.timed_out = metrics.timed_out
      BY <1>0, <2>3 DEF Counters
    <3>6. QED
      BY <3>1, <3>2, <3>3, <3>4, <3>5 DEF CountsInv
  <2>4. CASE /\ state' = [state EXCEPT ![r] = "PREFILL"]
             /\ ~s.sampler
             /\ metrics' = metrics
    <3>1. Accepted' = Accepted
      BY <1>0, <2>0, <2>1, <2>4 DEF Accepted
    <3>2. /\ Of("REJECTED")' = Of("REJECTED") /\ Of("FINISHED")' = Of("FINISHED")
          /\ Of("CANCELLED")' = Of("CANCELLED") /\ Of("FAILED")' = Of("FAILED")
      BY <1>0, <2>1, <2>4 DEF Of
    <3>3. ToldLate' = ToldLate
      BY <1>0, <2>1, <2>4 DEF ToldLate
    <3>4. QED
      BY <2>4, <3>1, <3>2, <3>3 DEF CountsInv
  <2>5. QED
    BY <2>0, <2>2, <2>3, <2>4
<1>3. ASSUME NEW r \in Requests, Moves(r) PROVE CountsInv'
  <2>1. state[r] \in Active /\ events' = events /\ metrics' = metrics /\ shape' = shape
    BY <1>3 DEF Moves, Unfinished
  <2>2. PICK st \in {"DECODE", "TIMED_OUT"} : state' = [state EXCEPT ![r] = st]
    BY <1>3 DEF Moves
  <2>4. /\ Of("REJECTED")' = Of("REJECTED") /\ Of("FINISHED")' = Of("FINISHED")
        /\ Of("CANCELLED")' = Of("CANCELLED") /\ Of("FAILED")' = Of("FAILED")
        /\ Accepted' = Accepted
    BY <1>0, <2>1, <2>2 DEF Of, Accepted, Active
  <2>5. ~Ended(events[r])
    BY <2>1 DEF StoriesInv, StoryInv, Active
  <2>6. ToldLate' = ToldLate
    BY <1>0, <2>1, <2>2, <2>5 DEF ToldLate, Active
  <2>7. QED
    BY <2>1, <2>4, <2>6 DEF CountsInv
<1>4. ASSUME NEW r \in Requests, Aborts(r) PROVE CountsInv'
  <2>1. state[r] \in Active /\ state[r] # "NEW" /\ state[r] # "REJECTED"
        /\ shape' = shape
        /\ EndsOnce(events[r]) /\ ~Ended(events[r])
    BY <1>4 DEF Aborts, Unfinished, Active, StoriesInv, StoryInv
  <2>2. CASE /\ state' = [state EXCEPT ![r] = "CANCELLED"]
             /\ events' = [events EXCEPT ![r] = Append(@, "cancelled")]
             /\ metrics' = [metrics EXCEPT !.cancelled = @ + 1]
    <3>1. /\ Of("CANCELLED")' = Of("CANCELLED") \cup {r} /\ r \notin Of("CANCELLED")
          /\ Of("REJECTED")' = Of("REJECTED") /\ Of("FINISHED")' = Of("FINISHED")
          /\ Of("FAILED")' = Of("FAILED") /\ Accepted' = Accepted
      BY <1>0, <2>1, <2>2 DEF Of, Accepted, Active
    <3>2. ToldLate' = ToldLate
      BY <1>0, <2>1, <2>2 DEF ToldLate, Active
    <3>3. Cardinality(Of("CANCELLED")') = Cardinality(Of("CANCELLED")) + 1
      BY <3>1, OneMore DEF Of
    <3>4. /\ metrics'.cancelled = metrics.cancelled + 1
          /\ metrics'.rejected = metrics.rejected /\ metrics'.completed = metrics.completed
          /\ metrics'.submitted = metrics.submitted /\ metrics'.failed = metrics.failed
          /\ metrics'.timed_out = metrics.timed_out
      BY <1>0, <2>2 DEF Counters
    <3>5. QED
      BY <3>1, <3>2, <3>3, <3>4 DEF CountsInv
  <2>3. CASE /\ state' = [state EXCEPT ![r] = "FAILED"]
             /\ events' = [events EXCEPT ![r] = Append(@, "error")]
             /\ metrics' = [metrics EXCEPT !.failed = @ + 1]
    <3>1. /\ Of("FAILED")' = Of("FAILED") \cup {r} /\ r \notin Of("FAILED")
          /\ Of("REJECTED")' = Of("REJECTED") /\ Of("FINISHED")' = Of("FINISHED")
          /\ Of("CANCELLED")' = Of("CANCELLED") /\ Accepted' = Accepted
      BY <1>0, <2>1, <2>3 DEF Of, Accepted, Active
    <3>2. ToldLate' = ToldLate
      BY <1>0, <2>1, <2>3 DEF ToldLate, Active
    <3>3. Cardinality(Of("FAILED")') = Cardinality(Of("FAILED")) + 1
      BY <3>1, OneMore DEF Of
    <3>4. /\ metrics'.failed = metrics.failed + 1
          /\ metrics'.rejected = metrics.rejected /\ metrics'.completed = metrics.completed
          /\ metrics'.submitted = metrics.submitted /\ metrics'.cancelled = metrics.cancelled
          /\ metrics'.timed_out = metrics.timed_out
      BY <1>0, <2>3 DEF Counters
    <3>5. QED
      BY <3>1, <3>2, <3>3, <3>4 DEF CountsInv
  <2>4. CASE /\ state' = [state EXCEPT ![r] = "TIMED_OUT"]
             /\ events' = [events EXCEPT ![r] = Append(@, "timeout")]
             /\ metrics' = [metrics EXCEPT !.timed_out = @ + 1]
    <3>1. /\ Of("FAILED")' = Of("FAILED") /\ Of("REJECTED")' = Of("REJECTED")
          /\ Of("FINISHED")' = Of("FINISHED") /\ Of("CANCELLED")' = Of("CANCELLED")
          /\ Accepted' = Accepted
      BY <1>0, <2>1, <2>4 DEF Of, Accepted, Active
    <3>2. Ended(events'[r])
      <4>1. "timeout" \in Events /\ "timeout" # Token /\ events[r] \in Seq(Events)
        BY <1>0 DEF Events, Token
      <4>2. events'[r] = Append(events[r], "timeout")
        BY <1>0, <2>4
      <4>3. QED
        BY <2>1, <4>1, <4>2, Tell
    <3>3. ToldLate' = ToldLate \cup {r} /\ r \notin ToldLate
      BY <1>0, <2>1, <2>4, <3>2 DEF ToldLate, Active
    <3>4. Cardinality(ToldLate') = Cardinality(ToldLate) + 1
      BY <3>3, OneMore DEF ToldLate
    <3>5. /\ metrics'.timed_out = metrics.timed_out + 1
          /\ metrics'.rejected = metrics.rejected /\ metrics'.completed = metrics.completed
          /\ metrics'.submitted = metrics.submitted /\ metrics'.cancelled = metrics.cancelled
          /\ metrics'.failed = metrics.failed
      BY <1>0, <2>4 DEF Counters
    <3>6. QED
      BY <3>1, <3>3, <3>4, <3>5 DEF CountsInv
  <2>5. QED
    BY <1>4, <2>2, <2>3, <2>4 DEF Aborts
<1>5. ASSUME NEW r \in Requests, Emits(r) PROVE CountsInv'
  <2>1. state[r] = "DECODE" /\ shape' = shape
    BY <1>5 DEF Emits
  <2>2. CASE /\ state' = state
             /\ events' = [events EXCEPT ![r] = Append(@, Token)]
             /\ metrics' = [metrics EXCEPT !.generated_tokens = @ + 1]
    <3>1. ToldLate' = ToldLate
      BY <1>0, <2>1, <2>2 DEF ToldLate
    <3>2. /\ metrics'.timed_out = metrics.timed_out /\ metrics'.failed = metrics.failed
          /\ metrics'.rejected = metrics.rejected /\ metrics'.completed = metrics.completed
          /\ metrics'.submitted = metrics.submitted /\ metrics'.cancelled = metrics.cancelled
      BY <1>0, <2>2 DEF Counters
    <3>3. QED
      BY <2>1, <2>2, <3>1, <3>2 DEF CountsInv, Of, Accepted
  <2>3. ASSUME NEW reason,
               /\ state' = [state EXCEPT ![r] = "FINISHED"]
               /\ events' = [events EXCEPT ![r] = @ \o <<Token, reason>>]
               /\ metrics' = [metrics EXCEPT !.generated_tokens = @ + 1, !.completed = @ + 1]
        PROVE  CountsInv'
    <3>1. /\ Of("FINISHED")' = Of("FINISHED") \cup {r} /\ r \notin Of("FINISHED")
          /\ Of("REJECTED")' = Of("REJECTED") /\ Of("FAILED")' = Of("FAILED")
          /\ Of("CANCELLED")' = Of("CANCELLED") /\ Accepted' = Accepted
      BY <1>0, <2>1, <2>3 DEF Of, Accepted, Active
    <3>2. ToldLate' = ToldLate
      BY <1>0, <2>1, <2>3 DEF ToldLate
    <3>3. Cardinality(Of("FINISHED")') = Cardinality(Of("FINISHED")) + 1
      BY <3>1, OneMore DEF Of
    <3>4. /\ metrics'.completed = metrics.completed + 1
          /\ metrics'.rejected = metrics.rejected /\ metrics'.failed = metrics.failed
          /\ metrics'.submitted = metrics.submitted /\ metrics'.cancelled = metrics.cancelled
          /\ metrics'.timed_out = metrics.timed_out
      BY <1>0, <2>3 DEF Counters
    <3>5. QED
      BY <3>1, <3>2, <3>3, <3>4 DEF CountsInv
  <2>4. QED
    BY <1>5, <2>2, <2>3 DEF Emits
<1>6. QED
  BY <1>1, <1>2, <1>3, <1>4, <1>5, StepEffect

\* Nothing is counted at the start.
LEMMA CountsInitInv == Init => CountsInv
<1> SUFFICES ASSUME Init PROVE CountsInv
  OBVIOUS
<1>1. state = [r \in Requests |-> "NEW"] /\ metrics = ZeroMetrics
  BY DEF Init, SchedInit
<1>2. /\ Accepted = {} /\ ToldLate = {} /\ Of("REJECTED") = {} /\ Of("FINISHED") = {}
      /\ Of("CANCELLED") = {} /\ Of("FAILED") = {}
  BY <1>1 DEF Accepted, ToldLate, Of
<1>3. QED
  BY <1>1, <1>2, FS_EmptySet DEF CountsInv, ZeroMetrics

\* The counters count the requests in every reachable state.
LEMMA CountsInvariant == Spec => []CountsInv
BY CountsInitInv, CountsNextInv, StoriesInvariant, EngineInvariant, PTL DEF Spec

\* The served counters add up: every request whose submission returned is counted
\* as submitted, and every end of an admitted one in exactly one way, except of
\* those that plan() itself timed out.
THEOREM CountersAddUp == Spec => []MetricsAddUp
<1>1. CountsInv => MetricsAddUp
  <2> SUFFICES ASSUME CountsInv PROVE MetricsAddUp
    OBVIOUS
  <2>1. {r \in {q \in Requests : state[q] \notin {"NEW", "REJECTED"}} : HasSampler(r)} = Accepted
    BY DEF Accepted, HasSampler
  <2>2. {r \in Requests : Closed(r) /\ state[r] = "TIMED_OUT"} = ToldLate
    BY DEF ToldLate, Closed, Ended
  <2>3. QED
    BY <2>1, <2>2 DEF CountsInv, MetricsAddUp, Of
<1>2. QED
  BY <1>1, CountsInvariant, PTL

-----------------------------------------------------------------------------
\* The engine implements the abstract stream.

Streams == [r \in Requests |-> StreamOf(r)]

\* The stream of a request, by its state, its token limit and its queue.
StreamFrom(st, max, q) ==
    IF st \in {"NEW", "REJECTED"}
    THEN [limit |-> 0, tokens |-> Cardinality(Tokens(q)), finish |-> "unopened"]
    ELSE [limit |-> max, tokens |-> Cardinality(Tokens(q)),
          finish |-> IF Ended(q) THEN q[Len(q)] ELSE "open"]

\* The stream a request has, from its state and its events.
LEMMA StreamIs ==
    ASSUME StoriesInv, NEW r \in Requests
    PROVE  StreamOf(r) = StreamFrom(state[r], shape[r].max, events[r])
<1>1. Ended(events[r]) => events[r][Len(events[r])] # "unopened"
  BY DEF StoriesInv, StoryInv
<1>2. QED
  BY <1>1 DEF StreamOf, FinishOf, StreamFrom, Tokens, Closed, Ended

\* The same, after a step.
LEMMA StreamWillBe ==
    ASSUME StoriesInv', NEW r \in Requests
    PROVE  StreamOf(r)' = StreamFrom(state'[r], shape'[r].max, events'[r])
<1>1. Ended(events'[r]) => events'[r][Len(events'[r])] # "unopened"
  BY DEF StoriesInv, StoryInv
<1>2. QED
  BY <1>1 DEF StreamOf, FinishOf, StreamFrom, Tokens, Closed, Ended

\* A step about one request changes its stream only.
LEMMA OneStream ==
    ASSUME NEW r \in Requests,
           \A q \in Requests \ {r} :
              state'[q] = state[q] /\ shape'[q] = shape[q] /\ events'[q] = events[q]
    PROVE  Streams' = [Streams EXCEPT ![r] = StreamOf(r)']
<1>1. \A q \in Requests \ {r} : StreamOf(q)' = StreamOf(q)
  BY DEF StreamOf, FinishOf, Closed
<1>2. QED
  BY <1>1 DEF Streams

\* Every step of the engine is a step of the streams, or none.
LEMMA StreamSteps ==
    ASSUME EngineInv, StoriesInv, StoriesInv', [Next]_vars
    PROVE  [Stream!StreamNext]_Streams
<1>0. /\ state \in [Requests -> States] /\ ngen \in [Requests -> Nat]
      /\ shape \in [Requests -> Shapes \cup {NoShape}]
      /\ events \in [Requests -> Seq(Events)]
      /\ \A r \in Requests : Cardinality(Tokens(events[r])) = ngen[r]
      /\ \A r \in Requests : Cardinality(Tokens(events'[r])) = ngen'[r]
      /\ \A r \in Requests : state[r] \in Active => ~Ended(events[r])
      /\ \A r \in Requests : EndsOnce(events[r])
      /\ \A r \in Requests : Streams[r] = StreamFrom(state[r], shape[r].max, events[r])
      /\ \A r \in Requests : StreamOf(r)' = StreamFrom(state'[r], shape'[r].max, events'[r])
  BY StreamIs, StreamWillBe
     DEF EngineInv, SchedInv, ControlTypeOK, EngineTypeOK, StoriesInv, StoryInv, Active, Streams
<1>1. CASE Still
  BY <1>1 DEF Still, Streams, StreamOf, FinishOf, Closed
<1>2. ASSUME NEW r \in Requests, Opens(r) PROVE [Stream!StreamNext]_Streams
  <2>1. Streams' = [Streams EXCEPT ![r] = StreamOf(r)']
    BY <1>0, <1>2, OneStream DEF Opens
  <2>2. ngen[r] = 0 /\ ngen'[r] = 0
    BY <1>2 DEF Opens, EngineInv, SchedInv, RequestInv
  <2>3. Streams[r] = [limit |-> 0, tokens |-> 0, finish |-> "unopened"]
    <3>1. state[r] = "NEW" /\ Cardinality(Tokens(events[r])) = 0
      BY <1>0, <1>2, <2>2 DEF Opens
    <3>2. Streams[r] = StreamFrom(state[r], shape[r].max, events[r])
      BY <1>0
    <3>3. QED
      BY <3>1, <3>2 DEF StreamFrom
  <2>4. CASE state' = [state EXCEPT ![r] = "REJECTED"]
    <3>1. state'[r] = "REJECTED"
      BY <1>0, <2>4
    <3>2. StreamOf(r)' = [limit |-> 0, tokens |-> 0, finish |-> "unopened"]
      BY <1>0, <2>2, <3>1 DEF StreamFrom
    <3>3. Streams' = Streams
      BY <2>1, <2>3, <3>2 DEF Streams
    <3>4. QED
      BY <3>3
  <2>5. CASE state' = [state EXCEPT ![r] = "PREFILL"]
    <3>1. PICK s \in Shapes : shape' = [shape EXCEPT ![r] = s]
      BY <1>2 DEF Opens
    <3>2. state'[r] = "PREFILL" /\ shape'[r] = s /\ ~Ended(events'[r])
      <4>1. ~Ended(events[r]) /\ events' = events
        BY <1>2 DEF Opens, StoriesInv, StoryInv
      <4>2. state'[r] = "PREFILL" /\ shape'[r] = s
        BY <1>0, <2>5, <3>1
      <4>3. QED
        BY <4>1, <4>2
    <3>3. StreamOf(r)' = [limit |-> s.max, tokens |-> 0, finish |-> "open"]
      BY <1>0, <2>2, <3>2 DEF StreamFrom
    <3>4. s.max \in {k.max : k \in Shapes}
      OBVIOUS
    <3>5. Stream!Open(r, s.max)
      BY <2>1, <2>3, <3>3 DEF Stream!Open, Stream!Unopened, Streams
    <3>6. QED
      BY <3>4, <3>5 DEF Stream!StreamNext
  <2>6. QED
    BY <1>2, <2>4, <2>5 DEF Opens
<1>3. ASSUME NEW r \in Requests, Moves(r) PROVE [Stream!StreamNext]_Streams
  <2>1. Streams' = [Streams EXCEPT ![r] = StreamOf(r)']
    BY <1>0, <1>3, OneStream DEF Moves
  <2>2. /\ state[r] \notin {"NEW", "REJECTED"} /\ state'[r] \notin {"NEW", "REJECTED"}
        /\ ~Ended(events[r]) /\ events' = events /\ shape' = shape
    BY <1>0, <1>3 DEF Moves, Unfinished, Active
  <2>3. StreamOf(r)' = StreamOf(r)
    BY <2>2 DEF StreamOf, FinishOf, Closed
  <2>4. Streams' = Streams
    BY <2>1, <2>3 DEF Streams
  <2>5. QED
    BY <2>4
<1>4. ASSUME NEW r \in Requests, Aborts(r) PROVE [Stream!StreamNext]_Streams
  <2>1. Streams' = [Streams EXCEPT ![r] = StreamOf(r)']
    BY <1>0, <1>4, OneStream DEF Aborts
  <2>2. /\ state[r] \in Active /\ ~Ended(events[r]) /\ EndsOnce(events[r])
        /\ events[r] \in Seq(Events) /\ ngen'[r] = ngen[r] /\ shape'[r] = shape[r]
    BY <1>0, <1>4 DEF Aborts, Unfinished
  <2>3. Streams[r] = [limit |-> shape[r].max, tokens |-> ngen[r], finish |-> "open"]
    BY <1>0, <2>2 DEF StreamFrom, Active
  <2>4. PICK e \in {"cancelled", "timeout", "error"} :
            events'[r] = Append(events[r], e) /\ state'[r] \notin {"NEW", "REJECTED"}
    BY <1>0, <1>4 DEF Aborts
  <2>5. e \in Events /\ e # Token
    BY DEF Events, Token
  <2>6. Ended(events'[r]) /\ events'[r][Len(events'[r])] = e
    <3>1. events'[r] = Append(events[r], e)
      BY <2>4
    <3>2. events[r] \in Seq(Events) /\ EndsOnce(events[r]) /\ ~Ended(events[r])
      BY <2>2
    <3>3. /\ events'[r][Len(events'[r])] = e
          /\ Ended(events'[r]) <=> e # Token
      BY <2>5, <3>1, <3>2, Tell
    <3>4. QED
      BY <2>5, <3>3
  <2>7. StreamOf(r)' = [limit |-> shape[r].max, tokens |-> ngen[r], finish |-> e]
    BY <1>0, <2>2, <2>4, <2>6 DEF StreamFrom
  <2>8. StreamOf(r)' = [Streams[r] EXCEPT !.finish = e]
    BY <2>3, <2>7
  <2>9. Stream!Abort(r, e)
    BY <2>1, <2>3, <2>8 DEF Stream!Abort, Streams
  <2>10. QED
    BY <2>9 DEF Stream!StreamNext
<1>5. ASSUME NEW r \in Requests, Emits(r) PROVE [Stream!StreamNext]_Streams
  <2>1. Streams' = [Streams EXCEPT ![r] = StreamOf(r)']
    BY <1>0, <1>5, OneStream DEF Emits
  <2>2. /\ state[r] = "DECODE" /\ ~Ended(events[r]) /\ EndsOnce(events[r])
        /\ events[r] \in Seq(Events) /\ ngen'[r] = ngen[r] + 1 /\ shape'[r] = shape[r]
    BY <1>0, <1>5 DEF Emits, Active
  <2>3. Streams[r] = [limit |-> shape[r].max, tokens |-> ngen[r], finish |-> "open"]
    BY <1>0, <2>2 DEF StreamFrom
  <2>4. CASE ngen[r] + 1 < shape[r].max /\ state' = state
             /\ events' = [events EXCEPT ![r] = Append(@, Token)]
    <3>1. events'[r] = Append(events[r], Token) /\ Token \in Events
      BY <1>0, <2>4 DEF Events
    <3>2. ~Ended(events'[r])
      BY <2>2, <3>1, Tell
    <3>3. StreamOf(r)' = [limit |-> shape[r].max, tokens |-> ngen[r] + 1, finish |-> "open"]
      BY <1>0, <2>2, <2>4, <3>2 DEF StreamFrom
    <3>4. StreamOf(r)' = [Streams[r] EXCEPT !.tokens = @ + 1]
      BY <2>3, <3>3
    <3>5. Stream!Emit(r)
      BY <2>1, <2>3, <2>4, <3>4 DEF Stream!Emit, Streams
    <3>6. QED
      BY <3>5 DEF Stream!StreamNext
  <2>5. ASSUME NEW reason \in {"stop", "length"},
               /\ reason = "length" => ngen[r] + 1 = shape[r].max
               /\ state' = [state EXCEPT ![r] = "FINISHED"]
               /\ events' = [events EXCEPT ![r] = @ \o <<Token, reason>>]
        PROVE  [Stream!StreamNext]_Streams
    <3>1. events'[r] = events[r] \o <<Token, reason>> /\ state'[r] = "FINISHED"
      BY <1>0, <2>5
    <3>2. reason \in Events /\ reason # Token
      BY DEF Events, Token
    <3>3. Ended(events'[r]) /\ events'[r][Len(events'[r])] = reason
      BY <2>2, <3>1, <3>2, TellLast
    <3>4. StreamOf(r)' = [limit |-> shape[r].max, tokens |-> ngen[r] + 1, finish |-> reason]
      BY <1>0, <2>2, <3>1, <3>3 DEF StreamFrom
    <3>5. Streams' = [Streams EXCEPT ![r].tokens = @ + 1, ![r].finish = reason]
      <4> DEFINE once == [Streams EXCEPT ![r].tokens = @ + 1]
      <4>1. [Streams EXCEPT ![r].tokens = @ + 1, ![r].finish = reason]
              = [once EXCEPT ![r].finish = reason]
        OBVIOUS
      <4>2. r \in DOMAIN Streams /\ DOMAIN once = DOMAIN Streams
        BY DEF Streams
      <4>3. once[r] = [limit |-> shape[r].max, tokens |-> ngen[r] + 1, finish |-> "open"]
        BY <2>3, <4>2
      <4>4. \A q \in DOMAIN Streams : q # r => once[q] = Streams[q]
        OBVIOUS
      <4>5. [once EXCEPT ![r].finish = reason] = [Streams EXCEPT ![r] = StreamOf(r)']
        <5>1. [once[r] EXCEPT !.finish = reason] = StreamOf(r)'
          BY <3>4, <4>3
        <5>2. [once EXCEPT ![r].finish = reason] = [once EXCEPT ![r] = StreamOf(r)']
          BY <5>1
        <5> HIDE DEF once
        <5>3. QED
          BY <4>2, <4>4, <5>2
      <4>6. QED
        BY <2>1, <4>1, <4>5
    <3>6. Stream!EmitLast(r, reason)
      <4>1. Streams[r].finish = "open"
        BY <2>3
      <4>2. reason = "length" => Streams[r].tokens + 1 = Streams[r].limit
        BY <2>3, <2>5
      <4>3. QED
        BY <3>5, <4>1, <4>2 DEF Stream!EmitLast, Streams
    <3>7. QED
      BY <3>6 DEF Stream!StreamNext
  <2>6. QED
    BY <1>5, <2>4, <2>5 DEF Emits
<1>6. QED
  BY <1>1, <1>2, <1>3, <1>4, <1>5, StepEffect

\* Every behaviour of the engine is, seen from its clients, one of the abstract
\* stream: a stream opens once, stays within its token limit and ends once.
THEOREM EngineImplementsStream == Spec => ImplementsStream
<1>1. Init => Stream!StreamInit
  <2> SUFFICES ASSUME Init PROVE Stream!StreamInit
    OBVIOUS
  <2>1. ASSUME NEW r \in Requests PROVE StreamOf(r) = Stream!Unopened
    <3>1. state[r] = "NEW" /\ events[r] = <<>>
      BY DEF Init, SchedInit
    <3>2. {i \in DOMAIN events[r] : events[r][i] = Token} = {}
      BY <3>1
    <3>3. Cardinality({i \in DOMAIN events[r] : events[r][i] = Token}) = 0
      BY <3>2, FS_EmptySet
    <3>4. QED
      BY <3>1, <3>3 DEF StreamOf, FinishOf, Stream!Unopened
  <2>2. QED
    BY <2>1 DEF Stream!StreamInit
<1>2. EngineInv /\ StoriesInv /\ StoriesInv' /\ [Next]_vars => [Stream!StreamNext]_Streams
  BY StreamSteps
<1>3. QED
  BY <1>1, <1>2, EngineInvariant, StoriesInvariant, PTL
     DEF Spec, ImplementsStream, Stream!StreamSpec, Streams

-----------------------------------------------------------------------------
\* The completion endpoints.

\* Every step of the endpoints is one of the engine, or leaves it alone.
LEMMA EndpointsUseEngine == [APINext]_allVars => [Next]_vars
<1>1. UNCHANGED allVars => UNCHANGED vars
  BY DEF allVars
<1>2. ASSUME NEW r \in Requests, NEW s \in Shapes, NEW stream \in BOOLEAN, Post(r, s, stream)
      PROVE  Next
  BY <1>2 DEF Post, Next, ClientStep
<1>3. ASSUME NEW r \in Requests, ReaderStep(r) \/ Leave(r) \/ LeaveEarly(r) \/ Delete(r)
      PROVE  [Next]_vars
  BY <1>3 DEF ReaderStep, OpenBody, ReadToken, ReadFinish, Leave, Abandon, LeaveEarly, Delete,
              Next, ClientStep
<1>4. (LoopStep \/ Close \/ \E r \in Requests : ClockAdvances(r)) => Next
  BY DEF Next, ClientStep
<1>5. QED
  BY <1>1, <1>2, <1>3, <1>4 DEF APINext

\* The engine keeps its invariants under the API.
LEMMA EngineUnderAPI == APISpec => [](EngineInv /\ StoriesInv) /\ [][Next]_vars
<1>1. APIInit => Init
  BY DEF APIInit
<1>2. QED
  BY <1>1, EndpointsUseEngine, EngineInitInv, EngineNextInv, StoriesInitInv, StoriesNextInv, PTL
     DEF APISpec

\* What has ended stays as it is.
LEMMA EndIsFinal ==
    ASSUME EngineInv, StoriesInv, [Next]_vars, NEW r \in Requests
    PROVE  /\ state[r] \in Terminal => state'[r] = state[r]
           /\ state[r] # "NEW" => state'[r] # "NEW"
           /\ Ended(events[r]) => events'[r] = events[r] /\ ngen'[r] = ngen[r]
<1>0. /\ state \in [Requests -> States] /\ ngen \in [Requests -> Nat]
      /\ events \in [Requests -> Seq(Events)]
      /\ Ended(events[r]) => state[r] \in Terminal
  BY DEF EngineInv, SchedInv, ControlTypeOK, EngineTypeOK, StoriesInv, StoryInv, Terminal
<1>1. CASE Still
  BY <1>1 DEF Still
<1>2. ASSUME NEW q \in Requests, Opens(q) \/ Moves(q) \/ Aborts(q) \/ Emits(q), q # r
      PROVE  state'[r] = state[r] /\ events'[r] = events[r] /\ ngen'[r] = ngen[r]
  BY <1>0, <1>2 DEF Opens, Moves, Aborts, Emits
<1>3. CASE Opens(r)
  BY <1>0, <1>3 DEF Opens, Terminal
<1>4. CASE Moves(r)
  BY <1>0, <1>4 DEF Moves, Unfinished, Active, Terminal
<1>5. CASE Aborts(r)
  BY <1>0, <1>5 DEF Aborts, Unfinished, Active, Terminal
<1>6. CASE Emits(r)
  BY <1>0, <1>6 DEF Emits, Terminal
<1>7. QED
  BY <1>1, <1>2, <1>3, <1>4, <1>5, <1>6, StepEffect

\* A queue that has ended holds one event beside its tokens.
LEMMA EndedLength ==
    ASSUME NEW q \in Seq(Events), EndsOnce(q), Ended(q)
    PROVE  Cardinality(Tokens(q)) = Len(q) - 1
<1>1. DOMAIN q = 1 .. Len(q) /\ Len(q) \in Nat \ {0}
  BY DEF Ended
<1>2. \A i \in 1 .. Len(q) : q[i] = Token <=> i # Len(q)
  BY <1>1 DEF EndsOnce, Ended
<1>3. Tokens(q) = 1 .. Len(q) - 1
  <2>1. Tokens(q) = {i \in 1 .. Len(q) : i # Len(q)}
    BY <1>1, <1>2 DEF Tokens
  <2>2. \A n \in Nat \ {0} : \A i \in 1 .. n : i # n <=> i \in 1 .. n - 1
    OBVIOUS
  <2>3. \A i \in 1 .. Len(q) - 1 : i \in 1 .. Len(q)
    BY <1>1
  <2>4. QED
    BY <1>1, <2>1, <2>2, <2>3
<1>4. Cardinality(1 .. Len(q) - 1) = Len(q) - 1
  BY <1>1, FS_Interval
<1>5. QED
  BY <1>3, <1>4

\* An HTTP request that was answered has read its queue to the terminal event;
\* one that was left has ended.
AnswerInv(r) ==
    /\ reader[r] # "none" => state[r] # "NEW"
    /\ reader[r] # "answered" => usage[r] = NoUsage
    /\ reader[r] = "left" => state[r] \in Terminal
    /\ reader[r] = "answered" =>
          /\ Ended(events[r])
          /\ seen[r] = Len(events[r])
          /\ usage[r] = NoUsage \/ usage[r] = ngen[r]

APIInv ==
    /\ reader \in [Requests -> Readers]
    /\ seen \in [Requests -> Nat]
    /\ usage \in [Requests -> Int]
    /\ \A r \in Requests : AnswerInv(r)

\* The engine goes on: no reader is touched.
LEMMA AnswerKept ==
    ASSUME EngineInv, StoriesInv, [Next]_vars, NEW r \in Requests, AnswerInv(r),
           reader'[r] = reader[r], seen'[r] = seen[r] \/ reader[r] # "answered",
           usage'[r] = usage[r]
    PROVE  AnswerInv(r)'
BY EndIsFinal DEF AnswerInv

\* Every step of the handlers keeps what they hold of their requests.
LEMMA APINextInv == EngineInv /\ StoriesInv /\ APIInv /\ [APINext]_allVars => APIInv'
<1> SUFFICES ASSUME EngineInv, StoriesInv, APIInv, [APINext]_allVars PROVE APIInv'
  OBVIOUS
<1>0. /\ [Next]_vars
      /\ state \in [Requests -> States] /\ ngen \in [Requests -> Nat]
      /\ events \in [Requests -> Seq(Events)]
      /\ reader \in [Requests -> Readers] /\ seen \in [Requests -> Nat]
      /\ usage \in [Requests -> Int]
  BY EndpointsUseEngine DEF EngineInv, SchedInv, ControlTypeOK, EngineTypeOK, APIInv
<1>1. CASE UNCHANGED apiVars
  BY <1>0, <1>1, AnswerKept DEF apiVars, APIInv
<1>2. ASSUME NEW r \in Requests, NEW s \in Shapes, NEW stream \in BOOLEAN, Post(r, s, stream)
      PROVE  APIInv'
  <2>1. /\ state[r] = "NEW" /\ UNCHANGED <<seen, usage>>
        /\ state' = [state EXCEPT ![r] = "PREFILL"] \/ state' = [state EXCEPT ![r] = "REJECTED"]
    BY <1>2 DEF Post, ClientSubmit, Submit
  <2>2. PICK k \in {"refused", "opening", "collecting"} : reader' = [reader EXCEPT ![r] = k]
    BY <1>2 DEF Post
  <2>3. AnswerInv(r)'
    BY <1>0, <2>1, <2>2 DEF APIInv, AnswerInv
  <2>4. \A q \in Requests \ {r} : AnswerInv(q)'
    BY <1>0, <2>1, <2>2, AnswerKept DEF APIInv
  <2>5. QED
    BY <1>0, <2>1, <2>2, <2>3, <2>4 DEF APIInv, Readers
<1>3. ASSUME NEW r \in Requests, ReadToken(r) PROVE APIInv'
  <2>1. /\ UNCHANGED <<reader, usage>> /\ seen' = [seen EXCEPT ![r] = @ + 1]
        /\ reader[r] # "answered"
    BY <1>3 DEF ReadToken, Waiting, Reading
  <2>2. \A q \in Requests : AnswerInv(q)'
    BY <1>0, <2>1, AnswerKept DEF APIInv
  <2>3. QED
    BY <1>0, <2>1, <2>2 DEF APIInv
<1>4. ASSUME NEW r \in Requests, OpenBody(r) \/ LeaveEarly(r) PROVE APIInv'
  <2>1. /\ UNCHANGED <<vars, seen, usage>> /\ reader[r] = "opening"
        /\ reader' = [reader EXCEPT ![r] = "streaming"] \/ reader' = [reader EXCEPT ![r] = "lost"]
    BY <1>4 DEF OpenBody, LeaveEarly
  <2>2. state' = state
    BY <2>1 DEF vars, schedVars, requestVars
  <2>3. AnswerInv(r)'
    BY <1>0, <2>1, <2>2 DEF APIInv, AnswerInv
  <2>4. \A q \in Requests \ {r} : AnswerInv(q)'
    BY <1>0, <2>1, AnswerKept DEF APIInv
  <2>5. QED
    BY <1>0, <2>1, <2>3, <2>4 DEF APIInv, Readers
<1>5. ASSUME NEW r \in Requests, ReadFinish(r) PROVE APIInv'
  <2>1. /\ UNCHANGED <<events, ngen, state>> /\ Waiting(r) /\ NextEvent(r) # Token
        /\ seen' = [seen EXCEPT ![r] = @ + 1] /\ reader' = [reader EXCEPT ![r] = "answered"]
        /\ usage' = usage \/ usage' = [usage EXCEPT ![r] = ngen[r]]
    BY <1>5 DEF ReadFinish, vars, schedVars, requestVars, engineVars, CompletionTokens
  <2>2. EndsOnce(events[r]) /\ reader[r] # "answered" /\ reader[r] # "none"
    BY <2>1 DEF StoriesInv, StoryInv, Waiting, Reading
  <2>3. seen[r] + 1 \in DOMAIN events[r] /\ events[r][seen[r] + 1] # Token
    BY <1>0, <2>1 DEF Waiting, NextEvent
  <2>4. seen[r] + 1 = Len(events[r])
    BY <2>2, <2>3 DEF EndsOnce
  <2>5. Ended(events[r])
    BY <2>3, <2>4 DEF Ended
  <2>6. AnswerInv(r)'
    BY <1>0, <2>1, <2>2, <2>4, <2>5 DEF APIInv, AnswerInv
  <2>7. \A q \in Requests \ {r} : AnswerInv(q)'
    BY <1>0, <2>1, AnswerKept DEF APIInv
  <2>8. usage' \in [Requests -> Int]
    BY <1>0, <2>1
  <2>9. reader' \in [Requests -> Readers]
    BY <1>0, <2>1 DEF Readers
  <2>10. seen' \in [Requests -> Nat]
    BY <1>0, <2>1
  <2>11. QED
    BY <2>6, <2>7, <2>8, <2>9, <2>10 DEF APIInv
<1>6. ASSUME NEW r \in Requests, Leave(r) PROVE APIInv'
  <2>1. /\ reader' = [reader EXCEPT ![r] = "left"] /\ UNCHANGED <<seen, usage>>
        /\ reader[r] \in {"streaming", "collecting"} /\ Abandon(r)
    BY <1>6 DEF Leave, Waiting, Reading
  <2>2. state[r] # "NEW" /\ usage[r] = NoUsage
    BY <2>1 DEF APIInv, AnswerInv
  <2>3. state'[r] \in Terminal
    <3>1. CASE Unfinished(r)
      <4>1. state' = [state EXCEPT ![r] = "CANCELLED"]
        BY <2>1, <3>1 DEF Abandon, ClientCancel, Cancel, Terminate
      <4>2. QED
        BY <1>0, <4>1 DEF Terminal
    <3>2. CASE ~Unfinished(r)
      <4>1. state' = state
        BY <2>1, <3>2 DEF Abandon, vars, schedVars, requestVars
      <4>2. QED
        BY <1>0, <2>2, <3>2, <4>1 DEF Unfinished, States
    <3>3. QED
      BY <3>1, <3>2
  <2>4. AnswerInv(r)'
    BY <1>0, <2>1, <2>2, <2>3 DEF AnswerInv, Terminal
  <2>5. \A q \in Requests \ {r} : AnswerInv(q)'
    BY <1>0, <2>1, AnswerKept DEF APIInv
  <2>6. QED
    BY <1>0, <2>1, <2>4, <2>5 DEF APIInv, Readers
<1>7. QED
  BY <1>1, <1>2, <1>3, <1>4, <1>5, <1>6 DEF APINext, allVars, ReaderStep, Delete

\* What the handlers hold is true in every reachable state.
LEMMA APIInvariant == APISpec => []APIInv
<1>1. APIInit => APIInv
  BY DEF APIInit, APIInv, AnswerInv, Readers, NoUsage
<1>2. QED
  BY <1>1, APINextInv, EngineUnderAPI, PTL DEF APISpec

\* An HTTP answer ends with its request: every event was read, nothing is held
\* any more, and the reported usage is the number of tokens the client was sent.
THEOREM AnswersTellTheTruth == APISpec => []AnswersAreTruthful
<1>1. EngineInv /\ StoriesInv /\ APIInv => AnswersAreTruthful
  <2> SUFFICES ASSUME EngineInv, StoriesInv, APIInv, NEW r \in Requests, reader[r] = "answered"
               PROVE  /\ seen[r] = Len(events[r])
                      /\ Closed(r)
                      /\ r \notin live
                      /\ usage[r] # NoUsage => usage[r] = Len(events[r]) - 1
    BY DEF AnswersAreTruthful
  <2>1. /\ Ended(events[r]) /\ seen[r] = Len(events[r])
        /\ usage[r] = NoUsage \/ usage[r] = ngen[r]
    BY DEF APIInv, AnswerInv
  <2>2. ~Unfinished(r) /\ Cardinality(Tokens(events[r])) = ngen[r] /\ EndsOnce(events[r])
    BY <2>1 DEF StoriesInv, StoryInv, Unfinished, Active
  <2>3. r \notin live
    BY <2>2 DEF EngineInv, SchedInv, RequestInv
  <2>4. Cardinality(Tokens(events[r])) = Len(events[r]) - 1
    BY <2>1, <2>2, EndedLength DEF EngineInv, EngineTypeOK
  <2>5. QED
    BY <2>1, <2>2, <2>3, <2>4 DEF Closed, Ended
<1>2. QED
  BY <1>1, EngineUnderAPI, APIInvariant, PTL

\* A client that leaves a stream it has started costs nothing from then on: no
\* block, no reservation and no work of its request is left.
THEOREM LeavingFreesEverything == APISpec => []LeavingReclaims
<1>1. EngineInv /\ APIInv => LeavingReclaims
  BY DEF EngineInv, SchedInv, RequestInv, APIInv, AnswerInv, LeavingReclaims, Unfinished, Active,
         Terminal
<1>2. QED
  BY <1>1, EngineUnderAPI, APIInvariant, PTL
=============================================================================
