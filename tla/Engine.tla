------------------------------- MODULE Engine -------------------------------
(***************************************************************************)
(* ServingEngine (serving/engine.py): the asyncio loop that joins the      *)
(* scheduler, an executor, the samplers and the event queues of clients.   *)
(*                                                                         *)
(* Everything runs on one event loop. Client calls come between two loop   *)
(* steps only where the loop suspends: in the idle sleep, and while it     *)
(* awaits an executor that suspends. The engine's lock is never contended, *)
(* because no code that holds it suspends: the event queues are unbounded. *)
(***************************************************************************)
EXTENDS Scheduler

CONSTANT ExecutorSuspends   \* does awaiting the executor yield to other tasks

ASSUME SuspendsAssumption == ExecutorSuspends \in BOOLEAN

VARIABLES pc,        \* where the serving loop is
          row,       \* next work of the plan to commit
          stopping,  \* _stopping
          events,    \* request -> the events ever put on its queue
          metrics,   \* ServingMetrics counters
          cache,     \* requests in the executor's _prefill_caches
          blamed     \* requests planned in a step whose executor or sampler
                     \* raised, or had none (history variable)

engineVars == <<pc, row, stopping, events, metrics, cache, blamed>>
vars == <<schedVars, engineVars>>

PCs == {"sleep", "top", "expire", "plan", "decode", "decoding", "commit_decode",
        "prefill", "prefilling", "commit_prefill", "sample", "failing",
        "stopped", "crashed"}

Token == "token"
ZeroMetrics == [submitted |-> 0, rejected |-> 0, cancelled |-> 0, timed_out |-> 0,
                failed |-> 0, completed |-> 0, generated_tokens |-> 0]

\* The loop task is created by start(); until it first runs, clients may call.
Init ==
    /\ SchedInit
    /\ pc = "sleep"
    /\ row = 0
    /\ stopping = FALSE
    /\ events = [r \in Requests |-> <<>>]
    /\ metrics = ZeroMetrics
    /\ cache = {}
    /\ blamed = {}

Yields ==
    \/ pc \in {"sleep", "stopped"}
    \/ ExecutorSuspends /\ pc \in {"decoding", "prefilling"}

\* Mutant of Quiet: a rejected request counts as active.
QuietUnlessRejected == \A r \in Requests : state[r] \notin Active \cup {"REJECTED"}

\* active_requests is zero.
Quiet == \A r \in Requests : ~Unfinished(r)

-----------------------------------------------------------------------------
\* Client calls.

\* Mutant of FinishEvent: the executor releases, nobody is told.
FinishEventUntold(r, reason) ==
    /\ cache' = cache \ {r}
    /\ UNCHANGED events

\* _finish_event: release the executor's private state, then the last event.
FinishEvent(r, reason) ==
    /\ cache' = cache \ {r}
    /\ events' = [events EXCEPT ![r] = Append(@, reason)]

\* submit: AdmissionError counts as rejected and reaches the caller; there is
\* no event queue then. A Sampler that cannot be made, for a seed torch does not
\* take, raises too, but only after the request was admitted and its queue
\* registered: it stays, and is not counted as submitted.
ClientSubmit(r, s) ==
    /\ Yields
    /\ Submit(r, s)
    /\ metrics' = IF state'[r] = "REJECTED" THEN [metrics EXCEPT !.rejected = @ + 1]
                  ELSE IF s.sampler THEN [metrics EXCEPT !.submitted = @ + 1]
                  ELSE metrics
    /\ UNCHANGED <<pc, row, stopping, events, cache, blamed>>

\* cancel: the DELETE handler, or a client that drops its stream.
ClientCancel(r) ==
    /\ Yields
    /\ Cancel(r)
    /\ metrics' = [metrics EXCEPT !.cancelled = @ + 1]
    /\ FinishEvent(r, "cancelled")
    /\ UNCHANGED <<pc, row, stopping, blamed>>

\* close: ask the loop to drain; the caller then awaits the loop's end.
Close ==
    /\ Yields
    /\ ~stopping
    /\ stopping' = TRUE
    /\ UNCHANGED <<schedVars, pc, row, events, metrics, cache, blamed>>

\* The clock. Deadlines are read only by the two expire() calls of a step, so
\* it is enough to let one pass just before each of them.
ClockAdvances(r) ==
    /\ pc \in {"top", "plan"}
    /\ DeadlinePasses(r)
    /\ UNCHANGED engineVars

-----------------------------------------------------------------------------
\* _run and the first half of step: expire, then plan.

Wake ==
    /\ pc = "sleep"
    /\ pc' = "top"
    /\ UNCHANGED <<schedVars, row, stopping, events, metrics, cache, blamed>>

LoopTop ==
    /\ pc = "top"
    /\ IF stopping /\ Quiet
       THEN pc' = "stopped" /\ UNCHANGED schedVars
       ELSE pc' = "expire" /\ ExpireBegin
    /\ UNCHANGED <<row, stopping, events, metrics, cache, blamed>>

\* Every request the engine's own expire() call returns is told about it.
StepExpire(r) ==
    /\ pc = "expire"
    /\ ExpireOne(r)
    /\ metrics' = [metrics EXCEPT !.timed_out = @ + 1]
    /\ FinishEvent(r, "timeout")
    /\ UNCHANGED <<pc, row, stopping, blamed>>

StepExpired ==
    /\ pc = "expire"
    /\ ExpireEnd
    /\ pc' = "plan"
    /\ UNCHANGED <<row, stopping, events, metrics, cache, blamed>>

\* plan() is called outside the try block: work still in flight would make it
\* raise RuntimeError and end the loop.
StepPlanBegin ==
    /\ pc = "plan"
    /\ IF NothingInFlight
       THEN PlanBegin /\ UNCHANGED pc
       ELSE phase = "idle" /\ pc' = "crashed" /\ UNCHANGED schedVars
    /\ UNCHANGED <<row, stopping, events, metrics, cache, blamed>>

\* plan() expires again, and drops the result.
StepPlanExpire(r) ==
    /\ pc = "plan"
    /\ ExpireOne(r)
    /\ UNCHANGED engineVars

\* The loops of plan(); what escapes from them ends the serving loop too. An
\* empty plan ends the step without work.
StepPlan ==
    /\ pc = "plan"
    /\ PlanStep
    /\ pc' = IF phase' = "raised" THEN "crashed"
             ELSE IF phase' # "idle" THEN "plan"
             ELSE IF PlannedIds = {} THEN "sleep" ELSE "decode"
    /\ UNCHANGED <<row, stopping, events, metrics, cache, blamed>>

-----------------------------------------------------------------------------
\* The decode batch.

DecodeIds == {plan.decode[i].id : i \in DOMAIN plan.decode}

\* Mutant of TableWidth: the bucket's blocks rounded down.
TableWidthRoundedDown ==
    IF plan.graph = NoGraph THEN UsedWidth(DecodeIds)
    ELSE MinOf(NumBlocks, plan.graph[2] \div BlockSize)

\* The block-table width of the graph bucket; None means the width in use.
TableWidth ==
    IF plan.graph = NoGraph THEN UsedWidth(DecodeIds)
    ELSE MinOf(NumBlocks, BlocksForTokens(plan.graph[2]))

\* Build the metadata and call the executor. metadata() raises ValueError when
\* the width is too small; that is caught like any other exception.
StartDecode ==
    /\ pc = "decode"
    /\ IF plan.decode = <<>> THEN pc' = "prefill"
       ELSE IF MetadataAccepts(DecodeIds, TableWidth) THEN pc' = "decoding"
       ELSE pc' = "failing"
    /\ UNCHANGED <<schedVars, row, stopping, events, metrics, cache, blamed>>

\* The executor drops the prefill caches of what it decodes and returns logits.
DecodeReturns ==
    /\ pc = "decoding"
    /\ pc' = "commit_decode"
    /\ row' = 1
    /\ cache' = cache \ DecodeIds
    /\ UNCHANGED <<schedVars, stopping, events, metrics, blamed>>

\* The executor, or a sampler, raises: the whole plan is going to fail.
ExecutionRaises ==
    /\ pc' = "failing"
    /\ blamed' = blamed \cup PlannedIds
    /\ UNCHANGED <<schedVars, row, stopping, events, metrics>>

DecodeRaises ==
    /\ pc = "decoding"
    /\ \E dropped \in SUBSET DecodeIds : cache' = cache \ dropped
    /\ ExecutionRaises

\* Mutant of FinishReason: swapped.
FinishReasonSwapped(stopped) == IF stopped THEN "length" ELSE "stop"

FinishReason(stopped) == IF stopped THEN "stop" ELSE "length"

\* _record_token: count and deliver the token, then the end of the request.
RecordToken(r, stopped) ==
    LET ends == state'[r] = "FINISHED"
    IN /\ metrics' = [metrics EXCEPT !.generated_tokens = @ + 1,
                                     !.completed = IF ends THEN @ + 1 ELSE @]
       /\ IF ends
          THEN /\ events' = [events EXCEPT ![r] = @ \o <<Token, FinishReason(stopped)>>]
               /\ cache' = cache \ {r}
          ELSE /\ events' = [events EXCEPT ![r] = Append(@, Token)]
               /\ UNCHANGED cache

\* self.samplers has the request.
HasSampler(r) == shape[r].sampler

\* Commit one decoded row. complete_decode raises ValueError when the request
\* is no longer decoding.
CommitDecode ==
    /\ pc = "commit_decode"
    /\ row <= Len(plan.decode)
    /\ HasSampler(plan.decode[row].id)
    /\ LET r == plan.decode[row].id
       IN IF DecodeCommits(r)
          THEN /\ \E stopped \in BOOLEAN :
                     CompleteDecode(r, stopped) /\ RecordToken(r, stopped)
               /\ row' = row + 1
               /\ UNCHANGED <<pc, stopping, blamed>>
          ELSE /\ pc' = "failing"
               /\ UNCHANGED <<schedVars, row, stopping, events, metrics, cache, blamed>>

\* A sampler raises, or there is none.
SampleRaises ==
    /\ \/ pc = "commit_decode" /\ row <= Len(plan.decode)
       \/ pc = "sample"
    /\ UNCHANGED cache
    /\ ExecutionRaises

CommitDecodeEnd ==
    /\ pc = "commit_decode"
    /\ row > Len(plan.decode)
    /\ pc' = "prefill"
    /\ UNCHANGED <<schedVars, row, stopping, events, metrics, cache, blamed>>

-----------------------------------------------------------------------------
\* The prefill chunks.

PrefillIds == {plan.prefill[i].id : i \in DOMAIN plan.prefill}

\* A step that has nothing to prefill is over; it worked, so the loop starts
\* the next step at once.
StartPrefill ==
    /\ pc = "prefill"
    /\ pc' = IF plan.prefill = <<>> THEN "top" ELSE "prefilling"
    /\ UNCHANGED <<schedVars, row, stopping, events, metrics, cache, blamed>>

\* The executor keeps the dense cache of every request it prefills.
PrefillReturns ==
    /\ pc = "prefilling"
    /\ pc' = "commit_prefill"
    /\ row' = 1
    /\ cache' = cache \cup PrefillIds
    /\ UNCHANGED <<schedVars, stopping, events, metrics, blamed>>

\* It raises at some work, after it cached the earlier ones and perhaps that one.
PrefillRaises ==
    /\ pc = "prefilling"
    /\ \E n \in 0 .. Len(plan.prefill) :
          cache' = cache \cup {plan.prefill[i].id : i \in 1 .. n}
    /\ ExecutionRaises

\* Commit one chunk. complete_prefill raises ValueError when the request is no
\* longer prefilling; a last chunk goes on to sample the first token.
CommitPrefill ==
    /\ pc = "commit_prefill"
    /\ row <= Len(plan.prefill)
    /\ LET work == plan.prefill[row]
       IN IF PrefillCommits(work.id, work.count)
          THEN /\ CompletePrefill(work.id, work.count)
               /\ IF state'[work.id] = "DECODE"
                  THEN pc' = "sample" /\ UNCHANGED row
                  ELSE row' = row + 1 /\ UNCHANGED pc
          ELSE pc' = "failing" /\ UNCHANGED <<schedVars, row>>
    /\ UNCHANGED <<stopping, events, metrics, cache, blamed>>

\* Logits the executor omitted, a sampler that raises and one that was never
\* made are SampleRaises; complete_prefill_sample raises ValueError on a request
\* that is not ready.
SampleFirst ==
    /\ pc = "sample"
    /\ HasSampler(plan.prefill[row].id)
    /\ LET r == plan.prefill[row].id
       IN IF SampleCommits(r)
          THEN /\ \E stopped \in BOOLEAN :
                     CompletePrefillSample(r, stopped) /\ RecordToken(r, stopped)
               /\ pc' = "commit_prefill"
               /\ row' = row + 1
               /\ UNCHANGED <<stopping, blamed>>
          ELSE /\ pc' = "failing"
               /\ UNCHANGED <<schedVars, row, stopping, events, metrics, cache, blamed>>

CommitPrefillEnd ==
    /\ pc = "commit_prefill"
    /\ row > Len(plan.prefill)
    /\ pc' = "top"
    /\ UNCHANGED <<schedVars, row, stopping, events, metrics, cache, blamed>>

-----------------------------------------------------------------------------
\* Mutant of FailTargets: finished requests fail again.
FailTargetsAll == PlannedIds

FailTargets == {r \in PlannedIds : Unfinished(r)}

\* The except clause: fail every request of the plan that is not finished.
FailOne(r) ==
    /\ pc = "failing"
    /\ r \in FailTargets
    /\ Fail(r)
    /\ metrics' = [metrics EXCEPT !.failed = @ + 1]
    /\ FinishEvent(r, "error")
    /\ UNCHANGED <<pc, row, stopping, blamed>>

FailingEnd ==
    /\ pc = "failing"
    /\ FailTargets = {}
    /\ pc' = "top"
    /\ UNCHANGED <<schedVars, row, stopping, events, metrics, cache, blamed>>

-----------------------------------------------------------------------------
\* Steps of the serving loop. An executor call that is awaited returns or raises.
LoopStep ==
    \/ Wake \/ LoopTop \/ StepExpired \/ StepPlanBegin \/ StepPlan
    \/ StartDecode \/ DecodeReturns \/ DecodeRaises
    \/ CommitDecode \/ CommitDecodeEnd \/ SampleRaises
    \/ StartPrefill \/ PrefillReturns \/ PrefillRaises
    \/ CommitPrefill \/ SampleFirst \/ CommitPrefillEnd \/ FailingEnd
    \/ \E r \in Requests : StepExpire(r) \/ StepPlanExpire(r) \/ FailOne(r)

ClientStep ==
    \/ \E r \in Requests, s \in Shapes : ClientSubmit(r, s)
    \/ \E r \in Requests : ClientCancel(r) \/ ClockAdvances(r)
    \/ Close

Next == LoopStep \/ ClientStep

Spec == Init /\ [][Next]_vars

\* The event loop keeps running a task that can run, a timer fires, and an
\* executor call ends: the serving loop never rests while it has a step.
FairSpec == Spec /\ WF_vars(LoopStep)

-----------------------------------------------------------------------------
\* Properties.

TypeOK ==
    /\ SchedTypeOK
    /\ pc \in PCs
    /\ row \in Nat
    /\ stopping \in BOOLEAN
    /\ events \in [Requests -> Seq({Token, "stop", "length", "error", "cancelled", "timeout"})]
    /\ metrics \in [DOMAIN ZeroMetrics -> Nat]
    /\ cache \in SUBSET Requests
    /\ blamed \in SUBSET Requests

\* Nothing that is raised escapes step(): work left in flight, a short pool or
\* a decode request without its token would end the loop and strand everybody.
LoopNeverCrashes == pc # "crashed"

\* The engine calls the scheduler only in ways the scheduler's own
\* specification allows, so what is shown of the scheduler holds in the engine.
EngineUsesScheduler == [][SchedNext]_schedVars

Closed(r) == events[r] # <<>> /\ events[r][Len(events[r])] # Token

FinalEvent == [FINISHED |-> {"stop", "length"}, CANCELLED |-> {"cancelled"},
               TIMED_OUT |-> {"timeout"}, FAILED |-> {"error"}]

\* A client hears exactly the tokens that were generated, then at most one
\* terminal event, of the kind of the request's final state, and nothing after
\* it; every end of a request is told except a timeout that plan() found.
EventsTellTheStory ==
    \A r \in Requests :
        /\ Cardinality({i \in DOMAIN events[r] : events[r][i] = Token}) = ngen[r]
        /\ \A i \in DOMAIN events[r] : events[r][i] # Token => i = Len(events[r])
        /\ state[r] \in {"FINISHED", "CANCELLED", "FAILED"} => Closed(r)
        /\ Closed(r) => /\ state[r] \in DOMAIN FinalEvent
                        /\ events[r][Len(events[r])] \in FinalEvent[state[r]]

\* Every request that ended, and was not refused at submission, had its
\* terminal event.
EveryEndIsTold ==
    \A r \in Requests :
        state[r] \in {"FINISHED", "CANCELLED", "TIMED_OUT", "FAILED"} => Closed(r)

\* The slots a plan reserved stay with their request, or become free when it
\* ends, until the step is over: a request cancelled while the executor runs
\* never has its stale slots handed to another one that would be overwritten.
PlannedSlots(r) ==
    {plan.decode[i].slot : i \in {j \in DOMAIN plan.decode : plan.decode[j].id = r}}
      \cup UNION {{plan.prefill[i].slots[k] : k \in DOMAIN plan.prefill[i].slots} :
                     i \in {j \in DOMAIN plan.prefill : plan.prefill[j].id = r}}

Executing == pc \in {"decode", "decoding", "commit_decode", "prefill", "prefilling",
                     "commit_prefill", "sample", "failing"}

NoStaleSlotIsReassigned ==
    Executing => \A r, q \in PlannedIds \cup live : r # q =>
        \A slot \in PlannedSlots(r) : slot[1] \notin BlocksOf(q)

\* What the executor is handed is current: the metadata is accepted with the
\* width of the chosen graph bucket, and the length of each decoding request
\* includes exactly the new slot.
DecodeBatchIsCurrent ==
    pc = "decode" /\ plan.decode # <<>> =>
        /\ MetadataAccepts(DecodeIds, TableWidth)
        /\ \A i \in DOMAIN plan.decode :
              LET w == plan.decode[i] IN
              /\ len[w.id] = w.pos + 1
              /\ Slot(table[w.id], w.pos) = w.slot

\* A request fails only when its own step's executor or sampler raised, or a
\* request of its plan had no sampler.
FailureHasACause == \A r \in Requests : state[r] = "FAILED" => r \in blamed

\* The counters add up: every request whose submission returned was counted once,
\* and every end of an admitted one exactly once, in its own way; what is missing
\* is the submission of requests whose sampler could not be made, and the end of
\* those plan() itself timed out.
MetricsAddUp ==
    LET count(st) == Cardinality({r \in Requests : state[r] = st})
        accepted == {r \in Requests : state[r] \notin {"NEW", "REJECTED"}}
    IN /\ metrics.submitted = Cardinality({r \in accepted : HasSampler(r)})
       /\ metrics.rejected = count("REJECTED")
       /\ metrics.completed = count("FINISHED")
       /\ metrics.cancelled = count("CANCELLED")
       /\ metrics.failed = count("FAILED")
       /\ metrics.timed_out = Cardinality({r \in Requests : Closed(r) /\ state[r] = "TIMED_OUT"})

\* The loop sleeps only when nobody needs it.
NoIdleWork == [][pc = "plan" /\ pc' = "sleep" => Quiet]_vars

\* close() returns once no more requests are submitted: the loop drains and ends.
CloseDrains == stopping ~> pc = "stopped"

-----------------------------------------------------------------------------
\* The engine implements RequestStream: a client sees the events of its queue.
FinishOf(r) ==
    IF state[r] \in {"NEW", "REJECTED"} THEN "unopened"
    ELSE IF Closed(r) THEN events[r][Len(events[r])]
    ELSE "open"

StreamOf(r) ==
    [limit |-> IF FinishOf(r) = "unopened" THEN 0 ELSE shape[r].max,
     tokens |-> Cardinality({i \in DOMAIN events[r] : events[r][i] = Token}),
     finish |-> FinishOf(r)]

Stream == INSTANCE RequestStream
    WITH stream <- [r \in Requests |-> StreamOf(r)], Limits <- {s.max : s \in Shapes}

ImplementsStream == Stream!StreamSpec
=============================================================================
