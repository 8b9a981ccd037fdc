----------------------------- MODULE Scheduler -----------------------------
(***************************************************************************)
(* ContinuousBatchScheduler (serving/scheduler.py) over its allocator.     *)
(*                                                                         *)
(* plan() and expire() are loops over queues; each iteration is one step   *)
(* here, and phase says which loop is running, so that no other operation  *)
(* comes between two iterations. All other operations are one step each.   *)
(***************************************************************************)
EXTENDS PagedKV, GraphBuckets

CONSTANTS Shapes,               \* the requests clients may submit
          MaxBatch,             \* max_batch_size
          PrefillChunk,         \* prefill_chunk_size
          MaxPrefillTokens,     \* max_prefill_tokens
          DecodePrefillChunk    \* decode_prefill_chunk_size

\* The constructor refuses nonpositive limits and submit() empty prompts and
\* nonpositive token limits. timed is FALSE for timeout_s = None, sampler for
\* sampling parameters of which no Sampler can be made.
ASSUME LimitsAssumption ==
    /\ MaxBatch \in Nat \ {0}
    /\ PrefillChunk \in Nat \ {0}
    /\ MaxPrefillTokens \in Nat \ {0}
    /\ DecodePrefillChunk \in Nat \ {0}

ASSUME ShapesAssumption ==
    Shapes \subseteq [prompt : Nat \ {0}, max : Nat \ {0}, prio : Int, timed : BOOLEAN,
                      sampler : BOOLEAN]

VARIABLES state,      \* Request.state, "NEW" before submit() saw the identifier
          shape,      \* prompt length, max_new_tokens, priority, deadline, sampling
          cursor,     \* Request.prefill_cursor
          ngen,       \* len(Request.generated)
          due,        \* requests whose deadline has passed
          prefillQ,   \* _prefill
          decodeQ,    \* _decode
          inflight,   \* _inflight
          reserved,   \* _reserved_blocks, 0 when absent
          phase,      \* which loop of plan() or expire() is running
          todo,       \* iterations the running loop has left
          budget,     \* token_budget
          plan        \* the StepPlan being built or last returned

requestVars == <<state, shape, cursor, ngen>>
queueVars == <<prefillQ, decodeQ, inflight, reserved>>
planVars == <<phase, todo, budget, plan>>
schedVars == <<kvVars, requestVars, due, queueVars, planVars>>

Active == {"PREFILL", "DECODE"}
Terminal == {"FINISHED", "CANCELLED", "TIMED_OUT", "REJECTED", "FAILED"}
States == {"NEW"} \cup Active \cup Terminal
Phases == {"idle", "expire", "plan_expire", "plan_decode", "plan_prefill", "raised"}

NoShape == [prompt |-> 0, max |-> 0, prio |-> 0, timed |-> FALSE, sampler |-> FALSE]
NoWork == [kind |-> "none", count |-> 0]
NoPlan == [decode |-> <<>>, prefill |-> <<>>, graph |-> NoGraph]

SchedInit ==
    /\ KVInit
    /\ state = [r \in Requests |-> "NEW"]
    /\ shape = [r \in Requests |-> NoShape]
    /\ cursor = [r \in Requests |-> 0]
    /\ ngen = [r \in Requests |-> 0]
    /\ due = {}
    /\ prefillQ = <<>>
    /\ decodeQ = <<>>
    /\ inflight = [r \in Requests |-> NoWork]
    /\ reserved = [r \in Requests |-> 0]
    /\ phase = "idle"
    /\ todo = 0
    /\ budget = 0
    /\ plan = NoPlan

-----------------------------------------------------------------------------
\* Helpers.

MinOf(a, b) == IF a <= b THEN a ELSE b

\* Mutant of RemoveFirst: the entry stays.
RemoveNothing(q, r) == q

\* deque.remove of the first occurrence; an absent value is ignored (_remove).
RemoveFirst(q, r) ==
    IF \E i \in DOMAIN q : q[i] = r
    THEN LET k == CHOOSE i \in DOMAIN q : q[i] = r /\ \A j \in 1 .. i - 1 : q[j] # r
         IN [i \in 1 .. Len(q) - 1 |-> IF i < k THEN q[i] ELSE q[i + 1]]
    ELSE q

\* Mutant of Rotate: the served request stays in front.
RotateNothing(q) == q

\* The served request goes from the head of its queue to the tail.
Rotate(q) == Append(Tail(q), Head(q))

\* Mutant of SortsByPriority: the newest first among equals.
SortsByPriorityNewest(p, q) ==
    LET before(a, b) ==
            \/ shape[q[a]].prio > shape[q[b]].prio
            \/ shape[q[a]].prio = shape[q[b]].prio /\ a > b
    IN /\ \A i, j \in DOMAIN q : i < j => before(p[i], p[j])
       /\ \A k \in DOMAIN q : \E i \in DOMAIN q : p[i] = k

\* p lists the positions of q in the order of a stable sort by falling priority.
SortsByPriority(p, q) ==
    LET before(a, b) ==
            \/ shape[q[a]].prio > shape[q[b]].prio
            \/ shape[q[a]].prio = shape[q[b]].prio /\ a < b
    IN /\ \A i, j \in DOMAIN q : i < j => before(p[i], p[j])
       /\ \A k \in DOMAIN q : \E i \in DOMAIN q : p[i] = k

\* admitted_blocks: the sum of the reservations, counted as one ticket per
\* reserved block.
Tickets == {t \in Requests \X (1 .. NumBlocks) : t[2] <= reserved[t[1]]}
AdmittedBlocks == Cardinality(Tickets)

\* Mutant of Reservation: the prompt only.
ReservationOfPrompt(s) == BlocksForTokens(s.prompt)

\* The blocks a request may ever need.
Reservation(s) == BlocksForTokens(s.prompt + s.max)

\* Mutant of Unreserved: the blocks that happen to be free now.
UnreservedIsFree == Cardinality(free)

Unreserved == NumBlocks - AdmittedBlocks

\* Mutant of RemainingPrompt: off by one.
RemainingPromptButOne(r) == shape[r].prompt - cursor[r] - 1

RemainingPrompt(r) == shape[r].prompt - cursor[r]

\* Mutants of Unfinished: the finished property forgets a final state.
UnfinishedOrCancelled(r) == state[r] \in Active \cup {"CANCELLED"}
UnfinishedOrFailed(r) == state[r] \in Active \cup {"FAILED"}

Unfinished(r) == state[r] \in Active
Expired == {r \in due : Unfinished(r)}
Idle(r) == inflight[r] = NoWork

\* Mutant of NothingInFlight: not looked at.
InFlightIgnored == TRUE

NothingInFlight == \A r \in Requests : Idle(r)

\* Mutant of Cleanup: the planned work is not forgotten.
CleanupKeepingWork(r) ==
    /\ reserved' = [reserved EXCEPT ![r] = 0]
    /\ prefillQ' = RemoveFirst(prefillQ, r)
    /\ decodeQ' = RemoveFirst(decodeQ, r)
    /\ Release(r)
    /\ UNCHANGED inflight

\* _cleanup: no finished request keeps work, reservation, queue entry or block.
Cleanup(r) ==
    /\ inflight' = [inflight EXCEPT ![r] = NoWork]
    /\ reserved' = [reserved EXCEPT ![r] = 0]
    /\ prefillQ' = RemoveFirst(prefillQ, r)
    /\ decodeQ' = RemoveFirst(decodeQ, r)
    /\ Release(r)

\* The common part of cancel, expire and fail.
Terminate(r, final) ==
    /\ state' = [state EXCEPT ![r] = final]
    /\ Cleanup(r)
    /\ UNCHANGED <<shape, cursor, ngen>>

-----------------------------------------------------------------------------
\* Requests arrive and leave.

\* submit: admit only what the unreserved blocks can hold to its last token,
\* otherwise raise AdmissionError and remember the request as rejected.
Submit(r, s) ==
    /\ phase = "idle"
    /\ state[r] = "NEW"
    /\ shape' = [shape EXCEPT ![r] = s]
    /\ IF Reservation(s) <= Unreserved
       THEN /\ Create(r)
            /\ state' = [state EXCEPT ![r] = "PREFILL"]
            /\ reserved' = [reserved EXCEPT ![r] = Reservation(s)]
            /\ prefillQ' = Append(prefillQ, r)
       ELSE /\ state' = [state EXCEPT ![r] = "REJECTED"]
            /\ UNCHANGED <<kvVars, reserved, prefillQ>>
    /\ UNCHANGED <<cursor, ngen, due, decodeQ, inflight, planVars>>

\* cancel: False, and nothing changes, once the request is finished.
Cancel(r) ==
    /\ phase = "idle"
    /\ Unfinished(r)
    /\ Terminate(r, "CANCELLED")
    /\ UNCHANGED <<due, planVars>>

\* fail: the caller reports that executing the request raised.
Fail(r) ==
    /\ phase = "idle"
    /\ Terminate(r, "FAILED")
    /\ UNCHANGED <<due, planVars>>

\* The clock: now - submitted_at reaches timeout_s. plan() and expire() read
\* the clock once, so a deadline that passes while one runs is seen by the next.
DeadlinePasses(r) ==
    /\ phase = "idle"
    /\ Unfinished(r)
    /\ shape[r].timed
    /\ r \notin due
    /\ due' = due \cup {r}
    /\ UNCHANGED <<kvVars, requestVars, queueVars, planVars>>

\* expire: every unfinished request past its deadline, one iteration each.
ExpireBegin ==
    /\ phase = "idle"
    /\ phase' = "expire"
    /\ UNCHANGED <<kvVars, requestVars, due, queueVars, todo, budget, plan>>

ExpireOne(r) ==
    /\ phase \in {"expire", "plan_expire"}
    /\ r \in Expired
    /\ Terminate(r, "TIMED_OUT")
    /\ UNCHANGED <<due, planVars>>

ExpireEnd ==
    /\ phase = "expire"
    /\ Expired = {}
    /\ phase' = "idle"
    /\ UNCHANGED <<kvVars, requestVars, due, queueVars, todo, budget, plan>>

-----------------------------------------------------------------------------
\* plan().

\* plan: refuse while earlier work is in flight (RuntimeError, no change), then
\* expire.
PlanBegin ==
    /\ phase = "idle"
    /\ NothingInFlight
    /\ phase' = "plan_expire"
    /\ UNCHANGED <<kvVars, requestVars, due, queueVars, todo, budget, plan>>

\* Sort both queues by priority and enter the decode loop.
PlanSort ==
    /\ phase = "plan_expire"
    /\ Expired = {}
    /\ \E p \in [DOMAIN decodeQ -> DOMAIN decodeQ] :
          /\ SortsByPriority(p, decodeQ)
          /\ decodeQ' = [i \in DOMAIN decodeQ |-> decodeQ[p[i]]]
    /\ \E p \in [DOMAIN prefillQ -> DOMAIN prefillQ] :
          /\ SortsByPriority(p, prefillQ)
          /\ prefillQ' = [i \in DOMAIN prefillQ |-> prefillQ[p[i]]]
    /\ phase' = "plan_decode"
    /\ todo' = MinOf(Len(decodeQ), MaxBatch)
    /\ plan' = NoPlan
    /\ UNCHANGED <<kvVars, requestVars, due, inflight, reserved, budget>>

\* plan() raises out of a loop: the entry it had popped stays popped.
PlanRaises ==
    /\ phase' = "raised"
    /\ UNCHANGED <<requestVars, due, inflight, reserved, todo, budget, plan>>

\* Mutant of DecodeWork: the position is the length after the reservation.
DecodeWorkAfterSlot(r) ==
    [id |-> r, tok |-> ngen[r], pos |-> len[r] + 1, slot |-> Slot(table'[r], len[r])]

\* The token generated last is fed at the next free position.
DecodeWork(r) ==
    [id |-> r, tok |-> ngen[r], pos |-> len[r], slot |-> Slot(table'[r], len[r])]

\* One iteration of the decode loop: reserve the slot of the next token, plan
\* the work and rotate the request to the tail. Entries that do not decode are
\* dropped; a short pool raises MemoryError, a missing input token RuntimeError.
PlanDecode ==
    LET r == Head(decodeQ)
    IN /\ phase = "plan_decode"
       /\ todo > 0
       /\ IF state[r] # "DECODE"
          THEN /\ decodeQ' = Tail(decodeQ)
               /\ todo' = todo - 1
               /\ UNCHANGED <<kvVars, requestVars, due, inflight, reserved,
                              phase, budget, plan>>
          ELSE /\ AppendSlots(r, 1)
               /\ IF CanAppend(r, 1) /\ ngen[r] > 0
                  THEN /\ plan' = [plan EXCEPT !.decode = Append(@, DecodeWork(r))]
                       /\ inflight' = [inflight EXCEPT
                                          ![r] = [kind |-> "decode", count |-> 1]]
                       /\ decodeQ' = Rotate(decodeQ)
                       /\ todo' = todo - 1
                       /\ UNCHANGED <<requestVars, due, reserved, phase, budget>>
                  ELSE decodeQ' = Tail(decodeQ) /\ PlanRaises
       /\ UNCHANGED prefillQ

\* Mutant of RemainingSlots: one slot too few.
RemainingSlotsButOne == MaxBatch - Len(plan.decode) - 1

RemainingSlots == MaxBatch - Len(plan.decode)

\* Enter the prefill loop: one visit per request, as many as the batch has room.
PlanDecodeEnd ==
    /\ phase = "plan_decode"
    /\ todo = 0
    /\ phase' = "plan_prefill"
    /\ todo' = MinOf(Len(prefillQ), RemainingSlots)
    /\ budget' = MaxPrefillTokens
    /\ UNCHANGED <<kvVars, requestVars, due, queueVars, plan>>

\* Mutant of ChunkLimit: the same chunk beside decodes.
ChunkLimitAlone == PrefillChunk

ChunkLimit ==
    IF plan.decode # <<>> THEN MinOf(PrefillChunk, DecodePrefillChunk) ELSE PrefillChunk

ChunkCount(r) == MinOf(MinOf(RemainingPrompt(r), ChunkLimit), budget)

\* One iteration of the prefill loop: reserve and plan one chunk and rotate the
\* request to the tail. Entries that do not prefill are dropped; an exhausted
\* token budget puts the request back in front and ends the loop.
PlanPrefill ==
    LET r == Head(prefillQ)
        n == ChunkCount(r)
        work == [id |-> r, start |-> cursor[r], count |-> n,
                 slots |-> Slots(table'[r], len[r], n)]
    IN /\ phase = "plan_prefill"
       /\ todo > 0
       /\ IF state[r] # "PREFILL"
          THEN /\ prefillQ' = Tail(prefillQ)
               /\ todo' = todo - 1
               /\ UNCHANGED <<kvVars, requestVars, due, inflight, reserved,
                              phase, budget, plan>>
          ELSE IF n <= 0
          THEN /\ todo' = 0
               /\ UNCHANGED <<kvVars, requestVars, due, prefillQ, inflight,
                              reserved, phase, budget, plan>>
          ELSE /\ AppendSlots(r, n)
               /\ IF CanAppend(r, n)
                  THEN /\ plan' = [plan EXCEPT !.prefill = Append(@, work)]
                       /\ inflight' = [inflight EXCEPT
                                          ![r] = [kind |-> "prefill", count |-> n]]
                       /\ prefillQ' = Rotate(prefillQ)
                       /\ budget' = budget - n
                       /\ todo' = todo - 1
                       /\ UNCHANGED <<requestVars, due, reserved, phase>>
                  ELSE prefillQ' = Tail(prefillQ) /\ PlanRaises
       /\ UNCHANGED decodeQ

\* Choose the graph bucket for the decode batch and return the plan.
PlanEnd ==
    LET ids == {plan.decode[i].id : i \in DOMAIN plan.decode}
        longest == CHOOSE n \in {len[r] : r \in ids} : \A r \in ids : len[r] <= n
    IN /\ phase = "plan_prefill"
       /\ todo = 0
       /\ phase' = "idle"
       /\ plan' = [plan EXCEPT !.graph =
                     IF ids = {} THEN NoGraph ELSE Select(Len(plan.decode), longest)]
       /\ UNCHANGED <<kvVars, requestVars, due, queueVars, todo, budget>>

-----------------------------------------------------------------------------
\* Executed work is committed. A call the guard refuses raises ValueError and
\* changes nothing.

PrefillCommits(r, n) ==
    /\ inflight[r] = [kind |-> "prefill", count |-> n]
    /\ state[r] = "PREFILL"
    /\ n \in 1 .. RemainingPrompt(r)

\* complete_prefill: advance the cursor; the last chunk moves the request to
\* the decode queue.
CompletePrefill(r, n) ==
    /\ phase = "idle"
    /\ PrefillCommits(r, n)
    /\ inflight' = [inflight EXCEPT ![r] = NoWork]
    /\ cursor' = [cursor EXCEPT ![r] = @ + n]
    /\ IF n = RemainingPrompt(r)
       THEN /\ state' = [state EXCEPT ![r] = "DECODE"]
            /\ prefillQ' = RemoveFirst(prefillQ, r)
            /\ decodeQ' = Append(decodeQ, r)
       ELSE UNCHANGED <<state, prefillQ, decodeQ>>
    /\ UNCHANGED <<kvVars, shape, ngen, due, reserved, planVars>>

SampleCommits(r) == state[r] = "DECODE" /\ ngen[r] = 0 /\ Idle(r)

\* A token is appended; a stop token or the limit finishes the request.
AppendToken(r, stopped) ==
    /\ ngen' = [ngen EXCEPT ![r] = @ + 1]
    /\ IF stopped \/ ngen[r] + 1 >= shape[r].max
       THEN /\ state' = [state EXCEPT ![r] = "FINISHED"]
            /\ Cleanup(r)
       ELSE /\ inflight' = [inflight EXCEPT ![r] = NoWork]
            /\ UNCHANGED <<kvVars, state, prefillQ, decodeQ, reserved>>
    /\ UNCHANGED <<shape, cursor, due, planVars>>

\* complete_prefill_sample: the first token, sampled from final-prefill logits.
CompletePrefillSample(r, stopped) ==
    /\ phase = "idle"
    /\ SampleCommits(r)
    /\ AppendToken(r, stopped)

DecodeCommits(r) ==
    /\ inflight[r] = [kind |-> "decode", count |-> 1]
    /\ state[r] = "DECODE"

\* complete_decode: one more token.
CompleteDecode(r, stopped) ==
    /\ phase = "idle"
    /\ DecodeCommits(r)
    /\ AppendToken(r, stopped)

-----------------------------------------------------------------------------
\* A caller that samples the first token before it plans again, as the engine
\* does, and otherwise calls in any order.
AwaitsFirstSample(r) == state[r] = "DECODE" /\ ngen[r] = 0

PlanStep == PlanSort \/ PlanDecode \/ PlanDecodeEnd \/ PlanPrefill \/ PlanEnd

CommitStep(r) ==
    \/ CompletePrefill(r, inflight[r].count)
    \/ \E stopped \in BOOLEAN : CompletePrefillSample(r, stopped)
    \/ \E stopped \in BOOLEAN : CompleteDecode(r, stopped)

SchedNext ==
    \/ ExpireBegin
    \/ ExpireEnd
    \/ PlanBegin /\ \A r \in Requests : ~AwaitsFirstSample(r)
    \/ PlanStep
    \/ \E r \in Requests :
          \/ \E s \in Shapes : Submit(r, s)
          \/ Cancel(r)
          \/ Unfinished(r) /\ Fail(r)
          \/ DeadlinePasses(r)
          \/ ExpireOne(r)
          \/ CommitStep(r)

SchedSpec == SchedInit /\ [][SchedNext]_schedVars

-----------------------------------------------------------------------------
\* Properties.

DecodeWorks == [id : Requests, tok : Nat, pos : Nat, slot : Blocks \X Nat]
PrefillWorks == [id : Requests, start : Nat, count : Nat, slots : Seq(Blocks \X Nat)]

SchedTypeOK ==
    /\ KVTypeOK
    /\ state \in [Requests -> States]
    /\ shape \in [Requests -> Shapes \cup {NoShape}]
    /\ cursor \in [Requests -> Nat]
    /\ ngen \in [Requests -> Nat]
    /\ due \in SUBSET Requests
    /\ prefillQ \in Seq(Requests)
    /\ decodeQ \in Seq(Requests)
    /\ inflight \in [Requests -> [kind : {"none", "prefill", "decode"}, count : Nat]]
    /\ reserved \in [Requests -> 0 .. NumBlocks]
    /\ phase \in Phases
    /\ todo \in Nat
    /\ budget \in Nat
    /\ plan.decode \in Seq(DecodeWorks)
    /\ plan.prefill \in Seq(PrefillWorks)

\* Admission control is sufficient: once a request is admitted, no interleaving
\* of plans, completions, cancellations and timeouts lets plan() run out of
\* blocks or meet a decode request without an input token. An exception there
\* is outside the engine's error handling and would end the serving loop.
PlanNeverRaises == phase # "raised"

\* Each prefilling request is in the prefill queue exactly once, each decoding
\* request in the decode queue exactly once, and nobody else is in either: the
\* rotations, sorts and removals lose nobody and duplicate nobody.
QueuedExactly(q, st) ==
    /\ \A i, j \in DOMAIN q : q[i] = q[j] => i = j
    /\ \A r \in Requests : state[r] = st <=> \E i \in DOMAIN q : q[i] = r

QueuesMatchStates ==
    QueuedExactly(prefillQ, "PREFILL") /\ QueuedExactly(decodeQ, "DECODE")

\* A request that is not active, rejected or never submitted, holds no blocks,
\* no reservation and no planned work.
ResourcesMatchStates ==
    \A r \in Requests :
        /\ r \in live <=> Unfinished(r)
        /\ ~Unfinished(r) => reserved[r] = 0 /\ Idle(r) /\ len[r] = 0

\* The reservations never exceed the pool and a request never outgrows its own.
ReservationsHold ==
    /\ AdmittedBlocks <= NumBlocks
    /\ \A r \in Requests : Len(table[r]) <= reserved[r]

\* The cache length of an active request is what was committed plus what is in
\* flight; so a decode writes its input token, generated last, at the position
\* of that token in prompt and output, and a prefill chunk at its own.
LengthMatchesProgress ==
    \A r \in Requests :
        /\ state[r] = "PREFILL" =>
              /\ ngen[r] = 0
              /\ len[r] = cursor[r] + inflight[r].count
              /\ len[r] <= shape[r].prompt
              /\ cursor[r] < shape[r].prompt
        /\ state[r] = "DECODE" =>
              /\ cursor[r] = shape[r].prompt
              /\ ngen[r] < shape[r].max
              /\ ngen[r] = 0 => Idle(r)
              /\ ngen[r] > 0 =>
                    len[r] = shape[r].prompt + (ngen[r] - 1) + inflight[r].count
              /\ ngen[r] = 0 => len[r] = shape[r].prompt

WorksAreAligned ==
    /\ \A i \in DOMAIN plan.decode :
          LET w == plan.decode[i] IN
          /\ w.tok > 0
          /\ w.pos = shape[w.id].prompt + w.tok - 1
    /\ \A i \in DOMAIN plan.prefill :
          LET w == plan.prefill[i] IN
          w.count > 0 /\ w.start + w.count <= shape[w.id].prompt

\* A finished plan respects every limit: batch size, one work per request,
\* chunk sizes (the smaller one beside decodes) and the token budget.
PlannedIds ==
    {plan.decode[i].id : i \in DOMAIN plan.decode}
        \cup {plan.prefill[i].id : i \in DOMAIN plan.prefill}

PlanWithinLimits ==
    /\ Len(plan.decode) + Len(plan.prefill) <= MaxBatch
    /\ Cardinality(PlannedIds) = Len(plan.decode) + Len(plan.prefill)
    /\ \A i \in DOMAIN plan.prefill :
          plan.prefill[i].count <= IF plan.decode = <<>> THEN PrefillChunk
                                   ELSE MinOf(PrefillChunk, DecodePrefillChunk)
    /\ phase = "plan_prefill" =>
          Cardinality({t \in (DOMAIN plan.prefill) \X (1 .. MaxPrefillTokens) :
                          t[2] <= plan.prefill[t[1]].count}) = MaxPrefillTokens - budget

\* When a plan is complete: no prefill is admitted while a decode is left out,
\* and in both queues the requests it passed over stand before the equally
\* important ones it served, so the next plan serves them first.
PlanComplete == phase = "plan_prefill" /\ todo = 0

ServedLast(q) ==
    \A i, j \in DOMAIN q :
        /\ i < j
        /\ shape[q[i]].prio = shape[q[j]].prio
        /\ ~Idle(q[i])
        => ~Idle(q[j])

DecodeFirstRoundRobin ==
    PlanComplete =>
        /\ plan.prefill # <<>> => \A r \in Requests : state[r] = "DECODE" => ~Idle(r)
        /\ ServedLast(decodeQ)
        /\ ServedLast(prefillQ)
=============================================================================
