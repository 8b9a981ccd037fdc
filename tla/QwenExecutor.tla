---------------------------- MODULE QwenExecutor ----------------------------
(***************************************************************************)
(* QwenPagedExecutor (serving/qwen_executor.py) plugged into the engine:   *)
(* what the K/V tensors and the executor's dense prefill caches hold while *)
(* the engine plans, executes, commits, fails and releases.                *)
(*                                                                         *)
(* Keys and values of a token depend on every token before it. They are    *)
(* abstracted to the request and position they stand for, and are garbage  *)
(* when they were computed from anything but the request's own prefix.     *)
(* The executor's coroutines run to their end without suspending.          *)
(***************************************************************************)
EXTENDS Engine

ASSUME NeverSuspends == ExecutorSuspends = FALSE

VARIABLES cells,   \* allocator.keys and .values: <<block, offset>> -> entry
          dense    \* _prefill_caches: request -> entries, <<>> when absent

qwenVars == <<vars, cells, dense>>

Cells == Blocks \X (0 .. BlockSize - 1)
Garbage == <<>>    \* torch.empty, or the remains of a pass that raised

QwenInit ==
    /\ Init
    /\ cells = [c \in Cells |-> Garbage]
    /\ dense = [r \in Requests |-> <<>>]

\* pop of _prefill_caches: who left the executor's cache has no dense entries.
Popped(d) == [r \in Requests |-> IF r \in cache' THEN d[r] ELSE <<>>]

\* Steps of the engine that execute nothing; release() is among them.
OffDevice == UNCHANGED cells /\ dense' = Popped(dense)

-----------------------------------------------------------------------------
\* decode.

OwnPrefix(r, count) == \A p \in 0 .. count - 1 : cells[Slot(table[r], p)] = <<r, p>>

\* The metadata was built just before, so its lengths are the current ones.
LengthIncludesSlot(w) == len[w.id] = w.pos + 1

\* _validate_slot: the planned slot is where the block table puts the position.
ValidSlot(w) ==
    /\ w.pos \div BlockSize < Len(table[w.id])
    /\ w.slot = Slot(table[w.id], w.pos)

DecodeAccepted ==
    \A i \in DOMAIN plan.decode :
        LengthIncludesSlot(plan.decode[i]) /\ ValidSlot(plan.decode[i])

DecodeSlots == {plan.decode[i].slot : i \in DOMAIN plan.decode}

\* _forward_batch: every layer stores the row's keys and values in its slot and
\* attends to what the block table gathers.
DecodeEntry(w) == IF OwnPrefix(w.id, w.pos) THEN <<w.id, w.pos>> ELSE Garbage

QwenDecodeReturns ==
    /\ DecodeReturns
    /\ DecodeAccepted
    /\ cells' = [c \in Cells |->
                    IF c \in DecodeSlots
                    THEN DecodeEntry(CHOOSE w \in {plan.decode[i] : i \in DOMAIN plan.decode} :
                                         w.slot = c)
                    ELSE cells[c]]
    /\ dense' = Popped(dense)

\* A refused row raises before the first layer; a device error leaves any of
\* the batch's slots with some layers written.
QwenDecodeRaises ==
    /\ DecodeRaises
    /\ IF DecodeAccepted
       THEN /\ cache' = cache \ DecodeIds
            /\ \E torn \in SUBSET DecodeSlots :
                  cells' = [c \in Cells |-> IF c \in torn THEN Garbage ELSE cells[c]]
       ELSE UNCHANGED cells
    /\ dense' = Popped(dense)

-----------------------------------------------------------------------------
\* prefill.

\* The chunk's tokens in the order of their positions.
OwnTokens(r, first, count) == [i \in 1 .. count |-> <<r, first + i - 1>>]

\* The model extends the dense cache by the chunk.
DenseAfter(w) ==
    dense[w.id] \o
        (IF dense[w.id] = OwnTokens(w.id, 0, w.start)
         THEN OwnTokens(w.id, w.start, w.count)
         ELSE [i \in 1 .. w.count |-> Garbage])

\* Mutant of ScatterEntry: the chunk's slots take the cache's first entries.
ScatterFromFront(w, i) == DenseAfter(w)[i]

\* _scatter_prefill: the i-th slot takes the entry of the i-th chunk token.
ScatterEntry(w, i) == DenseAfter(w)[w.start + i]

\* The tensors after the first n works of the plan were scattered.
Scattered(n) ==
    [c \in Cells |->
        IF \E k \in 1 .. n : \E i \in DOMAIN plan.prefill[k].slots : plan.prefill[k].slots[i] = c
        THEN LET k == CHOOSE k \in 1 .. n :
                         \E i \in DOMAIN plan.prefill[k].slots : plan.prefill[k].slots[i] = c
                 i == CHOOSE i \in DOMAIN plan.prefill[k].slots : plan.prefill[k].slots[i] = c
             IN ScatterEntry(plan.prefill[k], i)
        ELSE cells[c]]

\* Mutant of DenseAfterWorks: the model's cache is not stored back.
DenseNotStored(n) == dense

\* The dense caches after the model ran the first n works of the plan.
DenseAfterWorks(n) ==
    [r \in Requests |->
        IF \E k \in 1 .. n : plan.prefill[k].id = r
        THEN DenseAfter(plan.prefill[CHOOSE k \in 1 .. n : plan.prefill[k].id = r])
        ELSE dense[r]]

QwenPrefillReturns ==
    /\ PrefillReturns
    /\ cells' = Scattered(Len(plan.prefill))
    /\ dense' = DenseAfterWorks(Len(plan.prefill))

\* The device raises at one work, after the earlier ones are complete: in the
\* model call, which may have extended some layers of the dense cache already,
\* or while the entries are scattered, which leaves the slots any mixture.
QwenPrefillRaises ==
    /\ PrefillRaises
    /\ \E n \in DOMAIN plan.prefill :
          LET r == plan.prefill[n].id
              slots == {plan.prefill[n].slots[i] : i \in DOMAIN plan.prefill[n].slots}
          IN \/ /\ cache' = cache \cup {plan.prefill[i].id : i \in 1 .. n - 1}
                /\ cells' = Scattered(n - 1)
                /\ \E torn \in {dense[r]} \cup ({Append(dense[r], Garbage)} \ {<<Garbage>>}) :
                      dense' = [DenseAfterWorks(n - 1) EXCEPT ![r] = torn]
             \/ /\ cache' = cache \cup {plan.prefill[i].id : i \in 1 .. n}
                /\ dense' = DenseAfterWorks(n)
                /\ \E torn \in SUBSET slots :
                      cells' = [c \in Cells |-> IF c \in torn THEN Garbage ELSE Scattered(n - 1)[c]]

-----------------------------------------------------------------------------
EngineStepOffDevice ==
    \/ Wake \/ LoopTop \/ StepExpired \/ StepPlanBegin \/ StepPlan
    \/ StartDecode \/ CommitDecode \/ CommitDecodeEnd \/ SampleRaises
    \/ StartPrefill \/ CommitPrefill \/ SampleFirst \/ CommitPrefillEnd \/ FailingEnd
    \/ \E r \in Requests : StepExpire(r) \/ StepPlanExpire(r) \/ FailOne(r)

QwenNext ==
    \/ QwenDecodeReturns \/ QwenDecodeRaises
    \/ QwenPrefillReturns \/ QwenPrefillRaises
    \/ EngineStepOffDevice /\ OffDevice
    \/ ClientStep /\ OffDevice

QwenSpec == QwenInit /\ [][QwenNext]_qwenVars

-----------------------------------------------------------------------------
\* Properties.

\* Every committed position of an active request holds its own token, computed
\* from its own prefix: block reuse, rows that fail beside it, device errors and
\* the order of decode and prefill never put anything else under a page it reads.
PagesHoldOwnPrefix ==
    \A r \in Requests : Unfinished(r) => OwnPrefix(r, len[r] - inflight[r].count)

\* Between two steps the dense cache of a prefilling request is exactly the part
\* of its prompt that is committed, so that the next chunk continues where it
\* ends; and it does not outlive the prefill: it is gone after the request's
\* first decode, and with its end. Requests that plan() itself timed out are the
\* exception: nobody releases them.
DenseCacheFollowsPrefill ==
    ~Executing => \A r \in Requests :
        /\ state[r] = "PREFILL" => dense[r] = OwnTokens(r, 0, cursor[r])
        /\ dense[r] # <<>> => \/ Unfinished(r) /\ ngen[r] <= 1
                              \/ state[r] = "TIMED_OUT" /\ ~Closed(r)
=============================================================================
