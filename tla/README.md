# A verification development for gpu-kernel-lab

TLA+ models of the program logic of this repository, checked with TLC on small
instances and, where it says so below, proved with TLAPS for every value of the
constants. The first subsystem is the serving control plane (`src/serving`): the
paged KV allocator, the continuous-batching scheduler, the asyncio engine, its executor and
its HTTP endpoints, with the attention paths that read its pages. The second is the
static-cache decode runtime and the teaching kernels (`src/learning`), with the candidate
norms of `optimized-llama`. The third is what the repository judges by:
load-test programs, cold start, result validation and analysis, and the gates
that accept a candidate kernel or release a candidate model.
`PROJECT.json` lists components, runs, mutants, hazards and theorems, and maps
every definition to the lines it models.

## 1. The system

| Component | State | Operations | Talks to |
|---|---|---|---|
| `serving/paged_kv.py` `PagedKVAllocator` | heap of free blocks, block table and length per request, K/V tensors | `create`, `append_slots`, `release`, `metadata`, `write` | called by scheduler, engine, executor |
| `serving/scheduler.py` `ContinuousBatchScheduler` | requests and their states, prefill and decode queues, planned work in flight, reservations | `submit`, `cancel`, `expire`, `plan`, `complete_prefill`, `complete_prefill_sample`, `complete_decode`, `fail` | owns the allocator's calls except `metadata`; asks the buckets |
| `serving/graph_buckets.py` `CUDAGraphBuckets` | captured graphs | `select`, `capture`, `replay` | called by `plan` |
| `serving/engine.py` `ServingEngine` | loop task, stop flag, event queues, samplers, counters | `submit`, `cancel`, `close`, `step`, `_run` | joins scheduler, executor, samplers, clients |
| `serving/qwen_executor.py` `QwenPagedExecutor` | dense prefill caches, paged tensors | `prefill`, `decode`, `release` | called by the engine |
| `serving/api.py` | one stream per HTTP request | completions, SSE, `DELETE` | calls `submit` and `cancel` |
| `serving/sampling.py`, `metrics.py`, `kernel_policy.py`, `portability.py`, `paged_gather.py`, `paged_attention.py` | generators per device; counters and latency windows; none | sampling, percentiles, policy choice, gather | called by the engine and executor |
| `models/optimized-llama/benchmarks` | queue, worker futures and samples of a run, the report file, a server process | eight load-test programs, cold start | vLLM over HTTP, models in process |
| `kernellab/` | experiment registry | `benchmark`, result validation, analysis, quality metrics, matrix, `plan`, `serve` | subprocesses, result files |
| `models/optimized-llama/quality`, `profiling/qwen_accuracy_gate.py`, `profiling/qwen_rms_sensitivity.py` | captures, traces, totals, calibration | capture, evaluate, calibrate, accept | models in process, files |
| `learning/01` to `10`, `optimized-llama/kernels` | a grid of programs that have or have not run, a workspace of partials, an output | kernel launches, reductions over a workspace | PyTorch, Triton, CUDA |
| `learning/11`, `12` | static KV cache, captured decode graphs, residual handed from layer to layer | cache updates, graph replay, fused decode norm | PyTorch, Triton, CUDA |
| the rest of `profiling/`, `baseline/`, `scripts/`, `schemas/`, `results/` | none of their own | one-shot drivers, recorded data | the above |

What is hard in the serving control plane:

* **Interleaving.** Everything runs on one asyncio loop. A client's `submit`,
  `cancel` or `close` comes between two steps of the serving loop wherever the
  loop suspends: in its idle sleep and, with an executor that suspends, while it
  awaits `decode` or `prefill`. The engine's lock never excludes anything more:
  no code that holds it suspends (the event queues are unbounded), and the
  executor is awaited outside it.
* **State used after an await.** The plan, its slots and its metadata are made
  before the executor is awaited and committed after.
* **Partial failure.** Executor, sampler or a refused commit may raise in the
  middle of a batch; one `except` clause cleans up.
* **Deadlines** are read at two places of one step, by two calls to `expire`.
* **Bounded resources.** Admission reserves blocks to the last token; plans reserve
  slots; both must fit together.
* **Ordering.** Two deques that five methods sort, rotate, pop and prune.
* **Addresses.** Three attention paths turn tables, lengths, tiles and head counts into
  addresses, over pages and workspaces that hold what an earlier owner left there.

What is hard in the kernels of `learning/` is that **remainders meet**: every dimension leaves
a part of a block, a last group of tiles is lower than the others, a split may be empty, and the
programs of a grid run in any order. A mask on the wrong dimension or a division by the wrong
height shows for some shapes only, and the tests use few.

What is hard in the tools is that their answer must be evidence:

* **Partial failure.** An exception that no handler expects waits in a future until the
  pool has drained and loses the report; a file from an earlier run is still there.
* **Order of completion.** Samples arrive in any order, from several workers.
* **State that outlives a pass.** A trace, a pending residual, a measured calibration.
* **Values that are not numbers,** which lose against `min()` and must not pass a gate.

`PROJECT.json` "hazards" lists these at their lines with the properties that cover
them.

## 2. Modules

| Module | Models | Composes |
|---|---|---|
| `PageOwnership` | abstract: a block is in the pool or owned by one request | |
| `PagedKV` | the allocator's accounting | implements `PageOwnership` |
| `KVStorage` | allocator plus the contents of its tensors | extends `PagedKV` |
| `KernelPolicy` | policy selection and the executor's configuration | |
| `PagedAttention` | what the three attention paths read | extends `KVStorage`, `KernelPolicy` |
| `GraphBuckets` | `select` | |
| `Scheduler` | the scheduler over its allocator and buckets | extends `PagedKV`, `GraphBuckets` |
| `RequestStream` | abstract: what a client sees of its request | |
| `Engine` | the engine over its scheduler, executor and clients | extends `Scheduler`, implements `RequestStream` |
| `EndlessClients` | the engine under clients that never stop sending requests | extends `Engine` |
| `QwenExecutor` | the real executor: pages and dense prefill caches | extends `Engine` |
| `CompletionAPI` | HTTP requests that read the engine's queues | extends `Engine` |
| `StaticDecode` | greedy decoding over a static KV cache, with graph replay | |
| `ResidualFusion` | the fused residual add and norm of the decode runtime | |
| `KernelLaunch` | grids, tiles, masks, splits and addresses of the teaching and candidate kernels | |
| `LoadTest` | the load-test programs and `kernellab benchmark` | |
| `ServerStartup` | the cold-start benchmark and its server | |
| `ResultAnalysis` | `kernellab/analysis.py` | |
| `AccuracyGate` | the accuracy gate and the calibration it uses | |
| `ReleaseGate` | captures, quality metrics, release gate | |
| `MCLearning`, `MCEvidence` | one part of `learning/`, or one way of judging, at a time, for TLC | extend the modules above |
| the other `MC...` | the constants of the TLC runs | |
| `PagedKV_proofs`, `Scheduler_proofs` | theorems about the module of that name | |
| `Attention_proofs` | theorems about `PagedAttention` | extends `PagedKV_proofs` |
| `Engine_proofs` | theorems about the loop of `Engine`, and what its clients and those of `CompletionAPI` see | extends `Scheduler_proofs` |
| `Qwen_proofs` | theorems about `QwenExecutor` | extends `Engine_proofs` |
| `Learning_proofs` | theorems about `StaticDecode` and `KernelLaunch` | |
| `Evidence_proofs` | theorems about `ResidualFusion`, `AccuracyGate` and `ReleaseGate` | |
| `Benchmark_proofs` | theorems about `LoadTest`, `ServerStartup` and `ResultAnalysis` | |

### PagedKV and KVStorage

`live`, `free`, `table`, `len` are the keys of `_requests`, the `_free` heap, and each
allocation's `blocks` and `length`. The heap is a set; `IsPopOrder` says in which
order `heappop` empties it. The allocator's lock makes each method one action.
`PageOwnership` has the pool beside what each request owns, and the refinement maps the
heap to it, so that a block `release` forgets to push, or pushes while it is still
listed, breaks `ImplementsOwnership`.
`AppendSlots` checks the shortage before it changes anything, as the code does, and
`Reserve` pops, extends and advances. In `KVStorage` a tensor cell holds the request
and position whose token was stored last, and `Write` follows `write()`, including the
`IndexError` half way through the positions. Layers, heads, data types and devices
are left out.

### KernelPolicy and PagedAttention

`SelectPolicy` and `NewExecutor` are `select_qwen_policy` and the constructor of
`QwenPagedExecutor` as operators whose value is a set of at most one configuration; what
raises is the empty set. `PagedAttention` adds the executor to the pool of
`KVStorage`. `DirectReads`, `GatherReads` and `MaterializedReads` follow the addresses of
`paged_attention`, `gather_paged_gqa` and `materialize_paged_kv`: a path is the set of
what one head of one row reads and weighs, by the lane that reads it, so that a token read
twice counts twice. A kernel can read past the end of a row of the block table into the
next row, or past the pool. The gather writes two heads for each K/V head whatever the
model's group size, while its workspace has the attention heads; where these differ it
raises. Scores, values, warps and the order of the split merge are left out.

### Scheduler

One variable per field: `state`, `shape` (prompt length, token limit, priority, whether
there is a deadline, whether a sampler can be made), `cursor`, `ngen`, `prefillQ`, `decodeQ`, `inflight`, `reserved`;
token values are left out, because no control depends on them except whether a
sampled token stops the request, which is an input. `plan()` and `expire()` are
loops, so each iteration is a step and `phase` keeps other operations out while one
runs; `todo`, `budget` and `plan` are the loop's local variables. This keeps every
definition free of recursion, so that the module can be proved about. A call that
raises without changing anything is a disabled action; `PlanRaises` is the exception,
because what `plan()` raises in the middle of its loops leaves the popped entry
popped and escapes the engine's error handling. Deadlines are a set `due` that only
the clock enlarges. `AdmittedBlocks` counts the sum of the reservations as a set of
tickets, one per reserved block.

### Engine

`pc` is where the serving loop stands between two of its suspension points or
scheduler calls; each `Step...`, `Commit...` or `Fail...` action is one piece of
`step()` that is atomic for the scheduler. `Yields` says where clients may act.
`ExecutorSuspends` distinguishes an executor whose coroutines really suspend from one
like `QwenPagedExecutor`, whose `prefill` and `decode` run to their end without
yielding. `events` keeps the whole history of each client's queue. `cache` is the
executor's `_prefill_caches`; the executor returns or raises at any time, and may
raise half way. `blamed` is a history variable: the requests planned in a step in
which the executor or a sampler raised. Identifiers are used once, as `submit`
demands.

`submit` makes the sampler after the scheduler admitted the request and its queue was
registered, and before it is counted. For a seed that torch does not take this
raises: `ClientSubmit` with a shape of which no sampler can be made (`HasSampler`) leaves an
admitted request that was not counted, and its first row fails every request of
its plan that has not ended. `MetricsAddUp`, `FailureHasACause` and `blamed` are stated with this
case in them. No document of the repository speaks of it, so it is not among the findings.

### EndlessClients

Two or three identifiers that are used once cannot show what a stream of requests without
end does. Here an identifier whose request ended, and of which no step of the loop speaks any
more, becomes a fresh one (`BecomesFresh`), as if `api.py` had drawn the next `uuid4`; its
share of the counters is taken back to bound them. The scheduler sorts by priority at
every plan and knows no aging, so a request of low priority may wait for ever while more
important ones keep arriving. That is what the code does, and `AcceptedRequestsEnd` says so:
either a request ends, or it is overtaken again and again by a higher priority.
Requests of its own priority or a lower one cannot hold it up.

### QwenExecutor

The engine with the executor of this repository in it: `cells` are the paged K/V
tensors, `dense` the dense caches that `_prefill_caches` holds. The keys and values of a
token depend on all tokens before it, so an entry is the request and position it stands
for if it was computed from the request's own prefix, and `Garbage` otherwise: a decode
that gathers one foreign or stale position produces garbage, and so does a chunk whose
dense cache does not end where the chunk begins. The executor's steps refine the
engine's (`QwenDecodeReturns` conjoins `DecodeReturns`, and so on); the other steps of the
engine leave the tensors alone and release dense caches. A pass that raises leaves any
of its slots torn. Layers, heads and the three attention kernels (gather, fused gather,
direct), which read the same positions, are abstracted to one.

### CompletionAPI

`reader` is what an HTTP request is doing, `seen` how much of its queue it has read,
`usage` what it answered. A reader is an asyncio task like the engine's loop, so it acts
where the loop suspends (`Yields`). Leaving a stream runs the generator's `finally`, which
cancels unless the terminal event was read; a stream that is dropped before its body was
started has no generator to run it (`LeaveEarly`), which is the web framework's doing and
is marked external. A collecting request cannot be left, because nothing in the endpoint
listens for a disconnect, but its tokenizer may raise.

### StaticDecode

The decode path of `learning/11_static_kv` and `12_decode_runtime`, as the drivers in
`profiling/` call it, one call after another. A session is what `prepare_static` makes:
cache (`kv`), additive mask (`open`), position tensor, token. An entry or token is the
position it is right for, or `Wrong`. `path` is the attention forward of the shared
model: `install_fused_static_kv` replaces the original for good, also under sessions that
were prepared before. The fused kernel writes at the position tensor and opens the mask
there; the original path writes at the length the cache itself counts (`cumulative`),
which the fused path leaves behind. `BuildGraph` is the constructor of
`GreedyDecodeGraph`: one real warmup step, then a capture the device does not execute;
the position, cache and mask are shared with the caller, the token is a clone. The callers
size the cache for the prompt and their steps, exactly so by default
(`CapacityAssumption`), with `--cuda-graph` also for the warmup (`RoomForWarmup`), and build
graphs on the fused path only. Layers and heads are abstracted to one. The address check of
`replay()` is left out, since no caller rebinds a buffer.

### KernelLaunch

One launch of one kernel. `launch` is what is computed: the kernel and its sizes. `left` are the
programs of the grid that have not run; a step runs one, so that every order is a behaviour.
`stored` is the set of stores to the output. The split-K projection and the split-KV attention
store to a workspace first (`partials`) and read it with a second grid (`merging`), which the
stream starts when the first has ended. `Grid` and `Stores` say for each kernel which programs
there are and what one stores, `Reference` what PyTorch computes. A stored value is symbolic:
the set of the terms it was accumulated from, each tagged with the step and the lane that
added it, so that a term added twice counts twice; a term is the addresses whose contents it
was computed from. A program is one step because it reads nothing another program of its
grid writes.

| `l.kernel` | Kernels |
|---|---|
| `elementwise` | `01_vector_add`, `02_swiglu/swiglu.py` |
| `rowwise` | `03_rmsnorm`, `05_softmax`, `optimized-llama/kernels/llama_rmsnorm.py` |
| `tiled` | `06_gemm/gemm.py`, `qwen_prefill_gemm.py`, `02_swiglu/fused_projection_swiglu.py` for several tokens |
| `gemv` | `08_decode/decode_gemv.py`, whole or split over K; the projection and SwiGLU of one token |
| `int4` | `09_int4` |
| `attention` | `07_flash_attention` |
| `rope` | `04_rope` |
| `warp` | `10_cuda_decode/warp_gemv.cu`, BF16, one launch per row group or persistent |
| `splitkv` | `10_cuda_decode/split_kv.py` |

### ResidualFusion

`install_decode_residual_norm`: `pending` is the pair a layer leaves for the next one and
`decode` the flag the model's pre-hook sets. A tensor is a formal sum, counting how often
each module's output of each pass was added, so that a term lost, added twice or carried
over from a pass that raised is visible. `norms` records what every norm was given;
`heard` is what the observer of `rmsnorm_acceptance.py` collects. A pass may raise in any
layer, before or after it took the pending pair.

### LoadTest

The eight programs differ in their stages (cold, warmup, measured), in when they give
up, in whether their exit status tells of failures, and in the keys of their report; `Program`
holds these and one set of actions runs them all. `StreamRequest` is what
`stream_request` makes of a response, here a sequence of lines and the way the connection
ends: chunks of 0, 1 or 2 tokens, comments, `[DONE]`, data that is not JSON. What is not among
the caught errors `escaped` into a future and comes out when the pool has drained.
`ReadUpTo` is the loop of `consume_sse` as a recursive function of the lines read.
`disk` is the output file: absent, an earlier valid one, a torn one, or this run's report.
`CommandReturns` is `kernellab benchmark`, which validates the file after the
program ended well. `clean` and `cheated` are history: what the server really answered.
Times and latencies are left out, except whether a 99th percentile is reported; the
duration of a soak is its number of rounds. `run_group` sorts by the text of the ids, the
model by their numbers; the two differ from the eleventh request on, and no program,
validation or property reads the order.

### ServerStartup

`bench_server_startup.py` beside a server that loads, gets ready, hangs or exits on its
own. `pc` is the place in `main()`. Which timeout passes is a choice. `stranger` is
another server at the URL: one that answers the first probe makes the program refuse, one that
is slow or not ready yet goes unnoticed and may give any later answer, which the
program cannot tell from its own server's. `workers` are the other processes of the
launched group: they may serve for a leader that is gone, and they outlive it when it exited by
itself, or on SIGTERM without them, since `stop_process_group` then signals nobody else.
`reached` is history, how far the launched server got. `StartupIsHonest` says what a
report is worth under all this: ready exactly if the models were seen, by the launched
group only if no other server is there; the launched process is gone, its group only after a
shutdown that was not graceful.

### ResultAnalysis

Frontier, saturation point and length fairness as operators over rows of two
loads (a load stands for the pair of concurrency and output tokens, the key of
`length_fairness`), two input lengths and small throughputs and latencies. A row of the
frontier is found by its place in the stable sort, `Place`.

### AccuracyGate

`main()` of `qwen_accuracy_gate.py`, pass by pass, for each `--candidate`. A token is 0 if it
is the model's own answer in the context and 1 otherwise; a tensor is how far it
is from the model's. `differs` says at which modules and passes the fast kernel
rounds differently. The candidate follows the model bit by bit until a module it
replaced does; after that any outcome is possible. `Calibrate` is
`qwen_rms_sensitivity.py`, run earlier with a command line of its own: with other seeds,
prompts or lengths, or more than 768 prompts, it may have measured any of the gate's
passes or none, since the gate compares only the model's name. So a calibrated candidate may
well leave the model; that it does so in no pass that was measured is the last clause of
`AcceptanceIsEvidence`. How many prompts are traced and teacher-forced is free. A loss differs by
multiples of the gate's tolerance of 0.01, and the mean is what must keep it. `trace` is
`OperationTrace`, `totals` the accumulators of `main()`, `truth` a history of what happened.
`precise-rms` differs from `fast-rms` only in its kernel and is not listed apart.

### ReleaseGate

`capture.py` and `capture_corpus.py` let a reference and a candidate answer freely, each
fed its own tokens; `evaluate.py` compares the files. `Places` are the indices of the
candidate's arrays, a prompt and a token each. A recorded position keeps the
context it was computed in, which the gate never sees: the model finds out when the gate
compares positions with different histories. Losses differ by multiples of the tolerance of
0.01 on their mean, so a released candidate may be much worse at one position if others make
up for it. The two captures are jobs of their own: one of other prompts, or one that an earlier run
left at the path, is a job that differs.

## 3. Runs

| Run | Constants | Shows |
|---|---|---|
| `paged_kv` | 3 requests, 4 blocks of 2 tokens, any append up to the capacity | tables, slots, refinement of `PageOwnership` |
| `paged_attention` | 2 requests, 2 blocks of 2 tokens, 4 heads over 2 K/V heads, 2 layers, 12 deployments | every attention path of every configuration that can be built reads the request's own tokens, once each, although blocks are reused uncleared |
| `scheduler` | 3 requests, 6 blocks, batch 2, chunks of 2 (1 beside decodes), budget 3 | eight invariants of the scheduler; deadlock is checked |
| `engine_safety` | the same and a shape without sampler, executor suspends and may fail, clients at every suspension | streams, counters, stale slots, metadata, the loop survives |
| `engine_contract` | 2 requests, 4 blocks, batch 1, fair loop | the engine uses the scheduler legally and implements `RequestStream`; `close()` returns |
| `endless_clients` | 3 identifiers used again and again, 3 blocks, batch 1, fair loop | accepted requests end, unless more important ones keep arriving |
| `qwen_executor` | 3 requests, 5 blocks, three shapes, of which one may time out and one has no sampler; the device may raise at any work | pages hold the request's own prefix; dense caches end at the cursor and are dropped after the prefill; only requests of a pass that raised fail |
| `api` | 2 HTTP requests, 3 blocks, one shape with a deadline (1 token, 2 generated) and one without sampler, executor suspends, fair loop and readers | answers are complete and their usage true; leaving gives everything back; every read request is answered, silent timeouts excepted |
| `learning` | 2 sessions, prompt 2, 4 steps, capacities 6 (just the room for the steps) and 7 (the least with a warmup); 3 layers, 3 passes with the fused norm; 933 launches of nine kinds, sizes up to 8 (64 for the warps), blocks of 1 to 8, groups of 2 and 3 tiles, 1 to 4 splits | prefixes, masks, bounds and answers; the fused residual is the unfused one; every output cell stored once with the terms PyTorch sums |
| `evidence` | load tests: 2 tokens a request, 2 workers, 2 requests or rounds, tail of 2; analysis: 3 rows; accuracy gate: 2 prompts, 1 decode step, 2 modules, losses 0 or twice the tolerance off; release: 2 positions, losses from one tolerance better to two worse | reports tell what the server did; a clean exit is evidence; a cold start's report is worth what `StartupIsHonest` says; the analysis names the right rows; acceptance and release rest on complete, comparable evidence |
| `engine_silent_timeout` | 2 requests, executor does not suspend | finding 1 |
| `engine_cancel_in_flight` | 2 requests, no deadlines, executor suspends | finding 2 |

**Why these bounds are enough for the cases that matter.** Two shapes of request: a
long prompt of low priority (4 tokens, so two or more chunks, 2 generated) and a
short one of high priority (1 token, 3 generated). A block holds two tokens, so
lengths cross block boundaries. Six blocks hold two long requests or three short
ones but not one long and two short, so an admission that would overcommit the pool
exists and is refused. A batch of two with three requests leaves one out; a budget
of three tokens with chunks of two cuts a chunk; decodes beside prefills cut it to
one. Batch bucket 1 and sequence buckets 3 and 16 give all three outcomes of the table
width: no graph, a bucket's width, the pool's size. Symmetry over requests is used in
runs without temporal properties only (`NoIdleWork` is a step property without
request names). Five blocks in `qwen_executor` hold one request of each of the first two
shapes, so that a prompt of two chunks is prefilled beside a request that decodes. Three
identifiers are enough for `endless_clients`: one waits while the other two take turns without
end, and with a batch of one all wait but one. The engine runs set `CHECK_DEADLOCK FALSE` because the loop really
ends after `close()`.

The tables of the attention run go from the width a batch needs to the whole
pool, and its tiles of one, two and four tokens cut a block, are one, or span two. Its
deployments are accepted, refused and invalid calibrations and explicit settings.
The launches of `learning` have sizes that are and are not multiples of their blocks, groups
and splits, a last group lower than the others, splits with nothing to sum, rows that fill a
bucket and rows that do not, sequences shorter than the batch's longest and empty ones, and
grids of at most nine programs, in every order. Three layers are enough for one that is neither
first nor last, three passes for a prefill after a pass that raised in decode. In `evidence` two
requests and two workers let samples complete out of order, and let a total reach the tail's
minimum when its cohorts do not; one decode step is enough for a candidate to be fed a
token of its own, two prompts for a trace to outlive one; losses of two tolerances in either
direction make the mean of two pass, pass at the bound, and fail. Two positions do not reach
the tolerance of one token in a hundred, which is therefore the same as none in that run;
`ReleasesAreEvidence` covers captures of any length.
Tools that never meet share a run: each behaviour is one tool's, the others are idle.
`CHECK_DEADLOCK FALSE` there because the programs end. Symmetry over prompts is used in
`evidence`. Type invariants are part of the inductive invariants that are
proved and listed in no run.

**Fairness.** `FairSpec` asserts weak fairness of `LoopStep` only: the event loop runs
a task that can run, the sleep timer fires, and an executor call returns or
raises. `EndlessSpec` asserts no more: clients that send requests for ever owe nothing, and
need not. `APIFairSpec` adds strong fairness of the readers: the event loop runs every ready
task each time the serving loop suspends, and with an executor that does not suspend that
is in the idle sleep only, so that weak fairness would not be enough to say it.
Clients and the clock are unfair: nobody has to submit, cancel or close.

**Mutants.** Each property has a small mutated definition of the code (a dropped
guard, an off-by-one, a swapped order), placed before the definition it mutates and
marked as such; with it the property fails on the same constants.

## 4. Findings

1. **A timeout nobody hears of** (`EveryEndIsTold`). `step()` calls `expire()` and tells the
   clients (`engine.py:72-74`); `plan()` calls it again and drops the result
   (`scheduler.py:93`). A deadline that passes in between ends the request without
   event, counter or executor release. `profiling/qwen_serving_load.py:45-50` and
   `profiling/serving_stress.py:48-50` demand a terminal event for every request.
   An HTTP client of such a request waits for ever (`api.py:60`). `EventsTellTheStory`,
   `MetricsAddUp` and `ReadersAreAnswered` are stated with this
   exception or under conditions without it.
2. **One client's cancellation fails the others** (`FailureHasACause`). If a planned request
   is cancelled while the executor is awaited, committing its row raises and the
   `except` clause fails the rest of the plan (`engine.py:92-114`), which
   `serving/README.md:52-55` reserves for executor failures. The decode work of
   another request that committed before it survives; everything else planned ends
   with an error.

## 5. Proofs

`PagedKV_proofs` proves, for every pool, block size and set of requests, type correctness
`OneOwnerPerBlock` and every property the `paged_kv` run checks: `TableFitsLength`,
`NoSlotAliasing`, `SlotsAreStable` and `ImplementsOwnership`. It assumes only what the
constructor checks (`PoolAssumption`). The inductive invariant is `KVInv`, the conjunction
of typing, ownership and `TableFitsLength`: ownership alone is not inductive, because the number of blocks an
append pops is a difference that only `TableFitsLength` makes nonnegative. `NoSlotAliasing`
follows from it by the arithmetic of quotient and remainder (`PositionInTable`,
`DivMod`); stability and refinement are step lemmas under it (`StepKeepsSlots`,
`StepImplements`).

`Scheduler_proofs` proves, for every pool, set of requests, shape of request and limit,
`SchedTypeOK`, `PlanNeverRaises`, `QueuesMatchStates`, `ResourcesMatchStates`,
`ReservationsHold`, `LengthMatchesProgress` and `WorksAreAligned`, from `PoolAssumption`,
`RequestsAssumption`, `LimitsAssumption` and `ShapesAssumption`. The invariant `SchedInv`
joins the allocator's `KVInv` with `RequestInv` (what relates the fields of one request,
its allocation and its planned work), `QueueInv`, the bound on the sum of the
reservations, and `LoopInv`. Admission control rests on two of them:

- `RequestInv` bounds a request's length by its prompt and token limit (`LengthBound`), so
  its blocks never exceed its reservation (`TablesWithinReservations`).
- `ReservationsSuffice` counts: each listed block is paid by one ticket, the pair of its
  owner and its place in the table, and what the request needs next is paid by further
  tickets of its own. There are at most `NumBlocks` tickets, so the free blocks suffice
  (`PlanFindsBlocks`), and `append_slots` inside `plan()` cannot raise.

`LoopInv` is needed because the loops of `plan()` take several steps: the entries a loop
has yet to visit are idle, so a rotation never brings a request round twice, and no
decode request is without its first token while they run. That last part comes from the
caller: `SchedNext` begins a plan only when every prefilled request has been sampled, as
the engine does. `WorkInv` adds that a plan names known requests only, whose shapes never
change.

The second half of the module is about the plans themselves. `PlanWithinLimits` needs
`PlansInv`: while a plan is built it names exactly the requests in flight, one work each,
no chunk exceeds the limit in force, and the budget is what the chunks have left. The sum of
the chunks is counted, as the reservations are, by tickets (`PrefillTickets`), so that no
recursion is needed. `DecodeFirstRoundRobin` needs `OrderInv`: who was served stands behind
the others of the queue, and `todo` is the part of the batch still to fill. `SlotsInv` says
that a planned work holds the slots its table gives to the tokens it is about to write.

`Attention_proofs` proves `AttentionReadsOwnTokens` for every pool, block size, tile, number of
layers, heads and K/V heads, calibration and table width, from `HeadsAssumption`,
`KernelAssumption`, `DeploymentsAssumption` and those of the pool. The storage part is
`StoredInv`: each stored position lies within the length and its cell holds its token.
A write of one request disturbs no other because slots do not alias (`NoSlotAliasing`);
a cell nobody stored to may hold anything. The address part is done path by path
(`DirectReadsOwn`, `GatherReadsOwn`, `MaterializedReadsOwn`): each sets up a bijection between
the positions of the request and the lanes that read and weigh them, so that nothing is read
twice, nothing left out, and what lies past the row is masked. `PositionIsFound` is the step
all share, from a position through a row of the padded table to its cell.

`Engine_proofs` carries this over to the engine. `EngineStepsScheduler` shows every step of the
engine, whatever the clients do while it is suspended, to be a step of the scheduler or none, so
`SchedInv`, `PlansInv`, `OrderInv` and `SlotsInv` hold under it without being proved again. That
works only with `PhaseInv` (the phase of a plan is that of the loop, and `plan()` never
raises) and `CommitInv`: between two steps nothing is in flight, and during a step only
works of the plan whose row is still to be committed or failed are. With these, `EngineInv` is
inductive, and gives `EngineTyped`, `EngineUsesScheduler`, `LoopNeverCrashes` and `NoIdleWork`.
`HandoverInv` says what stays true from the plan to the executor: tables, lengths and
bucket are those of the plan when the decode batch is built (`DecodeBatchIsCurrent`), and a
planned slot lies in a block of its own request or in a free one until the step is
over (`NoStaleSlotIsReassigned`), since nothing plans while the executor runs.

The second half of the module proves what clients see. `StepEffect` sums up every step of the engine: it opens,
moves, aborts or emits one request, or leaves them all as they are. From it follow, one lemma
each, `StoriesInv` (as many token events as tokens generated, one terminal event of the kind the
state demands; `EventsTellTheStory`), `CountsInv` (each counter is the number of requests
in a state, of those with a sampler for the submitted; `MetricsAddUp`), the refinement of `RequestStream` (`ImplementsStream`), and `APIInv`
(what a handler has read and answered agrees with the events; `AnswersAreTruthful`,
`LeavingReclaims`). The exceptions for silent timeouts (finding 1) are part of these
statements.

`Qwen_proofs` proves `PagesHoldOwnPrefix`, `DenseCacheFollowsPrefill` and `FailureHasACause` for the
executor of this repository, which never suspends (`NeverSuspends`); finding 2 shows the last one
false of an executor that does. `WorksStand` says that a planned work still describes its request
when the executor gets it: nobody can cancel in between. `HoldsInv` says for each request how far
its pages hold its own prefix: up to what was committed, and up to the whole length for the
rows in `Written`, those the device has written and the loop has still to commit. The device
writes to cells in flight only (`DecodeSlotsInFlight`, `ScatteredCells`), so no prefix of
another request is touched, even by a pass that is torn.

`Learning_proofs` proves of `StaticDecode` type correctness and every property the `learning` run checks, for every number
of sessions and steps and every capacity that holds the prompt and the steps, also one with no
room beyond them (`CapacityAssumption`). `SessionInv` says that a position counts the answers and
the warmup, that only a cache with `RoomForWarmup` has a graph, that the past of a position is right, and that the token decoded next, the
caller's or the graph's, is the one for it; `ForwardIsRight` is the step common to the
eager loop, the warmup and the replay.

Its second part proves `LaunchIsExact` (`LaunchesAreExact`) for every launch the launchers accept, of
any sizes, and every order of the programs; it assumes `LaunchesAssumption` and
`BucketsAssumption`. `LaunchInv` is inductive and says that what is stored, or lies in the workspace, is exactly
what the programs that have run store, and that the second grid finds the first complete. What is left is
arithmetic, one section per kernel, on lemmas they share:

- `FlatIsUnique`, `FlatIsBelow`, `FlatExists`: an index of a block of a row comes from one block and
  one place in it; products of several sizes are taken one factor at a time.
- `LoopIsExact` and `OwnExists`: the masked tiles of a dimension visit each index below its size
  once; hence `LanesAreExact`, that a sum over them has each term once.
- `TileInGrid`, `TilesDiffer`, `TileExists`: `TileOf` is a bijection from the grid to the tiles,
  though the last group may be lower than the others and its programs are divided by its
  own height.
- The five exchanges of `warp_sum` bring each of 32 lanes to lane 0 along one path.
- `GatherIsExact`: sums of disjoint splits add up to the whole, also where a split is empty.

`Evidence_proofs` proves `FusionKeepsTheModel` for every number of layers and passes
(`FusionAssumption`). The property is not inductive: between two layers of a decode pass
the carried tensor lacks the MLP output that is pending. `HandOver` says where the sum is
at each layer (in `hidden`, or split over the pending pair), what the observer has heard by
then, and that a pass begins with nothing pending; the lemmas on formal sums add one term
at a time.

It also proves `AcceptanceIsEvidence` for every set of modules, calibration and workload (`GateAssumption`).
`GateInv` relates what the gate holds to what happened:

- `ContextInv`: both caches hold the model's own answers so far, because the candidate is
  forced; the loops stay within the workload.
- `TraceInv`: when traces are compared, each holds one output per name, of the pass at hand
  and of no other.
- `NoticeInv`: no value that is not a number, no distant layer and no missing name of an
  earlier pass has gone unnoticed; between a pass and its comparison the trace still has it.
- `CountInv`: the totals are the numbers of passes that agreed, so that at the report they
  are the workload less the flips (`WorkloadCounted`).
- `CalibratedInv`: a calibrated candidate rounds differently in no pass that was measured, and a
  prompt measured at one step was measured at all steps before, so that it leaves the model, if
  at all, from a pass nobody measured on (`DiffersUnmeasured`).

Its last part proves `ReleaseIsEvidence` for every corpus and every length of the captures
(`ReleaseAssumption`), so also for captures long enough to use the tolerance of one token in a
hundred, and with the tolerance of 0.01 on the mean loss. `ReleaseInv` says how far each capture is (`ShapeInv`), that every
recorded position was computed after the prompt and the tokens recorded before it (`HistoryInv`),
that the reference is its own measure, that a saved file is complete (`FileInv`), and that what the
gate saw is still there (`PassedInv`). `HistoriesMeet` is then the argument: at the same place the
two captures ran in the same context exactly if no earlier token of that prompt differs.

`Benchmark_proofs` proves `StartupIsHonest`, whatever the launched server, its workers and another
server do: `StartupInv` adds where in `main()` which process can be alive, how far the launched
server got when an answer was its own, and that an error is recorded exactly if the models
were not seen. It also proves, for every
number of result files (`AnalysisAssumption`), `AnalysisIsSound`: `PlacesInOrder` shows
that places number the undominated rows without gap or repetition, so the frontier holds each
of them once (`FrontierRows`); whatever beats a usable row, an undominated one beats it too
(`Covered`, by the least weight).

Its main part is the load tests: `ReportTellsTheRun` and `CleanExitIsEvidence` for every program and
setting, number of requests, workers, rounds and tokens (`LoadAssumption`), whatever the server
sends. Neither is inductive. `LoadInv` is, and TLC checked it on the `LoadTest` part of the `evidence` instance
before it was proved:

- `GroupInv`: while a stage runs it has one sample of every request that ended, which says of
  it what the server did (`Tells`), unless an exception of one waits in its future.
- `CleanInv`, `SamplesInv`: answers are counted for requests that have ended, and the samples kept are
  those of the measured requests of the finished stages, each once.
- `DoomInv`: a waiting exception, or a required request that failed, lets no program past its stage.
- `DiskInv`, `StatusInv`: the file is this run's report only after the last stage, the status of
  the program is the one the report was written with, and the caller's status comes from it.

`ReportIsTrue` then counts: ids and samples correspond one to one (`AsManyIds`), and the tokens
of the report are pairs of an answered request and one of its tokens. What a sample says of a
response is `StreamTells`: `consume_sse` counts right and stops right. `ReadUpTo` is recursive, and the
library's induction theorems cannot be used here, since they take an operator as a parameter. The module
derives the set form it needs from a theorem that does not, that a well-founded order has minimal elements:
`LeastNumber`, `Inductive` and `RecursionExists`; with them `ReadUpToDefined` shows that the
recursion has the values it should, and `ReadingTells` what they are after any number of lines.

Every safety property of a passing run is thus proved. Liveness under fairness (`AcceptedRequestsEnd`,
`CloseDrains`, `ReadersAreAnswered`) is model-checked only, since the prover has no rules for it.

## 6. Not modelled, and what is next

Worth doing next: the `kernellab` commands that launch and validate in more detail, and the
remaining kernels of `learning/`.

Left out, and why:

* Tensor arithmetic and numerics (products and rounding in the kernels, the rescaling of partial
  softmaxes when splits merge, scores and values of attention, cosine and loss themselves):
  floating point. `KernelLaunch` says which terms are combined, not how.
* In the kernels of `learning/`: the vocabulary top-k, the log-sum-exp that attention stores beside
  its output, the scales of the INT8 path, the fused QKV and cache kernels; what the launchers demand
  of data types, devices and powers of two, which addresses do not depend on; and the benchmarks
  beside the kernels.
* `GraphBuckets.capture` and `replay`: nothing in `src/serving` calls them yet.
* `Sampler`'s top-k and top-p selection: a function of floating-point logits. The engine
  takes its two outcomes, a token that stops the request or not, and its failure.
* `ServingMetrics`' latency windows and percentiles: only read, by the metrics endpoint.
* The gate of `rmsnorm_acceptance.py` itself (its rows are in `ResidualFusion`): it is a
  `min()` over floats, where the place of a NaN decides.
* `model_integrity.py`, `run_lm_eval`, the `kernellab` commands that build command
  lines (`matrix`, `plan`, `serve`, `download`), `tensor_parallel_efficiency`,
  `portability.py`'s report: no state between two steps.
* The remaining profiling scripts, kernel benchmarks, `baseline/` and `scripts/`: they time
  or profile one call after another.
* Logging, HTTP and JSON layout, GPU devices.
