---------------------------- MODULE StaticDecode ----------------------------
(***************************************************************************)
(* Greedy decoding over a static KV cache: the fused attention path        *)
(* (learning/11_static_kv), which takes over the model once installed, and *)
(* the captured decode step (learning/12_decode_runtime).                  *)
(*                                                                         *)
(* Every session has its own cache, additive mask, position tensor and     *)
(* token. A cache entry and a token are the position they are right for:   *)
(* keys, values and tokens computed from anything but the session's own    *)
(* prefix are Wrong. Calls run one after another, as the callers in        *)
(* profiling/ make them.                                                   *)
(***************************************************************************)
EXTENDS Integers, Sequences

CONSTANTS Sessions,
          Context,         \* prompt tokens
          Steps,           \* decode steps a caller takes, replays included
          Capacities       \* max_cache_len, as the callers choose it

ASSUME SessionsAssumption ==
    /\ Context \in Nat \ {0}
    /\ Steps \in Nat

\* Every caller leaves room for its steps, often no more.
ASSUME CapacityAssumption ==
    Capacities \subseteq Nat /\ \A c \in Capacities : c >= Context + Steps

VARIABLES capacity,    \* of every cache of the model
          path,        \* the attention forward of the model's layers
          ready,       \* sessions that are prefilled
          kv,          \* session -> position -> entry, of all layers and heads
          open,        \* session -> positions the additive mask leaves visible
          position,    \* session -> the position tensor
          cumulative,  \* session -> cumulative_length of its cache layers
          token,       \* session -> the caller's next input token
          graphToken,  \* session -> the graph's clone of it
          graphs,      \* sessions with a captured step
          answers      \* session -> the tokens its caller got from steps

sessionVars == <<capacity, ready, kv, open, position, cumulative, token, graphToken,
                 graphs, answers>>
decodeVars == <<path, sessionVars>>

\* The fused path reads through the mask, or with split_attention up to the
\* position; it replaces the original one for good.
Paths == {"original", "masked", "split"}
Fused == path # "original"

Positions == 0 .. capacity - 1
Wrong == -1

StaticInit ==
    /\ capacity \in Capacities
    /\ path = "original"
    /\ ready = {}
    /\ kv = [s \in Sessions |-> [p \in Positions |-> Wrong]]
    /\ open = [s \in Sessions |-> {}]
    /\ position = [s \in Sessions |-> 0]
    /\ cumulative = [s \in Sessions |-> 0]
    /\ token = [s \in Sessions |-> Wrong]
    /\ graphToken = [s \in Sessions |-> Wrong]
    /\ graphs = {}
    /\ answers = [s \in Sessions |-> <<>>]

\* install_fused_static_kv: once per model.
Install ==
    /\ ~Fused
    /\ path' \in Paths \ {"original"}
    /\ UNCHANGED sessionVars

\* detect: a call with one token is taken for a decode step. With the fused
\* path it then demands the persistent mask and raises.
TakenForDecode(count) == Fused /\ count = 1

\* make_mask: the valid prefix is visible.
MakeMask(valid) == 0 .. valid - 1

\* A new cache, prefilled by the original path, with make_mask and a position.
Prepare(s) ==
    /\ s \notin ready
    /\ ~TakenForDecode(Context)
    /\ ready' = ready \cup {s}
    /\ kv' = [kv EXCEPT ![s] = [p \in Positions |-> IF p < Context THEN p ELSE Wrong]]
    /\ open' = [open EXCEPT ![s] = MakeMask(Context)]
    /\ position' = [position EXCEPT ![s] = Context]
    /\ cumulative' = [cumulative EXCEPT ![s] = Context]
    /\ token' = [token EXCEPT ![s] = Context]
    /\ UNCHANGED <<capacity, path, graphToken, graphs, answers>>

-----------------------------------------------------------------------------
\* Mutant of WriteSlot: the fused path also trusts the cache's own length.
WriteSlotOfCache(s) == cumulative[s]

\* The fused kernel writes at the position tensor, the cache's own update at the
\* length it counted itself.
WriteSlot(s) == IF Fused THEN position[s] ELSE cumulative[s]

\* Beyond the capacity the kernel hits the next head's first positions.
Landing(slot) == slot % capacity

PrefixIsRight(s, count) == \A p \in 0 .. count - 1 : kv[s][p] = p

\* What is written for input t: right if t, its place and its past are.
NewEntry(s, t) ==
    IF t = position[s] /\ WriteSlot(s) = position[s] /\ PrefixIsRight(s, position[s])
    THEN position[s] ELSE Wrong

\* The fused kernel opens the mask where it writes; without it, the caller runs
\* open_mask before the call.
OpenAfter(s) == open[s] \cup ({position[s]} \cap Positions)

\* The positions the query attends to.
Attended(s) ==
    IF path = "split" THEN 0 .. position[s] ELSE OpenAfter(s)

NextToken(s, t) ==
    IF NewEntry(s, t) # Wrong /\ Attended(s) = 0 .. position[s]
    THEN position[s] + 1 ELSE Wrong

\* The device's part of one decode step for input t; advance_position is last.
Forward(s, t) ==
    /\ kv' = [kv EXCEPT ![s][Landing(WriteSlot(s))] = NewEntry(s, t)]
    /\ open' = [open EXCEPT ![s] = OpenAfter(s)]
    /\ position' = [position EXCEPT ![s] = @ + 1]
    /\ cumulative' = [cumulative EXCEPT ![s] = IF Fused THEN @ ELSE @ + 1]

\* Mutant of StepsLeft: one step too many.
OneStepMore(s) == Len(answers[s]) <= Steps

StepsLeft(s) == Len(answers[s]) < Steps

\* A step in the caller's own loop, static or fused.
EagerStep(s) ==
    /\ s \in ready \ graphs
    /\ StepsLeft(s)
    /\ Forward(s, token[s])
    /\ token' = [token EXCEPT ![s] = NextToken(s, token[s])]
    /\ answers' = [answers EXCEPT ![s] = Append(@, NextToken(s, token[s]))]
    /\ UNCHANGED <<capacity, path, ready, graphToken, graphs>>

\* --cuda-graph adds room for the warmup to what the steps need.
RoomForWarmup == capacity > Context + Steps

\* GreedyDecodeGraph: clone the token, run one step for warmup, capture a second
\* one, which the device does not execute. The caller's token stays.
BuildGraph(s) ==
    /\ Fused /\ RoomForWarmup
    /\ s \in ready \ graphs
    /\ Forward(s, token[s])
    /\ graphToken' = [graphToken EXCEPT ![s] = NextToken(s, token[s])]
    /\ graphs' = graphs \cup {s}
    /\ UNCHANGED <<capacity, path, ready, token, answers>>

\* Mutant of ReplayInput: the step was captured on the caller's token.
ReplayCallersToken(s) == token[s]

\* The captured step reads the graph's own token.
ReplayInput(s) == graphToken[s]

\* replay: the captured step, which overwrites its own input.
Replay(s) ==
    /\ s \in graphs
    /\ StepsLeft(s)
    /\ Forward(s, ReplayInput(s))
    /\ graphToken' = [graphToken EXCEPT ![s] = NextToken(s, ReplayInput(s))]
    /\ answers' = [answers EXCEPT ![s] = Append(@, NextToken(s, ReplayInput(s)))]
    /\ UNCHANGED <<capacity, path, ready, token, graphs>>

StaticNext ==
    \/ Install
    \/ \E s \in Sessions : Prepare(s) \/ EagerStep(s) \/ BuildGraph(s) \/ Replay(s)

StaticSpec == StaticInit /\ [][StaticNext]_decodeVars

-----------------------------------------------------------------------------
\* Properties.

StaticTypeOK ==
    /\ capacity \in Capacities
    /\ path \in Paths
    /\ ready \in SUBSET Sessions
    /\ kv \in [Sessions -> [Positions -> Positions \cup {Wrong}]]
    /\ open \in [Sessions -> SUBSET Positions]
    /\ position \in [Sessions -> Nat]
    /\ cumulative \in [Sessions -> Nat]
    /\ token \in [Sessions -> Nat \cup {Wrong}]
    /\ graphToken \in [Sessions -> Nat \cup {Wrong}]
    /\ graphs \in SUBSET Sessions
    /\ answers \in [Sessions -> Seq(Nat \cup {Wrong})]

\* Whenever the fused path takes over, and whoever wrote them, the entries
\* before the position are the session's own, and the mask opens exactly those.
CacheHoldsPrefix ==
    \A s \in ready : PrefixIsRight(s, position[s]) /\ open[s] = 0 .. position[s] - 1

\* The kernels do not check the position: no write passes the end of the cache,
\* which has room for a caller's steps and no more, or for them and the warmup of
\* the graph it captures before or between them.
PositionStaysInside == \A s \in ready : position[s] <= capacity

\* A caller gets the greedy continuation, eager or replayed: consecutive tokens,
\* but for the one that the warmup of its graph swallows.
AnswersAreGreedy ==
    \A s \in Sessions : \A i \in DOMAIN answers[s] :
        /\ answers[s][i] \in {Context + i, Context + i + 1}
        /\ answers[s][i] = Context + i + 1 => s \in graphs
        /\ i > 1 => answers[s][i] > answers[s][i - 1]
=============================================================================
