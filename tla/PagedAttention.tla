--------------------------- MODULE PagedAttention ---------------------------
(***************************************************************************)
(* What one decode query attends to, through the block tables, on each     *)
(* path of QwenPagedExecutor._forward_batch: the direct split kernel, the  *)
(* fused gather, and the reference that materialises the pages. Scores and *)
(* values are left out; a path is the set of what it reads and weighs, by  *)
(* the lane that reads it. Addresses are the kernels' own.                 *)
(***************************************************************************)
EXTENDS KVStorage, KernelPolicy

CONSTANTS Heads, KVHeads,   \* attention and K/V heads
          GatherTile        \* tile of gather_paged_gqa, 16

ASSUME HeadsAssumption ==
    /\ KVHeads \in Nat \ {0} /\ GatherTile \in Nat \ {0}
    /\ Heads \in Nat \ {0} /\ Heads % KVHeads = 0

VARIABLE executor    \* its configuration; constant once it is built

\* Mutant of Cdiv: the last, shorter split or tile is left out.
CdivDown(a, b) == a \div b

Cdiv(a, b) == (a + b - 1) \div b
GroupSize == Heads \div KVHeads

Garbage == <<"garbage">>   \* an address outside the pool, or never stored

\* Load of one token of a K/V head.
Load(physical, offset, kvHead) ==
    <<kvHead, IF physical \in Blocks THEN cells[<<physical, offset>>] ELSE Garbage>>

(***************************************************************************)
(* The metadata of a batch: a sequence of requests and a table width. The  *)
(* tables are one array, and a kernel can read past the end of a row.      *)
(***************************************************************************)
TableEntry(batch, width, address) ==
    LET row == (address \div width) + 1
        column == (address % width) + 1
    IN IF row \in DOMAIN batch /\ column \in DOMAIN table[batch[row]]
       THEN table[batch[row]][column] ELSE -1

Capacity(width) == width * BlockSize
Maximum(batch) == CHOOSE m \in {len[batch[i]] : i \in DOMAIN batch} :
                     \A i \in DOMAIN batch : len[batch[i]] <= m

\* Rows and heads are numbered from zero, as the programs of a kernel's grid.
LengthOf(batch, row) == len[batch[row + 1]]

\* paged_attention: _partial runs over splits of tile tokens, _merge weighs
\* them all, and a split past the length with zero.
DirectReads(batch, width, row, head) ==
    LET splits == Cdiv(Capacity(width), executor.tile)
        kvHead == head \div GroupSize
        lanes == {lane \in (0 .. splits - 1) \X (0 .. executor.tile - 1) :
                     lane[1] * executor.tile + lane[2] < LengthOf(batch, row)}
    IN {LET token == lane[1] * executor.tile + lane[2]
            physical == TableEntry(batch, width, row * width + token \div BlockSize)
        IN <<lane, Load(physical, token % BlockSize, kvHead)>> : lane \in lanes}

\* gather_paged_gqa fills a workspace of program heads, kept from call to call,
\* and zeroes it beyond the lengths. It doubles the K/V heads, whatever the
\* model's group size, unless SDPA expands them.
ProgramHeads == IF executor.native THEN KVHeads ELSE 2 * KVHeads
WorkspaceHeads == IF executor.native THEN KVHeads ELSE Heads

Gathered(batch, width, address) ==
    LET capacity == Capacity(width)
        bh == address \div capacity
        token == address % capacity
        row == bh \div ProgramHeads
        kvHead == (bh % ProgramHeads) \div (ProgramHeads \div KVHeads)
    IN IF token >= GatherTile * Cdiv(capacity, GatherTile) \/ row >= Len(batch)
       THEN <<kvHead, Garbage>>
       ELSE IF token >= LengthOf(batch, row) THEN <<kvHead, <<"zero">>>>
       ELSE Load(TableEntry(batch, width, row * width + token \div BlockSize),
                 token % BlockSize, kvHead)

\* The positions scaled_dot_product_attention weighs: those of the longest
\* request, less what the mask hides when lengths differ.
Weighed(batch, row) ==
    LET needsMask == \E i \in DOMAIN batch : len[batch[i]] # Maximum(batch)
    IN {p \in 0 .. Maximum(batch) - 1 : needsMask => p < LengthOf(batch, row)}

GatherReads(batch, width, row, head) ==
    LET view == IF executor.native THEN head \div GroupSize ELSE head
        address(p) == (row * WorkspaceHeads + view) * Capacity(width) + p
    IN {<<p, Gathered(batch, width, address(p))>> : p \in Weighed(batch, row)}

\* materialize_paged_kv puts a request's blocks behind each other, _forward_batch
\* pads them to the longest, stacks them and repeats each K/V head for its group.
MaterializedReads(batch, width, row, head) ==
    LET blocks == Cdiv(LengthOf(batch, row), BlockSize)
        kvHead == head \div GroupSize
        token(p) == IF p < LengthOf(batch, row) /\ p < blocks * BlockSize
                    THEN Load(TableEntry(batch, width, row * width + p \div BlockSize),
                              p % BlockSize, kvHead)
                    ELSE <<kvHead, <<"zero">>>>
    IN {<<p, token(p)>> : p \in Weighed(batch, row)}

Reads(batch, width, layer, row, head) ==
    CASE Path(executor, layer) = "direct" -> DirectReads(batch, width, row, head)
      [] Path(executor, layer) = "gather" -> GatherReads(batch, width, row, head)
      [] OTHER -> MaterializedReads(batch, width, row, head)

\* gather_paged_gqa raises if the workspace has not the heads it writes.
PathRaises(layer) ==
    Path(executor, layer) = "gather" /\ WorkspaceHeads # ProgramHeads

(***************************************************************************)
(* The pool in use, under an executor built for one of the deployments.    *)
(***************************************************************************)
CONSTANT Deployments

ASSUME DeploymentsAssumption ==
    \A d \in Deployments : d.rows \subseteq Row /\ Cardinality(d.rows) <= 1

AttentionInit ==
    /\ StorageInit
    /\ executor \in UNION {NewExecutor(d, BlockSize) : d \in Deployments}

AttentionSpec == AttentionInit /\ [][StorageNext /\ UNCHANGED executor]_<<storageVars, executor>>

\* The batches a decode pass may get: requests whose every position is stored.
Ready == {r \in live : len[r] > 0 /\ written[r] = 0 .. len[r] - 1}
Batches == {<<r>> : r \in Ready} \cup {b \in Ready \X Ready : b[1] # b[2]}

\* Whatever the kernels of a layer, the tile, the table width and the other
\* request of the batch: each head attends to the request's own tokens from the
\* first to the last, once each, in the K/V head of its group, and to nothing
\* stale, padded or of another request (paged_attention.py, paged_gather.py,
\* _forward_batch).
AttentionReadsOwnTokens ==
    \A batch \in Batches :
    \A width \in UsedWidth({batch[i] : i \in DOMAIN batch}) .. NumBlocks :
    \A layer \in LayerSet, row \in 0 .. Len(batch) - 1, head \in 0 .. Heads - 1 :
        PathRaises(layer) \/
        LET reads == Reads(batch, width, layer, row, head)
            r == batch[row + 1]
        IN /\ Cardinality(reads) = len[r]
           /\ {x[2] : x \in reads} =
                  {<<head \div GroupSize, <<r, p>>>> : p \in 0 .. len[r] - 1}
=============================================================================
