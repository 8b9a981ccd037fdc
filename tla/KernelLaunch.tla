---------------------------- MODULE KernelLaunch ----------------------------
(***************************************************************************)
(* The index arithmetic of the teaching and candidate kernels (learning/,  *)
(* optimized-llama/kernels): grids, tiles, masks, splits and addresses.    *)
(* The programs of a grid run in any order. What one stores is symbolic: a *)
(* value is the set of the terms it was accumulated from, each under the   *)
(* step and lane that added it, so that a term added twice counts twice,   *)
(* and a term is the addresses it was computed from. Arithmetic, types and *)
(* warps within a program are left out.                                    *)
(***************************************************************************)
EXTENDS Integers, Sequences

CONSTANTS Launches,     \* the launches considered: records, see IsLaunch
          Buckets       \* row counts the tiled kernels are compiled for

Size == Nat \ {0}

ASSUME BucketsAssumption == Buckets \subseteq Size

Min2(a, b) == IF a <= b THEN a ELSE b
Cdiv(a, b) == (a + b - 1) \div b

-----------------------------------------------------------------------------
(***************************************************************************)
(* What the launchers accept. A block is any number: that they ask for     *)
(* powers of two does not matter to addresses.                             *)
(***************************************************************************)

\* vector_add, swiglu: one program per block of a flat tensor.
IsElementwise(l) ==
    /\ l.kernel = "elementwise"
    /\ {l.n, l.block} \subseteq Size

\* rmsnorm, qwen_rmsnorm, llama_rmsnorm, softmax: one program per row, the
\* block covering it. weighted is for the norms; residual: the row is the sum
\* with a residual, which is saved behind the output.
IsRowwise(l) ==
    /\ l.kernel = "rowwise"
    /\ {l.rows, l.n, l.block} \subseteq Size /\ l.block >= l.n
    /\ l.weighted \in BOOLEAN /\ l.residual \in BOOLEAN

\* _bucket_m: the least bucket with room for m rows.
IsBucketOf(b, m) == b \in Buckets /\ m <= b /\ \A c \in Buckets : m <= c => b <= c

\* gemm, prefill GEMM, projection and SwiGLU: output tiles in groups of rows.
\* linear: the weight is stored [N,K], as by nn.Linear.
IsTiled(l) ==
    /\ l.kernel = "tiled"
    /\ {l.m, l.n, l.k, l.bm, l.bn, l.bk, l.group} \subseteq Size
    /\ l.linear \in BOOLEAN
    /\ l.bucket = l.m \/ IsBucketOf(l.bucket, l.m)

\* decode_gemv, with its reduction over splits, and the SwiGLU of one token.
IsGemv(l) ==
    /\ l.kernel = "gemv"
    /\ {l.n, l.k, l.bn, l.bk, l.splits, l.block} \subseteq Size
    /\ l.linear \in BOOLEAN /\ (l.linear => l.splits = 1)

\* int4_gemv: groups of an even number of columns divide K.
IsInt4(l) ==
    /\ l.kernel = "int4"
    /\ {l.n, l.k, l.bn, l.group} \subseteq Size
    /\ l.group % 2 = 0 /\ l.k % l.group = 0

\* triton_attention: lengths per sequence of the batch.
IsAttention(l) ==
    /\ l.kernel = "attention"
    /\ {l.batch, l.heads, l.sq, l.sk, l.d, l.bm, l.bn} \subseteq Size
    /\ l.causal \in BOOLEAN
    /\ l.queries \in [0 .. l.batch - 1 -> Nat] /\ l.keys \in [0 .. l.batch - 1 -> Nat]

\* triton_rope_qk: Q and K may differ in heads; half is half the head.
IsRope(l) ==
    /\ l.kernel = "rope"
    /\ {l.batch, l.qheads, l.kheads, l.s, l.half} \subseteq Size

\* project in warp_gemv.cu: sms is 0 unless the launch is persistent; with
\* swiglu the weight has the gate's rows and then as many for up.
IsWarp(l) ==
    /\ l.kernel = "warp"
    /\ {l.outputs, l.k, l.warps} \subseteq Size
    /\ l.sms \in Nat /\ l.swiglu \in BOOLEAN

\* split_kv_attention: valid positions of a cache of s.
IsSplitKV(l) ==
    /\ l.kernel = "splitkv"
    /\ {l.kvheads, l.gqa, l.s, l.d, l.tile, l.valid} \subseteq Size
    /\ l.valid <= l.s

IsLaunch(l) ==
    \/ IsElementwise(l) \/ IsRowwise(l) \/ IsTiled(l) \/ IsGemv(l) \/ IsInt4(l)
    \/ IsAttention(l) \/ IsRope(l) \/ IsWarp(l) \/ IsSplitKV(l)

ASSUME LaunchesAssumption == \A l \in Launches : IsLaunch(l)

-----------------------------------------------------------------------------
(***************************************************************************)
(* Programs.                                                               *)
(***************************************************************************)

\* tl.arange
Lanes(block) == 0 .. block - 1

\* Index i of block, row or head q, each of n.
Flat(q, n, i) == q * n + i

\* A masked loop over the tiles of a dimension: the steps and lanes that take
\* part, and the index each works on.
Place(o, block) == Flat(o[1], block, o[2])
Loop(size, block) ==
    {o \in (0 .. Cdiv(size, block) - 1) \X Lanes(block) : Place(o, block) < size}

\* The lanes program p of a grid over a dimension has.
Own(p, size, block) == {i \in Lanes(block) : Flat(p, block, i) < size}

\* One store: by which program and lanes, where, and what was accumulated.
Store(by, cell, value) == [by |-> by, cell |-> cell, value |-> value]

ElementwiseStores(l, p) ==
    {Store(<<p, i>>, Flat(p, l.block, i), {<<<<i>>, <<Flat(p, l.block, i)>>>>}) :
        i \in Own(p, l.n, l.block)}

\* A row is reduced and each of its elements scaled, by the weight of its
\* column if there is one.
Scaled(l, row, i) == <<Flat(row, l.n, i), IF l.weighted THEN i ELSE 0>>
RowValue(l, row, i) ==
    {<<<<j>>, <<Flat(row, l.n, j)>>>> : j \in Own(0, l.n, l.block)}
    \cup {<<<<i>>, Scaled(l, row, i)>>}
ResidualStores(l, row) ==
    {Store(<<row, i>>, Flat(l.rows + row, l.n, i), {<<<<i>>, <<Flat(row, l.n, i)>>>>}) :
        i \in Own(0, l.n, l.block)}
RowwiseStores(l, row) ==
    {Store(<<row, i>>, Flat(row, l.n, i), RowValue(l, row, i)) : i \in Own(0, l.n, l.block)}
    \cup (IF l.residual THEN ResidualStores(l, row) ELSE {})

\* Mutant of TileOf: the last group is taken for as high as the others.
TileOfFullGroup(l, p) ==
    LET perGroup == l.group * Cdiv(l.n, l.bn)
        first == (p \div perGroup) * l.group
    IN <<first + (p % l.group), (p % perGroup) \div l.group>>

\* The tile of a program: tiles are counted column by column through groups of
\* group rows, the last of which may have fewer.
TileOf(l, p) ==
    LET perGroup == l.group * Cdiv(l.n, l.bn)
        first == (p \div perGroup) * l.group
        height == Min2(Cdiv(l.bucket, l.bm) - first, l.group)
    IN <<first + (p % height), (p % perGroup) \div height>>

\* The addresses whose contents are multiplied for k, and their sum over K.
Weight(l, k, col) == IF l.linear THEN Flat(col, l.k, k) ELSE Flat(k, l.n, col)
Product(l, row, col, k) == <<Flat(row, l.k, k), Weight(l, k, col)>>
Dot(l, row, col) ==
    {<<o, Product(l, row, col, Place(o, l.bk))>> : o \in Loop(l.k, l.bk)}

TileStores(l, p, tile) ==
    {LET row == Flat(tile[1], l.bm, o[1])
         col == Flat(tile[2], l.bn, o[2])
     IN Store(<<p, o[1], o[2]>>, Flat(row, l.n, col), Dot(l, row, col)) :
        o \in Own(tile[1], l.m, l.bm) \X Own(tile[2], l.n, l.bn)}
TiledStores(l, p) == TileStores(l, p, TileOf(l, p))

GemvStores(l, p) ==
    {Store(<<p, i>>, Flat(p, l.bn, i), Dot(l, 0, Flat(p, l.bn, i))) : i \in Own(p, l.n, l.bn)}

\* The columns of K a split sums, in tiles from where it begins.
SplitSize(l) == Cdiv(l.k, l.splits)
SplitPlace(l, s, o) == s * SplitSize(l) + Place(o, l.bk)
SplitLoop(l, s) ==
    {o \in (0 .. Cdiv(SplitSize(l), l.bk) - 1) \X Lanes(l.bk) :
        SplitPlace(l, s, o) < Min2((s + 1) * SplitSize(l), l.k)}
SplitDot(l, s, col) ==
    {<<o, Product(l, 0, col, SplitPlace(l, s, o))>> : o \in SplitLoop(l, s)}

SplitKStores(l, p) ==
    {Store(<<p[1], p[2], i>>, Flat(p[2], l.n, Flat(p[1], l.bn, i)),
           SplitDot(l, p[2], Flat(p[1], l.bn, i))) : i \in Own(p[1], l.n, l.bn)}

\* A byte of the packed weight holds two neighbours of a row, low nibble first.
RowBytes(l) == l.k \div 2
Nibble(l, byte, high) == Flat(byte \div RowBytes(l), l.k, Flat(byte % RowBytes(l), 2, high))

\* Each byte is loaded once and serves two columns, under the scale of its group.
Int4Loop(l) == (0 .. (l.k \div l.group) - 1) \X Lanes(l.group \div 2) \X {0, 1}
Int4Term(l, row, o) ==
    LET byte == Flat(row, RowBytes(l), Flat(o[1], l.group \div 2, o[2]))
    IN <<Nibble(l, byte, o[3]), Flat(row, l.k \div l.group, o[1]),
         Flat(o[1], l.group, Flat(o[2], 2, o[3]))>>
Int4Dot(l, row) == {<<o, Int4Term(l, row, o)>> : o \in Int4Loop(l)}

Int4Stores(l, p) ==
    {Store(<<p, i>>, Flat(p, l.bn, i), Int4Dot(l, Flat(p, l.bn, i))) : i \in Own(p, l.n, l.bn)}

\* The keys a query attends to; its score with one, and what it weighs there.
Attends(l, batch, query, key) ==
    key < l.sk /\ key < l.keys[batch] /\ (l.causal => key <= query)
Weighs(l, head, query, key, i) ==
    <<Flat(head, l.sq, query), Flat(head, l.sk, key), Flat(Flat(head, l.sk, key), l.d, i)>>
AttentionSum(l, batch, head, query, i) ==
    {<<o, Weighs(l, head, query, Place(o, l.bn), i)>> :
        o \in {x \in Loop(l.sk, l.bn) : Attends(l, batch, query, Place(x, l.bn))}}

\* The queries of a program, and its stores for heads counted through the batch.
Queries(l, p) ==
    {i \in Own(p[1], l.sq, l.bm) : Flat(p[1], l.bm, i) < l.queries[p[2] \div l.heads]}
AttentionStores(l, p) ==
    {LET query == Flat(p[1], l.bm, o[1])
     IN Store(<<p[1], p[2], o[1], o[2]>>, p[2] * l.sq * l.d + query * l.d + o[2],
              AttentionSum(l, p[2] \div l.heads, p[2], query, o[2])) :
        o \in Queries(l, p) \X Lanes(l.d)}

\* The rows of Q come before those of K, in the grid and here in the addresses;
\* the table has a row per position, shared by both halves of a head.
QRows(l) == l.batch * l.qheads * l.s
KRows(l) == l.batch * l.kheads * l.s
Rotation(first, half, angle) == <<first, first + half, angle>>
RopeRow(l, row, side, i) ==
    LET isQ == row < QRows(l)
        tensorRow == IF isQ THEN row ELSE row - QRows(l)
        start == (IF isQ THEN 0 ELSE QRows(l) * (2 * l.half)) + tensorRow * (2 * l.half)
    IN Store(<<row, side, i>>, start + side * l.half + i,
             {<<<<side>>, Rotation(start + i, l.half, Flat(tensorRow % l.s, l.half, i))>>})
RopeStores(l, row) == {RopeRow(l, row, o[1], o[2]) : o \in {0, 1} \X Lanes(l.half)}

\* A grid-stride loop over rows, a warp each.
WarpBlocks(l) ==
    LET all == Cdiv(l.outputs, l.warps)
    IN IF l.sms = 0 THEN all ELSE Min2(all, l.sms * 2)
WarpRow(l, p, turn) == p[1] * l.warps + p[2] + turn * (WarpBlocks(l) * l.warps)
WarpRows(l, p) ==
    {r \in {WarpRow(l, p, turn) : turn \in 0 .. l.outputs} : r < l.outputs}

\* warp_sum: five times a lane adds what the lane 16, 8, 4, 2 and 1 above holds;
\* bits says in which of them a lane's sum moved on its way to lane 0.
Bits == {0, 1} \X {0, 1} \X {0, 1} \X {0, 1} \X {0, 1}
LaneOf(bits) == bits[1] * 16 + bits[2] * 8 + bits[3] * 4 + bits[4] * 2 + bits[5]
WarpPlace(o) == LaneOf(o[1]) + o[2] * 32
WarpLoop(l) == {o \in Bits \X (0 .. Cdiv(l.k, 32) - 1) : WarpPlace(o) < l.k}

WarpTerm(l, row, col) ==
    <<col, Flat(row, l.k, col), IF l.swiglu THEN Flat(row + l.outputs, l.k, col) ELSE 0>>
WarpSum(l, row) == {<<o, WarpTerm(l, row, WarpPlace(o))>> : o \in WarpLoop(l)}
WarpStores(l, p) == {Store(<<p[1], p[2], row>>, row, WarpSum(l, row)) : row \in WarpRows(l, p)}

\* partial: a tile of the cache for one head; merge reads all splits.
CacheTerm(l, head, t, i) == <<Flat(Flat(head \div l.gqa, l.s, t), l.d, i)>>
KVSplits(l) == Cdiv(l.s, l.tile)
CacheSum(l, head, split, i) ==
    {<<<<t>>, CacheTerm(l, head, Flat(split, l.tile, t), i)>> :
        t \in {x \in Lanes(l.tile) : Flat(split, l.tile, x) < l.valid}}
SplitKVStores(l, p) ==
    {Store(<<p[1], p[2], i>>, Flat(Flat(p[1], KVSplits(l), p[2]), l.d, i),
           CacheSum(l, p[1], p[2], i)) : i \in Lanes(l.d)}

-----------------------------------------------------------------------------
(***************************************************************************)
(* A launch.                                                               *)
(***************************************************************************)
VARIABLES launch,      \* what is computed; constant
          left,        \* programs of the grid that have not run
          partials,    \* stores of the first grid to its workspace
          merging,     \* the second grid is running
          stored       \* stores to the output

launchVars == <<launch, left, partials, merging, stored>>

TwoGrids(l) == l.kernel = "splitkv" \/ (l.kernel = "gemv" /\ l.splits > 1)

Grid(l) ==
    CASE l.kernel = "elementwise" -> 0 .. Cdiv(l.n, l.block) - 1
      [] l.kernel = "rowwise" -> 0 .. l.rows - 1
      [] l.kernel = "tiled" -> 0 .. Cdiv(l.bucket, l.bm) * Cdiv(l.n, l.bn) - 1
      [] l.kernel = "gemv" ->
            IF TwoGrids(l) THEN (0 .. Cdiv(l.n, l.bn) - 1) \X (0 .. l.splits - 1)
            ELSE 0 .. Cdiv(l.n, l.bn) - 1
      [] l.kernel = "int4" -> 0 .. Cdiv(l.n, l.bn) - 1
      [] l.kernel = "attention" -> (0 .. Cdiv(l.sq, l.bm) - 1) \X (0 .. l.batch * l.heads - 1)
      [] l.kernel = "rope" -> 0 .. QRows(l) + KRows(l) - 1
      [] l.kernel = "warp" -> (0 .. WarpBlocks(l) - 1) \X (0 .. l.warps - 1)
      [] l.kernel = "splitkv" -> (0 .. l.kvheads * l.gqa - 1) \X (0 .. KVSplits(l) - 1)

\* What a program of the first grid stores.
Stores(l, p) ==
    CASE l.kernel = "elementwise" -> ElementwiseStores(l, p)
      [] l.kernel = "rowwise" -> RowwiseStores(l, p)
      [] l.kernel = "tiled" -> TiledStores(l, p)
      [] l.kernel = "gemv" -> IF TwoGrids(l) THEN SplitKStores(l, p) ELSE GemvStores(l, p)
      [] l.kernel = "int4" -> Int4Stores(l, p)
      [] l.kernel = "attention" -> AttentionStores(l, p)
      [] l.kernel = "rope" -> RopeStores(l, p)
      [] l.kernel = "warp" -> WarpStores(l, p)
      [] l.kernel = "splitkv" -> SplitKVStores(l, p)

\* What the workspace holds at a cell, and its sum over the cells of all splits.
Held(cell) == UNION {x.value : x \in {y \in partials : y.cell = cell}}
Gather(cells) ==
    UNION {{<<<<s, v[1]>>, v[2]>> : v \in Held(cells[s])} : s \in DOMAIN cells}

MergeGrid(l) ==
    IF l.kernel = "gemv" THEN 0 .. Cdiv(l.n, l.block) - 1 ELSE 0 .. l.kvheads * l.gqa - 1

\* reduce_splitk_kernel and merge.
MergeStores(l, p) ==
    IF l.kernel = "gemv"
    THEN {Store(<<p, i>>, Flat(p, l.block, i),
                Gather([s \in 0 .. l.splits - 1 |-> Flat(s, l.n, Flat(p, l.block, i))])) :
             i \in Own(p, l.n, l.block)}
    ELSE {Store(<<p, i>>, Flat(p, l.d, i),
                Gather([s \in 0 .. KVSplits(l) - 1 |-> Flat(Flat(p, KVSplits(l), s), l.d, i)])) :
             i \in Lanes(l.d)}

LaunchInit ==
    /\ launch \in Launches
    /\ left = Grid(launch)
    /\ partials = {} /\ merging = FALSE /\ stored = {}

\* A program of a kernel that writes its output itself.
RunProgram(p) ==
    /\ ~TwoGrids(launch) /\ p \in left
    /\ stored' = stored \cup Stores(launch, p)
    /\ left' = left \ {p}
    /\ UNCHANGED <<launch, partials, merging>>

\* A program that writes to the workspace.
RunPartial(p) ==
    /\ TwoGrids(launch) /\ ~merging /\ p \in left
    /\ partials' = partials \cup Stores(launch, p)
    /\ left' = left \ {p}
    /\ UNCHANGED <<launch, merging, stored>>

\* The second grid starts when the first has ended: both are on one stream.
LaunchMerge ==
    /\ TwoGrids(launch) /\ ~merging /\ left = {}
    /\ merging' = TRUE
    /\ left' = MergeGrid(launch)
    /\ UNCHANGED <<launch, partials, stored>>

RunMerge(p) ==
    /\ merging /\ p \in left
    /\ stored' = stored \cup MergeStores(launch, p)
    /\ left' = left \ {p}
    /\ UNCHANGED <<launch, partials, merging>>

LaunchNext ==
    \/ LaunchMerge
    \/ \E p \in left : RunProgram(p) \/ RunPartial(p) \/ RunMerge(p)

LaunchSpec == LaunchInit /\ [][LaunchNext]_launchVars

Finished == left = {} /\ (TwoGrids(launch) => merging)

-----------------------------------------------------------------------------
(***************************************************************************)
(* What PyTorch computes: the cells of the output and the terms of each.   *)
(***************************************************************************)
Output(cell, terms) == [cell |-> cell, terms |-> terms]

ElementwiseOutput(l) == {Output(x, {<<x>>}) : x \in Lanes(l.n)}

RowTerms(l, row, i) ==
    {<<Flat(row, l.n, j)>> : j \in Lanes(l.n)} \cup {Scaled(l, row, i)}
RowwiseOutput(l) ==
    {Output(Flat(o[1], l.n, o[2]), RowTerms(l, o[1], o[2])) : o \in Lanes(l.rows) \X Lanes(l.n)}
    \cup {Output(Flat(l.rows + o[1], l.n, o[2]), {<<Flat(o[1], l.n, o[2])>>}) :
             o \in IF l.residual THEN Lanes(l.rows) \X Lanes(l.n) ELSE {}}

DotTerms(l, row, col) == {Product(l, row, col, k) : k \in Lanes(l.k)}
TiledOutput(l) ==
    {Output(Flat(o[1], l.n, o[2]), DotTerms(l, o[1], o[2])) : o \in Lanes(l.m) \X Lanes(l.n)}
GemvOutput(l) == {Output(c, DotTerms(l, 0, c)) : c \in Lanes(l.n)}

\* dequantize_int4: the scale of a column is that of its group.
Int4Terms(l, row) ==
    {<<Flat(row, l.k, k), Flat(row, l.k \div l.group, k \div l.group), k>> : k \in Lanes(l.k)}
Int4Output(l) == {Output(r, Int4Terms(l, r)) : r \in Lanes(l.n)}

\* pytorch_attention, under its mask; rows beyond a sequence stay zero, as
\* allocated.
AttentionTerms(l, batch, head, query, i) ==
    {Weighs(l, head, query, key, i) :
        key \in {x \in Lanes(l.sk) : Attends(l, batch, query, x)}}
AttentionOutput(l) ==
    {Output(Flat(Flat(Flat(o[1], l.heads, o[2]), l.sq, o[3]), l.d, o[4]),
            AttentionTerms(l, o[1], Flat(o[1], l.heads, o[2]), o[3], o[4])) :
        o \in {x \in Lanes(l.batch) \X Lanes(l.heads) \X Lanes(l.sq) \X Lanes(l.d) :
                  x[3] < l.queries[x[1]]}}

\* pytorch_rope, on a tensor [B,H,S,D] behind base: the halves of each row are
\* turned by the angles of its position.
Rotated(l, base, heads) ==
    {LET start == base + Flat(Flat(o[1], heads, o[2]), l.s, o[3]) * (2 * l.half)
     IN Output(start + o[4] * l.half + o[5],
               {Rotation(start + o[5], l.half, Flat(o[3], l.half, o[5]))}) :
        o \in Lanes(l.batch) \X Lanes(heads) \X Lanes(l.s) \X {0, 1} \X Lanes(l.half)}
RopeOutput(l) == Rotated(l, 0, l.qheads) \cup Rotated(l, QRows(l) * (2 * l.half), l.kheads)

WarpTerms(l, row) == {WarpTerm(l, row, c) : c \in Lanes(l.k)}
WarpOutput(l) == {Output(r, WarpTerms(l, r)) : r \in Lanes(l.outputs)}

\* scaled_dot_product_attention over the valid part of the cache.
CacheTerms(l, head, i) == {CacheTerm(l, head, t, i) : t \in Lanes(l.valid)}
SplitKVOutput(l) ==
    {Output(Flat(o[1], l.d, o[2]), CacheTerms(l, o[1], o[2])) :
        o \in Lanes(l.kvheads * l.gqa) \X Lanes(l.d)}

Reference(l) ==
    CASE l.kernel = "elementwise" -> ElementwiseOutput(l)
      [] l.kernel = "rowwise" -> RowwiseOutput(l)
      [] l.kernel = "tiled" -> TiledOutput(l)
      [] l.kernel = "gemv" -> GemvOutput(l)
      [] l.kernel = "int4" -> Int4Output(l)
      [] l.kernel = "attention" -> AttentionOutput(l)
      [] l.kernel = "rope" -> RopeOutput(l)
      [] l.kernel = "warp" -> WarpOutput(l)
      [] l.kernel = "splitkv" -> SplitKVOutput(l)

\* Each of the terms was added, once, and nothing else.
SumOf(value, terms) ==
    /\ {v[2] : v \in value} = terms
    /\ \A u, v \in value : u[2] = v[2] => u = v

\* In whatever order the programs of a launch run: nothing but the output is
\* written, no cell by two of them, each with the terms PyTorch would sum, once
\* each, and when all have run no cell is left unwritten. Sizes need not be
\* multiples of blocks, groups or splits (the kernels and launchers of
\* learning/01 to 10 and llama_rmsnorm.py).
LaunchIsExact ==
    /\ \A s \in stored : \E r \in Reference(launch) :
          s.cell = r.cell /\ SumOf(s.value, r.terms)
    /\ \A s, t \in stored : s.cell = t.cell => s = t
    /\ Finished => \A r \in Reference(launch) : \E s \in stored : s.cell = r.cell
=============================================================================
