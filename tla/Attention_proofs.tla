--------------------------- MODULE Attention_proofs ---------------------------
(***************************************************************************)
(* Proofs about what attention reads: the tensors hold what write() stored *)
(* there, and every path of every executor that can be built finds each of *)
(* a request's tokens once, for every number of heads, tile and width.     *)
(***************************************************************************)
EXTENDS PagedAttention, PagedKV_proofs, FiniteSetTheorems

-----------------------------------------------------------------------------
\* What the tensors hold.

\* A stored position is a reserved one, and its cell holds its token; blocks
\* that were never stored to, or whose owner is gone, hold anything.
StoredInv ==
    /\ written \in [Requests -> SUBSET Nat]
    /\ DOMAIN cells = Blocks \X Offsets
    /\ \A r \in Requests : \A p \in written[r] : p < len[r] /\ cells[Slot(table[r], p)] = <<r, p>>

ExecutorInv == executor.tile \in Nat \ {0}

AttentionInv == KVInv /\ StoredInv /\ ExecutorInv

\* A reserved position has a cell.
LEMMA PositionHasCell ==
    ASSUME KVInv, NEW r \in Requests, NEW p \in Nat, p < len[r]
    PROVE  /\ p \div BlockSize \in Nat
           /\ p \div BlockSize + 1 \in 1 .. Len(table[r])
           /\ DOMAIN table[r] = 1 .. Len(table[r])
           /\ table[r][p \div BlockSize + 1] \in Blocks
           /\ Slot(table[r], p) \in Blocks \X Offsets
<1>1. table[r] \in Seq(Blocks) /\ len[r] \in Nat /\ Len(table[r]) = BlocksForTokens(len[r])
  BY DEF KVInv, KVTypeOK, TableFitsLength
<1>2. p \in 0 .. len[r] - 1
  BY <1>1
<1>3. p \div BlockSize + 1 \in 1 .. Len(table[r]) /\ p % BlockSize \in 0 .. BlockSize - 1
  BY <1>1, <1>2, PositionInTable
<1>4. p \div BlockSize \in Nat
  BY <1>3, PoolTypes, DivMod
<1>5. table[r][p \div BlockSize + 1] \in Blocks /\ DOMAIN table[r] = 1 .. Len(table[r])
  BY <1>1, <1>3
<1>6. QED
  BY <1>3, <1>4, <1>5 DEF Slot, Offsets

\* Nothing stored is lost while table and length of its request stand.
LEMMA StoredFrame ==
    ASSUME StoredInv, UNCHANGED <<cells, written>>,
           \A r \in Requests : \A p \in written[r] :
               p < len'[r] /\ Slot(table'[r], p) = Slot(table[r], p)
    PROVE  StoredInv'
BY DEF StoredInv, Slot, Offsets, Blocks

\* write() changes the cells of its own positions only, because no other
\* position shares one.
LEMMA WriteKeepsStored ==
    ASSUME KVInv, StoredInv, NEW r \in Requests, NEW first \in Nat, NEW last \in Nat,
           Write(r, first, last)
    PROVE  StoredInv'
<1> DEFINE stored == {p \in first .. last : p < len[r]}
<1>0. /\ cells' = [c \in DOMAIN cells |->
                     IF \E p \in stored : Slot(table[r], p) = c
                     THEN <<r, CHOOSE p \in stored : Slot(table[r], p) = c>>
                     ELSE cells[c]]
      /\ written' = [written EXCEPT ![r] = @ \cup stored]
      /\ UNCHANGED <<live, free, table, len>>
  BY DEF Write, kvVars
<1>1. NoSlotAliasing
  BY NoAliasing
<1>2. /\ \A q \in Requests : len[q] \in Nat
      /\ stored \in SUBSET Nat
      /\ \A p \in stored : p < len[r]
  BY DEF KVInv, KVTypeOK
<1> HIDE DEF stored
<1>3. written' \in [Requests -> SUBSET Nat] /\ DOMAIN cells' = Blocks \X Offsets
  BY <1>0, <1>2 DEF StoredInv
<1>4. ASSUME NEW q \in Requests, NEW p \in written'[q]
      PROVE  p < len'[q] /\ cells'[Slot(table'[q], p)] = <<q, p>>
  <2>1. p \in Nat /\ (p \in written[q] \/ (q = r /\ p \in stored))
    BY <1>0, <1>2, <1>3, <1>4 DEF StoredInv
  <2>2. p < len[q]
    BY <1>2, <2>1 DEF StoredInv
  <2> DEFINE c == Slot(table[q], p)
  <2>3. c \in DOMAIN cells
    BY <2>1, <2>2, PositionHasCell DEF StoredInv
  <2>4. ASSUME NEW s \in stored, Slot(table[r], s) = c PROVE q = r /\ s = p
    <3>1. s \in 0 .. len[r] - 1 /\ p \in 0 .. len[q] - 1
      BY <1>2, <2>1, <2>2
    <3>2. QED
      BY <1>1, <2>4, <3>1 DEF NoSlotAliasing
  <2>5. CASE \E s \in stored : Slot(table[r], s) = c
    <3> DEFINE s == CHOOSE x \in stored : Slot(table[r], x) = c
    <3>1. s \in stored /\ Slot(table[r], s) = c
      BY <2>5
    <3>2. cells'[c] = <<r, s>>
      BY <1>0, <2>3, <2>5
    <3> HIDE DEF s, c
    <3>3. cells'[c] = <<q, p>>
      BY <2>4, <3>1, <3>2
    <3>4. QED
      BY <1>0, <2>2, <3>3 DEF c
  <2>6. CASE ~\E s \in stored : Slot(table[r], s) = c
    <3>1. cells'[c] = cells[c]
      BY <1>0, <2>3, <2>6
    <3>2. p \in written[q]
      BY <2>1, <2>6
    <3>3. QED
      BY <1>0, <2>2, <3>1, <3>2 DEF StoredInv
  <2>7. QED
    BY <2>5, <2>6
<1>5. QED
  BY <1>3, <1>4 DEF StoredInv, Offsets, Blocks

\* Whoever owned a block before, what a live request stored stays its own.
LEMMA StorageNextInv == KVInv /\ StoredInv /\ [StorageNext]_storageVars => KVInv' /\ StoredInv'
<1> SUFFICES ASSUME KVInv, StoredInv, [StorageNext]_storageVars PROVE KVInv' /\ StoredInv'
  OBVIOUS
<1>1. CASE UNCHANGED storageVars
  <2>1. UNCHANGED kvVars /\ UNCHANGED <<cells, written>>
    BY <1>1 DEF storageVars
  <2>2. KVInv'
    BY <2>1, KVNextInv
  <2>3. StoredInv'
    BY <2>1, StoredFrame DEF kvVars, StoredInv
  <2>4. QED
    BY <2>2, <2>3
<1>2. ASSUME NEW r \in Requests, Create(r) \/ (\E n \in 1 .. BlockSize + 1 : AppendSlots(r, n)),
             UNCHANGED <<cells, written>>
      PROVE  KVInv' /\ StoredInv'
  <2>1. KVInv'
    BY <1>2, CreateInv, AppendSlotsInv, PoolTypes
  <2>2. ASSUME NEW q \in Requests, NEW p \in written[q]
        PROVE  p < len'[q] /\ Slot(table'[q], p) = Slot(table[q], p)
    <3>1. p \in Nat /\ p < len[q] /\ len[q] \in Nat /\ len'[q] \in Nat
      BY <2>1, <2>2 DEF StoredInv, KVInv, KVTypeOK
    <3>2. CASE Create(r)
      BY <3>1, <3>2 DEF Create, Slot
    <3>3. ASSUME NEW n \in 1 .. BlockSize + 1, AppendSlots(r, n)
          PROVE  p < len'[q] /\ Slot(table'[q], p) = Slot(table[q], p)
      <4>1. CASE UNCHANGED kvVars
        BY <3>1, <4>1 DEF kvVars, Slot
      <4>2. CASE r \in live /\ Reserve(r, n)
        <5>1. q \in live \cap live'
          BY <3>1, <4>2 DEF Reserve, KVInv, TableFitsLength
        <5>2. p \in 0 .. len[q] - 1
          BY <3>1
        <5>3. n \in Nat
          BY PoolTypes
        <5>4. PICK s \in [1 .. Additional(r, n) -> free] :
                  table' = [table EXCEPT ![r] = @ \o s] /\ len' = [len EXCEPT ![r] = @ + n]
          BY <4>2 DEF Reserve
        <5>5. CASE q # r
          BY <3>1, <5>4, <5>5 DEF Slot, KVInv, KVTypeOK
        <5>6. CASE q = r
          <6>1. s \in Seq(Blocks) /\ table[r] \in Seq(Blocks)
            BY <4>2, <5>3, <5>4, ReserveEffect DEF KVInv, KVTypeOK
          <6>2. table'[r] = table[r] \o s /\ len'[r] = len[r] + n
            BY <5>4 DEF KVInv, KVTypeOK
          <6>3. p \div BlockSize + 1 \in 1 .. Len(table[r])
            BY <3>1, <5>6, PositionHasCell
          <6>4. table'[r][p \div BlockSize + 1] = table[r][p \div BlockSize + 1]
            BY <6>1, <6>2, <6>3
          <6>5. QED
            BY <3>1, <5>3, <5>6, <6>2, <6>4 DEF Slot
        <5>7. QED
          BY <5>5, <5>6
      <4>3. QED
        BY <3>3, <4>1, <4>2 DEF AppendSlots
    <3>4. QED
      BY <1>2, <3>2, <3>3
  <2>3. StoredInv'
    BY <1>2, <2>2, StoredFrame
  <2>4. QED
    BY <2>1, <2>3
<1>3. ASSUME NEW r \in Requests, NEW first \in 0 .. CapacityTokens - 1, NEW n \in 0 .. BlockSize,
             Write(r, first, first + n)
      PROVE  KVInv' /\ StoredInv'
  <2>1. first \in Nat /\ first + n \in Nat
    BY PoolTypes DEF CapacityTokens
  <2>2. KVInv'
    BY <1>3, KVNextInv DEF Write
  <2>3. QED
    BY <1>3, <2>1, <2>2, WriteKeepsStored
<1>4. ASSUME NEW r \in Requests, r \in live, Release(r), UNCHANGED cells,
             written' = [written EXCEPT ![r] = {}]
      PROVE  KVInv' /\ StoredInv'
  <2>1. KVInv'
    BY <1>4, ReleaseInv
  <2>2. table' = [table EXCEPT ![r] = <<>>] /\ len' = [len EXCEPT ![r] = 0]
    BY <1>4 DEF Release
  <2>3. written' \in [Requests -> SUBSET Nat] /\ written'[r] = {}
    BY <1>4 DEF StoredInv
  <2>4. ASSUME NEW q \in Requests, NEW p \in written'[q]
        PROVE  p < len'[q] /\ cells'[Slot(table'[q], p)] = <<q, p>>
    <3>1. q # r /\ p \in written[q]
      BY <1>4, <2>3, <2>4 DEF StoredInv
    <3>2. table'[q] = table[q] /\ len'[q] = len[q]
      BY <2>2, <3>1 DEF KVInv, KVTypeOK
    <3>3. QED
      BY <1>4, <3>1, <3>2 DEF StoredInv, Slot
  <2>5. StoredInv'
    BY <1>4, <2>3, <2>4 DEF StoredInv, Offsets, Blocks
  <2>6. QED
    BY <2>1, <2>5
<1>5. QED
  BY <1>1, <1>2, <1>3, <1>4 DEF StorageNext

\* Whatever a calibration file says, the tile of an executor is a valid one.
LEMMA ExecutorsHaveTiles ==
    ASSUME NEW d, NEW ex \in NewExecutor(d, BlockSize)
    PROVE  ex.tile \in Nat \ {0}
<1>1. ASSUME NEW s, ex \in FromSettings(s) PROVE ex.tile \in Tiles
  BY <1>1 DEF FromSettings
<1>2. ASSUME NEW p \in SelectPolicy(d.matched, d.rows), ex \in FromPolicy(p, BlockSize)
      PROVE  ex.tile \in Tiles
  <2>1. p.tile \in Tiles
    BY KernelAssumption DEF SelectPolicy, Fallback, ValidRow
  <2>2. ex.tile = p.tile
    BY <1>2 DEF FromPolicy
  <2>3. QED
    BY <2>1, <2>2
<1>3. ex.tile \in Tiles
  BY <1>1, <1>2 DEF NewExecutor
<1>4. QED
  BY <1>3, KernelAssumption

\* The pool, the stored cells and the tiles, in every reachable state.
LEMMA AttentionInvariant == AttentionSpec => []AttentionInv
<1>1. AttentionInit => AttentionInv
  <2> SUFFICES ASSUME AttentionInit PROVE AttentionInv
    OBVIOUS
  <2>1. KVInv
    BY KVInitInv DEF AttentionInit, StorageInit
  <2>2. StoredInv
    BY DEF AttentionInit, StorageInit, StoredInv
  <2>3. ExecutorInv
    BY ExecutorsHaveTiles DEF AttentionInit, ExecutorInv
  <2>4. QED
    BY <2>1, <2>2, <2>3 DEF AttentionInv
<1>2. AttentionInv /\ [StorageNext /\ UNCHANGED executor]_<<storageVars, executor>>
        => AttentionInv'
  <2> SUFFICES ASSUME AttentionInv, [StorageNext /\ UNCHANGED executor]_<<storageVars, executor>>
               PROVE  AttentionInv'
    OBVIOUS
  <2>1. [StorageNext]_storageVars /\ UNCHANGED executor
    OBVIOUS
  <2>2. KVInv' /\ StoredInv'
    BY <2>1, StorageNextInv DEF AttentionInv
  <2>3. ExecutorInv'
    BY <2>1 DEF AttentionInv, ExecutorInv
  <2>4. QED
    BY <2>2, <2>3 DEF AttentionInv
<1>3. QED
  BY <1>1, <1>2, PTL DEF AttentionSpec
-----------------------------------------------------------------------------
\* Addresses.

\* Quotient and remainder of an address put together from them.
LEMMA Address ==
    ASSUME NEW b \in Nat \ {0}, NEW q \in Int, NEW t \in 0 .. b - 1
    PROVE  (q * b + t) \div b = q /\ (q * b + t) % b = t
<1> DEFINE a == q * b + t
<1>0. a \in Int /\ q * b = b * q
  OBVIOUS
<1>1. /\ a \div b \in Int
      /\ a % b \in 0 .. b - 1
      /\ a = b * (a \div b) + (a % b)
  BY <1>0, DivMod
<1>2. a = b * q + t
  BY <1>0
<1> HIDE DEF a
<1>3. b * q < b * (a \div b) + b /\ b * (a \div b) < b * q + b
  BY <1>1, <1>2
<1>4. q <= a \div b /\ a \div b <= q
  BY <1>1, <1>3, CancelFactor
<1>5. a \div b = q
  <2>1. \A x, y \in Int : x <= y /\ y <= x => y = x
    OBVIOUS
  <2>2. QED
    BY <1>1, <1>4, <2>1
<1>6. a % b = t
  BY <1>1, <1>2, <1>5
<1>7. QED
  BY <1>5, <1>6 DEF a

\* The divisor divides again what ceil counts.
LEMMA CdivCovers ==
    ASSUME NEW a \in Nat, NEW b \in Nat \ {0}
    PROVE  Cdiv(a, b) \in Nat /\ a <= b * Cdiv(a, b)
<1> DEFINE c == a + b - 1
<1>0. c \in Int /\ a <= c - b + 1
  OBVIOUS
<1> HIDE DEF c
<1>1. /\ c \div b \in Int
      /\ c % b \in 0 .. b - 1
      /\ c = b * (c \div b) + (c % b)
  BY <1>0, DivMod
<1>2. a <= b * (c \div b)
  BY <1>0, <1>1
<1>3. b * 0 < b * (c \div b) + b
  BY <1>1, <1>2
<1>4. 0 <= c \div b
  BY <1>1, <1>3, CancelFactor
<1>5. QED
  BY <1>1, <1>2, <1>4 DEF Cdiv, c

\* Reads of a K/V head that find the first n tokens of a request, once each.
OwnOnce(reads, n, k, r) ==
    /\ Cardinality(reads) = n
    /\ {x[2] : x \in reads} = {<<k, <<r, p>>>> : p \in 0 .. n - 1}

\* What is read in one place for each position is read once.
LEMMA OnceEach ==
    ASSUME NEW n \in Nat, NEW f, NEW k, NEW r, NEW reads,
           reads = {f[p] : p \in 0 .. n - 1},
           \A p \in 0 .. n - 1 : f[p][2] = <<k, <<r, p>>>>
    PROVE  OwnOnce(reads, n, k, r)
<1> DEFINE g == [p \in 0 .. n - 1 |-> f[p]]
<1>1. {x[2] : x \in reads} = {<<k, <<r, p>>>> : p \in 0 .. n - 1}
  OBVIOUS
<1>2. ASSUME NEW p \in 0 .. n - 1, NEW q \in 0 .. n - 1, f[p] = f[q] PROVE p = q
  <2>1. <<k, <<r, p>>>> = <<k, <<r, q>>>>
    BY <1>2
  <2>2. QED
    BY <2>1
<1>3. g \in Bijection(0 .. n - 1, reads)
  BY <1>2 DEF Bijection, Injection, Surjection, IsInjective
<1>4. ExistsBijection(0 .. n - 1, reads)
  BY <1>3 DEF ExistsBijection
<1>5. IsFiniteSet(0 .. n - 1) /\ Cardinality(0 .. n - 1) = n
  BY FS_Interval
<1>6. Cardinality(reads) = n
  BY <1>4, <1>5, FS_Bijection
<1>7. QED
  BY <1>1, <1>6 DEF OwnOnce

-----------------------------------------------------------------------------
\* A batch and its metadata.

\* The greatest of one or two numbers is among them.
LEMMA GreatestOfTwo ==
    ASSUME NEW a \in Nat, NEW b \in Nat
    PROVE  \E m \in {a, b} : a <= m /\ b <= m
OBVIOUS

\* Every batch has one or two rows of requests with all their tokens stored.
LEMMA BatchRows ==
    ASSUME AttentionInv, NEW batch \in Batches
    PROVE  /\ Len(batch) \in {1, 2}
           /\ DOMAIN batch = 1 .. Len(batch)
           /\ \A i \in DOMAIN batch :
                 /\ batch[i] \in Requests
                 /\ len[batch[i]] \in Nat \ {0}
                 /\ written[batch[i]] = 0 .. len[batch[i]] - 1
                 /\ Len(table[batch[i]]) \in Nat \ {0}
                 /\ len[batch[i]] <= Len(table[batch[i]]) * BlockSize
<1>1. ASSUME NEW r \in Ready
      PROVE  /\ r \in Requests
             /\ len[r] \in Nat \ {0}
             /\ written[r] = 0 .. len[r] - 1
             /\ Len(table[r]) \in Nat \ {0}
             /\ len[r] <= Len(table[r]) * BlockSize
  <2>1. r \in Requests /\ len[r] \in Nat \ {0} /\ written[r] = 0 .. len[r] - 1
    BY DEF Ready, AttentionInv, KVInv, KVTypeOK
  <2>2. Len(table[r]) = Cdiv(len[r], BlockSize)
    BY <2>1 DEF AttentionInv, KVInv, TableFitsLength, BlocksForTokens, Cdiv
  <2>3. Len(table[r]) \in Nat /\ len[r] <= BlockSize * Len(table[r])
    BY <2>1, <2>2, CdivCovers, PoolTypes
  <2>4. Len(table[r]) # 0
    BY <2>1, <2>3, PoolTypes
  <2>5. BlockSize * Len(table[r]) = Len(table[r]) * BlockSize
    BY <2>3, PoolTypes
  <2>6. QED
    BY <2>1, <2>3, <2>4, <2>5
<1>2. CASE batch \in {<<r>> : r \in Ready}
  <2>1. PICK r \in Ready : batch = <<r>>
    BY <1>2
  <2>2. Len(batch) = 1 /\ DOMAIN batch = 1 .. 1 /\ batch[1] = r
    BY <2>1
  <2>3. QED
    BY <1>1, <2>2
<1>3. CASE batch \in Ready \X Ready
  <2>1. PICK r \in Ready, q \in Ready : batch = <<r, q>>
    BY <1>3
  <2>2. Len(batch) = 2 /\ DOMAIN batch = 1 .. 2 /\ batch[1] = r /\ batch[2] = q
    BY <2>1
  <2>3. ASSUME NEW i \in DOMAIN batch PROVE batch[i] \in Ready
    BY <2>2, <2>3
  <2>4. QED
    BY <1>1, <2>2, <2>3
<1>4. QED
  BY <1>2, <1>3 DEF Batches

\* The longest request of a batch, and a table width that metadata() accepts.
LEMMA BatchBounds ==
    ASSUME AttentionInv, NEW batch \in Batches,
           NEW width \in UsedWidth({batch[i] : i \in DOMAIN batch}) .. NumBlocks
    PROVE  /\ width \in Nat \ {0}
           /\ \A i \in DOMAIN batch : Len(table[batch[i]]) <= width
           /\ Maximum(batch) \in Nat
           /\ Maximum(batch) <= Capacity(width)
           /\ \A i \in DOMAIN batch : len[batch[i]] <= Maximum(batch)
<1> DEFINE ids == {batch[i] : i \in DOMAIN batch}
           lens == {len[batch[i]] : i \in DOMAIN batch}
           widths == {Len(table[r]) : r \in ids}
<1>0. /\ DOMAIN batch \in {1 .. 1, 1 .. 2}
      /\ \A i \in DOMAIN batch :
            /\ len[batch[i]] \in Nat \ {0}
            /\ Len(table[batch[i]]) \in Nat \ {0}
            /\ len[batch[i]] <= Len(table[batch[i]]) * BlockSize
  BY BatchRows
<1>1. \E m \in lens : \A i \in DOMAIN batch : len[batch[i]] <= m
  <2>1. CASE DOMAIN batch = 1 .. 1
    BY <1>0, <2>1
  <2>2. CASE DOMAIN batch = 1 .. 2
    <3>1. lens = {len[batch[1]], len[batch[2]]}
      BY <2>2
    <3>2. QED
      BY <1>0, <2>2, <3>1, GreatestOfTwo
  <2>3. QED
    BY <1>0, <2>1, <2>2
<1>2. \E w \in widths : \A r \in ids : Len(table[r]) <= w
  <2>1. CASE DOMAIN batch = 1 .. 1
    BY <1>0, <2>1
  <2>2. CASE DOMAIN batch = 1 .. 2
    <3>1. ids = {batch[1], batch[2]}
      BY <2>2
    <3>2. widths = {Len(table[batch[1]]), Len(table[batch[2]])}
      BY <3>1
    <3>3. \E w \in widths : Len(table[batch[1]]) <= w /\ Len(table[batch[2]]) <= w
      BY SMTT(30), <1>0, <2>2, <3>2, GreatestOfTwo
    <3>4. QED
      BY <3>1, <3>3
  <2>3. QED
    BY <1>0, <2>1, <2>2
<1>3. Maximum(batch) \in lens /\ \A i \in DOMAIN batch : len[batch[i]] <= Maximum(batch)
  BY <1>1 DEF Maximum
<1>4. UsedWidth(ids) \in widths /\ \A r \in ids : Len(table[r]) <= UsedWidth(ids)
  <2>1. ids # {}
    BY <1>0
  <2>2. QED
    BY <1>2, <2>1 DEF UsedWidth
<1>5. UsedWidth(ids) \in Nat \ {0}
  BY <1>0, <1>4
<1>6. width \in Nat \ {0} /\ UsedWidth(ids) <= width
  BY <1>5, PoolTypes
<1>7. ASSUME NEW i \in DOMAIN batch
      PROVE  Len(table[batch[i]]) <= width /\ len[batch[i]] <= Capacity(width)
  <2>1. Len(table[batch[i]]) <= width
    BY <1>0, <1>4, <1>5, <1>6
  <2>2. Len(table[batch[i]]) * BlockSize <= width * BlockSize
    BY <1>0, <1>6, <2>1, PoolTypes
  <2>3. QED
    BY <1>0, <1>6, <2>1, <2>2, PoolTypes DEF Capacity
<1>8. QED
  BY <1>0, <1>3, <1>6, <1>7

\* Through the row of the block table, a position's address finds its token.
LEMMA PositionIsFound ==
    ASSUME AttentionInv, NEW batch \in Batches,
           NEW width \in UsedWidth({batch[i] : i \in DOMAIN batch}) .. NumBlocks,
           NEW row \in 0 .. Len(batch) - 1,
           NEW p \in 0 .. len[batch[row + 1]] - 1, NEW k
    PROVE  Load(TableEntry(batch, width, row * width + p \div BlockSize), p % BlockSize, k)
               = <<k, <<batch[row + 1], p>>>>
<1> DEFINE r == batch[row + 1]
           q == p \div BlockSize
<1>1. /\ row \in Nat /\ row + 1 \in DOMAIN batch
      /\ r \in Requests /\ len[r] \in Nat \ {0} /\ written[r] = 0 .. len[r] - 1
      /\ Len(table[r]) \in Nat
  BY BatchRows
<1>2. width \in Nat \ {0} /\ Len(table[r]) <= width
  BY <1>1, BatchBounds
<1>3. p \in Nat /\ p < len[r] /\ p \in written[r]
  BY <1>1
<1>4. /\ q \in Nat /\ q + 1 \in 1 .. Len(table[r]) /\ DOMAIN table[r] = 1 .. Len(table[r])
      /\ table[r][q + 1] \in Blocks
  BY <1>1, <1>3, PositionHasCell DEF AttentionInv
<1> HIDE DEF q
<1>5. q \in 0 .. width - 1
  BY <1>1, <1>2, <1>4
<1>6. (row * width + q) \div width = row /\ (row * width + q) % width = q
  <2>1. row \in Int
    BY <1>1
  <2>2. QED
    BY <1>2, <1>5, <2>1, Address, Zenon
<1>7. TableEntry(batch, width, row * width + q) = table[r][q + 1]
  BY <1>1, <1>4, <1>6 DEF TableEntry
<1>8. cells[<<table[r][q + 1], p % BlockSize>>] = <<r, p>>
  BY <1>1, <1>3 DEF AttentionInv, StoredInv, Slot, q
<1>9. QED
  BY <1>4, <1>7, <1>8 DEF Load, q

-----------------------------------------------------------------------------
\* The three paths.

\* What AttentionReadsOwnTokens asks of one row and head.
ReadsOwn(reads, r, head) == OwnOnce(reads, len[r], head \div GroupSize, r)

\* The lanes of all splits, cut at the length, are the positions.
LEMMA DirectReadsOwn ==
    ASSUME AttentionInv, NEW batch \in Batches,
           NEW width \in UsedWidth({batch[i] : i \in DOMAIN batch}) .. NumBlocks,
           NEW row \in 0 .. Len(batch) - 1, NEW head
    PROVE  ReadsOwn(DirectReads(batch, width, row, head), batch[row + 1], head)
<1> DEFINE r == batch[row + 1]
           k == head \div GroupSize
           tile == executor.tile
           splits == Cdiv(Capacity(width), tile)
           lane(p) == <<p \div tile, p % tile>>
           f == [p \in 0 .. len[r] - 1 |-> <<lane(p), <<k, <<r, p>>>>>>]
<1>1. tile \in Nat \ {0}
  BY DEF AttentionInv, ExecutorInv
<1>2. row + 1 \in DOMAIN batch /\ len[r] \in Nat /\ LengthOf(batch, row) = len[r]
  BY BatchRows DEF LengthOf
<1>3. width \in Nat /\ len[r] <= Capacity(width) /\ Capacity(width) \in Nat
  BY <1>2, BatchBounds, PoolTypes DEF Capacity
<1>4. splits \in Nat /\ Capacity(width) <= tile * splits
  BY <1>1, <1>3, CdivCovers
<1> DEFINE lanes == {x \in (0 .. splits - 1) \X (0 .. tile - 1) : x[1] * tile + x[2] < len[r]}
           read(x) == LET token == x[1] * tile + x[2]
                          physical == TableEntry(batch, width, row * width + token \div BlockSize)
                      IN <<x, Load(physical, token % BlockSize, k)>>
<1>5. DirectReads(batch, width, row, head) = {read(x) : x \in lanes}
  BY <1>2 DEF DirectReads
<1> HIDE DEF tile, splits, k
<1>6. ASSUME NEW x \in lanes
      PROVE  x[1] * tile + x[2] \in 0 .. len[r] - 1 /\ lane(x[1] * tile + x[2]) = x
  <2>1. PICK s \in 0 .. splits - 1, t \in 0 .. tile - 1 : x = <<s, t>>
    OBVIOUS
  <2>2. s * tile \in Nat
    BY <1>1, <1>4
  <2>3. s * tile + t \in 0 .. len[r] - 1
    BY <1>1, <1>2, <2>1, <2>2
  <2>4. (s * tile + t) \div tile = s /\ (s * tile + t) % tile = t
    <3>1. s \in Int
      BY <1>4
    <3>2. QED
      BY <1>1, <3>1, Address, Zenon
  <2>5. QED
    BY <2>1, <2>3, <2>4
<1>7. ASSUME NEW p \in 0 .. len[r] - 1
      PROVE  lane(p) \in lanes /\ lane(p)[1] * tile + lane(p)[2] = p
  <2> DEFINE s == p \div tile
             t == p % tile
  <2>0. p \in Int
    OBVIOUS
  <2>1. s \in Int /\ t \in 0 .. tile - 1 /\ p = tile * s + t
    BY <1>1, <2>0, DivMod
  <2> HIDE DEF s, t
  <2>2. s * tile = tile * s /\ tile * s \in Int
    BY <1>1, <2>1
  <2>3. tile * 0 < tile * s + tile
    BY <1>1, <2>1, <2>2
  <2>4. 0 <= s
    BY <1>1, <2>1, <2>3, CancelFactor
  <2>5. tile * (s + 1) = tile * s + tile /\ tile * (s + 1) \in Int /\ tile * splits \in Int
    BY <1>1, <1>4, <2>1
  <2>6. tile * (s + 1) < tile * splits + tile
    BY SMTT(30), <1>1, <1>2, <1>3, <1>4, <2>1, <2>2, <2>5
  <2>7. s + 1 <= splits
    BY <1>1, <1>4, <2>1, <2>6, CancelFactor
  <2>8. <<s, t>> \in lanes
    <3>1. s \in 0 .. splits - 1
      BY <1>4, <2>1, <2>4, <2>7
    <3>2. s * tile + t < len[r]
      BY <1>2, <2>1, <2>2
    <3>3. QED
      BY <2>1, <3>1, <3>2
  <2>9. QED
    BY <2>1, <2>2, <2>8 DEF s, t
<1>8. ASSUME NEW p \in 0 .. len[r] - 1
      PROVE  read(lane(p)) = f[p]
  <2>1. lane(p)[1] * tile + lane(p)[2] = p
    BY <1>7
  <2>2. Load(TableEntry(batch, width, row * width + p \div BlockSize), p % BlockSize, k)
            = <<k, <<r, p>>>>
    BY PositionIsFound
  <2>3. QED
    BY <2>1, <2>2
<1> HIDE DEF f, lane, lanes, read
<1>9. {read(x) : x \in lanes} = {f[p] : p \in 0 .. len[r] - 1}
  BY <1>6, <1>7, <1>8
<1>10. DOMAIN f = 0 .. len[r] - 1 /\ \A p \in 0 .. len[r] - 1 : f[p][2] = <<k, <<r, p>>>>
  BY DEF f
<1>11. DirectReads(batch, width, row, head) = {f[p] : p \in 0 .. len[r] - 1}
  BY <1>5, <1>9
<1>12. OwnOnce(DirectReads(batch, width, row, head), len[r], k, r)
  BY <1>2, <1>10, <1>11, OnceEach
<1>13. QED
  BY <1>12 DEF ReadsOwn, k

\* Beyond a request's length the mask hides what padding weighs.
LEMMA WeighedPositions ==
    ASSUME AttentionInv, NEW batch \in Batches,
           NEW width \in UsedWidth({batch[i] : i \in DOMAIN batch}) .. NumBlocks,
           NEW row \in 0 .. Len(batch) - 1
    PROVE  Weighed(batch, row) = 0 .. len[batch[row + 1]] - 1
<1>1. row + 1 \in DOMAIN batch /\ len[batch[row + 1]] \in Nat
  BY BatchRows
<1>2. Maximum(batch) \in Nat /\ len[batch[row + 1]] <= Maximum(batch)
  BY <1>1, BatchBounds
<1>3. QED
  BY <1>1, <1>2 DEF Weighed, LengthOf

\* Heads come in groups of the same size.
LEMMA HeadGroups ==
    /\ Heads \in Nat \ {0} /\ KVHeads \in Nat \ {0} /\ GroupSize \in Nat \ {0}
    /\ Heads = KVHeads * GroupSize
<1>1. Heads \in Nat \ {0} /\ KVHeads \in Nat \ {0} /\ Heads % KVHeads = 0
  BY HeadsAssumption
<1>2. Heads \div KVHeads \in Int /\ Heads = KVHeads * (Heads \div KVHeads) + (Heads % KVHeads)
  BY <1>1, DivMod
<1>3. Heads = KVHeads * GroupSize /\ GroupSize \in Int
  BY <1>1, <1>2 DEF GroupSize
<1>4. KVHeads * GroupSize \in Int /\ 0 < KVHeads * GroupSize
  BY <1>1, <1>3
<1>5. KVHeads * 1 = KVHeads
  BY <1>1
<1>6. KVHeads * 1 < KVHeads * GroupSize + KVHeads
  BY <1>1, <1>4, <1>5
<1>7. 1 <= GroupSize
  BY <1>1, <1>3, <1>6, CancelFactor
<1>8. QED
  BY <1>1, <1>3, <1>7

\* Where the gather puts the head that a view of the workspace reads.
LEMMA ViewedHead ==
    ASSUME WorkspaceHeads = ProgramHeads, NEW head \in 0 .. Heads - 1, NEW row \in Nat
    PROVE  LET view == IF executor.native THEN head \div GroupSize ELSE head
               bh == row * WorkspaceHeads + view
           IN  /\ bh \in Nat
               /\ bh \div ProgramHeads = row
               /\ (bh % ProgramHeads) \div (ProgramHeads \div KVHeads) = head \div GroupSize
<1> DEFINE view == IF executor.native THEN head \div GroupSize ELSE head
           bh == row * ProgramHeads + view
<1>1. /\ Heads \in Nat \ {0} /\ KVHeads \in Nat \ {0} /\ GroupSize \in Nat \ {0}
      /\ Heads = KVHeads * GroupSize
  BY HeadGroups
<1>2. head \in Int /\ head \div GroupSize \in Int
      /\ head % GroupSize \in 0 .. GroupSize - 1
      /\ head = GroupSize * (head \div GroupSize) + (head % GroupSize)
  BY <1>1, DivMod
<1>3. head \div GroupSize \in 0 .. KVHeads - 1
  <2> DEFINE q == head \div GroupSize
  <2>1. q \in Int /\ GroupSize * q <= head /\ head < GroupSize * q + GroupSize
    BY <1>1, <1>2
  <2> HIDE DEF q
  <2>2. GroupSize * 0 < GroupSize * q + GroupSize
    BY <1>1, <1>2, <2>1
  <2>3. GroupSize * (q + 1) = GroupSize * q + GroupSize /\ KVHeads * GroupSize = GroupSize * KVHeads
    BY <1>1, <2>1
  <2>4. GroupSize * (q + 1) < GroupSize * KVHeads + GroupSize
    BY <1>1, <2>1, <2>3
  <2>5. 0 <= q /\ q + 1 <= KVHeads
    BY <1>1, <2>1, <2>2, <2>4, CancelFactor
  <2>6. QED
    BY <1>1, <2>1, <2>5 DEF q
<1>4. /\ ProgramHeads \in Nat \ {0}
      /\ view \in 0 .. ProgramHeads - 1
      /\ view \div (ProgramHeads \div KVHeads) = head \div GroupSize
  <2>1. CASE executor.native
    <3>1. ProgramHeads = KVHeads /\ view = head \div GroupSize
      BY <2>1 DEF ProgramHeads
    <3>2. KVHeads \div KVHeads = 1
      <4>1. (1 * KVHeads + 0) \div KVHeads = 1
        BY <1>1, Address
      <4>2. QED
        BY <1>1, <4>1
    <3>3. \A x \in Int : x \div 1 = x
      OBVIOUS
    <3>4. QED
      BY <1>1, <1>2, <1>3, <3>1, <3>2, <3>3
  <2>2. CASE ~executor.native
    <3>1. ProgramHeads = 2 * KVHeads /\ Heads = 2 * KVHeads /\ view = head
      BY <2>2 DEF ProgramHeads, WorkspaceHeads
    <3>2. (2 * KVHeads) \div KVHeads = 2
      <4>1. (2 * KVHeads + 0) \div KVHeads = 2
        BY <1>1, Address
      <4>2. QED
        BY <1>1, <4>1
    <3>3. GroupSize = 2
      BY <3>1, <3>2 DEF GroupSize
    <3>4. QED
      BY <1>1, <3>1, <3>2, <3>3
  <2>3. QED
    BY <2>1, <2>2
<1> HIDE DEF view
<1>5. bh \div ProgramHeads = row /\ bh % ProgramHeads = view
  <2>1. row \in Int
    OBVIOUS
  <2>2. QED
    BY <1>4, <2>1, Address, Zenon
<1>6. row * ProgramHeads \in Nat
  BY <1>4
<1>7. QED
  BY <1>4, <1>5, <1>6 DEF view

\* The gathered workspace, viewed by a head, holds its row's tokens.
LEMMA GatherReadsOwn ==
    ASSUME AttentionInv, NEW batch \in Batches,
           NEW width \in UsedWidth({batch[i] : i \in DOMAIN batch}) .. NumBlocks,
           NEW row \in 0 .. Len(batch) - 1, NEW head \in 0 .. Heads - 1,
           WorkspaceHeads = ProgramHeads
    PROVE  ReadsOwn(GatherReads(batch, width, row, head), batch[row + 1], head)
<1> DEFINE r == batch[row + 1]
           k == head \div GroupSize
           view == IF executor.native THEN head \div GroupSize ELSE head
           bh == row * WorkspaceHeads + view
           capacity == Capacity(width)
           f == [p \in 0 .. len[r] - 1 |-> <<p, <<k, <<r, p>>>>>>]
<1>1. row \in Nat /\ row + 1 \in DOMAIN batch /\ len[r] \in Nat /\ LengthOf(batch, row) = len[r]
      /\ row < Len(batch) /\ Len(batch) \in Nat
  BY BatchRows DEF LengthOf
<1>2. width \in Nat \ {0} /\ len[r] <= Maximum(batch) /\ Maximum(batch) <= capacity
      /\ Maximum(batch) \in Nat
  BY <1>1, BatchBounds
<1>3. capacity \in Nat \ {0}
  BY <1>2, PoolTypes DEF Capacity
<1>4. /\ bh \in Nat
      /\ bh \div ProgramHeads = row
      /\ (bh % ProgramHeads) \div (ProgramHeads \div KVHeads) = k
  BY <1>1, ViewedHead
<1>5. capacity <= GatherTile * Cdiv(capacity, GatherTile) /\ Cdiv(capacity, GatherTile) \in Nat
      /\ GatherTile \in Nat
  BY <1>3, CdivCovers, HeadsAssumption
<1>6. GatherReads(batch, width, row, head)
          = {<<p, Gathered(batch, width, bh * capacity + p)>> : p \in 0 .. len[r] - 1}
  BY WeighedPositions DEF GatherReads
<1> HIDE DEF bh, capacity, view, k
<1>7. ASSUME NEW p \in 0 .. len[r] - 1
      PROVE  Gathered(batch, width, bh * capacity + p) = <<k, <<r, p>>>>
  <2>1. p \in 0 .. capacity - 1 /\ p < len[r] /\ p \in Nat
    BY <1>1, <1>2, <1>3
  <2>2. (bh * capacity + p) \div capacity = bh /\ (bh * capacity + p) % capacity = p
    BY <1>3, <1>4, <2>1, Address
  <2>3. Load(TableEntry(batch, width, row * width + p \div BlockSize), p % BlockSize, k)
            = <<k, <<r, p>>>>
    BY PositionIsFound
  <2>4. GatherTile * Cdiv(capacity, GatherTile) \in Nat
    BY <1>5
  <2>5. ~(p >= GatherTile * Cdiv(capacity, GatherTile) \/ row >= Len(batch))
    BY <1>1, <1>3, <1>5, <2>1, <2>4
  <2>6. ~(p >= LengthOf(batch, row))
    BY <1>1, <2>1
  <2>7. Gathered(batch, width, bh * capacity + p)
            = Load(TableEntry(batch, width, row * width + p \div BlockSize), p % BlockSize, k)
    BY <1>4, <2>2, <2>5, <2>6 DEF Gathered, capacity
  <2>8. QED
    BY <2>3, <2>7
<1>8. GatherReads(batch, width, row, head) = {f[p] : p \in 0 .. len[r] - 1}
  BY <1>6, <1>7
<1>9. DOMAIN f = 0 .. len[r] - 1 /\ \A p \in 0 .. len[r] - 1 : f[p][2] = <<k, <<r, p>>>>
  OBVIOUS
<1> HIDE DEF f
<1>10. OwnOnce(GatherReads(batch, width, row, head), len[r], k, r)
  BY <1>1, <1>8, <1>9, OnceEach
<1>11. QED
  BY <1>10 DEF ReadsOwn, k

\* A request's blocks behind each other hold its tokens, and padding is masked.
LEMMA MaterializedReadsOwn ==
    ASSUME AttentionInv, NEW batch \in Batches,
           NEW width \in UsedWidth({batch[i] : i \in DOMAIN batch}) .. NumBlocks,
           NEW row \in 0 .. Len(batch) - 1, NEW head
    PROVE  ReadsOwn(MaterializedReads(batch, width, row, head), batch[row + 1], head)
<1> DEFINE r == batch[row + 1]
           k == head \div GroupSize
           blocks == Cdiv(len[r], BlockSize)
           token(p) == IF p < len[r] /\ p < blocks * BlockSize
                       THEN Load(TableEntry(batch, width, row * width + p \div BlockSize),
                                 p % BlockSize, k)
                       ELSE <<k, <<"zero">>>>
           f == [p \in 0 .. len[r] - 1 |-> <<p, <<k, <<r, p>>>>>>]
<1>1. len[r] \in Nat /\ LengthOf(batch, row) = len[r]
  BY BatchRows DEF LengthOf
<1>2. blocks \in Nat /\ len[r] <= BlockSize * blocks
  BY <1>1, CdivCovers, PoolTypes
<1>3. MaterializedReads(batch, width, row, head) = {<<p, token(p)>> : p \in 0 .. len[r] - 1}
  BY <1>1, WeighedPositions DEF MaterializedReads
<1> HIDE DEF blocks, k
<1>4. ASSUME NEW p \in 0 .. len[r] - 1 PROVE token(p) = <<k, <<r, p>>>>
  <2>1. BlockSize * blocks = blocks * BlockSize /\ blocks * BlockSize \in Nat
    BY <1>2, PoolTypes
  <2>2. p < len[r] /\ p < blocks * BlockSize
    BY <1>1, <1>2, <2>1
  <2>3. Load(TableEntry(batch, width, row * width + p \div BlockSize), p % BlockSize, k)
            = <<k, <<r, p>>>>
    BY PositionIsFound
  <2>4. QED
    BY <2>2, <2>3
<1> HIDE DEF token
<1>5. MaterializedReads(batch, width, row, head) = {f[p] : p \in 0 .. len[r] - 1}
  BY <1>3, <1>4
<1>6. DOMAIN f = 0 .. len[r] - 1 /\ \A p \in 0 .. len[r] - 1 : f[p][2] = <<k, <<r, p>>>>
  OBVIOUS
<1> HIDE DEF f
<1>7. OwnOnce(MaterializedReads(batch, width, row, head), len[r], k, r)
  BY <1>1, <1>5, <1>6, OnceEach
<1>8. QED
  BY <1>7 DEF ReadsOwn, k

\* The property, by what it asks of one row and head.
LEMMA ReadsUnfold ==
    ASSUME \A batch \in Batches :
           \A width \in UsedWidth({batch[i] : i \in DOMAIN batch}) .. NumBlocks :
           \A layer \in LayerSet, row \in 0 .. Len(batch) - 1, head \in 0 .. Heads - 1 :
               PathRaises(layer) \/ ReadsOwn(Reads(batch, width, layer, row, head), batch[row + 1], head)
    PROVE  AttentionReadsOwnTokens
BY Zenon DEF AttentionReadsOwnTokens, ReadsOwn, OwnOnce

\* For every pool, block size, number of heads, tile, calibration and table
\* width, and whoever owned the blocks before: each path attends to the
\* request's own tokens, once each, and to nothing else.
THEOREM AttentionIsOwn == AttentionSpec => []AttentionReadsOwnTokens
<1>1. AttentionInv => AttentionReadsOwnTokens
  <2> SUFFICES ASSUME AttentionInv, NEW batch \in Batches,
                      NEW width \in UsedWidth({batch[i] : i \in DOMAIN batch}) .. NumBlocks,
                      NEW layer \in LayerSet, NEW row \in 0 .. Len(batch) - 1,
                      NEW head \in 0 .. Heads - 1, ~PathRaises(layer)
               PROVE  ReadsOwn(Reads(batch, width, layer, row, head), batch[row + 1], head)
    BY ReadsUnfold
  <2>1. CASE Path(executor, layer) = "direct"
    <3>1. Reads(batch, width, layer, row, head) = DirectReads(batch, width, row, head)
      BY <2>1 DEF Reads
    <3>2. QED
      BY <3>1, DirectReadsOwn
  <2>2. CASE Path(executor, layer) = "gather"
    <3>1. Reads(batch, width, layer, row, head) = GatherReads(batch, width, row, head)
      BY <2>2 DEF Reads
    <3>2. WorkspaceHeads = ProgramHeads
      BY <2>2 DEF PathRaises
    <3>3. QED
      BY <3>1, <3>2, GatherReadsOwn
  <2>3. CASE Path(executor, layer) = "materialize"
    <3>1. Reads(batch, width, layer, row, head) = MaterializedReads(batch, width, row, head)
      BY <2>3 DEF Reads
    <3>2. QED
      BY <3>1, MaterializedReadsOwn
  <2>4. Path(executor, layer) \in {"direct", "gather", "materialize"}
    BY DEF Path
  <2>5. QED
    BY <2>1, <2>2, <2>3, <2>4
<1>2. QED
  BY <1>1, AttentionInvariant, PTL
=============================================================================
