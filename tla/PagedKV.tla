------------------------------ MODULE PagedKV ------------------------------
(***************************************************************************)
(* The block accounting of PagedKVAllocator (serving/paged_kv.py): a pool  *)
(* of fixed-size blocks, one block table and one length per live request.  *)
(* Every public method holds the allocator's lock, so each is one action.  *)
(***************************************************************************)
EXTENDS Integers, Sequences, FiniteSets

CONSTANTS Requests,    \* request identifiers callers may use
          NumBlocks,   \* num_blocks
          BlockSize    \* block_size, in tokens

ASSUME RequestsAssumption == IsFiniteSet(Requests)

\* The constructor raises on nonpositive dimensions and on a block size that
\* is not a power of two.
ASSUME PoolAssumption ==
    /\ NumBlocks \in Nat \ {0}
    /\ BlockSize \in Nat \ {0}
    /\ \E k \in 0 .. BlockSize : BlockSize = 2^k

VARIABLES live,    \* keys of _requests
          free,    \* contents of the _free heap
          table,   \* request -> _Allocation.blocks, <<>> when not live
          len      \* request -> _Allocation.length, 0 when not live

kvVars == <<live, free, table, len>>

Blocks == 0 .. NumBlocks - 1
CapacityTokens == NumBlocks * BlockSize     \* capacity_tokens

KVTypeOK ==
    /\ live \in SUBSET Requests
    /\ free \in SUBSET Blocks
    /\ table \in [Requests -> Seq(Blocks)]
    /\ len \in [Requests -> Nat]

KVInit ==
    /\ live = {}
    /\ free = Blocks
    /\ table = [r \in Requests |-> <<>>]
    /\ len = [r \in Requests |-> 0]

-----------------------------------------------------------------------------
\* math.ceil(count / block_size): the blocks that hold count tokens.
BlocksForTokens(count) == (count + BlockSize - 1) \div BlockSize

\* Mutant of Slot: the position masked with block_size, not block_size - 1.
SlotMaskedWithSize(tbl, p) ==
    <<tbl[p \div BlockSize + 1], (p \div BlockSize % 2) * BlockSize>>

\* Where token position p of a request lives. The code masks the position with
\* block_size - 1, which is the remainder because block_size is a power of two.
Slot(tbl, p) == <<tbl[p \div BlockSize + 1], p % BlockSize>>

Slots(tbl, start, count) == [i \in 1 .. count |-> Slot(tbl, start + i - 1)]

\* The blocks a request holds.
BlocksOf(r) == {table[r][i] : i \in DOMAIN table[r]}

\* Mutant of Additional: the required blocks rounded down.
AdditionalRoundedDown(r, n) == (len[r] + n) \div BlockSize - Len(table[r])

\* Blocks that n more tokens of r need beyond those r holds.
Additional(r, n) == BlocksForTokens(len[r] + n) - Len(table[r])

CanAppend(r, n) == Additional(r, n) <= Cardinality(free)

\* s is what successive heappop calls on _free return: each popped block is
\* the least of those still in the heap.
IsPopOrder(s) ==
    \A i \in DOMAIN s : \A b \in free :
        b < s[i] <=> \E j \in 1 .. i - 1 : s[j] = b

-----------------------------------------------------------------------------
\* create: an identifier already known raises and changes nothing.
Create(r) ==
    /\ r \notin live
    /\ live' = live \cup {r}
    /\ UNCHANGED <<free, table, len>>

\* Mutant of Reserve: the new blocks put before the old ones.
ReserveInFront(r, n) ==
    \E s \in [1 .. Additional(r, n) -> free] :
        /\ IsPopOrder(s)
        /\ table' = [table EXCEPT ![r] = s \o @]
        /\ free' = free \ {s[i] : i \in DOMAIN s}
        /\ len' = [len EXCEPT ![r] = @ + n]
        /\ UNCHANGED live

\* Mutant of Reserve: the least blocks are read from the heap, not popped.
ReserveKeepingHeap(r, n) ==
    \E s \in [1 .. Additional(r, n) -> free] :
        /\ IsPopOrder(s)
        /\ table' = [table EXCEPT ![r] = @ \o s]
        /\ len' = [len EXCEPT ![r] = @ + n]
        /\ UNCHANGED <<live, free>>

\* append_slots when the pool can serve it: pop the missing blocks in heap
\* order, extend the table, advance the length.
Reserve(r, n) ==
    \E s \in [1 .. Additional(r, n) -> free] :
        /\ IsPopOrder(s)
        /\ table' = [table EXCEPT ![r] = @ \o s]
        /\ free' = free \ {s[i] : i \in DOMAIN s}
        /\ len' = [len EXCEPT ![r] = @ + n]
        /\ UNCHANGED live

\* append_slots: the shortage is found before the first pop, so MemoryError
\* leaves the allocator as it was.
AppendSlots(r, n) ==
    /\ r \in live
    /\ IF CanAppend(r, n) THEN Reserve(r, n) ELSE UNCHANGED kvVars

\* Mutant of Release: the block that is only partly filled is not pushed back.
ReleaseLeaking(r) ==
    IF r \in live
    THEN /\ live' = live \ {r}
         /\ free' = free \cup {table[r][i] : i \in 1 .. len[r] \div BlockSize}
         /\ table' = [table EXCEPT ![r] = <<>>]
         /\ len' = [len EXCEPT ![r] = 0]
    ELSE UNCHANGED kvVars

\* release: forget the request and push its blocks back. An unknown identifier
\* returns False and changes nothing.
Release(r) ==
    IF r \in live
    THEN /\ live' = live \ {r}
         /\ free' = free \cup BlocksOf(r)
         /\ table' = [table EXCEPT ![r] = <<>>]
         /\ len' = [len EXCEPT ![r] = 0]
    ELSE UNCHANGED kvVars

\* metadata(ids, table_width): ValueError unless the requested width holds the
\* longest table of the batch and fits the pool.
UsedWidth(ids) ==
    IF ids = {} THEN 0
    ELSE CHOOSE w \in {Len(table[r]) : r \in ids} :
            \A r \in ids : Len(table[r]) <= w

\* Mutant of MetadataAccepts: a width equal to the capacity is refused.
MetadataAcceptsBelowCapacity(ids, width) == UsedWidth(ids) <= width /\ width < NumBlocks

MetadataAccepts(ids, width) == UsedWidth(ids) <= width /\ width <= NumBlocks

\* Legal call sequences; a caller never appends more than the pool could hold.
KVNext ==
    \E r \in Requests :
        \/ Create(r)
        \/ \E n \in 0 .. CapacityTokens : AppendSlots(r, n)
        \/ r \in live /\ Release(r)

KVSpec == KVInit /\ [][KVNext]_kvVars

-----------------------------------------------------------------------------
\* Properties.

\* No block has two owners, none is listed twice in one table, and a block is
\* in the heap exactly when no live table lists it: append_slots, release and
\* their error paths neither leak a block nor hand it out twice.
OneOwnerPerBlock ==
    /\ \A r, q \in Requests : \A i \in DOMAIN table[r], j \in DOMAIN table[q] :
            table[r][i] = table[q][j] => r = q /\ i = j
    /\ \A b \in Blocks :
            b \in free <=> \A r \in Requests : \A i \in DOMAIN table[r] : table[r][i] # b

\* A live table has exactly the blocks its length needs, so every reserved
\* position resolves to a slot and no block is held in advance; identifiers
\* that are not live hold nothing.
TableFitsLength ==
    \A r \in Requests :
        /\ Len(table[r]) = BlocksForTokens(len[r])
        /\ r \notin live => len[r] = 0

\* Two different reserved positions, of one request or of two, never share a
\* physical slot: what one writes, no other overwrites.
NoSlotAliasing ==
    \A r, q \in Requests : \A p \in 0 .. len[r] - 1, s \in 0 .. len[q] - 1 :
        Slot(table[r], p) = Slot(table[q], s) => r = q /\ p = s

\* While a request lives, its reserved positions keep the slots they were
\* given, whatever is appended or released around it.
SlotsAreStable ==
    [][\A r \in live \cap live' :
          /\ len[r] <= len'[r]
          /\ \A p \in 0 .. len[r] - 1 : Slot(table'[r], p) = Slot(table[r], p)]_kvVars

-----------------------------------------------------------------------------
\* The allocator implements PageOwnership: a request owns the blocks its table
\* lists and the heap is the pool, so append_slots takes out of the heap exactly
\* the blocks it lists, and release pushes back exactly those of the request.
Ownership == INSTANCE PageOwnership
    WITH owned <- [r \in Requests |-> BlocksOf(r)], pool <- free

ImplementsOwnership == Ownership!OwnershipSpec
=============================================================================
