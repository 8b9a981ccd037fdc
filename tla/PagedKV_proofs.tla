--------------------------- MODULE PagedKV_proofs ---------------------------
(***************************************************************************)
(* Proofs about the paged KV allocator, for every pool, block size and set *)
(* of requests.                                                            *)
(***************************************************************************)
EXTENDS PagedKV, TLAPS

-----------------------------------------------------------------------------
\* The pool's dimensions are positive integers.
LEMMA PoolTypes == NumBlocks \in Nat \ {0} /\ BlockSize \in Nat \ {0}
BY PoolAssumption

\* Arithmetic of blocks and offsets.

\* Integer division and remainder.
LEMMA DivMod ==
    ASSUME NEW a \in Int, NEW b \in Nat \ {0}
    PROVE  /\ a \div b \in Int
           /\ a % b \in 0 .. b - 1
           /\ a = b * (a \div b) + (a % b)
OBVIOUS

\* Dividing by a common factor.
LEMMA CancelFactor ==
    ASSUME NEW b \in Nat \ {0}, NEW x \in Int, NEW y \in Int, b * x < b * y + b
    PROVE  x <= y
<1>1. SUFFICES ASSUME x >= y + 1 PROVE FALSE
  OBVIOUS
<1>2. b * x >= b * (y + 1)
  BY <1>1
<1>3. b * (y + 1) = b * y + b
  OBVIOUS
<1>4. QED
  BY <1>2, <1>3

\* Division is monotone.
LEMMA DivMonotone ==
    ASSUME NEW a \in Int, NEW c \in Int, NEW b \in Nat \ {0}, a <= c
    PROVE  a \div b <= c \div b
BY DivMod, CancelFactor

\* ceil is a natural number and grows with its argument.
LEMMA BlocksForTokensMonotone ==
    ASSUME NEW a \in Nat, NEW c \in Nat, a <= c
    PROVE  /\ BlocksForTokens(a) \in Nat
           /\ BlocksForTokens(a) <= BlocksForTokens(c)
           /\ BlocksForTokens(0) = 0
<1>1. 0 \div BlockSize = 0 /\ (BlockSize - 1) \div BlockSize = 0
  BY PoolTypes, DivMod, CancelFactor
<1>2. a + BlockSize - 1 \in Int /\ c + BlockSize - 1 \in Int /\ 0 <= a + BlockSize - 1
  BY PoolTypes
<1>3. 0 \div BlockSize <= (a + BlockSize - 1) \div BlockSize
  BY <1>2, PoolTypes, DivMonotone
<1>4. (a + BlockSize - 1) \div BlockSize <= (c + BlockSize - 1) \div BlockSize
  BY <1>2, PoolTypes, DivMonotone
<1>5. QED
  BY <1>1, <1>2, <1>3, <1>4, PoolTypes, DivMod DEF BlocksForTokens

\* A position below the length lies in one of the blocks the length needs.
LEMMA PositionInTable ==
    ASSUME NEW a \in Nat, NEW p \in 0 .. a - 1
    PROVE  /\ p \div BlockSize + 1 \in 1 .. BlocksForTokens(a)
           /\ p % BlockSize \in 0 .. BlockSize - 1
<1> DEFINE q == p \div BlockSize
           c == BlocksForTokens(a)
<1>0. p \in Int /\ a + BlockSize - 1 \in Int
  BY PoolTypes
<1>1. /\ q \in Int
      /\ p % BlockSize \in 0 .. BlockSize - 1
      /\ p = BlockSize * q + (p % BlockSize)
  BY <1>0, PoolTypes, DivMod
<1>2. /\ c \in Int
      /\ (a + BlockSize - 1) % BlockSize \in 0 .. BlockSize - 1
      /\ a + BlockSize - 1 = BlockSize * c + ((a + BlockSize - 1) % BlockSize)
  BY <1>0, PoolTypes, DivMod DEF BlocksForTokens
<1>3. BlockSize * (q + 1) < BlockSize * c + BlockSize
  <2>1. BlockSize * (q + 1) = BlockSize * q + BlockSize
    BY <1>1, PoolTypes
  <2>2. a <= BlockSize * c
    BY <1>2, PoolTypes
  <2>3. BlockSize * q < a
    BY <1>1, PoolTypes
  <2> QED
    BY <2>1, <2>2, <2>3, <1>1, <1>2, PoolTypes
<1>4. q + 1 <= c
  BY <1>1, <1>2, <1>3, PoolTypes, CancelFactor
<1>5. q >= 0
  <2>1. BlockSize * 0 < BlockSize * q + BlockSize
    BY <1>1, PoolTypes
  <2> QED
    BY <2>1, <1>1, PoolTypes, CancelFactor
<1>6. QED
  BY <1>1, <1>2, <1>4, <1>5

-----------------------------------------------------------------------------
\* The inductive invariant of the allocator. OneOwnerPerBlock says of a pop
\* that the popped blocks were unlisted, TableFitsLength that the number of
\* blocks to pop is not negative.
KVInv == KVTypeOK /\ OneOwnerPerBlock /\ TableFitsLength

\* heappop never returns the same block twice.
LEMMA PopOrderIsInjective ==
    ASSUME NEW k \in Nat, NEW s \in [1 .. k -> free], free \subseteq Blocks, IsPopOrder(s)
    PROVE  \A i, j \in 1 .. k : s[i] = s[j] => i = j
<1>1. SUFFICES ASSUME NEW i \in 1 .. k, NEW j \in 1 .. k, i < j, s[i] = s[j] PROVE FALSE
  BY PoolTypes
<1>2. s[i] \in free
  OBVIOUS
<1>2a. s[i] \in Int
  <2>1. s[i] \in Blocks
    BY <1>2
  <2>2. QED
    BY <2>1, PoolTypes DEF Blocks
<1>3. s[i] < s[j]
  BY <1>1, <1>2 DEF IsPopOrder
<1>4. QED
  BY <1>1, <1>2a, <1>3

\* The empty pool satisfies the invariant.
LEMMA KVInitInv == KVInit => KVInv
<1> SUFFICES ASSUME KVInit PROVE KVInv
  OBVIOUS
<1>1. KVTypeOK
  BY DEF KVInit, KVTypeOK
<1>2. OneOwnerPerBlock
  BY DEF KVInit, OneOwnerPerBlock
<1>3. TableFitsLength
  BY BlocksForTokensMonotone DEF KVInit, TableFitsLength
<1>4. QED
  BY <1>1, <1>2, <1>3 DEF KVInv

\* Creating an entry takes no block.
LEMMA CreateInv ==
    ASSUME KVInv, NEW r \in Requests, Create(r)
    PROVE  KVInv'
BY DEF KVInv, KVTypeOK, OneOwnerPerBlock, TableFitsLength, Create, BlocksForTokens

\* A function on 1 .. n is a sequence of length n.
LEMMA SeqFromFunction ==
    ASSUME NEW S, NEW n \in Nat, NEW f \in [1 .. n -> S]
    PROVE  f \in Seq(S) /\ Len(f) = n /\ DOMAIN f = 1 .. n
OBVIOUS

\* What a concatenation holds, and where.
LEMMA ConcatProperties ==
    ASSUME NEW S, NEW u \in Seq(S), NEW v \in Seq(S)
    PROVE  /\ u \o v \in Seq(S)
           /\ Len(u \o v) = Len(u) + Len(v)
           /\ \A i \in 1 .. Len(u) : (u \o v)[i] = u[i]
           /\ \A i \in 1 .. Len(v) : (u \o v)[Len(u) + i] = v[i]
OBVIOUS

\* What an extension of a table looks like.
LEMMA ReserveEffect ==
    ASSUME KVInv, NEW r \in live, NEW n \in Nat,
           NEW s \in [1 .. Additional(r, n) -> free],
           table' = [table EXCEPT ![r] = @ \o s]
    PROVE  /\ Additional(r, n) \in Nat
           /\ s \in Seq(Blocks)
           /\ Len(s) = Additional(r, n)
           /\ DOMAIN s = 1 .. Additional(r, n)
           /\ table' \in [Requests -> Seq(Blocks)]
           /\ table'[r] = table[r] \o s
           /\ Len(table'[r]) = Len(table[r]) + Additional(r, n)
           /\ \A q \in Requests \ {r} : table'[q] = table[q]
           /\ \A i \in DOMAIN table[r] : table'[r][i] = table[r][i]
           /\ \A i \in DOMAIN s : table'[r][Len(table[r]) + i] = s[i]
           /\ \A i \in DOMAIN table'[r] :
                 i \in DOMAIN table[r] \/ i - Len(table[r]) \in DOMAIN s
<1>1. /\ r \in Requests
      /\ table \in [Requests -> Seq(Blocks)]
      /\ len[r] \in Nat
      /\ len[r] + n \in Nat
      /\ table[r] \in Seq(Blocks)
      /\ Len(table[r]) \in Nat
  BY DEF KVInv, KVTypeOK
<1>2. Len(table[r]) = BlocksForTokens(len[r])
  BY <1>1 DEF KVInv, TableFitsLength
<1>3. BlocksForTokens(len[r]) <= BlocksForTokens(len[r] + n) /\ BlocksForTokens(len[r] + n) \in Nat
  BY <1>1, BlocksForTokensMonotone
<1>4. Additional(r, n) \in Nat
  BY <1>1, <1>2, <1>3 DEF Additional
<1>5. s \in Seq(Blocks) /\ Len(s) = Additional(r, n) /\ DOMAIN s = 1 .. Additional(r, n)
  <2>1. free \subseteq Blocks
    BY DEF KVInv, KVTypeOK
  <2>2. s \in [1 .. Additional(r, n) -> Blocks]
    BY <2>1
  <2>3. QED
    BY <2>2, <1>4, SeqFromFunction
<1>6. table'[r] = table[r] \o s /\ \A q \in Requests \ {r} : table'[q] = table[q]
  BY <1>1
<1>7. /\ table[r] \o s \in Seq(Blocks)
      /\ Len(table[r] \o s) = Len(table[r]) + Len(s)
      /\ \A i \in 1 .. Len(table[r]) : (table[r] \o s)[i] = table[r][i]
      /\ \A i \in 1 .. Len(s) : (table[r] \o s)[Len(table[r]) + i] = s[i]
  <2>1. table[r] \in Seq(Blocks) /\ s \in Seq(Blocks)
    BY <1>1, <1>5
  <2>2. QED
    BY <2>1, ConcatProperties
<1>8. table' \in [Requests -> Seq(Blocks)]
  BY <1>1, <1>7
<1>9. /\ DOMAIN table[r] = 1 .. Len(table[r])
      /\ DOMAIN table'[r] = 1 .. Len(table[r]) + Additional(r, n)
  BY <1>1, <1>5, <1>6, <1>7
<1>10. \A i \in DOMAIN table'[r] : i \in DOMAIN table[r] \/ i - Len(table[r]) \in DOMAIN s
  BY <1>1, <1>4, <1>5, <1>9
<1>11. QED
  BY <1>1, <1>4, <1>5, <1>6, <1>7, <1>8, <1>9, <1>10

\* Popped blocks were free, so no table listed them, and each is popped once.
LEMMA ReserveInv ==
    ASSUME KVInv, NEW r \in live, NEW n \in Nat, Reserve(r, n)
    PROVE  KVInv'
<1>1. PICK s \in [1 .. Additional(r, n) -> free] :
          /\ IsPopOrder(s)
          /\ table' = [table EXCEPT ![r] = @ \o s]
          /\ free' = free \ {s[i] : i \in DOMAIN s}
          /\ len' = [len EXCEPT ![r] = @ + n]
          /\ UNCHANGED live
  BY DEF Reserve
<1>2. /\ r \in Requests
      /\ live \in SUBSET Requests
      /\ free \in SUBSET Blocks
      /\ table \in [Requests -> Seq(Blocks)]
      /\ len \in [Requests -> Nat]
      /\ Len(table[r]) \in Nat
  BY DEF KVInv, KVTypeOK
<1>3. /\ Additional(r, n) \in Nat
      /\ s \in Seq(Blocks)
      /\ Len(s) = Additional(r, n)
      /\ DOMAIN s = 1 .. Additional(r, n)
      /\ table' \in [Requests -> Seq(Blocks)]
      /\ table'[r] = table[r] \o s
      /\ Len(table'[r]) = Len(table[r]) + Additional(r, n)
      /\ \A q \in Requests \ {r} : table'[q] = table[q]
      /\ \A i \in DOMAIN table[r] : table'[r][i] = table[r][i]
      /\ \A i \in DOMAIN s : table'[r][Len(table[r]) + i] = s[i]
      /\ \A i \in DOMAIN table'[r] : i \in DOMAIN table[r] \/ i - Len(table[r]) \in DOMAIN s
  <2>1. table' = [table EXCEPT ![r] = @ \o s]
    BY <1>1
  <2>2. QED
    BY <2>1, ReserveEffect
<1>4. \A i, j \in DOMAIN s : s[i] = s[j] => i = j
  <2>1. IsPopOrder(s) /\ free \subseteq Blocks /\ Additional(r, n) \in Nat
    BY <1>1, <1>2, <1>3
  <2>2. \A i, j \in 1 .. Additional(r, n) : s[i] = s[j] => i = j
    BY <2>1, PopOrderIsInjective
  <2>3. QED
    BY <2>2, <1>3
<1>5. \A i \in DOMAIN s : s[i] \in free
  BY <1>3
<1>6. \A b \in Blocks :
          b \in free <=> \A q \in Requests : \A i \in DOMAIN table[q] : table[q][i] # b
  BY DEF KVInv, OneOwnerPerBlock
<1>7. \A q \in Requests : \A i \in DOMAIN table'[q] :
          \/ i \in DOMAIN table[q] /\ table'[q][i] = table[q][i]
          \/ q = r /\ i - Len(table[r]) \in DOMAIN s /\ table'[q][i] = s[i - Len(table[r])]
  <2> SUFFICES ASSUME NEW q \in Requests, NEW i \in DOMAIN table'[q]
               PROVE  \/ i \in DOMAIN table[q] /\ table'[q][i] = table[q][i]
                      \/ q = r /\ i - Len(table[r]) \in DOMAIN s /\ table'[q][i] = s[i - Len(table[r])]
    OBVIOUS
  <2>1. CASE q # r
    BY <2>1, <1>3
  <2>2. CASE q = r
    <3>1. i \in Nat
      BY <1>3
    <3>2. CASE i \in DOMAIN table[r]
      BY <2>2, <3>2, <1>3
    <3>3. CASE i - Len(table[r]) \in DOMAIN s
      <4>1. table'[r][Len(table[r]) + (i - Len(table[r]))] = s[i - Len(table[r])] /\ Len(table[r]) + (i - Len(table[r])) = i
        BY <3>1, <3>3, <1>2, <1>3
      <4>2. QED
        BY <4>1, <3>3, <2>2
    <3>4. QED
      BY <2>2, <3>2, <3>3, <1>3
  <2>3. QED
    BY <2>1, <2>2
<1>8. KVTypeOK'
  BY <1>1, <1>2, <1>3 DEF KVTypeOK
<1>9. OneOwnerPerBlock'
  <2>1. ASSUME NEW q1 \in Requests, NEW q2 \in Requests,
               NEW i \in DOMAIN table'[q1], NEW j \in DOMAIN table'[q2],
               table'[q1][i] = table'[q2][j]
        PROVE  q1 = q2 /\ i = j
    <3>1. CASE /\ i \in DOMAIN table[q1] /\ table'[q1][i] = table[q1][i]
               /\ j \in DOMAIN table[q2] /\ table'[q2][j] = table[q2][j]
      <4>1. table[q1][i] = table[q2][j]
        BY <2>1, <3>1
      <4>2. QED
        BY <4>1, <3>1 DEF KVInv, OneOwnerPerBlock
    <3>2. CASE /\ i \in DOMAIN table[q1] /\ table'[q1][i] = table[q1][i]
               /\ j - Len(table[r]) \in DOMAIN s /\ table'[q2][j] = s[j - Len(table[r])]
      BY <2>1, <3>2, <1>2, <1>5, <1>6
    <3>3. CASE /\ j \in DOMAIN table[q2] /\ table'[q2][j] = table[q2][j]
               /\ i - Len(table[r]) \in DOMAIN s /\ table'[q1][i] = s[i - Len(table[r])]
      BY <2>1, <3>3, <1>2, <1>5, <1>6
    <3>4. CASE /\ q1 = r /\ i - Len(table[r]) \in DOMAIN s /\ table'[q1][i] = s[i - Len(table[r])]
               /\ q2 = r /\ j - Len(table[r]) \in DOMAIN s /\ table'[q2][j] = s[j - Len(table[r])]
      <4>1. i - Len(table[r]) = j - Len(table[r])
        BY <2>1, <3>4, <1>4
      <4>2. i \in Nat /\ j \in Nat
        BY <1>3
      <4>3. QED
        BY <4>1, <4>2, <3>4, <1>2
    <3>5. QED
      BY <3>1, <3>2, <3>3, <3>4, <1>7
  <2>2. ASSUME NEW b \in Blocks
        PROVE  b \in free' <=> \A q \in Requests : \A i \in DOMAIN table'[q] : table'[q][i] # b
    <3>1. ASSUME b \in free', NEW q \in Requests, NEW i \in DOMAIN table'[q]
          PROVE  table'[q][i] # b
      BY <3>1, <1>1, <1>6, <1>7
    <3>2. ASSUME b \notin free'
          PROVE  \E q \in Requests : \E i \in DOMAIN table'[q] : table'[q][i] = b
      <4>1. CASE b \notin free
        <5>0. PICK q \in Requests : \E i \in DOMAIN table[q] : table[q][i] = b
          BY <4>1, <1>6
        <5>1. PICK i \in DOMAIN table[q] : table[q][i] = b
          BY <5>0
        <5>2. i \in DOMAIN table'[q] /\ table'[q][i] = b
          <6>1. CASE q # r
            BY <5>1, <6>1, <1>3
          <6>2. CASE q = r
            BY <5>1, <6>2, <1>2, <1>3
          <6>3. QED
            BY <6>1, <6>2
        <5>3. QED
          BY <5>2
      <4>2. CASE b \in free
        <5>1. PICK i \in DOMAIN s : s[i] = b
          BY <4>2, <3>2, <1>1
        <5>2. Len(table[r]) + i \in DOMAIN table'[r] /\ table'[r][Len(table[r]) + i] = b
          BY <5>1, <1>2, <1>3
        <5>3. QED
          BY <5>2, <1>2
      <4>3. QED
        BY <4>1, <4>2
    <3>3. QED
      BY <3>1, <3>2
  <2>3. QED
    BY <2>1, <2>2 DEF OneOwnerPerBlock
<1>10. TableFitsLength'
  <2>1. Len(table[r]) = BlocksForTokens(len[r])
    BY <1>2 DEF KVInv, TableFitsLength
  <2>2. BlocksForTokens(len[r] + n) \in Nat
    BY <1>2, BlocksForTokensMonotone
  <2>3. Len(table'[r]) = BlocksForTokens(len'[r])
    BY <1>1, <1>2, <1>3, <2>1, <2>2 DEF Additional
  <2>4. \A q \in Requests \ {r} : table'[q] = table[q] /\ len'[q] = len[q]
    BY <1>1, <1>2, <1>3
  <2>5. \A q \in Requests : Len(table'[q]) = BlocksForTokens(len'[q])
    BY <2>3, <2>4 DEF KVInv, TableFitsLength
  <2>6. \A q \in Requests : q \notin live' => len'[q] = 0
    BY <1>1, <2>4 DEF KVInv, TableFitsLength
  <2>7. QED
    BY <2>5, <2>6 DEF TableFitsLength, BlocksForTokens
<1>11. QED
  BY <1>8, <1>9, <1>10 DEF KVInv

\* Appending slots takes free blocks only.
LEMMA AppendSlotsInv ==
    ASSUME KVInv, NEW r \in Requests, NEW n \in Nat, AppendSlots(r, n)
    PROVE  KVInv'
<1>1. CASE UNCHANGED kvVars
  BY <1>1 DEF KVInv, KVTypeOK, OneOwnerPerBlock, TableFitsLength, kvVars, BlocksForTokens
<1>2. CASE r \in live /\ Reserve(r, n)
  BY <1>2, ReserveInv
<1>3. QED
  BY <1>1, <1>2 DEF AppendSlots

\* The released blocks were listed by one table only, which becomes empty.
LEMMA ReleaseInv ==
    ASSUME KVInv, NEW r \in Requests, Release(r)
    PROVE  KVInv'
<1>1. CASE UNCHANGED kvVars
  BY <1>1 DEF KVInv, KVTypeOK, OneOwnerPerBlock, TableFitsLength, kvVars, BlocksForTokens
<1>2. CASE /\ live' = live \ {r}
           /\ free' = free \cup BlocksOf(r)
           /\ table' = [table EXCEPT ![r] = <<>>]
           /\ len' = [len EXCEPT ![r] = 0]
  <2>1. /\ live \in SUBSET Requests
        /\ free \in SUBSET Blocks
        /\ table \in [Requests -> Seq(Blocks)]
        /\ len \in [Requests -> Nat]
    BY DEF KVInv, KVTypeOK
  <2>2. /\ table' \in [Requests -> Seq(Blocks)]
        /\ table'[r] = <<>>
        /\ \A q \in Requests \ {r} : table'[q] = table[q]
    BY <1>2, <2>1
  <2>3. BlocksOf(r) \subseteq Blocks
    BY <2>1 DEF BlocksOf
  <2>4. KVTypeOK'
    BY <1>2, <2>1, <2>2, <2>3 DEF KVTypeOK
  <2>5. \A q \in Requests : \A i \in DOMAIN table'[q] :
            q # r /\ i \in DOMAIN table[q] /\ table'[q][i] = table[q][i]
    BY <2>2
  <2>6. ASSUME NEW b \in Blocks
        PROVE  b \in free' <=> \A q \in Requests : \A i \in DOMAIN table'[q] : table'[q][i] # b
    <3>1. b \in free <=> \A q \in Requests : \A i \in DOMAIN table[q] : table[q][i] # b
      BY DEF KVInv, OneOwnerPerBlock
    <3>2. ASSUME b \in BlocksOf(r), NEW q \in Requests, NEW i \in DOMAIN table'[q]
          PROVE  table'[q][i] # b
      BY <3>2, <2>5 DEF KVInv, OneOwnerPerBlock, BlocksOf
    <3>3. ASSUME b \notin free, b \notin BlocksOf(r)
          PROVE  \E q \in Requests : \E i \in DOMAIN table'[q] : table'[q][i] = b
      <4>0. PICK q \in Requests : \E i \in DOMAIN table[q] : table[q][i] = b
        BY <3>3, <3>1
      <4>1. PICK i \in DOMAIN table[q] : table[q][i] = b
        BY <4>0
      <4>2. q # r
        BY <4>1, <3>3 DEF BlocksOf
      <4>3. QED
        BY <4>1, <4>2, <2>2
    <3>4. QED
      BY <3>1, <3>2, <3>3, <1>2, <2>5
  <2>7. OneOwnerPerBlock'
    BY <2>5, <2>6 DEF KVInv, OneOwnerPerBlock
  <2>8. Len(<<>>) = 0 /\ BlocksForTokens(0) = 0
    BY BlocksForTokensMonotone
  <2>9. /\ len'[r] = 0
        /\ \A q \in Requests \ {r} : len'[q] = len[q]
    BY <1>2, <2>1
  <2>10. \A q \in Requests : Len(table'[q]) = BlocksForTokens(len'[q])
    BY <2>2, <2>8, <2>9 DEF KVInv, TableFitsLength
  <2>11. \A q \in Requests : q \notin live' => len'[q] = 0
    BY <1>2, <2>9 DEF KVInv, TableFitsLength
  <2>12. TableFitsLength'
    BY <2>10, <2>11 DEF TableFitsLength, BlocksForTokens
  <2>13. QED
    BY <2>4, <2>7, <2>12 DEF KVInv
<1>3. QED
  BY <1>1, <1>2 DEF Release
\* Every step of the allocator preserves the invariant, one lemma per operation.
LEMMA KVNextInv == KVInv /\ [KVNext]_kvVars => KVInv'
<1> SUFFICES ASSUME KVInv, [KVNext]_kvVars PROVE KVInv'
  OBVIOUS
<1>1. CASE UNCHANGED kvVars
  BY <1>1 DEF KVInv, KVTypeOK, OneOwnerPerBlock, TableFitsLength, kvVars, BlocksForTokens
<1>2. ASSUME NEW r \in Requests, Create(r) PROVE KVInv'
  BY <1>2, CreateInv
<1>3. ASSUME NEW r \in Requests, NEW n \in 0 .. CapacityTokens, AppendSlots(r, n)
      PROVE  KVInv'
  <2>1. n \in Nat
    OBVIOUS
  <2>2. QED
    BY <2>1, <1>3, AppendSlotsInv
<1>4. ASSUME NEW r \in Requests, Release(r) PROVE KVInv'
  BY <1>4, ReleaseInv
<1>5. QED
  BY <1>1, <1>2, <1>3, <1>4 DEF KVNext

\* The inductive invariant of the allocator: OneOwnerPerBlock is inductive only
\* with TableFitsLength, which says how many blocks an append adds.
THEOREM KVInvariant == KVSpec => []KVInv
BY KVInitInv, KVNextInv, PTL DEF KVSpec

\* Type correctness of the allocator's state for every pool and request set.
THEOREM KVTypeCorrect == KVSpec => []KVTypeOK
<1>1. KVInv => KVTypeOK
  BY DEF KVInv
<1>2. QED
  BY <1>1, KVInvariant, PTL

\* append_slots and release neither leak a block nor give it two owners.
THEOREM BlocksHaveOneOwner == KVSpec => []OneOwnerPerBlock
<1>1. KVInv => OneOwnerPerBlock
  BY DEF KVInv
<1>2. QED
  BY <1>1, KVInvariant, PTL

\* Every live table is exactly as long as its length in tokens needs.
THEOREM TablesFit == KVSpec => []TableFitsLength
<1>1. KVInv => TableFitsLength
  BY DEF KVInv
<1>2. QED
  BY <1>1, KVInvariant, PTL

\* Equal slots have equal blocks, hence one owner and one table entry, and equal
\* offsets: quotient and remainder of the position agree.
LEMMA NoAliasing == KVInv => NoSlotAliasing
<1> SUFFICES ASSUME KVInv, NEW r \in Requests, NEW q \in Requests,
                    NEW p \in 0 .. len[r] - 1, NEW s \in 0 .. len[q] - 1,
                    Slot(table[r], p) = Slot(table[q], s)
             PROVE  r = q /\ p = s
  BY DEF NoSlotAliasing
<1>1. /\ len[r] \in Nat /\ len[q] \in Nat
      /\ table[r] \in Seq(Blocks) /\ table[q] \in Seq(Blocks)
      /\ p \in Nat /\ s \in Nat /\ p < len[r] /\ s < len[q]
  BY DEF KVInv, KVTypeOK
<1>2. p \div BlockSize + 1 \in DOMAIN table[r] /\ s \div BlockSize + 1 \in DOMAIN table[q]
  <2>1. /\ DOMAIN table[r] = 1 .. BlocksForTokens(len[r])
        /\ DOMAIN table[q] = 1 .. BlocksForTokens(len[q])
    BY <1>1 DEF KVInv, TableFitsLength
  <2>2. p \div BlockSize + 1 \in 1 .. BlocksForTokens(len[r])
    BY <1>1, PositionInTable
  <2>3. s \div BlockSize + 1 \in 1 .. BlocksForTokens(len[q])
    BY <1>1, PositionInTable
  <2>4. QED
    BY <2>1, <2>2, <2>3
<1>3. /\ table[r][p \div BlockSize + 1] = table[q][s \div BlockSize + 1]
      /\ p % BlockSize = s % BlockSize
  BY DEF Slot
<1>4. r = q /\ p \div BlockSize + 1 = s \div BlockSize + 1
  BY <1>2, <1>3 DEF KVInv, OneOwnerPerBlock
<1>5. /\ p \div BlockSize \in Int /\ s \div BlockSize \in Int
      /\ p = BlockSize * (p \div BlockSize) + (p % BlockSize)
      /\ s = BlockSize * (s \div BlockSize) + (s % BlockSize)
  <2>1. p \in Int /\ s \in Int /\ BlockSize \in Nat \ {0}
    BY <1>1, PoolTypes
  <2>2. p \div BlockSize \in Int /\ p = BlockSize * (p \div BlockSize) + (p % BlockSize)
    BY <2>1, DivMod
  <2>3. s \div BlockSize \in Int /\ s = BlockSize * (s \div BlockSize) + (s % BlockSize)
    BY <2>1, DivMod
  <2>4. QED
    BY <2>2, <2>3
<1>6. p \div BlockSize = s \div BlockSize
  BY <1>4, <1>5
<1>7. QED
  BY <1>3, <1>4, <1>5, <1>6

\* Two reserved positions never share a physical slot.
THEOREM SlotsDoNotAlias == KVSpec => []NoSlotAliasing
BY NoAliasing, KVInvariant, PTL
-----------------------------------------------------------------------------
\* Action properties.

\* An append extends the table at its end, so earlier positions keep their slots;
\* a release changes the table of a request that is no longer live only.
LEMMA StepKeepsSlots ==
    ASSUME KVInv, [KVNext]_kvVars, NEW r \in live \cap live'
    PROVE  /\ len[r] <= len'[r]
           /\ \A p \in 0 .. len[r] - 1 : Slot(table'[r], p) = Slot(table[r], p)
<1>1. /\ r \in Requests /\ live \in SUBSET Requests
      /\ table \in [Requests -> Seq(Blocks)] /\ len \in [Requests -> Nat]
  BY DEF KVInv, KVTypeOK
<1>2. CASE table'[r] = table[r] /\ len'[r] = len[r]
  BY <1>1, <1>2 DEF Slot
<1>3. ASSUME NEW q \in live, NEW n \in Nat, Reserve(q, n)
      PROVE  /\ len[r] <= len'[r]
             /\ \A p \in 0 .. len[r] - 1 : Slot(table'[r], p) = Slot(table[r], p)
  <2>1. PICK s \in [1 .. Additional(q, n) -> free] :
            table' = [table EXCEPT ![q] = @ \o s] /\ len' = [len EXCEPT ![q] = @ + n]
    BY <1>3 DEF Reserve
  <2>2. CASE q # r
    BY <1>1, <1>2, <2>1, <2>2
  <2>3. CASE q = r
    <3>1. table' = [table EXCEPT ![q] = @ \o s]
      BY <2>1
    <3>2. \A i \in DOMAIN table[q] : table'[q][i] = table[q][i]
      BY <3>1, ReserveEffect
    <3>3. len[r] <= len'[r]
      BY <1>1, <2>1, <2>3
    <3>4. ASSUME NEW p \in 0 .. len[r] - 1
          PROVE  Slot(table'[r], p) = Slot(table[r], p)
      <4>1. len[r] \in Nat /\ table[r] \in Seq(Blocks)
        BY <1>1
      <4>2. p \div BlockSize + 1 \in 1 .. BlocksForTokens(len[r])
        BY <4>1, PositionInTable
      <4>3. DOMAIN table[r] = 1 .. BlocksForTokens(len[r])
        BY <1>1, <4>1 DEF KVInv, TableFitsLength
      <4>4. QED
        BY <4>2, <4>3, <3>2, <2>3 DEF Slot
    <3>5. QED
      BY <3>3, <3>4
  <2>4. QED
    BY <2>2, <2>3
<1>4. CASE UNCHANGED kvVars
  BY <1>2, <1>4 DEF kvVars
<1>5. ASSUME NEW q \in Requests, Create(q) PROVE table'[r] = table[r] /\ len'[r] = len[r]
  BY <1>5 DEF Create
<1>6. ASSUME NEW q \in Requests, NEW n \in 0 .. CapacityTokens, AppendSlots(q, n)
      PROVE  /\ len[r] <= len'[r]
             /\ \A p \in 0 .. len[r] - 1 : Slot(table'[r], p) = Slot(table[r], p)
  BY <1>3, <1>4, <1>6 DEF AppendSlots
<1>7. ASSUME NEW q \in Requests, Release(q)
      PROVE  table'[r] = table[r] /\ len'[r] = len[r]
  <2>1. CASE q \notin live
    BY <2>1, <1>7 DEF Release, kvVars
  <2>2. CASE q \in live
    BY <2>2, <1>1, <1>7 DEF Release
  <2>3. QED
    BY <2>1, <2>2
<1>8. QED
  BY <1>2, <1>4, <1>5, <1>6, <1>7 DEF KVNext

\* While a request lives, its reserved positions keep their slots.
THEOREM LiveSlotsAreStable == KVSpec => SlotsAreStable
<1>1. KVInv /\ [KVNext]_kvVars
        => [\A r \in live \cap live' :
              /\ len[r] <= len'[r]
              /\ \A p \in 0 .. len[r] - 1 : Slot(table'[r], p) = Slot(table[r], p)]_kvVars
  BY StepKeepsSlots
<1>2. QED
  BY <1>1, KVInvariant, PTL DEF KVSpec, SlotsAreStable
-----------------------------------------------------------------------------
\* Refinement.

\* An append claims the popped blocks.
LEMMA ReserveClaims ==
    ASSUME KVInv, NEW r \in live, NEW n \in Nat, Reserve(r, n)
    PROVE  \E taken \in SUBSET Blocks : Ownership!Claim(r, taken)
<1>1. PICK s \in [1 .. Additional(r, n) -> free] :
          /\ table' = [table EXCEPT ![r] = @ \o s]
          /\ free' = free \ {s[i] : i \in DOMAIN s}
  BY DEF Reserve
<1> DEFINE taken == {s[i] : i \in DOMAIN s}
<1>2. /\ r \in Requests /\ free \in SUBSET Blocks
      /\ table \in [Requests -> Seq(Blocks)] /\ table[r] \in Seq(Blocks)
  BY DEF KVInv, KVTypeOK
<1>3. taken \subseteq free
  OBVIOUS
<1>4. free' = free \ taken
  BY <1>1
<1>5. /\ Additional(r, n) \in Nat
      /\ s \in Seq(Blocks)
      /\ Len(s) = Additional(r, n)
      /\ DOMAIN s = 1 .. Additional(r, n)
      /\ table' \in [Requests -> Seq(Blocks)]
      /\ table'[r] = table[r] \o s
      /\ Len(table'[r]) = Len(table[r]) + Additional(r, n)
      /\ \A q \in Requests \ {r} : table'[q] = table[q]
      /\ \A i \in DOMAIN table[r] : table'[r][i] = table[r][i]
      /\ \A i \in DOMAIN s : table'[r][Len(table[r]) + i] = s[i]
      /\ \A i \in DOMAIN table'[r] : i \in DOMAIN table[r] \/ i - Len(table[r]) \in DOMAIN s
  BY <1>1, ReserveEffect
<1>6. BlocksOf(r)' = BlocksOf(r) \cup taken
  <2>1. ASSUME NEW i \in DOMAIN table'[r] PROVE table'[r][i] \in BlocksOf(r) \cup taken
    <3>1. CASE i \in DOMAIN table[r]
      BY <3>1, <1>5 DEF BlocksOf
    <3>2. CASE i - Len(table[r]) \in DOMAIN s
      <4>1. Len(table[r]) + (i - Len(table[r])) = i
        BY <1>2, <1>5
      <4>2. table'[r][i] = s[i - Len(table[r])]
        BY <3>2, <4>1, <1>5
      <4>3. QED
        BY <3>2, <4>2
    <3>3. QED
      BY <3>1, <3>2, <1>5
  <2>2. ASSUME NEW i \in DOMAIN table[r]
        PROVE  i \in DOMAIN table'[r] /\ table'[r][i] = table[r][i]
    BY <1>2, <1>5
  <2>3. ASSUME NEW i \in DOMAIN s
        PROVE  Len(table[r]) + i \in DOMAIN table'[r] /\ table'[r][Len(table[r]) + i] = s[i]
    BY <1>2, <1>5
  <2>4. BlocksOf(r)' = {table'[r][i] : i \in DOMAIN table'[r]}
    BY DEF BlocksOf
  <2>5. BlocksOf(r)' \subseteq BlocksOf(r) \cup taken
    BY <2>1, <2>4
  <2>6. BlocksOf(r) \subseteq BlocksOf(r)'
    BY <2>2, <2>4 DEF BlocksOf
  <2>7. taken \subseteq BlocksOf(r)'
    BY <2>3, <2>4
  <2>8. QED
    BY <2>5, <2>6, <2>7
<1>7. \A q \in Requests \ {r} : BlocksOf(q)' = BlocksOf(q)
  BY <1>5 DEF BlocksOf
<1>8. [q \in Requests |-> BlocksOf(q)]'
        = [[q \in Requests |-> BlocksOf(q)] EXCEPT ![r] = @ \cup taken]
  BY <1>2, <1>6, <1>7
<1>9. Ownership!Claim(r, taken) /\ taken \in SUBSET Blocks
  BY <1>2, <1>3, <1>4, <1>8 DEF Ownership!Claim
<1>10. QED
  BY <1>9

\* Every step of the allocator is a step of PageOwnership or changes neither the
\* pool nor an owner.
LEMMA StepImplements ==
    KVInv /\ [KVNext]_kvVars
      => [Ownership!OwnershipNext]_<<[r \in Requests |-> BlocksOf(r)], free>>
<1> SUFFICES ASSUME KVInv, [KVNext]_kvVars
             PROVE  [Ownership!OwnershipNext]_<<[r \in Requests |-> BlocksOf(r)], free>>
  OBVIOUS
<1>1. CASE table' = table /\ free' = free
  BY <1>1 DEF BlocksOf
<1>2. ASSUME NEW r \in Requests, NEW n \in 0 .. CapacityTokens, AppendSlots(r, n)
      PROVE  [Ownership!OwnershipNext]_<<[q \in Requests |-> BlocksOf(q)], free>>
  <2>1. CASE UNCHANGED kvVars
    BY <2>1, <1>1 DEF kvVars
  <2>2. CASE r \in live /\ Reserve(r, n)
    BY <2>2, ReserveClaims DEF Ownership!OwnershipNext
  <2>3. QED
    BY <2>1, <2>2, <1>2 DEF AppendSlots
<1>3. ASSUME NEW r \in Requests, r \in live, Release(r)
      PROVE  Ownership!Drop(r)
  <2>1. /\ table' = [table EXCEPT ![r] = <<>>] /\ table \in [Requests -> Seq(Blocks)]
        /\ free' = free \cup BlocksOf(r)
    BY <1>3 DEF Release, KVInv, KVTypeOK
  <2>2. BlocksOf(r)' = {} /\ \A q \in Requests \ {r} : BlocksOf(q)' = BlocksOf(q)
    BY <2>1 DEF BlocksOf
  <2>3. QED
    BY <2>1, <2>2 DEF Ownership!Drop
<1>4. ASSUME NEW r \in Requests, Create(r) PROVE table' = table /\ free' = free
  BY <1>4 DEF Create
<1>5. QED
  BY <1>1, <1>2, <1>3, <1>4 DEF KVNext, kvVars, Ownership!OwnershipNext

\* The allocator implements PageOwnership: whatever the order of appends and
\* releases, a block leaves the heap exactly when a request comes to own it, and
\* all blocks of a request come back when it is released.
THEOREM AllocatorImplementsOwnership == KVSpec => ImplementsOwnership
<1>1. KVInit => Ownership!OwnershipInit
  BY DEF KVInit, Ownership!OwnershipInit, BlocksOf
<1>2. QED
  BY <1>1, StepImplements, KVInvariant, PTL
     DEF KVSpec, ImplementsOwnership, Ownership!OwnershipSpec
=============================================================================
