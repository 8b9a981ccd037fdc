-------------------------- MODULE Scheduler_proofs --------------------------
(***************************************************************************)
(* Proofs about the continuous-batching scheduler, for every pool, set of  *)
(* requests, shape of request and limit.                                   *)
(***************************************************************************)
EXTENDS Scheduler, PagedKV_proofs, FiniteSetTheorems

-----------------------------------------------------------------------------
\* The inductive invariant.

\* What relates the fields of one request, its allocation and its planned work.
RequestInv(r) ==
    /\ Unfinished(r) <=> r \in live
    /\ state[r] = "NEW" => cursor[r] = 0 /\ ngen[r] = 0
    /\ ~Unfinished(r) => reserved[r] = 0 /\ Idle(r)
    /\ Unfinished(r) => shape[r] \in Shapes /\ reserved[r] = Reservation(shape[r])
    /\ state[r] = "PREFILL" =>
          /\ ngen[r] = 0
          /\ len[r] = cursor[r] + inflight[r].count
          /\ len[r] <= shape[r].prompt
          /\ cursor[r] < shape[r].prompt
          /\ Idle(r) \/ (inflight[r].kind = "prefill" /\ inflight[r].count > 0)
    /\ state[r] = "DECODE" =>
          /\ cursor[r] = shape[r].prompt
          /\ ngen[r] < shape[r].max
          /\ Idle(r) \/ (inflight[r] = [kind |-> "decode", count |-> 1] /\ ngen[r] > 0)
          /\ ngen[r] = 0 => len[r] = shape[r].prompt
          /\ ngen[r] > 0 => len[r] = shape[r].prompt + (ngen[r] - 1) + inflight[r].count

\* The loops of plan() visit each request at most once, idle, and no decode
\* request is without its input token while they run.
LoopInv ==
    /\ phase # "raised"
    /\ phase = "plan_expire" => NothingInFlight
    /\ phase \in {"plan_expire", "plan_decode", "plan_prefill"} =>
          \A r \in Requests : ~AwaitsFirstSample(r)
    /\ phase = "plan_decode" =>
          /\ plan.prefill = <<>>
          /\ Len(plan.decode) + todo <= MaxBatch
          /\ todo <= Len(decodeQ)
          /\ \A i \in 1 .. todo : Idle(decodeQ[i])
          /\ \A r \in Requests : state[r] = "PREFILL" => Idle(r)
    /\ phase = "plan_prefill" =>
          /\ Len(plan.decode) + Len(plan.prefill) + todo <= MaxBatch
          /\ todo <= Len(prefillQ)
          /\ \A i \in 1 .. todo : Idle(prefillQ[i])

\* The types of the scheduler's own variables.
ControlTypeOK ==
    /\ state \in [Requests -> States]
    /\ shape \in [Requests -> Shapes \cup {NoShape}]
    /\ cursor \in [Requests -> Nat]
    /\ ngen \in [Requests -> Nat]
    /\ due \in SUBSET Requests
    /\ inflight \in [Requests -> [kind : {"none", "prefill", "decode"}, count : Nat]]
    /\ reserved \in [Requests -> 0 .. NumBlocks]
    /\ phase \in Phases
    /\ todo \in Nat
    /\ budget \in Nat

\* A plan is a record of works and never exceeds the batch.
PlanInv ==
    /\ plan = [decode |-> plan.decode, prefill |-> plan.prefill, graph |-> plan.graph]
    /\ plan.decode \in Seq(DecodeWorks)
    /\ plan.prefill \in Seq(PrefillWorks)
    /\ Len(plan.decode) + Len(plan.prefill) <= MaxBatch

QueueInv ==
    /\ prefillQ \in Seq(Requests)
    /\ decodeQ \in Seq(Requests)
    /\ QueuesMatchStates

SchedInv ==
    /\ KVInv
    /\ ControlTypeOK
    /\ PlanInv
    /\ QueueInv
    /\ \A r \in Requests : RequestInv(r)
    /\ AdmittedBlocks <= NumBlocks
    /\ LoopInv

-----------------------------------------------------------------------------
\* Queues. A queue is sound when it lists nobody twice.

Distinct(q) == \A i, j \in DOMAIN q : q[i] = q[j] => i = j
Has(q, r) == \E i \in DOMAIN q : q[i] = r

\* A queue holds the requests of a state once each, in terms of membership.
LEMMA QueuedExactlyHas ==
    ASSUME NEW q, NEW st
    PROVE  QueuedExactly(q, st)
             <=> Distinct(q) /\ \A r \in Requests : state[r] = st <=> Has(q, r)
BY DEF QueuedExactly, Distinct, Has

\* append adds one request at the end.
LEMMA AppendQueue ==
    ASSUME NEW q \in Seq(Requests), NEW r \in Requests, Distinct(q), ~Has(q, r)
    PROVE  /\ Append(q, r) \in Seq(Requests)
           /\ Distinct(Append(q, r))
           /\ \A x \in Requests : Has(Append(q, r), x) <=> Has(q, x) \/ x = r
<1>1. /\ Append(q, r) \in Seq(Requests)
      /\ DOMAIN Append(q, r) = 1 .. Len(q) + 1
      /\ DOMAIN q = 1 .. Len(q)
      /\ Len(q) \in Nat
      /\ \A i \in 1 .. Len(q) : Append(q, r)[i] = q[i]
      /\ Append(q, r)[Len(q) + 1] = r
  OBVIOUS
<1>2. Distinct(Append(q, r))
  BY <1>1 DEF Distinct, Has
<1>3. ASSUME NEW x \in Requests
      PROVE  Has(Append(q, r), x) <=> Has(q, x) \/ x = r
  <2>1. ASSUME Has(q, x) PROVE Has(Append(q, r), x)
    BY <1>1, <2>1 DEF Has
  <2>2. ASSUME x = r PROVE Has(Append(q, r), x)
    BY <1>1, <2>2 DEF Has
  <2>3. ASSUME Has(Append(q, r), x) PROVE Has(q, x) \/ x = r
    BY <1>1, <2>3 DEF Has
  <2>4. QED
    BY <2>1, <2>2, <2>3
<1>4. QED
  BY <1>1, <1>2, <1>3

\* A rotation keeps everybody, and shifts the others one place forward.
LEMMA RotateQueue ==
    ASSUME NEW q \in Seq(Requests), Distinct(q), q # <<>>
    PROVE  /\ Rotate(q) \in Seq(Requests)
           /\ Len(Rotate(q)) = Len(q)
           /\ Distinct(Rotate(q))
           /\ \A x \in Requests : Has(Rotate(q), x) <=> Has(q, x)
           /\ \A i \in 1 .. Len(q) - 1 : Rotate(q)[i] = q[i + 1]
<1>1. /\ Rotate(q) \in Seq(Requests)
      /\ Len(q) \in Nat \ {0}
      /\ Len(Rotate(q)) = Len(q)
      /\ DOMAIN q = 1 .. Len(q)
      /\ DOMAIN Rotate(q) = 1 .. Len(q)
      /\ \A i \in 1 .. Len(q) - 1 : Rotate(q)[i] = q[i + 1]
      /\ Rotate(q)[Len(q)] = q[1]
  BY DEF Rotate
<1>2. Distinct(Rotate(q))
  <2> SUFFICES ASSUME NEW i \in 1 .. Len(q), NEW j \in 1 .. Len(q), Rotate(q)[i] = Rotate(q)[j]
               PROVE  i = j
    BY <1>1 DEF Distinct
  <2>0. \A k, m \in 1 .. Len(q) : q[k] = q[m] => k = m
    BY <1>1 DEF Distinct
  <2>1. \A k \in 1 .. Len(q) - 1 : k + 1 \in 1 .. Len(q) /\ k + 1 # 1 /\ 1 \in 1 .. Len(q)
    BY <1>1
  <2>2. i = Len(q) \/ i \in 1 .. Len(q) - 1
    OBVIOUS
  <2>3. j = Len(q) \/ j \in 1 .. Len(q) - 1
    OBVIOUS
  <2>4. CASE i = Len(q) /\ j \in 1 .. Len(q) - 1
    BY <1>1, <2>0, <2>1, <2>4
  <2>5. CASE j = Len(q) /\ i \in 1 .. Len(q) - 1
    BY <1>1, <2>0, <2>1, <2>5
  <2>6. CASE i \in 1 .. Len(q) - 1 /\ j \in 1 .. Len(q) - 1
    BY <1>1, <2>0, <2>1, <2>6
  <2>7. QED
    BY <2>2, <2>3, <2>4, <2>5, <2>6
<1>3. ASSUME NEW x \in Requests PROVE Has(Rotate(q), x) <=> Has(q, x)
  <2>1. ASSUME NEW i \in 1 .. Len(q), q[i] = x PROVE Has(Rotate(q), x)
    <3>1. CASE i = 1
      BY <1>1, <2>1, <3>1 DEF Has
    <3>2. CASE i # 1
      <4>1. i - 1 \in 1 .. Len(q) - 1 /\ (i - 1) + 1 = i
        BY <1>1, <3>2
      <4>2. Rotate(q)[i - 1] = x /\ i - 1 \in DOMAIN Rotate(q)
        BY <1>1, <2>1, <4>1
      <4>3. QED
        BY <4>2 DEF Has
    <3>3. QED
      BY <3>1, <3>2
  <2>2. ASSUME NEW i \in 1 .. Len(q), Rotate(q)[i] = x PROVE Has(q, x)
    <3>1. CASE i = Len(q)
      BY <1>1, <2>2, <3>1 DEF Has
    <3>2. CASE i # Len(q)
      <4>1. i \in 1 .. Len(q) - 1 /\ i + 1 \in 1 .. Len(q)
        BY <3>2
      <4>2. q[i + 1] = x /\ i + 1 \in DOMAIN q
        BY <1>1, <2>2, <4>1
      <4>3. QED
        BY <4>2 DEF Has
    <3>3. QED
      BY <3>1, <3>2
  <2>3. QED
    BY <1>1, <2>1, <2>2 DEF Has
<1>4. QED
  BY <1>1, <1>2, <1>3

\* A stable sort is a permutation.
LEMMA SortQueue ==
    ASSUME NEW q \in Seq(Requests), Distinct(q), shape \in [Requests -> Shapes \cup {NoShape}],
           NEW p \in [DOMAIN q -> DOMAIN q], SortsByPriority(p, q),
           NEW u, u = [i \in DOMAIN q |-> q[p[i]]]
    PROVE  /\ u \in Seq(Requests)
           /\ Len(u) = Len(q)
           /\ Distinct(u)
           /\ \A x \in Requests : Has(u, x) <=> Has(q, x)
<1>1. DOMAIN q = 1 .. Len(q) /\ Len(q) \in Nat
  OBVIOUS
<1>2. u \in [1 .. Len(q) -> Requests]
  BY <1>1
<1>3. u \in Seq(Requests) /\ Len(u) = Len(q) /\ DOMAIN u = 1 .. Len(q)
  BY <1>1, <1>2, SeqFromFunction
<1>4. \A r \in Requests : shape[r].prio \in Int
  BY ShapesAssumption DEF NoShape
<1>5. \A i, j \in DOMAIN q : i < j => p[i] # p[j]
  <2> SUFFICES ASSUME NEW i \in DOMAIN q, NEW j \in DOMAIN q, i < j, p[i] = p[j] PROVE FALSE
    OBVIOUS
  <2>1. \/ shape[q[p[i]]].prio > shape[q[p[j]]].prio
        \/ p[i] < p[j]
    BY DEF SortsByPriority
  <2>2. p[i] \in Nat /\ q[p[i]] \in Requests
    BY <1>1
  <2>3. shape[q[p[i]]].prio \in Int
    BY <1>4, <2>2
  <2>4. QED
    BY <2>1, <2>2, <2>3
<1>6. Distinct(u)
  <2> SUFFICES ASSUME NEW i \in DOMAIN q, NEW j \in DOMAIN q, u[i] = u[j] PROVE i = j
    BY <1>1, <1>3 DEF Distinct
  <2>1. p[i] = p[j]
    BY DEF Distinct
  <2>2. QED
    BY <1>1, <1>5, <2>1
<1>7. ASSUME NEW x \in Requests PROVE Has(u, x) <=> Has(q, x)
  <2>1. ASSUME NEW i \in DOMAIN q, u[i] = x PROVE Has(q, x)
    BY <2>1 DEF Has
  <2>2. ASSUME NEW k \in DOMAIN q, q[k] = x PROVE Has(u, x)
    <3>1. PICK i \in DOMAIN q : p[i] = k
      BY DEF SortsByPriority
    <3>2. u[i] = x /\ i \in DOMAIN u
      BY <2>2, <3>1
    <3>3. QED
      BY <3>2 DEF Has
  <2>3. QED
    BY <1>1, <1>3, <2>1, <2>2 DEF Has
<1>8. QED
  BY <1>3, <1>6, <1>7
\* _remove takes exactly the given request out.
LEMMA RemoveQueue ==
    ASSUME NEW q \in Seq(Requests), NEW r \in Requests, Distinct(q)
    PROVE  /\ RemoveFirst(q, r) \in Seq(Requests)
           /\ Distinct(RemoveFirst(q, r))
           /\ \A x \in Requests : Has(RemoveFirst(q, r), x) <=> Has(q, x) /\ x # r
<1>1. CASE ~Has(q, r)
  <2>1. RemoveFirst(q, r) = q
    BY <1>1 DEF RemoveFirst, Has
  <2>2. QED
    BY <1>1, <2>1
<1>2. CASE Has(q, r)
  <2> DEFINE first(i) == q[i] = r /\ \A j \in 1 .. i - 1 : q[j] # r
             k == CHOOSE i \in DOMAIN q : first(i)
             u == [i \in 1 .. Len(q) - 1 |-> IF i < k THEN q[i] ELSE q[i + 1]]
  <2>1. \E i \in DOMAIN q : first(i)
    <3>1. PICK i \in DOMAIN q : q[i] = r
      BY <1>2 DEF Has
    <3>2. \A j \in 1 .. i - 1 : q[j] # r
      BY <3>1 DEF Distinct
    <3>3. QED
      BY <3>1, <3>2
  <2>2. k \in DOMAIN q /\ first(k)
    BY <2>1
  <2>3. RemoveFirst(q, r) = u
    BY <1>2 DEF RemoveFirst, Has
  <2> HIDE DEF k
  <2>4. k \in 1 .. Len(q) /\ q[k] = r /\ Len(q) \in Nat \ {0} /\ DOMAIN q = 1 .. Len(q)
    BY <2>2
  <2>5. \A i \in 1 .. Len(q) - 1 : i \in 1 .. Len(q) /\ i + 1 \in 1 .. Len(q)
    BY <2>4
  <2>6. u \in [1 .. Len(q) - 1 -> Requests]
    BY <2>4, <2>5
  <2>7. Len(q) - 1 \in Nat
    BY <2>4
  <2>8. u \in Seq(Requests) /\ Len(u) = Len(q) - 1 /\ DOMAIN u = 1 .. Len(q) - 1
    BY <2>6, <2>7, SeqFromFunction
  <2>9. \A i, j \in 1 .. Len(q) : q[i] = q[j] => i = j
    BY <2>4 DEF Distinct
  <2>10. Distinct(u)
    <3> SUFFICES ASSUME NEW i \in 1 .. Len(q) - 1, NEW j \in 1 .. Len(q) - 1, u[i] = u[j]
                 PROVE  i = j
      BY <2>8 DEF Distinct
    <3>1. CASE i < k /\ j < k
      BY <2>5, <2>9, <3>1
    <3>2. CASE i < k /\ ~(j < k)
      <4>1. q[i] = q[j + 1]
        BY <3>2
      <4>2. i = j + 1
        BY <2>5, <2>9, <4>1
      <4>3. QED
        BY <3>2, <4>2, <2>4
    <3>3. CASE ~(i < k) /\ j < k
      <4>1. q[i + 1] = q[j]
        BY <3>3
      <4>2. j = i + 1
        BY <2>5, <2>9, <4>1
      <4>3. QED
        BY <3>3, <4>2, <2>4
    <3>4. CASE ~(i < k) /\ ~(j < k)
      <4>1. q[i + 1] = q[j + 1]
        BY <3>4
      <4>2. i + 1 = j + 1
        BY <2>5, <2>9, <4>1
      <4>3. QED
        BY <4>2
    <3>5. QED
      BY <3>1, <3>2, <3>3, <3>4
  <2>11. ASSUME NEW x \in Requests, NEW i \in 1 .. Len(q) - 1, u[i] = x
         PROVE  Has(q, x) /\ x # r
    <3>1. CASE i < k
      <4>1. q[i] = x /\ i \in 1 .. Len(q) /\ i # k
        BY <2>5, <2>11, <3>1, <2>4
      <4>2. QED
        BY <4>1, <2>4, <2>9 DEF Has
    <3>2. CASE ~(i < k)
      <4>1. q[i + 1] = x /\ i + 1 \in 1 .. Len(q)
        BY <2>5, <2>11, <3>2
      <4>2. i + 1 # k
        BY <3>2, <2>4
      <4>3. QED
        BY <4>1, <4>2, <2>4, <2>9 DEF Has
    <3>3. QED
      BY <3>1, <3>2
  <2>12. ASSUME NEW x \in Requests, x # r, NEW i \in 1 .. Len(q), q[i] = x
         PROVE  Has(u, x)
    <3>0. i # k
      BY <2>4, <2>12
    <3>1. CASE i < k
      <4>1. i \in 1 .. Len(q) - 1
        BY <3>1, <2>4
      <4>2. u[i] = x /\ i \in DOMAIN u
        BY <2>8, <2>12, <3>1, <4>1
      <4>3. QED
        BY <4>2 DEF Has
    <3>2. CASE i > k
      <4>1. i - 1 \in 1 .. Len(q) - 1 /\ (i - 1) + 1 = i /\ ~(i - 1 < k)
        BY <3>2, <2>4
      <4>2. u[i - 1] = x /\ i - 1 \in DOMAIN u
        BY <2>8, <2>12, <4>1
      <4>3. QED
        BY <4>2 DEF Has
    <3>3. QED
      BY <3>0, <3>1, <3>2, <2>4
  <2>13. \A x \in Requests : Has(u, x) <=> Has(q, x) /\ x # r
    BY <2>4, <2>8, <2>11, <2>12 DEF Has
  <2>14. QED
    BY <2>3, <2>8, <2>10, <2>13
<1>3. QED
  BY <1>1, <1>2

-----------------------------------------------------------------------------
\* What the allocator's operations do to lengths and live requests.

\* What releasing a request leaves of the pool.
LEMMA ReleaseFrame ==
    ASSUME KVInv, NEW r \in Requests, Release(r)
    PROVE  /\ live' = live \ {r}
           /\ len' = [len EXCEPT ![r] = 0]
<1>1. len \in [Requests -> Nat]
  BY DEF KVInv, KVTypeOK
<1>2. CASE r \in live
  BY <1>2 DEF Release
<1>3. CASE r \notin live
  <2>1. len[r] = 0
    BY <1>3 DEF KVInv, TableFitsLength
  <2>2. live' = live /\ len' = len
    BY <1>3 DEF Release, kvVars
  <2>3. QED
    BY <1>1, <1>3, <2>1, <2>2
<1>4. QED
  BY <1>2, <1>3

\* What appending slots to a live request changes of the pool.
LEMMA AppendFrame ==
    ASSUME KVInv, NEW r \in Requests, NEW n \in Nat, AppendSlots(r, n), CanAppend(r, n)
    PROVE  /\ r \in live
           /\ live' = live
           /\ len' = [len EXCEPT ![r] = @ + n]
BY DEF AppendSlots, Reserve
-----------------------------------------------------------------------------
\* Reservations.

\* A set of block tickets is finite.
LEMMA TicketsFinite ==
    ASSUME NEW S \in SUBSET (Requests \X (1 .. NumBlocks))
    PROVE  IsFiniteSet(S) /\ Cardinality(S) \in Nat
<1>1. IsFiniteSet(1 .. NumBlocks)
  BY PoolTypes, FS_Interval
<1>2. IsFiniteSet(Requests \X (1 .. NumBlocks))
  BY <1>1, RequestsAssumption, FS_Product
<1>3. IsFiniteSet(S)
  BY <1>2, FS_Subset
<1>4. QED
  BY <1>3, FS_CardinalityType

\* As many tickets of one request as numbers in an interval.
LEMMA TicketsOfOne ==
    ASSUME NEW r, NEW a \in Nat, NEW b \in Nat, a <= b
    PROVE  /\ IsFiniteSet({r} \X (a + 1 .. b))
           /\ Cardinality({r} \X (a + 1 .. b)) = b - a
<1>1. IsFiniteSet({r}) /\ Cardinality({r}) = 1
  BY FS_Singleton
<1>2. IsFiniteSet(a + 1 .. b) /\ Cardinality(a + 1 .. b) = b - a
  <2>1. a + 1 \in Int /\ b \in Int
    OBVIOUS
  <2>2. IsFiniteSet(a + 1 .. b) /\ Cardinality(a + 1 .. b) = IF a + 1 > b THEN 0 ELSE b - (a + 1) + 1
    BY <2>1, FS_Interval
  <2>3. QED
    BY <2>2
<1>3. /\ IsFiniteSet({r} \X (a + 1 .. b))
      /\ Cardinality({r} \X (a + 1 .. b)) = Cardinality({r}) * Cardinality(a + 1 .. b)
  BY <1>1, <1>2, FS_Product
<1>4. QED
  BY <1>1, <1>2, <1>3

\* A new reservation adds to the sum.
LEMMA AddReservation ==
    ASSUME reserved \in [Requests -> 0 .. NumBlocks], NEW r \in Requests, reserved[r] = 0,
           NEW n \in 0 .. NumBlocks, reserved' = [reserved EXCEPT ![r] = n]
    PROVE  AdmittedBlocks' = AdmittedBlocks + n
<1> DEFINE new == {r} \X (0 + 1 .. n)
<1>1. Tickets' = Tickets \cup new
  BY PoolTypes DEF Tickets
<1>2. Tickets \cap new = {}
  BY PoolTypes DEF Tickets
<1>3. IsFiniteSet(Tickets) /\ Cardinality(Tickets) \in Nat
  BY TicketsFinite DEF Tickets
<1>4. IsFiniteSet(new) /\ Cardinality(new) = n
  <2>1. n \in Nat /\ 0 \in Nat /\ 0 <= n
    BY PoolTypes
  <2>2. \A a, b \in Nat : a <= b =>
            IsFiniteSet({r} \X (a + 1 .. b)) /\ Cardinality({r} \X (a + 1 .. b)) = b - a
    BY TicketsOfOne
  <2>3. IsFiniteSet(new) /\ Cardinality(new) = n - 0
    BY <2>1, <2>2
  <2>4. QED
    BY <2>1, <2>3
<1>5. Cardinality(Tickets \cup new)
        = Cardinality(Tickets) + Cardinality(new) - Cardinality(Tickets \cap new)
  BY <1>3, <1>4, FS_Union
<1>6. Cardinality(Tickets \cap new) = 0
  BY <1>2, FS_EmptySet
<1>7. QED
  <2>1. n \in Nat
    BY PoolTypes
  <2>2. QED
    BY <2>1, <1>1, <1>3, <1>4, <1>5, <1>6 DEF AdmittedBlocks

\* A reservation given back lowers the sum.
LEMMA DropReservation ==
    ASSUME reserved \in [Requests -> 0 .. NumBlocks], NEW r \in Requests,
           reserved' = [reserved EXCEPT ![r] = 0]
    PROVE  AdmittedBlocks' \in Nat /\ AdmittedBlocks' <= AdmittedBlocks /\ AdmittedBlocks \in Nat
<1>1. Tickets' \subseteq Tickets
  BY PoolTypes DEF Tickets
<1>2. Tickets \in SUBSET (Requests \X (1 .. NumBlocks))
  BY DEF Tickets
<1>3. IsFiniteSet(Tickets) /\ Cardinality(Tickets) \in Nat
  BY <1>2, TicketsFinite
<1>4. Tickets' \in SUBSET (Requests \X (1 .. NumBlocks))
  BY <1>1, <1>2
<1>5. Cardinality(Tickets') \in Nat
  BY <1>4, TicketsFinite
<1>6. Cardinality(Tickets') <= Cardinality(Tickets)
  BY <1>1, <1>3, FS_Subset
<1>7. QED
  BY <1>3, <1>5, <1>6 DEF AdmittedBlocks

\* The argument of admission control. Tickets pay for blocks: every listed block
\* is paid by the ticket of its owner and its place in the table, and the blocks r
\* still needs by further tickets of r. There are at most NumBlocks tickets, so
\* the unlisted blocks suffice.
LEMMA ReservationsSuffice ==
    ASSUME KVInv, reserved \in [Requests -> 0 .. NumBlocks], AdmittedBlocks <= NumBlocks,
           \A q \in Requests : Len(table[q]) <= reserved[q],
           NEW r \in Requests, NEW n \in Nat, BlocksForTokens(len[r] + n) <= reserved[r]
    PROVE  CanAppend(r, n)
<1> DEFINE used == {t \in Requests \X (1 .. NumBlocks) : t[2] <= Len(table[t[1]])}
           need == BlocksForTokens(len[r] + n)
           extra == {r} \X (Len(table[r]) + 1 .. need)
           listed == Blocks \ free
<1>1. /\ table \in [Requests -> Seq(Blocks)]
      /\ len[r] \in Nat /\ len[r] + n \in Nat
      /\ free \subseteq Blocks
      /\ \A q \in Requests : Len(table[q]) \in Nat /\ DOMAIN table[q] = 1 .. Len(table[q])
  BY DEF KVInv, KVTypeOK
<1>2. need \in Nat /\ Len(table[r]) <= need
  <2>1. Len(table[r]) = BlocksForTokens(len[r])
    BY DEF KVInv, TableFitsLength
  <2>2. len[r] <= len[r] + n
    BY <1>1
  <2>3. BlocksForTokens(len[r]) <= need
    BY <1>1, <2>2, BlocksForTokensMonotone
  <2>4. need \in Nat
    BY <1>1, BlocksForTokensMonotone
  <2>5. QED
    BY <2>1, <2>3, <2>4
<1>3. IsFiniteSet(used) /\ Cardinality(used) \in Nat
  <2>1. used \in SUBSET (Requests \X (1 .. NumBlocks))
    OBVIOUS
  <2>2. QED
    BY <2>1, TicketsFinite
<1>4. IsFiniteSet(extra) /\ Cardinality(extra) = need - Len(table[r])
  BY <1>1, <1>2, TicketsOfOne
<1>5. used \subseteq Tickets
  <2>1. ASSUME NEW t \in used PROVE t[2] <= reserved[t[1]]
    <3>1. t[1] \in Requests /\ t[2] \in Int /\ t[2] <= Len(table[t[1]])
      OBVIOUS
    <3>2. Len(table[t[1]]) <= reserved[t[1]] /\ Len(table[t[1]]) \in Int /\ reserved[t[1]] \in Int
      BY <3>1, <1>1
    <3>3. QED
      BY <3>1, <3>2
  <2>2. QED
    BY <2>1 DEF Tickets
<1>6. extra \subseteq Tickets
  <2>1. ASSUME NEW k \in Len(table[r]) + 1 .. need
        PROVE  k \in 1 .. NumBlocks /\ k <= reserved[r]
    BY <1>1, <1>2, PoolTypes
  <2>2. QED
    BY <2>1 DEF Tickets
<1>7. used \cap extra = {}
  <2>1. \A k \in Len(table[r]) + 1 .. need : ~(k <= Len(table[r]))
    BY <1>1, <1>2
  <2>2. QED
    BY <2>1
<1>8. IsFiniteSet(Tickets) /\ Cardinality(Tickets) \in Nat
  BY TicketsFinite DEF Tickets
<1>9. Cardinality(used \cup extra) <= Cardinality(Tickets)
  BY <1>5, <1>6, <1>8, FS_Subset
<1>10. Cardinality(used \cup extra) = Cardinality(used) + Cardinality(extra)
  <2>1. Cardinality(used \cup extra)
          = Cardinality(used) + Cardinality(extra) - Cardinality(used \cap extra)
    BY <1>3, <1>4, FS_Union
  <2>2. Cardinality(used \cap extra) = 0
    BY <1>7, FS_EmptySet
  <2>3. QED
    BY <2>1, <2>2, <1>3, <1>4, <1>1, <1>2
<1>11. Cardinality(listed) <= Cardinality(used)
  <2> DEFINE f == [t \in used |-> table[t[1]][t[2]]]
  <2>1. ASSUME NEW t \in used PROVE table[t[1]][t[2]] \in listed
    <3>1. t[1] \in Requests /\ t[2] \in 1 .. NumBlocks /\ t[2] <= Len(table[t[1]])
      OBVIOUS
    <3>2. t[2] \in DOMAIN table[t[1]]
      BY <3>1, <1>1
    <3>3. table[t[1]][t[2]] \in Blocks
      BY <3>1, <3>2, <1>1
    <3>4. table[t[1]][t[2]] \notin free
      BY <3>1, <3>2, <3>3 DEF KVInv, OneOwnerPerBlock
    <3>5. QED
      BY <3>3, <3>4
  <2>2. ASSUME NEW b \in listed PROVE \E t \in used : f[t] = b
    <3>1. PICK q \in Requests : \E k \in DOMAIN table[q] : table[q][k] = b
      BY DEF KVInv, OneOwnerPerBlock
    <3>2. PICK k \in DOMAIN table[q] : table[q][k] = b
      BY <3>1
    <3>3. k \in 1 .. NumBlocks /\ k <= Len(table[q])
      <4>1. k \in 1 .. Len(table[q]) /\ Len(table[q]) \in Nat
        BY <1>1
      <4>2. Len(table[q]) <= reserved[q] /\ reserved[q] \in 0 .. NumBlocks
        OBVIOUS
      <4>3. QED
        BY <4>1, <4>2, PoolTypes
    <3>4. <<q, k>> \in used
      BY <3>3
    <3>5. f[<<q, k>>] = b
      BY <3>2, <3>4
    <3>6. QED
      BY <3>4, <3>5
  <2>3. f \in [used -> listed]
    BY <2>1
  <2> HIDE DEF f
  <2>4. f \in Surjection(used, listed)
    BY <2>2, <2>3 DEF Surjection
  <2>5. QED
    BY <2>4, <1>3, FS_Surjection
<1>12. Cardinality(free) + Cardinality(listed) = NumBlocks
       /\ Cardinality(free) \in Nat /\ Cardinality(listed) \in Nat
  <2>1. IsFiniteSet(Blocks) /\ Cardinality(Blocks) = NumBlocks
    <3>1. 0 \in Int /\ NumBlocks - 1 \in Int /\ ~(0 > NumBlocks - 1) /\ NumBlocks - 1 - 0 + 1 = NumBlocks
      BY PoolTypes
    <3>2. /\ IsFiniteSet(0 .. NumBlocks - 1)
          /\ Cardinality(0 .. NumBlocks - 1) = IF 0 > NumBlocks - 1 THEN 0 ELSE NumBlocks - 1 - 0 + 1
      BY <3>1, FS_Interval
    <3>3. QED
      BY <3>1, <3>2 DEF Blocks
  <2>2. IsFiniteSet(free) /\ IsFiniteSet(listed)
    BY <1>1, <2>1, FS_Subset
  <2>3. Cardinality(free) \in Nat /\ Cardinality(listed) \in Nat
    BY <2>2, FS_CardinalityType
  <2>4. Cardinality(free \cup listed)
          = Cardinality(free) + Cardinality(listed) - Cardinality(free \cap listed)
    BY <2>2, FS_Union
  <2>5. free \cup listed = Blocks /\ free \cap listed = {}
    BY <1>1
  <2>6. Cardinality(free \cap listed) = 0
    BY <2>5, FS_EmptySet
  <2>7. Cardinality(free \cup listed) = NumBlocks
    BY <2>1, <2>5
  <2>8. QED
    BY <2>3, <2>4, <2>6, <2>7, PoolTypes
<1>13. Cardinality(used) + (need - Len(table[r])) <= NumBlocks
  <2>1. Cardinality(Tickets) <= NumBlocks
    BY DEF AdmittedBlocks
  <2>2. QED
    BY <2>1, <1>1, <1>2, <1>3, <1>4, <1>8, <1>9, <1>10, PoolTypes
<1>14. need - Len(table[r]) <= Cardinality(free)
  BY <1>1, <1>2, <1>3, <1>11, <1>12, <1>13, PoolTypes
<1>15. QED
  BY <1>14 DEF CanAppend, Additional
-----------------------------------------------------------------------------
\* Consequences of the invariant.

\* A request that an action does not touch keeps its invariant.
LEMMA RequestFrame ==
    ASSUME NEW q \in Requests, RequestInv(q),
           state'[q] = state[q], shape'[q] = shape[q], cursor'[q] = cursor[q],
           ngen'[q] = ngen[q], inflight'[q] = inflight[q], reserved'[q] = reserved[q],
           len'[q] = len[q], q \in live' <=> q \in live
    PROVE  RequestInv(q)'
BY DEF RequestInv, Unfinished, Idle, Reservation, BlocksForTokens

\* Prompt and token limit of an active request.
LEMMA ShapeTypes ==
    ASSUME SchedInv, NEW r \in Requests, Unfinished(r)
    PROVE  /\ shape[r].prompt \in Nat \ {0}
           /\ shape[r].max \in Nat \ {0}
           /\ reserved[r] = BlocksForTokens(shape[r].prompt + shape[r].max)
BY ShapesAssumption DEF SchedInv, RequestInv, Reservation

\* An active request never outgrows its prompt and its token limit.
LEMMA LengthBound ==
    ASSUME SchedInv, NEW r \in Requests, Unfinished(r)
    PROVE  len[r] \in Nat /\ len[r] <= shape[r].prompt + shape[r].max
<1>1. /\ len[r] \in Nat /\ cursor[r] \in Nat /\ ngen[r] \in Nat
      /\ inflight[r].count \in Nat
      /\ RequestInv(r)
  BY DEF SchedInv, KVInv, KVTypeOK, ControlTypeOK
<1>2. shape[r].prompt \in Nat \ {0} /\ shape[r].max \in Nat \ {0}
  BY ShapeTypes
<1>3. CASE state[r] = "PREFILL"
  BY <1>1, <1>2, <1>3 DEF RequestInv
<1>4. CASE state[r] = "DECODE"
  BY <1>1, <1>2, <1>4 DEF RequestInv, Idle, NoWork
<1>5. QED
  BY <1>3, <1>4 DEF Unfinished, Active

\* So its blocks are within its reservation.
LEMMA TablesWithinReservations ==
    ASSUME SchedInv, NEW r \in Requests
    PROVE  Len(table[r]) <= reserved[r]
<1>1. Len(table[r]) = BlocksForTokens(len[r])
  BY DEF SchedInv, KVInv, TableFitsLength
<1>2. CASE Unfinished(r)
  <2>1. /\ len[r] \in Nat /\ len[r] <= shape[r].prompt + shape[r].max
        /\ shape[r].prompt + shape[r].max \in Nat
    BY <1>2, LengthBound, ShapeTypes
  <2>2. BlocksForTokens(len[r]) <= BlocksForTokens(shape[r].prompt + shape[r].max)
    BY <2>1, BlocksForTokensMonotone
  <2>3. QED
    BY <1>1, <1>2, <2>2, ShapeTypes
<1>3. CASE ~Unfinished(r)
  <2>1. reserved[r] = 0 /\ len[r] = 0
    BY <1>3 DEF SchedInv, RequestInv, KVInv, TableFitsLength
  <2>2. BlocksForTokens(0) = 0
    BY BlocksForTokensMonotone
  <2>3. QED
    BY <1>1, <2>1, <2>2
<1>4. QED
  BY <1>2, <1>3

\* plan() finds the blocks for whatever stays within the reservation.
LEMMA PlanFindsBlocks ==
    ASSUME SchedInv, NEW r \in Requests, Unfinished(r), NEW n \in Nat,
           len[r] + n <= shape[r].prompt + shape[r].max
    PROVE  CanAppend(r, n)
<1>1. /\ len[r] \in Nat
      /\ len[r] + n \in Nat
      /\ shape[r].prompt + shape[r].max \in Nat
  BY LengthBound, ShapeTypes
<1>2. BlocksForTokens(len[r] + n) <= BlocksForTokens(shape[r].prompt + shape[r].max)
  BY <1>1, BlocksForTokensMonotone
<1>3. BlocksForTokens(len[r] + n) <= reserved[r]
  BY <1>2, ShapeTypes
<1>4. \A q \in Requests : Len(table[q]) <= reserved[q]
  BY TablesWithinReservations
<1>5. KVInv /\ reserved \in [Requests -> 0 .. NumBlocks] /\ AdmittedBlocks <= NumBlocks
  BY DEF SchedInv, ControlTypeOK
<1>6. QED
  BY <1>3, <1>4, <1>5, ReservationsSuffice

\* The queues, request by request.
LEMMA Queues ==
    ASSUME SchedInv
    PROVE  /\ prefillQ \in Seq(Requests) /\ Distinct(prefillQ)
           /\ decodeQ \in Seq(Requests) /\ Distinct(decodeQ)
           /\ \A r \in Requests : state[r] = "PREFILL" <=> Has(prefillQ, r)
           /\ \A r \in Requests : state[r] = "DECODE" <=> Has(decodeQ, r)
BY QueuedExactlyHas DEF SchedInv, QueueInv, QueuesMatchStates

\* and back.
LEMMA QueuesPrimed ==
    ASSUME /\ prefillQ' \in Seq(Requests) /\ Distinct(prefillQ')
           /\ decodeQ' \in Seq(Requests) /\ Distinct(decodeQ')
           /\ \A r \in Requests : state'[r] = "PREFILL" <=> Has(prefillQ', r)
           /\ \A r \in Requests : state'[r] = "DECODE" <=> Has(decodeQ', r)
    PROVE  QueueInv'
BY DEF QueueInv, QueuesMatchStates, QueuedExactly, Distinct, Has

-----------------------------------------------------------------------------
\* A request ends.

\* What _cleanup_terminal leaves of a request: nothing in the pool, in flight, in
\* reservation or in a queue.
LEMMA CleanupEffect ==
    ASSUME SchedInv, NEW r \in Requests, Cleanup(r)
    PROVE  /\ KVInv'
           /\ live' = live \ {r}
           /\ len' = [len EXCEPT ![r] = 0]
           /\ inflight' = [inflight EXCEPT ![r] = NoWork]
           /\ reserved' = [reserved EXCEPT ![r] = 0]
           /\ AdmittedBlocks' <= NumBlocks
           /\ prefillQ' \in Seq(Requests) /\ Distinct(prefillQ')
           /\ decodeQ' \in Seq(Requests) /\ Distinct(decodeQ')
           /\ \A x \in Requests : Has(prefillQ', x) <=> Has(prefillQ, x) /\ x # r
           /\ \A x \in Requests : Has(decodeQ', x) <=> Has(decodeQ, x) /\ x # r
<1>1. /\ inflight' = [inflight EXCEPT ![r] = NoWork]
      /\ reserved' = [reserved EXCEPT ![r] = 0]
      /\ prefillQ' = RemoveFirst(prefillQ, r)
      /\ decodeQ' = RemoveFirst(decodeQ, r)
      /\ Release(r)
  BY DEF Cleanup
<1>2. KVInv /\ reserved \in [Requests -> 0 .. NumBlocks] /\ AdmittedBlocks <= NumBlocks
  BY DEF SchedInv, ControlTypeOK
<1>3. KVInv'
  BY <1>1, <1>2, ReleaseInv
<1>4. live' = live \ {r} /\ len' = [len EXCEPT ![r] = 0]
  BY <1>1, <1>2, ReleaseFrame
<1>5. AdmittedBlocks' <= NumBlocks
  <2>1. AdmittedBlocks' \in Nat /\ AdmittedBlocks' <= AdmittedBlocks /\ AdmittedBlocks \in Nat
    BY <1>1, <1>2, DropReservation
  <2>2. QED
    BY <2>1, <1>2, PoolTypes
<1>6. /\ prefillQ' \in Seq(Requests) /\ Distinct(prefillQ')
      /\ \A x \in Requests : Has(prefillQ', x) <=> Has(prefillQ, x) /\ x # r
  BY <1>1, Queues, RemoveQueue
<1>7. /\ decodeQ' \in Seq(Requests) /\ Distinct(decodeQ')
      /\ \A x \in Requests : Has(decodeQ', x) <=> Has(decodeQ, x) /\ x # r
  BY <1>1, Queues, RemoveQueue
<1>8. QED
  BY <1>1, <1>3, <1>4, <1>5, <1>6, <1>7

\* However a request ends, outside the loops of plan() that serve requests, the
\* invariant survives.
LEMMA EndPreserves ==
    ASSUME SchedInv, NEW r \in Requests, NEW final \in Terminal,
           Cleanup(r), state' = [state EXCEPT ![r] = final],
           ngen' \in [Requests -> Nat], \A q \in Requests \ {r} : ngen'[q] = ngen[q],
           UNCHANGED <<shape, cursor, due, planVars>>,
           phase \in {"idle", "expire", "plan_expire"}
    PROVE  SchedInv'
<1>1. /\ KVInv'
      /\ live' = live \ {r}
      /\ len' = [len EXCEPT ![r] = 0]
      /\ inflight' = [inflight EXCEPT ![r] = NoWork]
      /\ reserved' = [reserved EXCEPT ![r] = 0]
      /\ AdmittedBlocks' <= NumBlocks
      /\ prefillQ' \in Seq(Requests) /\ Distinct(prefillQ')
      /\ decodeQ' \in Seq(Requests) /\ Distinct(decodeQ')
      /\ \A x \in Requests : Has(prefillQ', x) <=> Has(prefillQ, x) /\ x # r
      /\ \A x \in Requests : Has(decodeQ', x) <=> Has(decodeQ, x) /\ x # r
  BY CleanupEffect
<1>2. /\ ControlTypeOK
      /\ len \in [Requests -> Nat]
      /\ live \in SUBSET Requests
      /\ \A q \in Requests : RequestInv(q)
  BY DEF SchedInv, KVInv, KVTypeOK
<1>3. ControlTypeOK'
  <2>1. final \in States
    BY DEF States
  <2>2. NoWork \in [kind : {"none", "prefill", "decode"}, count : Nat]
    BY DEF NoWork
  <2>3. 0 \in 0 .. NumBlocks
    BY PoolTypes
  <2>4. QED
    BY <1>1, <1>2, <2>1, <2>2, <2>3 DEF ControlTypeOK, planVars
<1>4. PlanInv'
  BY DEF SchedInv, PlanInv, planVars
<1>5. /\ state'[r] = final
      /\ \A q \in Requests \ {r} : state'[q] = state[q]
      /\ final \notin Active /\ final # "NEW"
  BY <1>2 DEF ControlTypeOK, Terminal, Active
<1>6. QueueInv'
  <2>1. \A x \in Requests : state'[x] = "PREFILL" <=> Has(prefillQ', x)
    BY <1>1, <1>5, Queues DEF Active
  <2>2. \A x \in Requests : state'[x] = "DECODE" <=> Has(decodeQ', x)
    BY <1>1, <1>5, Queues DEF Active
  <2>3. QED
    BY <1>1, <2>1, <2>2, QueuesPrimed
<1>7. \A q \in Requests : RequestInv(q)'
  <2> TAKE q \in Requests
  <2>1. CASE q = r
    <3>1. r \notin live' /\ reserved'[r] = 0 /\ inflight'[r] = NoWork
      BY <1>1, <1>2 DEF ControlTypeOK
    <3>2. state'[r] = final /\ ~(Unfinished(r)')
      BY <1>5 DEF Unfinished
    <3>3. QED
      BY <2>1, <3>1, <3>2, <1>5 DEF RequestInv, Idle, Unfinished, Active
  <2>2. CASE q # r
    <3>1. /\ state'[q] = state[q] /\ shape'[q] = shape[q] /\ cursor'[q] = cursor[q]
          /\ ngen'[q] = ngen[q] /\ inflight'[q] = inflight[q] /\ reserved'[q] = reserved[q]
          /\ len'[q] = len[q] /\ (q \in live' <=> q \in live)
      BY <1>1, <1>2, <1>5, <2>2 DEF ControlTypeOK
    <3>2. QED
      BY <3>1, <1>2, RequestFrame
  <2>3. QED
    BY <2>1, <2>2
<1>8. LoopInv'
  <2>1. phase' = phase
    BY DEF planVars
  <2>2. phase = "plan_expire" => NothingInFlight'
    BY <1>1, <1>2 DEF SchedInv, LoopInv, NothingInFlight, Idle, ControlTypeOK
  <2>3. phase = "plan_expire" => \A q \in Requests : ~(AwaitsFirstSample(q)')
    BY <1>5 DEF SchedInv, LoopInv, AwaitsFirstSample, Active
  <2>4. QED
    BY <2>1, <2>2, <2>3 DEF LoopInv
<1>9. QED
  BY <1>1, <1>3, <1>4, <1>6, <1>7, <1>8 DEF SchedInv

-----------------------------------------------------------------------------
\* Initial states.

\* The empty scheduler satisfies the invariant.
LEMMA SchedInitInv == SchedInit => SchedInv
<1> SUFFICES ASSUME SchedInit PROVE SchedInv
  OBVIOUS
<1>1. KVInv
  BY KVInitInv DEF SchedInit
<1>2. ControlTypeOK
  BY PoolTypes DEF SchedInit, ControlTypeOK, States, Phases, NoWork
<1>3. PlanInv
  BY LimitsAssumption DEF SchedInit, PlanInv, NoPlan
<1>4. QueueInv
  BY DEF SchedInit, QueueInv, QueuesMatchStates, QueuedExactly
<1>5. \A r \in Requests : RequestInv(r)
  BY DEF SchedInit, KVInit, RequestInv, Unfinished, Active, Idle
<1>6. AdmittedBlocks <= NumBlocks
  <2>1. Tickets = {}
    BY PoolTypes DEF SchedInit, Tickets
  <2>2. Cardinality(Tickets) = 0
    BY <2>1, FS_EmptySet
  <2>3. QED
    BY <2>2, PoolTypes DEF AdmittedBlocks
<1>7. LoopInv
  BY DEF SchedInit, LoopInv
<1>8. QED
  BY <1>1, <1>2, <1>3, <1>4, <1>5, <1>6, <1>7 DEF SchedInv

-----------------------------------------------------------------------------
\* Steps that move one request.

\* When one request moves, the others keep their invariants.
LEMMA OneRequestMoves ==
    ASSUME SchedInv, NEW r \in Requests, RequestInv(r)',
           \A q \in Requests \ {r} :
              /\ state'[q] = state[q] /\ shape'[q] = shape[q] /\ cursor'[q] = cursor[q]
              /\ ngen'[q] = ngen[q] /\ inflight'[q] = inflight[q] /\ reserved'[q] = reserved[q]
              /\ len'[q] = len[q] /\ (q \in live' <=> q \in live)
    PROVE  \A q \in Requests : RequestInv(q)'
<1> TAKE q \in Requests
<1>1. CASE q = r
  BY <1>1
<1>2. CASE q # r
  <2>1. RequestInv(q)
    BY DEF SchedInv
  <2>2. QED
    BY <1>2, <2>1, RequestFrame
<1>3. QED
  BY <1>1, <1>2

\* cancel, fail and expire.
LEMMA TerminateInv ==
    ASSUME SchedInv, NEW r \in Requests, NEW final \in Terminal, Terminate(r, final),
           UNCHANGED <<due, planVars>>, phase \in {"idle", "expire", "plan_expire"}
    PROVE  SchedInv'
<1>1. ngen' \in [Requests -> Nat] /\ \A q \in Requests \ {r} : ngen'[q] = ngen[q]
  BY DEF SchedInv, ControlTypeOK, Terminate
<1>2. /\ Cleanup(r)
      /\ state' = [state EXCEPT ![r] = final]
      /\ UNCHANGED <<shape, cursor, due, planVars>>
  BY DEF Terminate
<1>3. QED
  BY <1>1, <1>2, EndPreserves

\* complete_prefill_sample and complete_decode, both of a decoding request.
LEMMA AppendTokenInv ==
    ASSUME SchedInv, NEW r \in Requests, NEW stopped \in BOOLEAN, phase = "idle",
           SampleCommits(r) \/ DecodeCommits(r), AppendToken(r, stopped)
    PROVE  SchedInv'
<1>1. /\ ControlTypeOK
      /\ RequestInv(r)
      /\ state[r] = "DECODE"
      /\ ngen[r] \in Nat
      /\ len \in [Requests -> Nat]
  BY DEF SchedInv, KVInv, KVTypeOK, ControlTypeOK, SampleCommits, DecodeCommits
<1>2. /\ ngen' = [ngen EXCEPT ![r] = @ + 1]
      /\ UNCHANGED <<shape, cursor, due, planVars>>
  BY DEF AppendToken
<1>3. ngen' \in [Requests -> Nat] /\ \A q \in Requests \ {r} : ngen'[q] = ngen[q]
  BY <1>1, <1>2 DEF ControlTypeOK
<1>4. CASE stopped \/ ngen[r] + 1 >= shape[r].max
  <2>1. Cleanup(r) /\ state' = [state EXCEPT ![r] = "FINISHED"]
    BY <1>4 DEF AppendToken
  <2>2. "FINISHED" \in Terminal
    BY DEF Terminal
  <2>3. QED
    BY <1>2, <1>3, <2>1, <2>2, EndPreserves
<1>5. CASE ~(stopped \/ ngen[r] + 1 >= shape[r].max)
  <2>1. /\ inflight' = [inflight EXCEPT ![r] = NoWork]
        /\ UNCHANGED <<kvVars, state, prefillQ, decodeQ, reserved>>
    BY <1>5 DEF AppendToken
  <2>2. KVInv'
    BY <2>1 DEF SchedInv, KVInv, KVTypeOK, OneOwnerPerBlock, TableFitsLength, kvVars, BlocksForTokens
  <2>3. ControlTypeOK'
    <3>1. NoWork \in [kind : {"none", "prefill", "decode"}, count : Nat]
      BY DEF NoWork
    <3>2. QED
      BY <1>1, <1>2, <1>3, <2>1, <3>1 DEF ControlTypeOK, planVars
  <2>4. PlanInv'
    BY <1>2 DEF SchedInv, PlanInv, planVars
  <2>5. QueueInv'
    BY <2>1 DEF SchedInv, QueueInv, QueuesMatchStates, QueuedExactly
  <2>6. RequestInv(r)'
    <3>1. Unfinished(r)
      BY <1>1 DEF Unfinished, Active
    <3>2. shape[r].prompt \in Nat \ {0} /\ shape[r].max \in Nat \ {0}
      BY <3>1, ShapeTypes
    <3>3. /\ ngen'[r] = ngen[r] + 1 /\ inflight'[r] = NoWork
          /\ state'[r] = "DECODE" /\ shape'[r] = shape[r] /\ cursor'[r] = cursor[r]
          /\ reserved'[r] = reserved[r] /\ len'[r] = len[r] /\ live' = live
      BY <1>1, <1>2, <2>1 DEF ControlTypeOK, kvVars
    <3>4. len[r] = shape[r].prompt + ngen[r]
      <4>1. CASE SampleCommits(r)
        BY <1>1, <3>2, <4>1 DEF SampleCommits, RequestInv
      <4>2. CASE DecodeCommits(r)
        BY <1>1, <3>2, <4>2 DEF DecodeCommits, RequestInv, Idle, NoWork
      <4>3. QED
        BY <4>1, <4>2
    <3>5. ngen[r] + 1 < shape[r].max
      BY <1>1, <1>5, <3>2
    <3>6. cursor[r] = shape[r].prompt /\ shape[r] \in Shapes
          /\ reserved[r] = Reservation(shape[r]) /\ r \in live
      BY <1>1, <3>1 DEF RequestInv
    <3>7. Reservation(shape[r])' = Reservation(shape[r])
      BY <3>3 DEF Reservation, BlocksForTokens
    <3>8. QED
      BY <1>1, <3>2, <3>3, <3>4, <3>5, <3>6, <3>7 DEF RequestInv, Unfinished, Active, Idle, NoWork
  <2>7. \A q \in Requests : RequestInv(q)'
    BY <1>1, <1>2, <2>1, <2>6, OneRequestMoves DEF ControlTypeOK, kvVars
  <2>8. AdmittedBlocks' <= NumBlocks
    BY <2>1 DEF SchedInv, AdmittedBlocks, Tickets
  <2>9. LoopInv'
    BY <1>2 DEF planVars, LoopInv
  <2>10. QED
    BY <2>2, <2>3, <2>4, <2>5, <2>7, <2>8, <2>9 DEF SchedInv
<1>6. QED
  BY <1>4, <1>5
-----------------------------------------------------------------------------
\* submit.

\* A request not yet known to the allocator has nothing.
LEMMA NewRequest ==
    ASSUME SchedInv, NEW r \in Requests, state[r] = "NEW"
    PROVE  /\ ~Unfinished(r) /\ r \notin live /\ len[r] = 0
           /\ cursor[r] = 0 /\ ngen[r] = 0 /\ reserved[r] = 0 /\ Idle(r)
BY DEF SchedInv, RequestInv, Unfinished, Active, KVInv, TableFitsLength

\* submit keeps the invariant, admitted or refused.
LEMMA SubmitInv ==
    ASSUME SchedInv, NEW r \in Requests, NEW s \in Shapes, Submit(r, s)
    PROVE  SchedInv'
<1>1. /\ ControlTypeOK
      /\ len \in [Requests -> Nat]
      /\ live \in SUBSET Requests
      /\ KVInv
      /\ AdmittedBlocks <= NumBlocks
  BY DEF SchedInv, KVInv, KVTypeOK
<1>2. /\ phase = "idle" /\ state[r] = "NEW"
      /\ shape' = [shape EXCEPT ![r] = s]
      /\ UNCHANGED <<cursor, ngen, due, decodeQ, inflight, planVars>>
  BY DEF Submit
<1>3. PlanInv'
  BY <1>2 DEF SchedInv, PlanInv, planVars
<1>4. LoopInv'
  BY <1>2 DEF planVars, LoopInv
<1>5. /\ ~Unfinished(r) /\ r \notin live /\ len[r] = 0
      /\ cursor[r] = 0 /\ ngen[r] = 0 /\ reserved[r] = 0 /\ Idle(r)
  BY <1>2, NewRequest
<1>6. /\ prefillQ \in Seq(Requests) /\ Distinct(prefillQ)
      /\ decodeQ \in Seq(Requests) /\ Distinct(decodeQ)
      /\ \A x \in Requests : state[x] = "PREFILL" <=> Has(prefillQ, x)
      /\ \A x \in Requests : state[x] = "DECODE" <=> Has(decodeQ, x)
  BY Queues
<1>7. CASE Reservation(s) <= Unreserved
  <2>1. /\ Create(r)
        /\ state' = [state EXCEPT ![r] = "PREFILL"]
        /\ reserved' = [reserved EXCEPT ![r] = Reservation(s)]
        /\ prefillQ' = Append(prefillQ, r)
    BY <1>7 DEF Submit
  <2>2. KVInv'
    BY <1>1, <2>1, CreateInv
  <2>3. s.prompt \in Nat \ {0} /\ s.max \in Nat \ {0} /\ s.prompt + s.max \in Nat
    BY ShapesAssumption
  <2>4. Reservation(s) \in 0 .. NumBlocks /\ AdmittedBlocks + Reservation(s) <= NumBlocks
    <3>1. Reservation(s) \in Nat
      BY <2>3, BlocksForTokensMonotone DEF Reservation
    <3>2. AdmittedBlocks \in Nat
      BY TicketsFinite DEF Tickets, AdmittedBlocks
    <3>3. QED
      BY <1>7, <3>1, <3>2, PoolTypes DEF Unreserved
  <2>5. AdmittedBlocks' <= NumBlocks
    <3>1. reserved \in [Requests -> 0 .. NumBlocks]
      BY <1>1 DEF ControlTypeOK
    <3>2. AdmittedBlocks' = AdmittedBlocks + Reservation(s)
      BY <1>5, <2>1, <2>4, <3>1, AddReservation
    <3>3. QED
      BY <2>4, <3>2
  <2>6. ControlTypeOK'
    <3>1. "PREFILL" \in States
      BY DEF States, Active
    <3>2. QED
      BY <1>1, <1>2, <2>1, <2>4, <3>1 DEF ControlTypeOK, planVars
  <2>7. QueueInv'
    <3>1. ~Has(prefillQ, r) /\ ~Has(decodeQ, r)
      BY <1>2, <1>6
    <3>2. /\ prefillQ' \in Seq(Requests) /\ Distinct(prefillQ')
          /\ \A x \in Requests : Has(prefillQ', x) <=> Has(prefillQ, x) \/ x = r
      BY <1>6, <2>1, <3>1, AppendQueue
    <3>3. state'[r] = "PREFILL" /\ \A x \in Requests \ {r} : state'[x] = state[x]
      BY <1>1, <2>1 DEF ControlTypeOK
    <3>4. decodeQ' = decodeQ
      BY <1>2
    <3>5. \A x \in Requests : state'[x] = "PREFILL" <=> Has(prefillQ', x)
      BY <1>6, <3>2, <3>3
    <3>6. \A x \in Requests : state'[x] = "DECODE" <=> Has(decodeQ', x)
      BY <1>6, <3>1, <3>3, <3>4
    <3>7. QED
      BY <1>6, <3>2, <3>4, <3>5, <3>6, QueuesPrimed
  <2>8. RequestInv(r)'
    <3>1. /\ state'[r] = "PREFILL" /\ shape'[r] = s /\ cursor'[r] = 0 /\ ngen'[r] = 0
          /\ inflight'[r] = NoWork /\ reserved'[r] = Reservation(s) /\ len'[r] = 0
          /\ r \in live'
      BY <1>1, <1>2, <1>5, <2>1 DEF ControlTypeOK, Create, Idle
    <3>2. Reservation(shape[r])' = Reservation(s)
      BY <3>1 DEF Reservation, BlocksForTokens
    <3>3. QED
      BY <2>3, <3>1, <3>2 DEF RequestInv, Unfinished, Active, Idle, NoWork
  <2>9. \A q \in Requests : RequestInv(q)'
    BY <1>1, <1>2, <2>1, <2>8, OneRequestMoves DEF ControlTypeOK, Create
  <2>10. QED
    BY <1>3, <1>4, <2>2, <2>5, <2>6, <2>7, <2>9 DEF SchedInv
<1>8. CASE ~(Reservation(s) <= Unreserved)
  <2>1. /\ state' = [state EXCEPT ![r] = "REJECTED"]
        /\ UNCHANGED <<kvVars, reserved, prefillQ>>
    BY <1>8 DEF Submit
  <2>2. KVInv'
    BY <1>1, <2>1 DEF KVInv, KVTypeOK, OneOwnerPerBlock, TableFitsLength, kvVars, BlocksForTokens
  <2>3. AdmittedBlocks' <= NumBlocks
    BY <1>1, <2>1 DEF AdmittedBlocks, Tickets
  <2>4. ControlTypeOK'
    <3>1. "REJECTED" \in States
      BY DEF States, Terminal
    <3>2. QED
      BY <1>1, <1>2, <2>1, <3>1 DEF ControlTypeOK, planVars
  <2>5. QueueInv'
    <3>1. state'[r] = "REJECTED" /\ \A x \in Requests \ {r} : state'[x] = state[x]
      BY <1>1, <2>1 DEF ControlTypeOK
    <3>2. prefillQ' = prefillQ /\ decodeQ' = decodeQ
      BY <1>2, <2>1
    <3>3. \A x \in Requests : state'[x] = "PREFILL" <=> Has(prefillQ', x)
      BY <1>2, <1>6, <3>1, <3>2
    <3>4. \A x \in Requests : state'[x] = "DECODE" <=> Has(decodeQ', x)
      BY <1>2, <1>6, <3>1, <3>2
    <3>5. QED
      BY <1>6, <3>2, <3>3, <3>4, QueuesPrimed
  <2>6. RequestInv(r)'
    <3>1. /\ state'[r] = "REJECTED" /\ inflight'[r] = NoWork /\ reserved'[r] = 0
          /\ r \notin live'
      BY <1>1, <1>2, <1>5, <2>1 DEF ControlTypeOK, Idle, kvVars
    <3>2. QED
      BY <3>1 DEF RequestInv, Unfinished, Active, Idle
  <2>7. \A q \in Requests : RequestInv(q)'
    BY <1>1, <1>2, <2>1, <2>6, OneRequestMoves DEF ControlTypeOK, kvVars
  <2>8. QED
    BY <1>3, <1>4, <2>2, <2>3, <2>4, <2>5, <2>7 DEF SchedInv
<1>9. QED
  BY <1>7, <1>8

-----------------------------------------------------------------------------
\* Steps of the loops that move no request.

\* What holds of requests, queues and blocks does not depend on the loop.
LEMMA ControlStep ==
    ASSUME SchedInv, UNCHANGED <<kvVars, requestVars, queueVars>>,
           due' \in SUBSET Requests, phase' \in Phases, todo' \in Nat, budget' \in Nat,
           PlanInv', LoopInv'
    PROVE  SchedInv'
<1>1. KVInv'
  BY DEF SchedInv, KVInv, KVTypeOK, OneOwnerPerBlock, TableFitsLength, kvVars, BlocksForTokens
<1>2. ControlTypeOK'
  BY DEF SchedInv, ControlTypeOK, requestVars, queueVars
<1>3. QueueInv'
  BY DEF SchedInv, QueueInv, QueuesMatchStates, QueuedExactly, requestVars, queueVars
<1>4. \A q \in Requests : RequestInv(q)'
  <2> TAKE q \in Requests
  <2>1. RequestInv(q)
    BY DEF SchedInv
  <2>2. QED
    BY <2>1, RequestFrame DEF requestVars, queueVars, kvVars
<1>5. AdmittedBlocks' <= NumBlocks
  BY DEF SchedInv, AdmittedBlocks, Tickets, queueVars
<1>6. QED
  BY <1>1, <1>2, <1>3, <1>4, <1>5 DEF SchedInv

\* A deadline that passes changes nothing the invariant looks at.
LEMMA DeadlinePassesInv ==
    ASSUME SchedInv, NEW r \in Requests, DeadlinePasses(r)
    PROVE  SchedInv'
<1>1. /\ due' = due \cup {r}
      /\ UNCHANGED <<kvVars, requestVars, queueVars, planVars>>
      /\ phase = "idle"
  BY DEF DeadlinePasses
<1>2. due' \in SUBSET Requests /\ phase' \in Phases /\ todo' \in Nat /\ budget' \in Nat
  BY <1>1 DEF SchedInv, ControlTypeOK, planVars
<1>3. PlanInv'
  BY <1>1 DEF SchedInv, PlanInv, planVars
<1>4. LoopInv'
  BY <1>1 DEF LoopInv, planVars
<1>5. QED
  BY <1>1, <1>2, <1>3, <1>4, ControlStep

\* expire() and plan() begin, expire() ends.
LEMMA LoopBoundsInv ==
    ASSUME SchedInv,
           \/ ExpireBegin
           \/ ExpireEnd
           \/ PlanBegin /\ \A r \in Requests : ~AwaitsFirstSample(r)
    PROVE  SchedInv'
<1>1. /\ phase' \in {"expire", "idle", "plan_expire"}
      /\ UNCHANGED <<kvVars, requestVars, due, queueVars, todo, budget, plan>>
      /\ phase' = "plan_expire" => NothingInFlight /\ \A r \in Requests : ~AwaitsFirstSample(r)
  BY DEF ExpireBegin, ExpireEnd, PlanBegin
<1>2. due' \in SUBSET Requests /\ phase' \in Phases /\ todo' \in Nat /\ budget' \in Nat
  BY <1>1 DEF SchedInv, ControlTypeOK, Phases
<1>3. PlanInv'
  BY <1>1 DEF SchedInv, PlanInv
<1>4. LoopInv'
  BY <1>1 DEF LoopInv, NothingInFlight, Idle, AwaitsFirstSample, requestVars, queueVars
<1>5. UNCHANGED <<kvVars, requestVars, queueVars>>
  BY <1>1
<1>6. QED
  BY <1>2, <1>3, <1>4, <1>5, ControlStep

\* The decode loop is over: what was not planned yet is idle.
LEMMA PlanDecodeEndInv ==
    ASSUME SchedInv, PlanDecodeEnd
    PROVE  SchedInv'
<1>1. /\ phase = "plan_decode" /\ phase' = "plan_prefill"
      /\ todo' = MinOf(Len(prefillQ), RemainingSlots)
      /\ budget' = MaxPrefillTokens
      /\ UNCHANGED <<kvVars, requestVars, due, queueVars, plan>>
  BY DEF PlanDecodeEnd
<1>2. plan.decode \in Seq(DecodeWorks) /\ prefillQ \in Seq(Requests) /\ due \in SUBSET Requests
  BY DEF SchedInv, PlanInv, QueueInv, ControlTypeOK
<1>3. /\ todo' \in Nat /\ todo' <= Len(prefillQ)
      /\ plan.prefill = <<>> /\ Len(plan.decode) + todo' <= MaxBatch
  <2>1. Len(plan.decode) + todo <= MaxBatch /\ todo \in Nat /\ plan.prefill = <<>>
    BY <1>1 DEF SchedInv, LoopInv, ControlTypeOK
  <2>2. Len(plan.decode) \in Nat /\ Len(prefillQ) \in Nat
    BY <1>2
  <2>3. QED
    BY <1>1, <2>1, <2>2, LimitsAssumption DEF MinOf, RemainingSlots
<1>4. due' \in SUBSET Requests /\ phase' \in Phases /\ budget' \in Nat
  BY <1>1, <1>2, LimitsAssumption DEF Phases
<1>5. PlanInv'
  BY <1>1 DEF SchedInv, PlanInv
<1>6. /\ \A r \in Requests : ~AwaitsFirstSample(r)
      /\ \A r \in Requests : state[r] = "PREFILL" => Idle(r)
  BY <1>1 DEF SchedInv, LoopInv
<1>7. \A i \in DOMAIN prefillQ : Idle(prefillQ[i])
  <2> TAKE i \in DOMAIN prefillQ
  <2>1. prefillQ[i] \in Requests
    BY <1>2
  <2>2. state[prefillQ[i]] = "PREFILL"
    BY <2>1, Queues DEF Has
  <2>3. QED
    BY <1>6, <2>1, <2>2
<1>8. LoopInv'
  <2>1. \A i \in 1 .. todo' : i \in DOMAIN prefillQ
    BY <1>2, <1>3
  <2>2. \A i \in 1 .. todo' : Idle(prefillQ[i])
    BY <1>7, <2>1
  <2>3. /\ prefillQ' = prefillQ /\ inflight' = inflight /\ state' = state /\ ngen' = ngen
        /\ plan' = plan
    BY <1>1 DEF requestVars, queueVars
  <2>4. Len(plan'.decode) + Len(plan'.prefill) + todo' <= MaxBatch
    <3>1. Len(plan'.prefill) = 0 /\ Len(plan'.decode) = Len(plan.decode)
      BY <1>3, <2>3
    <3>2. Len(plan.decode) \in Nat
      BY <1>2
    <3>3. QED
      BY <1>3, <3>1, <3>2
  <2>5. QED
    BY <1>1, <1>3, <1>6, <2>2, <2>3, <2>4 DEF LoopInv, Idle, AwaitsFirstSample
<1>9. UNCHANGED <<kvVars, requestVars, queueVars>>
  BY <1>1
<1>10. QED
  BY <1>3, <1>4, <1>5, <1>8, <1>9, ControlStep

\* plan() enters its decode loop with nothing in flight.
LEMMA PlanSortInv ==
    ASSUME SchedInv, PlanSort
    PROVE  SchedInv'
<1>1. /\ phase = "plan_expire" /\ phase' = "plan_decode"
      /\ todo' = MinOf(Len(decodeQ), MaxBatch)
      /\ plan' = NoPlan
      /\ UNCHANGED <<kvVars, requestVars, due, inflight, reserved, budget>>
  BY DEF PlanSort
<1>2. /\ prefillQ \in Seq(Requests) /\ Distinct(prefillQ)
      /\ decodeQ \in Seq(Requests) /\ Distinct(decodeQ)
      /\ \A x \in Requests : state[x] = "PREFILL" <=> Has(prefillQ, x)
      /\ \A x \in Requests : state[x] = "DECODE" <=> Has(decodeQ, x)
  BY Queues
<1>3. shape \in [Requests -> Shapes \cup {NoShape}]
  BY DEF SchedInv, ControlTypeOK
<1>4. /\ decodeQ' \in Seq(Requests) /\ Len(decodeQ') = Len(decodeQ) /\ Distinct(decodeQ')
      /\ \A x \in Requests : Has(decodeQ', x) <=> Has(decodeQ, x)
  <2>1. PICK p \in [DOMAIN decodeQ -> DOMAIN decodeQ] :
            /\ SortsByPriority(p, decodeQ)
            /\ decodeQ' = [i \in DOMAIN decodeQ |-> decodeQ[p[i]]]
    BY DEF PlanSort
  <2>2. QED
    BY <1>2, <1>3, <2>1, SortQueue
<1>5. /\ prefillQ' \in Seq(Requests) /\ Distinct(prefillQ')
      /\ \A x \in Requests : Has(prefillQ', x) <=> Has(prefillQ, x)
  <2>1. PICK p \in [DOMAIN prefillQ -> DOMAIN prefillQ] :
            /\ SortsByPriority(p, prefillQ)
            /\ prefillQ' = [i \in DOMAIN prefillQ |-> prefillQ[p[i]]]
    BY DEF PlanSort
  <2>2. QED
    BY <1>2, <1>3, <2>1, SortQueue
<1>6. QueueInv'
  <2>1. state' = state
    BY <1>1 DEF requestVars
  <2>2. QED
    BY <1>2, <1>4, <1>5, <2>1, QueuesPrimed
<1>7. KVInv'
  BY <1>1 DEF SchedInv, KVInv, KVTypeOK, OneOwnerPerBlock, TableFitsLength, kvVars, BlocksForTokens
<1>8. todo' \in Nat /\ todo' <= Len(decodeQ') /\ todo' <= MaxBatch
  BY <1>1, <1>2, <1>4, LimitsAssumption DEF MinOf
<1>9. ControlTypeOK'
  BY <1>1, <1>8 DEF SchedInv, ControlTypeOK, requestVars, Phases
<1>10. PlanInv'
  BY <1>1, LimitsAssumption DEF PlanInv, NoPlan
<1>11. \A q \in Requests : RequestInv(q)'
  <2> TAKE q \in Requests
  <2>1. RequestInv(q)
    BY DEF SchedInv
  <2>2. QED
    BY <1>1, <2>1, RequestFrame DEF requestVars, kvVars
<1>12. AdmittedBlocks' <= NumBlocks
  BY <1>1 DEF SchedInv, AdmittedBlocks, Tickets
<1>13. LoopInv'
  <2>1. NothingInFlight /\ \A x \in Requests : ~AwaitsFirstSample(x)
    BY <1>1 DEF SchedInv, LoopInv
  <2>2. inflight' = inflight /\ state' = state /\ ngen' = ngen
    BY <1>1 DEF requestVars
  <2>3. \A i \in 1 .. todo' : decodeQ'[i] \in Requests
    BY <1>4, <1>8
  <2>4. plan'.prefill = <<>> /\ Len(plan'.decode) + todo' <= MaxBatch
    BY <1>1, <1>8, LimitsAssumption DEF NoPlan
  <2>5. \A i \in 1 .. todo' : Idle(decodeQ[i])'
    BY <2>1, <2>2, <2>3 DEF NothingInFlight, Idle
  <2>6. \A x \in Requests : ~(AwaitsFirstSample(x)') /\ Idle(x)'
    BY <2>1, <2>2 DEF NothingInFlight, Idle, AwaitsFirstSample
  <2>7. QED
    BY <1>1, <1>8, <2>4, <2>5, <2>6 DEF LoopInv
<1>14. QED
  BY <1>6, <1>7, <1>9, <1>10, <1>11, <1>12, <1>13 DEF SchedInv

\* plan() returns.
LEMMA PlanEndInv ==
    ASSUME SchedInv, PlanEnd
    PROVE  SchedInv'
<1>1. /\ phase' = "idle"
      /\ plan' = [plan EXCEPT !.graph = plan'.graph]
      /\ UNCHANGED <<kvVars, requestVars, due, queueVars, todo, budget>>
  BY DEF SchedInv, PlanInv, PlanEnd
<1>2. due' \in SUBSET Requests /\ phase' \in Phases /\ todo' \in Nat /\ budget' \in Nat
  BY <1>1 DEF SchedInv, ControlTypeOK, Phases
<1>3. PlanInv'
  BY <1>1 DEF SchedInv, PlanInv
<1>4. LoopInv'
  BY <1>1 DEF LoopInv
<1>5. UNCHANGED <<kvVars, requestVars, queueVars>>
  BY <1>1
<1>6. QED
  BY <1>2, <1>3, <1>4, <1>5, ControlStep

-----------------------------------------------------------------------------
\* The loops of plan() serve a request.

\* A reserved position of a table lies in one of its blocks.
LEMMA SlotTyped ==
    ASSUME NEW tbl \in Seq(Blocks), NEW a \in Nat, Len(tbl) = BlocksForTokens(a),
           NEW p \in 0 .. a - 1
    PROVE  Slot(tbl, p) \in Blocks \X Nat
<1>1. p \div BlockSize + 1 \in 1 .. Len(tbl)
  BY PositionInTable
<1>2. p % BlockSize \in Nat
  BY PoolTypes, DivMod
<1>3. tbl[p \div BlockSize + 1] \in Blocks
  BY <1>1
<1>4. QED
  BY <1>2, <1>3 DEF Slot

\* The head of the decode queue decodes, has its input token and finds its block.
LEMMA DecodeHead ==
    ASSUME SchedInv, phase = "plan_decode", todo > 0
    PROVE  /\ decodeQ # <<>>
           /\ Head(decodeQ) \in Requests
           /\ decodeQ[1] = Head(decodeQ)
           /\ state[Head(decodeQ)] = "DECODE"
           /\ Idle(Head(decodeQ))
           /\ ngen[Head(decodeQ)] > 0
           /\ len[Head(decodeQ)] = shape[Head(decodeQ)].prompt + ngen[Head(decodeQ)] - 1
           /\ CanAppend(Head(decodeQ), 1)
<1> DEFINE r == Head(decodeQ)
<1>1. todo \in Nat /\ todo <= Len(decodeQ) /\ decodeQ \in Seq(Requests)
  BY DEF SchedInv, LoopInv, ControlTypeOK, QueueInv
<1>2. decodeQ # <<>> /\ r \in Requests /\ decodeQ[1] = r /\ 1 \in 1 .. todo /\ 1 \in DOMAIN decodeQ
  BY <1>1
<1>3. state[r] = "DECODE"
  BY <1>2, Queues DEF Has
<1>4. Idle(r)
  BY <1>2 DEF SchedInv, LoopInv
<1>5. ngen[r] > 0 /\ ngen[r] \in Nat /\ RequestInv(r)
  BY <1>2, <1>3 DEF SchedInv, LoopInv, AwaitsFirstSample, ControlTypeOK
<1>6. Unfinished(r)
  BY <1>3 DEF Unfinished, Active
<1>7. shape[r].prompt \in Nat /\ shape[r].max \in Nat
  BY <1>2, <1>6, ShapeTypes
<1>8. /\ len[r] = shape[r].prompt + ngen[r] - 1
      /\ len[r] + 1 <= shape[r].prompt + shape[r].max
  BY <1>3, <1>4, <1>5, <1>7 DEF RequestInv, Idle, NoWork
<1>9. CanAppend(r, 1)
  BY <1>2, <1>6, <1>8, PlanFindsBlocks
<1>10. QED
  BY <1>2, <1>3, <1>4, <1>5, <1>8, <1>9

\* Planning one decode keeps the invariant.
LEMMA PlanDecodeInv ==
    ASSUME SchedInv, PlanDecode
    PROVE  SchedInv'
<1>1. phase = "plan_decode" /\ todo > 0 /\ prefillQ' = prefillQ
  BY DEF PlanDecode
<1>r. PICK r \in Requests : r = Head(decodeQ)
  BY <1>1, DecodeHead
<1>2. /\ decodeQ # <<>> /\ decodeQ[1] = r
      /\ state[r] = "DECODE" /\ Idle(r) /\ ngen[r] > 0 /\ CanAppend(r, 1)
  BY <1>r, <1>1, DecodeHead
<1>3. /\ AppendSlots(r, 1)
      /\ plan' = [plan EXCEPT !.decode = Append(@, DecodeWork(r))]
      /\ inflight' = [inflight EXCEPT ![r] = [kind |-> "decode", count |-> 1]]
      /\ decodeQ' = Rotate(decodeQ)
      /\ todo' = todo - 1
      /\ UNCHANGED <<requestVars, due, reserved, phase, budget>>
  BY <1>r, <1>2 DEF PlanDecode
<1>4. /\ KVInv /\ ControlTypeOK /\ RequestInv(r)
      /\ len \in [Requests -> Nat]
      /\ len[r] \in Nat /\ ngen[r] \in Nat /\ todo \in Nat
  BY <1>2 DEF SchedInv, KVInv, KVTypeOK, ControlTypeOK
<1>5. KVInv'
  BY <1>2, <1>3, <1>4, AppendSlotsInv
<1>6. r \in live /\ live' = live /\ len' = [len EXCEPT ![r] = @ + 1]
  BY <1>2, <1>3, <1>4, AppendFrame
<1>7. ControlTypeOK'
  <2>1. [kind |-> "decode", count |-> 1] \in [kind : {"none", "prefill", "decode"}, count : Nat]
    OBVIOUS
  <2>2. todo' \in Nat
    BY <1>1, <1>3, <1>4
  <2>3. QED
    BY <1>3, <1>4, <2>1, <2>2 DEF ControlTypeOK, requestVars
<1>8. /\ plan.decode \in Seq(DecodeWorks)
      /\ plan.prefill = <<>>
      /\ Len(plan.decode) + todo <= MaxBatch
      /\ todo <= Len(decodeQ)
      /\ \A i \in 1 .. todo : Idle(decodeQ[i])
      /\ \A x \in Requests : state[x] = "PREFILL" => Idle(x)
      /\ \A x \in Requests : ~AwaitsFirstSample(x)
  BY <1>1 DEF SchedInv, PlanInv, LoopInv
<1>9. DecodeWork(r) \in DecodeWorks
  <2>1. table'[r] \in Seq(Blocks) /\ Len(table'[r]) = BlocksForTokens(len[r] + 1)
    <3>1. table'[r] \in Seq(Blocks)
      BY <1>2, <1>5 DEF KVInv, KVTypeOK
    <3>2. Len(table'[r]) = BlocksForTokens(len'[r])
      BY <1>2, <1>5 DEF KVInv, TableFitsLength, BlocksForTokens
    <3>3. len'[r] = len[r] + 1
      BY <1>2, <1>4, <1>6
    <3>4. QED
      BY <3>1, <3>2, <3>3
  <2>2. len[r] + 1 \in Nat /\ len[r] \in 0 .. (len[r] + 1) - 1
    BY <1>4
  <2>3. Slot(table'[r], len[r]) \in Blocks \X Nat
    BY <2>1, <2>2, SlotTyped
  <2>4. QED
    BY <1>2, <1>4, <2>3 DEF DecodeWork, DecodeWorks
<1> DEFINE w == DecodeWork(r)
<1> HIDE DEF w
<1>10. /\ plan'.decode = Append(plan.decode, w)
       /\ plan'.prefill = <<>>
       /\ plan' = [decode |-> plan'.decode, prefill |-> plan'.prefill, graph |-> plan'.graph]
  <2>1. plan = [decode |-> plan.decode, prefill |-> plan.prefill, graph |-> plan.graph]
    BY DEF SchedInv, PlanInv
  <2>2. plan' = [plan EXCEPT !.decode = Append(plan.decode, w)]
    BY <1>3 DEF w
  <2>3. QED
    BY <2>1, <2>2, <1>8
<1>11. /\ plan'.decode \in Seq(DecodeWorks)
       /\ Len(plan'.decode) = Len(plan.decode) + 1
       /\ Len(plan.decode) \in Nat
       /\ Len(plan'.prefill) = 0
  <2>1. w \in DecodeWorks
    BY <1>9 DEF w
  <2>2. QED
    BY <1>8, <1>10, <2>1
<1>12. Len(plan'.decode) + todo' <= MaxBatch /\ Len(plan'.decode) + Len(plan'.prefill) <= MaxBatch
  <2>1. Len(plan.decode) + todo <= MaxBatch /\ todo' = todo - 1 /\ todo \in Nat /\ todo > 0
    BY <1>1, <1>3, <1>4, <1>8
  <2>2. MaxBatch \in Nat
    BY LimitsAssumption
  <2>3. QED
    BY <1>11, <2>1, <2>2
<1>13. PlanInv'
  <2>1. plan'.prefill \in Seq(PrefillWorks)
    BY <1>10
  <2>2. QED
    BY <1>10, <1>11, <1>12, <2>1 DEF PlanInv
<1>14. /\ decodeQ \in Seq(Requests) /\ Distinct(decodeQ)
       /\ prefillQ \in Seq(Requests) /\ Distinct(prefillQ)
       /\ \A x \in Requests : state[x] = "PREFILL" <=> Has(prefillQ, x)
       /\ \A x \in Requests : state[x] = "DECODE" <=> Has(decodeQ, x)
  BY Queues
<1>15. /\ decodeQ' \in Seq(Requests)
       /\ Len(decodeQ') = Len(decodeQ)
       /\ Distinct(decodeQ')
       /\ \A x \in Requests : Has(decodeQ', x) <=> Has(decodeQ, x)
       /\ \A i \in 1 .. Len(decodeQ) - 1 : decodeQ'[i] = decodeQ[i + 1]
  BY <1>2, <1>3, <1>14, RotateQueue
<1>16. QueueInv'
  <2>1. state' = state
    BY <1>3 DEF requestVars
  <2>2. QED
    BY <1>1, <1>14, <1>15, <2>1, QueuesPrimed
<1>17. RequestInv(r)'
  <2>1. /\ state'[r] = "DECODE" /\ shape'[r] = shape[r] /\ cursor'[r] = cursor[r]
        /\ ngen'[r] = ngen[r] /\ reserved'[r] = reserved[r] /\ len'[r] = len[r] + 1
        /\ inflight'[r] = [kind |-> "decode", count |-> 1]
    BY <1>2, <1>3, <1>4, <1>6 DEF requestVars, ControlTypeOK
  <2>2. Unfinished(r)
    BY <1>2 DEF Unfinished, Active
  <2>3. shape[r].prompt \in Nat /\ shape[r].max \in Nat
    BY <1>2, <2>2, ShapeTypes
  <2>4. /\ shape[r] \in Shapes /\ reserved[r] = Reservation(shape[r])
        /\ cursor[r] = shape[r].prompt /\ ngen[r] < shape[r].max
        /\ len[r] = shape[r].prompt + (ngen[r] - 1)
    <3>1. len[r] = shape[r].prompt + (ngen[r] - 1) + 0
      BY <1>2, <1>4 DEF RequestInv, Idle, NoWork
    <3>2. QED
      BY <1>2, <1>4, <2>2, <2>3, <3>1 DEF RequestInv
  <2>5. len'[r] = shape[r].prompt + (ngen[r] - 1) + 1
    BY <1>4, <2>1, <2>3, <2>4
  <2>6. Reservation(shape[r])' = Reservation(shape[r])
    BY <2>1 DEF Reservation, BlocksForTokens
  <2>7. QED
    BY <1>2, <1>6, <2>1, <2>4, <2>5, <2>6 DEF RequestInv, Unfinished, Active, Idle
<1>18. \A q \in Requests : RequestInv(q)'
  <2>1. \A q \in Requests \ {r} :
              /\ state'[q] = state[q] /\ shape'[q] = shape[q] /\ cursor'[q] = cursor[q]
              /\ ngen'[q] = ngen[q] /\ inflight'[q] = inflight[q] /\ reserved'[q] = reserved[q]
              /\ len'[q] = len[q] /\ (q \in live' <=> q \in live)
    BY <1>3, <1>4, <1>6 DEF ControlTypeOK, requestVars
  <2>2. QED
    BY <1>2, <1>17, <2>1, OneRequestMoves
<1>19. AdmittedBlocks' <= NumBlocks
  BY <1>3 DEF SchedInv, AdmittedBlocks, Tickets
<1>20. \A i \in 1 .. todo' : Idle(decodeQ[i + 1]) /\ decodeQ[i + 1] # r /\ decodeQ[i + 1] \in Requests
  <2> TAKE i \in 1 .. todo'
  <2>1. i + 1 \in 1 .. todo /\ i + 1 # 1 /\ i + 1 \in DOMAIN decodeQ /\ 1 \in DOMAIN decodeQ
    <3>1. todo' = todo - 1 /\ todo \in Nat /\ todo <= Len(decodeQ)
      BY <1>3, <1>4, <1>8
    <3>2. DOMAIN decodeQ = 1 .. Len(decodeQ) /\ Len(decodeQ) \in Nat
      BY <1>14
    <3>3. QED
      BY <3>1, <3>2
  <2>2. Idle(decodeQ[i + 1])
    BY <1>8, <2>1
  <2>3. decodeQ[i + 1] # decodeQ[1]
    BY <1>14, <2>1 DEF Distinct
  <2>4. decodeQ[i + 1] \in Requests
    BY <1>14, <2>1
  <2>5. QED
    BY <1>2, <2>2, <2>3, <2>4
<1>21. \A i \in 1 .. todo' : Idle(decodeQ[i])'
  <2> TAKE i \in 1 .. todo'
  <2>1. i \in 1 .. Len(decodeQ) - 1
    BY <1>3, <1>4, <1>8, <1>14
  <2>2. decodeQ'[i] = decodeQ[i + 1]
    BY <1>15, <2>1
  <2>3. inflight'[decodeQ[i + 1]] = inflight[decodeQ[i + 1]]
    BY <1>3, <1>4, <1>20 DEF ControlTypeOK
  <2>4. QED
    BY <1>20, <2>2, <2>3 DEF Idle
<1>22. LoopInv'
  <2>1. phase' = "plan_decode" /\ state' = state /\ ngen' = ngen
    BY <1>1, <1>3 DEF requestVars
  <2>2. \A x \in Requests : ~(AwaitsFirstSample(x)')
    BY <1>8, <2>1 DEF AwaitsFirstSample
  <2>3. ASSUME NEW x \in Requests, state'[x] = "PREFILL" PROVE Idle(x)'
    <3>1. x # r /\ Idle(x)
      BY <1>2, <1>8, <2>1, <2>3
    <3>2. inflight'[x] = inflight[x]
      BY <1>3, <1>4, <3>1 DEF ControlTypeOK
    <3>3. QED
      BY <3>1, <3>2 DEF Idle
  <2>4. todo' <= Len(decodeQ')
    BY <1>3, <1>4, <1>8, <1>14, <1>15
  <2>5. QED
    BY <1>10, <1>12, <1>21, <2>1, <2>2, <2>3, <2>4 DEF LoopInv
<1>23. QED
  BY <1>5, <1>7, <1>13, <1>16, <1>18, <1>19, <1>22 DEF SchedInv

\* The smaller of two integers is below both.
LEMMA MinOfBounds ==
    ASSUME NEW a \in Int, NEW b \in Int
    PROVE  MinOf(a, b) \in Int /\ MinOf(a, b) <= a /\ MinOf(a, b) <= b
BY DEF MinOf

\* The head of the prefill queue prefills, and its chunk lies within its prompt
\* and finds its blocks.
LEMMA PrefillHead ==
    ASSUME SchedInv, phase = "plan_prefill", todo > 0
    PROVE  /\ prefillQ # <<>>
           /\ Head(prefillQ) \in Requests
           /\ prefillQ[1] = Head(prefillQ)
           /\ state[Head(prefillQ)] = "PREFILL"
           /\ Idle(Head(prefillQ))
           /\ ChunkCount(Head(prefillQ)) \in Int
           /\ ChunkCount(Head(prefillQ)) <= budget
           /\ len[Head(prefillQ)] = cursor[Head(prefillQ)]
           /\ cursor[Head(prefillQ)] + ChunkCount(Head(prefillQ)) <= shape[Head(prefillQ)].prompt
           /\ ChunkCount(Head(prefillQ)) > 0
                 => CanAppend(Head(prefillQ), ChunkCount(Head(prefillQ)))
<1>1. todo \in Nat /\ todo <= Len(prefillQ) /\ prefillQ \in Seq(Requests) /\ budget \in Nat
  BY DEF SchedInv, LoopInv, ControlTypeOK, QueueInv
<1>r. PICK r \in Requests : r = Head(prefillQ)
  BY <1>1
<1>2. prefillQ # <<>> /\ prefillQ[1] = r /\ 1 \in 1 .. todo /\ 1 \in DOMAIN prefillQ
  BY <1>1, <1>r
<1>3. state[r] = "PREFILL"
  BY <1>2, Queues DEF Has
<1>4. Idle(r)
  BY <1>2 DEF SchedInv, LoopInv
<1>5. RequestInv(r) /\ cursor[r] \in Nat
  BY DEF SchedInv, ControlTypeOK
<1>6. Unfinished(r)
  BY <1>3 DEF Unfinished, Active
<1>7. shape[r].prompt \in Nat /\ shape[r].max \in Nat
  BY <1>6, ShapeTypes
<1>8. len[r] = cursor[r]
  BY <1>3, <1>4, <1>5 DEF RequestInv, Idle, NoWork
<1> DEFINE n == ChunkCount(r)
<1>9. n \in Int /\ n <= budget /\ n <= RemainingPrompt(r)
  <2>1. RemainingPrompt(r) \in Int
    BY <1>5, <1>7 DEF RemainingPrompt
  <2>2. ChunkLimit \in Int
    BY LimitsAssumption, MinOfBounds DEF ChunkLimit
  <2>3. MinOf(RemainingPrompt(r), ChunkLimit) \in Int
        /\ MinOf(RemainingPrompt(r), ChunkLimit) <= RemainingPrompt(r)
    BY <2>1, <2>2, MinOfBounds
  <2> DEFINE m == MinOf(RemainingPrompt(r), ChunkLimit)
  <2> HIDE DEF m
  <2>4. m \in Int /\ m <= RemainingPrompt(r) /\ n = MinOf(m, budget)
    BY <2>3 DEF m, ChunkCount
  <2>5. MinOf(m, budget) \in Int /\ MinOf(m, budget) <= m /\ MinOf(m, budget) <= budget
    BY <1>1, <2>4, MinOfBounds
  <2>6. QED
    BY <2>1, <2>4, <2>5
<1> HIDE DEF n
<1>10. cursor[r] + n <= shape[r].prompt
  BY <1>5, <1>7, <1>9 DEF RemainingPrompt
<1>11. n > 0 => CanAppend(r, n)
  <2> SUFFICES ASSUME n > 0 PROVE CanAppend(r, n)
    OBVIOUS
  <2>1. n \in Nat /\ len[r] + n <= shape[r].prompt + shape[r].max
    BY <1>5, <1>7, <1>8, <1>9, <1>10
  <2>2. QED
    BY <1>6, <2>1, PlanFindsBlocks
<1>12. QED
  BY <1>r, <1>2, <1>3, <1>4, <1>8, <1>9, <1>10, <1>11 DEF n

\* An exhausted token budget ends the loop.
LEMMA PrefillBudgetSpent ==
    ASSUME SchedInv, PlanPrefill, ChunkCount(Head(prefillQ)) <= 0
    PROVE  SchedInv'
<1>1. phase = "plan_prefill" /\ todo > 0
  BY DEF PlanPrefill
<1>2. state[Head(prefillQ)] = "PREFILL"
  BY <1>1, PrefillHead
<1>3. /\ todo' = 0
      /\ UNCHANGED <<kvVars, requestVars, due, prefillQ, inflight,
                     reserved, phase, budget, plan, decodeQ>>
  BY <1>2 DEF PlanPrefill
<1>4. due' \in SUBSET Requests /\ phase' \in Phases /\ todo' \in Nat /\ budget' \in Nat
  BY <1>3 DEF SchedInv, ControlTypeOK
<1>5. PlanInv'
  BY <1>3 DEF SchedInv, PlanInv
<1>6. LoopInv'
  <2>1. Len(plan.decode) + Len(plan.prefill) + 0 <= MaxBatch
    <3>1. Len(plan.decode) + Len(plan.prefill) <= MaxBatch
      BY DEF SchedInv, PlanInv
    <3>2. Len(plan.decode) \in Nat /\ Len(plan.prefill) \in Nat /\ MaxBatch \in Nat
      BY LimitsAssumption DEF SchedInv, PlanInv
    <3>3. \A a, b, m \in Nat : a + b <= m => a + b + 0 <= m
      OBVIOUS
    <3>4. QED
      BY <3>1, <3>2, <3>3
  <2>2. 0 <= Len(prefillQ)
    BY DEF SchedInv, QueueInv
  <2>3. \A x \in Requests : ~AwaitsFirstSample(x)
    BY <1>1 DEF SchedInv, LoopInv
  <2>4. \A x \in Requests : ~(AwaitsFirstSample(x)')
    BY <1>3, <2>3 DEF AwaitsFirstSample, requestVars
  <2>5. \A i \in 1 .. todo' : FALSE
    BY <1>3
  <2>6. QED
    BY <1>1, <1>3, <2>1, <2>2, <2>4, <2>5 DEF LoopInv
<1>7. UNCHANGED <<kvVars, requestVars, queueVars>>
  BY <1>3 DEF queueVars
<1>8. QED
  BY <1>4, <1>5, <1>6, <1>7, ControlStep

\* Planning one prefill chunk keeps the invariant.
LEMMA PlanPrefillInv ==
    ASSUME SchedInv, PlanPrefill
    PROVE  SchedInv'
<1>1. phase = "plan_prefill" /\ todo > 0 /\ decodeQ' = decodeQ
  BY DEF PlanPrefill
<1>r. PICK r \in Requests : r = Head(prefillQ)
  BY <1>1, PrefillHead
<1>n. PICK n \in Int : n = ChunkCount(r)
  BY <1>r, <1>1, PrefillHead
<1>2. CASE n <= 0
  BY <1>2, <1>n, <1>r, PrefillBudgetSpent
<1>3. CASE n > 0
  <2>1. /\ prefillQ # <<>> /\ prefillQ[1] = r
        /\ state[r] = "PREFILL" /\ Idle(r)
        /\ n \in Nat /\ n <= budget
        /\ len[r] = cursor[r] /\ cursor[r] + n <= shape[r].prompt
        /\ CanAppend(r, n)
    BY <1>1, <1>r, <1>n, <1>3, PrefillHead
  <2> DEFINE w == [id |-> r, start |-> cursor[r], count |-> n,
                   slots |-> Slots(table'[r], len[r], n)]
  <2>2. /\ AppendSlots(r, n)
        /\ plan' = [plan EXCEPT !.prefill = Append(@, w)]
        /\ inflight' = [inflight EXCEPT ![r] = [kind |-> "prefill", count |-> n]]
        /\ prefillQ' = Rotate(prefillQ)
        /\ budget' = budget - n
        /\ todo' = todo - 1
        /\ UNCHANGED <<requestVars, due, reserved, phase>>
    BY <1>r, <1>n, <1>3, <2>1 DEF PlanPrefill
  <2>3. /\ KVInv /\ ControlTypeOK /\ RequestInv(r)
        /\ len \in [Requests -> Nat]
        /\ len[r] \in Nat /\ cursor[r] \in Nat /\ todo \in Nat /\ budget \in Nat
    BY DEF SchedInv, KVInv, KVTypeOK, ControlTypeOK
  <2>4. KVInv'
    BY <2>1, <2>2, <2>3, AppendSlotsInv
  <2>5. r \in live /\ live' = live /\ len' = [len EXCEPT ![r] = @ + n]
    BY <2>1, <2>2, <2>3, AppendFrame
  <2>6. todo' \in Nat /\ budget' \in Nat
    <3>1. todo' = todo - 1 /\ budget' = budget - n
      BY <2>2
    <3>2. QED
      BY <1>1, <2>1, <2>3, <3>1
  <2>7. ControlTypeOK'
    <3>1. [kind |-> "prefill", count |-> n] \in [kind : {"none", "prefill", "decode"}, count : Nat]
      BY <2>1
    <3>2. QED
      BY <2>2, <2>3, <2>6, <3>1 DEF ControlTypeOK, requestVars
  <2>8. /\ plan.decode \in Seq(DecodeWorks)
        /\ plan.prefill \in Seq(PrefillWorks)
        /\ Len(plan.decode) + Len(plan.prefill) + todo <= MaxBatch
        /\ todo <= Len(prefillQ)
        /\ \A i \in 1 .. todo : Idle(prefillQ[i])
        /\ \A x \in Requests : ~AwaitsFirstSample(x)
    BY <1>1 DEF SchedInv, PlanInv, LoopInv
  <2>9. w \in PrefillWorks
    <3>1. table'[r] \in Seq(Blocks)
      BY <2>4 DEF KVInv, KVTypeOK
    <3>2. Len(table'[r]) = BlocksForTokens(len'[r])
      BY <2>4 DEF KVInv, TableFitsLength, BlocksForTokens
    <3>3. len'[r] = len[r] + n /\ len[r] + n \in Nat
      BY <2>1, <2>3, <2>5
    <3>4. ASSUME NEW i \in 1 .. n PROVE Slot(table'[r], len[r] + i - 1) \in Blocks \X Nat
      <4>1. len[r] + i - 1 \in 0 .. (len[r] + n) - 1
        BY <2>1, <2>3
      <4>2. Len(table'[r]) = BlocksForTokens(len[r] + n)
        BY <3>2, <3>3
      <4>3. QED
        BY <3>1, <3>3, <4>1, <4>2, SlotTyped
    <3>5. Slots(table'[r], len[r], n) \in [1 .. n -> Blocks \X Nat]
      BY <3>4 DEF Slots
    <3>6. Slots(table'[r], len[r], n) \in Seq(Blocks \X Nat)
      BY <2>1, <3>5, SeqFromFunction
    <3>7. QED
      BY <2>1, <2>3, <3>6 DEF PrefillWorks
  <2> HIDE DEF w
  <2>10. /\ plan'.prefill = Append(plan.prefill, w)
         /\ plan'.decode = plan.decode
         /\ plan' = [decode |-> plan'.decode, prefill |-> plan'.prefill, graph |-> plan'.graph]
    <3>1. plan = [decode |-> plan.decode, prefill |-> plan.prefill, graph |-> plan.graph]
      BY DEF SchedInv, PlanInv
    <3>2. plan' = [plan EXCEPT !.prefill = Append(plan.prefill, w)]
      BY <2>2
    <3>3. QED
      BY <3>1, <3>2
  <2>11. /\ plan'.prefill \in Seq(PrefillWorks)
         /\ Len(plan'.prefill) = Len(plan.prefill) + 1
         /\ Len(plan.prefill) \in Nat
         /\ Len(plan.decode) \in Nat
    BY <2>8, <2>9, <2>10
  <2>12. /\ Len(plan'.decode) + Len(plan'.prefill) + todo' <= MaxBatch
         /\ Len(plan'.decode) + Len(plan'.prefill) <= MaxBatch
    <3>1. /\ Len(plan.decode) + Len(plan.prefill) + todo <= MaxBatch
          /\ todo' = todo - 1 /\ todo \in Nat /\ todo > 0
          /\ Len(plan'.decode) = Len(plan.decode)
      BY <1>1, <2>2, <2>3, <2>8, <2>10
    <3>2. /\ MaxBatch \in Nat
          /\ Len(plan'.prefill) = Len(plan.prefill) + 1
          /\ Len(plan.prefill) \in Nat
          /\ Len(plan.decode) \in Nat
      BY LimitsAssumption, <2>11
    <3>3. \A a, b, c, m \in Nat :
              c > 0 /\ a + b + c <= m => a + (b + 1) + (c - 1) <= m /\ a + (b + 1) <= m
      OBVIOUS
    <3>4. QED
      BY <3>1, <3>2, <3>3
  <2>13. PlanInv'
    <3>1. plan'.decode \in Seq(DecodeWorks)
      BY <2>8, <2>10
    <3>2. QED
      BY <2>10, <2>11, <2>12, <3>1 DEF PlanInv
  <2>14. /\ decodeQ \in Seq(Requests) /\ Distinct(decodeQ)
         /\ prefillQ \in Seq(Requests) /\ Distinct(prefillQ)
         /\ \A x \in Requests : state[x] = "PREFILL" <=> Has(prefillQ, x)
         /\ \A x \in Requests : state[x] = "DECODE" <=> Has(decodeQ, x)
    BY Queues
  <2>15. /\ prefillQ' \in Seq(Requests)
         /\ Len(prefillQ') = Len(prefillQ)
         /\ Distinct(prefillQ')
         /\ \A x \in Requests : Has(prefillQ', x) <=> Has(prefillQ, x)
         /\ \A i \in 1 .. Len(prefillQ) - 1 : prefillQ'[i] = prefillQ[i + 1]
    BY <2>1, <2>2, <2>14, RotateQueue
  <2>16. QueueInv'
    <3>1. state' = state
      BY <2>2 DEF requestVars
    <3>2. QED
      BY <1>1, <2>14, <2>15, <3>1, QueuesPrimed
  <2>17. RequestInv(r)'
    <3>1. /\ state'[r] = "PREFILL" /\ shape'[r] = shape[r] /\ cursor'[r] = cursor[r]
          /\ ngen'[r] = ngen[r] /\ reserved'[r] = reserved[r] /\ len'[r] = len[r] + n
          /\ inflight'[r] = [kind |-> "prefill", count |-> n]
      BY <2>1, <2>2, <2>3, <2>5 DEF requestVars, ControlTypeOK
    <3>2. Unfinished(r)
      BY <2>1 DEF Unfinished, Active
    <3>3. /\ shape[r] \in Shapes /\ reserved[r] = Reservation(shape[r])
          /\ ngen[r] = 0 /\ cursor[r] < shape[r].prompt
      BY <2>1, <2>3, <3>2 DEF RequestInv
    <3>4. Reservation(shape[r])' = Reservation(shape[r])
      BY <3>1 DEF Reservation, BlocksForTokens
    <3>5. QED
      BY <1>3, <2>1, <2>5, <3>1, <3>3, <3>4 DEF RequestInv, Unfinished, Active, Idle
  <2>18. \A q \in Requests : RequestInv(q)'
    <3>1. \A q \in Requests \ {r} :
              /\ state'[q] = state[q] /\ shape'[q] = shape[q] /\ cursor'[q] = cursor[q]
              /\ ngen'[q] = ngen[q] /\ inflight'[q] = inflight[q] /\ reserved'[q] = reserved[q]
              /\ len'[q] = len[q] /\ (q \in live' <=> q \in live)
      BY <2>2, <2>3, <2>5 DEF ControlTypeOK, requestVars
    <3>2. QED
      BY <2>17, <3>1, OneRequestMoves
  <2>19. AdmittedBlocks' <= NumBlocks
    BY <2>2 DEF SchedInv, AdmittedBlocks, Tickets
  <2>20. \A i \in 1 .. todo' :
            Idle(prefillQ[i + 1]) /\ prefillQ[i + 1] # r /\ prefillQ[i + 1] \in Requests
    <3> TAKE i \in 1 .. todo'
    <3>1. i + 1 \in 1 .. todo /\ i + 1 # 1 /\ i + 1 \in DOMAIN prefillQ /\ 1 \in DOMAIN prefillQ
      <4>1. todo' = todo - 1 /\ todo \in Nat /\ todo <= Len(prefillQ)
        BY <2>2, <2>3, <2>8
      <4>2. DOMAIN prefillQ = 1 .. Len(prefillQ) /\ Len(prefillQ) \in Nat
        BY <2>14
      <4>3. QED
        BY <4>1, <4>2
    <3>2. Idle(prefillQ[i + 1])
      BY <2>8, <3>1
    <3>3. prefillQ[i + 1] # prefillQ[1]
      BY <2>14, <3>1 DEF Distinct
    <3>4. prefillQ[i + 1] \in Requests
      BY <2>14, <3>1
    <3>5. QED
      BY <2>1, <3>2, <3>3, <3>4
  <2>21. \A i \in 1 .. todo' : Idle(prefillQ[i])'
    <3> TAKE i \in 1 .. todo'
    <3>1. i \in 1 .. Len(prefillQ) - 1
      <4>1. todo' = todo - 1 /\ todo \in Nat /\ todo <= Len(prefillQ)
        BY <2>2, <2>3, <2>8
      <4>2. Len(prefillQ) \in Nat
        BY <2>14
      <4>3. QED
        BY <4>1, <4>2
    <3>2. prefillQ'[i] = prefillQ[i + 1]
      BY <2>15, <3>1
    <3>3. inflight'[prefillQ[i + 1]] = inflight[prefillQ[i + 1]]
      BY <2>2, <2>3, <2>20 DEF ControlTypeOK
    <3>4. QED
      BY <2>20, <3>2, <3>3 DEF Idle
  <2>22. LoopInv'
    <3>1. phase' = "plan_prefill" /\ state' = state /\ ngen' = ngen
      BY <1>1, <2>2 DEF requestVars
    <3>2. \A x \in Requests : ~(AwaitsFirstSample(x)')
      BY <2>8, <3>1 DEF AwaitsFirstSample
    <3>3. todo' <= Len(prefillQ')
      <4>1. todo' = todo - 1 /\ todo \in Nat /\ todo <= Len(prefillQ)
        BY <2>2, <2>3, <2>8
      <4>2. Len(prefillQ) \in Nat /\ Len(prefillQ') = Len(prefillQ)
        BY <2>14, <2>15
      <4>3. QED
        BY <4>1, <4>2
    <3>4. QED
      BY <2>12, <2>21, <3>1, <3>2, <3>3 DEF LoopInv
  <2>23. QED
    BY <2>4, <2>7, <2>13, <2>16, <2>18, <2>19, <2>22 DEF SchedInv
<1>4. QED
  BY <1>2, <1>3

-----------------------------------------------------------------------------
\* complete_prefill.

\* complete_prefill keeps the invariant.
LEMMA CompletePrefillInv ==
    ASSUME SchedInv, NEW r \in Requests, NEW n, CompletePrefill(r, n)
    PROVE  SchedInv'
<1>1. /\ phase = "idle" /\ state[r] = "PREFILL"
      /\ inflight[r] = [kind |-> "prefill", count |-> n]
      /\ n \in 1 .. RemainingPrompt(r)
      /\ inflight' = [inflight EXCEPT ![r] = NoWork]
      /\ cursor' = [cursor EXCEPT ![r] = @ + n]
      /\ UNCHANGED <<kvVars, shape, ngen, due, reserved, planVars>>
  BY DEF CompletePrefill, PrefillCommits
<1>2. /\ ControlTypeOK /\ RequestInv(r)
      /\ cursor[r] \in Nat /\ len[r] \in Nat
      /\ Unfinished(r)
  BY <1>1 DEF SchedInv, KVInv, KVTypeOK, ControlTypeOK, Unfinished, Active
<1>3. shape[r].prompt \in Nat \ {0} /\ shape[r].max \in Nat \ {0}
  BY <1>2, ShapeTypes
<1>4. /\ n \in Nat \ {0} /\ cursor[r] + n <= shape[r].prompt
      /\ len[r] = cursor[r] + n
  <2>1. len[r] = cursor[r] + inflight[r].count
    BY <1>1, <1>2 DEF RequestInv
  <2>2. n \in 1 .. shape[r].prompt - cursor[r]
    BY <1>1 DEF RemainingPrompt
  <2>3. QED
    BY <1>1, <1>2, <1>3, <2>1, <2>2
<1>5. KVInv'
  BY <1>1 DEF SchedInv, KVInv, KVTypeOK, OneOwnerPerBlock, TableFitsLength, kvVars, BlocksForTokens
<1>6. PlanInv'
  BY <1>1 DEF SchedInv, PlanInv, planVars
<1>7. AdmittedBlocks' <= NumBlocks
  BY <1>1 DEF SchedInv, AdmittedBlocks, Tickets
<1>8. LoopInv'
  BY <1>1 DEF LoopInv, planVars
<1>9. \/ n = RemainingPrompt(r) /\ state' = [state EXCEPT ![r] = "DECODE"]
         /\ prefillQ' = RemoveFirst(prefillQ, r) /\ decodeQ' = Append(decodeQ, r)
      \/ n # RemainingPrompt(r) /\ UNCHANGED <<state, prefillQ, decodeQ>>
  BY DEF CompletePrefill
<1>10. state' \in [Requests -> States] /\ \A q \in Requests \ {r} : state'[q] = state[q]
  BY <1>2, <1>9 DEF ControlTypeOK, States, Active
<1>11. ControlTypeOK'
  <2>1. NoWork \in [kind : {"none", "prefill", "decode"}, count : Nat]
    BY DEF NoWork
  <2>2. cursor' \in [Requests -> Nat]
    BY <1>1, <1>2, <1>4 DEF ControlTypeOK
  <2>3. QED
    BY <1>1, <1>2, <1>10, <2>1, <2>2 DEF ControlTypeOK, planVars
<1>12. /\ prefillQ \in Seq(Requests) /\ Distinct(prefillQ)
       /\ decodeQ \in Seq(Requests) /\ Distinct(decodeQ)
       /\ \A x \in Requests : state[x] = "PREFILL" <=> Has(prefillQ, x)
       /\ \A x \in Requests : state[x] = "DECODE" <=> Has(decodeQ, x)
  BY Queues
<1>13. /\ shape'[r] = shape[r] /\ cursor'[r] = cursor[r] + n /\ ngen'[r] = ngen[r]
       /\ inflight'[r] = NoWork /\ reserved'[r] = reserved[r] /\ len'[r] = len[r]
       /\ live' = live
  BY <1>1, <1>2 DEF ControlTypeOK, kvVars
<1>14. /\ shape[r] \in Shapes /\ reserved[r] = Reservation(shape[r])
       /\ ngen[r] = 0 /\ r \in live
  BY <1>1, <1>2 DEF RequestInv
<1>15. Reservation(shape[r])' = Reservation(shape[r])
  BY <1>13 DEF Reservation, BlocksForTokens
<1>16. QueueInv' /\ RequestInv(r)'
  <2>1. CASE n # RemainingPrompt(r)
    <3>1. UNCHANGED <<state, prefillQ, decodeQ>>
      BY <1>9, <2>1
    <3>2. QueueInv'
      BY <1>12, <3>1, QueuesPrimed
    <3>3. cursor[r] + n < shape[r].prompt
      BY <1>2, <1>3, <1>4, <2>1 DEF RemainingPrompt
    <3>4. state'[r] = "PREFILL"
      BY <1>1, <3>1
    <3>5. len'[r] = cursor'[r] + 0
      BY <1>2, <1>4, <1>13
    <3>6. len'[r] <= shape[r].prompt /\ cursor'[r] < shape[r].prompt
      BY <1>4, <1>13, <3>3
    <3>7. RequestInv(r)'
      BY <1>13, <1>14, <1>15, <3>4, <3>5, <3>6 DEF RequestInv, Unfinished, Active, Idle, NoWork
    <3>8. QED
      BY <3>2, <3>7
  <2>2. CASE n = RemainingPrompt(r)
    <3>1. /\ state' = [state EXCEPT ![r] = "DECODE"]
          /\ prefillQ' = RemoveFirst(prefillQ, r) /\ decodeQ' = Append(decodeQ, r)
      BY <1>9, <2>2
    <3>2. state'[r] = "DECODE"
      BY <1>2, <3>1 DEF ControlTypeOK
    <3>3. ~Has(decodeQ, r)
      BY <1>1, <1>12
    <3>4. /\ decodeQ' \in Seq(Requests) /\ Distinct(decodeQ')
          /\ \A x \in Requests : Has(decodeQ', x) <=> Has(decodeQ, x) \/ x = r
      BY <1>12, <3>1, <3>3, AppendQueue
    <3>5. /\ prefillQ' \in Seq(Requests) /\ Distinct(prefillQ')
          /\ \A x \in Requests : Has(prefillQ', x) <=> Has(prefillQ, x) /\ x # r
      BY <1>12, <3>1, RemoveQueue
    <3>6. \A x \in Requests : state'[x] = "PREFILL" <=> Has(prefillQ', x)
      BY <1>10, <1>12, <3>2, <3>5
    <3>7. \A x \in Requests : state'[x] = "DECODE" <=> Has(decodeQ', x)
      BY <1>10, <1>12, <3>2, <3>4
    <3>8. QueueInv'
      BY <3>4, <3>5, <3>6, <3>7, QueuesPrimed
    <3>9. cursor'[r] = shape[r].prompt /\ len'[r] = shape[r].prompt
      BY <1>2, <1>3, <1>4, <1>13, <2>2 DEF RemainingPrompt
    <3>10. RequestInv(r)'
      <4>1. 0 < shape[r].max
        BY <1>3
      <4>2. QED
        BY <1>13, <1>14, <1>15, <3>2, <3>9, <4>1 DEF RequestInv, Unfinished, Active, Idle
    <3>11. QED
      BY <3>8, <3>10
  <2>3. QED
    BY <2>1, <2>2
<1>17. \A q \in Requests : RequestInv(q)'
  BY <1>1, <1>2, <1>10, <1>16, OneRequestMoves DEF ControlTypeOK, kvVars
<1>18. QED
  BY <1>5, <1>6, <1>7, <1>8, <1>11, <1>16, <1>17 DEF SchedInv

-----------------------------------------------------------------------------
\* The theorems.

\* Every step of the scheduler keeps the invariant.
LEMMA SchedNextInv == SchedInv /\ [SchedNext]_schedVars => SchedInv'
<1> SUFFICES ASSUME SchedInv, [SchedNext]_schedVars PROVE SchedInv'
  OBVIOUS
<1>1. CASE UNCHANGED schedVars
  <2>1. /\ UNCHANGED <<kvVars, requestVars, queueVars>>
        /\ UNCHANGED <<due, phase, todo, budget, plan>>
    BY <1>1 DEF schedVars, planVars
  <2>2. due' \in SUBSET Requests /\ phase' \in Phases /\ todo' \in Nat /\ budget' \in Nat
    BY <2>1 DEF SchedInv, ControlTypeOK
  <2>3. PlanInv'
    BY <2>1 DEF SchedInv, PlanInv
  <2>4. LoopInv'
    <3>1. LoopInv
      BY DEF SchedInv
    <3>2. QED
      BY <2>1, <3>1 DEF LoopInv, NothingInFlight, Idle, AwaitsFirstSample, requestVars, queueVars
  <2>5. QED
    BY <2>1, <2>2, <2>3, <2>4, ControlStep
<1>2. CASE \/ ExpireBegin
           \/ ExpireEnd
           \/ PlanBegin /\ \A r \in Requests : ~AwaitsFirstSample(r)
  BY <1>2, LoopBoundsInv
<1>3. CASE PlanStep
  BY <1>3, PlanSortInv, PlanDecodeInv, PlanDecodeEndInv, PlanPrefillInv, PlanEndInv DEF PlanStep
<1>4. ASSUME NEW r \in Requests, NEW s \in Shapes, Submit(r, s) PROVE SchedInv'
  BY <1>4, SubmitInv
<1>5. ASSUME NEW r \in Requests, Cancel(r) \/ (Unfinished(r) /\ Fail(r)) \/ ExpireOne(r)
      PROVE  SchedInv'
  <2>1. /\ Terminate(r, "CANCELLED") \/ Terminate(r, "FAILED") \/ Terminate(r, "TIMED_OUT")
        /\ UNCHANGED <<due, planVars>>
        /\ phase \in {"idle", "expire", "plan_expire"}
    BY <1>5 DEF Cancel, Fail, ExpireOne
  <2>2. {"CANCELLED", "FAILED", "TIMED_OUT"} \subseteq Terminal
    BY DEF Terminal
  <2>3. QED
    BY <2>1, <2>2, TerminateInv
<1>6. ASSUME NEW r \in Requests, DeadlinePasses(r) PROVE SchedInv'
  BY <1>6, DeadlinePassesInv
<1>7. ASSUME NEW r \in Requests, CommitStep(r) PROVE SchedInv'
  <2>1. CASE CompletePrefill(r, inflight[r].count)
    BY <2>1, CompletePrefillInv
  <2>2. ASSUME NEW stopped \in BOOLEAN,
               CompletePrefillSample(r, stopped) \/ CompleteDecode(r, stopped)
        PROVE  SchedInv'
    BY <2>2, AppendTokenInv DEF CompletePrefillSample, CompleteDecode
  <2>3. QED
    BY <1>7, <2>1, <2>2 DEF CommitStep
<1>8. QED
  BY <1>1, <1>2, <1>3, <1>4, <1>5, <1>6, <1>7 DEF SchedNext

\* The inductive invariant of the scheduler: the order of queues, reservations,
\* cache lengths and planned work that every call of its interface keeps.
THEOREM SchedInvariant == SchedSpec => []SchedInv
BY SchedInitInv, SchedNextInv, PTL DEF SchedSpec

\* Type correctness of the scheduler's state and of the plans it returns.
THEOREM SchedTypeCorrect == SchedSpec => []SchedTypeOK
<1>1. SchedInv => SchedTypeOK
  BY DEF SchedInv, KVInv, ControlTypeOK, PlanInv, QueueInv, SchedTypeOK
<1>2. QED
  BY <1>1, SchedInvariant, PTL

\* Admission control is sufficient: plan() never runs out of blocks and never
\* meets a decode request without an input token.
THEOREM PlansNeverRaise == SchedSpec => []PlanNeverRaises
<1>1. SchedInv => PlanNeverRaises
  BY DEF SchedInv, LoopInv, PlanNeverRaises
<1>2. QED
  BY <1>1, SchedInvariant, PTL

\* The queues and the request states agree: rotations, sorts and removals lose
\* nobody and duplicate nobody.
THEOREM QueuesAgree == SchedSpec => []QueuesMatchStates
<1>1. SchedInv => QueuesMatchStates
  BY DEF SchedInv, QueueInv
<1>2. QED
  BY <1>1, SchedInvariant, PTL

\* Whoever is finished holds no blocks, no reservation and no planned work.
THEOREM ResourcesAgree == SchedSpec => []ResourcesMatchStates
<1>1. SchedInv => ResourcesMatchStates
  BY DEF SchedInv, RequestInv, KVInv, TableFitsLength, ResourcesMatchStates
<1>2. QED
  BY <1>1, SchedInvariant, PTL

\* The reservations fit the pool and every table fits its reservation.
THEOREM ReservationsCoverTables == SchedSpec => []ReservationsHold
<1>1. SchedInv => ReservationsHold
  BY TablesWithinReservations DEF SchedInv, ReservationsHold
<1>2. QED
  BY <1>1, SchedInvariant, PTL

\* The cache length of an active request is its committed progress plus what is
\* in flight, so every token is written at its own position.
THEOREM LengthsAgree == SchedSpec => []LengthMatchesProgress
<1>1. SchedInv => LengthMatchesProgress
  BY DEF SchedInv, RequestInv, LengthMatchesProgress, Idle
<1>2. QED
  BY <1>1, SchedInvariant, PTL

-----------------------------------------------------------------------------
\* Planned work.

\* A plan names known requests only, whose shapes never change.
WorkInv ==
    /\ WorksAreAligned
    /\ \A i \in DOMAIN plan.decode : state[plan.decode[i].id] # "NEW"
    /\ \A i \in DOMAIN plan.prefill : state[plan.prefill[i].id] # "NEW"

\* Works that stay planned still describe their requests.
LEMMA WorksKept ==
    ASSUME SchedInv, WorkInv, plan'.decode = plan.decode, plan'.prefill = plan.prefill,
           \A q \in Requests : state[q] # "NEW" => state'[q] # "NEW" /\ shape'[q] = shape[q]
    PROVE  WorkInv'
<1>1. /\ \A i \in DOMAIN plan.decode : plan.decode[i].id \in Requests
      /\ \A i \in DOMAIN plan.prefill : plan.prefill[i].id \in Requests
  <2>1. plan.decode \in Seq(DecodeWorks) /\ plan.prefill \in Seq(PrefillWorks)
    BY DEF SchedInv, PlanInv
  <2>2. \A i \in DOMAIN plan.decode : plan.decode[i] \in DecodeWorks
    BY <2>1
  <2>3. \A i \in DOMAIN plan.prefill : plan.prefill[i] \in PrefillWorks
    BY <2>1
  <2>4. QED
    BY <2>2, <2>3 DEF DecodeWorks, PrefillWorks
<1>2. QED
  BY <1>1 DEF WorkInv, WorksAreAligned

\* A decode work feeds the last token at its own position.
LEMMA DecodeWorkAligned ==
    ASSUME SchedInv, WorkInv, PlanDecode
    PROVE  WorkInv'
<1>1. phase = "plan_decode" /\ todo > 0
  BY DEF PlanDecode
<1>r. PICK r \in Requests : r = Head(decodeQ)
  BY <1>1, DecodeHead
<1>2. /\ state[r] = "DECODE" /\ ngen[r] > 0 /\ CanAppend(r, 1)
      /\ len[r] = shape[r].prompt + ngen[r] - 1
  BY <1>r, <1>1, DecodeHead
<1>3. /\ plan' = [plan EXCEPT !.decode = Append(@, DecodeWork(r))]
      /\ UNCHANGED requestVars
  BY <1>r, <1>2 DEF PlanDecode
<1> DEFINE w == DecodeWork(r)
<1>4. w.id = r /\ w.tok = ngen[r] /\ w.pos = len[r]
  BY DEF DecodeWork
<1> HIDE DEF w
<1>5. /\ plan'.decode = Append(plan.decode, w)
      /\ plan'.prefill = plan.prefill
      /\ plan.decode \in Seq(DecodeWorks)
  <2>1. plan = [decode |-> plan.decode, prefill |-> plan.prefill, graph |-> plan.graph]
        /\ plan.decode \in Seq(DecodeWorks)
    BY DEF SchedInv, PlanInv
  <2>2. plan' = [plan EXCEPT !.decode = Append(plan.decode, w)]
    BY <1>3 DEF w
  <2>3. QED
    BY <2>1, <2>2
<1>6. ASSUME NEW i \in DOMAIN plan'.decode
      PROVE  \/ i \in DOMAIN plan.decode /\ plan'.decode[i] = plan.decode[i]
             \/ plan'.decode[i] = w
  <2>1. /\ DOMAIN plan.decode = 1 .. Len(plan.decode) /\ Len(plan.decode) \in Nat
        /\ DOMAIN Append(plan.decode, w) = 1 .. Len(plan.decode) + 1
        /\ \A k \in 1 .. Len(plan.decode) : Append(plan.decode, w)[k] = plan.decode[k]
        /\ Append(plan.decode, w)[Len(plan.decode) + 1] = w
    BY <1>5
  <2>2. i \in 1 .. Len(plan.decode) \/ i = Len(plan.decode) + 1
    BY <1>5, <2>1
  <2>3. QED
    BY <1>5, <2>1, <2>2
<1>7. state' = state /\ shape' = shape
  BY <1>3 DEF requestVars
<1>8. w.tok > 0 /\ w.pos = shape[w.id].prompt + w.tok - 1 /\ state[w.id] # "NEW"
  BY <1>2, <1>4
<1>9. \A i \in DOMAIN plan'.decode :
          /\ plan'.decode[i].tok > 0
          /\ plan'.decode[i].pos = shape[plan'.decode[i].id].prompt + plan'.decode[i].tok - 1
          /\ state[plan'.decode[i].id] # "NEW"
  BY <1>6, <1>8 DEF WorkInv, WorksAreAligned
<1>10. QED
  BY <1>5, <1>7, <1>9 DEF WorkInv, WorksAreAligned

\* A prefill work stays within the prompt.
LEMMA PrefillWorkAligned ==
    ASSUME SchedInv, WorkInv, PlanPrefill
    PROVE  WorkInv'
<1>1. phase = "plan_prefill" /\ todo > 0
  BY DEF PlanPrefill
<1>r. PICK r \in Requests : r = Head(prefillQ)
  BY <1>1, PrefillHead
<1>n. PICK n \in Int : n = ChunkCount(r)
  BY <1>r, <1>1, PrefillHead
<1>2. /\ state[r] = "PREFILL"
      /\ n > 0 => CanAppend(r, n)
      /\ cursor[r] + n <= shape[r].prompt
  BY <1>r, <1>n, <1>1, PrefillHead
<1>3. state' = state /\ shape' = shape
  <2>1. UNCHANGED requestVars
    BY <1>r, <1>n, <1>2 DEF PlanPrefill, PlanRaises
  <2>2. QED
    BY <2>1 DEF requestVars
<1>4. CASE n <= 0
  <2>1. plan' = plan
    BY <1>r, <1>n, <1>1, <1>4, PrefillHead DEF PlanPrefill
  <2>2. QED
    BY <1>3, <2>1, WorksKept
<1>5. CASE n > 0
  <2> DEFINE w == [id |-> r, start |-> cursor[r], count |-> n,
                   slots |-> Slots(table'[r], len[r], n)]
  <2>1. state[r] = "PREFILL" /\ CanAppend(r, n)
    BY <1>r, <1>n, <1>1, <1>5, PrefillHead
  <2>2. plan' = [plan EXCEPT !.prefill = Append(@, w)]
    BY <1>r, <1>n, <1>5, <2>1 DEF PlanPrefill
  <2>3. w.id = r /\ w.start = cursor[r] /\ w.count = n
    OBVIOUS
  <2> HIDE DEF w
  <2>4. /\ plan'.prefill = Append(plan.prefill, w)
        /\ plan'.decode = plan.decode
        /\ plan.prefill \in Seq(PrefillWorks)
    <3>1. plan = [decode |-> plan.decode, prefill |-> plan.prefill, graph |-> plan.graph]
          /\ plan.prefill \in Seq(PrefillWorks)
      BY DEF SchedInv, PlanInv
    <3>2. plan' = [plan EXCEPT !.prefill = Append(plan.prefill, w)]
      BY <2>2
    <3>3. QED
      BY <3>1, <3>2
  <2>5. ASSUME NEW i \in DOMAIN plan'.prefill
        PROVE  \/ i \in DOMAIN plan.prefill /\ plan'.prefill[i] = plan.prefill[i]
               \/ plan'.prefill[i] = w
    <3>1. /\ DOMAIN plan.prefill = 1 .. Len(plan.prefill) /\ Len(plan.prefill) \in Nat
          /\ DOMAIN Append(plan.prefill, w) = 1 .. Len(plan.prefill) + 1
          /\ \A k \in 1 .. Len(plan.prefill) : Append(plan.prefill, w)[k] = plan.prefill[k]
          /\ Append(plan.prefill, w)[Len(plan.prefill) + 1] = w
      BY <2>4
    <3>2. i \in 1 .. Len(plan.prefill) \/ i = Len(plan.prefill) + 1
      BY <2>4, <3>1
    <3>3. QED
      BY <2>4, <3>1, <3>2
  <2>6. w.count > 0 /\ w.start + w.count <= shape[w.id].prompt /\ state[w.id] # "NEW"
    BY <1>2, <1>5, <2>1, <2>3
  <2>7. \A i \in DOMAIN plan'.prefill :
            /\ plan'.prefill[i].count > 0
            /\ plan'.prefill[i].start + plan'.prefill[i].count
                   <= shape[plan'.prefill[i].id].prompt
            /\ state[plan'.prefill[i].id] # "NEW"
    BY <2>5, <2>6 DEF WorkInv, WorksAreAligned
  <2>8. QED
    BY <1>3, <2>4, <2>7 DEF WorkInv, WorksAreAligned
<1>6. QED
  BY <1>4, <1>5

\* Every step keeps the planned works true of their requests.
LEMMA WorkNextInv == SchedInv /\ WorkInv /\ [SchedNext]_schedVars => WorkInv'
<1> SUFFICES ASSUME SchedInv, WorkInv, [SchedNext]_schedVars PROVE WorkInv'
  OBVIOUS
<1>0. state \in [Requests -> States] /\ shape \in [Requests -> Shapes \cup {NoShape}]
  BY DEF SchedInv, ControlTypeOK
<1>1. CASE UNCHANGED schedVars
  BY <1>1, WorksKept DEF schedVars, requestVars, planVars
<1>2. CASE ExpireBegin \/ ExpireEnd \/ PlanBegin \/ PlanDecodeEnd \/ \E r \in Requests : DeadlinePasses(r)
  <2>1. UNCHANGED requestVars /\ plan' = plan
    BY <1>2 DEF ExpireBegin, ExpireEnd, PlanBegin, PlanDecodeEnd, DeadlinePasses, planVars
  <2>2. QED
    BY <2>1, WorksKept DEF requestVars
<1>3. CASE PlanSort
  BY <1>3 DEF PlanSort, NoPlan, WorkInv, WorksAreAligned
<1>4. CASE PlanEnd
  <2>1. UNCHANGED requestVars /\ plan' = [plan EXCEPT !.graph = plan'.graph]
    BY <1>4 DEF SchedInv, PlanInv, PlanEnd
  <2>2. plan = [decode |-> plan.decode, prefill |-> plan.prefill, graph |-> plan.graph]
    BY DEF SchedInv, PlanInv
  <2>3. plan'.decode = plan.decode /\ plan'.prefill = plan.prefill
    BY <2>1, <2>2
  <2>4. QED
    BY <2>1, <2>3, WorksKept DEF requestVars
<1>5. CASE PlanDecode
  BY <1>5, DecodeWorkAligned
<1>6. CASE PlanPrefill
  BY <1>6, PrefillWorkAligned
<1>7. ASSUME NEW r \in Requests, NEW s \in Shapes, Submit(r, s) PROVE WorkInv'
  <2>1. /\ state[r] = "NEW" /\ plan' = plan
        /\ shape' = [shape EXCEPT ![r] = s]
        /\ state' = [state EXCEPT ![r] = "PREFILL"] \/ state' = [state EXCEPT ![r] = "REJECTED"]
    BY <1>7 DEF Submit, planVars
  <2>2. \A q \in Requests : state[q] # "NEW" => state'[q] # "NEW" /\ shape'[q] = shape[q]
    BY <1>0, <2>1
  <2>3. QED
    BY <2>1, <2>2, WorksKept
<1>8. ASSUME NEW r \in Requests,
             \/ Cancel(r) \/ Fail(r) \/ ExpireOne(r)
             \/ CommitStep(r)
      PROVE  WorkInv'
  <2>1. /\ plan' = plan /\ shape' = shape
        /\ state' = state \/ \E final \in States \ {"NEW"} : state' = [state EXCEPT ![r] = final]
    BY <1>8 DEF Cancel, Fail, ExpireOne, Terminate, CommitStep, CompletePrefill, AppendToken,
                CompletePrefillSample, CompleteDecode, planVars, States, Active, Terminal
  <2>2. \A q \in Requests : state[q] # "NEW" => state'[q] # "NEW"
    BY <1>0, <2>1
  <2>3. QED
    BY <2>1, <2>2, WorksKept
<1>9. QED
  BY <1>1, <1>2, <1>3, <1>4, <1>5, <1>6, <1>7, <1>8 DEF SchedNext, PlanStep

\* Every planned decode feeds the token generated last at the position that
\* follows the prompt and the tokens before it; every planned chunk is not empty
\* and lies within the prompt.
THEOREM PlannedWorkIsAligned == SchedSpec => []WorksAreAligned
<1>1. SchedInit => WorkInv
  BY DEF SchedInit, NoPlan, WorkInv, WorksAreAligned
<1>2. WorkInv => WorksAreAligned
  BY DEF WorkInv
<1>3. QED
  BY <1>1, <1>2, WorkNextInv, SchedInvariant, PTL DEF SchedSpec

-----------------------------------------------------------------------------
(***************************************************************************)
(* The plans the scheduler returns: whom they name, what they may cost,    *)
(* and whom they serve first.                                              *)
(***************************************************************************)
\* The invariants.

\* The loops of plan() that fill the plan.
Planning == phase \in {"plan_decode", "plan_prefill"}

\* One work per request.
WorksDistinct ==
    /\ \A i, j \in DOMAIN plan.decode : plan.decode[i].id = plan.decode[j].id => i = j
    /\ \A i, j \in DOMAIN plan.prefill : plan.prefill[i].id = plan.prefill[j].id => i = j
    /\ \A i \in DOMAIN plan.decode, j \in DOMAIN plan.prefill :
          plan.decode[i].id # plan.prefill[j].id

\* The tokens a plan prefills, one ticket each.
PrefillTickets ==
    {t \in (DOMAIN plan.prefill) \X (1 .. MaxPrefillTokens) :
        t[2] <= plan.prefill[t[1]].count}

\* While a plan is built, the requests it names are those in flight; every chunk
\* respects the limit in force, and the budget is what the chunks have left.
PlansInv ==
    /\ WorksDistinct
    /\ Cardinality(PlannedIds) = Len(plan.decode) + Len(plan.prefill)
    /\ IsFiniteSet(PlannedIds)
    /\ Planning => \A r \in Requests : r \in PlannedIds <=> ~Idle(r)
    /\ \A i \in DOMAIN plan.prefill : plan.prefill[i].count <= ChunkLimit
    /\ phase = "plan_prefill" =>
          /\ IsFiniteSet(PrefillTickets)
          /\ Cardinality(PrefillTickets) = MaxPrefillTokens - budget

\* The served requests are the last ones of their queue, as many as the plan
\* has works of their kind; an empty plan still has somebody to visit, unless
\* both queues are empty.
ServedAtEnd(q, work, n) == \A i \in DOMAIN q : work[q[i]] = NoWork <=> i <= Len(q) - n

OrderInv ==
    /\ Planning => ServedAtEnd(decodeQ, inflight, Len(plan.decode))
    /\ phase = "plan_decode" => Len(plan.decode) + todo = MinOf(Len(decodeQ), MaxBatch)
    /\ phase = "plan_prefill" =>
          /\ ServedAtEnd(prefillQ, inflight, Len(plan.prefill))
          /\ Len(plan.decode) = MinOf(Len(decodeQ), MaxBatch)
          /\ plan.prefill # <<>> \/ todo > 0 => Len(plan.decode) = Len(decodeQ)
          /\ plan.decode = <<>> /\ plan.prefill = <<>> /\ prefillQ # <<>> => todo > 0

-----------------------------------------------------------------------------
\* What the steps of plan() do.

\* Work appended to a list.
LEMMA AppendWork ==
    ASSUME NEW S, NEW q \in Seq(S), NEW w
    PROVE  /\ Len(Append(q, w)) = Len(q) + 1
           /\ Len(q) \in Nat
           /\ DOMAIN q = 1 .. Len(q)
           /\ DOMAIN Append(q, w) = 1 .. Len(q) + 1
           /\ \A i \in DOMAIN q : Append(q, w)[i] = q[i]
           /\ Append(q, w)[Len(q) + 1] = w
OBVIOUS

\* Works name requests.
LEMMA WorksNameRequests ==
    ASSUME PlanInv
    PROVE  /\ plan.decode \in Seq(DecodeWorks) /\ plan.prefill \in Seq(PrefillWorks)
           /\ \A i \in DOMAIN plan.decode : plan.decode[i] \in DecodeWorks
           /\ \A i \in DOMAIN plan.prefill : plan.prefill[i] \in PrefillWorks
           /\ \A i \in DOMAIN plan.decode : plan.decode[i].id \in Requests
           /\ \A i \in DOMAIN plan.prefill : plan.prefill[i].id \in Requests
           /\ PlannedIds \subseteq Requests
<1>1. plan.decode \in Seq(DecodeWorks) /\ plan.prefill \in Seq(PrefillWorks)
  BY DEF PlanInv
<1>2. \A i \in DOMAIN plan.decode : plan.decode[i] \in DecodeWorks
  BY <1>1
<1>3. \A i \in DOMAIN plan.prefill : plan.prefill[i] \in PrefillWorks
  BY <1>1
<1>4. /\ \A i \in DOMAIN plan.decode : plan.decode[i].id \in Requests
      /\ \A i \in DOMAIN plan.prefill : plan.prefill[i].id \in Requests
  BY <1>2, <1>3 DEF DecodeWorks, PrefillWorks
<1>5. PlannedIds \subseteq Requests
  BY <1>4 DEF PlannedIds
<1>6. QED
  BY <1>1, <1>2, <1>3, <1>4, <1>5

\* One iteration of the decode loop plans the head of the queue.
LEMMA PlanDecodeEffect ==
    ASSUME SchedInv, PlanDecode
    PROVE  \E w \in DecodeWorks :
              /\ phase = "plan_decode" /\ todo > 0 /\ todo \in Nat
              /\ decodeQ # <<>> /\ w.id = Head(decodeQ) /\ decodeQ[1] = w.id
              /\ state[w.id] = "DECODE" /\ Idle(w.id) /\ w.id \in live
              /\ w.pos = len[w.id] /\ w.slot = Slot(table'[w.id], len[w.id])
              /\ plan.prefill = <<>>
              /\ plan'.decode = Append(plan.decode, w)
              /\ plan'.prefill = plan.prefill
              /\ inflight' = [inflight EXCEPT ![w.id] = [kind |-> "decode", count |-> 1]]
              /\ decodeQ' = Rotate(decodeQ)
              /\ todo' = todo - 1
              /\ Reserve(w.id, 1)
              /\ UNCHANGED <<requestVars, due, reserved, phase, budget, prefillQ>>
<1>1. phase = "plan_decode" /\ todo > 0 /\ prefillQ' = prefillQ
  BY DEF PlanDecode
<1>r. PICK r \in Requests : r = Head(decodeQ)
  BY <1>1, DecodeHead
<1>2. /\ decodeQ # <<>> /\ decodeQ[1] = r
      /\ state[r] = "DECODE" /\ Idle(r) /\ ngen[r] > 0 /\ CanAppend(r, 1)
  BY <1>r, <1>1, DecodeHead
<1>3. /\ AppendSlots(r, 1)
      /\ plan' = [plan EXCEPT !.decode = Append(@, DecodeWork(r))]
      /\ inflight' = [inflight EXCEPT ![r] = [kind |-> "decode", count |-> 1]]
      /\ decodeQ' = Rotate(decodeQ)
      /\ todo' = todo - 1
      /\ UNCHANGED <<requestVars, due, reserved, phase, budget>>
  BY <1>r, <1>2 DEF PlanDecode
<1> DEFINE w == DecodeWork(r)
<1>4. w.id = r /\ w.pos = len[r] /\ w.slot = Slot(table'[r], len[r])
  BY DEF DecodeWork
<1> HIDE DEF w
<1>5. plan'.decode = Append(plan.decode, w) /\ plan'.prefill = plan.prefill
  <2>1. plan = [decode |-> plan.decode, prefill |-> plan.prefill, graph |-> plan.graph]
    BY DEF SchedInv, PlanInv
  <2>2. plan' = [plan EXCEPT !.decode = Append(plan.decode, w)]
    BY <1>3 DEF w
  <2>3. QED
    BY <2>1, <2>2
<1>6. w \in DecodeWorks
  <2>1. PlanInv'
    BY PlanDecodeInv DEF SchedInv
  <2>2. plan.decode \in Seq(DecodeWorks)
    BY DEF SchedInv, PlanInv
  <2>3. plan'.decode \in Seq(DecodeWorks)
    BY <2>1 DEF PlanInv
  <2>4. /\ Len(plan'.decode) = Len(plan.decode) + 1 /\ Len(plan.decode) \in Nat
        /\ plan'.decode[Len(plan.decode) + 1] = w
    BY <1>5, <2>2, AppendWork
  <2>5. Len(plan.decode) + 1 \in 1 .. Len(plan'.decode)
    BY <2>4
  <2>6. QED
    BY <2>3, <2>4, <2>5
<1>7. plan.prefill = <<>> /\ todo \in Nat
  BY <1>1 DEF SchedInv, LoopInv, ControlTypeOK
<1>8. Reserve(r, 1) /\ r \in live
  BY <1>2, <1>3 DEF AppendSlots
<1>9. QED
  BY <1>r, <1>1, <1>2, <1>3, <1>4, <1>5, <1>6, <1>7, <1>8

\* One iteration of the prefill loop plans a chunk of the head of the queue, or
\* ends the loop because the budget is spent.
LEMMA PlanPrefillEffect ==
    ASSUME SchedInv, PlanPrefill
    PROVE  /\ phase = "plan_prefill" /\ todo > 0 /\ todo \in Nat
           /\ UNCHANGED <<requestVars, due, reserved, phase, decodeQ>>
           /\ \/ /\ todo' = 0
                 /\ UNCHANGED <<kvVars, prefillQ, inflight, plan, budget>>
              \/ \E w \in PrefillWorks :
                    /\ prefillQ # <<>> /\ w.id = Head(prefillQ) /\ prefillQ[1] = w.id
                    /\ state[w.id] = "PREFILL" /\ Idle(w.id) /\ w.id \in live
                    /\ w.count = ChunkCount(w.id) /\ w.count > 0 /\ w.count <= budget
                    /\ w.start = cursor[w.id]
                    /\ w.slots = Slots(table'[w.id], len[w.id], w.count)
                    /\ plan'.decode = plan.decode
                    /\ plan'.prefill = Append(plan.prefill, w)
                    /\ inflight' = [inflight EXCEPT ![w.id] =
                                       [kind |-> "prefill", count |-> w.count]]
                    /\ prefillQ' = Rotate(prefillQ)
                    /\ todo' = todo - 1
                    /\ budget' = budget - w.count
                    /\ Reserve(w.id, w.count)
<1>1. phase = "plan_prefill" /\ todo > 0 /\ todo \in Nat /\ decodeQ' = decodeQ
  BY DEF PlanPrefill, SchedInv, ControlTypeOK
<1>r. PICK r \in Requests : r = Head(prefillQ)
  BY <1>1, PrefillHead
<1>n. PICK n \in Int : n = ChunkCount(r)
  BY <1>r, <1>1, PrefillHead
<1>2. state[r] = "PREFILL" /\ Idle(r) /\ prefillQ # <<>> /\ prefillQ[1] = r /\ n <= budget
  BY <1>1, <1>r, <1>n, PrefillHead
<1>3. CASE n <= 0
  BY <1>1, <1>2, <1>3, <1>n, <1>r DEF PlanPrefill
<1>4. CASE n > 0
  <2>1. CanAppend(r, n)
    BY <1>1, <1>r, <1>n, <1>4, PrefillHead
  <2> DEFINE w == [id |-> r, start |-> cursor[r], count |-> n,
                   slots |-> Slots(table'[r], len[r], n)]
  <2>2. /\ AppendSlots(r, n)
        /\ plan' = [plan EXCEPT !.prefill = Append(@, w)]
        /\ inflight' = [inflight EXCEPT ![r] = [kind |-> "prefill", count |-> n]]
        /\ prefillQ' = Rotate(prefillQ)
        /\ budget' = budget - n
        /\ todo' = todo - 1
        /\ UNCHANGED <<requestVars, due, reserved, phase>>
    BY <1>r, <1>n, <1>4, <1>2, <2>1 DEF PlanPrefill
  <2>3. /\ w.id = r /\ w.count = n /\ w.start = cursor[r]
        /\ w.slots = Slots(table'[r], len[r], n)
    OBVIOUS
  <2> HIDE DEF w
  <2>4. plan'.prefill = Append(plan.prefill, w) /\ plan'.decode = plan.decode
    <3>1. plan = [decode |-> plan.decode, prefill |-> plan.prefill, graph |-> plan.graph]
      BY DEF SchedInv, PlanInv
    <3>2. plan' = [plan EXCEPT !.prefill = Append(plan.prefill, w)]
      BY <2>2
    <3>3. QED
      BY <3>1, <3>2
  <2>5. w \in PrefillWorks
    <3>1. PlanInv'
      BY PlanPrefillInv DEF SchedInv
    <3>2. plan.prefill \in Seq(PrefillWorks)
      BY DEF SchedInv, PlanInv
    <3>3. plan'.prefill \in Seq(PrefillWorks)
      BY <3>1 DEF PlanInv
    <3>4. /\ Len(plan'.prefill) = Len(plan.prefill) + 1 /\ Len(plan.prefill) \in Nat
          /\ plan'.prefill[Len(plan.prefill) + 1] = w
      BY <2>4, <3>2, AppendWork
    <3>5. Len(plan.prefill) + 1 \in 1 .. Len(plan'.prefill)
      BY <3>4
    <3>6. QED
      BY <3>3, <3>4, <3>5
  <2>6. Reserve(r, n) /\ r \in live
    BY <2>1, <2>2 DEF AppendSlots
  <2>7. QED
    BY <1>1, <1>2, <1>4, <1>n, <1>r, <2>2, <2>3, <2>4, <2>5, <2>6
<1>5. QED
  BY SMTT(30), <1>3, <1>4

\* Every other step leaves the works of the plan alone, outside the loops that
\* fill it.
LEMMA WorksUntouched ==
    ASSUME SchedInv, [SchedNext]_schedVars,
           ~PlanSort, ~PlanDecode, ~PlanDecodeEnd, ~PlanPrefill
    PROVE  /\ plan'.decode = plan.decode /\ plan'.prefill = plan.prefill
           /\ ~Planning' \/ UNCHANGED schedVars
<1>1. CASE UNCHANGED schedVars
  BY <1>1 DEF schedVars, planVars
<1>2. CASE ExpireBegin \/ ExpireEnd \/ PlanBegin
  BY <1>2 DEF ExpireBegin, ExpireEnd, PlanBegin, Planning
<1>3. CASE PlanEnd
  <2>1. phase' = "idle" /\ plan' = [plan EXCEPT !.graph = plan'.graph]
    BY <1>3 DEF SchedInv, PlanInv, PlanEnd
  <2>2. plan = [decode |-> plan.decode, prefill |-> plan.prefill, graph |-> plan.graph]
    BY DEF SchedInv, PlanInv
  <2>3. QED
    BY <2>1, <2>2 DEF Planning
<1>4. ASSUME NEW r \in Requests,
             \/ \E s \in Shapes : Submit(r, s)
             \/ Cancel(r) \/ Fail(r) \/ DeadlinePasses(r) \/ ExpireOne(r) \/ CommitStep(r)
      PROVE  /\ plan'.decode = plan.decode /\ plan'.prefill = plan.prefill
             /\ ~Planning'
  BY <1>4 DEF Submit, Cancel, Fail, DeadlinePasses, ExpireOne, CommitStep, CompletePrefill,
              CompletePrefillSample, CompleteDecode, AppendToken, planVars, Planning
<1>5. QED
  BY <1>1, <1>2, <1>3, <1>4 DEF SchedNext, PlanStep

\* What makes a request busy makes no other one idle.
LEMMA BusyNow ==
    ASSUME inflight \in [Requests -> [kind : {"none", "prefill", "decode"}, count : Nat]],
           NEW r \in Requests, NEW kind, kind # "none", NEW n,
           inflight' = [inflight EXCEPT ![r] = [kind |-> kind, count |-> n]]
    PROVE  /\ ~Idle(r)'
           /\ \A q \in Requests : q # r => (Idle(q)' <=> Idle(q))
BY DEF Idle, NoWork

-----------------------------------------------------------------------------
\* Every step keeps PlansInv.

\* The steps that plan no work keep the plan within its limits.
LEMMA PlansKept ==
    ASSUME SchedInv, PlansInv, [SchedNext]_schedVars,
           ~PlanSort, ~PlanDecode, ~PlanDecodeEnd, ~PlanPrefill
    PROVE  PlansInv'
<1>1. /\ plan'.decode = plan.decode /\ plan'.prefill = plan.prefill
      /\ ~Planning' \/ UNCHANGED schedVars
  BY WorksUntouched
<1>2. PlannedIds' = PlannedIds /\ ChunkLimit' = ChunkLimit /\ PrefillTickets' = PrefillTickets
  BY <1>1 DEF PlannedIds, ChunkLimit, PrefillTickets
<1>3. WorksDistinct'
  BY <1>1 DEF PlansInv, WorksDistinct
<1>4. Planning' => \A r \in Requests : r \in PlannedIds' <=> ~Idle(r)'
  BY <1>1, <1>2 DEF PlansInv, Planning, Idle, schedVars, queueVars, planVars
<1>5. phase' = "plan_prefill" => phase = "plan_prefill" /\ budget' = budget
  BY <1>1 DEF Planning, schedVars, planVars
<1>6. QED
  BY <1>1, <1>2, <1>3, <1>4, <1>5 DEF PlansInv

\* An empty plan.
LEMMA PlanStarts ==
    ASSUME SchedInv, PlansInv, PlanSort \/ PlanDecodeEnd
    PROVE  PlansInv'
<1>1. CASE PlanSort
  <2>1. /\ plan'.decode = <<>> /\ plan'.prefill = <<>>
        /\ phase = "plan_expire" /\ phase' = "plan_decode" /\ inflight' = inflight
    BY <1>1 DEF PlanSort, NoPlan
  <2>2. PlannedIds' = {}
    BY <2>1 DEF PlannedIds
  <2>3. Cardinality(PlannedIds') = 0 /\ IsFiniteSet(PlannedIds')
    BY <2>2, FS_EmptySet
  <2>4. \A r \in Requests : Idle(r)'
    BY <2>1 DEF SchedInv, LoopInv, NothingInFlight, Idle
  <2>5. QED
    BY <2>1, <2>2, <2>3, <2>4 DEF PlansInv, WorksDistinct
<1>2. CASE PlanDecodeEnd
  <2>1. /\ plan' = plan /\ inflight' = inflight
        /\ phase = "plan_decode" /\ phase' = "plan_prefill" /\ budget' = MaxPrefillTokens
    BY <1>2 DEF PlanDecodeEnd, queueVars
  <2>2. plan.prefill = <<>>
    BY <2>1 DEF SchedInv, LoopInv
  <2>3. PrefillTickets' = {} /\ PlannedIds' = PlannedIds
    BY <2>1, <2>2 DEF PrefillTickets, PlannedIds
  <2>4. IsFiniteSet(PrefillTickets') /\ Cardinality(PrefillTickets') = MaxPrefillTokens - budget'
    BY <2>1, <2>3, FS_EmptySet, LimitsAssumption
  <2>5. WorksDistinct'
    BY <2>1 DEF PlansInv, WorksDistinct
  <2>6. \A r \in Requests : r \in PlannedIds' <=> ~Idle(r)'
    BY <2>1, <2>3 DEF PlansInv, Planning, Idle
  <2>7. \A i \in DOMAIN plan'.prefill : plan'.prefill[i].count <= ChunkLimit'
    BY <2>1, <2>2
  <2>8. QED
    BY <2>1, <2>3, <2>4, <2>5, <2>6, <2>7 DEF PlansInv
<1>3. QED
  BY <1>1, <1>2

\* A planned decode takes one row of the batch and one token of the budget.
LEMMA PlanDecodeKeepsPlans ==
    ASSUME SchedInv, PlansInv, PlanDecode
    PROVE  PlansInv'
<1>1. PICK w \in DecodeWorks :
          /\ phase = "plan_decode" /\ Idle(w.id)
          /\ plan.prefill = <<>>
          /\ plan'.decode = Append(plan.decode, w)
          /\ plan'.prefill = plan.prefill
          /\ inflight' = [inflight EXCEPT ![w.id] = [kind |-> "decode", count |-> 1]]
          /\ phase' = phase
  BY PlanDecodeEffect
<1>2. w.id \in Requests
  BY DEF DecodeWorks
<1>3. w.id \notin PlannedIds
  BY <1>1, <1>2 DEF PlansInv, Planning
<1>4. /\ plan.decode \in Seq(DecodeWorks)
      /\ Len(plan'.decode) = Len(plan.decode) + 1 /\ Len(plan.decode) \in Nat
      /\ DOMAIN plan.decode = 1 .. Len(plan.decode)
      /\ DOMAIN plan'.decode = 1 .. Len(plan.decode) + 1
      /\ \A i \in DOMAIN plan.decode : plan'.decode[i] = plan.decode[i]
      /\ plan'.decode[Len(plan.decode) + 1] = w
  <2>1. plan.decode \in Seq(DecodeWorks)
    BY DEF SchedInv, PlanInv
  <2>2. QED
    BY <1>1, <2>1, AppendWork
<1>5. PlannedIds' = PlannedIds \cup {w.id}
  <2>1. {plan'.decode[i].id : i \in DOMAIN plan'.decode}
          = {plan.decode[i].id : i \in DOMAIN plan.decode} \cup {w.id}
    BY <1>4
  <2>2. QED
    BY <1>1, <2>1 DEF PlannedIds
<1>6. Cardinality(PlannedIds') = Len(plan'.decode) + Len(plan'.prefill) /\ IsFiniteSet(PlannedIds')
  <2>1. Cardinality(PlannedIds') = Cardinality(PlannedIds) + 1 /\ IsFiniteSet(PlannedIds')
    BY <1>3, <1>5, FS_AddElement DEF PlansInv
  <2>2. Len(plan.prefill) \in Nat
    BY DEF SchedInv, PlanInv
  <2>3. Cardinality(PlannedIds) = Len(plan.decode) + Len(plan.prefill)
    BY DEF PlansInv
  <2>4. Len(plan'.prefill) = Len(plan.prefill)
    BY <1>1
  <2>5. Len(plan'.decode) = Len(plan.decode) + 1 /\ Len(plan.decode) \in Nat
    BY <1>4
  <2> DEFINE a == Len(plan.decode)  b == Len(plan.prefill)  c == Cardinality(PlannedIds)
             d == Cardinality(PlannedIds')
  <2> HIDE DEF a, b, c, d
  <2>6. a \in Nat /\ b \in Nat /\ c = a + b /\ d = c + 1
    BY <2>1, <2>2, <2>3, <2>5 DEF a, b, c, d
  <2>7. d = (a + 1) + b
    BY <2>6
  <2>8. Cardinality(PlannedIds') = Len(plan'.decode) + Len(plan'.prefill)
    BY <2>4, <2>5, <2>7 DEF a, b, d
  <2>9. QED
    BY <2>1, <2>8
<1>7. WorksDistinct'
  <2>1. \A i \in DOMAIN plan.decode : plan.decode[i].id # w.id
    BY <1>3 DEF PlannedIds
  <2>2. \A i, j \in DOMAIN plan'.decode : plan'.decode[i].id = plan'.decode[j].id => i = j
    <3> SUFFICES ASSUME NEW i \in DOMAIN plan'.decode, NEW j \in DOMAIN plan'.decode,
                        plan'.decode[i].id = plan'.decode[j].id
                 PROVE  i = j
      OBVIOUS
    <3>1. /\ i \in DOMAIN plan.decode \/ i = Len(plan.decode) + 1
          /\ j \in DOMAIN plan.decode \/ j = Len(plan.decode) + 1
      BY <1>4
    <3>2. \A x, y \in DOMAIN plan.decode : plan.decode[x].id = plan.decode[y].id => x = y
      BY DEF PlansInv, WorksDistinct
    <3>3. QED
      BY <1>4, <2>1, <3>1, <3>2
  <2>3. QED
    BY <1>1, <2>2 DEF PlansInv, WorksDistinct
<1>8. \A r \in Requests : r \in PlannedIds' <=> ~Idle(r)'
  <2>1. /\ ~Idle(w.id)'
        /\ \A q \in Requests : q # w.id => (Idle(q)' <=> Idle(q))
    BY <1>1, <1>2, BusyNow DEF SchedInv, ControlTypeOK
  <2>2. QED
    BY <1>1, <1>5, <2>1 DEF PlansInv, Planning
<1>9. \A i \in DOMAIN plan'.prefill : plan'.prefill[i].count <= ChunkLimit'
  BY <1>1
<1>10. QED
  BY <1>1, <1>6, <1>7, <1>8, <1>9 DEF PlansInv

\* The chunk of a request respects the limit and the budget.
LEMMA ChunkBounds ==
    ASSUME NEW r, RemainingPrompt(r) \in Int, budget \in Nat
    PROVE  ChunkLimit \in Nat \ {0} /\ ChunkCount(r) <= ChunkLimit
<1>1. ChunkLimit \in Nat \ {0}
  BY LimitsAssumption DEF ChunkLimit, MinOf
<1>2. QED
  BY <1>1 DEF ChunkCount, MinOf

\* A chunk of n tokens takes n tickets of the budget.
LEMMA SpendBudget ==
    ASSUME NEW n \in Nat, n <= budget, budget \in Nat,
           NEW w, w.count = n, PlanInv,
           IsFiniteSet(PrefillTickets), Cardinality(PrefillTickets) = MaxPrefillTokens - budget,
           plan'.prefill = Append(plan.prefill, w), budget' = budget - n
    PROVE  /\ IsFiniteSet(PrefillTickets')
           /\ Cardinality(PrefillTickets') = MaxPrefillTokens - budget'
<1> DEFINE k == Len(plan.prefill) + 1
           new == {k} \X (0 + 1 .. n)
<1>1. /\ plan.prefill \in Seq(PrefillWorks)
      /\ DOMAIN plan.prefill = 1 .. Len(plan.prefill) /\ Len(plan.prefill) \in Nat
      /\ DOMAIN plan'.prefill = 1 .. Len(plan.prefill) + 1
      /\ \A i \in DOMAIN plan.prefill : plan'.prefill[i] = plan.prefill[i]
      /\ plan'.prefill[Len(plan.prefill) + 1] = w
  BY AppendWork DEF PlanInv
<1>2. Cardinality(PrefillTickets) \in Nat /\ MaxPrefillTokens \in Nat
  BY FS_CardinalityType, LimitsAssumption
<1>3. n <= MaxPrefillTokens
  BY <1>2
<1>4. IsFiniteSet(new) /\ Cardinality(new) = n
  <2>1. \A a, b \in Nat : a <= b =>
            IsFiniteSet({k} \X (a + 1 .. b)) /\ Cardinality({k} \X (a + 1 .. b)) = b - a
    BY TicketsOfOne
  <2>2. 0 \in Nat /\ 0 <= n
    OBVIOUS
  <2>3. IsFiniteSet(new) /\ Cardinality(new) = n - 0
    BY <2>1, <2>2
  <2>4. QED
    BY <2>3
<1>5. PrefillTickets' = PrefillTickets \cup new
  <2>1. \A i \in DOMAIN plan.prefill : i # k
    BY <1>1
  <2>2. DOMAIN plan'.prefill = DOMAIN plan.prefill \cup {k}
    BY <1>1
  <2>3. PrefillTickets' = {t \in (DOMAIN plan.prefill \cup {k}) \X (1 .. MaxPrefillTokens) :
                              t[2] <= plan'.prefill[t[1]].count}
    BY <2>2 DEF PrefillTickets
  <2>4. \A t \in (DOMAIN plan.prefill) \X (1 .. MaxPrefillTokens) :
            t[2] <= plan'.prefill[t[1]].count <=> t[2] <= plan.prefill[t[1]].count
    BY <1>1
  <2>5. \A t \in {k} \X (1 .. MaxPrefillTokens) :
            t[2] <= plan'.prefill[t[1]].count <=> t \in new
    BY <1>1, <1>3
  <2>6. new \subseteq {k} \X (1 .. MaxPrefillTokens)
    BY <1>2, <1>3
  <2>7. QED
    BY <2>3, <2>4, <2>5, <2>6 DEF PrefillTickets
<1>6. PrefillTickets \cap new = {}
  BY <1>1 DEF PrefillTickets
<1> HIDE DEF new
<1>7. /\ IsFiniteSet(PrefillTickets \cup new)
      /\ Cardinality(PrefillTickets \cup new)
            = Cardinality(PrefillTickets) + Cardinality(new) - Cardinality(PrefillTickets \cap new)
  BY <1>4, FS_Union
<1>8. Cardinality(PrefillTickets \cap new) = 0
  BY <1>6, FS_EmptySet
<1>9. QED
  BY <1>2, <1>4, <1>5, <1>7, <1>8

\* A planned prefill takes one row and its chunk of the budget.
LEMMA PlanPrefillKeepsPlans ==
    ASSUME SchedInv, PlansInv, PlanPrefill
    PROVE  PlansInv'
<1>1. /\ phase = "plan_prefill" /\ UNCHANGED <<phase, requestVars>>
      /\ PlanInv /\ budget \in Nat
  BY PlanPrefillEffect DEF SchedInv, ControlTypeOK
<1>2. CASE UNCHANGED <<plan, inflight, budget>>
  <2>1. PlannedIds' = PlannedIds /\ ChunkLimit' = ChunkLimit /\ PrefillTickets' = PrefillTickets
    BY <1>2 DEF PlannedIds, ChunkLimit, PrefillTickets
  <2>2. WorksDistinct'
    BY <1>2 DEF PlansInv, WorksDistinct
  <2>3. Planning' => \A r \in Requests : r \in PlannedIds' <=> ~Idle(r)'
    BY <1>1, <1>2, <2>1 DEF PlansInv, Planning, Idle
  <2>4. QED
    BY <1>1, <1>2, <2>1, <2>2, <2>3 DEF PlansInv
<1>3. ASSUME NEW w \in PrefillWorks,
             /\ state[w.id] = "PREFILL" /\ Idle(w.id)
             /\ w.count = ChunkCount(w.id) /\ w.count > 0 /\ w.count <= budget
             /\ plan'.decode = plan.decode
             /\ plan'.prefill = Append(plan.prefill, w)
             /\ inflight' = [inflight EXCEPT ![w.id] =
                                [kind |-> "prefill", count |-> w.count]]
             /\ budget' = budget - w.count
      PROVE  PlansInv'
  <2>1. w.id \in Requests /\ w.count \in Nat
    BY DEF PrefillWorks
  <2>2. w.id \notin PlannedIds
    BY <1>1, <1>3, <2>1 DEF PlansInv, Planning
  <2>3. /\ Len(plan'.prefill) = Len(plan.prefill) + 1 /\ Len(plan.prefill) \in Nat
        /\ DOMAIN plan.prefill = 1 .. Len(plan.prefill)
        /\ DOMAIN plan'.prefill = 1 .. Len(plan.prefill) + 1
        /\ \A i \in DOMAIN plan.prefill : plan'.prefill[i] = plan.prefill[i]
        /\ plan'.prefill[Len(plan.prefill) + 1] = w
    BY <1>1, <1>3, AppendWork DEF PlanInv
  <2>4. PlannedIds' = PlannedIds \cup {w.id}
    <3>1. {plan'.prefill[i].id : i \in DOMAIN plan'.prefill}
            = {plan.prefill[i].id : i \in DOMAIN plan.prefill} \cup {w.id}
      BY SMTT(30), <2>3
    <3>2. QED
      BY <1>3, <3>1 DEF PlannedIds
  <2>5. Cardinality(PlannedIds') = Len(plan'.decode) + Len(plan'.prefill) /\ IsFiniteSet(PlannedIds')
    <3>1. Cardinality(PlannedIds') = Cardinality(PlannedIds) + 1 /\ IsFiniteSet(PlannedIds')
      BY <2>2, <2>4, FS_AddElement DEF PlansInv
    <3>2. Len(plan.decode) \in Nat
      BY <1>1 DEF PlanInv
    <3>3. Cardinality(PlannedIds) = Len(plan.decode) + Len(plan.prefill)
      BY DEF PlansInv
    <3>4. Len(plan'.prefill) = Len(plan.prefill) + 1 /\ Len(plan.prefill) \in Nat
          /\ Len(plan'.decode) = Len(plan.decode)
      BY <1>3, <2>3
    <3> DEFINE a == Len(plan.decode)  b == Len(plan.prefill)  c == Cardinality(PlannedIds)
               d == Cardinality(PlannedIds')
    <3> HIDE DEF a, b, c, d
    <3>5. a \in Nat /\ b \in Nat /\ c = a + b /\ d = c + 1
      BY <3>1, <3>2, <3>3, <3>4 DEF a, b, c, d
    <3>6. d = a + (b + 1)
      BY <3>5
    <3>7. Cardinality(PlannedIds') = Len(plan'.decode) + Len(plan'.prefill)
      BY <3>4, <3>6 DEF a, b, d
    <3>8. QED
      BY <3>1, <3>7
  <2>6. WorksDistinct'
    <3>1. /\ \A i \in DOMAIN plan.prefill : plan.prefill[i].id # w.id
          /\ \A i \in DOMAIN plan.decode : plan.decode[i].id # w.id
      BY <2>2 DEF PlannedIds
    <3>2. \A i \in DOMAIN plan'.prefill :
              i \in DOMAIN plan.prefill \/ i = Len(plan.prefill) + 1
      BY <2>3
    <3>3. \A i, j \in DOMAIN plan'.prefill : plan'.prefill[i].id = plan'.prefill[j].id => i = j
      <4> SUFFICES ASSUME NEW i \in DOMAIN plan'.prefill, NEW j \in DOMAIN plan'.prefill,
                          plan'.prefill[i].id = plan'.prefill[j].id
                   PROVE  i = j
        OBVIOUS
      <4>1. \A x, y \in DOMAIN plan.prefill : plan.prefill[x].id = plan.prefill[y].id => x = y
        BY DEF PlansInv, WorksDistinct
      <4>2. QED
        BY <2>3, <3>1, <3>2, <4>1
    <3>4. \A i \in DOMAIN plan'.decode, j \in DOMAIN plan'.prefill :
              plan'.decode[i].id # plan'.prefill[j].id
      <4> SUFFICES ASSUME NEW i \in DOMAIN plan.decode, NEW j \in DOMAIN plan'.prefill
                   PROVE  plan.decode[i].id # plan'.prefill[j].id
        BY <1>3
      <4>1. \A x \in DOMAIN plan.decode, y \in DOMAIN plan.prefill :
                plan.decode[x].id # plan.prefill[y].id
        BY DEF PlansInv, WorksDistinct
      <4>2. QED
        BY <2>3, <3>1, <3>2, <4>1
    <3>5. QED
      BY <1>3, <3>3, <3>4 DEF PlansInv, WorksDistinct
  <2>7. \A r \in Requests : r \in PlannedIds' <=> ~Idle(r)'
    <3>1. /\ ~Idle(w.id)'
          /\ \A q \in Requests : q # w.id => (Idle(q)' <=> Idle(q))
      BY <1>3, <2>1, BusyNow DEF SchedInv, ControlTypeOK
    <3>2. QED
      BY <1>1, <2>4, <3>1 DEF PlansInv, Planning
  <2>8. \A i \in DOMAIN plan'.prefill : plan'.prefill[i].count <= ChunkLimit'
    <3>1. ChunkLimit' = ChunkLimit
      BY <1>3 DEF ChunkLimit
    <3>2. RemainingPrompt(w.id) \in Int
      <4>1. cursor[w.id] \in Nat
        BY <2>1 DEF SchedInv, ControlTypeOK
      <4>2. Unfinished(w.id)
        BY <1>3 DEF Unfinished, Active
      <4>3. QED
        BY <2>1, <4>1, <4>2, ShapeTypes DEF RemainingPrompt
    <3>3. w.count <= ChunkLimit
      BY <1>1, <1>3, <3>2, ChunkBounds
    <3>4. \A i \in DOMAIN plan.prefill : plan.prefill[i].count <= ChunkLimit
      BY DEF PlansInv
    <3>5. QED
      BY <2>3, <3>1, <3>3, <3>4
  <2>9. /\ IsFiniteSet(PrefillTickets')
        /\ Cardinality(PrefillTickets') = MaxPrefillTokens - budget'
    BY <1>1, <1>3, <2>1, SpendBudget DEF PlansInv
  <2>10. QED
    BY <2>5, <2>6, <2>7, <2>8, <2>9 DEF PlansInv
<1>4. QED
  BY <1>2, <1>3, PlanPrefillEffect

\* The empty plan is within the limits.
LEMMA PlansInitInv == SchedInit => PlansInv
<1> SUFFICES ASSUME SchedInit PROVE PlansInv
  OBVIOUS
<1>1. plan.decode = <<>> /\ plan.prefill = <<>> /\ phase = "idle"
  BY DEF SchedInit, NoPlan
<1>2. PlannedIds = {}
  BY <1>1 DEF PlannedIds
<1>3. Cardinality(PlannedIds) = 0 /\ IsFiniteSet(PlannedIds)
  BY <1>2, FS_EmptySet
<1>4. QED
  BY <1>1, <1>3 DEF PlansInv, WorksDistinct, Planning

\* Every step keeps the plan within its limits.
LEMMA PlansNextInv == SchedInv /\ PlansInv /\ [SchedNext]_schedVars => PlansInv'
BY PlansKept, PlanStarts, PlanDecodeKeepsPlans, PlanPrefillKeepsPlans

\* What a finished plan may ask of one step: no more works than the batch
\* takes, one work per request, no chunk above its limit (the smaller one
\* beside decodes) and no more prefill tokens than the budget, for all limits.
THEOREM PlansKeepLimits == SchedSpec => []PlanWithinLimits
<1>1. SchedInv /\ PlansInv => PlanWithinLimits
  <2> SUFFICES ASSUME SchedInv, PlansInv PROVE PlanWithinLimits
    OBVIOUS
  <2>1. Len(plan.decode) + Len(plan.prefill) <= MaxBatch
    BY DEF SchedInv, PlanInv
  <2>2. QED
    BY <2>1 DEF PlansInv, PlanWithinLimits, ChunkLimit, PrefillTickets
<1>2. QED
  BY <1>1, PlansInitInv, PlansNextInv, SchedInvariant, PTL DEF SchedSpec

-----------------------------------------------------------------------------
\* Every step keeps OrderInv.

\* One request becomes busy.
BecomesBusy(before, after, r) ==
    /\ after[r] # NoWork
    /\ \A x \in Requests : x # r => after[x] = before[x]

\* When the head of a queue becomes busy and rotates, the busy ones still stand
\* at its end, one more than before.
LEMMA RotateServed ==
    ASSUME NEW q \in Seq(Requests), q # <<>>, Distinct(q), NEW n \in Nat, NEW f, NEW g,
           ServedAtEnd(q, f, n), BecomesBusy(f, g, q[1])
    PROVE  ServedAtEnd(Rotate(q), g, n + 1)
<1>1. /\ Len(q) \in Nat \ {0} /\ DOMAIN q = 1 .. Len(q)
      /\ DOMAIN Rotate(q) = 1 .. Len(q) /\ Len(Rotate(q)) = Len(q)
      /\ Rotate(q)[Len(q)] = q[1]
      /\ \A i \in 1 .. Len(q) - 1 : Rotate(q)[i] = q[i + 1]
  BY DEF Rotate
<1> SUFFICES ASSUME NEW i \in 1 .. Len(q)
             PROVE  g[Rotate(q)[i]] = NoWork <=> i <= Len(q) - (n + 1)
  BY <1>1 DEF ServedAtEnd
<1>2. CASE i = Len(q)
  BY <1>1, <1>2 DEF BecomesBusy
<1>3. CASE i \in 1 .. Len(q) - 1
  <2>1. i + 1 \in 1 .. Len(q) /\ 1 \in 1 .. Len(q) /\ i + 1 # 1
    BY <1>1, <1>3
  <2>2. q[i + 1] # q[1] /\ q[i + 1] \in Requests
    BY <1>1, <2>1 DEF Distinct
  <2>3. g[Rotate(q)[i]] = f[q[i + 1]]
    BY <1>1, <1>3, <2>2 DEF BecomesBusy
  <2>4. f[q[i + 1]] = NoWork <=> i + 1 <= Len(q) - n
    BY <1>1, <2>1 DEF ServedAtEnd
  <2>5. QED
    BY <1>1, <2>3, <2>4
<1>4. QED
  BY <1>2, <1>3

\* The steps that plan no work keep the order of service.
LEMMA OrderKept ==
    ASSUME SchedInv, OrderInv, [SchedNext]_schedVars,
           ~PlanSort, ~PlanDecode, ~PlanDecodeEnd, ~PlanPrefill
    PROVE  OrderInv'
<1>1. CASE ~Planning'
  BY <1>1 DEF OrderInv, Planning
<1>2. CASE UNCHANGED schedVars
  BY <1>2 DEF OrderInv, Planning, ServedAtEnd, schedVars, queueVars, planVars
<1>3. QED
  BY <1>1, <1>2, WorksUntouched

\* Sorting starts a pass in which nobody is served yet.
LEMMA PlanSortOrders ==
    ASSUME SchedInv, PlanSort
    PROVE  OrderInv'
<1>1. /\ phase = "plan_expire" /\ phase' = "plan_decode"
      /\ plan'.decode = <<>>
      /\ todo' = MinOf(Len(decodeQ), MaxBatch)
      /\ inflight' = inflight
  BY DEF PlanSort, NoPlan
<1>2. PICK p \in [DOMAIN decodeQ -> DOMAIN decodeQ] :
          /\ SortsByPriority(p, decodeQ)
          /\ decodeQ' = [i \in DOMAIN decodeQ |-> decodeQ[p[i]]]
  BY DEF PlanSort
<1>3. decodeQ' \in Seq(Requests) /\ Len(decodeQ') = Len(decodeQ) /\ Len(decodeQ) \in Nat
  <2>1. decodeQ \in Seq(Requests) /\ Distinct(decodeQ)
    BY Queues
  <2>2. shape \in [Requests -> Shapes \cup {NoShape}]
    BY DEF SchedInv, ControlTypeOK
  <2>3. QED
    BY <1>2, <2>1, <2>2, SortQueue
<1>4. \A i \in DOMAIN decodeQ' : inflight'[decodeQ'[i]] = NoWork /\ i <= Len(decodeQ')
  <2>1. \A r \in Requests : inflight[r] = NoWork
    BY <1>1 DEF SchedInv, LoopInv, NothingInFlight, Idle
  <2>2. QED
    BY <1>1, <1>3, <2>1
<1>5. MinOf(Len(decodeQ), MaxBatch) \in Nat
  BY <1>3, LimitsAssumption DEF MinOf
<1>6. QED
  <2>1. Len(plan'.decode) = 0
    BY <1>1
  <2>2. ServedAtEnd(decodeQ, inflight, Len(plan.decode))'
    BY <1>3, <1>4, <2>1 DEF ServedAtEnd
  <2>3. Len(plan'.decode) + todo' = MinOf(Len(decodeQ'), MaxBatch)
    BY <1>1, <1>3, <1>5, <2>1
  <2>4. QED
    BY <1>1, <2>2, <2>3 DEF OrderInv

\* A decode that is served goes to the end of its queue.
LEMMA PlanDecodeKeepsOrder ==
    ASSUME SchedInv, OrderInv, PlanDecode
    PROVE  OrderInv'
<1>1. PICK w \in DecodeWorks :
          /\ phase = "plan_decode" /\ todo \in Nat
          /\ decodeQ # <<>> /\ decodeQ[1] = w.id
          /\ plan'.decode = Append(plan.decode, w)
          /\ inflight' = [inflight EXCEPT ![w.id] = [kind |-> "decode", count |-> 1]]
          /\ decodeQ' = Rotate(decodeQ)
          /\ todo' = todo - 1
          /\ phase' = phase
  BY PlanDecodeEffect
<1>2. w.id \in Requests /\ decodeQ \in Seq(Requests) /\ Distinct(decodeQ)
  BY Queues DEF DecodeWorks
<1>3. Len(plan'.decode) = Len(plan.decode) + 1 /\ Len(plan.decode) \in Nat
  <2>1. plan.decode \in Seq(DecodeWorks)
    BY DEF SchedInv, PlanInv
  <2>2. QED
    BY <1>1, <2>1, AppendWork
<1>4. BecomesBusy(inflight, inflight', decodeQ[1])
  BY <1>1, <1>2 DEF SchedInv, ControlTypeOK, NoWork, BecomesBusy
<1>5. ServedAtEnd(decodeQ, inflight, Len(plan.decode))
  BY <1>1 DEF OrderInv, Planning
<1>6. ServedAtEnd(Rotate(decodeQ), inflight', Len(plan.decode) + 1)
  BY <1>1, <1>2, <1>3, <1>4, <1>5, RotateServed
<1>7. ServedAtEnd(decodeQ, inflight, Len(plan.decode))'
  BY <1>1, <1>3, <1>6
<1>8. Len(decodeQ') = Len(decodeQ)
  BY <1>1, <1>2, RotateQueue
<1>9. Len(plan'.decode) + todo' = MinOf(Len(decodeQ'), MaxBatch)
  <2>1. Len(plan.decode) + todo = MinOf(Len(decodeQ), MaxBatch)
    BY <1>1 DEF OrderInv
  <2>2. Len(plan.decode) + 1 + (todo - 1) = Len(plan.decode) + todo
    BY <1>1, <1>3
  <2>3. QED
    BY <1>1, <1>3, <1>8, <2>1, <2>2
<1>10. QED
  BY <1>1, <1>7, <1>9 DEF OrderInv

\* The prefill pass starts with nobody served.
LEMMA PlanDecodeEndKeepsOrder ==
    ASSUME SchedInv, OrderInv, PlanDecodeEnd
    PROVE  OrderInv'
<1>1. /\ phase = "plan_decode" /\ todo = 0 /\ phase' = "plan_prefill"
      /\ todo' = MinOf(Len(prefillQ), RemainingSlots)
      /\ UNCHANGED <<queueVars, plan>>
  BY DEF PlanDecodeEnd
<1>2. plan.prefill = <<>> /\ \A r \in Requests : state[r] = "PREFILL" => Idle(r)
  BY <1>1 DEF SchedInv, LoopInv
<1>3. ServedAtEnd(decodeQ, inflight, Len(plan.decode))'
  BY <1>1 DEF OrderInv, Planning, ServedAtEnd, queueVars
<1>4. ServedAtEnd(prefillQ, inflight, Len(plan.prefill))'
  <2>1. /\ prefillQ \in Seq(Requests)
        /\ \A r \in Requests : state[r] = "PREFILL" <=> Has(prefillQ, r)
    BY Queues
  <2>2. \A i \in DOMAIN prefillQ : Idle(prefillQ[i]) /\ i <= Len(prefillQ)
    BY <1>2, <2>1 DEF Has
  <2>3. Len(prefillQ) - 0 = Len(prefillQ) /\ Len(plan.prefill) = 0
    BY <1>2, <2>1
  <2>4. QED
    BY <1>1, <2>2, <2>3 DEF ServedAtEnd, Idle, queueVars
<1>5. /\ Len(plan.decode) = MinOf(Len(decodeQ), MaxBatch)
      /\ todo' > 0 => Len(plan.decode) = Len(decodeQ)
      /\ plan.decode = <<>> /\ prefillQ # <<>> => todo' > 0
  <2>1. Len(plan.decode) \in Nat /\ Len(decodeQ) \in Nat /\ Len(prefillQ) \in Nat
    BY Queues DEF SchedInv, PlanInv
  <2>2. Len(plan.decode) + 0 = MinOf(Len(decodeQ), MaxBatch)
    BY <1>1 DEF OrderInv
  <2>3. todo' > 0 => MaxBatch - Len(plan.decode) > 0
    BY <1>1, <2>1, LimitsAssumption DEF MinOf, RemainingSlots
  <2>4. todo' > 0 => Len(plan.decode) = Len(decodeQ)
    BY <2>1, <2>2, <2>3, LimitsAssumption DEF MinOf
  <2>5. ASSUME plan.decode = <<>>, prefillQ # <<>> PROVE todo' > 0
    <3>1. Len(plan.decode) = 0 /\ Len(prefillQ) > 0
      BY <2>5, Queues
    <3>2. QED
      BY <1>1, <2>1, <3>1, LimitsAssumption DEF MinOf, RemainingSlots
  <2>6. QED
    BY <2>1, <2>2, <2>4, <2>5
<1>6. QED
  BY <1>1, <1>2, <1>3, <1>4, <1>5 DEF OrderInv, queueVars

\* The first chunk always fits the budget.
LEMMA FirstChunkFits ==
    ASSUME SchedInv, PlansInv, PlanPrefill, plan.prefill = <<>>
    PROVE  prefillQ' = Rotate(prefillQ) /\ prefillQ # <<>> /\ plan'.prefill # <<>>
<1>1. phase = "plan_prefill" /\ todo > 0
  BY DEF PlanPrefill
<1>r. PICK r \in Requests : r = Head(prefillQ)
  BY <1>1, PrefillHead
<1>2. /\ state[r] = "PREFILL" /\ prefillQ # <<>>
      /\ ChunkCount(r) \in Int
      /\ ChunkCount(r) > 0 => CanAppend(r, ChunkCount(r))
  BY <1>1, <1>r, PrefillHead
<1>3. budget = MaxPrefillTokens /\ budget \in Nat \ {0}
  <2>1. PrefillTickets = {}
    BY DEF PrefillTickets
  <2>2. Cardinality(PrefillTickets) = 0
    BY <2>1, FS_EmptySet
  <2>3. 0 = MaxPrefillTokens - budget /\ budget \in Nat
    BY <1>1, <2>2 DEF PlansInv, SchedInv, ControlTypeOK
  <2>4. QED
    BY <2>3, LimitsAssumption
<1>4. RemainingPrompt(r) \in Nat \ {0}
  <2>1. Unfinished(r) /\ cursor[r] \in Nat /\ cursor[r] < shape[r].prompt
    BY <1>2 DEF SchedInv, ControlTypeOK, RequestInv, Unfinished, Active
  <2>2. shape[r].prompt \in Nat
    BY <2>1, ShapeTypes
  <2>3. QED
    BY <2>1, <2>2 DEF RemainingPrompt
<1>5. ChunkLimit \in Nat \ {0}
  BY LimitsAssumption DEF ChunkLimit, MinOf
<1>6. ChunkCount(r) > 0
  BY <1>3, <1>4, <1>5 DEF ChunkCount, MinOf
<1>7. prefillQ' = Rotate(prefillQ) /\ \E w : plan' = [plan EXCEPT !.prefill = Append(@, w)]
  BY <1>r, <1>2, <1>6 DEF PlanPrefill
<1>8. PICK w : plan'.prefill = Append(plan.prefill, w)
  <2>1. plan = [decode |-> plan.decode, prefill |-> plan.prefill, graph |-> plan.graph]
    BY DEF SchedInv, PlanInv
  <2>2. QED
    BY <1>7, <2>1
<1>9. Append(plan.prefill, w) # <<>>
  BY DEF SchedInv, PlanInv
<1>10. QED
  BY <1>2, <1>7, <1>8, <1>9

\* A prefill that is served goes to the end of its queue.
LEMMA PlanPrefillKeepsOrder ==
    ASSUME SchedInv, PlansInv, OrderInv, PlanPrefill
    PROVE  OrderInv'
<1>1. /\ phase = "plan_prefill" /\ todo > 0 /\ phase' = phase /\ decodeQ' = decodeQ
  BY PlanPrefillEffect
<1>2. CASE UNCHANGED <<prefillQ, inflight, plan>> /\ todo' = 0
  <2>1. plan.prefill # <<>>
    BY <1>2, FirstChunkFits
  <2>2. QED
    BY <1>1, <1>2, <2>1 DEF OrderInv, Planning, ServedAtEnd
<1>3. ASSUME NEW w \in PrefillWorks,
             /\ prefillQ # <<>> /\ prefillQ[1] = w.id /\ state[w.id] = "PREFILL"
             /\ plan'.decode = plan.decode
             /\ plan'.prefill = Append(plan.prefill, w)
             /\ inflight' = [inflight EXCEPT ![w.id] =
                                [kind |-> "prefill", count |-> w.count]]
             /\ prefillQ' = Rotate(prefillQ)
      PROVE  OrderInv'
  <2>1. /\ w.id \in Requests
        /\ prefillQ \in Seq(Requests) /\ Distinct(prefillQ)
        /\ decodeQ \in Seq(Requests)
        /\ \A r \in Requests : state[r] = "DECODE" <=> Has(decodeQ, r)
    BY Queues DEF PrefillWorks
  <2>2. Len(plan'.prefill) = Len(plan.prefill) + 1 /\ Len(plan.prefill) \in Nat
    <3>1. plan.prefill \in Seq(PrefillWorks)
      BY DEF SchedInv, PlanInv
    <3>2. QED
      BY <1>3, <3>1, AppendWork
  <2>3. BecomesBusy(inflight, inflight', prefillQ[1])
    BY <1>3, <2>1 DEF SchedInv, ControlTypeOK, NoWork, BecomesBusy
  <2>4. ServedAtEnd(prefillQ, inflight, Len(plan.prefill))
    BY <1>1 DEF OrderInv
  <2>5. ServedAtEnd(Rotate(prefillQ), inflight', Len(plan.prefill) + 1)
    BY <1>3, <2>1, <2>2, <2>3, <2>4, RotateServed
  <2>6. ServedAtEnd(prefillQ, inflight, Len(plan.prefill))'
    BY <1>3, <2>2, <2>5
  <2>7. ServedAtEnd(decodeQ, inflight, Len(plan.decode))'
    <3>1. \A i \in DOMAIN decodeQ : decodeQ[i] \in Requests /\ decodeQ[i] # w.id
      <4> SUFFICES ASSUME NEW i \in DOMAIN decodeQ
                   PROVE  decodeQ[i] \in Requests /\ decodeQ[i] # w.id
        OBVIOUS
      <4>1. decodeQ[i] \in Requests
        BY <2>1
      <4>2. state[decodeQ[i]] = "DECODE"
        BY <2>1, <4>1 DEF Has
      <4>3. QED
        BY <1>3, <4>1, <4>2
    <3>2. ServedAtEnd(decodeQ, inflight, Len(plan.decode))
      BY <1>1 DEF OrderInv, Planning
    <3>3. QED
      BY <1>1, <1>3, <2>3, <3>1, <3>2 DEF ServedAtEnd, BecomesBusy
  <2>8. Len(plan.decode) = Len(decodeQ) /\ Len(plan.decode) = MinOf(Len(decodeQ), MaxBatch)
    BY <1>1 DEF OrderInv
  <2>9. plan'.prefill # <<>>
    <3>1. Len(plan'.prefill) # 0
      BY <2>2
    <3>2. QED
      BY <3>1
  <2>10. QED
    BY <1>1, <1>3, <2>6, <2>7, <2>8, <2>9 DEF OrderInv
<1>4. QED
  BY <1>2, <1>3, PlanPrefillEffect

\* Every step keeps the order of service.
LEMMA OrderNextInv == SchedInv /\ PlansInv /\ OrderInv /\ [SchedNext]_schedVars => OrderInv'
BY OrderKept, PlanSortOrders, PlanDecodeKeepsOrder, PlanDecodeEndKeepsOrder, PlanPrefillKeepsOrder

\* Decode first, then round robin: no chunk is planned while a decode request is
\* left out, and whoever a plan served stands behind the others of its queue.
THEOREM PlansServeInTurn == SchedSpec => []DecodeFirstRoundRobin
<1>1. SchedInit => OrderInv
  BY DEF SchedInit, OrderInv, Planning
<1>2. SchedInv /\ OrderInv => DecodeFirstRoundRobin
  <2> SUFFICES ASSUME SchedInv, OrderInv, PlanComplete
               PROVE  /\ plan.prefill # <<>> =>
                           \A r \in Requests : state[r] = "DECODE" => ~Idle(r)
                      /\ ServedLast(decodeQ)
                      /\ ServedLast(prefillQ)
    BY DEF DecodeFirstRoundRobin
  <2>1. /\ decodeQ \in Seq(Requests) /\ prefillQ \in Seq(Requests)
        /\ \A r \in Requests : state[r] = "DECODE" <=> Has(decodeQ, r)
    BY Queues
  <2>2. /\ ServedAtEnd(decodeQ, inflight, Len(plan.decode)) /\ ServedAtEnd(prefillQ, inflight, Len(plan.prefill))
        /\ plan.prefill # <<>> => Len(plan.decode) = Len(decodeQ)
    BY DEF PlanComplete, OrderInv, Planning
  <2>3. Len(plan.decode) \in Nat /\ Len(plan.prefill) \in Nat
    BY DEF SchedInv, PlanInv
  <2>4. ASSUME plan.prefill # <<>>, NEW r \in Requests, state[r] = "DECODE"
        PROVE  ~Idle(r)
    <3>1. PICK i \in DOMAIN decodeQ : decodeQ[i] = r
      BY <2>1, <2>4 DEF Has
    <3>2. i \in 1 .. Len(decodeQ) /\ Len(decodeQ) \in Nat /\ ~(i <= Len(decodeQ) - Len(decodeQ))
      BY <2>1
    <3>3. QED
      BY <2>2, <2>4, <3>1, <3>2 DEF ServedAtEnd, Idle
  <2>5. ServedLast(decodeQ)
    BY <2>1, <2>2, <2>3 DEF ServedAtEnd, ServedLast, Idle
  <2>6. ServedLast(prefillQ)
    BY <2>1, <2>2, <2>3 DEF ServedAtEnd, ServedLast, Idle
  <2>7. QED
    BY <2>4, <2>5, <2>6
<1>3. QED
  BY <1>1, <1>2, PlansInitInv, PlansNextInv, OrderNextInv, SchedInvariant, PTL DEF SchedSpec

-----------------------------------------------------------------------------
\* The slots of a plan.

\* While a plan is built, the slots of its works are those the tables give to
\* the tokens they are about to write.
SlotsInv ==
    Planning =>
        /\ \A i \in DOMAIN plan.decode :
              LET w == plan.decode[i] IN
              /\ len[w.id] = w.pos + 1
              /\ w.slot = Slot(table[w.id], w.pos)
        /\ \A i \in DOMAIN plan.prefill :
              LET w == plan.prefill[i] IN
              /\ w.count <= len[w.id]
              /\ w.slots = Slots(table[w.id], len[w.id] - w.count, w.count)

\* A reservation touches the table and the length of one request only.
LEMMA ReserveFrame ==
    ASSUME KVInv, NEW r \in Requests, NEW n \in Nat, Reserve(r, n)
    PROVE  /\ len' = [len EXCEPT ![r] = @ + n]
           /\ len'[r] = len[r] + n /\ len[r] \in Nat
           /\ \A q \in Requests : q # r => len'[q] = len[q] /\ table'[q] = table[q]
<1>1. len \in [Requests -> Nat] /\ table \in [Requests -> Seq(Blocks)]
  BY DEF KVInv, KVTypeOK
<1>2. /\ len' = [len EXCEPT ![r] = @ + n]
      /\ \E s : table' = [table EXCEPT ![r] = @ \o s]
  BY DEF Reserve
<1>3. QED
  BY <1>1, <1>2

\* Works on other requests keep their slots.
LEMMA OtherSlotsKept ==
    ASSUME SchedInv, PlansInv, SlotsInv, Planning, NEW r \in Requests, Idle(r),
           NEW n \in Nat, Reserve(r, n)
    PROVE  /\ \A i \in DOMAIN plan.decode :
                 LET w == plan.decode[i] IN
                 len'[w.id] = w.pos + 1 /\ w.slot = Slot(table'[w.id], w.pos)
           /\ \A i \in DOMAIN plan.prefill :
                 LET w == plan.prefill[i] IN
                 /\ w.count <= len'[w.id]
                 /\ w.slots = Slots(table'[w.id], len'[w.id] - w.count, w.count)
<1>1. r \notin PlannedIds
  BY DEF PlansInv
<1>2. /\ \A i \in DOMAIN plan.decode : plan.decode[i].id \in Requests \ {r}
      /\ \A i \in DOMAIN plan.prefill : plan.prefill[i].id \in Requests \ {r}
  BY <1>1, WorksNameRequests DEF SchedInv, PlannedIds
<1>3. \A q \in Requests \ {r} : len'[q] = len[q] /\ table'[q] = table[q]
  BY ReserveFrame DEF SchedInv
<1>4. ASSUME NEW i \in DOMAIN plan.decode
      PROVE  /\ len'[plan.decode[i].id] = plan.decode[i].pos + 1
             /\ plan.decode[i].slot = Slot(table'[plan.decode[i].id], plan.decode[i].pos)
  BY <1>2, <1>3 DEF SlotsInv
<1>5. ASSUME NEW i \in DOMAIN plan.prefill
      PROVE  LET w == plan.prefill[i] IN
             /\ w.count <= len'[w.id]
             /\ w.slots = Slots(table'[w.id], len'[w.id] - w.count, w.count)
  BY <1>2, <1>3 DEF SlotsInv
<1>6. QED
  BY <1>4, <1>5

\* The slot a decode is given is the one after its tokens.
LEMMA PlanDecodeKeepsSlots ==
    ASSUME SchedInv, PlansInv, SlotsInv, PlanDecode
    PROVE  SlotsInv'
<1>1. PICK w \in DecodeWorks :
          /\ phase = "plan_decode" /\ Idle(w.id)
          /\ w.pos = len[w.id] /\ w.slot = Slot(table'[w.id], len[w.id])
          /\ plan.prefill = <<>>
          /\ plan'.decode = Append(plan.decode, w)
          /\ plan'.prefill = plan.prefill
          /\ Reserve(w.id, 1)
  BY PlanDecodeEffect
<1>2. w.id \in Requests /\ Planning
  BY <1>1 DEF DecodeWorks, Planning
<1>3. len'[w.id] = w.pos + 1 /\ w.slot = Slot(table'[w.id], w.pos)
  BY <1>1, <1>2, ReserveFrame DEF SchedInv
<1>4. \A i \in DOMAIN plan.decode :
          /\ len'[plan.decode[i].id] = plan.decode[i].pos + 1
          /\ plan.decode[i].slot = Slot(table'[plan.decode[i].id], plan.decode[i].pos)
  BY <1>1, <1>2, OtherSlotsKept
<1>5. \A i \in DOMAIN plan'.decode :
          \/ i \in DOMAIN plan.decode /\ plan'.decode[i] = plan.decode[i]
          \/ plan'.decode[i] = w
  <2>1. plan.decode \in Seq(DecodeWorks)
    BY DEF SchedInv, PlanInv
  <2>2. QED
    BY <1>1, <2>1, AppendWork
<1>6. \A i \in DOMAIN plan'.decode :
          /\ len'[plan'.decode[i].id] = plan'.decode[i].pos + 1
          /\ plan'.decode[i].slot = Slot(table'[plan'.decode[i].id], plan'.decode[i].pos)
  BY <1>3, <1>4, <1>5
<1>7. plan'.prefill = <<>>
  BY <1>1
<1>8. QED
  BY <1>6, <1>7 DEF SlotsInv, Slot

\* The slots a prefill chunk is given are those of its positions.
LEMMA PlanPrefillKeepsSlots ==
    ASSUME SchedInv, PlansInv, SlotsInv, PlanPrefill
    PROVE  SlotsInv'
<1>1. phase = "plan_prefill" /\ phase' = phase /\ Planning
  BY PlanPrefillEffect DEF Planning
<1>2. CASE UNCHANGED <<kvVars, plan>>
  BY SMTT(60), <1>1, <1>2 DEF SlotsInv, Slot, Slots, kvVars
<1>3. ASSUME NEW w \in PrefillWorks,
             /\ Idle(w.id) /\ w.count > 0
             /\ w.slots = Slots(table'[w.id], len[w.id], w.count)
             /\ plan'.decode = plan.decode
             /\ plan'.prefill = Append(plan.prefill, w)
             /\ Reserve(w.id, w.count)
      PROVE  SlotsInv'
  <2>1. w.id \in Requests /\ w.count \in Nat
    BY DEF PrefillWorks
  <2>2. len'[w.id] = len[w.id] + w.count /\ len[w.id] \in Nat
    BY <1>3, <2>1, ReserveFrame DEF SchedInv
  <2>3. w.count <= len'[w.id] /\ w.slots = Slots(table'[w.id], len'[w.id] - w.count, w.count)
    <3>1. len'[w.id] - w.count = len[w.id]
      BY <2>1, <2>2
    <3>2. QED
      BY <1>3, <2>1, <2>2, <3>1
  <2>4. /\ \A i \in DOMAIN plan.decode :
              /\ len'[plan.decode[i].id] = plan.decode[i].pos + 1
              /\ plan.decode[i].slot = Slot(table'[plan.decode[i].id], plan.decode[i].pos)
        /\ \A i \in DOMAIN plan.prefill :
              LET v == plan.prefill[i] IN
              /\ v.count <= len'[v.id]
              /\ v.slots = Slots(table'[v.id], len'[v.id] - v.count, v.count)
    BY <1>1, <1>3, <2>1, OtherSlotsKept
  <2>5. \A i \in DOMAIN plan'.prefill :
            \/ i \in DOMAIN plan.prefill /\ plan'.prefill[i] = plan.prefill[i]
            \/ plan'.prefill[i] = w
    <3>1. plan.prefill \in Seq(PrefillWorks)
      BY DEF SchedInv, PlanInv
    <3>2. QED
      BY <1>3, <3>1, AppendWork
  <2>6. ASSUME NEW i \in DOMAIN plan'.prefill
        PROVE  LET v == plan'.prefill[i] IN
               /\ v.count <= len'[v.id]
               /\ v.slots = Slots(table'[v.id], len'[v.id] - v.count, v.count)
    <3>1. CASE i \in DOMAIN plan.prefill /\ plan'.prefill[i] = plan.prefill[i]
      BY <2>4, <3>1
    <3>2. CASE plan'.prefill[i] = w
      BY <2>3, <3>2
    <3>3. QED
      BY <2>5, <3>1, <3>2
  <2>7. \A i \in DOMAIN plan'.decode :
            /\ len'[plan'.decode[i].id] = plan'.decode[i].pos + 1
            /\ plan'.decode[i].slot = Slot(table'[plan'.decode[i].id], plan'.decode[i].pos)
    BY <1>3, <2>4
  <2>8. QED
    BY <2>6, <2>7 DEF SlotsInv, Slot, Slots
<1>4. QED
  BY <1>2, <1>3, PlanPrefillEffect

\* Every step keeps the planned slots those of their tables.
LEMMA SlotsNextInv == SchedInv /\ PlansInv /\ SlotsInv /\ [SchedNext]_schedVars => SlotsInv'
<1> SUFFICES ASSUME SchedInv, PlansInv, SlotsInv, [SchedNext]_schedVars PROVE SlotsInv'
  OBVIOUS
<1>1. CASE PlanSort
  BY <1>1 DEF PlanSort, NoPlan, SlotsInv
<1>2. CASE PlanDecodeEnd
  BY SMTT(30), <1>2 DEF PlanDecodeEnd, SlotsInv, Planning, Slot, Slots, kvVars
<1>3. CASE ~PlanSort /\ ~PlanDecode /\ ~PlanDecodeEnd /\ ~PlanPrefill
  <2>1. ~Planning' \/ UNCHANGED schedVars
    BY <1>3, WorksUntouched
  <2>2. QED
    BY <2>1 DEF SlotsInv, Planning, Slot, Slots, schedVars, planVars, kvVars
<1>4. QED
  BY <1>1, <1>2, <1>3, PlanDecodeKeepsSlots, PlanPrefillKeepsSlots

\* The block of a reserved position belongs to its request.
LEMMA SlotOwned ==
    ASSUME KVInv, NEW r \in Requests, NEW p \in 0 .. len[r] - 1
    PROVE  Slot(table[r], p)[1] \in BlocksOf(r)
<1>1. len[r] \in Nat /\ table[r] \in Seq(Blocks) /\ Len(table[r]) = BlocksForTokens(len[r])
  BY DEF KVInv, KVTypeOK, TableFitsLength
<1>2. p \div BlockSize + 1 \in 1 .. Len(table[r])
  BY <1>1, PositionInTable
<1>3. QED
  BY <1>1, <1>2 DEF Slot, BlocksOf
=============================================================================
